---------------------------- MODULE ApiRequests ----------------------------
(***************************************************************************)
(* Creating issues over the public API: a token is looked up, the request  *)
(* is counted against its limit, the answer to an idempotency key is       *)
(* replayed, and what is new is created and its answer kept in one         *)
(* transaction.  Tokens are rotated, a maintenance job sweeps what expired.*)
(***************************************************************************)
EXTENDS Handlers

CONSTANTS
  Token,       \* ApiToken
  RequestKey,  \* idempotency keys of the clients
  RateLimit    \* requests in a window, 120 in the code

\* over: its window has passed; old: older than a day.
RateLimitBucket == [count : Nat, over : BOOLEAN]
ApiIdempotency  == [issue : Nat, old : BOOLEAN]

Key == Token \X RequestKey

ASSUME ApiAssumption ==
  /\ IsFiniteSet(Handler)
  /\ RateLimit \in Nat \ {0}
  /\ None \notin Key \cup RateLimitBucket \cup ApiIdempotency

VARIABLES
  token,    \* "none", "live", "revoked"
  bucket,   \* RateLimitBucket of each token, or None
  stored,   \* ApiIdempotency of each key, or None
  sequence, \* Project.issueSequence
  made,     \* issues, and the webhook that tells of each: [key, number]
  replies,  \* history: numbers that were answered to a key
  swept,    \* history: keys whose stored answer was removed
  passed,   \* history: requests let through in the window of the bucket
  restarts  \* history: times its count was set back in that window

counts  == <<passed, restarts>>
apiVars == <<token, bucket, stored, sequence, made, replies, swept, counts>>

ApiInit ==
  /\ token = [t \in Token |-> "none"]
  /\ bucket = [t \in Token |-> None]
  /\ stored = [k \in Key |-> None]
  /\ sequence = 0
  /\ made = <<>>
  /\ replies = [k \in Key |-> {}]
  /\ swept = {}
  /\ passed = [t \in Token |-> 0]
  /\ restarts = [t \in Token |-> 0]

---------------------------------------------------------------------------
(* Tokens, time and the sweep.                                             *)

CreateToken(t) ==
  /\ InOneStep /\ token[t] = "none"
  /\ token' = [token EXCEPT ![t] = "live"]
  /\ UNCHANGED <<bucket, stored, sequence, made, replies, swept, counts>>

RevokeToken(t) ==
  /\ InOneStep /\ token[t] = "live"
  /\ token' = [token EXCEPT ![t] = "revoked"]
  /\ UNCHANGED <<bucket, stored, sequence, made, replies, swept, counts>>

\* Whatever the old one was, the new one is live.
RotateToken(t, u) ==
  /\ InOneStep /\ token[t] # "none" /\ token[u] = "none"
  /\ token' = [token EXCEPT ![t] = "revoked", ![u] = "live"]
  /\ UNCHANGED <<bucket, stored, sequence, made, replies, swept, counts>>

WindowPasses(t) ==
  /\ bucket[t] # None /\ ~bucket[t].over
  /\ bucket' = [bucket EXCEPT ![t].over = TRUE]
  /\ UNCHANGED <<handlers, token, stored, sequence, made, replies, swept, counts>>

DayPasses(k) ==
  /\ stored[k] # None /\ ~stored[k].old
  /\ stored' = [stored EXCEPT ![k].old = TRUE]
  /\ UNCHANGED <<handlers, token, bucket, sequence, made, replies, swept, counts>>

Sweep ==
  LET aged == {k \in Key : stored[k] # None /\ stored[k].old} IN
  /\ InOneStep
  /\ bucket' = [t \in Token |-> IF bucket[t] # None /\ bucket[t].over THEN None ELSE bucket[t]]
  /\ stored' = [k \in Key |-> IF k \in aged THEN None ELSE stored[k]]
  /\ swept' = swept \cup aged
  /\ UNCHANGED <<token, sequence, made, replies, counts>>

---------------------------------------------------------------------------
(* A request.                                                              *)

Authenticate(h, k) ==
  /\ token[k[1]] = "live"
  /\ Enter(h, [op |-> "rate", key |-> k])
  /\ UNCHANGED apiVars

\* consumeRateLimit tests the count that it has read, and adds to the one that is there.
Exhausted(seen) == seen # None /\ ~seen.over /\ seen.count >= RateLimit

ReadBucket(h) ==
  /\ Busy(h, "rate")
  /\ LET seen == bucket[at[h].key[1]] IN
       IF Exhausted(seen) THEN Leave(h)
                          ELSE Proceed(h, [op |-> "count", key |-> at[h].key, seen |-> seen])
  /\ UNCHANGED apiVars

\* The request that begins a window is not counted in it.
FromZero == [count |-> 0, over |-> FALSE]

Started == [count |-> 1, over |-> FALSE]

\* A bucket that appeared or disappeared meanwhile is an error.
Surprised(h) == (at[h].seen = None) # (bucket[at[h].key[1]] = None)

\* Who has read a window that is over begins one, whether another has done so since or not:
\* what was counted in that one is forgotten.
BeginWindow(t) ==
  /\ bucket' = [bucket EXCEPT ![t] = Started]
  /\ IF bucket[t] = None \/ bucket[t].over
     THEN passed' = [passed EXCEPT ![t] = 1] /\ restarts' = [restarts EXCEPT ![t] = 0]
     ELSE passed' = [passed EXCEPT ![t] = @ + 1] /\ restarts' = [restarts EXCEPT ![t] = @ + 1]

JoinWindow(t) ==
  /\ bucket' = [bucket EXCEPT ![t].count = @ + 1]
  /\ passed' = [passed EXCEPT ![t] = @ + 1]
  /\ UNCHANGED restarts

CountRequest(h) == LET t == at[h].key[1]  seen == at[h].seen IN
  /\ Busy(h, "count")
  /\ IF Surprised(h) THEN Leave(h) /\ UNCHANGED <<bucket, counts>>
     ELSE /\ IF seen = None \/ seen.over THEN BeginWindow(t) ELSE JoinWindow(t)
          /\ Proceed(h, [op |-> "replay", key |-> at[h].key])
  /\ UNCHANGED <<token, stored, sequence, made, replies, swept>>

AnswerKey(k, number) == replies' = [replies EXCEPT ![k] = @ \cup {number}]

\* The answer may be lost on its way; clients try again with the key.
Replay(h) == LET k == at[h].key IN
  /\ Busy(h, "replay")
  /\ IF stored[k] = None
     THEN Proceed(h, [op |-> "create", key |-> k]) /\ UNCHANGED replies
     ELSE Leave(h) /\ AnswerKey(k, stored[k].issue)
  /\ UNCHANGED <<token, bucket, stored, sequence, made, swept, counts>>

Taken(k) == stored[k] # None

\* The increment locks the project; a stored answer of the key undoes everything.
CreateIssue(h) == LET k == at[h].key IN
  /\ Busy(h, "create")
  /\ IF Taken(k) THEN UNCHANGED <<stored, sequence, made, replies>>
     ELSE /\ sequence' = sequence + 1
          /\ made' = Append(made, [key |-> k, number |-> sequence'])
          /\ stored' = [stored EXCEPT ![k] = [issue |-> sequence', old |-> FALSE]]
          /\ AnswerKey(k, sequence')
  /\ Leave(h)
  /\ UNCHANGED <<token, bucket, swept, counts>>

\* The project or the input is refused, or a statement fails.
RefuseIssue(h) ==
  /\ at[h].op \in {"rate", "count", "replay", "create"}
  /\ Leave(h)
  /\ UNCHANGED apiVars

\* Issues are created in the application too.
CreateOtherwise ==
  /\ InOneStep
  /\ sequence' = sequence + 1
  /\ made' = Append(made, [key |-> None, number |-> sequence'])
  /\ UNCHANGED <<token, bucket, stored, replies, swept, counts>>

ApiNext ==
  \/ Sweep \/ CreateOtherwise
  \/ \E k \in Key : DayPasses(k)
  \/ \E t \in Token : WindowPasses(t) \/ CreateToken(t) \/ RevokeToken(t) \/ \E u \in Token : RotateToken(t, u)
  \/ \E h \in Handler :
       \/ \E k \in Key : Authenticate(h, k)
       \/ ReadBucket(h) \/ CountRequest(h) \/ Replay(h) \/ CreateIssue(h) \/ RefuseIssue(h)

---------------------------------------------------------------------------
\* What one count can come to: the limit, with the others that had read it below the limit.
MostCounted == RateLimit + Cardinality(Handler) - 1

(* However often a client tries again, and at the same time: a key of a    *)
(* token has made one issue at most, and every answer to it names that     *)
(* one, until the stored answer is swept after a day.  Issues have numbers *)
(* of their own, without gaps.  Every request let through in a window is   *)
(* counted, unless the count was set back by one that had read the window  *)
(* before; each other handler may have done that once in a window, and     *)
(* each time the limit starts again, with one more for every handler that  *)
(* had found room.                                                         *)
OncePerKey ==
  /\ \A k \in Key \ swept :
       LET mine == {i \in 1..Len(made) : made[i].key = k} IN
       /\ Cardinality(mine) <= 1
       /\ replies[k] = {made[i].number : i \in mine}
  /\ \A i \in 1..Len(made) : made[i].number = i
  /\ \A t \in Token : bucket[t] # None =>
       /\ restarts[t] = 0 => bucket[t].count = passed[t]
       /\ restarts[t] <= Cardinality(Handler) - 1
       /\ passed[t] <= (1 + restarts[t]) * MostCounted
=============================================================================
