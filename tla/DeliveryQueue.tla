--------------------------- MODULE DeliveryQueue ----------------------------
(***************************************************************************)
(* The outbox workers ops/email-worker.mjs, ops/webhook-worker.mjs and     *)
(* ops/chat-worker.mjs.  They run the same protocol on a table of          *)
(* deliveries: claim a row for ten minutes, look up whether it may still   *)
(* be sent, send it, record the outcome by the id of the row alone.  They  *)
(* differ in which rows can be claimed (Candidate).                        *)
(*                                                                         *)
(* Time is two facts per row: "due" (availableAt has passed) and "stale"   *)
(* (lockedAt is more than ten minutes ago).                                *)
(***************************************************************************)
EXTENDS Integers, FiniteSets

CONSTANTS
    Kinds,          \* the workers looked at: "email", "webhook", "chat"
    Deliveries,
    Channels,       \* webhook subscriptions, chat connections, recipients
    Channel,        \* the channel of a delivery
    CreatedAt,      \* the creation time of a delivery
    Workers,
    MaxAttempts,
    MaxCrashes,     \* bound: crashes of workers
    MaxStalls,      \* bound: times that a worker is suspended past its lease
    MaxBounces      \* bound: deliveries that are returned, each any number of times

ASSUME QueueAssumption ==
    /\ Kinds \subseteq {"email", "webhook", "chat"}
    /\ Deliveries # {}
    /\ Channel \in [Deliveries -> Channels]
    /\ CreatedAt \in [Deliveries -> Nat]
    /\ MaxAttempts \in Nat \ {0}
    /\ MaxCrashes \in Nat
    /\ MaxStalls \in Nat
    /\ MaxBounces \in Nat

VARIABLES
    kind,       \* which of the workers runs, on its table; never changes
    status,     \* of each row; "absent" before it is committed
    attempts,   \* of each row
    due, stale,
    open,       \* per channel: enabled, or the recipient may be written to
    at,         \* where each worker is
    holds,      \* the row a worker claimed last; any before that
    attempt,    \* the attempts it read when it claimed it
    crashes, stalls,
    received,   \* history: how often the receiver got each delivery
    refused,    \* history: deliveries a worker found closed
    late,       \* history: rows committed after a later one was claimed
    bounced     \* history: deliveries the provider reported as returned

rowVars == <<status, attempts, due, stale>>
workerVars == <<at, holds, attempt>>
vars == <<kind, rowVars, open, workerVars, crashes, stalls, received, refused, late,
          bounced>>

Waiting == {"PENDING", "PROCESSING"}
Settled == {"DELIVERED", "DEAD"}

TypeOK ==
    /\ kind \in Kinds
    /\ status \in [Deliveries -> Waiting \cup Settled \cup {"absent"}]
    /\ attempts \in [Deliveries -> Nat]
    /\ due \in [Deliveries -> BOOLEAN]
    /\ stale \in [Deliveries -> BOOLEAN]
    /\ open \in [Channels -> BOOLEAN]
    /\ at \in [Workers -> {"idle", "claimed", "allowed", "sent", "failed"}]
    /\ holds \in [Workers -> Deliveries]
    /\ attempt \in [Workers -> Nat]
    /\ crashes \in Nat
    /\ stalls \in Nat
    /\ received \in [Deliveries -> Nat]
    /\ refused \subseteq Deliveries
    /\ late \subseteq Deliveries
    /\ bounced \subseteq Deliveries

Init ==
    /\ kind \in Kinds
    /\ status = [d \in Deliveries |-> "absent"]
    /\ attempts = [d \in Deliveries |-> 0]
    /\ due = [d \in Deliveries |-> TRUE]
    /\ stale = [d \in Deliveries |-> FALSE]
    /\ open = [c \in Channels |-> TRUE]
    /\ at = [w \in Workers |-> "idle"]
    /\ holds = [w \in Workers |-> CHOOSE d \in Deliveries : TRUE]
    /\ attempt = [w \in Workers |-> 0]
    /\ crashes = 0
    /\ stalls = 0
    /\ received = [d \in Deliveries |-> 0]
    /\ refused = {}
    /\ late = {}
    /\ bounced = {}

Earlier(e, d) == Channel[e] = Channel[d] /\ CreatedAt[e] < CreatedAt[d]

-----------------------------------------------------------------------------
(* Producers and administrators.                                           *)

\* The transaction that caused the delivery commits.  Webhook and chat rows
\* are written for enabled channels only; the dedupe key admits one row.
Enqueue(d) ==
    /\ status[d] = "absent"
    /\ kind # "email" => open[Channel[d]]
    /\ status' = [status EXCEPT ![d] = "PENDING"]
    /\ late' = IF \E e \in Deliveries : Earlier(d, e) /\ attempts[e] > 0
               THEN late \cup {d} ELSE late
    /\ UNCHANGED <<attempts, due, stale, open, workerVars, crashes, stalls, kind, received, refused, bounced>>

\* A subscription or connection is disabled or enabled; a recipient is
\* suppressed or loses access, or gets it back.
Switch(c) ==
    /\ open' = [open EXCEPT ![c] = ~open[c]]
    /\ UNCHANGED <<rowVars, workerVars, crashes, stalls, kind, received, refused, late, bounced>>

\* The provider reports that a message was returned, or complained about: the
\* row is DEAD whatever it was, a worker may even be busy with it; a customer's
\* address is suppressed (that of a member of the workspace is not looked up).
Bounce(d) ==
    /\ kind = "email"
    /\ status[d] # "absent"
    /\ Cardinality(bounced \cup {d}) <= MaxBounces
    /\ status' = [status EXCEPT ![d] = "DEAD"]
    /\ bounced' = bounced \cup {d}
    /\ open' \in {open, [open EXCEPT ![Channel[d]] = FALSE]}
    /\ UNCHANGED <<attempts, due, stale, workerVars, crashes, stalls, kind, received, refused, late>>

-----------------------------------------------------------------------------
(* Workers.                                                                *)

WithoutLease(d) == status[d] = "PROCESSING" \/ (status[d] = "PENDING" /\ due[d])
NeverTakenOver(d) == status[d] = "PENDING" /\ due[d]
ClaimableNow(d) ==
    \/ status[d] = "PENDING" /\ due[d]
    \/ status[d] = "PROCESSING" /\ stale[d]

\* NOT EXISTS an earlier row of the same subscription that is waiting.
BehindProcessing(d) == \E e \in Deliveries : Earlier(e, d) /\ status[e] = "PROCESSING"
Behind(d) == \E e \in Deliveries : Earlier(e, d) /\ status[e] \in Waiting

Candidate(d) ==
    /\ ClaimableNow(d)
    /\ kind = "webhook" => ~Behind(d)
    /\ kind = "chat" => open[Channel[d]]

\* attempts + 1, for a row that waits and for one whose lease has lapsed.
FirstClaimCounts(d) == attempts[d] + (IF status[d] = "PENDING" THEN 1 ELSE 0)
NextAttempt(d) == attempts[d] + 1

\* Webhook and chat rows are claimed in order of creation.
Claim(w) ==
    /\ at[w] = "idle"
    /\ \E d \in Deliveries :
          /\ Candidate(d)
          /\ kind # "email" =>
                \A e \in Deliveries : Candidate(e) => CreatedAt[d] <= CreatedAt[e]
          /\ status' = [status EXCEPT ![d] = "PROCESSING"]
          /\ attempts' = [attempts EXCEPT ![d] = NextAttempt(d)]
          /\ stale' = [stale EXCEPT ![d] = FALSE]
          /\ holds' = [holds EXCEPT ![w] = d]
          /\ attempt' = [attempt EXCEPT ![w] = NextAttempt(d)]
    /\ at' = [at EXCEPT ![w] = "claimed"]
    /\ UNCHANGED <<due, open, crashes, stalls, kind, received, refused, late, bounced>>

\* update({ where: { id } }): whatever the row has become since.
Record(w, s) ==
    /\ status' = [status EXCEPT ![holds[w]] = s]
    /\ stale' = [stale EXCEPT ![holds[w]] = FALSE]
    /\ at' = [at EXCEPT ![w] = "idle"]
    /\ UNCHANGED <<attempts, holds, attempt>>

\* mayDeliverPortalEmail, or the subscription or connection is enabled.
Admit(w) ==
    /\ at[w] = "claimed"
    /\ IF open[Channel[holds[w]]]
       THEN /\ at' = [at EXCEPT ![w] = "allowed"]
            /\ UNCHANGED <<rowVars, holds, attempt, refused>>
       ELSE /\ Record(w, "DEAD")
            /\ refused' = refused \cup {holds[w]}
            /\ UNCHANGED due
    /\ UNCHANGED <<open, crashes, stalls, kind, received, late, bounced>>

\* What can come of a send: the receiver may get the message although the
\* worker sees an error.  A response that is not a success is an error.
AnyAnswer == [ok : BOOLEAN, got : BOOLEAN]
Answers == {a \in [ok : BOOLEAN, got : BOOLEAN] : a.ok => a.got}

Send(w) ==
    /\ at[w] = "allowed"
    /\ \E a \in Answers :
          /\ at' = [at EXCEPT ![w] = IF a.ok THEN "sent" ELSE "failed"]
          /\ received' = IF a.got THEN [received EXCEPT ![holds[w]] = received[holds[w]] + 1]
                         ELSE received
    /\ UNCHANGED <<rowVars, open, holds, attempt, crashes, stalls, kind, refused, late, bounced>>

Confirm(w) ==
    /\ at[w] = "sent"
    /\ Record(w, "DELIVERED")
    /\ UNCHANGED <<due, open, crashes, stalls, kind, received, refused, late, bounced>>

\* Recording DELIVERED fails: the catch block takes it for a failed send.
Unconfirmed(w) ==
    /\ at[w] = "sent"
    /\ at' = [at EXCEPT ![w] = "failed"]
    /\ UNCHANGED <<rowVars, open, holds, attempt, crashes, stalls, kind, received, refused, late, bounced>>

\* item.attempts >= maxAttempts ? DEAD : PENDING with a later availableAt
NeverExhausted(w) == FALSE
OneTooFew(w) == attempt[w] >= MaxAttempts - 1
Exhausted(w) == attempt[w] >= MaxAttempts

AsFailed(w) == IF Exhausted(w) THEN "FAILED" ELSE "PENDING"
AfterFailure(w) == IF Exhausted(w) THEN "DEAD" ELSE "PENDING"

Retry(w) ==
    /\ at[w] = "failed"
    /\ Record(w, AfterFailure(w))
    /\ due' = [due EXCEPT ![holds[w]] = FALSE]
    /\ UNCHANGED <<open, crashes, stalls, kind, received, refused, late, bounced>>

\* The process dies and is started again.
Crash(w) ==
    /\ at[w] # "idle"
    /\ crashes < MaxCrashes
    /\ crashes' = crashes + 1
    /\ at' = [at EXCEPT ![w] = "idle"]
    /\ UNCHANGED <<rowVars, open, holds, attempt, stalls, kind, received, refused, late, bounced>>

-----------------------------------------------------------------------------
(* Time.                                                                   *)

Passes(d) ==
    /\ ~due[d]
    /\ due' = [due EXCEPT ![d] = TRUE]
    /\ UNCHANGED <<status, attempts, stale, open, workerVars, crashes, stalls, kind, received, refused, late, bounced>>

Unattended(d) == \A w \in Workers : at[w] = "idle" \/ holds[w] # d

\* Ten minutes have gone by since the row was claimed.
LeaseEnds(d) ==
    /\ status[d] = "PROCESSING"
    /\ ~stale[d]
    /\ stale' = [stale EXCEPT ![d] = TRUE]
    /\ UNCHANGED <<status, attempts, due, open, workerVars, crashes, kind, received,
                   refused, late, bounced>>

\* A send gives up after ten or twenty seconds, so that happens to a row
\* whose worker is gone ...
Lapse(d) == Unattended(d) /\ LeaseEnds(d) /\ UNCHANGED stalls

\* ... or whose worker is suspended for as long.
Oversleep(d) ==
    /\ ~Unattended(d)
    /\ stalls < MaxStalls
    /\ stalls' = stalls + 1
    /\ LeaseEnds(d)

Work(w) == Claim(w) \/ Admit(w) \/ Send(w) \/ Confirm(w) \/ Retry(w)

Next ==
    \/ \E d \in Deliveries : Enqueue(d) \/ Bounce(d) \/ Passes(d) \/ Lapse(d) \/ Oversleep(d)
    \/ \E c \in Channels : Switch(c)
    \/ \E w \in Workers : Work(w) \/ Unconfirmed(w) \/ Crash(w)

Spec == Init /\ [][Next]_vars

\* The loops of the workers go on, every await returns, and time passes.
FairSpec ==
    /\ Spec
    /\ \A w \in Workers : WF_vars(Work(w))
    /\ \A d \in Deliveries : WF_vars(Passes(d)) /\ WF_vars(Lapse(d))
-----------------------------------------------------------------------------
(* Properties.                                                             *)

\* Everyone the product tells that a message was delivered can rely on it:
\* the receiver got it at least once, also when leases lapsed and two workers
\* wrote the row in turn.
DeliveredWasReceived == \A d \in Deliveries : status[d] = "DELIVERED" => received[d] > 0

\* A delivery is given up only after its full number of attempts, because its
\* channel was found closed, or because the provider returned it.
DeadForAReason ==
    \A d \in Deliveries :
        status[d] = "DEAD" => attempts[d] >= MaxAttempts \/ d \in refused \cup bounced

\* What the receiver gets twice was claimed twice: the attempts column
\* accounts for every message that went out.
SendsAccounted == \A d \in Deliveries : received[d] <= attempts[d]

\* The three together: what the table says of a delivery is backed by what
\* happened to it, through crashes, lost answers and overslept leases.
OutcomesTrue == DeliveredWasReceived /\ DeadForAReason /\ SendsAccounted

\* Why: every claim is good for one send, by the worker that made it.
Sending(d) == {w \in Workers : at[w] \in {"claimed", "allowed"} /\ holds[w] = d}
AccountInv ==
    /\ \A d \in Deliveries :
          /\ IsFiniteSet(Sending(d))
          /\ received[d] + Cardinality(Sending(d)) <= attempts[d]
    /\ \A w \in Workers :
          /\ at[w] # "idle" => attempt[w] <= attempts[holds[w]]
          /\ at[w] = "sent" => received[holds[w]] > 0
    /\ DeliveredWasReceived
    /\ DeadForAReason

\* As long as no worker sleeps through its lease, one worker at a time works
\* on a delivery, however many of them crash.
Exclusive ==
    \A w, v \in Workers :
        at[w] # "idle" /\ at[v] # "idle" /\ holds[w] = holds[v] => w = v
OneHolder == stalls = 0 => Exclusive

\* Why: a worker that is busy with a row has its lease, which nobody takes
\* from it; or the row bounced meanwhile, and nobody can claim it.
HasLease(d) ==
    \/ status[d] = "PROCESSING" /\ ~stale[d]
    \/ status[d] = "DEAD" /\ d \in bounced
Leased ==
    /\ Exclusive
    /\ \A w \in Workers : at[w] # "idle" => HasLease(holds[w])
LeaseInv == stalls = 0 => Leased

\* ... and a delivery that is DELIVERED or DEAD stays so, with one exception:
\* a bounce makes it DEAD, and a worker that was busy with it when it bounced
\* then writes its own outcome over that.
Overrides(d) ==
    /\ d \in bounced'
    /\ status'[d] # "DEAD" => status[d] = "DEAD" /\ ~Unattended(d)
SettledIsFinal ==
    [][stalls = 0 => \A d \in Deliveries :
          status[d] \in Settled => status'[d] = status[d] \/ Overrides(d)]_vars

\* Two webhooks of a subscription are under way together only if the earlier
\* one was committed after the later one had been claimed.
OneByOne ==
    \A d, e \in Deliveries :
        Earlier(d, e) /\ status[d] = "PROCESSING" /\ status[e] = "PROCESSING"
        => d \in late
InOrder == kind = "webhook" /\ stalls = 0 => OneByOne

\* Why: whatever waits behind a webhook that is under way came too late.  (No
\* webhook bounces.)
Ordered ==
    /\ bounced = {}
    /\ \A d, e \in Deliveries :
          status[e] = "PROCESSING" =>
              /\ attempts[e] > 0
              /\ Earlier(d, e) /\ status[d] \in Waiting => d \in late
OrderInv == kind = "webhook" /\ stalls = 0 => Ordered

\* Retries are bounded: a delivery is not claimed again once its attempts
\* are used up.
RetriesBounded == \A d \in Deliveries : attempts[d] <= MaxAttempts

\* ... in truth each crash and each lapsed lease is good for one attempt more.
AttemptsBounded == \A d \in Deliveries : attempts[d] <= MaxAttempts + crashes + stalls

\* Every delivery is delivered or given up, unless its chat connection is
\* disabled again and again, or for good.
AllSettle ==
    \A d \in Deliveries :
        kind # "chat" \/ <>[](open[Channel[d]])
        => (status[d] = "PENDING" ~> status[d] \in Settled)
=============================================================================
