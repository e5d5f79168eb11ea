----------------------------- MODULE Access_proofs ----------------------------
(***************************************************************************)
(* For every set of tokens and keys, every limit and every finite set of   *)
(* handlers: retries make no second issue, numbers have no gaps, and how   *)
(* far the limit is exceeded by counts that handlers read before.  For     *)
(* every set of links to the portal: a link sets one password, and who     *)
(* enters after a recovery has proved to know it or a later one.  For all  *)
(* browsers, events and sizes of a batch: no change is missed; and a page, *)
(* a bell and an inbox to which nothing is on its way show what is in the  *)
(* database, and the panel of an issue its discussion.                     *)
(***************************************************************************)
EXTENDS ApiRequests, PortalAccess, RealtimeStream, Screen, Watching, Inbox, Discussion,
  FiniteSetTheorems, SequenceTheorems, NaturalsInduction, WellFoundedInduction, TLAPS

apiState == <<handlers, apiVars>>

ApiSpec(requests) == ApiInit /\ HandlersInit(requests) /\ [][ApiNext]_apiState

-----------------------------------------------------------------------------
(* The inductive invariant.                                                *)

Made == [key : Key \cup {None}, number : Nat]

AtKey    == [op : {"rate", "replay", "create"}, key : Key]
Counting == [op : {"count"}, key : Key, seen : RateLimitBucket \cup {None}]

ApiTypeOK ==
  /\ bucket \in [Token -> RateLimitBucket \cup {None}]
  /\ stored \in [Key -> ApiIdempotency \cup {None}]
  /\ made \in Seq(Made)
  /\ replies \in [Key -> SUBSET Nat]
  /\ passed \in [Token -> Nat] /\ restarts \in [Token -> Nat]
  /\ at \in [Handler -> {Idle} \cup AtKey \cup Counting]

Numbered ==
  /\ sequence = Len(made)
  /\ \A i \in 1..Len(made) : made[i].number = i

Mine(k) == {i \in 1..Len(made) : made[i].key = k}

\* A key has a stored answer as soon as it has an issue.
KeyKept(k) ==
  k \notin swept =>
    /\ stored[k] = None => Mine(k) = {} /\ replies[k] = {}
    /\ stored[k] # None => Mine(k) = {stored[k].issue} /\ replies[k] = {stored[k].issue}

\* The handlers that found room in the window of a token and have not taken it yet.
Adders(t) == {h \in Handler : /\ Busy(h, "count") /\ at[h].key[1] = t
                              /\ at[h].seen # None /\ ~at[h].seen.over}

\* Those that found a window that was over; if there is a new one, they begin it again.
Late(t) == {h \in Handler : /\ Busy(h, "count") /\ at[h].key[1] = t
                            /\ at[h].seen # None /\ at[h].seen.over}

\* Who finds room has read a count below the limit, and then it had the others before it
\* at most; what they add later was counted already.
Counted(t) ==
  /\ bucket[t].count + Cardinality(Adders(t)) <= MostCounted
  /\ restarts[t] = 0 => bucket[t].count = passed[t]

\* Who begins a window is not late for it, and nobody is late for it who has not read before.
Restarted(t) ==
  /\ restarts[t] <= Cardinality(Handler) - 1
  /\ ~bucket[t].over => restarts[t] + Cardinality(Late(t)) <= Cardinality(Handler) - 1

\* What is forgotten each time was counted until then.
Forgotten(t) == passed[t] <= bucket[t].count + restarts[t] * MostCounted

LimitKept(t) == bucket[t] # None => Counted(t) /\ Restarted(t) /\ Forgotten(t)

ApiInv ==
  /\ ApiTypeOK
  /\ Numbered
  /\ \A k \in Key : KeyKept(k)
  /\ \A t \in Token : LimitKept(t)

-----------------------------------------------------------------------------
(* The invariant says what the property says.                              *)

LEMMA SetsOfHandlers ==
    ASSUME NEW S \in SUBSET Handler
    PROVE  /\ IsFiniteSet(S) /\ Cardinality(S) \in Nat
           /\ Cardinality(Handler) \in Nat
           /\ Cardinality(S) <= Cardinality(Handler)
           /\ \A h \in Handler : h \notin S => Cardinality(S) <= Cardinality(Handler) - 1
  <1>1. IsFiniteSet(S) /\ Cardinality(S) <= Cardinality(Handler)
    BY FS_Subset, ApiAssumption
  <1>2. Cardinality(S) \in Nat /\ Cardinality(Handler) \in Nat
    BY <1>1, FS_CardinalityType, ApiAssumption
  <1>3. ASSUME NEW h \in Handler, h \notin S
        PROVE  Cardinality(S) <= Cardinality(Handler) - 1
    <2>1. S \in SUBSET (Handler \ {h}) /\ IsFiniteSet(Handler \ {h})
          /\ Cardinality(Handler \ {h}) = Cardinality(Handler) - 1
      BY <1>3, FS_RemoveElement, ApiAssumption
    <2>2. QED
      BY <2>1, FS_Subset
  <1>4. QED
    BY <1>1, <1>2, <1>3

LEMMA Subsets ==
    ASSUME NEW S \in SUBSET Handler, NEW T \in SUBSET S
    PROVE  Cardinality(T) <= Cardinality(S) /\ Cardinality(T) \in Nat /\ Cardinality(S) \in Nat
  <1>1. IsFiniteSet(S) /\ Cardinality(S) \in Nat
    BY SetsOfHandlers
  <1>2. Cardinality(T) <= Cardinality(S)
    BY <1>1, FS_Subset
  <1>3. T \in SUBSET Handler
    OBVIOUS
  <1>4. QED
    BY <1>1, <1>2, <1>3, SetsOfHandlers

LEMMA MostCountedIs ==
    /\ MostCounted = RateLimit + Cardinality(Handler) - 1
    /\ MostCounted \in Nat /\ Cardinality(Handler) \in Nat
    /\ RateLimit \in Nat /\ RateLimit > 0
  BY FS_CardinalityType, ApiAssumption DEF MostCounted

LEMMA Queued ==
    ASSUME NEW t
    PROVE  Cardinality(Adders(t)) \in Nat /\ Cardinality(Late(t)) \in Nat
  BY SetsOfHandlers DEF Adders, Late

LEMMA OneFewer ==
    ASSUME NEW h \in Handler, NEW S \in SUBSET Handler, NEW T \in SUBSET (S \ {h})
    PROVE  /\ Cardinality(T) \in Nat /\ Cardinality(T) <= Cardinality(Handler) - 1
           /\ Cardinality(T) <= Cardinality(S)
           /\ h \in S => Cardinality(T) <= Cardinality(S) - 1
  <1>1. T \in SUBSET Handler /\ h \notin T /\ T \in SUBSET S
    OBVIOUS
  <1>2. Cardinality(T) <= Cardinality(Handler) - 1 /\ Cardinality(T) \in Nat
    BY <1>1, SetsOfHandlers
  <1>3. Cardinality(T) <= Cardinality(S)
    BY <1>1, Subsets
  <1>4. ASSUME h \in S PROVE Cardinality(T) <= Cardinality(S) - 1
    <2>1. IsFiniteSet(S)
      BY SetsOfHandlers
    <2>2. IsFiniteSet(S \ {h}) /\ Cardinality(S \ {h}) = Cardinality(S) - 1
      BY <1>4, <2>1, FS_RemoveElement
    <2>3. QED
      BY <2>2, FS_Subset
  <1>5. QED
    BY <1>2, <1>3, <1>4

LEMMA InvImpliesOnce == ApiInv => OncePerKey
  <1> SUFFICES ASSUME ApiInv PROVE OncePerKey
    OBVIOUS
  <1>1. \A i \in 1..Len(made) : made[i].number = i
    BY DEF ApiInv, Numbered
  <1>2. ASSUME NEW k \in Key \ swept
        PROVE  /\ Cardinality(Mine(k)) <= 1
               /\ replies[k] = {made[i].number : i \in Mine(k)}
    <2>1. {made[i].number : i \in Mine(k)} = Mine(k)
      BY <1>1 DEF Mine
    <2>2. KeyKept(k)
      BY DEF ApiInv
    <2>3. CASE stored[k] = None
      <3>1. Mine(k) = {} /\ replies[k] = {}
        BY <2>2, <2>3 DEF KeyKept
      <3>2. Cardinality({}) = 0
        BY FS_EmptySet
      <3>3. QED
        BY <2>1, <3>1, <3>2
    <2>4. CASE stored[k] # None
      <3>1. Mine(k) = {stored[k].issue} /\ replies[k] = {stored[k].issue}
        BY <2>2, <2>4 DEF KeyKept
      <3>2. Cardinality({stored[k].issue}) = 1
        BY FS_Singleton
      <3>3. QED
        BY <2>1, <3>1, <3>2
    <2>5. QED
      BY <2>3, <2>4
  <1>3. ASSUME NEW t \in Token, bucket[t] # None
        PROVE  /\ restarts[t] = 0 => bucket[t].count = passed[t]
               /\ restarts[t] <= Cardinality(Handler) - 1
               /\ passed[t] <= (1 + restarts[t]) * MostCounted
    <2>1. Counted(t) /\ Restarted(t) /\ Forgotten(t)
      BY <1>3 DEF ApiInv, LimitKept
    <2>2. PICK r \in Nat, p \in Nat, c \in Nat, m \in Int :
            r = restarts[t] /\ p = passed[t] /\ c = bucket[t].count /\ m = MostCounted
      <3>1. bucket[t] \in RateLimitBucket
        BY <1>3 DEF ApiInv, ApiTypeOK
      <3>2. restarts[t] \in Nat /\ passed[t] \in Nat /\ bucket[t].count \in Nat /\ MostCounted \in Nat
        BY <3>1, MostCountedIs DEF ApiInv, ApiTypeOK, RateLimitBucket
      <3>3. QED
        BY <3>2
    <2>3. c <= m
      <3>1. Cardinality(Adders(t)) \in Nat
        BY Queued
      <3>2. QED
        BY <2>1, <2>2, <3>1 DEF Counted
    <2>4. p <= c + r * m
      BY <2>1, <2>2 DEF Forgotten
    <2>5. PICK f \in Int : f = r * m
      BY <2>2
    <2>6. (1 + r) * m = m + f
      BY <2>5
    <2>7. p <= (1 + r) * m
      BY <2>3, <2>4, <2>5, <2>6
    <2>8. QED
      BY <2>1, <2>2, <2>7 DEF Counted, Restarted
  <1>4. QED
    BY <1>1, <1>2, <1>3 DEF OncePerKey, Mine

-----------------------------------------------------------------------------
(* What the steps have in common.                                          *)

\* A token whose window goes on as it is, or ends, with nobody more at work on it.
LEMMA LimitStays ==
    ASSUME ApiInv, NEW t \in Token, Adders(t)' \subseteq Adders(t),
           bucket'[t] # None =>
             /\ bucket[t] # None /\ bucket'[t].count = bucket[t].count
             /\ ~bucket'[t].over => ~bucket[t].over /\ Late(t)' \subseteq Late(t),
           passed'[t] = passed[t], restarts'[t] = restarts[t]
    PROVE  LimitKept(t)'
  <1> SUFFICES ASSUME bucket'[t] # None PROVE Counted(t)' /\ Restarted(t)' /\ Forgotten(t)'
    BY DEF LimitKept
  <1>1. /\ Counted(t) /\ Restarted(t) /\ Forgotten(t)
        /\ MostCounted' = MostCounted
    BY DEF ApiInv, LimitKept, MostCounted
  <1>2. restarts[t] \in Nat /\ bucket[t].count \in Nat
    <2>1. bucket[t] \in RateLimitBucket
      BY DEF ApiInv, ApiTypeOK
    <2>2. QED
      BY <2>1 DEF ApiInv, ApiTypeOK, RateLimitBucket
  <1>3. Adders(t) \in SUBSET Handler /\ Late(t) \in SUBSET Handler
    BY DEF Adders, Late
  <1>4. Counted(t)'
    <2>1. /\ Cardinality(Adders(t)') <= Cardinality(Adders(t))
          /\ Cardinality(Adders(t)') \in Nat /\ Cardinality(Adders(t)) \in Nat
      BY <1>3, Subsets
    <2>2. QED
      BY <1>1, <1>2, <2>1, MostCountedIs DEF Counted
  <1>5. Restarted(t)'
    <2>1. CASE bucket'[t].over
      BY <1>1, <2>1 DEF Restarted
    <2>2. CASE ~bucket'[t].over
      <3>1. /\ Cardinality(Late(t)') <= Cardinality(Late(t))
            /\ Cardinality(Late(t)') \in Nat /\ Cardinality(Late(t)) \in Nat
        BY <1>3, <2>2, Subsets
      <3>2. QED
        BY <1>1, <1>2, <2>2, <3>1, MostCountedIs DEF Restarted
    <2>3. QED
      BY <2>1, <2>2
  <1>6. Forgotten(t)'
    BY <1>1 DEF Forgotten
  <1>7. QED
    BY <1>4, <1>5, <1>6

\* A handler that does not count now keeps nothing back from the limit.
LEMMA FewerAdders ==
    ASSUME ApiInv, NEW h \in Handler, NEW next, at' = [at EXCEPT ![h] = next], next.op # "count",
           UNCHANGED <<bucket, counts>>
    PROVE  \A t \in Token : LimitKept(t)'
  <1> SUFFICES ASSUME NEW t \in Token PROVE LimitKept(t)'
    OBVIOUS
  <1>1. \A g \in Handler : at'[g] = IF g = h THEN next ELSE at[g]
    BY DEF ApiInv, ApiTypeOK
  <1>2. Adders(t)' \subseteq Adders(t) /\ Late(t)' \subseteq Late(t)
    BY <1>1 DEF Adders, Late, Busy
  <1>3. QED
    BY <1>2, LimitStays DEF counts

LEMMA SameAdders ==
    ASSUME ApiInv, UNCHANGED at, UNCHANGED counts,
           \A t \in Token : \/ bucket'[t] = None \/ bucket'[t] = bucket[t]
                            \/ /\ bucket[t] # None /\ bucket'[t].count = bucket[t].count
                               /\ bucket'[t].over
    PROVE  \A t \in Token : LimitKept(t)'
  <1> SUFFICES ASSUME NEW t \in Token PROVE LimitKept(t)'
    OBVIOUS
  <1>1. Adders(t)' = Adders(t) /\ Late(t)' = Late(t)
    BY DEF Adders, Late, Busy
  <1>2. QED
    BY <1>1, LimitStays DEF counts

LEMMA SameKeys ==
    ASSUME ApiInv, UNCHANGED <<stored, sequence, made, replies, swept>>
    PROVE  Numbered' /\ \A k \in Key : KeyKept(k)'
  BY DEF ApiInv, Numbered, KeyKept, Mine

\* A new issue comes last, and is not one of another key.
LEMMA OneMore ==
    ASSUME ApiInv, NEW key \in Key \cup {None}, sequence' = sequence + 1,
           made' = Append(made, [key |-> key, number |-> sequence'])
    PROVE  /\ made' \in Seq(Made)
           /\ Numbered'
           /\ \A k \in Key : Mine(k)' = IF k = key THEN Mine(k) \cup {sequence'} ELSE Mine(k)
  <1>1. made \in Seq(Made) /\ sequence = Len(made) /\ Len(made) \in Nat
    BY DEF ApiInv, ApiTypeOK, Numbered
  <1> DEFINE new == [key |-> key, number |-> Len(made) + 1]
  <1>2. new \in Made /\ new.key = key /\ new.number = Len(made) + 1
    BY <1>1 DEF Made
  <1>3. made' = Append(made, new)
    BY <1>1
  <1> HIDE DEF new
  <1>4. /\ made' \in Seq(Made) /\ Len(made') = Len(made) + 1
        /\ made'[Len(made) + 1] = new
        /\ \A i \in 1..Len(made) : made'[i] = made[i]
    BY <1>1, <1>2, <1>3
  <1>5. Numbered'
    BY <1>1, <1>2, <1>4 DEF ApiInv, Numbered
  <1>6. ASSUME NEW k \in Key
        PROVE  Mine(k)' = IF k = key THEN Mine(k) \cup {sequence'} ELSE Mine(k)
    <2>1. \A i \in 1..Len(made') : i \in 1..Len(made) \/ i = Len(made) + 1
      BY <1>1, <1>4
    <2>2. \A i \in 1..Len(made) : i \in 1..Len(made') /\ i # Len(made) + 1
      BY <1>1, <1>4
    <2>3. Len(made) + 1 \in 1..Len(made')
      BY <1>1, <1>4
    <2>4. QED
      BY <1>1, <1>2, <1>4, <2>1, <2>2, <2>3 DEF Mine
  <1>7. QED
    BY <1>4, <1>5, <1>6
-----------------------------------------------------------------------------
(* The steps.                                                              *)

LEMMA ApiInitKeeps ==
    ASSUME NEW requests, ApiInit, HandlersInit(requests)
    PROVE  ApiInv
  <1>1. ApiTypeOK
    BY DEF ApiInit, HandlersInit, ApiTypeOK
  <1>2. Numbered
    BY DEF ApiInit, Numbered
  <1>3. \A k \in Key : KeyKept(k)
    BY DEF ApiInit, KeyKept, Mine
  <1>4. ASSUME NEW t \in Token PROVE LimitKept(t)
    <2>1. bucket[t] = None
      BY DEF ApiInit
    <2>2. QED
      BY <2>1 DEF LimitKept
  <1>5. QED
    BY <1>1, <1>2, <1>3, <1>4 DEF ApiInv

LEMMA TokensKeep ==
    ASSUME ApiInv, UNCHANGED <<at, bucket, stored, sequence, made, replies, swept, counts>>
    PROVE  ApiInv'
  <1>1. ApiTypeOK'
    BY DEF ApiInv, ApiTypeOK, counts
  <1>2. \A t \in Token : LimitKept(t)'
    BY SameAdders
  <1>3. QED
    BY <1>1, <1>2, SameKeys DEF ApiInv

LEMMA WindowKeeps ==
    ASSUME ApiInv, NEW t \in Token, WindowPasses(t)
    PROVE  ApiInv'
  <1> DEFINE new == [bucket[t] EXCEPT !.over = TRUE]
  <1>1. /\ bucket[t] # None /\ bucket' = [bucket EXCEPT ![t] = new]
        /\ UNCHANGED <<at, stored, sequence, made, replies, swept, counts>>
    BY DEF WindowPasses, handlers
  <1>2. bucket[t] \in RateLimitBucket
    BY <1>1 DEF ApiInv, ApiTypeOK
  <1>3. new \in RateLimitBucket /\ new.count = bucket[t].count /\ new.over
    BY <1>2 DEF RateLimitBucket
  <1> HIDE DEF new
  <1>4. ApiTypeOK'
    BY <1>1, <1>3 DEF ApiInv, ApiTypeOK, counts
  <1>5. \A u \in Token : bucket'[u] = IF u = t THEN new ELSE bucket[u]
    BY <1>1 DEF ApiInv, ApiTypeOK
  <1>6. \A u \in Token : LimitKept(u)'
    BY <1>1, <1>3, <1>5, SameAdders
  <1>7. QED
    BY <1>1, <1>4, <1>6, SameKeys DEF ApiInv

LEMMA DayKeeps ==
    ASSUME ApiInv, NEW d \in Key, DayPasses(d)
    PROVE  ApiInv'
  <1> DEFINE new == [stored[d] EXCEPT !.old = TRUE]
  <1>1. /\ stored[d] # None /\ stored' = [stored EXCEPT ![d] = new]
        /\ UNCHANGED <<at, bucket, sequence, made, replies, swept, counts>>
    BY DEF DayPasses, handlers
  <1>2. stored[d] \in ApiIdempotency
    BY <1>1 DEF ApiInv, ApiTypeOK
  <1>3. new \in ApiIdempotency /\ new.issue = stored[d].issue
    BY <1>2 DEF ApiIdempotency
  <1> HIDE DEF new
  <1>4. new # None
    BY <1>3, ApiAssumption
  <1>5. ApiTypeOK'
    BY <1>1, <1>3 DEF ApiInv, ApiTypeOK, counts
  <1>6. \A k \in Key : stored'[k] = IF k = d THEN new ELSE stored[k]
    BY <1>1 DEF ApiInv, ApiTypeOK
  <1>7. \A k \in Key : KeyKept(k)'
    BY <1>1, <1>3, <1>4, <1>6 DEF ApiInv, KeyKept, Mine
  <1>8. Numbered'
    BY <1>1 DEF ApiInv, Numbered
  <1>9. \A t \in Token : LimitKept(t)'
    BY <1>1, SameAdders
  <1>10. QED
    BY <1>5, <1>7, <1>8, <1>9 DEF ApiInv

\* What is swept from the answers is not promised any more.
LEMMA SweepKeeps ==
    ASSUME ApiInv, Sweep
    PROVE  ApiInv'
  <1> DEFINE aged == {k \in Key : stored[k] # None /\ stored[k].old}
  <1>1. /\ bucket' = [t \in Token |-> IF bucket[t] # None /\ bucket[t].over THEN None ELSE bucket[t]]
        /\ stored' = [k \in Key |-> IF k \in aged THEN None ELSE stored[k]]
        /\ swept' = swept \cup aged
        /\ UNCHANGED <<at, sequence, made, replies, counts>>
    BY DEF Sweep, InOneStep
  <1> HIDE DEF aged
  <1>2. ApiTypeOK'
    BY <1>1 DEF ApiInv, ApiTypeOK, counts
  <1>3. Numbered'
    BY <1>1 DEF ApiInv, Numbered
  <1>4. ASSUME NEW k \in Key PROVE KeyKept(k)'
    <2>1. KeyKept(k) /\ Mine(k)' = Mine(k)
      BY <1>1 DEF ApiInv, Mine
    <2>2. CASE k \in aged
      BY <1>1, <2>2 DEF KeyKept
    <2>3. CASE k \notin aged
      BY <1>1, <2>1, <2>3 DEF KeyKept
    <2>4. QED
      BY <2>2, <2>3
  <1>5. ASSUME NEW t \in Token
        PROVE  bucket'[t] = None \/ bucket'[t] = bucket[t]
    <2>1. bucket'[t] = IF bucket[t] # None /\ bucket[t].over THEN None ELSE bucket[t]
      BY <1>1
    <2>2. CASE bucket[t] # None /\ bucket[t].over
      BY <2>1, <2>2
    <2>3. CASE ~(bucket[t] # None /\ bucket[t].over)
      BY <2>1, <2>3
    <2>4. QED
      BY <2>2, <2>3
  <1>6. \A t \in Token : LimitKept(t)'
    BY <1>1, <1>5, SameAdders
  <1>7. QED
    BY <1>2, <1>3, <1>4, <1>6 DEF ApiInv

LEMMA OtherwiseKeeps ==
    ASSUME ApiInv, CreateOtherwise
    PROVE  ApiInv'
  <1>1. /\ sequence' = sequence + 1
        /\ made' = Append(made, [key |-> None, number |-> sequence'])
        /\ UNCHANGED <<at, bucket, stored, replies, swept, counts>>
    BY DEF CreateOtherwise, InOneStep
  <1>2. /\ made' \in Seq(Made) /\ Numbered'
        /\ \A k \in Key : Mine(k)' = Mine(k)
    BY <1>1, OneMore, ApiAssumption
  <1>3. ApiTypeOK'
    BY <1>1, <1>2 DEF ApiInv, ApiTypeOK, counts
  <1>4. \A k \in Key : KeyKept(k)'
    BY <1>1, <1>2 DEF ApiInv, KeyKept
  <1>5. \A t \in Token : LimitKept(t)'
    BY <1>1, SameAdders
  <1>6. QED
    BY <1>2, <1>3, <1>4, <1>5 DEF ApiInv

\* Steps that only change what a handler has before it.
LEMMA ApiHandlerKeeps ==
    ASSUME ApiInv, NEW h \in Handler, NEW next \in {Idle} \cup AtKey,
           at' = [at EXCEPT ![h] = next],
           UNCHANGED <<bucket, stored, sequence, made, replies, swept, counts>>
    PROVE  ApiInv'
  <1>1. ApiTypeOK'
    BY DEF ApiInv, ApiTypeOK, counts
  <1>2. next.op # "count"
    BY DEF Idle, AtKey
  <1>3. \A t \in Token : LimitKept(t)'
    BY <1>2, FewerAdders
  <1>4. QED
    BY <1>1, <1>3, SameKeys DEF ApiInv

LEMMA TaskOf ==
    ASSUME ApiInv, NEW h \in Handler
    PROVE  at[h] \in {Idle} \cup AtKey \cup Counting
  BY DEF ApiInv, ApiTypeOK

LEMMA AuthenticateKeeps ==
    ASSUME ApiInv, NEW h \in Handler, NEW k \in Key, Authenticate(h, k)
    PROVE  ApiInv'
  <1>1. [op |-> "rate", key |-> k] \in AtKey
    BY DEF AtKey
  <1>2. QED
    BY <1>1, ApiHandlerKeeps DEF Authenticate, Enter, apiVars

LEMMA ApiRefuseKeeps ==
    ASSUME ApiInv, NEW h \in Handler, RefuseIssue(h)
    PROVE  ApiInv'
  BY ApiHandlerKeeps DEF RefuseIssue, Leave, Proceed, apiVars

\* Who finds room joins at most all the others, when the count is still below the limit.
LEMMA ReadKeeps ==
    ASSUME ApiInv, NEW h \in Handler, ReadBucket(h)
    PROVE  ApiInv'
  <1>1. at[h] \in AtKey
    BY TaskOf DEF ReadBucket, Busy, Idle, Counting
  <1>2. PICK k \in Key : k = at[h].key
    BY <1>1 DEF AtKey
  <1>3. k[1] \in Token
    BY DEF Key
  <1>4. PICK seen \in RateLimitBucket \cup {None} : seen = bucket[k[1]]
    BY <1>3 DEF ApiInv, ApiTypeOK
  <1>5. CASE Exhausted(seen)
    BY <1>2, <1>4, <1>5, ApiHandlerKeeps DEF ReadBucket, Leave, Proceed, apiVars
  <1>6. CASE ~Exhausted(seen)
    <2> DEFINE next == [op |-> "count", key |-> k, seen |-> seen]
    <2>1. next \in Counting /\ next.op = "count" /\ next.key = k /\ next.seen = seen
      BY DEF Counting
    <2>2. /\ at' = [at EXCEPT ![h] = next]
          /\ UNCHANGED <<bucket, stored, sequence, made, replies, swept, counts>>
      BY <1>2, <1>4, <1>6 DEF ReadBucket, Proceed, apiVars
    <2> HIDE DEF next
    <2>3. ApiTypeOK'
      BY <2>1, <2>2 DEF ApiInv, ApiTypeOK, counts
    <2>4. \A g \in Handler : at'[g] = IF g = h THEN next ELSE at[g]
      BY <2>2 DEF ApiInv, ApiTypeOK
    <2>5. ASSUME NEW t \in Token PROVE LimitKept(t)'
      <3>1. \A g \in Handler : g # h => (g \in Adders(t)' <=> g \in Adders(t)) /\ (g \in Late(t)' <=> g \in Late(t))
        BY <2>4 DEF Adders, Late, Busy
      <3>2. /\ h \in Adders(t)' => t = k[1] /\ seen # None /\ ~seen.over
            /\ h \in Late(t)' => t = k[1] /\ seen # None /\ seen.over
        BY <2>1, <2>4 DEF Adders, Late
      <3>3. Adders(t)' \in SUBSET Handler /\ Late(t)' \in SUBSET Handler
        BY DEF Adders, Late
      <3>4. CASE t = k[1] /\ seen # None /\ ~seen.over
        <4>1. seen = bucket[t] /\ bucket'[t] = bucket[t] /\ seen.count \in Nat
          BY <1>4, <2>2, <3>4 DEF RateLimitBucket
        <4>2. seen.count < RateLimit
          BY <1>6, <3>4, <4>1, ApiAssumption DEF Exhausted
        <4>3. Counted(t) /\ Restarted(t) /\ Forgotten(t)
          BY <3>4, <4>1 DEF ApiInv, LimitKept
        <4>4. /\ restarts' = restarts /\ passed' = passed /\ MostCounted' = MostCounted
              /\ restarts[t] \in Nat
          BY <2>2 DEF counts, MostCounted, ApiInv, ApiTypeOK
        <4>5. Counted(t)'
          <5>1. Cardinality(Adders(t)') <= Cardinality(Handler) /\ Cardinality(Adders(t)') \in Nat
            BY <3>3, SetsOfHandlers
          <5>2. QED
            BY <4>1, <4>2, <4>3, <4>4, <5>1, MostCountedIs DEF Counted
        <4>6. Restarted(t)'
          <5>1. Late(t)' \subseteq Late(t) /\ Late(t) \in SUBSET Handler
            BY <3>1, <3>2, <3>3, <3>4 DEF Late
          <5>2. /\ Cardinality(Late(t)') <= Cardinality(Late(t))
                /\ Cardinality(Late(t)') \in Nat /\ Cardinality(Late(t)) \in Nat
            BY <5>1, Subsets
          <5>3. QED
            BY <4>1, <4>3, <4>4, <5>2, MostCountedIs DEF Restarted
        <4>7. Forgotten(t)'
          BY <4>1, <4>3, <4>4 DEF Forgotten
        <4>8. QED
          BY <4>5, <4>6, <4>7 DEF LimitKept
      <3>5. CASE ~(t = k[1] /\ seen # None /\ ~seen.over)
        <4>1. Adders(t)' \subseteq Adders(t)
          BY <3>1, <3>2, <3>3, <3>5
        <4>2. ~bucket'[t].over /\ bucket'[t] # None => Late(t)' \subseteq Late(t)
          BY <1>4, <2>2, <3>1, <3>2, <3>3
        <4>3. QED
          BY <2>2, <4>1, <4>2, LimitStays DEF counts
      <3>6. QED
        BY <3>4, <3>5
    <2>6. QED
      BY <2>2, <2>3, <2>5, SameKeys DEF ApiInv
  <1>7. QED
    BY <1>5, <1>6

\* What a window comes to that is begun, begun again or joined by a handler that counts.
LEMMA BeginKeeps ==
    ASSUME NEW t \in Token, bucket'[t] = Started,
           Cardinality(Adders(t)') <= Cardinality(Handler) - 1, Cardinality(Adders(t)') \in Nat,
           Cardinality(Late(t)') <= Cardinality(Handler) - 1, Cardinality(Late(t)') \in Nat,
           passed'[t] = 1, restarts'[t] = 0
    PROVE  LimitKept(t)'
  <1>1. bucket'[t].count = 1 /\ ~bucket'[t].over /\ MostCounted' = MostCounted
    BY DEF Started, MostCounted
  <1>2. Counted(t)' /\ Restarted(t)'
    BY <1>1, MostCountedIs DEF Counted, Restarted
  <1>3. Forgotten(t)'
    BY <1>1, MostCountedIs DEF Forgotten
  <1>4. QED
    BY <1>2, <1>3 DEF LimitKept

LEMMA BeginAgainKeeps ==
    ASSUME ApiInv, NEW t \in Token, bucket[t] # None, ~bucket[t].over, bucket'[t] = Started,
           Cardinality(Adders(t)') <= Cardinality(Handler) - 1, Cardinality(Adders(t)') \in Nat,
           Cardinality(Late(t)') <= Cardinality(Late(t)) - 1, Cardinality(Late(t)') \in Nat,
           passed'[t] = passed[t] + 1, restarts'[t] = restarts[t] + 1
    PROVE  LimitKept(t)'
  <1>1. bucket'[t].count = 1 /\ ~bucket'[t].over /\ MostCounted' = MostCounted
    BY DEF Started, MostCounted
  <1>2. Counted(t) /\ Restarted(t) /\ Forgotten(t)
    BY DEF ApiInv, LimitKept
  <1>3. PICK r \in Nat, p \in Nat, c \in Nat, m \in Nat :
          r = restarts[t] /\ p = passed[t] /\ c = bucket[t].count /\ m = MostCounted
    <2>1. bucket[t] \in RateLimitBucket
      BY DEF ApiInv, ApiTypeOK
    <2>2. restarts[t] \in Nat /\ passed[t] \in Nat /\ bucket[t].count \in Nat /\ MostCounted \in Nat
      BY <2>1, MostCountedIs DEF ApiInv, ApiTypeOK, RateLimitBucket
    <2>3. QED
      BY <2>2
  <1>4. Cardinality(Adders(t)) \in Nat /\ Cardinality(Late(t)) \in Nat
    BY Queued
  <1>5. Counted(t)'
    BY <1>1, <1>3, MostCountedIs DEF Counted
  <1>6. Restarted(t)'
    BY <1>1, <1>2, <1>3, <1>4, MostCountedIs DEF Restarted
  <1>7. Forgotten(t)'
    <2>1. PICK f \in Int : f = r * m
      OBVIOUS
    <2>2. (r + 1) * m = f + m
      BY <2>1
    <2>3. p <= c + f /\ c <= m
      BY <1>2, <1>3, <1>4, <2>1 DEF Forgotten, Counted
    <2>4. p + 1 <= 1 + (r + 1) * m
      BY <2>1, <2>2, <2>3
    <2>5. QED
      BY <1>1, <1>3, <2>4 DEF Forgotten
  <1>8. QED
    BY <1>5, <1>6, <1>7 DEF LimitKept

LEMMA JoinKeeps ==
    ASSUME ApiInv, NEW t \in Token, bucket[t] # None,
           bucket'[t].count = bucket[t].count + 1, bucket'[t].over <=> bucket[t].over,
           Cardinality(Adders(t)') <= Cardinality(Adders(t)) - 1, Cardinality(Adders(t)') \in Nat,
           Cardinality(Late(t)') <= Cardinality(Late(t)), Cardinality(Late(t)') \in Nat,
           passed'[t] = passed[t] + 1, restarts'[t] = restarts[t]
    PROVE  LimitKept(t)'
  <1>1. Counted(t) /\ Restarted(t) /\ Forgotten(t) /\ MostCounted' = MostCounted
    BY DEF ApiInv, LimitKept, MostCounted
  <1>2. PICK r \in Nat, p \in Nat, c \in Nat, m \in Nat :
          r = restarts[t] /\ p = passed[t] /\ c = bucket[t].count /\ m = MostCounted
    <2>1. bucket[t] \in RateLimitBucket
      BY DEF ApiInv, ApiTypeOK
    <2>2. restarts[t] \in Nat /\ passed[t] \in Nat /\ bucket[t].count \in Nat /\ MostCounted \in Nat
      BY <2>1, MostCountedIs DEF ApiInv, ApiTypeOK, RateLimitBucket
    <2>3. QED
      BY <2>2
  <1>3. Cardinality(Adders(t)) \in Nat /\ Cardinality(Late(t)) \in Nat
    BY Queued
  <1>4. Counted(t)'
    BY <1>1, <1>2, <1>3, MostCountedIs DEF Counted
  <1>5. Restarted(t)'
    BY <1>1, <1>2, <1>3, MostCountedIs DEF Restarted
  <1>6. Forgotten(t)'
    <2>1. PICK f \in Int : f = r * m
      OBVIOUS
    <2>2. p + 1 <= c + 1 + f
      BY <1>1, <1>2, <2>1 DEF Forgotten
    <2>3. QED
      BY <1>1, <1>2, <2>1, <2>2 DEF Forgotten
  <1>7. QED
    BY <1>4, <1>5, <1>6 DEF LimitKept

\* Who begins a window leaves the others to add; who adds to one is not among them any more.
LEMMA CountKeeps ==
    ASSUME ApiInv, NEW h \in Handler, CountRequest(h)
    PROVE  ApiInv'
  <1>1. at[h] \in Counting
    <2>1. Busy(h, "count")
      BY DEF CountRequest
    <2>2. QED
      BY <2>1, TaskOf DEF Busy, Idle, AtKey
  <1>2. PICK k \in Key, seen \in RateLimitBucket \cup {None} : k = at[h].key /\ seen = at[h].seen
    BY <1>1 DEF Counting
  <1>3. PICK t \in Token : t = k[1]
    BY DEF Key
  <1> DEFINE next  == [op |-> "replay", key |-> k]
             first == seen = None \/ seen.over
  <1>4. next \in AtKey /\ next.op = "replay"
    BY DEF AtKey
  <1>5. CASE Surprised(h)
    <2>1. at' = [at EXCEPT ![h] = Idle] /\ UNCHANGED <<bucket, counts>>
      BY <1>5 DEF CountRequest, Leave, Proceed
    <2>2. UNCHANGED <<stored, sequence, made, replies, swept>>
      BY DEF CountRequest
    <2>3. QED
      BY <2>1, <2>2, ApiHandlerKeeps
  <1>6. CASE ~Surprised(h)
    <2>1. /\ at' = [at EXCEPT ![h] = next]
          /\ first => BeginWindow(t)
          /\ ~first => JoinWindow(t)
          /\ UNCHANGED <<stored, sequence, made, replies, swept>>
          /\ seen = None <=> bucket[t] = None
      BY <1>2, <1>3, <1>6 DEF CountRequest, Proceed, Surprised
    <2> HIDE DEF next
    <2>2. \A g \in Handler : at'[g] = IF g = h THEN next ELSE at[g]
      BY <2>1 DEF ApiInv, ApiTypeOK
    <2>3. at' \in [Handler -> {Idle} \cup AtKey \cup Counting]
      BY <1>4, <2>1 DEF ApiInv, ApiTypeOK
    <2>4. /\ bucket \in [Token -> RateLimitBucket \cup {None}]
          /\ passed \in [Token -> Nat] /\ restarts \in [Token -> Nat]
      BY DEF ApiInv, ApiTypeOK
    <2>5. \A u : /\ Adders(u)' \subseteq Adders(u) \ {h} /\ Adders(u) \in SUBSET Handler
                 /\ Late(u)' \subseteq Late(u) \ {h} /\ Late(u) \in SUBSET Handler
      BY <1>4, <2>2 DEF Adders, Late, Busy
    <2>6. /\ Cardinality(Adders(t)') \in Nat /\ Cardinality(Adders(t)') <= Cardinality(Handler) - 1
          /\ h \in Adders(t) => Cardinality(Adders(t)') <= Cardinality(Adders(t)) - 1
      BY <2>5, OneFewer
    <2>7. /\ Cardinality(Late(t)') \in Nat /\ Cardinality(Late(t)') <= Cardinality(Handler) - 1
          /\ Cardinality(Late(t)') <= Cardinality(Late(t))
          /\ h \in Late(t) => Cardinality(Late(t)') <= Cardinality(Late(t)) - 1
      BY <2>5, OneFewer
    <2>8. CASE first
      <3>1. bucket' = [bucket EXCEPT ![t] = Started]
        BY <2>1, <2>8 DEF BeginWindow
      <3>2. Started \in RateLimitBucket
        BY DEF Started, RateLimitBucket
      <3>3. bucket' \in [Token -> RateLimitBucket \cup {None}] /\ bucket'[t] = Started
        BY <2>4, <3>1, <3>2
      <3>4. /\ passed' \in [Token -> Nat] /\ restarts' \in [Token -> Nat]
            /\ bucket[t] = None \/ bucket[t].over => passed'[t] = 1 /\ restarts'[t] = 0
            /\ ~(bucket[t] = None \/ bucket[t].over) =>
                 passed'[t] = passed[t] + 1 /\ restarts'[t] = restarts[t] + 1
        BY <2>1, <2>4, <2>8 DEF BeginWindow
      <3>5. \A u \in Token : u # t =>
              bucket'[u] = bucket[u] /\ passed'[u] = passed[u] /\ restarts'[u] = restarts[u]
        BY <2>1, <2>4, <2>8 DEF BeginWindow
      <3>6. LimitKept(t)'
        <4>1. CASE bucket[t] = None \/ bucket[t].over
          BY <2>6, <2>7, <3>3, <3>4, <4>1, BeginKeeps
        <4>2. CASE ~(bucket[t] = None \/ bucket[t].over)
          <5>1. h \in Late(t)
            BY <1>1, <1>2, <1>3, <2>1, <2>8, <4>2 DEF Late, Busy, Counting
          <5>2. QED
            BY <2>6, <2>7, <3>3, <3>4, <4>2, <5>1, BeginAgainKeeps
        <4>3. QED
          BY <4>1, <4>2
      <3>7. ASSUME NEW u \in Token, u # t PROVE LimitKept(u)'
        BY <2>5, <3>5, <3>7, LimitStays
      <3>8. ApiTypeOK'
        BY <2>1, <2>3, <3>3, <3>4 DEF ApiInv, ApiTypeOK
      <3>9. QED
        BY <2>1, <3>6, <3>7, <3>8, SameKeys DEF ApiInv
    <2>9. CASE ~first
      <3>1. bucket[t] # None /\ h \in Adders(t)
        BY <1>1, <1>2, <1>3, <2>1, <2>9 DEF Adders, Busy, Counting
      <3>2. bucket[t] \in RateLimitBucket
        BY <2>4, <3>1
      <3> DEFINE new == [bucket[t] EXCEPT !.count = @ + 1]
      <3>3. new \in RateLimitBucket /\ new.count = bucket[t].count + 1 /\ (new.over <=> bucket[t].over)
        BY <3>2 DEF RateLimitBucket
      <3>4. bucket' = [bucket EXCEPT ![t] = new]
        BY <2>1, <2>9 DEF JoinWindow
      <3> HIDE DEF new
      <3>5. bucket' \in [Token -> RateLimitBucket \cup {None}] /\ bucket'[t] = new
        BY <2>4, <3>3, <3>4
      <3>6. /\ passed' \in [Token -> Nat] /\ passed'[t] = passed[t] + 1
            /\ restarts' \in [Token -> Nat] /\ restarts'[t] = restarts[t]
            /\ \A u \in Token : u # t => passed'[u] = passed[u] /\ restarts'[u] = restarts[u]
        BY <2>1, <2>4, <2>9 DEF JoinWindow
      <3>7. LimitKept(t)'
        BY <2>6, <2>7, <3>1, <3>3, <3>5, <3>6, JoinKeeps
      <3>8. ASSUME NEW u \in Token, u # t PROVE LimitKept(u)'
        <4>1. bucket'[u] = bucket[u]
          BY <2>4, <3>4, <3>8
        <4>2. QED
          BY <2>5, <3>6, <3>8, <4>1, LimitStays
      <3>9. ApiTypeOK'
        BY <2>1, <2>3, <3>5, <3>6 DEF ApiInv, ApiTypeOK
      <3>10. QED
        BY <2>1, <3>7, <3>8, <3>9, SameKeys DEF ApiInv
    <2>10. QED
      BY <2>8, <2>9
  <1>7. QED
    BY <1>5, <1>6

\* A stored answer is one that was given before.
LEMMA ReplayKeeps ==
    ASSUME ApiInv, NEW h \in Handler, Replay(h)
    PROVE  ApiInv'
  <1>1. at[h] \in AtKey
    BY TaskOf DEF Replay, Busy, Idle, Counting
  <1>2. PICK k \in Key : k = at[h].key
    BY <1>1 DEF AtKey
  <1>3. CASE stored[k] = None
    <2>1. [op |-> "create", key |-> k] \in AtKey
      BY DEF AtKey
    <2>2. QED
      BY <1>2, <1>3, <2>1, ApiHandlerKeeps DEF Replay, Proceed
  <1>4. CASE stored[k] # None
    <2>1. /\ at' = [at EXCEPT ![h] = Idle]
          /\ replies' = [replies EXCEPT ![k] = @ \cup {stored[k].issue}]
          /\ UNCHANGED <<bucket, stored, sequence, made, swept, counts>>
      BY <1>2, <1>4 DEF Replay, Leave, Proceed, AnswerKey
    <2>2. stored[k] \in ApiIdempotency
      BY <1>4 DEF ApiInv, ApiTypeOK
    <2>3. stored[k].issue \in Nat
      BY <2>2 DEF ApiIdempotency
    <2>4. ApiTypeOK'
      BY <2>1, <2>3 DEF ApiInv, ApiTypeOK, counts
    <2>5. Numbered'
      BY <2>1 DEF ApiInv, Numbered
    <2>6. \A j \in Key : replies'[j] = IF j = k THEN replies[j] \cup {stored[k].issue} ELSE replies[j]
      BY <2>1 DEF ApiInv, ApiTypeOK
    <2>7. ASSUME NEW j \in Key PROVE KeyKept(j)'
      <3>1. KeyKept(j) /\ Mine(j)' = Mine(j)
        BY <2>1 DEF ApiInv, Mine
      <3>2. QED
        BY <1>4, <2>1, <2>6, <3>1 DEF KeyKept
    <2>8. Idle.op # "count"
      BY DEF Idle
    <2>9. \A t \in Token : LimitKept(t)'
      BY <2>1, <2>8, FewerAdders
    <2>10. QED
      BY <2>4, <2>5, <2>7, <2>9 DEF ApiInv
  <1>5. QED
    BY <1>3, <1>4

\* Only a key without an answer makes an issue, and the answer comes with it.
LEMMA ApiCreateKeeps ==
    ASSUME ApiInv, NEW h \in Handler, CreateIssue(h)
    PROVE  ApiInv'
  <1>1. at[h] \in AtKey
    BY TaskOf DEF CreateIssue, Busy, Idle, Counting
  <1>2. PICK k \in Key : k = at[h].key
    BY <1>1 DEF AtKey
  <1>3. CASE stored[k] # None
    BY <1>2, <1>3, ApiHandlerKeeps DEF CreateIssue, Taken, Leave, Proceed
  <1>4. CASE stored[k] = None
    <2> DEFINE new == [issue |-> sequence', old |-> FALSE]
    <2>1. /\ at' = [at EXCEPT ![h] = Idle]
          /\ sequence' = sequence + 1
          /\ made' = Append(made, [key |-> k, number |-> sequence'])
          /\ stored' = [stored EXCEPT ![k] = new]
          /\ replies' = [replies EXCEPT ![k] = @ \cup {sequence'}]
          /\ UNCHANGED <<bucket, swept, counts>>
      BY <1>2, <1>4 DEF CreateIssue, Taken, Leave, Proceed, AnswerKey
    <2>2. sequence' \in Nat
      BY <2>1 DEF ApiInv, ApiTypeOK, Numbered
    <2>3. new \in ApiIdempotency /\ new.issue = sequence'
      BY <2>2 DEF ApiIdempotency
    <2> HIDE DEF new
    <2>4. new # None
      BY <2>3, ApiAssumption
    <2>5. /\ made' \in Seq(Made) /\ Numbered'
          /\ \A j \in Key : Mine(j)' = IF j = k THEN Mine(j) \cup {sequence'} ELSE Mine(j)
      BY <2>1, OneMore
    <2>6. ApiTypeOK'
      BY <2>1, <2>2, <2>3, <2>5 DEF ApiInv, ApiTypeOK, counts
    <2>7. ASSUME NEW j \in Key PROVE KeyKept(j)'
      <3>1. /\ replies'[j] = IF j = k THEN replies[j] \cup {sequence'} ELSE replies[j]
            /\ stored'[j] = IF j = k THEN new ELSE stored[j]
        BY <2>1 DEF ApiInv, ApiTypeOK
      <3>2. KeyKept(j)
        BY DEF ApiInv
      <3>3. QED
        BY <1>4, <2>1, <2>3, <2>4, <2>5, <3>1, <3>2 DEF KeyKept
    <2>8. Idle.op # "count"
      BY DEF Idle
    <2>9. \A t \in Token : LimitKept(t)'
      BY <2>1, <2>8, FewerAdders
    <2>10. QED
      BY <2>5, <2>6, <2>7, <2>9 DEF ApiInv
  <1>5. QED
    BY <1>3, <1>4

-----------------------------------------------------------------------------
LEMMA ApiNextKeeps ==
    ASSUME ApiInv, [ApiNext]_apiState
    PROVE  ApiInv'
  <1>1. CASE Sweep
    BY <1>1, SweepKeeps
  <1>2. CASE CreateOtherwise
    BY <1>2, OtherwiseKeeps
  <1>3. CASE \E k \in Key : DayPasses(k)
    BY <1>3, DayKeeps
  <1>4. ASSUME NEW t \in Token,
               WindowPasses(t) \/ CreateToken(t) \/ RevokeToken(t) \/ \E u \in Token : RotateToken(t, u)
        PROVE  ApiInv'
    <2>1. CASE WindowPasses(t)
      BY <2>1, WindowKeeps
    <2>2. CASE CreateToken(t)
      BY <2>2, TokensKeep DEF CreateToken, InOneStep
    <2>3. CASE RevokeToken(t)
      BY <2>3, TokensKeep DEF RevokeToken, InOneStep
    <2>4. CASE \E u \in Token : RotateToken(t, u)
      BY <2>4, TokensKeep DEF RotateToken, InOneStep
    <2>5. QED
      BY <1>4, <2>1, <2>2, <2>3, <2>4
  <1>5. ASSUME NEW h \in Handler,
               \/ \E k \in Key : Authenticate(h, k)
               \/ ReadBucket(h) \/ CountRequest(h) \/ Replay(h) \/ CreateIssue(h) \/ RefuseIssue(h)
        PROVE  ApiInv'
    BY <1>5, AuthenticateKeeps, ReadKeeps, CountKeeps, ReplayKeeps, ApiCreateKeeps, ApiRefuseKeeps
  <1>6. CASE UNCHANGED apiState
    BY <1>6, TokensKeep DEF apiState, handlers, apiVars
  <1>7. QED
    BY <1>1, <1>2, <1>3, <1>4, <1>5, <1>6 DEF ApiNext

\* A key of a token makes one issue, whose number is every answer to it until it is swept
\* (src/app/api/v1/issues/route.ts).  Every request let through in a window is counted, but
\* for those that a request which had read the window before made it forget, and that
\* happens less often than there are handlers (src/lib/security.ts).
THEOREM KeysAreAnsweredOnce ==
    ASSUME NEW requests
    PROVE  ApiSpec(requests) => []OncePerKey
  <1>1. ApiInit /\ HandlersInit(requests) => ApiInv
    BY ApiInitKeeps
  <1>2. ApiInv /\ [ApiNext]_apiState => ApiInv'
    BY ApiNextKeeps
  <1>3. ApiInv => OncePerKey
    BY InvImpliesOnce
  <1>4. QED
    BY <1>1, <1>2, <1>3, PTL DEF ApiSpec


portalState == <<handlers, accessVars>>

PortalSpec(requests) == AccessInit /\ HandlersInit(requests) /\ [][AccessNext]_portalState

-----------------------------------------------------------------------------
(* The inductive invariant.                                                *)

Purpose == {"invitation", "recovery"}
Link    == [purpose : Purpose, state : {"unused", "used", "expired", "deleted"}]
Visit   == [secret : Nat, live : BOOLEAN]

Issuing == [op : {"issue"}, purpose : Purpose, doomed : SUBSET Nat]
Using   == [op : {"use"}, link : Nat]
Opening == [op : {"open"}, secret : Nat]

AccessTypeOK ==
  /\ account \in [secret : Nat, active : BOOLEAN]
  /\ link \in Seq(Link)
  /\ visit \in Seq(Visit)
  /\ recovered \in Nat
  /\ at \in [Handler -> {Idle} \cup Issuing \cup Using \cup Opening]

\* A request for a link that meets no other is to delete all that it finds when it
\* comes to its second statement.
LinksKept ==
  alone =>
    /\ \A g, h \in Handler : Busy(g, "issue") /\ Busy(h, "issue") => g = h
    /\ \A h \in Handler : Busy(h, "issue") => Outstanding(at[h].purpose) \subseteq at[h].doomed
    /\ \A purpose \in Purpose : \A j, k \in Outstanding(purpose) : j = k

\* Also while the account is closed.
VisitsKnow == \A i \in DOMAIN visit : visit[i].live => visit[i].secret >= recovered \/ i \in overtaken

AccessInv == AccessTypeOK /\ ~doubled /\ VisitsKnow /\ LinksKept

LEMMA InvImpliesRecovery == AccessInv => RecoveryHolds
  <1> SUFFICES ASSUME AccessInv PROVE RecoveryHolds
    OBVIOUS
  <1>1. ASSUME alone, NEW purpose \in {"invitation", "recovery"}
        PROVE  Cardinality(Outstanding(purpose)) <= 1
    <2>1. \A j, k \in Outstanding(purpose) : j = k
      BY <1>1 DEF AccessInv, LinksKept, Purpose
    <2>2. CASE Outstanding(purpose) = {}
      <3>1. Cardinality({}) = 0
        BY FS_EmptySet
      <3>2. QED
        BY <2>2, <3>1
    <2>3. CASE Outstanding(purpose) # {}
      <3>1. PICK k : k \in Outstanding(purpose)
        BY <2>3
      <3>2. Outstanding(purpose) = {k}
        BY <2>1, <3>1
      <3>3. Cardinality({k}) = 1
        BY FS_Singleton
      <3>4. QED
        BY <3>2, <3>3
    <2>4. QED
      BY <2>2, <2>3
  <1>2. \A i \in DOMAIN visit : Entered(i) => visit[i].secret >= recovered \/ i \in overtaken
    BY DEF AccessInv, VisitsKnow, Entered
  <1>3. QED
    BY <1>1, <1>2 DEF AccessInv, RecoveryHolds

-----------------------------------------------------------------------------
(* What the steps have in common.                                          *)

\* Steps that send no link; links only cease to work.
LEMMA NoLinkSent ==
    ASSUME AccessInv, alone' = alone,
           \A purpose \in Purpose : Outstanding(purpose)' \subseteq Outstanding(purpose),
           \A h \in Handler : Busy(h, "issue")' => Busy(h, "issue") /\ at'[h] = at[h]
    PROVE  LinksKept'
  <1> SUFFICES ASSUME alone PROVE LinksKept'
    BY DEF LinksKept
  <1>1. \A h \in Handler : Busy(h, "issue") => at[h].purpose \in Purpose
    BY DEF AccessInv, AccessTypeOK, Busy, Idle, Issuing, Using, Opening
  <1>2. \A g, h \in Handler : Busy(g, "issue")' /\ Busy(h, "issue")' => g = h
    BY DEF AccessInv, LinksKept
  <1>3. ASSUME NEW h \in Handler, Busy(h, "issue")'
        PROVE  (Outstanding(at[h].purpose) \subseteq at[h].doomed)'
    <2>1. /\ Busy(h, "issue") /\ at'[h] = at[h]
          /\ Outstanding(at[h].purpose) \subseteq at[h].doomed
      BY <1>3 DEF AccessInv, LinksKept
    <2>2. PICK purpose \in Purpose : purpose = at[h].purpose
      BY <1>1, <2>1
    <2>3. Outstanding(purpose)' \subseteq Outstanding(purpose)
      OBVIOUS
    <2>4. at'[h].purpose = purpose /\ at'[h].doomed = at[h].doomed
      BY <2>1, <2>2
    <2>5. QED
      BY <2>1, <2>2, <2>3, <2>4 DEF Outstanding
  <1>4. \A purpose \in Purpose : \A j, k \in Outstanding(purpose)' : j = k
    BY DEF AccessInv, LinksKept
  <1>5. QED
    BY <1>2, <1>3, <1>4 DEF LinksKept

\* Steps of a handler that leave the tables as they are.
LEMMA PortalHandlerKeeps ==
    ASSUME AccessInv, NEW h \in Handler, NEW next \in {Idle} \cup Using \cup Opening,
           at' = [at EXCEPT ![h] = next], UNCHANGED accessVars
    PROVE  AccessInv'
  <1>1. AccessTypeOK'
    BY DEF AccessInv, AccessTypeOK, accessVars
  <1>2. next.op # "issue"
    BY DEF Idle, Using, Opening
  <1>3. \A g \in Handler : Busy(g, "issue")' => Busy(g, "issue") /\ at'[g] = at[g]
    BY <1>2 DEF Busy, AccessInv, AccessTypeOK
  <1>4. LinksKept'
    <2>1. \A purpose \in Purpose : Outstanding(purpose)' \subseteq Outstanding(purpose)
      BY DEF accessVars, Outstanding
    <2>2. QED
      BY <1>3, <2>1, NoLinkSent DEF accessVars
  <1>5. VisitsKnow' /\ ~doubled'
    BY DEF AccessInv, VisitsKnow, accessVars
  <1>6. QED
    BY <1>1, <1>4, <1>5 DEF AccessInv

\* A link that gets another state than unused.
LEMMA LinkLapses ==
    ASSUME AccessInv, NEW k, NEW state \in {"used", "expired"},
           link' = [link EXCEPT ![k].state = state]
    PROVE  /\ link' \in Seq(Link)
           /\ \A purpose \in Purpose : Outstanding(purpose)' \subseteq Outstanding(purpose)
  <1>1. link \in Seq(Link) /\ Len(link) \in Nat /\ DOMAIN link = 1 .. Len(link)
    BY DEF AccessInv, AccessTypeOK
  <1> DEFINE new == [link[k] EXCEPT !.state = state]
  <1>2. link' = [link EXCEPT ![k] = new]
    OBVIOUS
  <1>3. k \in DOMAIN link => new \in Link /\ new.state = state
    <2> SUFFICES ASSUME k \in DOMAIN link PROVE new \in Link /\ new.state = state
      OBVIOUS
    <2>1. link[k] \in Link
      BY <1>1
    <2>2. QED
      BY <2>1 DEF Link
  <1> HIDE DEF new
  <1>4. DOMAIN link' = DOMAIN link /\ \A j \in DOMAIN link : link'[j] = IF j = k THEN new ELSE link[j]
    BY <1>1, <1>2
  <1>5. link' \in Seq(Link)
    <2>1. \A j \in 1 .. Len(link) : link[j] \in Link
      BY <1>1
    <2>2. link' \in [1 .. Len(link) -> Link]
      BY <1>1, <1>2, <1>3, <1>4, <2>1
    <2>3. QED
      BY <1>1, <2>2
  <1>6. ASSUME NEW purpose \in Purpose PROVE Outstanding(purpose)' \subseteq Outstanding(purpose)
    BY <1>3, <1>4 DEF Outstanding
  <1>7. QED
    BY <1>5, <1>6

\* Sessions that end: all of them, or those that are told to.
LEMMA VisitsEnd ==
    ASSUME AccessInv, visit' = [i \in DOMAIN visit |-> [visit[i] EXCEPT !.live = FALSE]]
    PROVE  visit' \in Seq(Visit) /\ DOMAIN visit' = DOMAIN visit /\ \A i \in DOMAIN visit' : ~visit'[i].live
  <1>1. visit \in Seq(Visit) /\ Len(visit) \in Nat /\ DOMAIN visit = 1 .. Len(visit)
    BY DEF AccessInv, AccessTypeOK
  <1>2. \A v \in Visit : [v EXCEPT !.live = FALSE] \in Visit /\ ~[v EXCEPT !.live = FALSE].live
    BY DEF Visit
  <1>3. \A i \in DOMAIN visit : visit[i] \in Visit
    BY <1>1
  <1>4. \A i \in DOMAIN visit : visit'[i] \in Visit /\ ~visit'[i].live
    BY <1>2, <1>3
  <1>5. visit' \in [1 .. Len(visit) -> Visit]
    BY <1>1, <1>4
  <1>6. QED
    BY <1>1, <1>4, <1>5

-----------------------------------------------------------------------------
(* The steps.                                                              *)

LEMMA PortalInitKeeps ==
    ASSUME NEW requests, AccessInit, HandlersInit(requests)
    PROVE  AccessInv
  <1>1. AccessTypeOK
    BY DEF AccessInit, HandlersInit, AccessTypeOK
  <1>2. VisitsKnow /\ ~doubled
    BY DEF AccessInit, VisitsKnow
  <1>3. (\A h \in Handler : ~Busy(h, "issue")) /\ \A purpose \in Purpose : Outstanding(purpose) = {}
    BY DEF AccessInit, HandlersInit, Busy, Idle, Outstanding
  <1>4. QED
    BY <1>1, <1>2, <1>3 DEF AccessInv, LinksKept

LEMMA BeginIssueKeeps ==
    ASSUME AccessInv, NEW h \in Handler, NEW purpose \in Purpose, BeginIssue(h, purpose)
    PROVE  AccessInv'
  <1> DEFINE next == [op |-> "issue", purpose |-> purpose, doomed |-> Outstanding(purpose)]
  <1>1. /\ at' = [at EXCEPT ![h] = next]
        /\ alone' = (alone /\ \A g \in Handler : ~Busy(g, "issue"))
        /\ UNCHANGED <<account, link, visit, recovered, overtaken, doubled>>
    BY DEF BeginIssue, Enter
  <1>2. next \in Issuing
    <2>1. Outstanding(purpose) \subseteq Nat
      BY DEF AccessInv, AccessTypeOK, Outstanding
    <2>2. QED
      BY <2>1 DEF Issuing
  <1>3. next.op = "issue" /\ next.purpose = purpose /\ next.doomed = Outstanding(purpose)
    OBVIOUS
  <1> HIDE DEF next
  <1>4. \A g \in Handler : at'[g] = IF g = h THEN next ELSE at[g]
    BY <1>1 DEF AccessInv, AccessTypeOK
  <1>5. AccessTypeOK'
    BY <1>1, <1>2 DEF AccessInv, AccessTypeOK
  <1>6. VisitsKnow' /\ ~doubled'
    BY <1>1 DEF AccessInv, VisitsKnow
  <1>7. \A p : Outstanding(p)' = Outstanding(p)
    BY <1>1 DEF Outstanding
  <1>8. ASSUME alone' PROVE LinksKept'
    <2>1. alone /\ \A g \in Handler : ~Busy(g, "issue")
      BY <1>1, <1>8
    <2>2. \A g \in Handler : Busy(g, "issue")' => g = h
      BY <1>4, <2>1 DEF Busy
    <2>3. at'[h] = next
      BY <1>4
    <2>4. \A g \in Handler : Busy(g, "issue")' => (Outstanding(at[g].purpose) \subseteq at[g].doomed)'
      BY <1>1, <1>3, <2>2, <2>3 DEF Outstanding
    <2>5. \A p \in Purpose : \A j, k \in Outstanding(p)' : j = k
      BY <1>7, <2>1 DEF AccessInv, LinksKept
    <2>6. QED
      BY <2>2, <2>4, <2>5 DEF LinksKept
  <1>9. LinksKept'
    BY <1>8 DEF LinksKept
  <1>10. QED
    BY <1>5, <1>6, <1>9 DEF AccessInv

LEMMA IssueLinkKeeps ==
    ASSUME AccessInv, NEW h \in Handler, IssueLink(h)
    PROVE  AccessInv'
  <1> DEFINE r     == at[h]
             fresh == [purpose |-> r.purpose, state |-> "unused"]
             kept  == [k \in DOMAIN link |-> IF k \in r.doomed THEN [link[k] EXCEPT !.state = "deleted"] ELSE link[k]]
  <1>1. /\ Busy(h, "issue") /\ at' = [at EXCEPT ![h] = Idle] /\ link' = Append(kept, fresh)
        /\ UNCHANGED <<account, visit, recovered, overtaken, doubled, alone>>
    BY DEF IssueLink, Leave, Proceed
  <1>2. r \in Issuing
    BY <1>1 DEF AccessInv, AccessTypeOK, Busy, Idle, Issuing, Using, Opening
  <1>3. link \in Seq(Link) /\ Len(link) \in Nat /\ DOMAIN link = 1 .. Len(link)
    BY DEF AccessInv, AccessTypeOK
  <1>4. fresh \in Link /\ fresh.purpose = r.purpose
    BY <1>2 DEF Link, Issuing
  <1>5. \A k \in DOMAIN link : /\ kept[k] \in Link /\ kept[k].purpose = link[k].purpose
                               /\ kept[k].state = "unused" => link[k].state = "unused" /\ k \notin r.doomed
    <2> SUFFICES ASSUME NEW k \in DOMAIN link
                 PROVE  /\ kept[k] \in Link /\ kept[k].purpose = link[k].purpose
                        /\ kept[k].state = "unused" => link[k].state = "unused" /\ k \notin r.doomed
      OBVIOUS
    <2>1. link[k] \in Link
      BY <1>3
    <2>2. CASE k \in r.doomed
      <3>1. kept[k] = [link[k] EXCEPT !.state = "deleted"]
        BY <2>2
      <3>2. QED
        BY <2>1, <3>1 DEF Link
    <2>3. CASE k \notin r.doomed
      BY <2>1, <2>3
    <2>4. QED
      BY <2>2, <2>3
  <1>6. DOMAIN kept = DOMAIN link
    OBVIOUS
  <1> HIDE DEF kept, fresh
  <1>7. kept \in Seq(Link) /\ Len(kept) = Len(link)
    <2>0. kept = [k \in 1 .. Len(link) |-> kept[k]]
      BY <1>3 DEF kept
    <2>1. kept \in [1 .. Len(link) -> Link]
      BY <1>3, <1>5, <2>0
    <2>2. QED
      BY <1>3, <2>1
  <1>8. /\ link' \in Seq(Link) /\ DOMAIN link' = 1 .. (Len(link) + 1)
        /\ link'[Len(link) + 1] = fresh
        /\ \A k \in DOMAIN link : link'[k] = kept[k]
    BY <1>1, <1>3, <1>4, <1>7
  <1>9. \A g \in Handler : at'[g] = IF g = h THEN Idle ELSE at[g]
    BY <1>1 DEF AccessInv, AccessTypeOK
  <1>10. AccessTypeOK'
    BY <1>1, <1>8 DEF AccessInv, AccessTypeOK
  <1>11. VisitsKnow' /\ ~doubled'
    BY <1>1 DEF AccessInv, VisitsKnow
  <1>12. ASSUME alone PROVE LinksKept'
    <2>1. /\ \A g \in Handler : Busy(g, "issue") => g = h
          /\ Outstanding(r.purpose) \subseteq r.doomed
          /\ \A p \in Purpose : \A j, k \in Outstanding(p) : j = k
      BY <1>1, <1>12 DEF AccessInv, LinksKept
    <2>2. \A g \in Handler : ~Busy(g, "issue")'
      BY <1>9, <2>1 DEF Busy, Idle
    <2>3. \A p \in Purpose : \A k \in Outstanding(p)' :
            (k \in Outstanding(p) /\ k \notin r.doomed) \/ (k = Len(link) + 1 /\ p = r.purpose)
      <3> SUFFICES ASSUME NEW p \in Purpose, NEW k \in Outstanding(p)'
                   PROVE  (k \in Outstanding(p) /\ k \notin r.doomed) \/ (k = Len(link) + 1 /\ p = r.purpose)
        OBVIOUS
      <3>1. k \in 1 .. (Len(link) + 1) /\ link'[k].purpose = p /\ link'[k].state = "unused"
        BY <1>8 DEF Outstanding
      <3>2. CASE k = Len(link) + 1
        BY <1>4, <1>8, <3>1, <3>2
      <3>3. CASE k # Len(link) + 1
        <4>1. k \in DOMAIN link
          BY <1>3, <3>1, <3>3
        <4>2. link'[k] = kept[k]
          BY <1>8, <4>1
        <4>3. QED
          BY <1>5, <3>1, <4>1, <4>2 DEF Outstanding
      <3>4. QED
        BY <3>2, <3>3
    <2>4. \A p \in Purpose : \A j, k \in Outstanding(p)' : j = k
      <3> SUFFICES ASSUME NEW p \in Purpose, NEW j \in Outstanding(p)', NEW k \in Outstanding(p)'
                   PROVE  j = k
        OBVIOUS
      <3>1. CASE p = r.purpose
        BY <2>1, <2>3, <3>1
      <3>2. CASE p # r.purpose
        BY <2>1, <2>3, <3>2
      <3>3. QED
        BY <3>1, <3>2
    <2>5. QED
      BY <2>2, <2>4 DEF LinksKept
  <1>13. LinksKept'
    BY <1>1, <1>12 DEF LinksKept
  <1>14. QED
    BY <1>10, <1>11, <1>13 DEF AccessInv

LEMMA ExpireKeeps ==
    ASSUME AccessInv, NEW k, ExpireLink(k)
    PROVE  AccessInv'
  <1>1. /\ link' = [link EXCEPT ![k].state = "expired"] /\ at' = at
        /\ UNCHANGED <<account, visit, recovered, overtaken, doubled, alone>>
    BY DEF ExpireLink, InOneStep
  <1>2. link' \in Seq(Link) /\ \A purpose \in Purpose : Outstanding(purpose)' \subseteq Outstanding(purpose)
    BY <1>1, LinkLapses
  <1>3. \A h \in Handler : Busy(h, "issue")' => Busy(h, "issue") /\ at'[h] = at[h]
    BY <1>1 DEF Busy
  <1>4. LinksKept'
    BY <1>1, <1>2, <1>3, NoLinkSent
  <1>5. AccessTypeOK' /\ VisitsKnow' /\ ~doubled'
    BY <1>1, <1>2 DEF AccessInv, AccessTypeOK, VisitsKnow
  <1>6. QED
    BY <1>4, <1>5 DEF AccessInv

LEMMA UseLinkKeeps ==
    ASSUME AccessInv, NEW h \in Handler, UseLink(h)
    PROVE  AccessInv'
  <1> DEFINE k        == at[h].link
             recovery == link[k].purpose = "recovery"
             secret   == account.secret + 1
             opener   == [op |-> "open", secret |-> secret]
  <1>1. CASE Leave(h) /\ UNCHANGED accessVars
    BY <1>1, PortalHandlerKeeps DEF Leave, Proceed
  <1>2. CASE /\ StillUnused(k)
             /\ link' = [link EXCEPT ![k].state = "used"]
             /\ doubled' = (doubled \/ link[k].state = "used")
             /\ account' = [account EXCEPT !.secret = secret]
             /\ visit' = IF recovery THEN [i \in DOMAIN visit |-> [visit[i] EXCEPT !.live = FALSE]] ELSE visit
             /\ recovered' = IF recovery THEN secret ELSE recovered
             /\ IF recovery THEN Leave(h) ELSE Proceed(h, opener)
             /\ UNCHANGED <<overtaken, alone>>
    <2>1. account.secret \in Nat /\ account' \in [secret : Nat, active : BOOLEAN]
      BY <1>2 DEF AccessInv, AccessTypeOK
    <2>2. secret \in Nat /\ opener \in Opening /\ opener.op # "issue"
      BY <2>1 DEF Opening
    <2>3. PICK next \in {Idle} \cup Opening : at' = [at EXCEPT ![h] = next] /\ next.op # "issue"
      BY <1>2, <2>2 DEF Leave, Proceed, Idle
    <2>4. link' \in Seq(Link) /\ \A purpose \in Purpose : Outstanding(purpose)' \subseteq Outstanding(purpose)
      BY <1>2, LinkLapses
    <2>5. \A g \in Handler : Busy(g, "issue")' => Busy(g, "issue") /\ at'[g] = at[g]
      BY <2>3 DEF Busy, AccessInv, AccessTypeOK
    <2>6. LinksKept'
      BY <1>2, <2>4, <2>5, NoLinkSent
    <2>7. ~doubled'
      BY <1>2 DEF AccessInv, StillUnused
    <2>8. visit' \in Seq(Visit) /\ recovered' \in Nat /\ VisitsKnow'
      <3>1. CASE recovery
        <4>1. visit' = [i \in DOMAIN visit |-> [visit[i] EXCEPT !.live = FALSE]] /\ recovered' = secret
          BY <1>2, <3>1
        <4>2. visit' \in Seq(Visit) /\ \A i \in DOMAIN visit' : ~visit'[i].live
          BY <4>1, VisitsEnd
        <4>3. QED
          BY <2>2, <4>1, <4>2 DEF VisitsKnow
      <3>2. CASE ~recovery
        BY <1>2, <3>2 DEF AccessInv, AccessTypeOK, VisitsKnow
      <3>3. QED
        BY <3>1, <3>2
    <2>9. at' \in [Handler -> {Idle} \cup Issuing \cup Using \cup Opening]
      BY <2>3 DEF AccessInv, AccessTypeOK
    <2>10. AccessTypeOK'
      BY <2>1, <2>4, <2>8, <2>9 DEF AccessTypeOK
    <2>11. QED
      BY <2>6, <2>7, <2>8, <2>10 DEF AccessInv
  <1>3. QED
    BY <1>1, <1>2 DEF UseLink

LEMMA CreatePortalSessionKeeps ==
    ASSUME AccessInv, NEW h \in Handler, CreatePortalSession(h)
    PROVE  AccessInv'
  <1> DEFINE fresh == [secret |-> at[h].secret, live |-> TRUE]
             last  == Len(visit) + 1
  <1>1. /\ Busy(h, "open") /\ at' = [at EXCEPT ![h] = Idle] /\ visit' = Append(visit, fresh)
        /\ overtaken' = IF at[h].secret < recovered THEN overtaken \cup {last} ELSE overtaken
        /\ UNCHANGED <<account, link, recovered, doubled, alone>>
    BY DEF CreatePortalSession, Leave, Proceed
  <1>2. at[h] \in Opening
    BY <1>1 DEF AccessInv, AccessTypeOK, Busy, Idle, Issuing, Using, Opening
  <1>3. fresh \in Visit /\ fresh.secret = at[h].secret /\ at[h].secret \in Nat
    BY <1>2 DEF Visit, Opening
  <1> HIDE DEF fresh
  <1>4. visit \in Seq(Visit) /\ Len(visit) \in Nat /\ DOMAIN visit = 1 .. Len(visit) /\ recovered \in Nat
    BY DEF AccessInv, AccessTypeOK
  <1>5. /\ visit' \in Seq(Visit) /\ DOMAIN visit' = 1 .. last
        /\ visit'[last] = fresh
        /\ \A i \in DOMAIN visit : visit'[i] = visit[i]
    BY <1>1, <1>3, <1>4
  <1>6. VisitsKnow'
    <2> SUFFICES ASSUME NEW i \in DOMAIN visit', visit'[i].live
                 PROVE  visit'[i].secret >= recovered \/ i \in overtaken'
      BY <1>1 DEF VisitsKnow
    <2>1. CASE i = last
      BY <1>1, <1>3, <1>4, <1>5, <2>1
    <2>2. CASE i # last
      <3>1. i \in DOMAIN visit
        BY <1>4, <1>5, <2>2
      <3>2. visit'[i] = visit[i] /\ overtaken \subseteq overtaken'
        BY <1>1, <1>5, <3>1
      <3>3. QED
        BY <3>1, <3>2 DEF AccessInv, VisitsKnow
    <2>3. QED
      BY <2>1, <2>2
  <1>7. \A g \in Handler : Busy(g, "issue")' => Busy(g, "issue") /\ at'[g] = at[g]
    BY <1>1 DEF Busy, Idle, AccessInv, AccessTypeOK
  <1>8. LinksKept'
    <2>1. \A purpose \in Purpose : Outstanding(purpose)' \subseteq Outstanding(purpose)
      BY <1>1 DEF Outstanding
    <2>2. QED
      BY <1>1, <1>7, <2>1, NoLinkSent
  <1>9. AccessTypeOK' /\ ~doubled'
    BY <1>1, <1>5 DEF AccessInv, AccessTypeOK
  <1>10. QED
    BY <1>6, <1>8, <1>9 DEF AccessInv

\* Steps after which the sessions that are alive are some of those that were.
LEMMA FewerVisitsKeep ==
    ASSUME AccessInv, UNCHANGED <<link, recovered, overtaken, doubled, alone, at>>,
           account' \in [secret : Nat, active : BOOLEAN], visit' \in Seq(Visit),
           \A i \in DOMAIN visit' : visit'[i].live => i \in DOMAIN visit /\ visit'[i] = visit[i]
    PROVE  AccessInv'
  <1>1. AccessTypeOK' /\ ~doubled'
    BY DEF AccessInv, AccessTypeOK
  <1>2. VisitsKnow'
    BY DEF AccessInv, VisitsKnow
  <1>3. LinksKept'
    <2>1. /\ \A purpose \in Purpose : Outstanding(purpose)' \subseteq Outstanding(purpose)
          /\ \A h \in Handler : Busy(h, "issue")' => Busy(h, "issue") /\ at'[h] = at[h]
      BY DEF Outstanding, Busy
    <2>2. QED
      BY <2>1, NoLinkSent
  <1>4. QED
    BY <1>1, <1>2, <1>3 DEF AccessInv

LEMMA EndVisitKeeps ==
    ASSUME AccessInv, NEW i \in DOMAIN visit, EndVisit(i)
    PROVE  AccessInv'
  <1> DEFINE ended == [visit[i] EXCEPT !.live = FALSE]
  <1>1. /\ visit' = [visit EXCEPT ![i] = ended] /\ at' = at
        /\ UNCHANGED <<account, link, recovered, overtaken, doubled>> /\ alone' = alone
    BY DEF EndVisit, InOneStep
  <1>2. visit \in Seq(Visit) /\ Len(visit) \in Nat /\ DOMAIN visit = 1 .. Len(visit)
    BY DEF AccessInv, AccessTypeOK
  <1>3. ended \in Visit /\ ~ended.live
    <2>1. visit[i] \in Visit
      BY <1>2
    <2>2. QED
      BY <2>1 DEF Visit
  <1> HIDE DEF ended
  <1>4. visit' \in Seq(Visit) /\ DOMAIN visit' = DOMAIN visit
        /\ \A j \in DOMAIN visit : visit'[j] = IF j = i THEN ended ELSE visit[j]
    BY <1>1, <1>2, <1>3
  <1>5. \A j \in DOMAIN visit' : visit'[j].live => j \in DOMAIN visit /\ visit'[j] = visit[j]
    BY <1>3, <1>4
  <1>6. account' \in [secret : Nat, active : BOOLEAN]
    BY <1>1 DEF AccessInv, AccessTypeOK
  <1>7. QED
    BY <1>1, <1>4, <1>5, <1>6, FewerVisitsKeep

LEMMA CloseAccountKeeps ==
    ASSUME AccessInv, CloseAccount
    PROVE  AccessInv'
  <1>1. /\ account' = [account EXCEPT !.active = FALSE] /\ at' = at
        /\ visit' = [i \in DOMAIN visit |-> [visit[i] EXCEPT !.live = FALSE]]
        /\ UNCHANGED <<link, recovered, overtaken, doubled, alone>>
    BY DEF CloseAccount, InOneStep
  <1>2. visit' \in Seq(Visit) /\ \A i \in DOMAIN visit' : ~visit'[i].live
    BY <1>1, VisitsEnd
  <1>3. account' \in [secret : Nat, active : BOOLEAN]
    BY <1>1 DEF AccessInv, AccessTypeOK
  <1>4. QED
    BY <1>1, <1>2, <1>3, FewerVisitsKeep

LEMMA PortalStutterKeeps ==
    ASSUME AccessInv, UNCHANGED portalState
    PROVE  AccessInv'
  <1>1. UNCHANGED <<account, link, visit, recovered, overtaken, doubled, alone, at>>
    BY DEF portalState, handlers, accessVars
  <1>2. account' \in [secret : Nat, active : BOOLEAN] /\ visit' \in Seq(Visit)
    BY <1>1 DEF AccessInv, AccessTypeOK
  <1>3. \A i \in DOMAIN visit' : visit'[i].live => i \in DOMAIN visit /\ visit'[i] = visit[i]
    BY <1>1
  <1>4. QED
    BY <1>1, <1>2, <1>3, FewerVisitsKeep

-----------------------------------------------------------------------------
\* consumePortalToken claims its link in the transaction that sets the password and ends
\* the sessions: whatever other requests do in between, a link sets one password, and who
\* enters after a recovery knew that password or a later one, but for a login whose
\* password had been checked before it.
THEOREM LinksSetOnePassword ==
    ASSUME NEW requests
    PROVE  PortalSpec(requests) => []RecoveryHolds
  <1>1. AccessInit /\ HandlersInit(requests) => AccessInv
    BY PortalInitKeeps
  <1>2. AccessInv /\ [AccessNext]_portalState => AccessInv'
    <2> SUFFICES ASSUME AccessInv, [AccessNext]_portalState PROVE AccessInv'
      OBVIOUS
    <2>1. CASE \E h \in Handler, purpose \in {"invitation", "recovery"} : BeginIssue(h, purpose)
      BY <2>1, BeginIssueKeeps DEF Purpose
    <2>2. CASE \E h \in Handler : IssueLink(h)
      BY <2>2, IssueLinkKeeps
    <2>3. CASE \E h \in Handler : UseLink(h)
      BY <2>3, UseLinkKeeps
    <2>4. CASE \E h \in Handler : BeginLogin(h)
      <3>1. PICK h \in Handler : BeginLogin(h)
        BY <2>4
      <3>2. [op |-> "open", secret |-> account.secret] \in Opening
        BY DEF AccessInv, AccessTypeOK, Opening
      <3>3. QED
        BY <3>1, <3>2, PortalHandlerKeeps DEF BeginLogin, Enter
    <2>5. CASE \E h \in Handler : CreatePortalSession(h)
      BY <2>5, CreatePortalSessionKeeps
    <2>6. CASE \E h \in Handler : Interrupted(h)
      BY <2>6, PortalHandlerKeeps DEF Interrupted, Leave, Proceed
    <2>7. CASE \E h \in Handler, k \in DOMAIN link : BeginUse(h, k)
      <3>1. PICK h \in Handler, k \in DOMAIN link : BeginUse(h, k)
        BY <2>7
      <3>2. k \in Nat
        BY <3>1 DEF AccessInv, AccessTypeOK
      <3>3. [op |-> "use", link |-> k] \in Using
        BY <3>2 DEF Using
      <3>4. QED
        BY <3>1, <3>3, PortalHandlerKeeps DEF BeginUse, Enter
    <2>8. CASE \E k \in DOMAIN link : ExpireLink(k)
      BY <2>8, ExpireKeeps
    <2>9. CASE \E i \in DOMAIN visit : EndVisit(i)
      BY <2>9, EndVisitKeeps
    <2>10. CASE CloseAccount
      BY <2>10, CloseAccountKeeps
    <2>11. CASE UNCHANGED portalState
      BY <2>11, PortalStutterKeeps
    <2>12. QED
      BY <2>1, <2>2, <2>3, <2>4, <2>5, <2>6, <2>7, <2>8, <2>9, <2>10, <2>11 DEF AccessNext
  <1>3. AccessInv => RecoveryHolds
    BY InvImpliesRecovery
  <1>4. QED
    BY <1>1, <1>2, <1>3, PTL DEF PortalSpec
-----------------------------------------------------------------------------
(* Realtime events.                                                        *)

streamState == <<handlers, streamVars>>

StreamSpec(requests) ==
  StreamInit /\ HandlersInit(requests) /\ [][StreamNext \/ PortalNext]_streamState

Rights == {"project", "issue"}
EventRow == [about : About, at : Nat, old : BOOLEAN]
PageRow == [last : Nat, issues : Nat, notes : Nat, barred : SUBSET Rights, untold : BOOLEAN]
Asking == [op : {"projects"}, current : Nat]
Querying == [op : {"events"}, current : Nat, open : BOOLEAN]
Sending == [op : {"send"}, current : Nat, events : SUBSET Nat]
Polling == [cursor : Nat, heard : SUBSET Nat, shared : BOOLEAN, read : SUBSET Nat, barred : BOOLEAN]

StreamTypeOK ==
  /\ log \in Seq(EventRow)
  /\ access \in [Browser -> SUBSET Rights]
  /\ stream \in [Browser -> {Closed} \cup Asking \cup Querying \cup Sending]
  /\ page \in [Browser -> PageRow]
  /\ portal \in Polling

\* Events take the next place, and grow old in the order of their ids.
LogKept ==
  /\ \A e \in Ids : log[e].at <= Commits
  /\ \A e \in Ids : log[e].old => log[e].at # 0 /\ \A d \in Ids : d < e => log[d].old

RightsKept ==
  /\ \A b \in Browser : Rights \ access[b] \subseteq page[b].barred
  /\ ~portal.shared => portal.barred

\* There is a committed event behind it: if it is committed now, it is overtaken.
Followed(e) == \E f \in Ids : f > e /\ log[f].at # 0

Excluded(b, e) == log[e].about = "theirs" \/ Needs(e) \cap page[b].barred # {}
Missed(b, e) == log[e].old /\ page[b].untold
Covered(b, e) == Excluded(b, e) \/ Shown(b, e) \/ Overtaken(e) \/ Missed(b, e)

\* Up to the place c nothing is left to do for the browser.
Reached(b, c) ==
  c <= Len(log) /\ \A e \in Ids : e <= c => IF log[e].at = 0 THEN Followed(e) ELSE Covered(b, e)

\* What is old behind the place c is missed.
Warned(b, c) == \A e \in Ids : e > c /\ log[e].old => page[b].untold

\* A batch leaves out what was not to be read.
Skipped(b, e) == log[e].at = 0 \/ Excluded(b, e) \/ Overtaken(e) \/ Missed(b, e)

BatchTrue(b, c, events) ==
  /\ \A d \in events : d \in Ids /\ d > c /\ log[d].at # 0
  /\ \A d \in events, e \in Ids : c < e /\ e <= d => e \in events \/ Skipped(b, e)

Connected(b) ==
  /\ Reached(b, stream[b].current) /\ Warned(b, stream[b].current)
  /\ stream[b].op = "events" /\ ~stream[b].open => "project" \in page[b].barred
  /\ stream[b].op = "send" => BatchTrue(b, stream[b].current, stream[b].events)

BrowserKept(b) == Reached(b, page[b].last) /\ (stream[b] # Closed => Connected(b))

PolledUp ==
  /\ portal.cursor <= Len(log)
  /\ \A e \in Ids : e <= portal.cursor =>
       IF log[e].at = 0 THEN Followed(e)
       ELSE log[e].about = "issue" /\ ~portal.barred => e \in portal.heard \/ Overtaken(e)

PollTrue ==
  /\ \A d \in portal.read : d \in Ids /\ d > portal.cursor /\ log[d].at # 0
  /\ \A d \in portal.read, e \in Ids : portal.cursor < e /\ e <= d =>
       e \in portal.read \/ log[e].at = 0 \/ log[e].about # "issue" \/ Overtaken(e)

StreamInv ==
  /\ StreamTypeOK /\ LogKept /\ RightsKept
  /\ \A b \in Browser : BrowserKept(b)
  /\ PolledUp /\ PollTrue

-----------------------------------------------------------------------------
(* Ids and batches.                                                        *)

LEMMA LeastIs ==
    ASSUME NEW S \in SUBSET Nat, S # {}
    PROVE  Least(S) \in S /\ \A d \in S : Least(S) <= d
  <1>1. PICK x \in S : \A y \in S : <<y, x>> \notin OpToRel(<, Nat)
    BY WFMin, NatLessThanWellFounded, Zenon
  <1>2. \A y \in S : ~(y < x)
    BY <1>1, Zenon DEF OpToRel
  <1>3. \A y \in S : x <= y
    BY <1>2
  <1>4. QED
    BY <1>3 DEF Least

LEMMA GreatestIs ==
    ASSUME NEW n \in Nat, NEW S \in SUBSET (1 .. n), S # {}
    PROVE  Greatest(S) \in S /\ \A d \in S : d <= Greatest(S)
  <1> DEFINE T == {n - x : x \in S}
  <1>1. T \in SUBSET Nat /\ T # {}
    <2>1. \A x \in S : x \in 1 .. n /\ n - x \in Nat
      OBVIOUS
    <2>2. QED
      BY <2>1
  <1>2. Least(T) \in T /\ \A d \in T : Least(T) <= d
    BY <1>1, LeastIs
  <1>3. PICK x \in S : Least(T) = n - x
    BY <1>2
  <1>4. ASSUME NEW d \in S PROVE d <= x
    <2>1. n - x <= n - d
      BY <1>2, <1>3
    <2>2. QED
      BY <2>1
  <1>5. QED
    BY <1>4 DEF Greatest

LEMMA FirstIsFirst ==
    ASSUME NEW n \in Nat, NEW S \in SUBSET (1 .. n), NEW d \in FirstOf(S), NEW e \in S, e <= d
    PROVE  e \in FirstOf(S)
  <1> DEFINE before(x) == {y \in S : y <= x}
  <1>1. IsFiniteSet(S) /\ before(e) \in SUBSET before(d) /\ before(d) \in SUBSET S
    <2>1. d \in S /\ \A y \in S : y \in Nat
      BY DEF FirstOf
    <2>2. \A y \in S : y <= e => y <= d
      BY <2>1
    <2>3. IsFiniteSet(1 .. n)
      BY FS_Interval
    <2>4. IsFiniteSet(S)
      BY <2>3, FS_Subset
    <2>5. QED
      BY <2>2, <2>4
  <1>2. IsFiniteSet(before(d)) /\ Cardinality(before(d)) \in Nat /\ Cardinality(before(d)) <= StreamBatch
    BY <1>1, FS_Subset, FS_CardinalityType DEF FirstOf
  <1>3. Cardinality(before(e)) \in Nat /\ Cardinality(before(e)) <= Cardinality(before(d))
    BY <1>1, <1>2, FS_Subset, FS_CardinalityType
  <1>4. QED
    BY <1>2, <1>3, StreamAssumption DEF FirstOf

LEMMA LogHas ==
    ASSUME StreamTypeOK
    PROVE  /\ Len(log) \in Nat /\ Commits \in Nat
           /\ \A e \in Ids : /\ log[e] \in EventRow /\ log[e].about \in About /\ log[e].at \in Nat
                             /\ log[e].old \in BOOLEAN
           /\ IsFiniteSet({e \in Ids : log[e].at # 0})
  <1>1. Len(log) \in Nat /\ \A e \in Ids : log[e] \in EventRow
    <2> HIDE DEF EventRow
    <2>1. QED
      BY DEF StreamTypeOK, Ids
  <1>2. \A e \in Ids : log[e].about \in About /\ log[e].at \in Nat /\ log[e].old \in BOOLEAN
    BY <1>1 DEF EventRow
  <1>3. IsFiniteSet(Ids)
    BY <1>1, FS_Interval DEF Ids
  <1>4. {e \in Ids : log[e].at # 0} \in SUBSET Ids
    OBVIOUS
  <1>5. QED
    BY <1>1, <1>2, <1>3, <1>4, FS_Subset, FS_CardinalityType DEF Commits

LEMMA StreamInvImplies == StreamInv => NothingMissed
  <1> SUFFICES ASSUME StreamInv PROVE NothingMissed
    OBVIOUS
  <1>1. ASSUME NEW b \in Browser, NEW e \in Ids, CaughtUp(b), log[e].at # 0,
               log[e].about # "theirs", Needs(e) \cap page[b].barred = {}
        PROVE  Shown(b, e) \/ Overtaken(e) \/ (log[e].old /\ page[b].untold)
    <2>1. ~Excluded(b, e)
      BY <1>1 DEF Excluded
    <2>2. Connected(b) /\ stream[b].op = "projects" /\ ~(e > stream[b].current /\ Readable(e, "project" \in access[b]))
      BY <1>1 DEF CaughtUp, StreamInv, BrowserKept
    <2>3. stream[b].current \in Nat /\ e \in Nat
      BY <2>2 DEF StreamInv, StreamTypeOK, Asking, Querying, Sending, Closed, Ids
    <2>4. CASE e <= stream[b].current
      BY <1>1, <2>1, <2>2, <2>4 DEF Connected, Reached, Covered, Missed
    <2>5. CASE e > stream[b].current
      <3>1. CASE log[e].old
        BY <2>2, <2>5, <3>1 DEF Connected, Warned
      <3>2. CASE ~log[e].old
        <4>1. "project" \notin access[b] /\ log[e].about = "issue"
          BY <1>1, <2>2, <2>5, <3>2 DEF Readable, InWindow
        <4>2. "project" \in page[b].barred
          BY <4>1 DEF StreamInv, RightsKept, Rights
        <4>3. QED
          BY <1>1, <4>1, <4>2 DEF Needs
      <3>3. QED
        BY <3>1, <3>2
    <2>6. QED
      BY <2>3, <2>4, <2>5
  <1>2. ASSUME ~portal.barred, NEW e \in Ids, log[e].at # 0, log[e].about = "issue", e <= portal.cursor
        PROVE  e \in portal.heard \/ Overtaken(e)
    BY <1>2 DEF StreamInv, PolledUp
  <1>3. QED
    BY <1>1, <1>2 DEF NothingMissed

LEMMA StreamInitKeeps == StreamInit => StreamInv
  <1> SUFFICES ASSUME StreamInit PROVE StreamInv
    OBVIOUS
  <1>1. log = <<>> /\ Ids = {} /\ Len(log) = 0
    BY DEF StreamInit, Ids
  <1>2. log \in Seq(EventRow)
    BY <1>1
  <1>3. access \in [Browser -> SUBSET Rights] /\ \A b \in Browser : access[b] = Rights
    BY DEF StreamInit, Rights
  <1>4. stream \in [Browser -> {Closed} \cup Asking \cup Querying \cup Sending] /\ \A b \in Browser : stream[b] = Closed
    BY DEF StreamInit
  <1>5. page \in [Browser -> PageRow] /\ \A b \in Browser : page[b].last = 0
    <2>1. [last |-> 0, issues |-> 0, notes |-> 0, barred |-> {}, untold |-> FALSE] \in PageRow
      BY DEF PageRow
    <2>2. QED
      BY <2>1 DEF StreamInit
  <1>6. portal \in Polling /\ portal.shared /\ portal.cursor = 0 /\ portal.read = {}
    BY DEF StreamInit, Polling
  <1>7. \A b \in Browser : BrowserKept(b)
    BY <1>1, <1>4, <1>5 DEF BrowserKept, Reached
  <1>8. PolledUp /\ PollTrue
    BY <1>1, <1>6 DEF PolledUp, PollTrue
  <1>9. LogKept /\ RightsKept
    BY <1>1, <1>3, <1>6 DEF LogKept, RightsKept
  <1>10. QED
    BY <1>2, <1>3, <1>4, <1>5, <1>6, <1>7, <1>8, <1>9 DEF StreamInv, StreamTypeOK

-----------------------------------------------------------------------------
(* The log.                                                                *)

\* Events are added, committed after all that were, and grow old.
LogGrows ==
  /\ Len(log) <= Len(log')
  /\ \A e \in Ids : /\ log'[e].about = log[e].about
                    /\ log[e].at # 0 => log'[e].at = log[e].at
                    /\ log[e].old => log'[e].old
  /\ \A e \in Ids' : e \notin Ids => log'[e].at = 0 /\ ~log'[e].old
  /\ \A d, e \in Ids : log[d].at = 0 /\ log'[d].at # 0 /\ log[e].at # 0 => log[e].at < log'[d].at

\* What is old behind a stream that is open was old.
NothingLost ==
  \A b \in Browser, e \in Ids : stream[b] # Closed /\ e > stream[b].current /\ log'[e].old => log[e].old

LEMMA OvertakenStays ==
    ASSUME StreamTypeOK, StreamTypeOK', LogGrows, NEW e \in Ids
    PROVE  /\ e \in Ids'
           /\ log[e].at # 0 /\ Overtaken(e) => Overtaken(e)'
           /\ Followed(e) => Followed(e)'
           /\ Followed(e) /\ log[e].at = 0 /\ log'[e].at # 0 => Overtaken(e)'
  <1>1. Ids \subseteq Ids'
    BY LogHas DEF LogGrows, Ids
  <1>2. \A f \in Ids : log[f].at # 0 => log'[f].at = log[f].at
    BY DEF LogGrows
  <1>3. log[e].at # 0 /\ Overtaken(e) => Overtaken(e)'
    BY <1>1, <1>2 DEF Overtaken
  <1>4. Followed(e) => Followed(e)'
    BY <1>1, <1>2 DEF Followed
  <1>5. Followed(e) /\ log[e].at = 0 /\ log'[e].at # 0 => Overtaken(e)'
    BY <1>1, <1>2 DEF Followed, Overtaken, LogGrows
  <1>6. QED
    BY <1>1, <1>3, <1>4, <1>5

LEMMA ReachedStays ==
    ASSUME StreamTypeOK, StreamTypeOK', LogGrows, NEW b \in Browser, page'[b] = page[b],
           NEW c \in Nat, Reached(b, c)
    PROVE  Reached(b, c)'
  <1>1. c <= Len(log')
    BY LogHas DEF Reached, LogGrows
  <1>2. ASSUME NEW e \in Ids', e <= c
        PROVE  IF log'[e].at = 0 THEN Followed(e)' ELSE Covered(b, e)'
    <2>1. e \in Ids
      BY <1>2, LogHas DEF Reached, Ids
    <2>2. CASE log[e].at = 0
      BY <1>2, <2>1, <2>2, OvertakenStays DEF Reached, Covered
    <2>3. CASE log[e].at # 0
      <3>1. log'[e].at = log[e].at /\ log'[e].about = log[e].about /\ (log[e].old => log'[e].old)
        BY <2>1, <2>3 DEF LogGrows
      <3>2. Covered(b, e)
        BY <1>2, <2>1, <2>3 DEF Reached
      <3>3. (Excluded(b, e) => Excluded(b, e)') /\ (Shown(b, e) => Shown(b, e)') /\ (Missed(b, e) => Missed(b, e)')
        BY <3>1 DEF Excluded, Needs, Shown, Missed
      <3>4. Overtaken(e) => Overtaken(e)'
        BY <2>1, <2>3, OvertakenStays
      <3>5. QED
        BY <2>3, <3>1, <3>2, <3>3, <3>4 DEF Covered
    <2>4. QED
      BY <2>2, <2>3
  <1>3. QED
    BY <1>1, <1>2 DEF Reached

LEMMA BatchStays ==
    ASSUME StreamTypeOK, StreamTypeOK', LogGrows, NEW b \in Browser, page'[b] = page[b],
           NEW c \in Nat, NEW events, BatchTrue(b, c, events)
    PROVE  BatchTrue(b, c, events)'
  <1>1. ASSUME NEW d \in events PROVE d \in Ids' /\ d > c /\ log'[d].at # 0
    BY <1>1, OvertakenStays DEF BatchTrue, LogGrows
  <1>2. ASSUME NEW d \in events, NEW e \in Ids', c < e, e <= d PROVE e \in events \/ Skipped(b, e)'
    <2>1. d \in Ids /\ log[d].at # 0 /\ e \in Ids
      BY <1>2, LogHas DEF BatchTrue, Ids
    <2>2. e \in events \/ Skipped(b, e)
      BY <1>2, <2>1 DEF BatchTrue
    <2>3. CASE log[e].at = 0 /\ e \notin events
      <3>1. d > e
        BY <1>2, <2>1, <2>3 DEF Ids
      <3>2. Followed(e)
        BY <2>1, <3>1 DEF Followed
      <3>3. QED
        BY <2>1, <2>3, <3>2, OvertakenStays DEF Skipped
    <2>4. CASE log[e].at # 0 /\ e \notin events
      <3>1. log'[e].about = log[e].about /\ (log[e].old => log'[e].old)
        BY <2>1 DEF LogGrows
      <3>2. (Excluded(b, e) => Excluded(b, e)') /\ (Missed(b, e) => Missed(b, e)')
        BY <3>1 DEF Excluded, Needs, Missed
      <3>3. Overtaken(e) => Overtaken(e)'
        BY <2>1, <2>4, OvertakenStays
      <3>4. QED
        BY <2>2, <2>4, <3>2, <3>3 DEF Skipped
    <2>5. QED
      BY <2>3, <2>4
  <1>3. QED
    BY <1>1, <1>2 DEF BatchTrue

LEMMA PollStays ==
    ASSUME StreamTypeOK, StreamTypeOK', LogGrows, PolledUp, PollTrue, portal' = portal
    PROVE  PolledUp' /\ PollTrue'
  <1>1. portal.cursor \in Nat
    BY DEF StreamTypeOK, Polling
  <1>2. portal.cursor <= Len(log')
    BY <1>1, LogHas DEF PolledUp, LogGrows
  <1>3. ASSUME NEW e \in Ids', e <= portal.cursor
        PROVE  IF log'[e].at = 0 THEN Followed(e)'
               ELSE log'[e].about = "issue" /\ ~portal.barred => e \in portal.heard \/ Overtaken(e)'
    <2>1. e \in Ids
      BY <1>1, <1>3, LogHas DEF PolledUp, Ids
    <2>2. log'[e].about = log[e].about /\ (log[e].at # 0 => log'[e].at = log[e].at)
      BY <2>1 DEF LogGrows
    <2>3. CASE log[e].at = 0
      BY <1>3, <2>1, <2>3, OvertakenStays DEF PolledUp
    <2>4. CASE log[e].at # 0
      BY <1>3, <2>1, <2>2, <2>4, OvertakenStays DEF PolledUp
    <2>5. QED
      BY <2>3, <2>4
  <1>4. ASSUME NEW d \in portal.read PROVE d \in Ids' /\ d > portal.cursor /\ log'[d].at # 0
    BY <1>4, OvertakenStays DEF PollTrue, LogGrows
  <1>5. ASSUME NEW d \in portal.read, NEW e \in Ids', portal.cursor < e, e <= d, e \notin portal.read,
               log'[e].at # 0, log'[e].about = "issue"
        PROVE  Overtaken(e)'
    <2>1. d \in Ids /\ log[d].at # 0 /\ e \in Ids
      BY <1>1, <1>5, LogHas DEF PollTrue, Ids
    <2>2. log'[e].about = log[e].about
      BY <2>1 DEF LogGrows
    <2>3. CASE log[e].at = 0
      <3>1. d > e
        BY <1>5, <2>1, <2>3 DEF Ids
      <3>2. Followed(e)
        BY <2>1, <3>1 DEF Followed
      <3>3. QED
        BY <1>5, <2>1, <2>3, <3>2, OvertakenStays
    <2>4. CASE log[e].at # 0
      BY <1>5, <2>1, <2>2, <2>4, OvertakenStays DEF PollTrue
    <2>5. QED
      BY <2>3, <2>4
  <1>6. QED
    BY <1>2, <1>3, <1>4, <1>5 DEF PolledUp, PollTrue

\* Whatever happens in the log, browsers and the customer are as they were.
LEMMA LogGrowsKeeps ==
    ASSUME StreamInv, log' \in Seq(EventRow), LogKept', LogGrows, NothingLost,
           UNCHANGED <<access, stream, page, portal>>
    PROVE  StreamInv'
  <1>1. StreamTypeOK /\ StreamTypeOK'
    BY DEF StreamInv, StreamTypeOK
  <1>2. RightsKept'
    BY DEF StreamInv, RightsKept
  <1>3. ASSUME NEW b \in Browser PROVE BrowserKept(b)'
    <2>1. PICK p : p = page[b]
      OBVIOUS
    <2>2. PICK s : s = stream[b]
      OBVIOUS
    <2>3. page' = page /\ stream' = stream /\ BrowserKept(b)
      BY DEF StreamInv
    <2>4. p.last \in Nat
      BY <1>1, <2>1 DEF StreamTypeOK, PageRow
    <2>5. Reached(b, p.last)'
      BY <1>1, <2>1, <2>3, <2>4, ReachedStays DEF BrowserKept
    <2>6. ASSUME s # Closed PROVE Connected(b)'
      <3>1. s \in Asking \cup Querying \cup Sending
        BY <1>1, <2>2, <2>6 DEF StreamTypeOK
      <3>2. s.current \in Nat
        BY <3>1 DEF Asking, Querying, Sending
      <3>3. Connected(b)
        BY <2>2, <2>3, <2>6 DEF BrowserKept
      <3>4. Reached(b, s.current)'
        BY <1>1, <2>2, <2>3, <3>2, <3>3, ReachedStays DEF Connected
      <3>5. \A e \in Ids' : e > s.current /\ log'[e].old => page[b].untold
        BY <2>2, <2>6, <3>3 DEF Connected, Warned, LogGrows, NothingLost
      <3>6. s.op = "send" => BatchTrue(b, s.current, s.events)'
        BY <1>1, <2>2, <2>3, <3>2, <3>3, BatchStays DEF Connected
      <3>7. QED
        BY <2>2, <2>3, <3>3, <3>4, <3>5, <3>6 DEF Connected, Warned
    <2>7. QED
      BY <2>1, <2>2, <2>3, <2>5, <2>6 DEF BrowserKept
  <1>4. PolledUp' /\ PollTrue'
    BY <1>1, PollStays DEF StreamInv
  <1>5. QED
    BY <1>1, <1>2, <1>3, <1>4 DEF StreamInv

LEMMA DrawIdKeeps == StreamInv /\ DrawId => StreamInv'
  <1> SUFFICES ASSUME StreamInv, DrawId PROVE StreamInv'
    OBVIOUS
  <1>1. PICK about \in About : log' = Append(log, [about |-> about, at |-> 0, old |-> FALSE])
    BY DEF DrawId
  <1>2. PICK r : r = [about |-> about, at |-> 0, old |-> FALSE]
    OBVIOUS
  <1>3. r \in EventRow /\ r.at = 0 /\ ~r.old
    BY <1>2 DEF EventRow
  <1>4. StreamTypeOK /\ log \in Seq(EventRow) /\ log' = Append(log, r)
    BY <1>1, <1>2 DEF StreamInv, StreamTypeOK
  <1>5. /\ log' \in Seq(EventRow) /\ Len(log') = Len(log) + 1 /\ log'[Len(log) + 1] = r
        /\ \A e \in 1 .. Len(log) : log'[e] = log[e]
    <2> HIDE DEF EventRow
    <2>1. QED
      BY <1>3, <1>4, AppendProperties
  <1>6. Len(log) \in Nat
    BY <1>4, LogHas
  <1>7. Ids' = Ids \cup {Len(log) + 1} /\ \A e \in Ids : log'[e] = log[e]
    BY <1>5, <1>6 DEF Ids
  <1>8. {e \in Ids' : log'[e].at # 0} = {e \in Ids : log[e].at # 0}
    BY <1>3, <1>5, <1>7
  <1>9. Commits' = Commits
    BY <1>8 DEF Commits
  <1>10. \A e \in Ids : log[e].at <= Commits
    BY DEF StreamInv, LogKept
  <1>11. ASSUME NEW e \in Ids' PROVE log'[e].at <= Commits'
    <2>1. Commits \in Nat
      BY <1>4, LogHas
    <2>2. CASE e \in Ids
      BY <1>7, <1>9, <1>10, <2>2
    <2>3. CASE e = Len(log) + 1
      BY <1>3, <1>5, <1>9, <2>1, <2>3
    <2>4. QED
      BY <1>7, <2>2, <2>3
  <1>12. ASSUME NEW e \in Ids', log'[e].old PROVE log'[e].at # 0 /\ \A d \in Ids' : d < e => log'[d].old
    <2>1. e \in Ids
      BY <1>3, <1>5, <1>7, <1>12
    <2>2. \A d \in Ids' : d < e => d \in Ids
      BY <1>6, <1>7, <2>1 DEF Ids
    <2>3. QED
      BY <1>7, <1>12, <2>1, <2>2 DEF StreamInv, LogKept
  <1>13. LogKept'
    BY <1>11, <1>12 DEF LogKept
  <1>14. LogGrows
    BY <1>3, <1>5, <1>6, <1>7 DEF LogGrows
  <1>15. NothingLost
    BY <1>7 DEF NothingLost
  <1>16. QED
    BY <1>5, <1>13, <1>14, <1>15, LogGrowsKeeps DEF DrawId

\* A row is replaced.
LEMMA RowReplaced ==
    ASSUME StreamTypeOK, NEW e \in Ids, NEW r \in EventRow, log' = [log EXCEPT ![e] = r]
    PROVE  /\ log' \in Seq(EventRow) /\ Len(log') = Len(log) /\ Ids' = Ids
           /\ log'[e] = r /\ \A d \in Ids : d # e => log'[d] = log[d]
  <1> HIDE DEF EventRow
  <1>1. log \in Seq(EventRow) /\ e \in 1 .. Len(log)
    BY DEF StreamTypeOK, Ids
  <1>2. log' \in Seq(EventRow) /\ Len(log') = Len(log)
    BY <1>1, ExceptSeq
  <1>3. log'[e] = r /\ \A d \in 1 .. Len(log) : d # e => log'[d] = log[d]
    BY <1>1
  <1>4. QED
    BY <1>2, <1>3 DEF Ids

LEMMA CommitEventKeeps == ASSUME NEW e \in Ids PROVE StreamInv /\ CommitEvent(e) => StreamInv'
  <1> SUFFICES ASSUME StreamInv, CommitEvent(e) PROVE StreamInv'
    OBVIOUS
  <1>1. StreamTypeOK /\ LogKept /\ log[e].at = 0 /\ log[e] \in EventRow /\ Commits \in Nat
    BY LogHas DEF StreamInv, CommitEvent
  <1>2. PICK n \in Nat : n = Commits + 1
    BY <1>1
  <1>3. PICK r : r = [log[e] EXCEPT !.at = n]
    OBVIOUS
  <1>4. r \in EventRow /\ r.about = log[e].about /\ r.at = n /\ (r.old => log[e].old) /\ (log[e].old => r.old)
    <2>1. ASSUME NEW A, NEW B, NEW x \in [about : A, at : Nat, old : B]
          PROVE  /\ [x EXCEPT !.at = n] \in [about : A, at : Nat, old : B]
                 /\ [x EXCEPT !.at = n].about = x.about /\ [x EXCEPT !.at = n].at = n
                 /\ [x EXCEPT !.at = n].old = x.old
      BY ONLY <2>1, n \in Nat
    <2>2. QED
      BY <1>1, <1>3, <2>1 DEF EventRow
  <1>5. log' = [log EXCEPT ![e] = r]
    BY <1>2, <1>3 DEF CommitEvent
  <1>6. /\ log' \in Seq(EventRow) /\ Len(log') = Len(log) /\ Ids' = Ids
        /\ log'[e] = r /\ \A d \in Ids : d # e => log'[d] = log[d]
    BY <1>1, <1>4, <1>5, RowReplaced
  <1>7. {d \in Ids' : log'[d].at # 0} = {d \in Ids : log[d].at # 0} \cup {e}
        /\ e \notin {d \in Ids : log[d].at # 0}
    BY <1>1, <1>2, <1>4, <1>6
  <1>8. Commits' = n
    <2>1. PICK S : S = {d \in Ids : log[d].at # 0}
      OBVIOUS
    <2>2. IsFiniteSet(S) /\ e \notin S /\ Commits = Cardinality(S)
      BY <1>1, <1>7, <2>1, LogHas DEF Commits
    <2>3. Cardinality(S \cup {e}) = Cardinality(S) + 1
      BY ONLY <2>2, FS_AddElement
    <2>4. Commits' = Cardinality(S \cup {e})
      BY <1>7, <2>1 DEF Commits
    <2>5. QED
      BY <1>2, <2>2, <2>3, <2>4
  <1>9. \A d \in Ids : log[d].at <= Commits /\ log[d].at \in Nat
    BY <1>1, LogHas DEF LogKept
  <1>10. \A d \in Ids' : log'[d].at <= Commits'
    BY <1>1, <1>2, <1>4, <1>6, <1>8, <1>9
  <1>11. ~log[e].old
    BY <1>1 DEF LogKept
  <1>12. ASSUME NEW f \in Ids', log'[f].old PROVE log'[f].at # 0 /\ \A d \in Ids' : d < f => log'[d].old
    <2>1. f # e /\ f \in Ids /\ log[f].old
      BY <1>4, <1>6, <1>11, <1>12
    <2>2. \A d \in Ids : d < f => d # e
      BY <1>1, <1>11, <2>1 DEF LogKept
    <2>3. QED
      BY <1>1, <1>6, <2>1, <2>2 DEF LogKept
  <1>13. LogKept'
    BY <1>10, <1>12 DEF LogKept
  <1>14. LogGrows
    <2>1. Len(log) <= Len(log')
      BY <1>1, <1>6, LogHas
    <2>2. ASSUME NEW d \in Ids
          PROVE  /\ log'[d].about = log[d].about
                 /\ log[d].at # 0 => log'[d].at = log[d].at
                 /\ log[d].old => log'[d].old
      BY <1>1, <1>4, <1>6
    <2>3. ASSUME NEW d \in Ids, NEW f \in Ids, log[d].at = 0, log'[d].at # 0, log[f].at # 0
          PROVE  log[f].at < log'[d].at
      <3>1. d = e
        BY <1>6, <2>3
      <3>2. QED
        BY <1>1, <1>2, <1>4, <1>6, <1>9, <3>1
    <2>4. QED
      BY <1>6, <2>1, <2>2, <2>3 DEF LogGrows
  <1>15. NothingLost
    BY <1>4, <1>6 DEF NothingLost
  <1>16. QED
    BY <1>6, <1>13, <1>14, <1>15, LogGrowsKeeps DEF CommitEvent

LEMMA AgeEventKeeps == ASSUME NEW e \in Ids PROVE StreamInv /\ AgeEvent(e) => StreamInv'
  <1> SUFFICES ASSUME StreamInv, AgeEvent(e) PROVE StreamInv'
    OBVIOUS
  <1>1. StreamTypeOK /\ LogKept /\ log[e].at # 0 /\ log[e] \in EventRow
    BY LogHas DEF StreamInv, AgeEvent, InWindow
  <1>2. PICK r : r = [log[e] EXCEPT !.old = TRUE]
    OBVIOUS
  <1>3. r \in EventRow /\ r.about = log[e].about /\ r.at = log[e].at /\ r.old
    <2>1. ASSUME NEW A, NEW x \in [about : A, at : Nat, old : BOOLEAN]
          PROVE  /\ [x EXCEPT !.old = TRUE] \in [about : A, at : Nat, old : BOOLEAN]
                 /\ [x EXCEPT !.old = TRUE].about = x.about /\ [x EXCEPT !.old = TRUE].at = x.at
                 /\ [x EXCEPT !.old = TRUE].old
      BY ONLY <2>1
    <2>2. QED
      BY <1>1, <1>2, <2>1 DEF EventRow
  <1>4. log' = [log EXCEPT ![e] = r]
    BY <1>2 DEF AgeEvent
  <1>5. /\ log' \in Seq(EventRow) /\ Len(log') = Len(log) /\ Ids' = Ids
        /\ log'[e] = r /\ \A d \in Ids : d # e => log'[d] = log[d]
    BY <1>1, <1>3, <1>4, RowReplaced
  <1>6. \A d \in Ids : log'[d].about = log[d].about /\ log'[d].at = log[d].at /\ (log[d].old => log'[d].old)
    BY <1>3, <1>5
  <1>7. {d \in Ids' : log'[d].at # 0} = {d \in Ids : log[d].at # 0}
    BY <1>5, <1>6
  <1>8. Commits' = Commits
    BY <1>7 DEF Commits
  <1>9. \A d \in Ids' : log'[d].at <= Commits'
    BY <1>1, <1>5, <1>6, <1>8 DEF LogKept
  <1>10. ASSUME NEW f \in Ids', log'[f].old PROVE log'[f].at # 0 /\ \A d \in Ids' : d < f => log'[d].old
    <2>1. CASE f = e
      BY <1>1, <1>5, <1>6, <2>1 DEF AgeEvent
    <2>2. CASE f # e
      BY <1>1, <1>5, <1>6, <1>10, <2>2 DEF LogKept
    <2>3. QED
      BY <2>1, <2>2
  <1>11. LogKept'
    BY <1>9, <1>10 DEF LogKept
  <1>12. LogGrows
    BY <1>1, <1>5, <1>6, LogHas DEF LogGrows
  <1>13. NothingLost
    <2>1. SUFFICES ASSUME NEW b \in Browser, NEW d \in Ids, stream[b] # Closed, d > stream[b].current, log'[d].old
                   PROVE  log[d].old
      BY DEF NothingLost
    <2>2. stream[b].current >= e
      BY <2>1 DEF AgeEvent
    <2>3. stream[b].current \in Nat /\ e \in Nat /\ d \in Nat
      BY <1>1, <2>1 DEF StreamTypeOK, Asking, Querying, Sending, Ids
    <2>4. d # e
      BY <2>1, <2>2, <2>3
    <2>5. QED
      BY <1>5, <2>1, <2>4
  <1>14. QED
    BY <1>5, <1>11, <1>12, <1>13, LogGrowsKeeps DEF AgeEvent

-----------------------------------------------------------------------------
(* A browser.                                                              *)

\* What the page had to know it still knows.
Improves(b) == \A e \in Ids : log[e].at # 0 /\ Covered(b, e) => Covered(b, e)'

LEMMA ReachedImproves ==
    ASSUME StreamTypeOK, log' = log, NEW b \in Browser, Improves(b), NEW c \in Nat, Reached(b, c)
    PROVE  Reached(b, c)'
  BY DEF Reached, Improves, Followed, Ids

\* Old and new values of one browser; the others stay.
LEMMA BrowserSteps ==
    ASSUME StreamInv, NEW b \in Browser, NEW s \in {Closed} \cup Asking \cup Querying \cup Sending,
           NEW p \in PageRow, UNCHANGED <<log, portal>>,
           stream' = [stream EXCEPT ![b] = s], page' = [page EXCEPT ![b] = p],
           access' \in [Browser -> SUBSET Rights], Rights \ access'[b] \subseteq p.barred,
           \A g \in Browser : g # b => access'[g] = access[g],
           BrowserKept(b)'
    PROVE  StreamInv'
  <1>1. /\ stream' \in [Browser -> {Closed} \cup Asking \cup Querying \cup Sending]
        /\ stream'[b] = s /\ \A g \in Browser : g # b => stream'[g] = stream[g]
    BY DEF StreamInv, StreamTypeOK
  <1>2. page' \in [Browser -> PageRow] /\ page'[b] = p /\ \A g \in Browser : g # b => page'[g] = page[g]
    <2> HIDE DEF PageRow
    <2>1. QED
      BY DEF StreamInv, StreamTypeOK
  <1>3. StreamTypeOK'
    BY <1>1, <1>2 DEF StreamInv, StreamTypeOK
  <1>4. Ids' = Ids /\ Commits' = Commits
    BY DEF Ids, Commits
  <1>5. LogKept'
    BY <1>4 DEF StreamInv, LogKept
  <1>6. RightsKept'
    <2>1. ASSUME NEW g \in Browser PROVE Rights \ access'[g] \subseteq page'[g].barred
      <3>1. CASE g = b
        BY <1>2, <3>1
      <3>2. CASE g # b
        BY <1>2, <3>2 DEF StreamInv, RightsKept
      <3>3. QED
        BY <3>1, <3>2
    <2>2. ~portal'.shared => portal'.barred
      BY DEF StreamInv, RightsKept
    <2>3. QED
      BY <2>1, <2>2 DEF RightsKept
  <1>7. ASSUME NEW g \in Browser PROVE BrowserKept(g)'
    <2>1. CASE g = b
      BY <2>1
    <2>2. CASE g # b
      <3>1. PICK q : q = page[g]
        OBVIOUS
      <3>2. PICK t : t = stream[g]
        OBVIOUS
      <3>3. page'[g] = q /\ stream'[g] = t /\ BrowserKept(g)
        BY <1>1, <1>2, <2>2, <3>1, <3>2 DEF StreamInv
      <3>4. ASSUME NEW e \in Ids PROVE Covered(g, e) => Covered(g, e)'
        BY <1>4, <3>1, <3>3 DEF Covered, Excluded, Needs, Shown, Overtaken, Missed
      <3>5. Improves(g)
        BY <3>4 DEF Improves
      <3>6. ASSUME NEW c \in Nat, Reached(g, c) PROVE Reached(g, c)'
        BY <3>5, <3>6, ReachedImproves DEF StreamInv
      <3>7. q.last \in Nat
        BY <3>1 DEF StreamInv, StreamTypeOK, PageRow
      <3>8. Reached(g, q.last)'
        BY <3>1, <3>3, <3>6, <3>7 DEF BrowserKept
      <3>9. ASSUME t # Closed PROVE Connected(g)'
        <4>1. t \in Asking \cup Querying \cup Sending
          BY <3>2, <3>9 DEF StreamInv, StreamTypeOK
        <4>2. t.current \in Nat
          BY <4>1 DEF Asking, Querying, Sending
        <4>3. Connected(g)
          BY <3>2, <3>3, <3>9 DEF BrowserKept
        <4>4. Reached(g, t.current)'
          BY <3>2, <3>6, <4>2, <4>3 DEF Connected
        <4>5. \A e \in Ids : Skipped(g, e) => Skipped(g, e)'
          BY <1>4, <3>1, <3>3 DEF Skipped, Excluded, Needs, Overtaken, Missed
        <4>6. t.op = "send" => BatchTrue(g, t.current, t.events)'
          BY <1>4, <3>2, <4>3, <4>5 DEF Connected, BatchTrue
        <4>7. Warned(g, t.current)'
          BY <1>4, <3>1, <3>2, <3>3, <4>3 DEF Connected, Warned
        <4>8. t.op = "events" /\ ~t.open => "project" \in page'[g].barred
          BY <3>1, <3>2, <3>3, <4>3 DEF Connected
        <4>9. QED
          BY <3>3, <4>4, <4>6, <4>7, <4>8 DEF Connected
      <3>10. QED
        BY <3>3, <3>8, <3>9 DEF BrowserKept
    <2>3. QED
      BY <2>1, <2>2
  <1>8. PolledUp' /\ PollTrue'
    BY <1>4 DEF StreamInv, PolledUp, PollTrue, Followed, Overtaken
  <1>9. QED
    BY <1>3, <1>5, <1>6, <1>7, <1>8 DEF StreamInv

\* A page row with other values.
LEMMA PageHas ==
    ASSUME NEW r \in PageRow
    PROVE  r.last \in Nat /\ r.issues \in Nat /\ r.notes \in Nat /\ r.barred \in SUBSET Rights
  BY DEF PageRow

LEMMA PageBarred ==
    ASSUME NEW r \in PageRow, NEW more \in SUBSET Rights, NEW p, p = [r EXCEPT !.barred = more]
    PROVE  p \in PageRow /\ p.barred = more /\ p.last = r.last /\ p.issues = r.issues /\ p.notes = r.notes
           /\ (r.untold => p.untold)
  <1>1. ASSUME NEW A, NEW x \in [last : A, issues : A, notes : A, barred : SUBSET Rights, untold : BOOLEAN]
        PROVE  [x EXCEPT !.barred = more]
                 = [last |-> x.last, issues |-> x.issues, notes |-> x.notes, barred |-> more, untold |-> x.untold]
    BY ONLY <1>1, more \in SUBSET Rights
  <1>2. p = [last |-> r.last, issues |-> r.issues, notes |-> r.notes, barred |-> more, untold |-> r.untold]
    BY <1>1 DEF PageRow
  <1>3. r.untold \in BOOLEAN
    BY DEF PageRow
  <1>4. p \in PageRow
    BY <1>2, <1>3, PageHas DEF PageRow
  <1>5. QED
    BY <1>2, <1>4

LEMMA PageIssues ==
    ASSUME NEW r \in PageRow, NEW n \in Nat, NEW p, p = [r EXCEPT !.issues = n]
    PROVE  p \in PageRow /\ p.barred = r.barred /\ p.last = r.last /\ p.issues = n /\ p.notes = r.notes
           /\ (r.untold => p.untold) /\ (p.untold => r.untold)
  <1>1. ASSUME NEW A, NEW B, NEW C, NEW x \in [last : A, issues : A, notes : A, barred : B, untold : C]
        PROVE  [x EXCEPT !.issues = n]
                 = [last |-> x.last, issues |-> n, notes |-> x.notes, barred |-> x.barred, untold |-> x.untold]
    BY ONLY <1>1
  <1>2. p = [last |-> r.last, issues |-> n, notes |-> r.notes, barred |-> r.barred, untold |-> r.untold]
    BY <1>1 DEF PageRow
  <1>3. r.untold \in BOOLEAN
    BY DEF PageRow
  <1>4. p \in PageRow
    BY <1>2, <1>3, PageHas DEF PageRow
  <1>5. QED
    BY <1>2, <1>4

LEMMA PageNotes ==
    ASSUME NEW r \in PageRow, NEW n \in Nat, NEW p, p = [r EXCEPT !.notes = n]
    PROVE  p \in PageRow /\ p.barred = r.barred /\ p.last = r.last /\ p.issues = r.issues /\ p.notes = n
           /\ (r.untold => p.untold) /\ (p.untold => r.untold)
  <1>1. ASSUME NEW A, NEW B, NEW C, NEW x \in [last : A, issues : A, notes : A, barred : B, untold : C]
        PROVE  [x EXCEPT !.notes = n]
                 = [last |-> x.last, issues |-> x.issues, notes |-> n, barred |-> x.barred, untold |-> x.untold]
    BY ONLY <1>1
  <1>2. p = [last |-> r.last, issues |-> r.issues, notes |-> n, barred |-> r.barred, untold |-> r.untold]
    BY <1>1 DEF PageRow
  <1>3. r.untold \in BOOLEAN
    BY DEF PageRow
  <1>4. p \in PageRow
    BY <1>2, <1>3, PageHas DEF PageRow
  <1>5. QED
    BY <1>2, <1>4

LEMMA PageLast ==
    ASSUME NEW r \in PageRow, NEW n \in Nat, NEW p, p = [r EXCEPT !.last = n]
    PROVE  p \in PageRow /\ p.barred = r.barred /\ p.last = n /\ p.issues = r.issues /\ p.notes = r.notes
           /\ (r.untold => p.untold) /\ (p.untold => r.untold)
  <1>1. ASSUME NEW A, NEW B, NEW C, NEW x \in [last : A, issues : A, notes : A, barred : B, untold : C]
        PROVE  [x EXCEPT !.last = n]
                 = [last |-> n, issues |-> x.issues, notes |-> x.notes, barred |-> x.barred, untold |-> x.untold]
    BY ONLY <1>1
  <1>2. p = [last |-> n, issues |-> r.issues, notes |-> r.notes, barred |-> r.barred, untold |-> r.untold]
    BY <1>1 DEF PageRow
  <1>3. r.untold \in BOOLEAN
    BY DEF PageRow
  <1>4. p \in PageRow
    BY <1>2, <1>3, PageHas DEF PageRow
  <1>5. QED
    BY <1>2, <1>4

LEMMA PageUntold ==
    ASSUME NEW r \in PageRow, NEW u \in BOOLEAN, NEW p, p = [r EXCEPT !.untold = u]
    PROVE  p \in PageRow /\ p.barred = r.barred /\ p.last = r.last /\ p.issues = r.issues /\ p.notes = r.notes
           /\ (u => p.untold)
  <1>1. ASSUME NEW A, NEW B, NEW C, NEW x \in [last : A, issues : A, notes : A, barred : B, untold : C], NEW v
        PROVE  [x EXCEPT !.untold = v]
                 = [last |-> x.last, issues |-> x.issues, notes |-> x.notes, barred |-> x.barred, untold |-> v]
    BY ONLY <1>1
  <1>2. p = [last |-> r.last, issues |-> r.issues, notes |-> r.notes, barred |-> r.barred, untold |-> u]
    BY <1>1 DEF PageRow
  <1>4. p \in PageRow
    BY <1>2, PageHas DEF PageRow
  <1>5. p.barred = r.barred /\ p.last = r.last /\ p.issues = r.issues /\ p.notes = r.notes
    BY <1>2
  <1>6. u => p.untold
    BY <1>2
  <1>7. QED
    BY <1>4, <1>5, <1>6

LEMMA ConnectionHas ==
    ASSUME StreamTypeOK, NEW b \in Browser
    PROVE  /\ page[b] \in PageRow /\ page[b].last \in Nat
           /\ stream[b] # Closed => stream[b].current \in Nat
           /\ stream[b].op = "projects" => stream[b] \in Asking
           /\ stream[b].op = "events" => stream[b] \in Querying
           /\ stream[b].op = "send" => stream[b] \in Sending
           /\ stream[b].op \in {"projects", "events", "send"} => stream[b] # Closed
  <1>1. page[b] \in PageRow /\ page[b].last \in Nat
    <2>1. page[b] \in PageRow
      BY DEF StreamTypeOK
    <2>2. QED
      BY <2>1, PageHas
  <1>2. stream[b] \in {Closed} \cup Asking \cup Querying \cup Sending
    BY DEF StreamTypeOK
  <1>3. QED
    BY <1>1, <1>2 DEF Closed, Asking, Querying, Sending

LEMMA ChangeAccessKeeps == ASSUME NEW b \in Browser PROVE StreamInv /\ ChangeAccess(b) => StreamInv'
  <1> SUFFICES ASSUME StreamInv, ChangeAccess(b) PROVE StreamInv'
    OBVIOUS
  <1>1. PICK what \in Rights :
          /\ access' = [access EXCEPT ![b] = IF what \in @ THEN @ \ {what} ELSE @ \cup {what}]
          /\ page' = [page EXCEPT ![b].barred = @ \cup {what}]
    BY DEF ChangeAccess, Rights
  <1>2. StreamTypeOK /\ page[b] \in PageRow
    BY ConnectionHas DEF StreamInv
  <1>3. PICK more \in SUBSET Rights : more = page[b].barred \cup {what}
    BY <1>2, PageHas
  <1>4. PICK p : p = [page[b] EXCEPT !.barred = more]
    OBVIOUS
  <1>5. p \in PageRow /\ p.barred = more /\ p.last = page[b].last /\ p.issues = page[b].issues
        /\ p.notes = page[b].notes /\ (page[b].untold => p.untold)
    <2>1. PICK r : r = page[b]
      OBVIOUS
    <2>2. r \in PageRow /\ p = [r EXCEPT !.barred = more]
      BY <1>2, <1>4, <2>1, Zenon
    <2>3. p \in PageRow /\ p.barred = more /\ p.last = r.last /\ p.issues = r.issues
          /\ p.notes = r.notes /\ (r.untold => p.untold)
      BY ONLY <1>3, <2>2, PageBarred
    <2>4. QED
      BY <2>1, <2>3
  <1>6. page' = [page EXCEPT ![b] = p]
    BY <1>1, <1>3, <1>4
  <1>7. PICK s : s = stream[b]
    OBVIOUS
  <1>8. s \in {Closed} \cup Asking \cup Querying \cup Sending /\ stream' = stream /\ stream' = [stream EXCEPT ![b] = s]
    BY <1>2, <1>7 DEF ChangeAccess, StreamTypeOK
  <1>9. UNCHANGED <<log, portal>> /\ page'[b] = p /\ stream'[b] = s
    <2> HIDE DEF PageRow
    <2>1. QED
      BY <1>2, <1>6, <1>7, <1>8 DEF ChangeAccess, StreamTypeOK
  <1>10. /\ access' \in [Browser -> SUBSET Rights] /\ Rights \ access'[b] \subseteq p.barred
         /\ \A g \in Browser : g # b => access'[g] = access[g]
    <2>1. access \in [Browser -> SUBSET Rights] /\ Rights \ access[b] \subseteq page[b].barred
      BY DEF StreamInv, StreamTypeOK, RightsKept
    <2>2. PICK S \in SUBSET Rights : S = IF what \in access[b] THEN access[b] \ {what} ELSE access[b] \cup {what}
      BY <2>1
    <2>3. access' = [access EXCEPT ![b] = S]
      BY <1>1, <2>2
    <2>4. Rights \ S \subseteq more
      BY <1>3, <2>1, <2>2
    <2>5. QED
      BY <1>5, <2>1, <2>3, <2>4
  <1>11. Ids' = Ids
    BY <1>9 DEF Ids
  <1>12. ASSUME NEW e \in Ids
         PROVE  (Excluded(b, e) => Excluded(b, e)') /\ (Missed(b, e) => Missed(b, e)') /\ (Overtaken(e) => Overtaken(e)')
                /\ (Shown(b, e) => Shown(b, e)')
    BY <1>3, <1>5, <1>9, <1>11 DEF Excluded, Needs, Missed, Overtaken, Shown
  <1>13. Improves(b)
    BY <1>12 DEF Improves, Covered
  <1>14. ASSUME NEW c \in Nat, Reached(b, c) PROVE Reached(b, c)'
    BY <1>2, <1>9, <1>13, <1>14, ReachedImproves
  <1>15. BrowserKept(b) /\ page[b].last \in Nat /\ (s # Closed => s.current \in Nat)
    BY <1>2, <1>7, ConnectionHas DEF StreamInv
  <1>16. Reached(b, page[b].last)'
    <2>1. PICK c \in Nat : c = page[b].last
      BY <1>15
    <2>2. Reached(b, c)'
      BY <1>14, <1>15, <2>1 DEF BrowserKept
    <2>3. page'[b].last = c
      BY <1>5, <1>9, <2>1
    <2>4. QED
      BY <2>2, <2>3
  <1>17. ASSUME s # Closed PROVE Connected(b)'
    <2>1. Connected(b) /\ s.current \in Nat
      BY <1>7, <1>15, <1>17 DEF BrowserKept
    <2>2. Reached(b, s.current)'
      BY <1>7, <1>14, <2>1 DEF Connected
    <2>3. Warned(b, s.current)'
      BY <1>5, <1>7, <1>9, <1>11, <2>1 DEF Connected, Warned
    <2>4. s.op = "events" /\ ~s.open => "project" \in p.barred
      BY <1>3, <1>5, <1>7, <2>1 DEF Connected
    <2>5. s.op = "send" => BatchTrue(b, s.current, s.events)'
      BY <1>7, <1>9, <1>11, <1>12, <2>1 DEF Connected, BatchTrue, Skipped
    <2>6. QED
      BY <1>9, <2>2, <2>3, <2>4, <2>5 DEF Connected
  <1>18. BrowserKept(b)'
    BY <1>9, <1>16, <1>17 DEF BrowserKept
  <1>19. QED
    BY <1>5, <1>6, <1>8, <1>9, <1>10, <1>18, BrowserSteps

\* Everything is fetched again, or only what the stream does not tell of is left.
LEMMA ConnectKeeps == ASSUME NEW b \in Browser PROVE StreamInv /\ Connect(b) => StreamInv'
  <1> SUFFICES ASSUME StreamInv, Connect(b) PROVE StreamInv'
    OBVIOUS
  <1>1. PICK window : window = {e \in Ids : InWindow(e)}
    OBVIOUS
  <1>2. PICK cursor : cursor = page[b].last
    OBVIOUS
  <1>3. StreamTypeOK /\ page[b] \in PageRow /\ cursor \in Nat /\ Reached(b, cursor) /\ Commits \in Nat
        /\ Len(log) \in Nat
    BY <1>2, ConnectionHas, LogHas DEF StreamInv, BrowserKept
  <1>4. window \in SUBSET Nat /\ UNCHANGED <<log, portal, access>>
    BY <1>1 DEF Ids, Connect
  <1>5. PICK told \in BOOLEAN : told <=> window # {} /\ Behind(cursor, Least(window))
    BY DEF Behind
  <1>6. Ids' = Ids /\ Commits' = Commits
    BY <1>4 DEF Ids, Commits
  <1>7. access' \in [Browser -> SUBSET Rights] /\ Rights \ access'[b] \subseteq page[b].barred
    BY <1>3, <1>4 DEF StreamInv, StreamTypeOK, RightsKept
  <1>8. CASE told
    <2>1. PICK first : first = Least(window)
      OBVIOUS
    <2>2. first \in window /\ (\A e \in window : first <= e) /\ cursor < first
      BY <1>4, <1>5, <1>8, <2>1, LeastIs DEF Behind
    <2>3. first \in Ids /\ first \in Nat /\ first - 1 \in Nat /\ log[first].at # 0 /\ ~log[first].old
      BY <1>1, <1>3, <2>2 DEF InWindow, Ids
    <2>4. PICK s : s = [op |-> "projects", current |-> first - 1]
      OBVIOUS
    <2>5. stream' = [stream EXCEPT ![b] = s] /\ s \in Asking
      BY <1>1, <1>2, <1>5, <1>8, <2>1, <2>3, <2>4 DEF Connect, Asking
    <2>6. PICK r : r = page[b]
      OBVIOUS
    <2>7. PICK p : p = [r EXCEPT !.issues = Commits, !.notes = Commits, !.untold = FALSE]
      OBVIOUS
    <2>8. page' = [page EXCEPT ![b] = p]
      BY <1>1, <1>2, <1>5, <1>8, <2>6, <2>7 DEF Connect
    <2>9. p \in PageRow /\ p.barred = r.barred /\ p.last = cursor /\ p.issues = Commits /\ p.notes = Commits
      <3>1. PICK p1 : p1 = [r EXCEPT !.issues = Commits]
        OBVIOUS
      <3>2. PICK p2 : p2 = [p1 EXCEPT !.notes = Commits]
        OBVIOUS
      <3>3. PICK p3 : p3 = [p2 EXCEPT !.untold = FALSE]
        OBVIOUS
      <3>4. p = p3
        BY ONLY <2>7, <3>1, <3>2, <3>3, Zenon
      <3>5. p1 \in PageRow /\ p1.barred = r.barred /\ p1.last = r.last /\ p1.issues = Commits
        BY <1>3, <2>6, <3>1, PageIssues
      <3>6. p2 \in PageRow /\ p2.barred = p1.barred /\ p2.last = p1.last /\ p2.issues = p1.issues /\ p2.notes = Commits
        BY <1>3, <3>2, <3>5, PageNotes
      <3>7. p3 \in PageRow /\ p3.barred = p2.barred /\ p3.last = p2.last /\ p3.issues = p2.issues /\ p3.notes = p2.notes
        BY <3>3, <3>6, PageUntold
      <3>8. QED
        BY <1>2, <2>6, <3>4, <3>5, <3>6, <3>7
    <2>10. page'[b] = p /\ stream'[b] = s
      <3> HIDE DEF PageRow
      <3>1. QED
        BY <1>3, <2>5, <2>8 DEF StreamTypeOK
    <2>11. ASSUME NEW e \in Ids, log[e].at # 0 PROVE Covered(b, e)'
      <3>1. log[e].at <= Commits
        BY DEF StreamInv, LogKept
      <3>2. Shown(b, e)'
        BY <1>4, <2>9, <2>10, <3>1 DEF Shown
      <3>3. QED
        BY <3>2 DEF Covered
    <2>12. \A c \in Nat : Reached(b, c) => Reached(b, c)'
      BY <1>3, <1>4, <2>11, ReachedImproves DEF Improves
    <2>13. Reached(b, s.current)'
      <3>1. first - 1 <= Len(log)
        BY <1>3, <2>3 DEF Ids
      <3>2. ASSUME NEW e \in Ids, e <= first - 1, log[e].at = 0 PROVE Followed(e)'
        <4>1. e < first
          BY <2>3, <3>2 DEF Ids
        <4>2. QED
          BY <1>4, <1>6, <2>3, <4>1 DEF Followed
      <3>3. QED
        BY <1>4, <1>6, <2>4, <2>11, <3>1, <3>2 DEF Reached
    <2>14. Warned(b, s.current)'
      <3>1. SUFFICES ASSUME NEW e \in Ids, e > first - 1, log[e].old PROVE FALSE
        BY <1>4, <1>6, <2>4 DEF Warned
      <3>2. e = first \/ first < e
        BY <2>3, <3>1 DEF Ids
      <3>3. QED
        BY <2>3, <3>1, <3>2 DEF StreamInv, LogKept
    <2>15. Connected(b)'
      BY <2>4, <2>10, <2>13, <2>14 DEF Connected
    <2>16. BrowserKept(b)'
      BY <1>3, <2>9, <2>10, <2>12, <2>15 DEF BrowserKept
    <2>17. QED
      BY <1>4, <1>7, <2>5, <2>6, <2>8, <2>9, <2>16, BrowserSteps
  <1>9. CASE ~told
    <2>1. PICK s : s = [op |-> "projects", current |-> cursor]
      OBVIOUS
    <2>2. stream' = [stream EXCEPT ![b] = s] /\ s \in Asking
      BY <1>1, <1>2, <1>3, <1>5, <1>9, <2>1 DEF Connect, Asking
    <2>3. PICK r : r = page[b]
      OBVIOUS
    <2>4. PICK u \in BOOLEAN : u <=> r.untold \/ window = {} \/ cursor = 0
      OBVIOUS
    <2>5. PICK p : p = [r EXCEPT !.untold = u]
      OBVIOUS
    <2>6. page' = [page EXCEPT ![b] = p]
      <3>1. page' = [page EXCEPT ![b] = [page[b] EXCEPT !.untold = page[b].untold \/ window = {} \/ cursor = 0]]
        BY <1>1, <1>2, <1>5, <1>9 DEF Connect
      <3>2. (page[b].untold \/ window = {} \/ cursor = 0) = u
        BY <2>3, <2>4
      <3>3. QED
        BY <2>3, <2>5, <3>1, <3>2
    <2>7. p \in PageRow /\ p.barred = r.barred /\ p.last = r.last /\ p.issues = r.issues /\ p.notes = r.notes
          /\ (u => p.untold)
      BY <1>3, <2>3, <2>5, PageUntold
    <2>8. r.untold \/ window = {} \/ cursor = 0 => p.untold
      BY <2>4, <2>7
    <2>9. page'[b] = p /\ stream'[b] = s
      <3> HIDE DEF PageRow
      <3>1. QED
        BY <1>3, <2>2, <2>6 DEF StreamTypeOK
    <2>10. ASSUME NEW e \in Ids PROVE Covered(b, e) => Covered(b, e)'
      BY <1>4, <1>6, <2>3, <2>7, <2>8, <2>9 DEF Covered, Excluded, Needs, Shown, Overtaken, Missed
    <2>11. \A c \in Nat : Reached(b, c) => Reached(b, c)'
      BY <1>3, <1>4, <2>10, ReachedImproves DEF Improves
    <2>12. Warned(b, cursor)'
      <3>1. SUFFICES ASSUME NEW e \in Ids, e > cursor, log[e].old, window # {}, cursor # 0 PROVE FALSE
        BY <1>4, <1>6, <2>8, <2>9 DEF Warned
      <3>2. PICK first : first = Least(window)
        OBVIOUS
      <3>3. first \in window
        BY <1>4, <3>1, <3>2, LeastIs
      <3>4. first \in Nat /\ first \in Ids /\ ~log[first].old
        BY <1>1, <1>4, <3>3 DEF InWindow
      <3>5. first <= cursor
        BY <1>3, <1>5, <1>9, <3>1, <3>2, <3>4 DEF Behind
      <3>6. first < e
        BY <1>3, <3>1, <3>4, <3>5 DEF Ids
      <3>7. QED
        BY <3>1, <3>4, <3>6 DEF StreamInv, LogKept
    <2>13. Connected(b)'
      BY <1>3, <2>1, <2>9, <2>11, <2>12 DEF Connected
    <2>14. BrowserKept(b)'
      BY <1>2, <1>3, <2>3, <2>7, <2>9, <2>11, <2>13 DEF BrowserKept
    <2>15. QED
      BY <1>4, <1>7, <2>2, <2>3, <2>6, <2>7, <2>14, BrowserSteps
  <1>10. QED
    BY <1>8, <1>9

\* Nothing that is known of a browser changes with its connection.
LEMMA SeenStays ==
    ASSUME StreamTypeOK, log' = log, NEW b \in Browser, page'[b] = page[b]
    PROVE  /\ Ids' = Ids
           /\ \A c \in Nat : (Reached(b, c) => Reached(b, c)') /\ (Warned(b, c) => Warned(b, c)')
           /\ \A c, events : BatchTrue(b, c, events) => BatchTrue(b, c, events)'
  <1>1. Ids' = Ids
    BY DEF Ids
  <1>2. ASSUME NEW e \in Ids PROVE (Covered(b, e) => Covered(b, e)') /\ (Skipped(b, e) => Skipped(b, e)')
    BY <1>1 DEF Covered, Skipped, Excluded, Needs, Shown, Overtaken, Missed
  <1>3. ASSUME NEW c \in Nat, Reached(b, c) PROVE Reached(b, c)'
    BY <1>2, <1>3, ReachedImproves DEF Improves
  <1>4. ASSUME NEW c \in Nat, Warned(b, c) PROVE Warned(b, c)'
    BY <1>1, <1>4 DEF Warned
  <1>5. ASSUME NEW c, NEW events, BatchTrue(b, c, events) PROVE BatchTrue(b, c, events)'
    BY <1>1, <1>2, <1>5 DEF BatchTrue
  <1>6. QED
    BY <1>1, <1>3, <1>4, <1>5

LEMMA StreamMoves ==
    ASSUME StreamInv, NEW b \in Browser, NEW s \in {Closed} \cup Asking \cup Querying \cup Sending,
           UNCHANGED <<log, access, page, portal>>, stream' = [stream EXCEPT ![b] = s],
           s # Closed => Connected(b)'
    PROVE  StreamInv'
  <1>1. PICK p : p = page[b]
    OBVIOUS
  <1>2. StreamTypeOK /\ BrowserKept(b) /\ p \in PageRow /\ p.last \in Nat
    BY <1>1, ConnectionHas DEF StreamInv
  <1>3. page' = [page EXCEPT ![b] = p] /\ page'[b] = p /\ stream'[b] = s
    <2> HIDE DEF PageRow
    <2>1. QED
      BY <1>1, <1>2 DEF StreamTypeOK
  <1>4. Reached(b, p.last)'
    BY <1>1, <1>2, <1>3, SeenStays DEF BrowserKept
  <1>5. BrowserKept(b)'
    BY <1>3, <1>4 DEF BrowserKept
  <1>6. access' \in [Browser -> SUBSET Rights] /\ Rights \ access'[b] \subseteq p.barred
    BY <1>1 DEF StreamInv, StreamTypeOK, RightsKept
  <1>7. QED
    BY <1>2, <1>3, <1>5, <1>6, BrowserSteps

LEMMA DisconnectKeeps == ASSUME NEW b \in Browser PROVE StreamInv /\ Disconnect(b) => StreamInv'
  BY StreamMoves DEF Disconnect

LEMMA ReadProjectsKeeps == ASSUME NEW b \in Browser PROVE StreamInv /\ ReadProjects(b) => StreamInv'
  <1> SUFFICES ASSUME StreamInv, ReadProjects(b) PROVE StreamInv'
    OBVIOUS
  <1>1. PICK c : c = stream[b].current
    OBVIOUS
  <1>2. StreamTypeOK /\ c \in Nat /\ stream[b] # Closed /\ Connected(b)
    BY <1>1, ConnectionHas DEF StreamInv, ReadProjects, BrowserKept
  <1>3. PICK open \in BOOLEAN : open <=> "project" \in access[b]
    OBVIOUS
  <1>4. PICK s : s = [op |-> "events", current |-> c, open |-> open]
    OBVIOUS
  <1>5. s \in Querying /\ s # Closed /\ s.op = "events" /\ s.current = c /\ (~s.open => ~open)
    BY <1>2, <1>4 DEF Querying, Closed
  <1>6. stream' = [stream EXCEPT ![b] = s]
    <2>1. stream' = [stream EXCEPT ![b] = [op |-> "events", current |-> stream[b].current, open |-> "project" \in access[b]]]
      BY DEF ReadProjects
    <2>2. ("project" \in access[b]) = open
      BY <1>3
    <2>3. QED
      BY <1>1, <1>4, <2>1, <2>2
  <1>7. UNCHANGED <<log, access, page, portal>>
    BY DEF ReadProjects
  <1>8. stream'[b] = s
    BY <1>2, <1>6 DEF StreamTypeOK
  <1>9. Reached(b, c)' /\ Warned(b, c)'
    BY <1>1, <1>2, <1>7, SeenStays DEF Connected
  <1>10. ~open => "project" \in page[b].barred
    BY <1>3 DEF StreamInv, RightsKept, Rights
  <1>11. Connected(b)'
    BY <1>5, <1>7, <1>8, <1>9, <1>10 DEF Connected
  <1>12. QED
    BY <1>5, <1>6, <1>7, <1>11, StreamMoves

LEMMA ReadEventsKeeps == ASSUME NEW b \in Browser PROVE StreamInv /\ ReadEvents(b) => StreamInv'
  <1> SUFFICES ASSUME StreamInv, ReadEvents(b) PROVE StreamInv'
    OBVIOUS
  <1>1. PICK c : c = stream[b].current
    OBVIOUS
  <1>2. StreamTypeOK /\ c \in Nat /\ stream[b] # Closed /\ Connected(b) /\ Len(log) \in Nat
    BY <1>1, ConnectionHas, LogHas DEF StreamInv, ReadEvents, BrowserKept
  <1>3. PICK S : S = {e \in Ids : e > stream[b].current /\ Readable(e, stream[b].open)}
    OBVIOUS
  <1>4. PICK new : new = FirstOf(S)
    OBVIOUS
  <1>5. S \in SUBSET (1 .. Len(log)) /\ new \in SUBSET S
    BY <1>3, <1>4 DEF Ids, FirstOf
  <1>6. PICK s : s = [op |-> "send", current |-> c, events |-> new]
    OBVIOUS
  <1>7. s \in Sending /\ s # Closed /\ s.op = "send" /\ s.current = c /\ s.events = new
    <2>1. new \in SUBSET Nat
      BY <1>5
    <2>2. QED
      BY <1>2, <1>6, <2>1 DEF Sending, Closed
  <1>8. stream' = [stream EXCEPT ![b] = s] /\ UNCHANGED <<log, access, page, portal>>
    BY <1>1, <1>3, <1>4, <1>6 DEF ReadEvents
  <1>9. stream'[b] = s
    BY <1>2, <1>8 DEF StreamTypeOK
  <1>10. \A d \in new : d \in Ids /\ d > c /\ log[d].at # 0
    BY <1>1, <1>3, <1>5 DEF Readable, InWindow
  <1>11. ASSUME NEW d \in new, NEW e \in Ids, c < e, e <= d, e \notin new PROVE Skipped(b, e)
    <2>1. e \notin S
      BY <1>2, <1>4, <1>5, <1>11, FirstIsFirst
    <2>2. ~Readable(e, stream[b].open)
      BY <1>1, <1>2, <1>3, <1>11, <2>1 DEF Ids
    <2>3. CASE ~InWindow(e)
      BY <1>1, <1>2, <1>11, <2>3 DEF InWindow, Connected, Warned, Skipped, Missed, Ids
    <2>4. CASE InWindow(e)
      <3>1. ~stream[b].open /\ log[e].about = "issue"
        BY <2>2, <2>4 DEF Readable
      <3>2. "project" \in page[b].barred
        BY <1>2, <3>1 DEF Connected, ReadEvents
      <3>3. QED
        BY <3>1, <3>2 DEF Skipped, Excluded, Needs
    <2>5. QED
      BY <2>3, <2>4
  <1>12. BatchTrue(b, c, new)
    BY <1>10, <1>11 DEF BatchTrue
  <1>13. Reached(b, c)' /\ Warned(b, c)' /\ BatchTrue(b, c, new)'
    BY <1>1, <1>2, <1>8, <1>12, SeenStays DEF Connected
  <1>14. Connected(b)'
    BY <1>7, <1>9, <1>13 DEF Connected
  <1>15. QED
    BY <1>7, <1>8, <1>14, StreamMoves

LEMMA FallbackKeeps == ASSUME NEW b \in Browser PROVE StreamInv /\ Fallback(b) => StreamInv'
  <1> SUFFICES ASSUME StreamInv, Fallback(b) PROVE StreamInv'
    OBVIOUS
  <1>1. PICK r : r = page[b]
    OBVIOUS
  <1>2. StreamTypeOK /\ BrowserKept(b) /\ r \in PageRow /\ r.last \in Nat /\ Commits \in Nat
    BY <1>1, ConnectionHas, LogHas DEF StreamInv
  <1>3. PICK p : p = [r EXCEPT !.issues = Commits]
    OBVIOUS
  <1>4. p \in PageRow /\ p.barred = r.barred /\ p.last = r.last /\ p.issues = Commits /\ p.notes = r.notes
        /\ (r.untold => p.untold)
    BY <1>2, <1>3, PageIssues
  <1>5. page' = [page EXCEPT ![b] = p] /\ UNCHANGED <<log, access, stream, portal>> /\ stream[b] = Closed
    BY <1>1, <1>3 DEF Fallback
  <1>6. page'[b] = p /\ stream' = [stream EXCEPT ![b] = Closed]
    <2> HIDE DEF PageRow, Closed
    <2>1. QED
      BY <1>2, <1>5 DEF StreamTypeOK
  <1>7. ASSUME NEW e \in Ids, log[e].at # 0, Covered(b, e) PROVE Covered(b, e)'
    <2>1. Ids' = Ids /\ log[e].at <= Commits
      BY <1>5 DEF StreamInv, LogKept, Ids
    <2>2. QED
      BY <1>1, <1>4, <1>5, <1>6, <1>7, <2>1 DEF Covered, Excluded, Needs, Shown, Overtaken, Missed
  <1>8. Reached(b, r.last)'
    BY <1>1, <1>2, <1>5, <1>7, ReachedImproves DEF Improves, BrowserKept
  <1>9. BrowserKept(b)'
    BY <1>4, <1>5, <1>6, <1>8 DEF BrowserKept
  <1>10. access' \in [Browser -> SUBSET Rights] /\ Rights \ access'[b] \subseteq p.barred
    BY <1>1, <1>4, <1>5 DEF StreamInv, StreamTypeOK, RightsKept
  <1>11. QED
    BY <1>4, <1>5, <1>6, <1>9, <1>10, BrowserSteps

\* Whatever was left out of a batch is reached with it.
LEMMA BatchReached ==
    ASSUME StreamTypeOK, log' = log, NEW b \in Browser, Improves(b), NEW c \in Nat, NEW events, NEW m \in events,
           BatchTrue(b, c, events), Reached(b, c), \A e \in events : e <= m => Covered(b, e)'
    PROVE  Reached(b, m)'
  <1>1. Ids' = Ids /\ Reached(b, c)' /\ m \in Ids /\ log[m].at # 0 /\ m > c
    BY ReachedImproves DEF Ids, BatchTrue
  <1>2. m <= Len(log') /\ Len(log) \in Nat
    BY <1>1, LogHas DEF Ids
  <1>3. ASSUME NEW e \in Ids, e <= m PROVE IF log[e].at = 0 THEN Followed(e)' ELSE Covered(b, e)'
    <2>1. e \in Nat /\ m \in Nat
      BY <1>1 DEF Ids
    <2>2. CASE e <= c
      BY <1>1, <2>2 DEF Reached
    <2>3. CASE e > c /\ log[e].at = 0
      <3>1. e < m
        BY <1>1, <1>3, <2>1, <2>3
      <3>2. QED
        BY <1>1, <2>3, <3>1 DEF Followed
    <2>4. CASE e > c /\ log[e].at # 0
      <3>1. e \in events \/ Skipped(b, e)
        BY <1>3, <2>1, <2>4 DEF BatchTrue
      <3>2. CASE e \in events
        BY <1>3, <2>4, <3>2
      <3>3. CASE Skipped(b, e)
        BY <2>4, <3>3 DEF Skipped, Covered, Improves
      <3>4. QED
        BY <2>4, <3>1, <3>2, <3>3
    <2>5. QED
      BY <2>1, <2>2, <2>3, <2>4
  <1>4. QED
    BY <1>1, <1>2, <1>3 DEF Reached

\* What the page makes of the events that it gets.
LEMMA PageReceives ==
    ASSUME StreamInv, NEW b \in Browser, NEW got \in SUBSET Ids, NEW p, p = Received(b, got)
    PROVE  /\ p \in PageRow /\ p.barred = page[b].barred /\ (page[b].untold => p.untold)
           /\ p.last = PassedBy(page[b].last, got)
           /\ p.issues \in {page[b].issues, Commits} /\ p.notes \in {page[b].notes, Commits}
           /\ \A e \in got : /\ log[e].about = "issue" => p.issues = Commits
                             /\ log[e].about = "mine" => p.notes = Commits
  <1>1. PICK r : r = page[b]
    OBVIOUS
  <1>2. r \in PageRow /\ r.last \in Nat /\ r.issues \in Nat /\ r.notes \in Nat /\ Commits \in Nat /\ Len(log) \in Nat
    BY <1>1, ConnectionHas, PageHas, LogHas DEF StreamInv
  <1>3. PICK l \in Nat : l = PassedBy(r.last, got)
    <2>1. CASE got = {}
      BY <1>2, <2>1 DEF PassedBy
    <2>2. CASE got # {}
      <3>1. Greatest(got) \in got
        BY <1>2, <2>2, GreatestIs DEF Ids
      <3>2. PassedBy(r.last, got) = Greatest(got)
        BY <2>2 DEF PassedBy
      <3>3. PICK g : g = Greatest(got)
        OBVIOUS
      <3>4. g \in Ids
        BY <3>1, <3>3
      <3>5. g \in Nat
        BY <1>2, <3>4 DEF Ids
      <3>6. QED
        BY <3>2, <3>3, <3>5
    <2>3. QED
      BY <2>1, <2>2
  <1>4. PICK i \in Nat : i = IF \E e \in got : log[e].about = "issue" THEN Commits ELSE r.issues
    BY <1>2
  <1>5. PICK n \in Nat : n = IF \E e \in got : log[e].about = "mine" THEN Commits ELSE r.notes
    BY <1>2
  <1>6. PICK p1 : p1 = [r EXCEPT !.last = l]
    OBVIOUS
  <1>7. PICK p2 : p2 = [p1 EXCEPT !.issues = i]
    OBVIOUS
  <1>8. PICK p3 : p3 = [p2 EXCEPT !.notes = n]
    OBVIOUS
  <1>9. p1 \in PageRow /\ p1.barred = r.barred /\ p1.last = l /\ p1.issues = r.issues /\ p1.notes = r.notes
        /\ (r.untold => p1.untold)
    BY <1>2, <1>6, PageLast
  <1>10. p2 \in PageRow /\ p2.barred = r.barred /\ p2.last = l /\ p2.issues = i /\ p2.notes = r.notes
         /\ (r.untold => p2.untold)
    BY <1>7, <1>9, PageIssues
  <1>11. p3 \in PageRow /\ p3.barred = r.barred /\ p3.last = l /\ p3.issues = i /\ p3.notes = n
         /\ (r.untold => p3.untold)
    BY <1>8, <1>10, PageNotes
  <1>12. p = p3
    <2>1. p = [r EXCEPT !.last = PassedBy(r.last, got),
                        !.issues = IF \E e \in got : log[e].about = "issue" THEN Commits ELSE r.issues,
                        !.notes = IF \E e \in got : log[e].about = "mine" THEN Commits ELSE r.notes]
      BY <1>1, Zenon DEF Received
    <2>2. QED
      BY ONLY <1>3, <1>4, <1>5, <1>6, <1>7, <1>8, <2>1, Zenon
  <1>13. QED
    BY <1>1, <1>3, <1>4, <1>5, <1>11, <1>12

\* A connection that breaks has brought what is below the cursor of the page.
LEMMA SendKeeps == ASSUME NEW b \in Browser PROVE StreamInv /\ Send(b) => StreamInv'
  <1> SUFFICES ASSUME StreamInv, Send(b) PROVE StreamInv'
    OBVIOUS
  <1>1. PICK c : c = stream[b].current
    OBVIOUS
  <1>2. PICK events : events = stream[b].events
    OBVIOUS
  <1>3. /\ StreamTypeOK /\ c \in Nat /\ stream[b] # Closed /\ stream[b].op = "send"
        /\ Connected(b) /\ BrowserKept(b) /\ page[b].last \in Nat /\ Len(log) \in Nat /\ Commits \in Nat
    BY <1>1, ConnectionHas, LogHas DEF StreamInv, Send, BrowserKept
  <1>4. BatchTrue(b, c, events) /\ Reached(b, c) /\ Warned(b, c) /\ Reached(b, page[b].last)
    BY <1>1, <1>2, <1>3 DEF Connected, BrowserKept
  <1>5. events \in SUBSET Ids
    BY <1>4 DEF BatchTrue
  <1>6. PICK sent : sent = {e \in events : Meant(b, e)}
    OBVIOUS
  <1>7. PICK end \in {0} \cup sent :
          LET got == {e \in sent : e <= end} IN
            /\ page' = [page EXCEPT ![b] = Received(b, got)]
            /\ stream' = [stream EXCEPT ![b] =
                 IF got # sent THEN Closed
                 ELSE [op |-> "projects", current |-> PassedBy(stream[b].current, stream[b].events)]]
    BY <1>2, <1>6 DEF Send
  <1>8. PICK got : got = {e \in sent : e <= end}
    OBVIOUS
  <1>9. PICK p : p = Received(b, got)
    OBVIOUS
  <1>10. UNCHANGED <<log, access, portal>> /\ page' = [page EXCEPT ![b] = p]
    BY <1>7, <1>8, <1>9 DEF Send
  <1>11. got \in SUBSET sent /\ sent \in SUBSET events /\ got \in SUBSET Ids
    BY <1>5, <1>6, <1>8
  <1>12. /\ p \in PageRow /\ p.barred = page[b].barred /\ (page[b].untold => p.untold)
         /\ p.last = PassedBy(page[b].last, got)
         /\ p.issues \in {page[b].issues, Commits} /\ p.notes \in {page[b].notes, Commits}
         /\ \A e \in got : /\ log[e].about = "issue" => p.issues = Commits
                           /\ log[e].about = "mine" => p.notes = Commits
    BY <1>9, <1>11, PageReceives
  <1>13. page'[b] = p /\ Ids' = Ids
    <2> HIDE DEF PageRow
    <2>1. QED
      BY <1>3, <1>10 DEF StreamTypeOK, Ids
  <1>14. \A e \in Ids : log[e].at <= Commits
    BY DEF StreamInv, LogKept
  <1>15. Improves(b)
    <2>1. ASSUME NEW e \in Ids PROVE Excluded(b, e) => Excluded(b, e)'
      BY <1>10, <1>12, <1>13 DEF Excluded, Needs
    <2>2. ASSUME NEW e \in Ids PROVE Missed(b, e) => Missed(b, e)'
      BY <1>10, <1>12, <1>13 DEF Missed
    <2>3. ASSUME NEW e \in Ids PROVE Overtaken(e) => Overtaken(e)'
      BY <1>10, <1>13 DEF Overtaken
    <2>4. ASSUME NEW e \in Ids PROVE Shown(b, e) => Shown(b, e)'
      BY <1>10, <1>12, <1>13, <1>14 DEF Shown
    <2>5. QED
      BY <2>1, <2>2, <2>3, <2>4 DEF Improves, Covered
  <1>16. ASSUME NEW e \in events, e \in got \/ ~Meant(b, e) PROVE Covered(b, e)'
    <2>1. log[e].about \in About /\ e \in Ids /\ log[e].at <= Commits
      BY <1>3, <1>5, <1>14, LogHas
    <2>2. CASE ~Meant(b, e)
      <3>1. log[e].about = "theirs" \/ (log[e].about = "issue" /\ "issue" \notin access[b])
        BY <2>2 DEF Meant
      <3>2. "issue" \notin access[b] => "issue" \in page[b].barred
        BY DEF StreamInv, RightsKept, Rights
      <3>3. Excluded(b, e)'
        BY <1>10, <1>12, <1>13, <3>1, <3>2 DEF Excluded, Needs
      <3>4. QED
        BY <3>3 DEF Covered
    <2>3. CASE e \in got /\ Meant(b, e)
      <3>1. log[e].about \in {"issue", "mine"}
        BY <2>1, <2>3 DEF Meant, About
      <3>2. Shown(b, e)'
        BY <1>10, <1>12, <1>13, <2>1, <2>3, <3>1 DEF Shown
      <3>3. QED
        BY <3>2 DEF Covered
    <2>4. QED
      BY <1>16, <2>2, <2>3
  <1>17. Reached(b, p.last)'
    <2>1. CASE got = {}
      <3>1. p.last = page[b].last
        BY <1>12, <2>1 DEF PassedBy
      <3>2. PICK l \in Nat : l = page[b].last
        BY <1>3
      <3>3. Reached(b, l)'
        BY <1>3, <1>4, <1>10, <1>15, <3>2, ReachedImproves
      <3>4. QED
        BY <3>1, <3>2, <3>3
    <2>2. CASE got # {}
      <3>1. PICK m : m = Greatest(got)
        OBVIOUS
      <3>2. m \in got /\ p.last = m
        BY <1>3, <1>11, <1>12, <2>2, <3>1, GreatestIs DEF Ids, PassedBy
      <3>3. m <= end /\ m \in Nat /\ end \in Nat
        BY <1>5, <1>8, <1>11, <3>2 DEF Ids
      <3>4. ASSUME NEW e \in events, e <= m PROVE Covered(b, e)'
        <4>1. e \in Nat
          BY <1>5 DEF Ids
        <4>2. e <= end
          BY <3>3, <3>4, <4>1
        <4>3. e \in got \/ ~Meant(b, e)
          BY <1>6, <1>8, <4>2
        <4>4. QED
          BY <1>16, <4>3
      <3>5. Reached(b, m)'
        BY <1>3, <1>4, <1>10, <1>11, <1>15, <3>2, <3>4, BatchReached
      <3>6. QED
        BY <3>2, <3>5
    <2>3. QED
      BY <2>1, <2>2
  <1>18. PICK n : n = PassedBy(c, events)
    OBVIOUS
  <1>19. CASE got # sent
    <2>1. stream' = [stream EXCEPT ![b] = Closed] /\ Closed \in {Closed} \cup Asking \cup Querying \cup Sending
      BY <1>7, <1>8, <1>19
    <2>2. stream'[b] = Closed
      BY <1>3, <2>1 DEF StreamTypeOK
    <2>3. BrowserKept(b)'
      BY <1>13, <1>17, <2>2 DEF BrowserKept
    <2>4. access' \in [Browser -> SUBSET Rights] /\ Rights \ access'[b] \subseteq p.barred
      BY <1>10, <1>12 DEF StreamInv, StreamTypeOK, RightsKept
    <2>5. QED
      BY <1>10, <1>12, <2>1, <2>3, <2>4, BrowserSteps
  <1>20. CASE got = sent
    <2>1. n \in Nat /\ n >= c /\ Reached(b, n)'
      <3>1. CASE events = {}
        <4>1. n = c
          BY <1>18, <3>1 DEF PassedBy
        <4>2. Reached(b, c)'
          BY <1>3, <1>4, <1>10, <1>15, ReachedImproves
        <4>3. QED
          BY <1>3, <4>1, <4>2
      <3>2. CASE events # {}
        <4>1. n \in events
          BY <1>3, <1>5, <1>18, <3>2, GreatestIs DEF Ids, PassedBy
        <4>2. n \in Nat /\ n >= c
          BY <1>3, <1>4, <1>5, <4>1 DEF BatchTrue, Ids
        <4>3. \A e \in events : Covered(b, e)'
          BY <1>6, <1>16, <1>20
        <4>4. Reached(b, n)'
          BY <1>3, <1>4, <1>10, <1>15, <4>1, <4>3, BatchReached
        <4>5. QED
          BY <4>2, <4>4
      <3>3. QED
        BY <3>1, <3>2
    <2>2. PICK s : s = [op |-> "projects", current |-> n]
      OBVIOUS
    <2>3. s \in Asking /\ s # Closed /\ s.op = "projects" /\ s.current = n
      BY <2>1, <2>2 DEF Asking, Closed
    <2>4. stream' = [stream EXCEPT ![b] = s]
      BY <1>1, <1>2, <1>7, <1>8, <1>18, <1>20, <2>2
    <2>5. stream'[b] = s
      BY <1>3, <2>4 DEF StreamTypeOK
    <2>6. Warned(b, n)'
      <3>1. ASSUME NEW e \in Ids, e > n, log[e].old PROVE p.untold
        <4>1. e > c
          BY <1>3, <2>1, <3>1 DEF Ids
        <4>2. QED
          BY <1>4, <1>12, <3>1, <4>1 DEF Warned
      <3>2. QED
        BY <1>10, <1>13, <3>1 DEF Warned
    <2>7. Connected(b)'
      BY <2>1, <2>3, <2>5, <2>6 DEF Connected
    <2>8. BrowserKept(b)'
      BY <1>13, <1>17, <2>7 DEF BrowserKept
    <2>9. access' \in [Browser -> SUBSET Rights] /\ Rights \ access'[b] \subseteq p.barred
      BY <1>10, <1>12 DEF StreamInv, StreamTypeOK, RightsKept
    <2>10. QED
      BY <1>10, <1>12, <2>3, <2>4, <2>8, <2>9, BrowserSteps
  <1>21. QED
    BY <1>19, <1>20

-----------------------------------------------------------------------------
(* A portal customer.                                                      *)

LEMMA PortalMoves ==
    ASSUME StreamInv, UNCHANGED <<log, access, stream, page>>, portal' \in Polling,
           ~portal'.shared => portal'.barred, PolledUp', PollTrue'
    PROVE  StreamInv'
  <1>1. StreamTypeOK'
    BY DEF StreamInv, StreamTypeOK
  <1>2. LogKept'
    BY DEF StreamInv, LogKept, Ids, Commits
  <1>3. RightsKept'
    BY DEF StreamInv, RightsKept
  <1>4. ASSUME NEW b \in Browser PROVE BrowserKept(b)'
    <2>1. StreamTypeOK /\ BrowserKept(b) /\ page[b].last \in Nat /\ (stream[b] # Closed => stream[b].current \in Nat)
      BY ConnectionHas DEF StreamInv
    <2>2. stream' = stream /\ page' = page
      OBVIOUS
    <2>3. Reached(b, page[b].last)'
      BY <2>1, <2>2, SeenStays DEF BrowserKept
    <2>4. ASSUME stream[b] # Closed PROVE Connected(b)'
      <3>1. Reached(b, stream[b].current)' /\ Warned(b, stream[b].current)'
        BY <2>1, <2>2, <2>4, SeenStays DEF BrowserKept, Connected
      <3>2. stream[b].op = "send" => BatchTrue(b, stream[b].current, stream[b].events)'
        BY <2>1, <2>2, <2>4, SeenStays DEF BrowserKept, Connected
      <3>3. QED
        BY <2>1, <2>2, <2>4, <3>1, <3>2 DEF BrowserKept, Connected
    <2>5. QED
      BY <2>2, <2>3, <2>4 DEF BrowserKept
  <1>5. QED
    BY <1>1, <1>2, <1>3, <1>4 DEF StreamInv

LEMMA PortalHas ==
    ASSUME NEW r \in Polling
    PROVE  r.cursor \in Nat /\ r.heard \in SUBSET Nat /\ r.shared \in BOOLEAN /\ r.read \in SUBSET Nat
           /\ r.barred \in BOOLEAN
  BY DEF Polling

LEMMA PortalRead ==
    ASSUME NEW r \in Polling, NEW z
    PROVE  [r EXCEPT !.read = z]
             = [cursor |-> r.cursor, heard |-> r.heard, shared |-> r.shared, read |-> z, barred |-> r.barred]
  <1>1. ASSUME NEW A, NEW B, NEW C, NEW D, NEW x \in [cursor : A, heard : B, shared : C, read : B, barred : D]
        PROVE  [x EXCEPT !.read = z]
                 = [cursor |-> x.cursor, heard |-> x.heard, shared |-> x.shared, read |-> z, barred |-> x.barred]
    BY ONLY <1>1
  <1>2. QED
    BY <1>1 DEF Polling

LEMMA PortalCursor ==
    ASSUME NEW r \in Polling, NEW z
    PROVE  [r EXCEPT !.cursor = z]
             = [cursor |-> z, heard |-> r.heard, shared |-> r.shared, read |-> r.read, barred |-> r.barred]
  <1>1. ASSUME NEW A, NEW B, NEW C, NEW D, NEW x \in [cursor : A, heard : B, shared : C, read : B, barred : D]
        PROVE  [x EXCEPT !.cursor = z]
                 = [cursor |-> z, heard |-> x.heard, shared |-> x.shared, read |-> x.read, barred |-> x.barred]
    BY ONLY <1>1
  <1>2. QED
    BY <1>1 DEF Polling

LEMMA PortalHeard ==
    ASSUME NEW r \in Polling, NEW z
    PROVE  [r EXCEPT !.heard = z]
             = [cursor |-> r.cursor, heard |-> z, shared |-> r.shared, read |-> r.read, barred |-> r.barred]
  <1>1. ASSUME NEW A, NEW B, NEW C, NEW D, NEW x \in [cursor : A, heard : B, shared : C, read : B, barred : D]
        PROVE  [x EXCEPT !.heard = z]
                 = [cursor |-> x.cursor, heard |-> z, shared |-> x.shared, read |-> x.read, barred |-> x.barred]
    BY ONLY <1>1
  <1>2. QED
    BY <1>1 DEF Polling

LEMMA ChangeSharingKeeps == StreamInv /\ ChangeSharing => StreamInv'
  <1> SUFFICES ASSUME StreamInv, ChangeSharing PROVE StreamInv'
    OBVIOUS
  <1>1. PICK r : r = portal
    OBVIOUS
  <1>2. StreamTypeOK /\ r \in Polling
    BY <1>1 DEF StreamInv, StreamTypeOK
  <1>3. PICK v \in BOOLEAN : v = ~r.shared
    OBVIOUS
  <1>4. PICK t \in BOOLEAN : t = TRUE
    OBVIOUS
  <1>5. portal' = [cursor |-> r.cursor, heard |-> r.heard, shared |-> v, read |-> r.read, barred |-> t]
    <2>1. ASSUME NEW A, NEW B, NEW C, NEW D, NEW w \in C, NEW z \in D,
                 NEW x \in [cursor : A, heard : B, shared : C, read : B, barred : D]
          PROVE  [[x EXCEPT !.shared = w] EXCEPT !.barred = z]
                   = [cursor |-> x.cursor, heard |-> x.heard, shared |-> w, read |-> x.read, barred |-> z]
      <3>1. [x EXCEPT !.shared = w]
              = [cursor |-> x.cursor, heard |-> x.heard, shared |-> w, read |-> x.read, barred |-> x.barred]
        BY ONLY <2>1
      <3>2. PICK y : y = [cursor |-> x.cursor, heard |-> x.heard, shared |-> w, read |-> x.read, barred |-> x.barred]
        OBVIOUS
      <3>3. y \in [cursor : A, heard : B, shared : C, read : B, barred : D]
            /\ y.cursor = x.cursor /\ y.heard = x.heard /\ y.shared = w /\ y.read = x.read
        BY ONLY <2>1, <3>2
      <3>4. [y EXCEPT !.barred = z]
              = [cursor |-> y.cursor, heard |-> y.heard, shared |-> y.shared, read |-> y.read, barred |-> z]
        BY ONLY <3>3
      <3>5. QED
        BY <3>1, <3>2, <3>3, <3>4
    <2>2. portal' = [[r EXCEPT !.shared = v] EXCEPT !.barred = t]
      BY <1>1, <1>3, <1>4, Zenon DEF ChangeSharing
    <2>3. QED
      BY <1>2, <2>1, <2>2 DEF Polling
  <1>6. portal' \in Polling /\ portal'.barred /\ portal'.cursor = portal.cursor /\ portal'.read = portal.read
    BY <1>1, <1>2, <1>5, <1>4, PortalHas DEF Polling
  <1>7. UNCHANGED <<log, access, stream, page>> /\ Ids' = Ids
    BY DEF ChangeSharing, Ids
  <1>8. PolledUp' /\ PollTrue'
    BY <1>6, <1>7 DEF StreamInv, PolledUp, PollTrue, Followed, Overtaken
  <1>9. QED
    BY <1>6, <1>7, <1>8, PortalMoves

LEMMA ReadPortalKeeps == StreamInv /\ ReadPortal => StreamInv'
  <1> SUFFICES ASSUME StreamInv, ReadPortal PROVE StreamInv'
    OBVIOUS
  <1>1. PICK S : S = {e \in Ids : e > portal.cursor /\ log[e].at # 0 /\ log[e].about = "issue"}
    OBVIOUS
  <1>2. PICK new : new = FirstOf(S)
    OBVIOUS
  <1>3. StreamTypeOK /\ portal \in Polling /\ portal.cursor \in Nat /\ Len(log) \in Nat
    BY PortalHas, LogHas DEF StreamInv, StreamTypeOK
  <1>4. S \in SUBSET (1 .. Len(log)) /\ new \in SUBSET S /\ new \in SUBSET Nat
    BY <1>1, <1>2 DEF Ids, FirstOf
  <1>5. portal' = [portal EXCEPT !.read = new] /\ UNCHANGED <<log, access, stream, page>> /\ Ids' = Ids
    BY <1>1, <1>2 DEF ReadPortal, Ids
  <1>6. portal' \in Polling /\ portal'.read = new /\ portal'.cursor = portal.cursor /\ portal'.heard = portal.heard
        /\ (portal.shared => portal'.shared) /\ (portal'.barred => portal.barred) /\ (portal.barred => portal'.barred)
    <2>1. PICK r : r = portal
      OBVIOUS
    <2>2. PICK q : q = portal'
      OBVIOUS
    <2>3. r \in Polling /\ new \in SUBSET Nat /\ q = [r EXCEPT !.read = new]
      BY <1>3, <1>4, <1>5, <2>1, <2>2, Zenon
    <2>4. q = [cursor |-> r.cursor, heard |-> r.heard, shared |-> r.shared, read |-> new, barred |-> r.barred]
      BY ONLY <2>3, PortalRead, Zenon
    <2>5. q \in Polling /\ q.read = new /\ q.cursor = r.cursor /\ q.heard = r.heard
          /\ (r.shared => q.shared) /\ (q.barred => r.barred) /\ (r.barred => q.barred)
      BY <2>3, <2>4, PortalHas DEF Polling
    <2>6. QED
      BY <2>1, <2>2, <2>5
  <1>7. PolledUp'
    BY <1>5, <1>6 DEF StreamInv, PolledUp, Followed, Overtaken
  <1>8. \A d \in new : d \in Ids /\ d > portal.cursor /\ log[d].at # 0
    BY <1>1, <1>4
  <1>9. ASSUME NEW d \in new, NEW e \in Ids, portal.cursor < e, e <= d, e \notin new
        PROVE  log[e].at = 0 \/ log[e].about # "issue"
    <2>1. e \notin S
      BY <1>2, <1>3, <1>4, <1>9, FirstIsFirst
    <2>2. QED
      BY <1>1, <1>3, <1>9, <2>1 DEF Ids
  <1>10. PollTrue'
    BY <1>5, <1>6, <1>8, <1>9 DEF PollTrue
  <1>11. ~portal'.shared => portal'.barred
    BY <1>6 DEF StreamInv, RightsKept
  <1>12. QED
    BY <1>5, <1>6, <1>7, <1>10, <1>11, PortalMoves

LEMMA AnswerPortalKeeps == StreamInv /\ AnswerPortal => StreamInv'
  <1> SUFFICES ASSUME StreamInv, AnswerPortal PROVE StreamInv'
    OBVIOUS
  <1>1. PICK read : read = portal.read
    OBVIOUS
  <1>2. StreamTypeOK /\ portal \in Polling /\ portal.cursor \in Nat /\ Len(log) \in Nat /\ read # {}
        /\ portal.heard \in SUBSET Nat
    BY <1>1, PortalHas, LogHas DEF StreamInv, StreamTypeOK, AnswerPortal
  <1>3. UNCHANGED <<log, access, stream, page>> /\ Ids' = Ids
    BY DEF AnswerPortal, Ids
  <1>4. read \in SUBSET Ids /\ \A d \in read : d > portal.cursor /\ log[d].at # 0
    BY <1>1 DEF StreamInv, PollTrue
  <1>5. PICK q1 : q1 = [portal EXCEPT !.read = {}]
    OBVIOUS
  <1>6. q1 \in Polling /\ q1.read = {} /\ q1.cursor = portal.cursor /\ q1.heard = portal.heard
        /\ (q1.shared => portal.shared) /\ (portal.shared => q1.shared)
        /\ (q1.barred => portal.barred) /\ (portal.barred => q1.barred)
    <2>1. PICK r : r = portal
      OBVIOUS
    <2>2. r \in Polling /\ {} \in SUBSET Nat /\ q1 = [r EXCEPT !.read = {}]
      BY <1>2, <1>5, <2>1, Zenon
    <2>3. q1 = [cursor |-> r.cursor, heard |-> r.heard, shared |-> r.shared, read |-> {}, barred |-> r.barred]
      BY ONLY <2>2, PortalRead, Zenon
    <2>4. q1 \in Polling /\ q1.read = {} /\ q1.cursor = r.cursor /\ q1.heard = r.heard
          /\ (q1.shared => r.shared) /\ (r.shared => q1.shared)
          /\ (q1.barred => r.barred) /\ (r.barred => q1.barred)
      BY <2>2, <2>3, PortalHas DEF Polling
    <2>5. QED
      BY <2>1, <2>4
  <1>7. CASE portal' = q1
    <2>1. PolledUp' /\ PollTrue'
      BY <1>3, <1>6, <1>7 DEF StreamInv, PolledUp, PollTrue, Followed, Overtaken
    <2>2. ~portal'.shared => portal'.barred
      BY <1>6, <1>7 DEF StreamInv, RightsKept
    <2>3. QED
      BY <1>3, <1>6, <1>7, <2>1, <2>2, PortalMoves
  <1>8. CASE portal' = [portal EXCEPT !.read = {}, !.cursor = PassedBy(portal.cursor, portal.read),
                          !.heard = IF portal.shared THEN portal.heard \cup portal.read ELSE portal.heard]
    <2>1. PICK m : m = Greatest(read)
      OBVIOUS
    <2>2. m \in read /\ m \in Ids /\ m \in Nat /\ PassedBy(portal.cursor, portal.read) = m
      <3>1. m \in read
        BY <1>2, <1>4, <2>1, GreatestIs DEF Ids
      <3>2. m \in Ids /\ m \in Nat
        BY <1>2, <1>4, <3>1 DEF Ids
      <3>3. PassedBy(portal.cursor, portal.read) = m
        BY <1>1, <1>2, <2>1 DEF PassedBy
      <3>4. QED
        BY <3>1, <3>2, <3>3
    <2>3. PICK H \in SUBSET Nat : H = IF portal.shared THEN portal.heard \cup portal.read ELSE portal.heard
      <3>1. read \in SUBSET Nat
        BY <1>2, <1>4 DEF Ids
      <3>2. portal.heard \cup portal.read \in SUBSET Nat
        BY <1>1, <1>2, <3>1
      <3>3. QED
        BY <1>2, <3>2
    <2>4. PICK q2 : q2 = [q1 EXCEPT !.cursor = m]
      OBVIOUS
    <2>5. PICK q3 : q3 = [q2 EXCEPT !.heard = H]
      OBVIOUS
    <2>6. portal' = q3
      BY ONLY <1>5, <1>8, <2>2, <2>3, <2>4, <2>5, Zenon
    <2>7. q2 \in Polling /\ q2.read = {} /\ q2.cursor = m
          /\ (portal.shared => q2.shared) /\ (q2.barred => portal.barred) /\ (portal.barred => q2.barred)
      <3>1. q2 = [cursor |-> m, heard |-> q1.heard, shared |-> q1.shared, read |-> q1.read, barred |-> q1.barred]
        BY ONLY <1>6, <2>4, PortalCursor, Zenon
      <3>2. QED
        BY <1>6, <2>2, <3>1, PortalHas DEF Polling
    <2>8. q3 \in Polling /\ q3.read = {} /\ q3.cursor = m /\ q3.heard = H
          /\ (portal.shared => q3.shared) /\ (q3.barred => portal.barred) /\ (portal.barred => q3.barred)
      <3>1. q3 = [cursor |-> q2.cursor, heard |-> H, shared |-> q2.shared, read |-> q2.read, barred |-> q2.barred]
        BY ONLY <2>5, <2>7, PortalHeard, Zenon
      <3>2. QED
        BY <2>7, <3>1, PortalHas DEF Polling
    <2>9. ASSUME NEW e \in Ids, e <= m
          PROVE  IF log[e].at = 0 THEN Followed(e)
                 ELSE log[e].about = "issue" /\ ~portal.barred => e \in H \/ Overtaken(e)
      <3>1. portal.heard \subseteq H /\ (~portal.barred => read \subseteq H)
        BY <1>1, <2>3 DEF StreamInv, RightsKept
      <3>2. CASE e <= portal.cursor
        BY <3>1, <3>2 DEF StreamInv, PolledUp
      <3>3. CASE e > portal.cursor /\ log[e].at = 0
        <4>1. m > e
          BY <1>4, <2>2, <2>9, <3>3 DEF Ids
        <4>2. QED
          BY <1>4, <2>2, <3>3, <4>1 DEF Followed
      <3>4. CASE e > portal.cursor /\ log[e].at # 0
        <4>1. e \in read \/ log[e].about # "issue" \/ Overtaken(e)
          BY <1>1, <1>2, <2>2, <2>9, <3>4 DEF StreamInv, PollTrue, Ids
        <4>2. QED
          BY <3>1, <3>4, <4>1
      <3>5. QED
        BY <1>2, <3>2, <3>3, <3>4 DEF Ids
    <2>10. m <= Len(log)
      BY <2>2 DEF Ids
    <2>11. PolledUp'
      BY <1>3, <2>6, <2>8, <2>9, <2>10 DEF PolledUp, Followed, Overtaken
    <2>12. PollTrue'
      BY <2>6, <2>8 DEF PollTrue
    <2>13. ~portal'.shared => portal'.barred
      BY <2>6, <2>8 DEF StreamInv, RightsKept
    <2>14. QED
      BY <1>3, <2>6, <2>8, <2>11, <2>12, <2>13, PortalMoves
  <1>9. QED
    BY <1>5, <1>7, <1>8 DEF AnswerPortal

-----------------------------------------------------------------------------
LEMMA StreamStepKeeps == StreamInv /\ [StreamNext \/ PortalNext]_streamState => StreamInv'
  <1> SUFFICES ASSUME StreamInv, [StreamNext \/ PortalNext]_streamState PROVE StreamInv'
    OBVIOUS
  <1>1. CASE WriterNext
    BY <1>1, DrawIdKeeps, CommitEventKeeps, AgeEventKeeps DEF WriterNext
  <1>2. ASSUME NEW b \in Browser,
               \/ ChangeAccess(b) \/ Connect(b) \/ ReadProjects(b) \/ ReadEvents(b)
               \/ Send(b) \/ Disconnect(b) \/ Fallback(b)
        PROVE  StreamInv'
    BY <1>2, ChangeAccessKeeps, ConnectKeeps, ReadProjectsKeeps, ReadEventsKeeps, SendKeeps, DisconnectKeeps,
       FallbackKeeps
  <1>3. CASE ChangeSharing \/ ReadPortal \/ AnswerPortal
    BY <1>3, ChangeSharingKeeps, ReadPortalKeeps, AnswerPortalKeeps
  <1>4. CASE UNCHANGED streamState
    <2>1. UNCHANGED <<log, access, stream, page>> /\ portal' = portal /\ Ids' = Ids
      BY <1>4 DEF streamState, streamVars, Ids
    <2>2. portal' \in Polling /\ (~portal'.shared => portal'.barred)
      BY <2>1 DEF StreamInv, StreamTypeOK, RightsKept
    <2>3. PolledUp' /\ PollTrue'
      BY <2>1 DEF StreamInv, PolledUp, PollTrue, Followed, Overtaken
    <2>4. QED
      BY <2>1, <2>2, <2>3, PortalMoves
  <1>5. QED
    BY <1>1, <1>2, <1>3, <1>4 DEF StreamNext, PortalNext

(* A browser and a portal customer miss no change that they could see all  *)
(* the time, whatever connections, batches, resets and lost answers come   *)
(* between, for every number of browsers and events and every size of a    *)
(* batch (GET in src/app/api/realtime/route.ts and its portal twin).       *)
THEOREM StreamsMissNothing == ASSUME NEW requests PROVE StreamSpec(requests) => []NothingMissed
  <1>1. StreamInit => StreamInv
    BY StreamInitKeeps
  <1>2. StreamInv /\ [StreamNext \/ PortalNext]_streamState => StreamInv'
    BY StreamStepKeeps
  <1>3. StreamInv => NothingMissed
    BY StreamInvImplies
  <1>4. QED
    BY <1>1, <1>2, <1>3, PTL DEF StreamSpec
-----------------------------------------------------------------------------
(* The page of a project.                                                  *)

screenState == <<handlers, screenVars>>

ScreenSpec(requests) == ScreenInit /\ HandlersInit(requests) /\ [][ScreenNext]_screenState

PanelShape == [issue : IssueCard, base : Nat, renewed : BOOLEAN, saving : Handler \cup {None}]

MoveRequest == [op : {"move"}, previous : IssueCard]
SaveRequest == [op : {"save"}, previous : IssueCard, seen : Nat \cup {None}]
PageAnswer  == [op : {"answer"}, field : {"status", "details"}, previous : IssueCard,
                issue : IssueRow \cup {None}]
PageRequest == MoveRequest \cup SaveRequest \cup PageAnswer \cup {Idle}

ScreenTypeOK ==
  /\ row \in IssueRow \cup {None}
  /\ news \in Nat
  /\ fetched \in Seq(IssueRow \cup {None})
  /\ list \in IssueCard \cup {None}
  /\ panel \in PanelShape \cup {None}
  /\ older \in BOOLEAN /\ unseen \in BOOLEAN
  /\ at \in [Handler -> PageRequest]

\* An answer is the row as it is or was; what the page shows is one, up to a move.
WasRow(x) == x.version <= row.version /\ (x.version = row.version => x = row)
WasShown(x) ==
  /\ x.version <= row.version
  /\ x.version = row.version => x.details = row.details /\ (x = row \/ x.status \in Handler)

SnapshotsPast ==
  row # None =>
    /\ \A i \in 1..Len(fetched) : fetched[i] # None /\ WasRow(fetched[i])
    /\ list # None => WasShown(list)
    /\ \A h \in Handler : at[h] # Idle => WasShown(at[h].previous)
    /\ \A h \in Handler : Busy(h, "answer") /\ at[h].issue # None => WasRow(at[h].issue)

\* The present row is on its way: it will be asked for, or is in an answer.
ComingUp == news > 0 \/ \E i \in 1..Len(fetched) : fetched[i] = row

MoveUnderWay == \E h \in Handler : Busy(h, "move") \/ (Busy(h, "answer") /\ at[h].field = "status")

\* Otherwise the list has the row, up to moves that have not come to an end.
UpToDate == list # None /\ list.version = row.version /\ (list = row \/ MoveUnderWay)

\* The draft of a panel that was not renewed was begun with the details of the list.
DraftsFit ==
  /\ panel # None /\ list # None /\ ~panel.renewed => panel.base = list.details
  /\ \A h \in Handler : Busy(h, "save") => at[h].seen \in {None, at[h].previous.details}

ScreenInv ==
  /\ ScreenTypeOK /\ SnapshotsPast /\ DraftsFit /\ ~unseen
  /\ row # None => older \/ ComingUp \/ UpToDate

LEMMA CardRows ==
    /\ IssueRow \subseteq IssueCard
    /\ None \notin IssueRow
  BY ScreenAssumption DEF IssueRow, IssueCard

LEMMA RequestShapes ==
    ASSUME ScreenTypeOK, NEW h \in Handler
    PROVE  /\ at[h] # Idle => at[h].previous \in IssueCard
           /\ Busy(h, "move") => at[h] \in MoveRequest
           /\ Busy(h, "save") => at[h] \in SaveRequest
           /\ Busy(h, "answer") => at[h] \in PageAnswer
  <1>1. at[h] \in PageRequest
    BY DEF ScreenTypeOK
  <1>2. /\ \A r \in MoveRequest : r.op = "move" /\ r.previous \in IssueCard
        /\ \A r \in SaveRequest : r.op = "save" /\ r.previous \in IssueCard
        /\ \A r \in PageAnswer : r.op = "answer" /\ r.previous \in IssueCard
        /\ Idle.op = "idle"
    BY DEF MoveRequest, SaveRequest, PageAnswer, Idle
  <1>3. QED
    BY <1>1, <1>2 DEF PageRequest, Busy

\* Taking an answer away leaves the others.
LEMMA OtherAnswers ==
    ASSUME ScreenTypeOK, NEW i \in 1..Len(fetched), fetched' = WithoutAnswer(i)
    PROVE  /\ fetched' \in Seq(IssueRow \cup {None})
           /\ \A k \in 1..Len(fetched') : \E j \in 1..Len(fetched) : fetched'[k] = fetched[j]
           /\ \A j \in 1..Len(fetched) : j # i => \E k \in 1..Len(fetched') : fetched'[k] = fetched[j]
  <1>1. PICK n \in Nat : n = Len(fetched) /\ i \in 1..n
    BY DEF ScreenTypeOK
  <1>2. fetched' = [j \in 1..(n - 1) |-> fetched[IF j < i THEN j ELSE j + 1]]
    BY <1>1 DEF WithoutAnswer
  <1>3. \A j \in 1..(n - 1) : (IF j < i THEN j ELSE j + 1) \in 1..n
    BY <1>1
  <1>4. \A j \in 1..n : fetched[j] \in IssueRow \cup {None}
    BY <1>1 DEF ScreenTypeOK
  <1>5. fetched' \in [1..(n - 1) -> IssueRow \cup {None}]
    BY <1>2, <1>3, <1>4
  <1>6. n - 1 \in Nat
    BY <1>1
  <1>7. fetched' \in Seq(IssueRow \cup {None}) /\ Len(fetched') = n - 1
    BY <1>5, <1>6
  <1>8. \A k \in 1..(n - 1) : \E j \in 1..n : fetched'[k] = fetched[j]
    BY <1>2, <1>3
  <1>9. ASSUME NEW j \in 1..n, j # i
        PROVE  \E k \in 1..(n - 1) : fetched'[k] = fetched[j]
    <2>1. CASE j < i
      <3>1. j \in 1..(n - 1) /\ fetched'[j] = fetched[j]
        BY <1>1, <1>2, <2>1
      <3>2. QED
        BY <3>1
    <2>2. CASE i < j
      <3>1. j - 1 \in 1..(n - 1) /\ ~(j - 1 < i) /\ (j - 1) + 1 = j
        BY <1>1, <2>2
      <3>2. fetched'[j - 1] = fetched[j]
        BY <1>2, <3>1
      <3>3. QED
        BY <3>1, <3>2
    <2>3. QED
      BY <1>1, <1>9, <2>1, <2>2
  <1>10. QED
    BY <1>1, <1>7, <1>8, <1>9

LEMMA ScreenInitKeeps ==
    ASSUME NEW requests, ScreenInit, HandlersInit(requests)
    PROVE  ScreenInv
  <1>1. First \in IssueRow
    BY DEF First, IssueRow
  <1>2. row = First /\ fetched = <<First>> /\ list = None /\ panel = None /\ news = 0 /\ ~older /\ ~unseen
    BY DEF ScreenInit
  <1>3. Len(fetched) = 1 /\ fetched[1] = row /\ fetched \in Seq(IssueRow \cup {None})
    BY <1>1, <1>2
  <1>4. \A h \in Handler : at[h] = Idle /\ ~Busy(h, "answer") /\ ~Busy(h, "save")
    BY DEF HandlersInit, Busy, Idle
  <1>5. ScreenTypeOK
    <2>1. at \in [Handler -> PageRequest]
      BY DEF HandlersInit, PageRequest
    <2>2. row \in IssueRow \cup {None} /\ list \in IssueCard \cup {None} /\ panel \in PanelShape \cup {None}
      BY <1>1, <1>2
    <2>3. news \in Nat /\ older \in BOOLEAN /\ unseen \in BOOLEAN
      BY DEF ScreenInit
    <2>4. QED
      BY <1>3, <2>1, <2>2, <2>3 DEF ScreenTypeOK
  <1>6. SnapshotsPast
    <2>1. WasRow(row)
      BY <1>1, <1>2 DEF WasRow, IssueRow
    <2>2. QED
      BY <1>2, <1>3, <1>4, <2>1 DEF SnapshotsPast
  <1>7. DraftsFit
    BY <1>2, <1>4 DEF DraftsFit
  <1>8. ComingUp
    BY <1>3 DEF ComingUp
  <1>9. QED
    BY <1>2, <1>5, <1>6, <1>7, <1>8 DEF ScreenInv

\* A write makes a row of the next version, and tells the page of it.
LEMMA SavedRow ==
    ASSUME ScreenTypeOK, row # None, NEW field \in {"details", "status"}
    PROVE  /\ Saved(field) \in IssueRow
           /\ Saved(field).version = row.version + 1
           /\ Told(field) \in Nat /\ Told(field) > 0
  <1>1. PICK r \in IssueRow : r = row
    BY DEF ScreenTypeOK
  <1>2. r.version \in Nat /\ r.version + 1 \in Nat
    BY DEF IssueRow
  <1>3. /\ [r EXCEPT !.version = r.version + 1, !.details = r.version + 1] \in IssueRow
        /\ [r EXCEPT !.version = r.version + 1, !.details = r.version + 1].version = r.version + 1
    BY <1>2 DEF IssueRow
  <1>4. /\ [r EXCEPT !.version = r.version + 1, !.status = r.version + 1] \in IssueRow
        /\ [r EXCEPT !.version = r.version + 1, !.status = r.version + 1].version = r.version + 1
    BY <1>2 DEF IssueRow
  <1>5. Saved(field) = [r EXCEPT !.version = r.version + 1, ![field] = r.version + 1]
    BY <1>1 DEF Saved
  <1>6. Saved(field) \in IssueRow /\ Saved(field).version = row.version + 1
    <2>1. CASE field = "details"
      BY <1>1, <1>3, <1>5, <2>1
    <2>2. CASE field = "status"
      BY <1>1, <1>4, <1>5, <2>2
    <2>3. QED
      BY <2>1, <2>2
  <1>7. EventOf(field) \in Listeners
    BY DEF EventOf, Listeners
  <1>8. Told(field) = news + 1 /\ news \in Nat
    BY <1>7 DEF Told, ScreenTypeOK
  <1>9. QED
    BY <1>6, <1>8

\* What was the row before a write is older than the row.
LEMMA PastAfterWrite ==
    ASSUME ScreenTypeOK, row # None, row' \in IssueRow, row'.version = row.version + 1
    PROVE  /\ \A x \in IssueRow : WasRow(x) => WasRow(x)'
           /\ \A x \in IssueCard : WasShown(x) => WasShown(x)'
  <1>1. row.version \in Nat
    BY DEF ScreenTypeOK, IssueRow
  <1>2. \A x \in IssueCard : x.version \in Nat /\ (x.version <= row.version =>
            x.version <= row'.version /\ x.version # row'.version)
    BY <1>1 DEF IssueCard
  <1>3. QED
    BY <1>2, CardRows DEF WasRow, WasShown

\* A write: what is shown stays, and the row is on its way.
LEMMA ScreenWrites ==
    ASSUME ScreenInv, row # None, NEW field \in {"details", "status"},
           row' = Saved(field), news' = Told(field), UNCHANGED <<fetched, list, panel, older>>,
           unseen' \in BOOLEAN, ~unseen', at' \in [Handler -> PageRequest],
           \A h \in Handler : at'[h] # Idle =>
               at[h] # Idle /\ at'[h].previous = at[h].previous,
           \A h \in Handler : Busy(h, "answer")' /\ at'[h].issue # None =>
               \/ Busy(h, "answer") /\ at'[h].issue = at[h].issue
               \/ at'[h].issue = row',
           \A h \in Handler : Busy(h, "save")' => Busy(h, "save") /\ at'[h] = at[h]
    PROVE  ScreenInv'
  <1>1. ScreenTypeOK /\ SnapshotsPast /\ DraftsFit
    BY DEF ScreenInv
  <1>2. row' \in IssueRow /\ row'.version = row.version + 1 /\ news' \in Nat /\ news' > 0
    BY <1>1, SavedRow
  <1>3. ScreenTypeOK'
    BY <1>1, <1>2 DEF ScreenTypeOK, ScreenInv
  <1>4. /\ \A x \in IssueRow : WasRow(x) => WasRow(x)'
        /\ \A x \in IssueCard : WasShown(x) => WasShown(x)'
    BY <1>1, <1>2, PastAfterWrite
  <1>5. WasRow(row)' /\ row' # None
    BY <1>2, CardRows DEF WasRow, IssueRow
  <1>6. \A i \in 1..Len(fetched') : fetched'[i] # None /\ WasRow(fetched[i])'
    <2> TAKE i \in 1..Len(fetched')
    <2>1. i \in 1..Len(fetched) /\ fetched'[i] = fetched[i] /\ fetched[i] # None /\ WasRow(fetched[i])
      BY <1>1 DEF SnapshotsPast
    <2>2. fetched[i] \in IssueRow
      BY <1>1, <2>1 DEF ScreenTypeOK
    <2>3. PICK x \in IssueRow : x = fetched[i]
      BY <2>2
    <2>4. WasRow(x)'
      BY <1>4, <2>1, <2>3
    <2>5. QED
      BY <2>1, <2>3, <2>4 DEF WasRow
  <1>7. list' # None => WasShown(list)'
    <2> SUFFICES ASSUME list' # None PROVE WasShown(list)'
      OBVIOUS
    <2>1. PICK x \in IssueCard : x = list /\ WasShown(x)
      BY <1>1 DEF SnapshotsPast, ScreenTypeOK
    <2>2. WasShown(x)'
      BY <1>4, <2>1
    <2>3. QED
      BY <2>1, <2>2 DEF WasShown
  <1>8. \A h \in Handler : at'[h] # Idle => WasShown(at[h].previous)'
    <2> SUFFICES ASSUME NEW h \in Handler, at'[h] # Idle PROVE WasShown(at[h].previous)'
      OBVIOUS
    <2>1. at[h] # Idle /\ at'[h].previous = at[h].previous
      OBVIOUS
    <2>2. PICK x \in IssueCard : x = at[h].previous /\ WasShown(x)
      BY <1>1, <2>1, RequestShapes DEF SnapshotsPast
    <2>3. WasShown(x)'
      BY <1>4, <2>2
    <2>4. QED
      BY <2>1, <2>2, <2>3 DEF WasShown
  <1>9. \A h \in Handler : Busy(h, "answer")' /\ at'[h].issue # None => WasRow(at[h].issue)'
    <2> SUFFICES ASSUME NEW h \in Handler, Busy(h, "answer")', at'[h].issue # None PROVE WasRow(at[h].issue)'
      OBVIOUS
    <2>1. CASE Busy(h, "answer") /\ at'[h].issue = at[h].issue
      <3>1. PICK x \in IssueRow : x = at[h].issue /\ WasRow(x)
        BY <1>1, <2>1, RequestShapes DEF SnapshotsPast, PageAnswer
      <3>2. WasRow(x)'
        BY <1>4, <3>1
      <3>3. QED
        BY <2>1, <3>1, <3>2 DEF WasRow
    <2>2. CASE at'[h].issue = row'
      BY <1>5, <2>2 DEF WasRow
    <2>3. QED
      BY <2>1, <2>2
  <1>10. SnapshotsPast'
    BY <1>6, <1>7, <1>8, <1>9 DEF SnapshotsPast
  <1>11. DraftsFit'
    BY <1>1 DEF DraftsFit, Busy
  <1>12. ComingUp'
    BY <1>2 DEF ComingUp
  <1>13. QED
    BY <1>3, <1>10, <1>11, <1>12 DEF ScreenInv

LEMMA OtherWritesKeeps ==
    ASSUME ScreenInv, OtherWrites
    PROVE  ScreenInv'
  <1>1. PICK field \in {"details", "status"} :
            row # None /\ row' = Saved(field) /\ news' = Told(field)
            /\ UNCHANGED <<at, fetched, list, panel, older, unseen>>
    BY DEF OtherWrites, InOneStep
  <1>2. at' \in [Handler -> PageRequest] /\ unseen' \in BOOLEAN /\ ~unseen'
    BY <1>1 DEF ScreenInv, ScreenTypeOK
  <1>3. \A h \in Handler : at'[h] = at[h] /\ \A op : Busy(h, op)' <=> Busy(h, op)
    BY <1>1 DEF Busy
  <1>4. QED
    BY <1>1, <1>2, <1>3, ScreenWrites

\* An archived issue is not listed, and nothing is said of it.
LEMMA GoneKeeps ==
    ASSUME ScreenTypeOK', row' = None, DraftsFit', ~unseen'
    PROVE  ScreenInv'
  BY DEF ScreenInv, SnapshotsPast

LEMMA OtherArchivesKeeps ==
    ASSUME ScreenInv, OtherArchives
    PROVE  ScreenInv'
  <1>1. row' = None /\ UNCHANGED <<at, news, fetched, list, panel, older, unseen>>
    BY DEF OtherArchives, InOneStep
  <1>2. ScreenTypeOK' /\ DraftsFit' /\ ~unseen'
    BY <1>1 DEF ScreenInv, ScreenTypeOK, DraftsFit, Busy
  <1>3. QED
    BY <1>1, <1>2, GoneKeeps

LEMMA RefreshKeeps ==
    ASSUME ScreenInv, Refresh
    PROVE  ScreenInv'
  <1>1. ScreenTypeOK /\ SnapshotsPast /\ DraftsFit
    BY DEF ScreenInv
  <1>2. /\ news > 0 /\ news' = news - 1 /\ fetched' = Append(fetched, row)
        /\ UNCHANGED <<at, row, list, panel, older, unseen>>
    BY DEF Refresh, Served, handlers
  <1>3. /\ fetched' \in Seq(IssueRow \cup {None}) /\ Len(fetched') = Len(fetched) + 1 /\ Len(fetched) \in Nat
        /\ fetched'[Len(fetched) + 1] = row
        /\ \A i \in 1..Len(fetched) : fetched'[i] = fetched[i]
    BY <1>1, <1>2 DEF ScreenTypeOK
  <1>4. ScreenTypeOK'
    BY <1>1, <1>2, <1>3 DEF ScreenTypeOK
  <1>5. DraftsFit' /\ ~unseen'
    BY <1>2 DEF ScreenInv, DraftsFit, Busy
  <1>6. ComingUp'
    BY <1>2, <1>3 DEF ComingUp
  <1>7. CASE row = None
    BY <1>2, <1>4, <1>5, <1>7, GoneKeeps
  <1>8. CASE row # None
    <2>1. WasRow(row)
      BY <1>1, <1>8 DEF WasRow, ScreenTypeOK, IssueRow
    <2>2. \A i \in 1..Len(fetched') : fetched'[i] # None /\ WasRow(fetched'[i])
      <3> TAKE i \in 1..Len(fetched')
      <3>1. CASE i = Len(fetched) + 1
        BY <1>3, <1>8, <2>1, <3>1
      <3>2. CASE i # Len(fetched) + 1
        <4>1. i \in 1..Len(fetched)
          BY <1>3, <3>2
        <4>2. QED
          BY <1>1, <1>3, <1>8, <4>1 DEF SnapshotsPast
      <3>3. QED
        BY <3>1, <3>2
    <2>3. SnapshotsPast'
      BY <1>1, <1>2, <2>2 DEF SnapshotsPast, WasRow, WasShown, Busy
    <2>4. QED
      BY <1>4, <1>5, <1>6, <2>3 DEF ScreenInv
  <1>9. QED
    BY <1>7, <1>8

\* A step that does not write: what it shows was the row, and unless the row is on its way
\* the list is right or known to be older.
LEMMA ScreenAside ==
    ASSUME ScreenInv, UNCHANGED <<row, news, fetched, unseen>>, ScreenTypeOK', DraftsFit',
           row # None /\ list' # None => WasShown(list'),
           row # None => \A h \in Handler : at'[h] # Idle => WasShown(at'[h].previous),
           row # None => \A h \in Handler : Busy(h, "answer")' /\ at'[h].issue # None => WasRow(at'[h].issue),
           row # None /\ ~ComingUp /\ ~older' => UpToDate'
    PROVE  ScreenInv'
  <1>1. SnapshotsPast'
    <2> SUFFICES ASSUME row # None PROVE SnapshotsPast'
      BY DEF SnapshotsPast
    <2>1. \A i \in 1..Len(fetched') : fetched'[i] # None /\ WasRow(fetched[i])'
      BY DEF ScreenInv, SnapshotsPast, WasRow
    <2>2. list' # None => WasShown(list)'
      BY DEF WasShown
    <2>3. \A h \in Handler : at'[h] # Idle => WasShown(at[h].previous)'
      BY DEF WasShown
    <2>4. \A h \in Handler : Busy(h, "answer")' /\ at'[h].issue # None => WasRow(at[h].issue)'
      BY DEF WasRow
    <2>5. QED
      BY <2>1, <2>2, <2>3, <2>4 DEF SnapshotsPast
  <1>2. ComingUp => ComingUp'
    BY DEF ComingUp
  <1>3. row' # None => older' \/ ComingUp' \/ UpToDate'
    BY <1>2
  <1>4. QED
    BY <1>1, <1>3 DEF ScreenInv

\* What a step may make of the panel.
LEMMA PanelForms ==
    ASSUME NEW p \in PanelShape
    PROVE  /\ \A b \in BOOLEAN :
                /\ [p EXCEPT !.renewed = b] \in PanelShape
                /\ [p EXCEPT !.renewed = b].base = p.base /\ ([p EXCEPT !.renewed = b].renewed <=> b)
           /\ \A h \in Handler \cup {None} :
                /\ [p EXCEPT !.saving = h] \in PanelShape
                /\ [p EXCEPT !.saving = h].base = p.base
                /\ ([p EXCEPT !.saving = h].renewed <=> p.renewed)
           /\ \A c \in IssueCard :
                /\ [p EXCEPT !.issue = c, !.renewed = TRUE] \in PanelShape
                /\ [p EXCEPT !.issue = c, !.renewed = TRUE].renewed
                /\ [issue |-> c, base |-> c.details, renewed |-> FALSE, saving |-> None] \in PanelShape
                /\ [issue |-> c, base |-> c.details, renewed |-> FALSE, saving |-> None].base = c.details
                /\ [p EXCEPT !.issue = c] \in PanelShape
                /\ [p EXCEPT !.issue = c].base = p.base
                /\ ([p EXCEPT !.issue = c].renewed <=> p.renewed)
  <1>1. ASSUME NEW b \in BOOLEAN
        PROVE  /\ [p EXCEPT !.renewed = b] \in PanelShape
               /\ [p EXCEPT !.renewed = b].base = p.base /\ ([p EXCEPT !.renewed = b].renewed <=> b)
    BY DEF PanelShape
  <1>2. ASSUME NEW h \in Handler \cup {None}
        PROVE  /\ [p EXCEPT !.saving = h] \in PanelShape
               /\ [p EXCEPT !.saving = h].base = p.base
               /\ ([p EXCEPT !.saving = h].renewed <=> p.renewed)
    BY DEF PanelShape
  <1>3. ASSUME NEW c \in IssueCard
        PROVE  /\ [p EXCEPT !.issue = c, !.renewed = TRUE] \in PanelShape
               /\ [p EXCEPT !.issue = c, !.renewed = TRUE].renewed
    BY DEF PanelShape
  <1>4. ASSUME NEW c \in IssueCard
        PROVE  /\ [issue |-> c, base |-> c.details, renewed |-> FALSE, saving |-> None] \in PanelShape
               /\ [issue |-> c, base |-> c.details, renewed |-> FALSE, saving |-> None].base = c.details
    BY DEF PanelShape, IssueCard
  <1>5. ASSUME NEW c \in IssueCard
        PROVE  /\ [p EXCEPT !.issue = c] \in PanelShape
               /\ [p EXCEPT !.issue = c].base = p.base
               /\ ([p EXCEPT !.issue = c].renewed <=> p.renewed)
    BY DEF PanelShape
  <1>6. QED
    BY <1>1, <1>2, <1>3, <1>4, <1>5

\* An answer is shown: the present row settles the list, and one that is not older than
\* an up to date list is the present row.
LEMMA DeliverKeeps ==
    ASSUME ScreenInv, NEW i \in 1..Len(fetched), Deliver(i)
    PROVE  ScreenInv'
  <1>1. ScreenTypeOK /\ SnapshotsPast /\ DraftsFit
    BY DEF ScreenInv
  <1>2. PICK shown \in IssueRow \cup {None} : shown = fetched[i]
    BY <1>1 DEF ScreenTypeOK
  <1>3. /\ UNCHANGED <<at, row, news, unseen>> /\ fetched' = WithoutAnswer(i) /\ list' = shown
        /\ older' = IF shown = row THEN FALSE
                    ELSE older \/ shown = None \/ (list # None /\ shown.version < list.version)
                               \/ (shown # None /\ shown.status \in Handler)
        /\ panel' = IF panel = None THEN None ELSE [panel EXCEPT !.renewed = panel.renewed \/ shown # list]
    BY <1>2 DEF Deliver, Install, handlers
  <1>4. /\ fetched' \in Seq(IssueRow \cup {None})
        /\ \A k \in 1..Len(fetched') : \E j \in 1..Len(fetched) : fetched'[k] = fetched[j]
        /\ \A j \in 1..Len(fetched) : j # i => \E k \in 1..Len(fetched') : fetched'[k] = fetched[j]
    BY <1>1, <1>3, OtherAnswers
  <1>5. /\ panel' \in PanelShape \cup {None}
        /\ panel' # None /\ list' # None /\ ~panel'.renewed => panel'.base = list'.details
    <2>1. CASE panel = None
      BY <1>3, <2>1
    <2>2. CASE panel # None
      <3>1. PICK p \in PanelShape : p = panel
        BY <1>1, <2>2 DEF ScreenTypeOK
      <3>2. PICK b \in BOOLEAN : b <=> (p.renewed \/ shown # list)
        OBVIOUS
      <3>3. (p.renewed \/ shown # list) \in BOOLEAN
        OBVIOUS
      <3>4. panel' = [p EXCEPT !.renewed = b]
        BY <1>3, <2>2, <3>1, <3>2, <3>3
      <3>5. panel' \in PanelShape /\ panel'.base = p.base /\ (panel'.renewed <=> b)
        BY <3>4, PanelForms
      <3>6. ~panel'.renewed => ~panel.renewed /\ shown = list
        BY <3>1, <3>2, <3>5
      <3>7. QED
        BY <1>1, <1>3, <2>2, <3>1, <3>5, <3>6 DEF DraftsFit
    <2>3. QED
      BY <2>1, <2>2
  <1>6. older' \in BOOLEAN
    BY <1>1, <1>3 DEF ScreenTypeOK
  <1>7. ScreenTypeOK'
    BY <1>1, <1>3, <1>4, <1>5, <1>6, CardRows DEF ScreenTypeOK
  <1>8. DraftsFit' /\ ~unseen'
    BY <1>1, <1>3, <1>5 DEF ScreenInv, DraftsFit, Busy
  <1>9. CASE row = None
    BY <1>3, <1>7, <1>8, <1>9, GoneKeeps
  <1>10. CASE row # None
    <2>1. shown # None /\ WasRow(shown) /\ shown \in IssueRow /\ row \in IssueRow
      BY <1>1, <1>2, <1>10 DEF SnapshotsPast, ScreenTypeOK
    <2>2. WasShown(shown)
      BY <2>1 DEF WasRow, WasShown
    <2>3. \A k \in 1..Len(fetched') : fetched'[k] # None /\ WasRow(fetched[k])'
      <3> TAKE k \in 1..Len(fetched')
      <3>1. PICK j \in 1..Len(fetched) : fetched'[k] = fetched[j]
        BY <1>4
      <3>2. QED
        BY <1>1, <1>3, <1>10, <3>1 DEF SnapshotsPast, WasRow
    <2>4. SnapshotsPast'
      BY <1>1, <1>3, <1>10, <2>2, <2>3 DEF SnapshotsPast, WasRow, WasShown, Busy
    <2>5. older' \/ ComingUp' \/ UpToDate'
      <3>1. CASE shown = row
        BY <1>3, <2>1, <3>1 DEF UpToDate
      <3>2. CASE shown # row /\ ComingUp
        <4>1. CASE news > 0
          BY <1>3, <4>1 DEF ComingUp
        <4>2. CASE \E j \in 1..Len(fetched) : fetched[j] = row
          <5>1. PICK j \in 1..Len(fetched) : fetched[j] = row
            BY <4>2
          <5>2. j # i
            BY <1>2, <3>2, <5>1
          <5>3. \E k \in 1..Len(fetched') : fetched'[k] = row'
            BY <1>3, <1>4, <5>1, <5>2
          <5>4. QED
            BY <5>3 DEF ComingUp
        <4>3. QED
          BY <3>2, <4>1, <4>2 DEF ComingUp
      <3>3. CASE shown # row /\ ~ComingUp
        <4>1. older \/ UpToDate
          BY <1>10, <3>3 DEF ScreenInv
        <4>2. UpToDate => shown.version < list.version /\ list # None
          BY <2>1, <3>3 DEF UpToDate, WasRow, IssueRow
        <4>3. QED
          BY <1>3, <3>3, <4>1, <4>2
      <3>4. QED
        BY <3>1, <3>2, <3>3
    <2>6. QED
      BY <1>7, <1>8, <2>4, <2>5 DEF ScreenInv
  <1>11. QED
    BY <1>9, <1>10

LEMMA LoseAnswerKeeps ==
    ASSUME ScreenInv, NEW i \in 1..Len(fetched), LoseAnswer(i)
    PROVE  ScreenInv'
  <1>1. ScreenTypeOK /\ SnapshotsPast /\ DraftsFit
    BY DEF ScreenInv
  <1>2. /\ UNCHANGED <<at, row, news, list, panel, unseen>> /\ fetched' = WithoutAnswer(i)
        /\ older' = (older \/ list # row)
    BY DEF LoseAnswer, handlers
  <1>3. /\ fetched' \in Seq(IssueRow \cup {None})
        /\ \A k \in 1..Len(fetched') : \E j \in 1..Len(fetched) : fetched'[k] = fetched[j]
    BY <1>1, <1>2, OtherAnswers
  <1>4. ScreenTypeOK' /\ DraftsFit' /\ ~unseen'
    BY <1>1, <1>2, <1>3 DEF ScreenInv, ScreenTypeOK, DraftsFit, Busy
  <1>5. CASE row = None
    BY <1>2, <1>4, <1>5, GoneKeeps
  <1>6. CASE row # None
    <2>1. \A k \in 1..Len(fetched') : fetched'[k] # None /\ WasRow(fetched[k])'
      <3> TAKE k \in 1..Len(fetched')
      <3>1. PICK j \in 1..Len(fetched) : fetched'[k] = fetched[j]
        BY <1>3
      <3>2. QED
        BY <1>1, <1>2, <1>6, <3>1 DEF SnapshotsPast, WasRow
    <2>2. SnapshotsPast'
      BY <1>1, <1>2, <1>6, <2>1 DEF SnapshotsPast, WasRow, WasShown, Busy
    <2>3. older' \/ UpToDate'
      BY <1>2, <1>6 DEF UpToDate
    <2>4. QED
      BY <1>4, <2>2, <2>3 DEF ScreenInv
  <1>7. QED
    BY <1>5, <1>6

LEMMA PanelKeeps ==
    ASSUME ScreenInv, OpenPanel \/ ClosePanel
    PROVE  ScreenInv'
  <1>1. ScreenTypeOK /\ SnapshotsPast /\ DraftsFit
    BY DEF ScreenInv
  <1>2. UNCHANGED <<at, row, news, fetched, list, older, unseen>>
    BY DEF OpenPanel, ClosePanel, handlers
  <1>3. /\ panel' \in PanelShape \cup {None}
        /\ panel' # None /\ list # None => panel'.base = list.details
    <2>1. CASE OpenPanel
      <3>1. PICK c \in IssueCard : c = list
        BY <1>1, <2>1 DEF OpenPanel, ScreenTypeOK
      <3>2. /\ [issue |-> c, base |-> c.details, renewed |-> FALSE, saving |-> None] \in PanelShape
            /\ [issue |-> c, base |-> c.details, renewed |-> FALSE, saving |-> None].base = c.details
        BY DEF PanelShape, IssueCard
      <3>3. QED
        BY <2>1, <3>1, <3>2 DEF OpenPanel
    <2>2. CASE ClosePanel
      BY <2>2 DEF ClosePanel
    <2>3. QED
      BY <2>1, <2>2
  <1>4. ScreenTypeOK' /\ DraftsFit'
    BY <1>1, <1>2, <1>3 DEF ScreenTypeOK, DraftsFit, Busy
  <1>5. MoveUnderWay' <=> MoveUnderWay
    BY <1>2 DEF MoveUnderWay, Busy
  <1>6. row # None /\ ~ComingUp /\ ~older' => UpToDate'
    BY <1>2, <1>5 DEF ScreenInv, UpToDate
  <1>7. QED
    BY <1>1, <1>2, <1>4, <1>6, ScreenAside DEF SnapshotsPast, Busy

LEMMA BeginMoveKeeps ==
    ASSUME ScreenInv, NEW h \in Handler, BeginMove(h)
    PROVE  ScreenInv'
  <1>1. ScreenTypeOK /\ SnapshotsPast /\ DraftsFit
    BY DEF ScreenInv
  <1>2. PICK c \in IssueCard : c = list
    BY <1>1 DEF BeginMove, ScreenTypeOK
  <1>3. PICK d \in IssueCard : d = [c EXCEPT !.status = h] /\ d.version = c.version /\ d.details = c.details /\ d.status = h
    <2>1. /\ [c EXCEPT !.status = h] \in IssueCard
          /\ [c EXCEPT !.status = h].version = c.version /\ [c EXCEPT !.status = h].details = c.details
          /\ [c EXCEPT !.status = h].status = h
      BY DEF IssueCard
    <2>2. QED
      BY <2>1, Zenon
  <1>4. PICK r \in MoveRequest : r = [op |-> "move", previous |-> c] /\ r.op = "move" /\ r.previous = c
    <2>1. /\ [op |-> "move", previous |-> c] \in MoveRequest
          /\ [op |-> "move", previous |-> c].op = "move" /\ [op |-> "move", previous |-> c].previous = c
      BY DEF MoveRequest
    <2>2. QED
      BY <2>1, Zenon
  <1>5. /\ UNCHANGED <<row, news, fetched, older, unseen>> /\ list' = d /\ list # None
        /\ at' = [at EXCEPT ![h] = r] /\ at[h] = Idle
    BY <1>2, <1>3, <1>4 DEF BeginMove, Enter
  <1>6. at'[h] = r /\ (\A g \in Handler : g # h => at'[g] = at[g]) /\ at' \in [Handler -> PageRequest]
    BY <1>1, <1>5 DEF ScreenTypeOK, PageRequest
  <1>7. /\ panel' \in PanelShape \cup {None}
        /\ panel' # None /\ ~panel'.renewed => panel # None /\ ~panel.renewed /\ panel'.base = panel.base
    <2>1. CASE panel = None
      BY <2>1 DEF BeginMove
    <2>2. CASE panel # None
      <3>1. PICK p \in PanelShape : p = panel
        BY <1>1, <2>2 DEF ScreenTypeOK
      <3>2. [p.issue EXCEPT !.status = h] \in IssueCard
        BY DEF PanelShape, IssueCard
      <3>3. panel' = [p EXCEPT !.issue = [p.issue EXCEPT !.status = h]]
        BY <2>2, <3>1 DEF BeginMove
      <3>4. panel' \in PanelShape /\ panel'.base = p.base /\ (panel'.renewed <=> p.renewed)
        BY <3>2, <3>3, PanelForms
      <3>5. QED
        BY <2>2, <3>1, <3>4
    <2>3. QED
      BY <2>1, <2>2
  <1>8. ScreenTypeOK'
    BY <1>1, <1>5, <1>6, <1>7 DEF ScreenTypeOK
  <1>9. \A g \in Handler : (Busy(g, "save")' => Busy(g, "save") /\ g # h) /\ (Busy(g, "answer")' => Busy(g, "answer") /\ g # h)
    BY <1>4, <1>6 DEF Busy
  <1>10. DraftsFit'
    BY <1>1, <1>2, <1>3, <1>5, <1>6, <1>7, <1>9 DEF DraftsFit
  <1>11. row # None => WasShown(d) /\ WasShown(c)
    BY <1>1, <1>2, <1>3, <1>5 DEF SnapshotsPast, WasShown
  <1>12. row # None => \A g \in Handler : at'[g] # Idle => WasShown(at'[g].previous)
    BY <1>1, <1>4, <1>6, <1>11 DEF SnapshotsPast
  <1>13. row # None => \A g \in Handler : Busy(g, "answer")' /\ at'[g].issue # None => WasRow(at'[g].issue)
    BY <1>1, <1>6, <1>9 DEF SnapshotsPast
  <1>14. MoveUnderWay'
    BY <1>4, <1>6 DEF MoveUnderWay, Busy
  <1>15. row # None /\ ~ComingUp /\ ~older' => UpToDate'
    BY <1>2, <1>3, <1>5, <1>14, ScreenAssumption DEF ScreenInv, UpToDate
  <1>16. QED
    BY <1>5, <1>8, <1>10, <1>11, <1>12, <1>13, <1>15, ScreenAside

LEMMA BeginSaveDetailsKeeps ==
    ASSUME ScreenInv, NEW h \in Handler, BeginSaveDetails(h)
    PROVE  ScreenInv'
  <1>1. ScreenTypeOK /\ SnapshotsPast /\ DraftsFit
    BY DEF ScreenInv
  <1>2. PICK c \in IssueCard : c = list
    BY <1>1 DEF BeginSaveDetails, ScreenTypeOK
  <1>3. PICK p \in PanelShape : p = panel
    BY <1>1 DEF BeginSaveDetails, ScreenTypeOK
  <1>4. PICK seen \in Nat \cup {None} : seen = IF p.renewed THEN None ELSE p.base
    BY DEF PanelShape
  <1>5. PICK r \in SaveRequest :
            /\ r = [op |-> "save", previous |-> c, seen |-> seen]
            /\ r.op = "save" /\ r.previous = c /\ r.seen = seen
    <2>1. /\ [op |-> "save", previous |-> c, seen |-> seen] \in SaveRequest
          /\ [op |-> "save", previous |-> c, seen |-> seen].op = "save"
          /\ [op |-> "save", previous |-> c, seen |-> seen].previous = c
          /\ [op |-> "save", previous |-> c, seen |-> seen].seen = seen
      BY DEF SaveRequest
    <2>2. QED
      BY <2>1, Zenon
  <1>6. /\ UNCHANGED <<row, news, fetched, list, older, unseen>> /\ list # None /\ panel # None
        /\ at' = [at EXCEPT ![h] = r] /\ at[h] = Idle /\ panel' = [p EXCEPT !.saving = h]
    BY <1>2, <1>3, <1>4, <1>5 DEF BeginSaveDetails, Enter
  <1>7. at'[h] = r /\ (\A g \in Handler : g # h => at'[g] = at[g]) /\ at' \in [Handler -> PageRequest]
    BY <1>1, <1>6 DEF ScreenTypeOK, PageRequest
  <1>8. panel' \in PanelShape /\ panel'.base = p.base /\ (panel'.renewed <=> p.renewed)
    BY <1>6, PanelForms
  <1>9. ScreenTypeOK'
    BY <1>1, <1>6, <1>7, <1>8 DEF ScreenTypeOK
  <1>10. r.seen \in {None, r.previous.details}
    BY <1>1, <1>2, <1>3, <1>4, <1>5, <1>6 DEF DraftsFit
  <1>11. \A g \in Handler : (Busy(g, "save")' => (Busy(g, "save") /\ g # h) \/ g = h) /\ (Busy(g, "answer")' => Busy(g, "answer") /\ g # h)
    BY <1>5, <1>7 DEF Busy
  <1>12. DraftsFit'
    <2>1. \A g \in Handler : Busy(g, "save")' => at'[g].seen \in {None, at'[g].previous.details}
      BY <1>1, <1>7, <1>10, <1>11 DEF DraftsFit
    <2>2. panel' # None /\ list' # None /\ ~panel'.renewed => panel'.base = list'.details
      BY <1>1, <1>3, <1>6, <1>8 DEF DraftsFit
    <2>3. QED
      BY <2>1, <2>2 DEF DraftsFit
  <1>13. row # None => \A g \in Handler : at'[g] # Idle => WasShown(at'[g].previous)
    BY <1>1, <1>2, <1>5, <1>6, <1>7 DEF SnapshotsPast
  <1>14. row # None => \A g \in Handler : Busy(g, "answer")' /\ at'[g].issue # None => WasRow(at'[g].issue)
    BY <1>1, <1>7, <1>11 DEF SnapshotsPast
  <1>15. MoveUnderWay => MoveUnderWay'
    BY <1>6, <1>7 DEF MoveUnderWay, Busy, Idle
  <1>16. row # None /\ ~ComingUp /\ ~older' => UpToDate'
    BY <1>6, <1>15 DEF ScreenInv, UpToDate
  <1>17. row # None /\ list' # None => WasShown(list')
    BY <1>1, <1>6 DEF SnapshotsPast
  <1>18. QED
    BY <1>6, <1>9, <1>12, <1>13, <1>14, <1>16, <1>17, ScreenAside

\* A request is answered: refused, or written if the row is the one it was sent for.
LEMMA HandleKeeps ==
    ASSUME ScreenInv, NEW h \in Handler, Handle(h)
    PROVE  ScreenInv'
  <1>1. ScreenTypeOK /\ SnapshotsPast /\ DraftsFit
    BY DEF ScreenInv
  <1>2. PICK field \in {"status", "details"} : field = FieldOf(h) /\ (Busy(h, "move") => field = "status")
    BY DEF FieldOf, Busy
  <1>3. at[h] # Idle /\ (Busy(h, "move") \/ Busy(h, "save"))
    BY DEF Handle, Busy, Idle
  <1>4. PICK c \in IssueCard : c = at[h].previous
    BY <1>1, <1>3, RequestShapes
  <1>5. UNCHANGED <<fetched, list, panel, older>>
    BY DEF Handle
  <1>6. ASSUME NEW answer \in IssueRow \cup {None},
               Proceed(h, [op |-> "answer", field |-> FieldOf(h), previous |-> at[h].previous, issue |-> answer])
        PROVE  /\ at' \in [Handler -> PageRequest]
               /\ \A g \in Handler : g # h => at'[g] = at[g]
               /\ at'[h].op = "answer" /\ at'[h].field = field /\ at'[h].previous = c /\ at'[h].issue = answer
    <2>1. PICK r \in PageAnswer :
              /\ r = [op |-> "answer", field |-> field, previous |-> c, issue |-> answer]
              /\ r.op = "answer" /\ r.field = field /\ r.previous = c /\ r.issue = answer
      <3>1. /\ [op |-> "answer", field |-> field, previous |-> c, issue |-> answer] \in PageAnswer
            /\ [op |-> "answer", field |-> field, previous |-> c, issue |-> answer].op = "answer"
            /\ [op |-> "answer", field |-> field, previous |-> c, issue |-> answer].field = field
            /\ [op |-> "answer", field |-> field, previous |-> c, issue |-> answer].previous = c
            /\ [op |-> "answer", field |-> field, previous |-> c, issue |-> answer].issue = answer
        BY DEF PageAnswer
      <3>2. QED
        BY <3>1, Zenon
    <2>2. at' = [at EXCEPT ![h] = r]
      BY <1>2, <1>4, <1>6, <2>1 DEF Proceed
    <2>3. QED
      BY <1>1, <2>1, <2>2 DEF ScreenTypeOK, PageRequest
  <1>7. CASE /\ UNCHANGED <<row, news, unseen>>
             /\ Proceed(h, [op |-> "answer", field |-> FieldOf(h), previous |-> at[h].previous, issue |-> None])
    <2>1. /\ at' \in [Handler -> PageRequest]
          /\ \A g \in Handler : g # h => at'[g] = at[g]
          /\ at'[h].op = "answer" /\ at'[h].field = field /\ at'[h].previous = c /\ at'[h].issue = None
      BY <1>6, <1>7
    <2>2. ScreenTypeOK'
      BY <1>1, <1>5, <1>7, <2>1 DEF ScreenTypeOK
    <2>3. \A g \in Handler : (Busy(g, "save")' => Busy(g, "save") /\ g # h) /\ (Busy(g, "answer")' /\ g # h => Busy(g, "answer"))
      BY <2>1 DEF Busy
    <2>4. DraftsFit'
      BY <1>1, <1>5, <2>1, <2>3 DEF DraftsFit
    <2>5. row # None => \A g \in Handler : at'[g] # Idle => WasShown(at'[g].previous)
      BY <1>1, <1>3, <1>4, <2>1 DEF SnapshotsPast
    <2>6. row # None => \A g \in Handler : Busy(g, "answer")' /\ at'[g].issue # None => WasRow(at'[g].issue)
      BY <1>1, <2>1, <2>3 DEF SnapshotsPast
    <2>7. MoveUnderWay => MoveUnderWay'
      BY <1>2, <1>3, <2>1 DEF MoveUnderWay, Busy
    <2>8. row # None /\ ~ComingUp /\ ~older' => UpToDate'
      BY <1>5, <1>7, <2>7 DEF ScreenInv, UpToDate
    <2>9. row # None /\ list' # None => WasShown(list')
      BY <1>1, <1>5 DEF SnapshotsPast
    <2>10. QED
      BY <1>5, <1>7, <2>2, <2>4, <2>5, <2>6, <2>8, <2>9, ScreenAside
  <1>8. CASE /\ row # None /\ row.version = at[h].previous.version
             /\ row' = Saved(field) /\ news' = Told(field)
             /\ unseen' = (unseen \/ (Busy(h, "save") /\ at[h].seen \notin {None, row.details}))
             /\ \E lost \in BOOLEAN :
                  Proceed(h, [op |-> "answer", field |-> FieldOf(h), previous |-> at[h].previous,
                              issue |-> IF lost THEN None ELSE row'])
    <2>1. row' \in IssueRow
      BY <1>1, <1>8, SavedRow
    <2>2. PICK answer \in IssueRow \cup {None} :
              /\ answer \in {None, row'}
              /\ Proceed(h, [op |-> "answer", field |-> FieldOf(h), previous |-> at[h].previous, issue |-> answer])
      BY <1>8, <2>1
    <2>3. /\ at' \in [Handler -> PageRequest]
          /\ \A g \in Handler : g # h => at'[g] = at[g]
          /\ at'[h].op = "answer" /\ at'[h].field = field /\ at'[h].previous = c /\ at'[h].issue = answer
      BY <1>6, <2>2
    <2>4. WasShown(c)
      BY <1>1, <1>3, <1>4, <1>8 DEF SnapshotsPast
    <2>5. Busy(h, "save") => at[h].seen \in {None, row.details}
      BY <1>1, <1>4, <1>8, <2>4 DEF DraftsFit, WasShown
    <2>6. unseen' \in BOOLEAN /\ ~unseen'
      BY <1>8, <2>5 DEF ScreenInv
    <2>7. \A g \in Handler : at'[g] # Idle => at[g] # Idle /\ at'[g].previous = at[g].previous
      BY <1>3, <1>4, <2>3
    <2>8. \A g \in Handler : Busy(g, "answer")' /\ at'[g].issue # None =>
              \/ Busy(g, "answer") /\ at'[g].issue = at[g].issue
              \/ at'[g].issue = row'
      BY <2>2, <2>3 DEF Busy
    <2>9. \A g \in Handler : Busy(g, "save")' => Busy(g, "save") /\ at'[g] = at[g]
      BY <2>3 DEF Busy
    <2>10. QED
      BY <1>5, <1>8, <2>3, <2>6, <2>7, <2>8, <2>9, ScreenWrites
  <1>9. QED
    BY <1>2, <1>7, <1>8 DEF Handle

\* A request has ended: what is still to be said is about the list and the panel.
LEMMA EndKeeps ==
    ASSUME ScreenInv, NEW h \in Handler, Leave(h), UNCHANGED <<row, news, fetched, unseen>>,
           list' \in IssueCard \cup {None}, older' \in BOOLEAN, panel' \in PanelShape \cup {None},
           panel' # None /\ list' # None /\ ~panel'.renewed => panel'.base = list'.details,
           row # None /\ list' # None => WasShown(list'),
           row # None /\ ~ComingUp /\ ~older' => UpToDate'
    PROVE  ScreenInv'
  <1>1. ScreenTypeOK /\ SnapshotsPast /\ DraftsFit
    BY DEF ScreenInv
  <1>2. at'[h] = Idle /\ (\A g \in Handler : g # h => at'[g] = at[g]) /\ at' \in [Handler -> PageRequest]
    BY <1>1 DEF Leave, Proceed, ScreenTypeOK, PageRequest
  <1>3. \A g \in Handler : (Busy(g, "save")' => Busy(g, "save") /\ g # h) /\ (Busy(g, "answer")' => Busy(g, "answer") /\ g # h)
    BY <1>2 DEF Busy, Idle
  <1>4. ScreenTypeOK'
    BY <1>1, <1>2 DEF ScreenTypeOK
  <1>5. DraftsFit'
    BY <1>1, <1>2, <1>3 DEF DraftsFit
  <1>6. row # None => \A g \in Handler : at'[g] # Idle => WasShown(at'[g].previous)
    BY <1>1, <1>2 DEF SnapshotsPast
  <1>7. row # None => \A g \in Handler : Busy(g, "answer")' /\ at'[g].issue # None => WasRow(at'[g].issue)
    BY <1>1, <1>2, <1>3 DEF SnapshotsPast
  <1>8. QED
    BY <1>4, <1>5, <1>6, <1>7, ScreenAside

LEMMA ConfirmedKeeps ==
    ASSUME ScreenInv, NEW h \in Handler, Confirmed(h)
    PROVE  ScreenInv'
  <1>1. ScreenTypeOK /\ SnapshotsPast /\ DraftsFit
    BY DEF ScreenInv
  <1>2. PICK c \in IssueRow : c = at[h].issue
    BY <1>1, RequestShapes DEF Confirmed, PageAnswer
  <1>3. c \in IssueCard /\ c # None /\ (row # None => WasRow(c) /\ WasShown(c))
    BY <1>1, <1>2, CardRows DEF Confirmed, SnapshotsPast, WasRow, WasShown
  <1>4. /\ Leave(h) /\ UNCHANGED <<row, news, fetched, unseen>>
        /\ list = None => UNCHANGED <<list, older>>
        /\ list # None => list' = c /\ older' = IF c = row THEN FALSE ELSE older \/ c.version < list.version
    BY <1>2 DEF Confirmed
  <1>5. panel' = IF panel = None THEN None
                 ELSE IF panel.saving = h
                 THEN [issue |-> c, base |-> c.details, renewed |-> FALSE, saving |-> None]
                 ELSE [panel EXCEPT !.issue = c, !.renewed = TRUE]
    BY <1>2 DEF Confirmed
  <1>6. /\ panel' \in PanelShape \cup {None}
        /\ panel' # None /\ ~panel'.renewed => panel'.base = c.details
    <2>1. CASE panel = None
      BY <1>5, <2>1
    <2>2. CASE panel # None
      <3>1. PICK p \in PanelShape : p = panel
        BY <1>1, <2>2 DEF ScreenTypeOK
      <3>2. /\ [p EXCEPT !.issue = c, !.renewed = TRUE] \in PanelShape
            /\ [p EXCEPT !.issue = c, !.renewed = TRUE].renewed
            /\ [issue |-> c, base |-> c.details, renewed |-> FALSE, saving |-> None] \in PanelShape
            /\ [issue |-> c, base |-> c.details, renewed |-> FALSE, saving |-> None].base = c.details
        BY <1>3, PanelForms
      <3>3. QED
        BY <1>5, <2>2, <3>1, <3>2
    <2>3. QED
      BY <2>1, <2>2
  <1>7. list' \in IssueCard \cup {None} /\ older' \in BOOLEAN
    BY <1>1, <1>3, <1>4 DEF ScreenTypeOK
  <1>8. row # None /\ list' # None => WasShown(list')
    BY <1>1, <1>3, <1>4
  <1>9. panel' # None /\ list' # None /\ ~panel'.renewed => panel'.base = list'.details
    BY <1>4, <1>6
  <1>10. row # None /\ ~ComingUp /\ ~older' => UpToDate'
    <2> SUFFICES ASSUME row # None, ~ComingUp, ~older' PROVE UpToDate'
      OBVIOUS
    <2>1. CASE list = None
      BY <1>4, <2>1 DEF ScreenInv, UpToDate
    <2>2. CASE list # None /\ c = row
      BY <1>3, <1>4, <2>2 DEF UpToDate
    <2>3. CASE list # None /\ c # row
      <3>1. ~older /\ ~(c.version < list.version)
        BY <1>4, <2>3
      <3>2. list.version = row.version
        BY <3>1 DEF ScreenInv, UpToDate
      <3>3. c.version < row.version
        BY <1>1, <1>3, <2>3 DEF WasRow, IssueRow, ScreenTypeOK
      <3>4. QED
        BY <3>1, <3>2, <3>3
    <2>4. QED
      BY <2>1, <2>2, <2>3
  <1>11. QED
    BY <1>4, <1>6, <1>7, <1>8, <1>9, <1>10, EndKeeps

LEMMA FailedKeeps ==
    ASSUME ScreenInv, NEW h \in Handler, Failed(h)
    PROVE  ScreenInv'
  <1>1. ScreenTypeOK /\ SnapshotsPast /\ DraftsFit
    BY DEF ScreenInv
  <1>2. Busy(h, "answer") /\ at[h] # Idle /\ at[h].field \in {"status", "details"}
    BY <1>1, RequestShapes DEF Failed, PageAnswer, Busy, Idle
  <1>3. PICK c \in IssueCard : c = at[h].previous
    BY <1>1, <1>2, RequestShapes
  <1>4. row # None => WasShown(c)
    BY <1>1, <1>2, <1>3 DEF SnapshotsPast
  <1>5. Leave(h) /\ UNCHANGED <<row, news, fetched, unseen>>
    BY DEF Failed
  <1>6. CASE at[h].field = "details" \/ list = None
    <2>1. UNCHANGED <<list, older>>
      BY <1>6 DEF Failed
    <2>2. /\ panel' \in PanelShape \cup {None}
          /\ panel' # None /\ list # None /\ ~panel'.renewed => panel'.base = list.details
      <3>1. CASE panel = None
        BY <3>1 DEF Failed
      <3>2. CASE panel # None
        <4>1. PICK p \in PanelShape : p = panel
          BY <1>1, <3>2 DEF ScreenTypeOK
        <4>2. panel' \in {[p EXCEPT !.issue = c, !.renewed = TRUE], [p EXCEPT !.saving = None], p}
          BY <1>3, <3>2, <4>1 DEF Failed
        <4>3. /\ [p EXCEPT !.issue = c, !.renewed = TRUE] \in PanelShape
              /\ [p EXCEPT !.issue = c, !.renewed = TRUE].renewed
              /\ [p EXCEPT !.saving = None] \in PanelShape
              /\ [p EXCEPT !.saving = None].base = p.base
              /\ [p EXCEPT !.saving = None].renewed <=> p.renewed
          BY PanelForms
        <4>4. QED
          BY <1>1, <3>2, <4>1, <4>2, <4>3 DEF DraftsFit
      <3>3. QED
        BY <3>1, <3>2
    <2>3. row # None /\ ~ComingUp /\ ~older' => UpToDate'
      <3> SUFFICES ASSUME row # None, ~ComingUp, ~older' PROVE UpToDate'
        OBVIOUS
      <3>1. UpToDate /\ at[h].field = "details"
        BY <1>6, <2>1 DEF ScreenInv, UpToDate
      <3>2. \A g \in Handler : Busy(g, "move") \/ (Busy(g, "answer") /\ at[g].field = "status") =>
                at'[g] = at[g]
        BY <1>1, <1>2, <1>5, <3>1 DEF Leave, Proceed, ScreenTypeOK, Busy
      <3>3. MoveUnderWay => MoveUnderWay'
        BY <3>2 DEF MoveUnderWay, Busy
      <3>4. QED
        BY <1>5, <2>1, <3>1, <3>3 DEF UpToDate
    <2>4. list' \in IssueCard \cup {None} /\ older' \in BOOLEAN /\ (row # None /\ list' # None => WasShown(list'))
      BY <1>1, <2>1 DEF ScreenTypeOK, SnapshotsPast
    <2>5. QED
      BY <1>5, <2>1, <2>2, <2>3, <2>4, EndKeeps
  <1>7. CASE at[h].field = "status" /\ list # None
    <2>1. /\ list' = c
          /\ older' = IF c = row THEN FALSE ELSE older \/ c.version < list.version \/ c.status \in Handler
      BY <1>3, <1>7 DEF Failed
    <2>2. /\ panel' \in PanelShape \cup {None}
          /\ panel' # None => panel'.renewed
      <3>1. CASE panel = None
        BY <3>1 DEF Failed
      <3>2. CASE panel # None
        <4>1. PICK p \in PanelShape : p = panel
          BY <1>1, <3>2 DEF ScreenTypeOK
        <4>2. panel' = [p EXCEPT !.issue = c, !.renewed = TRUE]
          BY <1>3, <1>7, <3>2, <4>1 DEF Failed
        <4>3. QED
          BY <4>2, PanelForms
      <3>3. QED
        BY <3>1, <3>2
    <2>3. row # None /\ ~ComingUp /\ ~older' => UpToDate'
      <3> SUFFICES ASSUME row # None, ~ComingUp, ~older' PROVE UpToDate'
        OBVIOUS
      <3>1. CASE c = row
        BY <1>5, <2>1, <3>1 DEF UpToDate
      <3>2. CASE c # row
        <4>1. ~older /\ ~(c.version < list.version) /\ c.status \notin Handler
          BY <2>1, <3>2
        <4>2. list.version = row.version
          BY <4>1 DEF ScreenInv, UpToDate
        <4>3. c.version < row.version
          BY <1>1, <1>4, <3>2, <4>1 DEF WasShown, IssueCard, IssueRow, ScreenTypeOK
        <4>4. QED
          BY <4>1, <4>2, <4>3
      <3>3. QED
        BY <3>1, <3>2
    <2>4. list' \in IssueCard \cup {None} /\ older' \in BOOLEAN /\ (row # None /\ list' # None => WasShown(list'))
      BY <1>1, <1>4, <2>1 DEF ScreenTypeOK
    <2>5. QED
      BY <1>5, <2>2, <2>3, <2>4, EndKeeps
  <1>8. QED
    BY <1>2, <1>6, <1>7

LEMMA ScreenStutterKeeps ==
    ASSUME ScreenInv, UNCHANGED screenState
    PROVE  ScreenInv'
  <1>1. UNCHANGED <<row, news, fetched, list, panel, older, unseen, at>>
    BY DEF screenState, screenVars, handlers
  <1>2. ScreenTypeOK' /\ DraftsFit'
    BY <1>1 DEF ScreenInv, ScreenTypeOK, DraftsFit, Busy
  <1>3. MoveUnderWay' <=> MoveUnderWay
    BY <1>1 DEF MoveUnderWay, Busy
  <1>4. row # None /\ ~ComingUp /\ ~older' => UpToDate'
    BY <1>1, <1>3 DEF ScreenInv, UpToDate
  <1>5. QED
    BY <1>1, <1>2, <1>4, ScreenAside DEF ScreenInv, SnapshotsPast, Busy

\* For every number of requests, writes by others and realtime events, in every order of
\* the answers: a page at rest shows the row unless something older took its place, and a
\* draft replaces only the details it was begun with (use-workspace-issues and the panel,
\* src/components/workspace-app.tsx, issue-panel.tsx).
THEOREM ScreensSettle ==
    ASSUME NEW requests
    PROVE  ScreenSpec(requests) => []ScreenSettles
  <1>1. ScreenInit /\ HandlersInit(requests) => ScreenInv
    BY ScreenInitKeeps
  <1>2. ScreenInv /\ [ScreenNext]_screenState => ScreenInv'
    BY OtherWritesKeeps, OtherArchivesKeeps, RefreshKeeps, PanelKeeps, DeliverKeeps, LoseAnswerKeeps,
       BeginMoveKeeps, BeginSaveDetailsKeeps, HandleKeeps, ConfirmedKeeps, FailedKeeps,
       ScreenStutterKeeps DEF ScreenNext
  <1>3. ScreenInv => ScreenSettles
    <2> SUFFICES ASSUME ScreenInv, AtRest, row # None PROVE list = row \/ older
      BY DEF ScreenInv, ScreenSettles
    <2>1. ~ComingUp
      BY DEF AtRest, ComingUp
    <2>2. ~MoveUnderWay
      BY DEF AtRest, MoveUnderWay, Busy, Idle
    <2>3. QED
      BY <2>1, <2>2 DEF ScreenInv, UpToDate
  <1>4. QED
    BY <1>1, <1>2, <1>3, PTL DEF ScreenSpec
-----------------------------------------------------------------------------
(* The bell.                                                               *)

watchState == <<handlers, watchVars>>

WatchSpec(requests) == WatchInit /\ HandlersInit(requests) /\ [][WatchNext]_watchState

WatchTypeOK ==
  /\ watcher \in BOOLEAN /\ bell \in BOOLEAN /\ rattled \in BOOLEAN
  /\ opening \in {"sent", "yes", "no", "shown"}
  /\ at \in [Handler -> [op : {"watch", "watched"}, on : BOOLEAN] \cup {Idle}]

ChangesBell(h) == at[h].op \in {"watch", "watched"}

\* What the bell shows, or is going to show, is what there is: the answer that is on its
\* way, before a click is handled what it showed then, and afterwards what was asked for.
BellFollows ==
  /\ opening \in {"yes", "no"} => (opening = "yes" <=> watcher)
  /\ opening # "shown" => \A h \in Handler : ~ChangesBell(h)
  /\ \A g, h \in Handler : ChangesBell(g) /\ ChangesBell(h) => g = h
  /\ \A h \in Handler : Busy(h, "watched") => (at[h].on <=> watcher)
  /\ opening = "shown" /\ (\A h \in Handler : ~Busy(h, "watched")) => (bell <=> watcher)

WatchInv == WatchTypeOK /\ (rattled \/ BellFollows)

LEMMA WatchInitKeeps ==
    ASSUME NEW requests, WatchInit, HandlersInit(requests)
    PROVE  WatchInv
  <1>1. \A h \in Handler : ~ChangesBell(h) /\ ~Busy(h, "watched")
    BY DEF HandlersInit, ChangesBell, Busy, Idle
  <1>2. QED
    BY <1>1 DEF WatchInit, HandlersInit, WatchInv, WatchTypeOK, BellFollows

LEMMA OpeningKeeps ==
    ASSUME WatchInv, AnswerOpening \/ ShowOpening \/ ArchiveIssue
    PROVE  WatchInv'
  <1>1. UNCHANGED <<at, watcher>>
    BY DEF AnswerOpening, ShowOpening, ArchiveIssue, InOneStep, handlers
  <1>2. WatchTypeOK'
    BY <1>1 DEF WatchInv, WatchTypeOK, AnswerOpening, ShowOpening, ArchiveIssue
  <1>3. \A h \in Handler : /\ ChangesBell(h)' <=> ChangesBell(h)
                           /\ \A op : Busy(h, op)' <=> Busy(h, op)
    BY <1>1 DEF ChangesBell, Busy
  <1>4. CASE AnswerOpening
    BY <1>1, <1>2, <1>3, <1>4 DEF AnswerOpening, WatchInv, WatchTypeOK, BellFollows
  <1>5. CASE ShowOpening
    <2>1. \A h \in Handler : Busy(h, "watched") => ChangesBell(h)
      BY DEF Busy, ChangesBell
    <2>2. QED
      BY <1>1, <1>2, <1>3, <1>5, <2>1 DEF ShowOpening, WatchInv, WatchTypeOK, BellFollows
  <1>6. CASE ArchiveIssue
    BY <1>1, <1>2, <1>3, <1>6 DEF ArchiveIssue, WatchInv, WatchTypeOK, BellFollows
  <1>7. QED
    BY <1>4, <1>5, <1>6

LEMMA ClickKeeps ==
    ASSUME WatchInv, NEW h \in Handler, Click(h)
    PROVE  WatchInv'
  <1>1. PICK r \in [op : {"watch", "watched"}, on : BOOLEAN] : r = [op |-> "watch", on |-> ~bell] /\ r.op = "watch"
    <2>1. (~bell) \in BOOLEAN
      OBVIOUS
    <2>2. [op |-> "watch", on |-> ~bell] \in [op : {"watch", "watched"}, on : BOOLEAN]
      BY <2>1
    <2>3. [op |-> "watch", on |-> ~bell].op = "watch"
      OBVIOUS
    <2>4. QED
      BY <2>2, <2>3, Zenon
  <1>2. at'[h] = r /\ (\A g \in Handler : g # h => at'[g] = at[g]) /\ UNCHANGED <<watcher, bell, opening>>
    BY <1>1 DEF Click, Enter, WatchInv, WatchTypeOK
  <1>3. rattled' \in BOOLEAN /\ (~rattled' => ~rattled /\ ~Changing /\ opening = "shown")
    BY DEF Click, WatchInv, WatchTypeOK
  <1>4. WatchTypeOK'
    BY <1>1, <1>2, <1>3 DEF Click, Enter, WatchInv, WatchTypeOK
  <1>5. ~Changing => \A g \in Handler : ~ChangesBell(g) /\ ~Busy(g, "watched")
    BY DEF Changing, ChangesBell, Busy
  <1>6. ~rattled' => \A g \in Handler : ~Busy(g, "watched")' /\ (ChangesBell(g)' => g = h)
    BY <1>1, <1>2, <1>3, <1>5 DEF Busy, ChangesBell
  <1>7. ~rattled' => BellFollows'
    BY <1>2, <1>3, <1>5, <1>6 DEF WatchInv, BellFollows
  <1>8. QED
    BY <1>4, <1>7 DEF WatchInv

\* A handler that changes the row, shows it, or ends.
LEMMA ChangeKeeps ==
    ASSUME WatchInv, NEW h \in Handler, SetWatcher(h) \/ ShowWatcher(h) \/ Unanswered(h)
    PROVE  WatchInv'
  <1>1. ChangesBell(h) /\ at[h] \in [op : {"watch", "watched"}, on : BOOLEAN]
    <2>1. ChangesBell(h)
      BY DEF SetWatcher, ShowWatcher, Unanswered, Busy, ChangesBell
    <2>2. QED
      BY <2>1 DEF WatchInv, WatchTypeOK, ChangesBell, Idle
  <1>2. PICK on \in BOOLEAN : on = at[h].on
    BY <1>1
  <1>3. PICK next \in [op : {"watched"}, on : BOOLEAN] \cup {Idle} :
            /\ Proceed(h, next)
            /\ SetWatcher(h) => next.op = "watched" /\ next.on = on
            /\ ~SetWatcher(h) => next = Idle
    <2>1. CASE SetWatcher(h)
      BY <1>2, <2>1 DEF SetWatcher
    <2>2. CASE ~SetWatcher(h)
      BY <2>2 DEF ShowWatcher, Unanswered, Leave
    <2>3. QED
      BY <2>1, <2>2
  <1>4. at'[h] = next /\ \A g \in Handler : g # h => at'[g] = at[g]
    BY <1>3 DEF Proceed, WatchInv, WatchTypeOK
  <1>5. /\ rattled' \in BOOLEAN /\ opening' = opening
        /\ SetWatcher(h) => (watcher' <=> on) /\ bell' = bell
        /\ ~SetWatcher(h) => watcher' = watcher
        /\ ~rattled' => ~rattled
    BY <1>2 DEF SetWatcher, ShowWatcher, Unanswered, WatchInv, WatchTypeOK
  <1>6. WatchTypeOK'
    BY <1>2, <1>3, <1>5 DEF Proceed, SetWatcher, ShowWatcher, Unanswered, WatchInv, WatchTypeOK
  <1>7. ASSUME ~rattled'
        PROVE  BellFollows'
    <2>1. BellFollows /\ opening' = "shown"
      BY <1>1, <1>5, <1>6, <1>7 DEF WatchInv, BellFollows
    <2>2. \A g \in Handler : g # h => ~ChangesBell(g) /\ ~ChangesBell(g)' /\ ~Busy(g, "watched") /\ ~Busy(g, "watched")'
      BY <1>1, <1>4, <2>1 DEF BellFollows, ChangesBell, Busy
    <2>3. CASE SetWatcher(h)
      <3>1. Busy(h, "watched")' /\ (at'[h].on <=> watcher')
        BY <1>3, <1>4, <1>5, <2>3 DEF Busy
      <3>2. QED
        BY <2>1, <2>2, <3>1 DEF BellFollows
    <2>4. CASE ShowWatcher(h)
      <3>1. ~SetWatcher(h) /\ Busy(h, "watched") /\ bell' = at[h].on
        BY <2>4 DEF SetWatcher, ShowWatcher, Busy
      <3>2. ~Busy(h, "watched")' /\ ~ChangesBell(h)'
        BY <1>3, <1>4, <3>1 DEF Busy, ChangesBell, Idle
      <3>3. bell' <=> watcher'
        BY <1>5, <2>1, <3>1 DEF BellFollows
      <3>4. QED
        BY <2>1, <2>2, <3>2, <3>3 DEF BellFollows
    <2>5. CASE Unanswered(h)
      <3>1. ~Busy(h, "watched") /\ bell' = bell
        BY <1>7, <2>5 DEF Unanswered
      <3>2. ~SetWatcher(h)
        BY <2>5 DEF SetWatcher, Unanswered, Leave, Proceed, Idle, WatchInv, WatchTypeOK
      <3>3. ~Busy(h, "watched")' /\ ~ChangesBell(h)'
        BY <1>3, <1>4, <3>2 DEF Busy, ChangesBell, Idle
      <3>4. bell <=> watcher
        BY <1>5, <2>1, <2>2, <3>1 DEF BellFollows
      <3>5. QED
        BY <1>5, <2>1, <2>2, <3>1, <3>2, <3>3, <3>4 DEF BellFollows
    <2>6. QED
      BY <2>3, <2>4, <2>5
  <1>8. QED
    BY <1>6, <1>7 DEF WatchInv

\* For any number of handlers and clicks: a bell with nothing on its way shows whether the
\* viewer watches, unless clicks overlapped or an answer was lost (watching in
\* src/components/issue-panel.tsx, src/app/api/issues/[id]/watch).
THEOREM BellShowsWatching ==
    ASSUME NEW requests
    PROVE  WatchSpec(requests) => []BellTells
  <1>1. WatchInit /\ HandlersInit(requests) => WatchInv
    BY WatchInitKeeps
  <1>2. WatchInv /\ [WatchNext]_watchState => WatchInv'
    <2>1. WatchInv /\ UNCHANGED watchState => WatchInv'
      BY DEF watchState, handlers, watchVars, WatchInv, WatchTypeOK, BellFollows, ChangesBell, Busy
    <2>2. QED
      BY <2>1, OpeningKeeps, ClickKeeps, ChangeKeeps DEF WatchNext
  <1>3. WatchInv => BellTells
    <2>1. ~Changing => \A h \in Handler : ~Busy(h, "watched")
      BY DEF Changing, Busy
    <2>2. QED
      BY <2>1 DEF WatchInv, BellFollows, BellTells
  <1>4. QED
    BY <1>1, <1>2, <1>3, PTL DEF WatchSpec
-----------------------------------------------------------------------------
(* The inbox.                                                              *)

inboxState == <<handlers, inboxVars>>

InboxSpec(requests) == InboxInit /\ HandlersInit(requests) /\ [][InboxNext]_inboxState

MarksAll == [op : {"all", "allMarked"}]
MarksOne == [op : {"one", "oneMarked"}, note : 1..MaxNotes]

InboxTypeOK ==
  /\ notes \in Seq(NoteRow) /\ Len(notes) <= MaxNotes
  /\ leaf \in InboxLeaf \cup {None}
  /\ disturbed \in BOOLEAN
  /\ at \in [Handler -> MarksAll \cup MarksOne \cup {Idle}]

PageOf(S, n) == {i \in S : Cardinality({j \in S : j > i}) \div InboxSize = n - 1}
ReadOn(S) == [i \in S |-> notes[i].read]
Unread == {i \in Listed : ~notes[i].read}

\* What was read of the page that is being fetched is as the rows are.
FetchedTrue ==
  /\ \A h \in Handler : at[h].op \notin Marks
  /\ leaf.items \in {None, ReadOn(OnPage(turned))}
  /\ leaf.unread \in {None, CountUnread}

AllMarked == \E h \in Handler : Busy(h, "allMarked")
Unshown == {i \in OnPage(turned) : notes[i].read /\ ~inbox.items[i]}

\* The rows are ahead of what is shown by the marks that were made and are not answered.
ShownFollows ==
  /\ inbox.unread \in Nat /\ inbox.items \in [OnPage(turned) -> BOOLEAN]
  /\ \A i \in OnPage(turned) : inbox.items[i] => notes[i].read
  /\ \A i \in Unshown : AllMarked \/ \E h \in Handler : Busy(h, "oneMarked") /\ at[h].note = i
  /\ \A h \in Handler : Busy(h, "one") \/ Busy(h, "oneMarked") => at[h].note \in OnPage(turned)
  /\ \A h \in Handler : Busy(h, "oneMarked") => notes[at[h].note].read
  /\ AllMarked => Unread = {}
  /\ AllMarked \/ inbox.unread = Cardinality(Unread) + Cardinality(Unshown)

InboxInv ==
  /\ InboxTypeOK
  /\ ~disturbed /\ leaf # None => FetchedTrue
  /\ ~disturbed /\ leaf = None => ShownFollows

LEMMA InboxPages ==
    ASSUME InboxTypeOK, NEW n
    PROVE  /\ OnPage(n) = PageOf(Listed, n) /\ OnPage(n) \subseteq Listed /\ Listed \subseteq 1..Len(notes)
           /\ OnPage(n) \in SUBSET (1..MaxNotes)
           /\ CountUnread = Cardinality(Unread)
           /\ IsFiniteSet(Unread) /\ Cardinality(Unread) \in Nat
           /\ IsFiniteSet(Unshown) /\ Cardinality(Unshown) \in Nat
  <1>1. Listed \subseteq 1..Len(notes) /\ Unread \subseteq 1..Len(notes)
    BY DEF Listed, Unread
  <1>2. OnPage(n) = PageOf(Listed, n)
    BY Zenon DEF OnPage, PageOf
  <1>3. OnPage(n) \subseteq Listed /\ OnPage(turned) \subseteq Listed /\ Unshown \subseteq Listed
    BY DEF OnPage, Unshown
  <1>4. Len(notes) \in Nat /\ Len(notes) <= MaxNotes
    BY DEF InboxTypeOK
  <1>5. IsFiniteSet(1..Len(notes))
    BY <1>4, FS_Interval
  <1>6. IsFiniteSet(Unread) /\ IsFiniteSet(Unshown)
    BY <1>1, <1>3, <1>5, FS_Subset
  <1>7. Cardinality(Unread) \in Nat /\ Cardinality(Unshown) \in Nat
    BY <1>6, FS_CardinalityType
  <1>8. CountUnread = Cardinality(Unread)
    BY Zenon DEF CountUnread, Unread
  <1>9. OnPage(n) \in SUBSET (1..MaxNotes)
    <2>1. 1..Len(notes) \subseteq 1..MaxNotes
      BY <1>4, InboxAssumption
    <2>2. OnPage(n) \subseteq 1..MaxNotes
      BY <1>1, <1>3, <2>1, Zenon
    <2>3. QED
      BY <2>2, Zenon
  <1>10. QED
    BY <1>1, <1>2, <1>3, <1>6, <1>7, <1>8, <1>9

\* A step that leaves the rows alone leaves the pages and the count.
LEMMA SameRows ==
    ASSUME UNCHANGED notes
    PROVE  /\ Listed' = Listed /\ Unread' = Unread /\ CountUnread' = CountUnread
           /\ \A n : OnPage(n)' = OnPage(n)
           /\ \A S : ReadOn(S)' = ReadOn(S)
  BY DEF Listed, Unread, CountUnread, OnPage, ReadOn

LEMMA EmptyLeaf ==
    [items |-> None, unread |-> None] \in InboxLeaf
  BY DEF InboxLeaf

LEMMA InboxInitKeeps ==
    ASSUME NEW requests, InboxInit, HandlersInit(requests)
    PROVE  InboxInv
  <1>1. MaxNotes - 1 \in Nat /\ MaxNotes \in Nat
    BY InboxAssumption
  <1>2. [read |-> FALSE, visible |-> TRUE] \in NoteRow
    BY DEF NoteRow
  <1>3. notes \in Seq(NoteRow) /\ Len(notes) <= MaxNotes
    <2>1. notes \in [1..MaxNotes - 1 -> NoteRow]
      BY <1>2 DEF InboxInit
    <2>2. notes \in Seq(NoteRow) /\ Len(notes) = MaxNotes - 1
      BY <1>1, <2>1
    <2>3. QED
      BY <1>1, <2>2
  <1>4. leaf \in InboxLeaf /\ leaf.items = None /\ leaf.unread = None
    BY EmptyLeaf DEF InboxInit
  <1>5. \A h \in Handler : at[h] = Idle /\ at[h].op \notin Marks
    BY DEF HandlersInit, Idle, Marks
  <1>6. InboxTypeOK
    BY <1>3, <1>4 DEF InboxInit, HandlersInit, InboxTypeOK
  <1>7. QED
    BY <1>4, <1>5, <1>6, InboxAssumption DEF InboxInit, InboxInv, FetchedTrue

\* The parts of what is fetched, and what is shown.
LEMMA LeafForms ==
    ASSUME NEW l \in InboxLeaf
    PROVE  /\ \A S \in SUBSET (1..MaxNotes) : \A f \in [S -> BOOLEAN] :
                [l EXCEPT !.items = f] \in InboxLeaf /\ [l EXCEPT !.items = f].items = f
                /\ [l EXCEPT !.items = f].unread = l.unread
           /\ \A n \in Nat :
                [l EXCEPT !.unread = n] \in InboxLeaf /\ [l EXCEPT !.unread = n].unread = n
                /\ [l EXCEPT !.unread = n].items = l.items
           /\ l # None
  BY InboxAssumption DEF InboxLeaf, LeafItems

LEMMA FetchKeeps ==
    ASSUME InboxInv, ReadItems \/ ReadUnread
    PROVE  InboxInv'
  <1>1. InboxTypeOK /\ UNCHANGED <<notes, at, turned, inbox, disturbed>> /\ leaf # None
    BY DEF ReadItems, ReadUnread, InboxInv, handlers
  <1>2. PICK l \in InboxLeaf : l = leaf
    BY <1>1 DEF InboxTypeOK
  <1>3. PICK S \in SUBSET (1..MaxNotes) : S = OnPage(turned)
    BY <1>1, InboxPages
  <1>4. PICK f \in [S -> BOOLEAN] : f = ReadOn(S)
    <2>1. \A i \in S : notes[i].read \in BOOLEAN
      <3>1. \A i \in 1..Len(notes) : notes[i] \in NoteRow
        BY <1>1 DEF InboxTypeOK
      <3>2. S \subseteq 1..Len(notes)
        BY <1>1, <1>3, InboxPages
      <3>3. QED
        BY <3>1, <3>2 DEF NoteRow
    <2>2. QED
      BY <2>1 DEF ReadOn
  <1>5. CountUnread \in Nat
    BY <1>1, InboxPages
  <1>6. /\ leaf' \in InboxLeaf /\ leaf' # None
        /\ leaf'.items \in {l.items, f} /\ leaf'.unread \in {l.unread, CountUnread}
    <2>1. CASE ReadItems
      <3>1. leaf' = [l EXCEPT !.items = f]
        BY <1>2, <1>3, <1>4, <2>1 DEF ReadItems, ReadOn
      <3>2. QED
        BY <3>1, LeafForms
    <2>2. CASE ReadUnread
      <3>1. leaf' = [l EXCEPT !.unread = CountUnread]
        BY <1>2, <2>2 DEF ReadUnread
      <3>2. QED
        BY <1>5, <3>1, LeafForms
    <2>3. QED
      BY <2>1, <2>2
  <1>7. InboxTypeOK'
    BY <1>1, <1>6 DEF InboxTypeOK
  <1>8. ~disturbed => FetchedTrue'
    <2> SUFFICES ASSUME ~disturbed PROVE FetchedTrue'
      OBVIOUS
    <2>1. FetchedTrue
      BY <1>1 DEF InboxInv
    <2>2. OnPage(turned)' = S /\ ReadOn(S)' = f /\ CountUnread' = CountUnread
      BY <1>1, <1>3, <1>4, SameRows
    <2>3. l.items \in {None, f} /\ l.unread \in {None, CountUnread}
      BY <1>2, <1>3, <1>4, <2>1 DEF FetchedTrue
    <2>4. leaf'.items \in {None, f} /\ leaf'.unread \in {None, CountUnread}
      BY <1>6, <2>3
    <2>5. \A h \in Handler : at'[h].op \notin Marks
      BY <1>1, <2>1 DEF FetchedTrue
    <2>6. QED
      BY <1>1, <2>2, <2>4, <2>5 DEF FetchedTrue
  <1>9. QED
    BY <1>1, <1>6, <1>7, <1>8 DEF InboxInv

LEMMA ShowLeafKeeps ==
    ASSUME InboxInv, ShowLeaf
    PROVE  InboxInv'
  <1>1. InboxTypeOK /\ UNCHANGED <<notes, at, turned, disturbed>> /\ leaf' = None /\ inbox' = leaf
        /\ leaf # None /\ leaf.items # None /\ leaf.unread # None
    BY DEF ShowLeaf, InboxInv, handlers
  <1>2. InboxTypeOK'
    BY <1>1 DEF InboxTypeOK
  <1>3. ASSUME ~disturbed
        PROVE  ShownFollows'
    <2>1. FetchedTrue /\ inbox'.items = ReadOn(OnPage(turned)) /\ inbox'.unread = CountUnread
      BY <1>1, <1>3 DEF InboxInv, FetchedTrue
    <2>2. OnPage(turned)' = OnPage(turned) /\ Unread' = Unread
      BY <1>1, SameRows
    <2>3. OnPage(turned) \subseteq 1..Len(notes) /\ CountUnread = Cardinality(Unread) /\ CountUnread \in Nat
      BY <1>1, InboxPages
    <2>4. \A i \in OnPage(turned) : notes[i].read \in BOOLEAN
      <3>1. \A i \in 1..Len(notes) : notes[i] \in NoteRow
        BY <1>1 DEF InboxTypeOK
      <3>2. QED
        BY <2>3, <3>1 DEF NoteRow
    <2>5. inbox'.items \in [OnPage(turned) -> BOOLEAN] /\ \A i \in OnPage(turned) : inbox'.items[i] = notes[i].read
      BY <2>1, <2>4 DEF ReadOn
    <2>6. Unshown' = {}
      BY <1>1, <2>2, <2>5 DEF Unshown
    <2>7. Cardinality(Unshown') = 0
      BY <2>6, FS_EmptySet
    <2>8. \A h \in Handler : ~Busy(h, "one")' /\ ~Busy(h, "oneMarked")' /\ ~Busy(h, "allMarked")'
      BY <1>1, <2>1 DEF FetchedTrue, Marks, Busy
    <2>9. ~AllMarked'
      BY <2>8 DEF AllMarked
    <2>10. inbox'.unread = Cardinality(Unread') + Cardinality(Unshown') /\ inbox'.unread \in Nat
      BY <2>1, <2>2, <2>3, <2>7
    <2>11. \A i \in OnPage(turned)' : inbox'.items[i] => notes'[i].read
      BY <1>1, <2>2, <2>5
    <2>12. QED
      BY <2>2, <2>5, <2>6, <2>8, <2>9, <2>10, <2>11 DEF ShownFollows
  <1>4. QED
    BY <1>1, <1>2, <1>3 DEF InboxInv

LEMMA TurnKeeps ==
    ASSUME InboxInv, Turn
    PROVE  InboxInv'
  <1>1. InboxTypeOK /\ UNCHANGED <<notes, at, inbox>> /\ leaf' = [items |-> None, unread |-> None]
        /\ disturbed' = Marking
    BY DEF Turn, InOneStep, InboxInv
  <1>2. leaf' \in InboxLeaf /\ leaf'.items = None /\ leaf'.unread = None
    BY <1>1, EmptyLeaf
  <1>3. disturbed' \in BOOLEAN
    BY <1>1 DEF Marking
  <1>4. InboxTypeOK'
    BY <1>1, <1>2, <1>3 DEF InboxTypeOK
  <1>5. ~disturbed' => \A h \in Handler : at'[h].op \notin Marks
    BY <1>1 DEF Marking
  <1>6. QED
    BY <1>2, <1>4, <1>5, InboxAssumption DEF InboxInv, FetchedTrue

\* Others disturb what is shown.
LEMMA OthersKeep ==
    ASSUME InboxInv, NewNote \/ \E i \in 1..Len(notes) : ArchiveTopic(i)
    PROVE  InboxInv'
  <1>1. InboxTypeOK /\ UNCHANGED <<at, turned, leaf, inbox>> /\ disturbed' = TRUE
    BY DEF NewNote, ArchiveTopic, InOneStep, InboxInv
  <1>2. notes' \in Seq(NoteRow) /\ Len(notes') <= MaxNotes
    <2>1. CASE NewNote
      <3>1. [read |-> FALSE, visible |-> TRUE] \in NoteRow
        BY DEF NoteRow
      <3>2. PICK r \in NoteRow : r = [read |-> FALSE, visible |-> TRUE]
        BY <3>1
      <3>3. notes' = Append(notes, r) /\ Len(notes) < MaxNotes
        BY <2>1, <3>2 DEF NewNote
      <3>4. notes' \in Seq(NoteRow) /\ Len(notes') = Len(notes) + 1
        BY <1>1, <3>3 DEF InboxTypeOK
      <3>5. QED
        BY <1>1, <3>3, <3>4, InboxAssumption DEF InboxTypeOK
    <2>2. ASSUME NEW i \in 1..Len(notes), ArchiveTopic(i)
          PROVE  notes' \in Seq(NoteRow) /\ Len(notes') <= MaxNotes
      <3>1. notes[i] \in NoteRow
        BY <1>1 DEF InboxTypeOK
      <3>2. PICK r \in NoteRow : r = [notes[i] EXCEPT !.visible = ~@]
        BY <3>1 DEF NoteRow
      <3>3. notes' = [notes EXCEPT ![i] = r]
        BY <2>2, <3>2 DEF ArchiveTopic
      <3>4. notes' \in Seq(NoteRow) /\ Len(notes') = Len(notes)
        BY <1>1, <3>3 DEF InboxTypeOK
      <3>5. QED
        BY <1>1, <3>4 DEF InboxTypeOK
    <2>3. QED
      BY <2>1, <2>2
  <1>3. InboxTypeOK'
    BY <1>1, <1>2 DEF InboxTypeOK
  <1>4. QED
    BY <1>1, <1>3 DEF InboxInv

LEMMA BeginMarkKeeps ==
    ASSUME InboxInv, NEW h \in Handler, NEW what \in [op : {"all"}] \cup [op : {"one"}, note : 1..Len(notes)],
           BeginMark(h, what)
    PROVE  InboxInv'
  <1>1. InboxTypeOK /\ UNCHANGED <<notes, turned, leaf, inbox>> /\ inbox # None
        /\ disturbed' = (disturbed \/ leaf # None)
    BY DEF BeginMark, InboxInv
  <1>2. what \in MarksAll \cup MarksOne
    <2>1. \A i \in 1..Len(notes) : i \in 1..MaxNotes
      BY <1>1, InboxAssumption DEF InboxTypeOK
    <2>2. QED
      BY <2>1 DEF MarksAll, MarksOne
  <1>3. at'[h] = what /\ (\A g \in Handler : g # h => at'[g] = at[g]) /\ at[h] = Idle
        /\ at' \in [Handler -> MarksAll \cup MarksOne \cup {Idle}]
    BY <1>1, <1>2 DEF BeginMark, Enter, InboxTypeOK
  <1>4. InboxTypeOK'
    BY <1>1, <1>3 DEF InboxTypeOK
  <1>5. ASSUME ~disturbed'
        PROVE  leaf = None /\ ShownFollows'
    <2>1. leaf = None /\ ~disturbed /\ ShownFollows
      BY <1>1, <1>5 DEF InboxInv
    <2>2. /\ Listed' = Listed /\ Unread' = Unread /\ OnPage(turned)' = OnPage(turned)
      BY <1>1, SameRows
    <2>3. Unshown' = Unshown
      BY <1>1, <2>2 DEF Unshown
    <2>4. \A g \in Handler : /\ Busy(g, "oneMarked")' <=> Busy(g, "oneMarked")
                             /\ Busy(g, "allMarked")' <=> Busy(g, "allMarked")
                             /\ Busy(g, "oneMarked") => at'[g] = at[g]
      BY <1>3 DEF Busy, Idle
    <2>5. AllMarked' <=> AllMarked
      BY <2>4 DEF AllMarked
    <2>6. Busy(h, "one")' => at'[h].note \in OnPage(turned)
      <3>1. what.op = "one" => what.note \in DOMAIN inbox.items
        BY DEF BeginMark
      <3>2. QED
        BY <1>3, <2>1, <3>1 DEF ShownFollows, Busy
    <2>7. \A g \in Handler : Busy(g, "one")' \/ Busy(g, "oneMarked")' => at'[g].note \in OnPage(turned)
      BY <1>3, <2>1, <2>4, <2>6 DEF ShownFollows, Busy
    <2>8. \A i \in Unshown' : AllMarked' \/ \E g \in Handler : Busy(g, "oneMarked")' /\ at'[g].note = i
      BY <2>1, <2>3, <2>4, <2>5 DEF ShownFollows
    <2>9. \A g \in Handler : Busy(g, "oneMarked")' => notes'[at'[g].note].read
      BY <1>1, <2>1, <2>4 DEF ShownFollows
    <2>10. QED
      BY <1>1, <2>1, <2>2, <2>3, <2>5, <2>7, <2>8, <2>9 DEF ShownFollows
  <1>6. QED
    BY <1>1, <1>4, <1>5 DEF InboxInv

LEMMA LoseMarkKeeps ==
    ASSUME InboxInv, NEW h \in Handler, LoseMark(h)
    PROVE  InboxInv'
  <1>1. InboxTypeOK /\ UNCHANGED <<notes, turned, leaf, inbox>> /\ at[h].op \in Marks
        /\ disturbed' = (disturbed \/ at[h].op \in {"oneMarked", "allMarked"})
    BY DEF LoseMark, InboxInv
  <1>2. at'[h] = Idle /\ (\A g \in Handler : g # h => at'[g] = at[g])
        /\ at' \in [Handler -> MarksAll \cup MarksOne \cup {Idle}]
    BY <1>1 DEF LoseMark, Leave, Proceed, InboxTypeOK
  <1>3. InboxTypeOK'
    BY <1>1, <1>2 DEF InboxTypeOK
  <1>4. ASSUME ~disturbed', leaf # None PROVE FALSE
    BY <1>1, <1>4 DEF InboxInv, FetchedTrue
  <1>5. ASSUME ~disturbed', leaf = None
        PROVE  ShownFollows'
    <2>1. ~disturbed /\ ShownFollows /\ ~Busy(h, "oneMarked") /\ ~Busy(h, "allMarked")
      BY <1>1, <1>5 DEF InboxInv, Busy
    <2>2. /\ Listed' = Listed /\ Unread' = Unread /\ OnPage(turned)' = OnPage(turned)
      BY <1>1, SameRows
    <2>3. Unshown' = Unshown
      BY <1>1, <2>2 DEF Unshown
    <2>4. \A g \in Handler : /\ Busy(g, "oneMarked")' <=> Busy(g, "oneMarked")
                             /\ Busy(g, "allMarked")' <=> Busy(g, "allMarked")
                             /\ Busy(g, "one")' => Busy(g, "one")
                             /\ Busy(g, "oneMarked")' \/ Busy(g, "one")' => at'[g] = at[g]
      BY <1>2, <2>1 DEF Busy, Idle
    <2>5. AllMarked' <=> AllMarked
      BY <2>4 DEF AllMarked
    <2>6. \A g \in Handler : Busy(g, "one")' \/ Busy(g, "oneMarked")' => at'[g].note \in OnPage(turned)
      BY <2>1, <2>4 DEF ShownFollows
    <2>7. \A i \in Unshown' : AllMarked' \/ \E g \in Handler : Busy(g, "oneMarked")' /\ at'[g].note = i
      BY <2>1, <2>3, <2>4, <2>5 DEF ShownFollows
    <2>8. \A g \in Handler : Busy(g, "oneMarked")' => notes'[at'[g].note].read
      BY <1>1, <2>1, <2>4 DEF ShownFollows
    <2>9. QED
      BY <1>1, <2>1, <2>2, <2>3, <2>5, <2>6, <2>7, <2>8 DEF ShownFollows
  <1>6. QED
    BY <1>1, <1>3, <1>4, <1>5 DEF InboxInv

\* Marks: a handler that marks one or all of the rows.
LEMMA MarkAllKeeps ==
    ASSUME InboxInv, NEW h \in Handler, MarkAll(h)
    PROVE  InboxInv'
  <1>1. InboxTypeOK /\ UNCHANGED <<turned, leaf, inbox, disturbed>> /\ Busy(h, "all")
    BY DEF MarkAll, InboxInv
  <1>2. PICK r \in MarksAll : r = [op |-> "allMarked"] /\ r.op = "allMarked"
    <2>1. [op |-> "allMarked"] \in MarksAll /\ [op |-> "allMarked"].op = "allMarked"
      BY DEF MarksAll
    <2>2. QED
      BY <2>1, Zenon
  <1>3. at'[h] = r /\ (\A g \in Handler : g # h => at'[g] = at[g])
        /\ at' \in [Handler -> MarksAll \cup MarksOne \cup {Idle}]
    BY <1>1, <1>2 DEF MarkAll, Proceed, InboxTypeOK
  <1>4. \A i \in 1..Len(notes) : notes[i] \in NoteRow
    BY <1>1 DEF InboxTypeOK
  <1>5. /\ notes' \in Seq(NoteRow) /\ Len(notes') = Len(notes)
        /\ \A i \in 1..Len(notes) : notes'[i].read /\ notes'[i].visible = notes[i].visible
    <2> DEFINE marked(x) == [x EXCEPT !.read = TRUE]
    <2>1. \A x \in NoteRow : marked(x) \in NoteRow /\ marked(x).read /\ marked(x).visible = x.visible
      BY DEF NoteRow
    <2>2. DOMAIN notes = 1..Len(notes) /\ Len(notes) \in Nat
      BY <1>1 DEF InboxTypeOK
    <2>3. notes' \in [1..Len(notes) -> NoteRow]
      BY <1>4, <2>1, <2>2 DEF MarkAll
    <2>4. \A i \in 1..Len(notes) : notes'[i] = marked(notes[i])
      BY <2>2 DEF MarkAll
    <2> HIDE DEF marked
    <2>5. notes' \in Seq(NoteRow) /\ Len(notes') = Len(notes)
      BY <2>2, <2>3
    <2>6. QED
      BY <1>4, <2>1, <2>4, <2>5
  <1>6. InboxTypeOK'
    BY <1>1, <1>3, <1>5 DEF InboxTypeOK
  <1>7. ASSUME ~disturbed', leaf # None PROVE FALSE
    BY <1>1, <1>7 DEF InboxInv, FetchedTrue, Busy, Marks
  <1>8. ASSUME ~disturbed', leaf = None
        PROVE  ShownFollows'
    <2>1. ~disturbed /\ ShownFollows
      BY <1>1, <1>8 DEF InboxInv
    <2>2. Listed' = Listed
      BY <1>5 DEF Listed
    <2>3. OnPage(turned)' = OnPage(turned) /\ OnPage(turned) \subseteq 1..Len(notes)
      <3>1. OnPage(turned)' = PageOf(Listed', turned')
        BY Zenon DEF OnPage, PageOf
      <3>2. OnPage(turned) = PageOf(Listed, turned) /\ OnPage(turned) \subseteq 1..Len(notes)
        BY <1>1, InboxPages
      <3>3. QED
        BY <1>1, <2>2, <3>1, <3>2
    <2>4. AllMarked'
      BY <1>2, <1>3 DEF AllMarked, Busy
    <2>5. Unread' = {}
      BY <1>5, <2>2 DEF Unread, Listed
    <2>6. \A g \in Handler : /\ Busy(g, "oneMarked")' => Busy(g, "oneMarked")
                             /\ Busy(g, "one")' => Busy(g, "one")
                             /\ Busy(g, "oneMarked")' \/ Busy(g, "one")' => at'[g] = at[g]
      BY <1>2, <1>3 DEF Busy
    <2>7. \A g \in Handler : Busy(g, "one")' \/ Busy(g, "oneMarked")' => at'[g].note \in OnPage(turned)
      BY <2>1, <2>6 DEF ShownFollows
    <2>8. \A i \in OnPage(turned) : notes'[i].read
      BY <1>5, <2>3
    <2>9. QED
      BY <1>1, <2>1, <2>3, <2>4, <2>5, <2>6, <2>7, <2>8 DEF ShownFollows
  <1>9. QED
    BY <1>1, <1>6, <1>7, <1>8 DEF InboxInv

LEMMA MarkOneKeeps ==
    ASSUME InboxInv, NEW h \in Handler, MarkOne(h)
    PROVE  InboxInv'
  <1>1. InboxTypeOK /\ UNCHANGED <<turned, leaf, inbox>> /\ Busy(h, "one")
    BY DEF MarkOne, InboxInv
  <1>2. PICK x \in MarksOne : x = at[h]
    BY <1>1 DEF InboxTypeOK, MarksAll, MarksOne, Busy, Idle
  <1>3. PICK k \in 1..MaxNotes : k = x.note
    BY DEF MarksOne
  <1>4. PICK r \in MarksOne : r = [x EXCEPT !.op = "oneMarked"] /\ r.op = "oneMarked" /\ r.note = k
    <2>1. /\ [x EXCEPT !.op = "oneMarked"] \in MarksOne /\ [x EXCEPT !.op = "oneMarked"].op = "oneMarked"
          /\ [x EXCEPT !.op = "oneMarked"].note = k
      BY <1>3 DEF MarksOne
    <2>2. QED
      BY <2>1, Zenon
  <1>5. at'[h] = r /\ (\A g \in Handler : g # h => at'[g] = at[g])
        /\ at' \in [Handler -> MarksAll \cup MarksOne \cup {Idle}]
    BY <1>1, <1>2, <1>4 DEF MarkOne, Proceed, InboxTypeOK
  <1>6. \A i \in 1..Len(notes) : notes[i] \in NoteRow
    BY <1>1 DEF InboxTypeOK
  <1>7. ASSUME k \in Listed, notes' = [notes EXCEPT ![k].read = TRUE]
        PROVE  /\ notes' \in Seq(NoteRow) /\ Len(notes') = Len(notes)
               /\ \A i \in 1..Len(notes) : notes'[i].visible = notes[i].visible
               /\ notes'[k].read
               /\ \A i \in 1..Len(notes) : i # k => notes'[i] = notes[i]
    <2>1. k \in 1..Len(notes)
      BY <1>7 DEF Listed
    <2>2. PICK m \in NoteRow : m = [notes[k] EXCEPT !.read = TRUE] /\ m.read /\ m.visible = notes[k].visible
      <3>1. PICK n \in NoteRow : n = notes[k]
        BY <1>6, <2>1
      <3>2. [n EXCEPT !.read = TRUE] \in NoteRow /\ [n EXCEPT !.read = TRUE].read /\ [n EXCEPT !.read = TRUE].visible = n.visible
        BY DEF NoteRow
      <3>3. QED
        BY <3>1, <3>2, Zenon
    <2>3. notes' = [notes EXCEPT ![k] = m]
      BY <1>7, <2>2
    <2>4. notes' \in Seq(NoteRow) /\ Len(notes') = Len(notes) /\ notes'[k] = m
          /\ \A i \in 1..Len(notes) : i # k => notes'[i] = notes[i]
      BY <1>1, <2>1, <2>3 DEF InboxTypeOK
    <2>5. QED
      BY <2>1, <2>2, <2>4
  <1>8. \/ k \in Listed /\ notes' = [notes EXCEPT ![k].read = TRUE] /\ disturbed' = disturbed
        \/ disturbed' = TRUE /\ notes' = notes
    BY <1>2, <1>3 DEF MarkOne
  <1>9. InboxTypeOK'
    BY <1>1, <1>5, <1>7, <1>8 DEF InboxTypeOK
  <1>10. ASSUME ~disturbed', leaf # None PROVE FALSE
    BY <1>1, <1>8, <1>10 DEF InboxInv, FetchedTrue, Busy, Marks
  <1>11. ASSUME ~disturbed', leaf = None
         PROVE  ShownFollows'
    <2>1. ~disturbed /\ ShownFollows /\ k \in Listed /\ notes' = [notes EXCEPT ![k].read = TRUE]
      BY <1>1, <1>8, <1>11 DEF InboxInv
    <2>2. /\ Len(notes') = Len(notes) /\ notes'[k].read
          /\ \A i \in 1..Len(notes) : notes'[i].visible = notes[i].visible
          /\ \A i \in 1..Len(notes) : i # k => notes'[i] = notes[i]
          /\ k \in 1..Len(notes)
      BY <1>7, <2>1 DEF Listed
    <2>3. Listed' = Listed
      BY <2>2 DEF Listed
    <2>4. /\ OnPage(turned)' = OnPage(turned) /\ OnPage(turned) \subseteq Listed /\ Listed \subseteq 1..Len(notes)
          /\ IsFiniteSet(Unread) /\ Cardinality(Unread) \in Nat
          /\ IsFiniteSet(Unshown) /\ Cardinality(Unshown) \in Nat
      <3>1. OnPage(turned)' = PageOf(Listed', turned')
        BY Zenon DEF OnPage, PageOf
      <3>2. OnPage(turned) = PageOf(Listed, turned)
        BY <1>1, InboxPages
      <3>3. QED
        BY <1>1, <2>3, <3>1, <3>2, InboxPages
    <2>5. k \in OnPage(turned)
      BY <1>1, <1>2, <1>3, <2>1 DEF ShownFollows
    <2>6. Unread' = Unread \ {k}
      BY <2>2, <2>3, <2>4 DEF Unread
    <2>7. /\ \A g \in Handler : g # h => (Busy(g, "oneMarked")' <=> Busy(g, "oneMarked"))
          /\ \A g \in Handler : (Busy(g, "allMarked")' <=> Busy(g, "allMarked"))
          /\ \A g \in Handler : Busy(g, "one")' => Busy(g, "one") /\ g # h
          /\ ~Busy(h, "oneMarked") /\ Busy(h, "oneMarked")' /\ at'[h].note = k
      BY <1>1, <1>4, <1>5 DEF Busy
    <2>8. AllMarked' <=> AllMarked
      BY <2>7 DEF AllMarked
    <2>9. /\ inbox'.unread \in Nat /\ inbox'.items \in [OnPage(turned)' -> BOOLEAN]
          /\ \A i \in OnPage(turned)' : inbox'.items[i] => notes'[i].read
      BY <1>1, <2>1, <2>2, <2>4 DEF ShownFollows
    <2>10. Unshown' \subseteq Unshown \cup {k}
      BY <1>1, <2>2, <2>4 DEF Unshown
    <2>11. \A i \in Unshown' : AllMarked' \/ \E g \in Handler : Busy(g, "oneMarked")' /\ at'[g].note = i
      <3>1. TAKE i \in Unshown'
      <3>2. CASE i = k
        BY <2>7, <3>2
      <3>3. CASE i # k
        <4>1. i \in Unshown
          BY <2>10, <3>3
        <4>2. AllMarked \/ \E g \in Handler : Busy(g, "oneMarked") /\ at[g].note = i
          BY <2>1, <4>1 DEF ShownFollows
        <4>3. QED
          BY <1>5, <2>7, <2>8, <4>2
      <3>4. QED
        BY <3>2, <3>3
    <2>12. \A g \in Handler : Busy(g, "one")' \/ Busy(g, "oneMarked")' => at'[g].note \in OnPage(turned)'
      BY <1>5, <2>1, <2>4, <2>5, <2>7 DEF ShownFollows
    <2>13. \A g \in Handler : Busy(g, "oneMarked")' => notes'[at'[g].note].read
      <3>1. \A i \in OnPage(turned) : notes[i].read => notes'[i].read
        BY <2>2, <2>4
      <3>2. QED
        BY <1>5, <2>1, <2>2, <2>7, <3>1 DEF ShownFollows
    <2>14. AllMarked' => Unread' = {}
      BY <2>1, <2>6, <2>8 DEF ShownFollows
    <2>15. ASSUME ~AllMarked'
           PROVE  inbox'.unread = Cardinality(Unread') + Cardinality(Unshown')
      <3>1. inbox.unread = Cardinality(Unread) + Cardinality(Unshown)
        BY <2>1, <2>8, <2>15 DEF ShownFollows
      <3>2. CASE notes[k].read
        <4>1. k \notin Unread
          BY <3>2 DEF Unread
        <4>2. Unread' = Unread
          BY <2>6, <4>1
        <4>3. Unshown' = Unshown
          BY <1>1, <2>2, <2>4, <3>2 DEF Unshown
        <4>4. QED
          BY <1>1, <3>1, <4>2, <4>3
      <3>3. CASE ~notes[k].read
        <4>1. k \in Unread /\ k \notin Unshown
          BY <2>1, <3>3 DEF Unread, Unshown
        <4>2. ~inbox.items[k]
          BY <2>1, <2>5, <3>3 DEF ShownFollows
        <4>3. Unshown' = Unshown \cup {k}
          BY <1>1, <2>2, <2>4, <2>5, <4>2 DEF Unshown
        <4>4. Cardinality(Unread') = Cardinality(Unread) - 1
          BY <2>4, <2>6, <4>1, FS_RemoveElement
        <4>5. Cardinality(Unshown') = Cardinality(Unshown) + 1
          BY <2>4, <4>1, <4>3, FS_AddElement
        <4>6. QED
          BY <1>1, <2>4, <3>1, <4>4, <4>5
      <3>4. QED
        BY <3>2, <3>3
    <2>16. QED
      BY <2>9, <2>11, <2>12, <2>13, <2>14, <2>15 DEF ShownFollows
  <1>12. QED
    BY <1>1, <1>9, <1>10, <1>11 DEF InboxInv

\* An answer is shown.
LEMMA ShowAllReadKeeps ==
    ASSUME InboxInv, NEW h \in Handler, ShowAllRead(h)
    PROVE  InboxInv'
  <1>1. InboxTypeOK /\ UNCHANGED <<notes, turned, leaf, disturbed>> /\ Busy(h, "allMarked")
        /\ inbox' = [items |-> [i \in DOMAIN inbox.items |-> TRUE], unread |-> 0]
    BY DEF ShowAllRead, InboxInv
  <1>2. at'[h] = Idle /\ (\A g \in Handler : g # h => at'[g] = at[g])
        /\ at' \in [Handler -> MarksAll \cup MarksOne \cup {Idle}]
    BY <1>1 DEF ShowAllRead, Leave, Proceed, InboxTypeOK
  <1>3. InboxTypeOK'
    BY <1>1, <1>2 DEF InboxTypeOK
  <1>4. ASSUME ~disturbed, leaf # None PROVE FALSE
    BY <1>1, <1>4 DEF InboxInv, FetchedTrue, Busy, Marks
  <1>5. ASSUME ~disturbed, leaf = None
        PROVE  ShownFollows'
    <2>1. ShownFollows /\ AllMarked
      BY <1>1, <1>5 DEF InboxInv, AllMarked
    <2>2. /\ Unread' = Unread /\ OnPage(turned)' = OnPage(turned)
      BY <1>1, SameRows
    <2>3. Unread = {} /\ DOMAIN inbox.items = OnPage(turned) /\ OnPage(turned) \subseteq Listed
      BY <1>1, <2>1, InboxPages DEF ShownFollows
    <2>4. \A i \in OnPage(turned) : notes[i].read
      BY <2>3 DEF Unread
    <2>5. inbox'.unread = 0 /\ inbox'.items \in [OnPage(turned) -> BOOLEAN] /\ \A i \in OnPage(turned) : inbox'.items[i]
      BY <1>1, <2>3
    <2>6. Unshown' = {}
      BY <2>2, <2>5 DEF Unshown
    <2>7. Cardinality(Unread') = 0 /\ Cardinality(Unshown') = 0
      BY <2>2, <2>3, <2>6, FS_EmptySet
    <2>8. \A g \in Handler : /\ Busy(g, "oneMarked")' => Busy(g, "oneMarked")
                             /\ Busy(g, "one")' => Busy(g, "one")
                             /\ Busy(g, "oneMarked")' \/ Busy(g, "one")' => at'[g] = at[g]
      BY <1>2 DEF Busy, Idle
    <2>9. /\ \A g \in Handler : Busy(g, "one")' \/ Busy(g, "oneMarked")' => at'[g].note \in OnPage(turned)'
          /\ \A g \in Handler : Busy(g, "oneMarked")' => notes'[at'[g].note].read
      BY <1>1, <2>1, <2>2, <2>8 DEF ShownFollows
    <2>10. QED
      BY <1>1, <2>2, <2>3, <2>4, <2>5, <2>6, <2>7, <2>9 DEF ShownFollows
  <1>6. QED
    BY <1>1, <1>3, <1>4, <1>5 DEF InboxInv

LEMMA ShowOneReadKeeps ==
    ASSUME InboxInv, NEW h \in Handler, ShowOneRead(h)
    PROVE  InboxInv'
  <1>1. InboxTypeOK /\ UNCHANGED <<notes, turned, leaf, disturbed>> /\ Busy(h, "oneMarked")
    BY DEF ShowOneRead, InboxInv
  <1>2. at'[h] = Idle /\ (\A g \in Handler : g # h => at'[g] = at[g])
        /\ at' \in [Handler -> MarksAll \cup MarksOne \cup {Idle}]
    BY <1>1 DEF ShowOneRead, Leave, Proceed, InboxTypeOK
  <1>3. InboxTypeOK'
    BY <1>1, <1>2 DEF InboxTypeOK
  <1>4. ASSUME ~disturbed, leaf # None PROVE FALSE
    BY <1>1, <1>4 DEF InboxInv, FetchedTrue, Busy, Marks
  <1>5. ASSUME ~disturbed, leaf = None
        PROVE  ShownFollows'
    <2>1. ShownFollows
      BY <1>1, <1>5 DEF InboxInv
    <2>2. /\ Unread' = Unread /\ OnPage(turned)' = OnPage(turned)
      BY <1>1, SameRows
    <2>3. /\ IsFiniteSet(Unread) /\ Cardinality(Unread) \in Nat
          /\ IsFiniteSet(Unshown) /\ Cardinality(Unshown) \in Nat
      BY <1>1, InboxPages
    <2>4. PICK k : k = at[h].note /\ k \in OnPage(turned) /\ notes[k].read
      BY <1>1, <2>1 DEF ShownFollows
    <2>5. DOMAIN inbox.items = OnPage(turned) /\ inbox.unread \in Nat
      BY <2>1 DEF ShownFollows
    <2>6. PICK n \in Int : n = inbox.unread - ToCount(k)
      BY <2>5 DEF ToCount
    <2>7. inbox' = [items |-> [i \in DOMAIN inbox.items |-> inbox.items[i] \/ i = k], unread |-> IF n < 0 THEN 0 ELSE n]
      BY <2>4, <2>6 DEF ShowOneRead
    <2>8. inbox'.unread = IF n < 0 THEN 0 ELSE n
      BY <2>7
    <2>9. /\ inbox'.items \in [OnPage(turned) -> BOOLEAN]
          /\ \A i \in OnPage(turned) : inbox'.items[i] <=> inbox.items[i] \/ i = k
      BY <2>5, <2>7
    <2>10. inbox'.unread \in Nat
      BY <2>8
    <2>11. \A i \in OnPage(turned)' : inbox'.items[i] => notes'[i].read
      BY <1>1, <2>1, <2>2, <2>4, <2>9 DEF ShownFollows
    <2>12. Unshown' = Unshown \ {k}
      BY <1>1, <2>2, <2>9 DEF Unshown
    <2>13. \A g \in Handler : /\ g # h => (Busy(g, "oneMarked")' <=> Busy(g, "oneMarked"))
                              /\ Busy(g, "oneMarked")' => Busy(g, "oneMarked")
                              /\ Busy(g, "allMarked")' <=> Busy(g, "allMarked")
                              /\ Busy(g, "one")' => Busy(g, "one")
                              /\ Busy(g, "oneMarked")' \/ Busy(g, "one")' => at'[g] = at[g]
      BY <1>1, <1>2 DEF Busy, Idle
    <2>14. AllMarked' <=> AllMarked
      BY <2>13 DEF AllMarked
    <2>15. /\ \A g \in Handler : Busy(g, "one")' \/ Busy(g, "oneMarked")' => at'[g].note \in OnPage(turned)'
           /\ \A g \in Handler : Busy(g, "oneMarked")' => notes'[at'[g].note].read
      BY <1>1, <2>1, <2>2, <2>13 DEF ShownFollows
    <2>16. \A i \in Unshown' : AllMarked' \/ \E g \in Handler : Busy(g, "oneMarked")' /\ at'[g].note = i
      <3>1. TAKE i \in Unshown'
      <3>2. i \in Unshown /\ i # k
        BY <2>12
      <3>3. AllMarked \/ \E g \in Handler : Busy(g, "oneMarked") /\ at[g].note = i
        BY <2>1, <3>2 DEF ShownFollows
      <3>4. QED
        BY <1>2, <2>4, <2>13, <2>14, <3>2, <3>3
    <2>17. ASSUME ~AllMarked'
           PROVE  inbox'.unread = Cardinality(Unread') + Cardinality(Unshown')
      <3>1. inbox.unread = Cardinality(Unread) + Cardinality(Unshown)
        BY <2>1, <2>14, <2>17 DEF ShownFollows
      <3>2. CASE inbox.items[k]
        <4>1. ToCount(k) = 0
          BY <2>4, <2>5, <3>2 DEF ToCount
        <4>2. Unshown' = Unshown
          BY <2>12, <3>2 DEF Unshown
        <4>3. QED
          BY <2>2, <2>3, <2>6, <2>8, <3>1, <4>1, <4>2
      <3>3. CASE ~inbox.items[k]
        <4>1. ToCount(k) = 1
          BY <3>3 DEF ToCount
        <4>2. k \in Unshown
          BY <2>4, <3>3 DEF Unshown
        <4>3. Cardinality(Unshown') = Cardinality(Unshown) - 1
          BY <2>3, <2>12, <4>2, FS_RemoveElement
        <4>4. Cardinality(Unshown) # 0
          BY <2>3, <4>2, FS_EmptySet
        <4>5. QED
          BY <2>2, <2>3, <2>6, <2>8, <3>1, <4>1, <4>3, <4>4
      <3>4. QED
        BY <3>2, <3>3
    <2>18. AllMarked' => Unread' = {}
      BY <2>1, <2>2, <2>14 DEF ShownFollows
    <2>19. QED
      BY <2>2, <2>9, <2>10, <2>11, <2>15, <2>16, <2>17, <2>18 DEF ShownFollows
  <1>6. QED
    BY <1>1, <1>3, <1>4, <1>5 DEF InboxInv

LEMMA InboxShows ==
    ASSUME InboxInv
    PROVE  InboxTells
  <1> SUFFICES ASSUME inbox # None, leaf = None, ~disturbed
               PROVE  /\ \A i \in DOMAIN inbox.items : inbox.items[i] => notes[i].read
                      /\ ~Marking => /\ inbox.unread = CountUnread
                                     /\ inbox.items = [i \in OnPage(turned) |-> notes[i].read]
    BY DEF InboxTells
  <1>1. InboxTypeOK /\ ShownFollows /\ DOMAIN inbox.items = OnPage(turned)
    BY DEF InboxInv, ShownFollows
  <1>2. ASSUME ~Marking
        PROVE  /\ inbox.unread = CountUnread
               /\ inbox.items = [i \in OnPage(turned) |-> notes[i].read]
    <2>1. \A h \in Handler : ~Busy(h, "oneMarked") /\ ~Busy(h, "allMarked")
      BY <1>2 DEF Marking, Marks, Busy
    <2>2. ~AllMarked /\ Unshown = {}
      BY <1>1, <2>1 DEF ShownFollows, AllMarked
    <2>3. Cardinality(Unshown) = 0 /\ CountUnread = Cardinality(Unread) /\ Cardinality(Unread) \in Nat
          /\ OnPage(turned) \subseteq 1..Len(notes)
      BY <1>1, <2>2, FS_EmptySet, InboxPages
    <2>4. inbox.unread = CountUnread
      BY <1>1, <2>2, <2>3 DEF ShownFollows
    <2>5. \A i \in OnPage(turned) : inbox.items[i] \in BOOLEAN /\ notes[i].read \in BOOLEAN /\ (inbox.items[i] <=> notes[i].read)
      <3>1. \A i \in 1..Len(notes) : notes[i] \in NoteRow
        BY <1>1 DEF InboxTypeOK
      <3>2. \A i \in OnPage(turned) : notes[i].read \in BOOLEAN
        BY <2>3, <3>1 DEF NoteRow
      <3>3. \A i \in OnPage(turned) : notes[i].read => inbox.items[i]
        BY <2>2 DEF Unshown
      <3>4. QED
        BY <1>1, <3>2, <3>3 DEF ShownFollows
    <2>6. \A i \in OnPage(turned) : inbox.items[i] = notes[i].read
      BY <2>5
    <2>7. QED
      BY <1>1, <2>4, <2>6 DEF ShownFollows
  <1>3. QED
    BY <1>1, <1>2 DEF ShownFollows

LEMMA InboxStutterKeeps ==
    ASSUME InboxInv, UNCHANGED inboxState
    PROVE  InboxInv'
  <1>1. UNCHANGED <<notes, turned, leaf, inbox, disturbed, at>>
    BY DEF inboxState, inboxVars, handlers
  <1>2. /\ Unread' = Unread /\ OnPage(turned)' = OnPage(turned) /\ CountUnread' = CountUnread
        /\ \A S : ReadOn(S)' = ReadOn(S)
    BY <1>1, SameRows
  <1>3. Unshown' = Unshown /\ (AllMarked' <=> AllMarked)
    BY <1>1, <1>2 DEF Unshown, AllMarked, Busy
  <1>4. InboxTypeOK'
    BY <1>1 DEF InboxInv, InboxTypeOK
  <1>5. FetchedTrue => FetchedTrue'
    BY <1>1, <1>2 DEF FetchedTrue
  <1>6. ShownFollows => ShownFollows'
    BY <1>1, <1>2, <1>3 DEF ShownFollows, Busy
  <1>7. QED
    BY <1>1, <1>4, <1>5, <1>6 DEF InboxInv

\* For every number of notifications, every size of a page and any number of marks: what is
\* shown as read is read, and with nothing on its way the page and its count are those of
\* the rows, unless something disturbed them (src/components/notification-inbox.tsx,
\* src/app/api/notifications).
THEOREM InboxShowsRows ==
    ASSUME NEW requests
    PROVE  InboxSpec(requests) => []InboxTells
  <1>1. InboxInit /\ HandlersInit(requests) => InboxInv
    BY InboxInitKeeps
  <1>2. InboxInv /\ [InboxNext]_inboxState => InboxInv'
    <2> SUFFICES ASSUME InboxInv, [InboxNext]_inboxState PROVE InboxInv'
      OBVIOUS
    <2>1. ASSUME NEW h \in Handler, BeginMark(h, [op |-> "all"]) PROVE InboxInv'
      <3>1. [op |-> "all"] \in [op : {"all"}]
        OBVIOUS
      <3>2. QED
        BY <2>1, <3>1, BeginMarkKeeps
    <2>2. ASSUME NEW h \in Handler, NEW i \in 1..Len(notes), BeginMark(h, [op |-> "one", note |-> i]) PROVE InboxInv'
      <3>1. [op |-> "one", note |-> i] \in [op : {"one"}, note : 1..Len(notes)]
        OBVIOUS
      <3>2. QED
        BY <2>2, <3>1, BeginMarkKeeps
    <2>3. QED
      BY <2>1, <2>2, FetchKeeps, ShowLeafKeeps, TurnKeeps, OthersKeep, MarkAllKeeps, MarkOneKeeps,
         ShowAllReadKeeps, ShowOneReadKeeps, LoseMarkKeeps, InboxStutterKeeps DEF InboxNext
  <1>3. InboxInv => InboxTells
    BY InboxShows
  <1>4. QED
    BY <1>1, <1>2, <1>3, PTL DEF InboxSpec

-----------------------------------------------------------------------------
(* The discussion of an issue.                                             *)

discussionState == <<handlers, discussionVars>>

DiscussionSpec(requests) == DiscussionInit /\ HandlersInit(requests) /\ [][DiscussionNext]_discussionState

EntryRow  == [kind : Kind, by : Reader, object : Nat \cup {None}, calls : SUBSET Reader]
NoticeRow == [entry : Nat, to : Reader, type : {"COMMENTED", "MENTIONED"}]
SheetRow  == [shown : [Kind -> Seq(Nat)], own : SUBSET Nat, loaded : BOOLEAN]

AddRequest == [op : {"add"}, kind : Kind, by : Reader, object : Nat \cup {None},
               watching : SUBSET Reader, mentioned : SUBSET Reader]
AddAnswer  == [op : {"added"}, kind : Kind, by : Reader, entry : Nat]

DiscussionTypeOK ==
  /\ entries \in Seq(EntryRow)
  /\ objects \in Seq(BOOLEAN)
  /\ followers \in SUBSET Reader
  /\ notices \in SUBSET NoticeRow
  /\ sheet \in SheetRow
  /\ details \in [Kind -> Seq(Nat)] \cup {None}
  /\ strays \in SUBSET Nat /\ bared \in SUBSET Nat /\ blurred \in BOOLEAN
  /\ at \in [Handler -> AddRequest \cup AddAnswer \cup {Idle}]

\* An object is in the store as long as an attachment or an upload has it, and no two have it.
InStore(o)  == o \in 1..Len(objects) /\ objects[o]
Attached(o) == \E e \in 1..Len(entries) : entries[e].object = o
Holds(h, o) == Busy(h, "add") /\ at[h].object = o

FilesKept ==
  /\ \A o \in Nat : Attached(o) => InStore(o) \/ o \in bared
  /\ \A o \in Nat : \A h \in Handler : Holds(h, o) => InStore(o) /\ ~Attached(o) /\ o \notin strays
  /\ \A o \in Nat : \A g, h \in Handler : Holds(g, o) /\ Holds(h, o) => g = h
  /\ \A o \in Nat : InStore(o) => Attached(o) \/ (\E h \in Handler : Holds(h, o)) \/ o \in strays
  /\ \A o \in strays : o \in 1..Len(objects) /\ ~Attached(o)
  /\ \A o \in Nat : Attached(o) => o \in 1..Len(objects)

\* Who was told of an entry, when it was made, never changes.
IsTold(e, p) == \E n \in notices : n.entry = e /\ n.type = "COMMENTED" /\ n.to = p

NoticesKept ==
  /\ \A n \in notices : n.entry \in 1..Len(entries)
  /\ \A e \in 1..Len(entries) :
       /\ \A p \in entries[e].calls : p # entries[e].by => IsTold(e, p)
       /\ \A p : p = entries[e].by => ~IsTold(e, p)
       /\ entries[e].kind # "comment" => \A p : ~IsTold(e, p)
  /\ \A h \in Handler : Busy(h, "add") /\ at[h].kind # "comment" => at[h].watching = {}
  /\ \A h \in Handler : Busy(h, "added") => at[h].entry \in 1..Len(entries)

\* What Viewer has added and the panel does not show yet comes after what it shows.
InOrderBelow(s, n) ==
  /\ \A i, j \in 1..Len(s) : i < j => s[i] < s[j]
  /\ \A i \in 1..Len(s) : s[i] <= n
Has(s, e) == \E i \in 1..Len(s) : s[i] = e

PanelKept ==
  /\ ~sheet.loaded => sheet.own = {} /\ \A h \in Handler : ~ByViewer(h)
  /\ details # None => ~sheet.loaded /\ \A k \in Kind : InOrderBelow(details[k], Len(entries))
  /\ sheet.loaded => \A k \in Kind : InOrderBelow(sheet.shown[k], Len(entries))
  /\ \A e \in sheet.own : e \in 1..Len(entries) /\ Has(sheet.shown[entries[e].kind], e)
  /\ \A h \in Handler : Busy(h, "added") => at[h].entry \in 1..Len(entries) /\ entries[at[h].entry].kind = at[h].kind
  /\ \A g, h \in Handler : ByViewer(g) /\ ByViewer(h) /\ at[g].kind = at[h].kind => g = h
  /\ \A h \in Handler : ByViewer(h) /\ Busy(h, "added") =>
       \A i \in 1..Len(sheet.shown[at[h].kind]) : sheet.shown[at[h].kind][i] < at[h].entry

DiscussionInv == DiscussionTypeOK /\ FilesKept /\ NoticesKept /\ (blurred \/ PanelKept)

\* The rows of a kind can be listed in order.
LEMMA RowsInOrder ==
    ASSUME NEW n \in Nat, NEW S \in SUBSET (1..n)
    PROVE  \E s \in [1..Cardinality(S) -> S] : \A i, j \in DOMAIN s : i < j => s[i] < s[j]
  <1> DEFINE Sorted(R) == \E s \in [1..Cardinality(R) -> R] : \A i, j \in 1..Cardinality(R) : i < j => s[i] < s[j]
             Bad == {m \in Nat : \E R \in SUBSET (1..m) : ~Sorted(R)}
  <1> HIDE DEF Sorted, Bad
  <1>1. Bad = {}
    <2> SUFFICES ASSUME Bad # {} PROVE FALSE
      OBVIOUS
    <2>1. PICK m \in Bad : \A y \in Bad : <<y, m>> \notin OpToRel(<, Nat)
      <3>1. Bad \in SUBSET Nat /\ Bad # {}
        BY DEF Bad
      <3>2. QED
        BY <3>1, WFMin, NatLessThanWellFounded, Zenon
    <2>2. m \in Nat /\ \A y \in Bad : ~(y < m)
      <3>1. m \in Nat
        BY DEF Bad
      <3>2. \A y \in Bad : ~(y < m)
        <4>1. \A y \in Bad : y \in Nat
          BY DEF Bad
        <4>2. QED
          BY <2>1, <3>1, <4>1, Zenon DEF OpToRel
      <3>3. QED
        BY <3>1, <3>2
    <2>3. PICK R \in SUBSET (1..m) : ~Sorted(R)
      BY DEF Bad
    <2>4. m # 0
      <3>1. CASE m = 0
        <4>1. R = {} /\ Cardinality(R) = 0
          <5>1. R = {}
            BY <3>1
          <5>2. QED
            BY <5>1, FS_EmptySet
        <4>2. PICK s : s = [i \in 1..0 |-> i]
          OBVIOUS
        <4>3. s \in [1..Cardinality(R) -> R] /\ 1..Cardinality(R) = {}
          BY <4>1, <4>2
        <4>4. Sorted(R)
          BY <4>1, <4>2, <4>3 DEF Sorted
        <4>5. QED
          BY <2>3, <4>4
      <3>2. QED
        BY <3>1
    <2>5. m - 1 \in Nat /\ m - 1 \notin Bad
      BY <2>2, <2>4
    <2>6. \A Q \in SUBSET (1..m - 1) : Sorted(Q)
      BY <2>5 DEF Bad
    <2>7. m \in R
      <3>1. m \notin R => R \in SUBSET (1..m - 1)
        BY <2>2
      <3>2. QED
        BY <2>3, <2>6, <3>1
    <2>8. PICK Q \in SUBSET (1..m - 1) : Q = R \ {m}
      <3>1. \A x \in 1..m : x # m => x \in 1..m - 1
        BY <2>2
      <3>2. R \ {m} \in SUBSET (1..m - 1)
        BY <3>1
      <3>3. QED
        BY <3>2, Zenon
    <2>9. PICK c \in Nat : c = Cardinality(Q) /\ Cardinality(R) = c + 1
      <3>1. IsFiniteSet(R)
        <4>1. IsFiniteSet(1..m)
          BY <2>2, FS_Interval
        <4>2. QED
          BY <4>1, FS_Subset
      <3>2. Cardinality(Q) = Cardinality(R) - 1 /\ Cardinality(R) \in Nat /\ Cardinality(Q) \in Nat
        BY <2>7, <2>8, <3>1, FS_RemoveElement, FS_CardinalityType
      <3>3. QED
        BY <3>2
    <2>10. PICK s \in [1..c -> Q] : \A i, j \in 1..c : i < j => s[i] < s[j]
      <3>1. Sorted(Q)
        BY <2>6
      <3>2. QED
        BY <2>9, <3>1 DEF Sorted
    <2>11. PICK t : t = [i \in 1..c + 1 |-> IF i = c + 1 THEN m ELSE s[i]]
      OBVIOUS
    <2>12. /\ t \in [1..c + 1 -> R] /\ t[c + 1] = m
           /\ \A i \in 1..c : t[i] = s[i] /\ s[i] \in 1..m - 1
      <3>1. \A i \in 1..c : i \in 1..c + 1 /\ i # c + 1
        OBVIOUS
      <3>2. c + 1 \in 1..c + 1
        OBVIOUS
      <3>3. \A i \in 1..c + 1 : i # c + 1 => i \in 1..c
        OBVIOUS
      <3>4. t[c + 1] = m /\ \A i \in 1..c : t[i] = s[i]
        BY <2>11, <3>1, <3>2
      <3>5. \A i \in 1..c : s[i] \in Q
        OBVIOUS
      <3>6. \A i \in 1..c + 1 : t[i] \in R
        BY <2>7, <2>8, <3>3, <3>4, <3>5
      <3>7. t \in [1..c + 1 -> R]
        BY <2>11, <3>6
      <3>8. QED
        BY <3>4, <3>5, <3>7
    <2>13. \A i, j \in 1..c + 1 : i < j => t[i] < t[j]
      BY <2>2, <2>10, <2>12
    <2>14. Sorted(R)
      BY <2>9, <2>12, <2>13 DEF Sorted
    <2>15. QED
      BY <2>3, <2>14
  <1>2. Sorted(S)
    BY <1>1 DEF Bad
  <1>3. QED
    BY <1>2 DEF Sorted

LEMMA ListingIs ==
    ASSUME DiscussionTypeOK, NEW k \in Kind
    PROVE  Listing(k) \in Seq(Nat) /\ InOrderBelow(Listing(k), Len(entries))
  <1>1. PICK n \in Nat : n = Len(entries)
    BY DEF DiscussionTypeOK
  <1>2. PICK S \in SUBSET (1..n) : S = {i \in 1..Len(entries) : entries[i].kind = k}
    BY <1>1
  <1>3. \E s \in [1..Cardinality(S) -> S] : \A i, j \in DOMAIN s : i < j => s[i] < s[j]
    BY RowsInOrder
  <1>4. Listing(k) = CHOOSE s \in [1..Cardinality(S) -> S] : \A i, j \in DOMAIN s : i < j => s[i] < s[j]
    BY <1>2, Zenon DEF Listing
  <1>5. Listing(k) \in [1..Cardinality(S) -> S] /\ \A i, j \in DOMAIN Listing(k) : i < j => Listing(k)[i] < Listing(k)[j]
    BY <1>3, <1>4, Zenon
  <1>6. PICK l : l = Listing(k)
    OBVIOUS
  <1>7. PICK c \in Nat : c = Cardinality(S)
    <2>1. IsFiniteSet(1..n)
      BY <1>1, FS_Interval
    <2>2. IsFiniteSet(S)
      BY <2>1, FS_Subset
    <2>3. QED
      BY <2>2, FS_CardinalityType
  <1>8. l \in [1..c -> S] /\ \A i, j \in 1..c : i < j => l[i] < l[j]
    BY <1>5, <1>6, <1>7
  <1>9. l \in Seq(Nat) /\ Len(l) = c
    <2>1. \A i \in 1..c : l[i] \in Nat
      <3>1. \A x \in S : x \in Nat
        BY <1>1
      <3>2. \A i \in 1..c : l[i] \in S
        BY <1>8
      <3>3. QED
        BY <3>1, <3>2
    <2>2. l \in [1..c -> Nat]
      BY <1>8, <2>1
    <2>3. QED
      BY <2>2
  <1>10. InOrderBelow(l, n)
    <2>1. \A x \in S : x <= n
      BY <1>1
    <2>2. QED
      BY <1>8, <1>9, <2>1 DEF InOrderBelow
  <1>11. QED
    BY <1>1, <1>6, <1>9, <1>10

LEMMA DiscussionInitKeeps ==
    ASSUME NEW requests, DiscussionInit, HandlersInit(requests)
    PROVE  DiscussionInv
  <1>1. \A h \in Handler : at[h] = Idle
    BY DEF HandlersInit
  <1>2. \A h \in Handler : ~Busy(h, "add") /\ ~Busy(h, "added") /\ ~ByViewer(h)
    BY <1>1 DEF Busy, ByViewer, Idle
  <1>3. PICK none : none = [k \in Kind |-> <<>>]
    OBVIOUS
  <1>4. none \in [Kind -> Seq(Nat)]
    BY <1>3
  <1>5. PICK s : s = [shown |-> none, own |-> {}, loaded |-> FALSE]
    OBVIOUS
  <1>6. sheet = s
    BY <1>3, <1>5 DEF DiscussionInit
  <1>7. s \in SheetRow /\ s.own = {} /\ ~s.loaded
    BY <1>4, <1>5 DEF SheetRow
  <1>8. DiscussionTypeOK
    <2>1. entries \in Seq(EntryRow) /\ objects \in Seq(BOOLEAN) /\ notices \in SUBSET NoticeRow
      BY DEF DiscussionInit
    <2>2. followers \in SUBSET Reader /\ strays = {} /\ bared = {} /\ blurred \in BOOLEAN /\ details = None
      BY DEF DiscussionInit
    <2>3. at \in [Handler -> AddRequest \cup AddAnswer \cup {Idle}]
      BY DEF HandlersInit
    <2>4. QED
      BY <1>6, <1>7, <2>1, <2>2, <2>3 DEF DiscussionTypeOK
  <1>9. entries = <<>> /\ objects = <<>> /\ notices = {} /\ details = None
    BY DEF DiscussionInit
  <1>10. FilesKept
    BY <1>2, <1>9 DEF FilesKept, InStore, Attached, Holds, DiscussionInit
  <1>11. NoticesKept
    BY <1>2, <1>9 DEF NoticesKept
  <1>12. PanelKept
    BY <1>2, <1>6, <1>7, <1>9 DEF PanelKept
  <1>13. QED
    BY <1>8, <1>10, <1>11, <1>12 DEF DiscussionInv

LEMMA DiscussionShows ==
    ASSUME DiscussionInv
    PROVE  DiscussionHolds
  <1>1. DiscussionTypeOK /\ FilesKept /\ NoticesKept /\ (blurred \/ PanelKept)
    BY DEF DiscussionInv
  <1>2. FilesAgree
    <2> SUFFICES ASSUME NEW i \in 1..Len(objects)
                 PROVE  /\ Attached(i) => (objects[i] \/ i \in bared) /\ i \notin strays
                        /\ objects[i] => Attached(i) \/ Uploading(i) \/ i \in strays
      BY Zenon DEF FilesAgree, Attached
    <2>1. i \in Nat /\ (InStore(i) <=> objects[i])
      BY DEF InStore
    <2>2. (\E h \in Handler : Holds(h, i)) => Uploading(i)
      BY DEF Holds, Uploading
    <2>3. QED
      BY <1>1, <2>1, <2>2 DEF FilesKept
  <1>3. CommentsAnnounced
    <2> SUFFICES ASSUME NEW e \in 1..Len(entries)
                 PROVE  LET told == {n.to : n \in {m \in notices : m.entry = e /\ m.type = "COMMENTED"}} IN
                        /\ entries[e].calls \ {entries[e].by} \subseteq told
                        /\ entries[e].by \notin told
                        /\ entries[e].kind # "comment" => told = {}
      BY Zenon DEF CommentsAnnounced
    <2> DEFINE told == {n.to : n \in {m \in notices : m.entry = e /\ m.type = "COMMENTED"}}
    <2>1. \A p : p \in told <=> IsTold(e, p)
      BY DEF IsTold
    <2> HIDE DEF told
    <2>2. /\ \A p \in entries[e].calls : p # entries[e].by => IsTold(e, p)
          /\ ~IsTold(e, entries[e].by)
          /\ entries[e].kind # "comment" => \A p : ~IsTold(e, p)
      BY <1>1 DEF NoticesKept
    <2>3. /\ entries[e].calls \ {entries[e].by} \subseteq told
          /\ entries[e].by \notin told
          /\ entries[e].kind # "comment" => told = {}
      BY <2>1, <2>2
    <2>4. QED
      BY <2>3 DEF told
  <1>4. PanelTells
    BY <1>1 DEF PanelTells, PanelKept, InOrderBelow, Has
  <1>5. QED
    BY <1>2, <1>3, <1>4 DEF DiscussionHolds

LEMMA FilesAside ==
    ASSUME UNCHANGED <<entries, objects, at, losses>>, FilesKept
    PROVE  FilesKept'
  BY DEF FilesKept, InStore, Attached, Holds, Busy, losses

LEMMA NoticesAside ==
    ASSUME UNCHANGED <<entries, notices, at>>, NoticesKept
    PROVE  NoticesKept'
  BY DEF NoticesKept, IsTold, Busy

LEMMA PanelAside ==
    ASSUME UNCHANGED <<entries, at, sheet, details>>, PanelKept
    PROVE  PanelKept'
  BY DEF PanelKept, ByViewer, Busy

\* Whoever follows, and whether the issue is there, changes nothing of it.
LEMMA AsideKeeps ==
    ASSUME DiscussionInv, \/ \E p \in Reader : Follow(p)
                          \/ \E p \in Others : Hush(p)
                          \/ PutAway
                          \/ UNCHANGED discussionState
    PROVE  DiscussionInv'
  <1>1. UNCHANGED <<entries, objects, notices, at, losses, sheet, details, blurred>>
    BY DEF Follow, Hush, PutAway, InOneStep, discussionState, discussionVars, handlers
  <1>2. followers' \in SUBSET Reader
    <2>1. followers \in SUBSET Reader
      BY DEF DiscussionInv, DiscussionTypeOK
    <2>2. CASE \E p \in Reader : Follow(p)
      BY <2>1, <2>2 DEF Follow
    <2>3. CASE ~\E p \in Reader : Follow(p)
      BY <2>1, <2>3 DEF Hush, PutAway, discussionState, discussionVars
    <2>4. QED
      BY <2>2, <2>3
  <1>3. DiscussionTypeOK'
    BY <1>1, <1>2 DEF DiscussionInv, DiscussionTypeOK, losses
  <1>4. QED
    BY <1>1, <1>3, FilesAside, NoticesAside, PanelAside DEF DiscussionInv

LEMMA ReadDetailsKeeps ==
    ASSUME DiscussionInv, ReadDetails
    PROVE  DiscussionInv'
  <1>1. /\ UNCHANGED <<entries, objects, notices, at, losses, sheet, followers, blurred>>
        /\ ~sheet.loaded /\ details' = [k \in Kind |-> Listing(k)] /\ DiscussionTypeOK
    BY DEF ReadDetails, DiscussionInv, handlers
  <1>2. \A k \in Kind : details'[k] = Listing(k) /\ Listing(k) \in Seq(Nat) /\ InOrderBelow(Listing(k), Len(entries))
    BY <1>1, ListingIs
  <1>3. details' \in [Kind -> Seq(Nat)]
    BY <1>1, <1>2
  <1>4. DiscussionTypeOK'
    BY <1>1, <1>3 DEF DiscussionTypeOK, losses
  <1>5. PanelKept => PanelKept'
    <2> SUFFICES ASSUME PanelKept PROVE PanelKept'
      OBVIOUS
    <2>1. \A k \in Kind : InOrderBelow(details'[k], Len(entries))
      BY <1>2
    <2>2. \A h \in Handler : (ByViewer(h)' <=> ByViewer(h)) /\ \A op : (Busy(h, op)' <=> Busy(h, op))
      BY <1>1 DEF ByViewer, Busy
    <2>3. QED
      BY <1>1, <2>1, <2>2 DEF PanelKept
  <1>6. QED
    BY <1>1, <1>4, <1>5, FilesAside, NoticesAside DEF DiscussionInv

LEMMA ShowDetailsKeeps ==
    ASSUME DiscussionInv, ShowDetails
    PROVE  DiscussionInv'
  <1>1. /\ UNCHANGED <<entries, objects, notices, at, losses, followers, blurred>>
        /\ details # None /\ details' = None /\ DiscussionTypeOK
    BY DEF ShowDetails, DiscussionInv, handlers
  <1>2. PICK s \in SheetRow : s = sheet
    BY <1>1 DEF DiscussionTypeOK
  <1>3. PICK lists \in [Kind -> Seq(Nat)] : lists = details
    BY <1>1 DEF DiscussionTypeOK
  <1>4. sheet' \in SheetRow /\ sheet'.loaded /\ sheet'.shown = lists /\ sheet'.own = s.own
    <2>1. sheet' = [s EXCEPT !.loaded = TRUE, !.shown = lists]
      BY <1>2, <1>3 DEF ShowDetails
    <2>2. PICK t : t = [s EXCEPT !.loaded = TRUE, !.shown = lists]
      OBVIOUS
    <2>3. t \in SheetRow /\ t.loaded /\ t.shown = lists /\ t.own = s.own
      BY <2>2 DEF SheetRow
    <2>4. QED
      BY <2>1, <2>2, <2>3
  <1>5. DiscussionTypeOK'
    BY <1>1, <1>4 DEF DiscussionTypeOK, losses
  <1>6. PanelKept => PanelKept'
    <2> SUFFICES ASSUME PanelKept PROVE PanelKept'
      OBVIOUS
    <2>1. s.own = {} /\ (\A h \in Handler : ~ByViewer(h)) /\ \A k \in Kind : InOrderBelow(lists[k], Len(entries))
      BY <1>1, <1>2, <1>3 DEF PanelKept
    <2>2. \A h \in Handler : ~ByViewer(h)' /\ \A op : (Busy(h, op)' <=> Busy(h, op))
      BY <1>1, <2>1 DEF ByViewer, Busy
    <2>3. QED
      BY <1>1, <1>4, <2>1, <2>2 DEF PanelKept
  <1>7. QED
    BY <1>1, <1>5, <1>6, FilesAside, NoticesAside DEF DiscussionInv

LEMMA BeginAddKeeps ==
    ASSUME DiscussionInv, NEW h \in Handler, NEW kind \in Kind, NEW by \in Reader,
           NEW watching \in SUBSET Reader, NEW mentioned \in SUBSET Reader,
           kind # "comment" => watching = {},
           BeginAdd(h, kind, by, watching, mentioned)
    PROVE  DiscussionInv'
  <1>1. /\ UNCHANGED <<entries, objects, notices, losses, sheet, details, followers>>
        /\ blurred' = (blurred \/ (by = Viewer /\ ~sheet.loaded)) /\ DiscussionTypeOK
        /\ by = Viewer => \A g \in Handler : ~(ByViewer(g) /\ at[g].kind = kind)
    BY DEF BeginAdd, DiscussionInv
  <1>2. PICK r \in AddRequest : /\ r = [op |-> "add", kind |-> kind, by |-> by, object |-> None,
                                         watching |-> watching, mentioned |-> mentioned]
                                /\ r.op = "add" /\ r.kind = kind /\ r.by = by /\ r.object = None /\ r.watching = watching
    <2> DEFINE q == [op |-> "add", kind |-> kind, by |-> by, object |-> None, watching |-> watching, mentioned |-> mentioned]
    <2>1. q \in AddRequest /\ q.op = "add" /\ q.kind = kind /\ q.by = by /\ q.object = None /\ q.watching = watching
      BY DEF AddRequest
    <2>2. QED
      BY <2>1, Zenon
  <1>3. at'[h] = r /\ (\A g \in Handler : g # h => at'[g] = at[g]) /\ at[h] = Idle
        /\ at' \in [Handler -> AddRequest \cup AddAnswer \cup {Idle}]
    BY <1>1, <1>2 DEF BeginAdd, Enter, DiscussionTypeOK
  <1>4. DiscussionTypeOK'
    <2>1. blurred' \in BOOLEAN
      BY <1>1 DEF DiscussionTypeOK
    <2>2. QED
      BY <1>1, <1>3, <2>1 DEF DiscussionTypeOK, losses
  <1>5. FilesKept'
    <2>1. \A o \in Nat : \A g \in Handler : Holds(g, o)' <=> Holds(g, o)
      BY <1>2, <1>3, DiscussionAssumption DEF Holds, Busy, Idle
    <2>2. \A o \in Nat : (InStore(o)' <=> InStore(o)) /\ (Attached(o)' <=> Attached(o))
      BY <1>1 DEF InStore, Attached
    <2>3. QED
      BY <1>1, <2>1, <2>2 DEF DiscussionInv, FilesKept, losses
  <1>6. NoticesKept'
    <2>1. \A g \in Handler : Busy(g, "add")' /\ at'[g].kind # "comment" => at'[g].watching = {}
      BY <1>2, <1>3 DEF DiscussionInv, NoticesKept, Busy
    <2>2. \A e, p : IsTold(e, p)' <=> IsTold(e, p)
      BY <1>1 DEF IsTold
    <2>3. \A g \in Handler : Busy(g, "added")' => Busy(g, "added") /\ at'[g] = at[g]
      BY <1>2, <1>3 DEF Busy
    <2>4. QED
      BY <1>1, <2>1, <2>2, <2>3 DEF DiscussionInv, NoticesKept
  <1>7. ASSUME ~blurred' PROVE PanelKept'
    <2>1. PanelKept /\ ~blurred /\ (by = Viewer => sheet.loaded)
      BY <1>1, <1>7 DEF DiscussionInv
    <2>2. \A g \in Handler : /\ Busy(g, "added")' <=> Busy(g, "added")
                             /\ Busy(g, "added")' => g # h /\ at'[g] = at[g]
                             /\ g # h => (ByViewer(g)' <=> ByViewer(g))
      BY <1>2, <1>3 DEF Busy, ByViewer, Idle
    <2>3. ByViewer(h)' => by = Viewer /\ at'[h].kind = kind
      BY <1>2, <1>3 DEF ByViewer
    <2>4. \A f, g \in Handler : ByViewer(f)' /\ ByViewer(g)' /\ at'[f].kind = at'[g].kind => f = g
      <3>1. \A g \in Handler : g # h /\ ByViewer(g)' /\ ByViewer(h)' => at'[g].kind # at'[h].kind
        BY <1>1, <1>3, <2>2, <2>3
      <3>2. QED
        BY <1>3, <2>1, <2>2, <3>1 DEF PanelKept
    <2>5. ~sheet.loaded => \A g \in Handler : ~ByViewer(g)'
      BY <2>1, <2>2, <2>3 DEF PanelKept
    <2>6. \A g \in Handler : Busy(g, "added")' => at'[g].entry \in 1..Len(entries) /\ entries[at'[g].entry].kind = at'[g].kind
      BY <2>1, <2>2 DEF PanelKept
    <2>7. \A g \in Handler : ByViewer(g)' /\ Busy(g, "added")' =>
            \A i \in 1..Len(sheet.shown[at'[g].kind]) : sheet.shown[at'[g].kind][i] < at'[g].entry
      BY <2>1, <2>2 DEF PanelKept
    <2>8. QED
      BY <1>1, <2>1, <2>4, <2>5, <2>6, <2>7 DEF PanelKept
  <1>8. QED
    BY <1>4, <1>5, <1>6, <1>7 DEF DiscussionInv

LEMMA BeginningsKeep ==
    ASSUME DiscussionInv, NEW h \in Handler, NEW by \in Reader,
           WriteComment(h, by) \/ UploadFile(h, by) \/ AddSubtask(h, by)
    PROVE  DiscussionInv'
  <1>1. CASE WriteComment(h, by)
    <2>1. PICK mentioned \in {{}, {Viewer} \ {by}} : BeginAdd(h, "comment", by, followers, mentioned)
      BY <1>1 DEF WriteComment
    <2>2. mentioned \in SUBSET Reader /\ followers \in SUBSET Reader /\ "comment" \in Kind
      BY DEF Reader, Kind, DiscussionInv, DiscussionTypeOK
    <2>3. QED
      BY <2>1, <2>2, BeginAddKeeps
  <1>2. CASE UploadFile(h, by)
    <2>1. BeginAdd(h, "attachment", by, {}, {}) /\ "attachment" \in Kind /\ {} \in SUBSET Reader
      BY <1>2 DEF UploadFile, Kind
    <2>2. QED
      BY <2>1, BeginAddKeeps
  <1>3. CASE AddSubtask(h, by)
    <2>1. BeginAdd(h, "subtask", by, {}, {}) /\ "subtask" \in Kind /\ {} \in SUBSET Reader
      BY <1>3 DEF AddSubtask, Kind
    <2>2. QED
      BY <2>1, BeginAddKeeps
  <1>4. QED
    BY <1>1, <1>2, <1>3

\* A handler with something to add, that has not added it yet.
LEMMA Adds ==
    ASSUME DiscussionTypeOK, NEW h \in Handler, Busy(h, "add")
    PROVE  at[h] \in AddRequest
  BY DEF DiscussionTypeOK, AddRequest, AddAnswer, Busy, Idle

LEMMA PutObjectKeeps ==
    ASSUME DiscussionInv, NEW h \in Handler, PutObject(h)
    PROVE  DiscussionInv'
  <1>1. /\ UNCHANGED <<entries, notices, losses, sheet, details, followers, blurred>>
        /\ objects' = Append(objects, TRUE) /\ DiscussionTypeOK /\ Busy(h, "add") /\ at[h].object = None
    BY DEF PutObject, Unstored, DiscussionInv
  <1>2. PICK x \in AddRequest : x = at[h]
    BY <1>1, Adds
  <1>3. PICK n \in Nat : n = Len(objects')
    BY <1>1 DEF DiscussionTypeOK
  <1>4. /\ objects' \in Seq(BOOLEAN) /\ n = Len(objects) + 1 /\ objects'[n]
        /\ \A i \in 1..Len(objects) : objects'[i] = objects[i]
    BY <1>1, <1>3 DEF DiscussionTypeOK
  <1>5. PICK r \in AddRequest : /\ r = [x EXCEPT !.object = n]
                                /\ r.op = "add" /\ r.kind = x.kind /\ r.by = x.by /\ r.object = n /\ r.watching = x.watching
    <2>1. /\ [x EXCEPT !.object = n] \in AddRequest
          /\ [x EXCEPT !.object = n].op = "add" /\ [x EXCEPT !.object = n].kind = x.kind
          /\ [x EXCEPT !.object = n].by = x.by /\ [x EXCEPT !.object = n].object = n
          /\ [x EXCEPT !.object = n].watching = x.watching
      BY DEF AddRequest
    <2>2. QED
      BY <2>1, Zenon
  <1>6. at'[h] = r /\ (\A g \in Handler : g # h => at'[g] = at[g])
        /\ at' \in [Handler -> AddRequest \cup AddAnswer \cup {Idle}]
    BY <1>1, <1>2, <1>3, <1>5 DEF PutObject, Proceed, DiscussionTypeOK
  <1>7. DiscussionTypeOK'
    BY <1>1, <1>4, <1>6 DEF DiscussionTypeOK, losses
  <1>8. FilesKept'
    <2>1. \A o \in Nat : InStore(o)' <=> InStore(o) \/ o = n
      BY <1>1, <1>3, <1>4 DEF InStore, DiscussionTypeOK
    <2>2. \A o \in Nat : Attached(o)' <=> Attached(o)
      BY <1>1 DEF Attached
    <2>3. \A o \in Nat : ~Holds(h, o)
      BY <1>1, DiscussionAssumption DEF Holds
    <2>4. \A o \in Nat : /\ Holds(h, o)' <=> o = n
                         /\ \A g \in Handler : g # h => (Holds(g, o)' <=> Holds(g, o))
      BY <1>5, <1>6 DEF Holds, Busy
    <2>5. ~InStore(n)
      BY <1>3, <1>4 DEF InStore, DiscussionTypeOK
    <2>6. FilesKept
      BY DEF DiscussionInv
    <2>7. \A o \in Nat : Attached(o)' => InStore(o)' \/ o \in bared'
      BY <1>1, <2>1, <2>2, <2>6 DEF FilesKept, losses
    <2>8. \A o \in Nat : \A g \in Handler : Holds(g, o)' => InStore(o)' /\ ~Attached(o)' /\ o \notin strays'
      <3>1. n \notin 1..Len(objects)
        BY <1>1, <1>4 DEF DiscussionTypeOK
      <3>2. ~Attached(n) /\ n \notin strays
        BY <1>3, <2>6, <3>1 DEF FilesKept
      <3>3. QED
        BY <1>1, <1>3, <2>1, <2>2, <2>4, <2>6, <3>2 DEF FilesKept, losses
    <2>9. \A o \in Nat : \A f, g \in Handler : Holds(f, o)' /\ Holds(g, o)' => f = g
      BY <1>3, <2>4, <2>5, <2>6 DEF FilesKept
    <2>10. \A o \in Nat : InStore(o)' => Attached(o)' \/ (\E g \in Handler : Holds(g, o)') \/ o \in strays'
      <3>1. TAKE o \in Nat
      <3>2. CASE o = n
        BY <2>4, <3>2
      <3>3. CASE o # n
        BY <1>1, <2>1, <2>2, <2>3, <2>4, <2>6, <3>3 DEF FilesKept, losses
      <3>4. QED
        BY <3>2, <3>3
    <2>11. \A i \in 1..Len(objects) : i \in 1..Len(objects')
      BY <1>1, <1>3, <1>4 DEF DiscussionTypeOK
    <2>12. \A o \in strays' : o \in 1..Len(objects') /\ ~Attached(o)'
      BY <1>1, <2>2, <2>6, <2>11 DEF FilesKept, losses, DiscussionTypeOK
    <2>13. \A o \in Nat : Attached(o)' => o \in 1..Len(objects')
      BY <2>2, <2>6, <2>11 DEF FilesKept
    <2>14. QED
      BY <2>7, <2>8, <2>9, <2>10, <2>12, <2>13 DEF FilesKept
  <1>9. /\ \A g \in Handler : /\ Busy(g, "add")' <=> Busy(g, "add")
                              /\ Busy(g, "added")' <=> Busy(g, "added")
                              /\ ByViewer(g)' <=> ByViewer(g)
                              /\ Busy(g, "added") => at'[g] = at[g]
                              /\ Busy(g, "add") => at'[g].kind = at[g].kind /\ at'[g].watching = at[g].watching
    BY <1>1, <1>2, <1>5, <1>6 DEF Busy, ByViewer
  <1>10. NoticesKept'
    <2>1. \A e, p : IsTold(e, p)' <=> IsTold(e, p)
      BY <1>1 DEF IsTold
    <2>2. QED
      BY <1>1, <1>9, <2>1 DEF DiscussionInv, NoticesKept
  <1>11. PanelKept => PanelKept'
    <2>1. \A g \in Handler : ByViewer(g) => at'[g].kind = at[g].kind
      BY <1>9 DEF ByViewer, Busy
    <2>2. QED
      BY <1>1, <1>9, <2>1 DEF PanelKept
  <1>12. QED
    BY <1>1, <1>7, <1>8, <1>10, <1>11 DEF DiscussionInv

\* A request that ends: what becomes of the files is for its lemmas to say.
LEMMA AddEndsKeep ==
    ASSUME DiscussionInv, NEW h \in Handler, Leave(h),
           UNCHANGED <<entries, notices, sheet, details, followers, blurred>>,
           objects' \in Seq(BOOLEAN), strays' \in SUBSET Nat, bared' \in SUBSET Nat, FilesKept'
    PROVE  DiscussionInv'
  <1>0. DiscussionTypeOK
    BY DEF DiscussionInv
  <1>1. at'[h] = Idle /\ (\A g \in Handler : g # h => at'[g] = at[g])
        /\ at' \in [Handler -> AddRequest \cup AddAnswer \cup {Idle}]
    BY <1>0 DEF Leave, Proceed, DiscussionTypeOK
  <1>2. DiscussionTypeOK'
    BY <1>0, <1>1 DEF DiscussionTypeOK
  <1>3. \A g \in Handler : /\ Busy(g, "add")' => Busy(g, "add") /\ g # h /\ at'[g] = at[g]
                           /\ Busy(g, "added")' => Busy(g, "added") /\ at'[g] = at[g]
                           /\ ByViewer(g)' => ByViewer(g) /\ at'[g] = at[g]
    BY <1>1 DEF Busy, ByViewer, Idle
  <1>4. NoticesKept'
    <2>1. \A e, p : IsTold(e, p)' <=> IsTold(e, p)
      BY DEF IsTold
    <2>2. QED
      BY <1>3, <2>1 DEF DiscussionInv, NoticesKept
  <1>5. PanelKept => PanelKept'
    BY <1>3 DEF PanelKept
  <1>6. QED
    BY <1>2, <1>4, <1>5 DEF DiscussionInv

LEMMA TakenBackIs ==
    ASSUME DiscussionTypeOK, NEW removed, TakeBack(removed)
    PROVE  /\ objects' \in Seq(BOOLEAN) /\ Len(objects') = Len(objects)
           /\ \A o \in Nat : InStore(o)' <=> InStore(o) /\ o \notin removed
  <1>1. PICK n \in Nat : n = Len(objects)
    BY DEF DiscussionTypeOK
  <1>2. objects' = [i \in 1..n |-> objects[i] /\ i \notin removed]
    BY <1>1 DEF TakeBack
  <1>3. \A i \in 1..n : (objects[i] /\ i \notin removed) \in BOOLEAN
    OBVIOUS
  <1>4. objects' \in [1..n -> BOOLEAN]
    BY <1>2, <1>3
  <1>5. objects' \in Seq(BOOLEAN) /\ Len(objects') = n
    BY <1>4
  <1>6. \A i \in 1..n : objects'[i] <=> objects[i] /\ i \notin removed
    BY <1>2, Zenon
  <1>7. QED
    BY <1>1, <1>5, <1>6 DEF InStore

\* An upload that ends without an attachment leaves its object to the strays, if it leaves it.
LEMMA EndUploadKeeps ==
    ASSUME DiscussionInv, NEW h \in Handler, Busy(h, "add"), Leave(h),
           UNCHANGED <<entries, bared>>, Len(objects') = Len(objects),
           NEW removed, \A o \in removed : Holds(h, o),
           \A o \in Nat : InStore(o)' <=> InStore(o) /\ o \notin removed,
           \A o \in Nat : o \in strays' <=> o \in strays \/ (Holds(h, o) /\ o \notin removed),
           strays' \in SUBSET Nat
    PROVE  FilesKept'
  <1>1. at'[h] = Idle /\ \A g \in Handler : g # h => at'[g] = at[g]
    BY DEF Leave, Proceed, DiscussionInv, DiscussionTypeOK
  <1>2. \A o \in Nat : /\ ~Holds(h, o)'
                       /\ \A g \in Handler : g # h => (Holds(g, o)' <=> Holds(g, o))
    BY <1>1 DEF Holds, Busy, Idle
  <1>3. \A o \in Nat : Attached(o)' <=> Attached(o)
    BY DEF Attached
  <1>4. FilesKept
    BY DEF DiscussionInv
  <1>5. \A o \in Nat : Attached(o)' => InStore(o)' \/ o \in bared'
    BY <1>3, <1>4 DEF FilesKept
  <1>6. \A o \in Nat : \A g \in Handler : Holds(g, o)' => InStore(o)' /\ ~Attached(o)' /\ o \notin strays'
    <2> SUFFICES ASSUME NEW o \in Nat, NEW g \in Handler, Holds(g, o)'
                 PROVE  InStore(o)' /\ ~Attached(o)' /\ o \notin strays'
      OBVIOUS
    <2>1. g # h /\ Holds(g, o)
      BY <1>2
    <2>2. ~Holds(h, o)
      BY <1>4, <2>1 DEF FilesKept
    <2>3. InStore(o) /\ ~Attached(o) /\ o \notin strays
      BY <1>4, <2>1 DEF FilesKept
    <2>4. QED
      BY <1>3, <2>2, <2>3
  <1>7. \A o \in Nat : \A f, g \in Handler : Holds(f, o)' /\ Holds(g, o)' => f = g
    BY <1>2, <1>4 DEF FilesKept
  <1>8. \A o \in Nat : InStore(o)' => Attached(o)' \/ (\E g \in Handler : Holds(g, o)') \/ o \in strays'
    BY <1>2, <1>3, <1>4 DEF FilesKept
  <1>9. \A o \in strays' : o \in 1..Len(objects') /\ ~Attached(o)'
    <2>1. \A o \in Nat : Holds(h, o) => o \in 1..Len(objects) /\ ~Attached(o)
      BY <1>4 DEF FilesKept, InStore
    <2>2. QED
      BY <1>3, <1>4, <2>1 DEF FilesKept
  <1>10. \A o \in Nat : Attached(o)' => o \in 1..Len(objects')
    BY <1>3, <1>4 DEF FilesKept
  <1>11. QED
    BY <1>5, <1>6, <1>7, <1>8, <1>9, <1>10 DEF FilesKept

\* What an upload holds is what is stored for it.
LEMMA HeldIsStored ==
    ASSUME DiscussionTypeOK, NEW h \in Handler, Busy(h, "add")
    PROVE  Stored(at[h]) \in SUBSET Nat /\ \A o \in Nat : o \in Stored(at[h]) <=> Holds(h, o)
  <1>1. at[h].object \in Nat \cup {None}
    BY Adds DEF AddRequest
  <1>2. QED
    BY <1>1, DiscussionAssumption DEF Stored, Holds

LEMMA FailAddKeeps ==
    ASSUME DiscussionInv, NEW h \in Handler, FailAdd(h)
    PROVE  DiscussionInv'
  <1>1. /\ Busy(h, "add") /\ Leave(h)
        /\ UNCHANGED <<entries, notices, sheet, details, followers, blurred, bared>>
        /\ DiscussionTypeOK
    BY DEF FailAdd, DiscussionInv
  <1>2. PICK removed \in SUBSET Stored(at[h]) :
          TakeBack(removed) /\ strays' = strays \cup (Stored(at[h]) \ removed)
    BY DEF FailAdd
  <1>3. Stored(at[h]) \in SUBSET Nat /\ \A o \in Nat : o \in Stored(at[h]) <=> Holds(h, o)
    BY <1>1, HeldIsStored
  <1>4. /\ objects' \in Seq(BOOLEAN) /\ Len(objects') = Len(objects)
        /\ \A o \in Nat : InStore(o)' <=> InStore(o) /\ o \notin removed
    BY <1>1, <1>2, TakenBackIs
  <1>5. strays' \in SUBSET Nat
    BY <1>1, <1>2, <1>3 DEF DiscussionTypeOK
  <1>6. FilesKept'
    BY <1>1, <1>2, <1>3, <1>4, <1>5, EndUploadKeeps
  <1>7. bared' \in SUBSET Nat
    BY <1>1 DEF DiscussionTypeOK
  <1>8. QED
    BY <1>1, <1>4, <1>5, <1>6, <1>7, AddEndsKeep

LEMMA DieKeeps ==
    ASSUME DiscussionInv, NEW h \in Handler, Die(h)
    PROVE  DiscussionInv'
  <1>1. /\ Busy(h, "add") /\ Leave(h) /\ strays' = strays \cup Stored(at[h])
        /\ UNCHANGED <<entries, notices, sheet, details, followers, blurred, bared, objects>>
        /\ DiscussionTypeOK
    BY DEF Die, DiscussionInv
  <1>2. Stored(at[h]) \in SUBSET Nat /\ \A o \in Nat : o \in Stored(at[h]) <=> Holds(h, o)
    BY <1>1, HeldIsStored
  <1>3. PICK removed : removed = {}
    OBVIOUS
  <1>4. \A o \in Nat : InStore(o)' <=> InStore(o) /\ o \notin removed
    BY <1>1, <1>3 DEF InStore
  <1>5. strays' \in SUBSET Nat
    BY <1>1, <1>2 DEF DiscussionTypeOK
  <1>6. FilesKept'
    BY <1>1, <1>2, <1>3, <1>4, <1>5, EndUploadKeeps
  <1>7. bared' \in SUBSET Nat /\ objects' \in Seq(BOOLEAN)
    BY <1>1 DEF DiscussionTypeOK
  <1>8. QED
    BY <1>1, <1>5, <1>6, <1>7, AddEndsKeep

LEMMA PutHalfKeeps ==
    ASSUME DiscussionInv, NEW h \in Handler, PutHalf(h)
    PROVE  DiscussionInv'
  <1>1. /\ Busy(h, "add") /\ Leave(h) /\ at[h].object = None
        /\ objects' = Append(objects, TRUE) /\ strays' = strays \cup {Len(objects')}
        /\ UNCHANGED <<entries, notices, sheet, details, followers, blurred, bared>>
        /\ DiscussionTypeOK
    BY DEF PutHalf, Unstored, DiscussionInv
  <1>2. PICK n \in Nat : n = Len(objects) + 1
    BY <1>1 DEF DiscussionTypeOK
  <1>3. /\ objects' \in Seq(BOOLEAN) /\ Len(objects') = n
        /\ \A o \in Nat : o \in 1..n <=> o \in 1..Len(objects) \/ o = n
        /\ \A o \in Nat : InStore(o)' <=> InStore(o) \/ o = n
    BY <1>1, <1>2 DEF DiscussionTypeOK, InStore
  <1>4. strays' = strays \cup {n} /\ strays' \in SUBSET Nat
    BY <1>1, <1>3 DEF DiscussionTypeOK
  <1>5. FilesKept'
    <2>1. at'[h] = Idle /\ \A g \in Handler : g # h => at'[g] = at[g]
      BY <1>1 DEF Leave, Proceed, DiscussionTypeOK
    <2>2. \A o \in Nat : /\ ~Holds(h, o)' /\ ~Holds(h, o)
                         /\ \A g \in Handler : g # h => (Holds(g, o)' <=> Holds(g, o))
      BY <1>1, <2>1, DiscussionAssumption DEF Holds, Busy, Idle
    <2>3. \A o \in Nat : Attached(o)' <=> Attached(o)
      BY <1>1 DEF Attached
    <2>4. FilesKept /\ n \notin 1..Len(objects)
      BY <1>1, <1>2 DEF DiscussionInv, DiscussionTypeOK
    <2>5. ~Attached(n) /\ \A g \in Handler : ~Holds(g, n)
      BY <2>4 DEF FilesKept, InStore
    <2>6. \A o \in Nat : Attached(o)' => InStore(o)' \/ o \in bared'
      BY <1>1, <1>3, <2>3, <2>4 DEF FilesKept
    <2>7. \A o \in Nat : \A g \in Handler : Holds(g, o)' => InStore(o)' /\ ~Attached(o)' /\ o \notin strays'
      BY <1>3, <1>4, <2>2, <2>3, <2>4, <2>5 DEF FilesKept
    <2>8. \A o \in Nat : \A f, g \in Handler : Holds(f, o)' /\ Holds(g, o)' => f = g
      BY <2>2, <2>4 DEF FilesKept
    <2>9. \A o \in Nat : InStore(o)' => Attached(o)' \/ (\E g \in Handler : Holds(g, o)') \/ o \in strays'
      BY <1>3, <1>4, <2>2, <2>3, <2>4 DEF FilesKept
    <2>10. \A o \in strays' : o \in 1..Len(objects') /\ ~Attached(o)'
      BY <1>3, <1>4, <2>3, <2>4, <2>5 DEF FilesKept
    <2>11. \A o \in Nat : Attached(o)' => o \in 1..Len(objects')
      BY <1>3, <2>3, <2>4 DEF FilesKept
    <2>12. QED
      BY <2>6, <2>7, <2>8, <2>9, <2>10, <2>11 DEF FilesKept
  <1>6. bared' \in SUBSET Nat
    BY <1>1 DEF DiscussionTypeOK
  <1>7. QED
    BY <1>1, <1>3, <1>4, <1>5, <1>6, AddEndsKeep

\* What is removed after a commit that nobody heard of is an attachment's, and no upload's.
LEMMA MissCommitKeeps ==
    ASSUME DiscussionInv, NEW h \in Handler, MissCommit(h)
    PROVE  DiscussionInv'
  <1>1. /\ Busy(h, "added") /\ Leave(h) /\ Stored(entries[at[h].entry]) # {}
        /\ UNCHANGED <<entries, notices, sheet, details, followers, blurred, strays>>
        /\ DiscussionTypeOK
    BY DEF MissCommit, DiscussionInv
  <1>2. PICK removed \in SUBSET Stored(entries[at[h].entry]) :
          TakeBack(removed) /\ bared' = bared \cup removed
    BY DEF MissCommit
  <1>3. removed \in SUBSET Nat /\ \A o \in removed : Attached(o)
    <2>1. at[h].entry \in 1..Len(entries)
      BY <1>1 DEF DiscussionInv, NoticesKept
    <2>2. entries[at[h].entry].object \in Nat \cup {None}
      <3>1. entries[at[h].entry] \in EntryRow
        BY <1>1, <2>1 DEF DiscussionTypeOK
      <3>2. QED
        BY <3>1 DEF EntryRow
    <2>3. QED
      BY <2>1, <2>2 DEF Stored, Attached
  <1>4. /\ objects' \in Seq(BOOLEAN) /\ Len(objects') = Len(objects)
        /\ \A o \in Nat : InStore(o)' <=> InStore(o) /\ o \notin removed
    BY <1>1, <1>2, TakenBackIs
  <1>5. bared' \in SUBSET Nat
    BY <1>1, <1>2, <1>3 DEF DiscussionTypeOK
  <1>6. FilesKept'
    <2>1. at'[h] = Idle /\ \A g \in Handler : g # h => at'[g] = at[g]
      BY <1>1 DEF Leave, Proceed, DiscussionTypeOK
    <2>2. \A o \in Nat : \A g \in Handler : Holds(g, o)' <=> Holds(g, o)
      BY <1>1, <2>1 DEF Holds, Busy, Idle
    <2>3. \A o \in Nat : Attached(o)' <=> Attached(o)
      BY <1>1 DEF Attached
    <2>4. FilesKept
      BY DEF DiscussionInv
    <2>5. \A o \in Nat : Attached(o)' => InStore(o)' \/ o \in bared'
      BY <1>2, <1>4, <2>3, <2>4 DEF FilesKept
    <2>6. \A o \in Nat : \A g \in Handler : Holds(g, o)' => InStore(o)' /\ ~Attached(o)' /\ o \notin strays'
      BY <1>1, <1>3, <1>4, <2>2, <2>3, <2>4 DEF FilesKept
    <2>7. \A o \in Nat : \A f, g \in Handler : Holds(f, o)' /\ Holds(g, o)' => f = g
      BY <2>2, <2>4 DEF FilesKept
    <2>8. \A o \in Nat : InStore(o)' => Attached(o)' \/ (\E g \in Handler : Holds(g, o)') \/ o \in strays'
      BY <1>1, <1>4, <2>2, <2>3, <2>4 DEF FilesKept
    <2>9. \A o \in strays' : o \in 1..Len(objects') /\ ~Attached(o)'
      BY <1>1, <1>4, <2>3, <2>4 DEF FilesKept, DiscussionTypeOK
    <2>10. \A o \in Nat : Attached(o)' => o \in 1..Len(objects')
      BY <1>4, <2>3, <2>4 DEF FilesKept
    <2>11. QED
      BY <2>5, <2>6, <2>7, <2>8, <2>9, <2>10 DEF FilesKept
  <1>7. strays' \in SUBSET Nat
    BY <1>1 DEF DiscussionTypeOK
  <1>8. QED
    BY <1>1, <1>4, <1>5, <1>6, <1>7, AddEndsKeep

LEMMA CreateEntryKeeps ==
    ASSUME DiscussionInv, NEW h \in Handler, CreateEntry(h)
    PROVE  DiscussionInv'
  <1>1. /\ UNCHANGED <<objects, losses, sheet, details, followers, blurred>>
        /\ DiscussionTypeOK /\ Busy(h, "add") /\ FilesKept /\ NoticesKept
    BY DEF CreateEntry, DiscussionInv
  <1>2. PICK x \in AddRequest : x = at[h]
    BY <1>1, Adds
  <1>3. PICK n \in Nat : n = Len(entries) + 1
    BY <1>1 DEF DiscussionTypeOK
  <1>4. PICK y \in EntryRow : /\ y = [kind |-> x.kind, by |-> x.by, object |-> x.object, calls |-> (x.watching \cap followers) \ hushed]
                             /\ y.kind = x.kind /\ y.by = x.by /\ y.object = x.object
                             /\ y.calls = (x.watching \cap followers) \ hushed
    <2>1. PICK c \in SUBSET Reader : c = (x.watching \cap followers) \ hushed
      BY <1>1 DEF DiscussionTypeOK
    <2> DEFINE q == [kind |-> x.kind, by |-> x.by, object |-> x.object, calls |-> c]
    <2>2. q \in EntryRow /\ q.kind = x.kind /\ q.by = x.by /\ q.object = x.object /\ q.calls = c
      BY DEF EntryRow, AddRequest
    <2>3. QED
      BY <2>1, <2>2, Zenon
  <1>5. entries' = Append(entries, y)
    BY <1>2, <1>4 DEF CreateEntry
  <1>6. /\ entries' \in Seq(EntryRow) /\ Len(entries') = n /\ entries'[n] = y
        /\ \A e \in 1..Len(entries) : entries'[e] = entries[e]
    BY <1>1, <1>3, <1>5 DEF DiscussionTypeOK
  <1>7. PICK r \in AddAnswer : /\ r = [op |-> "added", kind |-> x.kind, by |-> x.by, entry |-> n]
                               /\ r.op = "added" /\ r.kind = x.kind /\ r.by = x.by /\ r.entry = n
    <2> DEFINE q == [op |-> "added", kind |-> x.kind, by |-> x.by, entry |-> n]
    <2>1. q \in AddAnswer /\ q.op = "added" /\ q.kind = x.kind /\ q.by = x.by /\ q.entry = n
      BY DEF AddAnswer, AddRequest
    <2>2. QED
      BY <2>1, Zenon
  <1>8. at'[h] = r /\ (\A g \in Handler : g # h => at'[g] = at[g])
        /\ at' \in [Handler -> AddRequest \cup AddAnswer \cup {Idle}]
    BY <1>1, <1>2, <1>6, <1>7 DEF CreateEntry, Proceed, DiscussionTypeOK
  <1>9. \A g \in Handler : /\ Busy(g, "add")' => Busy(g, "add") /\ g # h /\ at'[g] = at[g]
                           /\ Busy(g, "added")' => g = h \/ (Busy(g, "added") /\ at'[g] = at[g])
                           /\ ByViewer(g)' <=> ByViewer(g)
                           /\ ByViewer(g) => at'[g].kind = at[g].kind
    BY <1>1, <1>2, <1>7, <1>8 DEF Busy, ByViewer
  <1>10. PICK more : /\ notices' = notices \cup more
                     /\ \A m \in more : m \in NoticeRow /\ m.entry = n
                     /\ \A p : (\E m \in more : m.type = "COMMENTED" /\ m.to = p) <=> p \in (x.watching \ {x.by}) \ hushed
    <2> DEFINE told(type, who) == {[entry |-> n, to |-> p, type |-> type] : p \in (who \ {x.by}) \ hushed}
    <2>1. notices' = notices \cup (told("COMMENTED", x.watching) \cup told("MENTIONED", x.mentioned))
      BY <1>2, <1>3 DEF CreateEntry, NoticesOf
    <2>2. x.watching \in SUBSET Reader /\ x.mentioned \in SUBSET Reader
      BY DEF AddRequest
    <2>3. \A who \in SUBSET Reader, type \in {"COMMENTED", "MENTIONED"} : \A m \in told(type, who) :
            m \in NoticeRow /\ m.entry = n /\ m.type = type /\ m.to \in (who \ {x.by}) \ hushed
      BY DEF NoticeRow
    <2>4. \A p \in (x.watching \ {x.by}) \ hushed : \E m \in told("COMMENTED", x.watching) : m.to = p
      <3>1. TAKE p \in (x.watching \ {x.by}) \ hushed
      <3>2. PICK m : m = [entry |-> n, to |-> p, type |-> "COMMENTED"]
        OBVIOUS
      <3>3. m \in told("COMMENTED", x.watching)
        BY <3>2
      <3>4. m.to = p
        BY <3>2
      <3> HIDE DEF told
      <3>5. QED
        BY <3>3, <3>4
    <2> HIDE DEF told
    <2>5. PICK more : more = told("COMMENTED", x.watching) \cup told("MENTIONED", x.mentioned)
      OBVIOUS
    <2>6. \A m \in more : m \in NoticeRow /\ m.entry = n
      BY <2>2, <2>3, <2>5
    <2>7. \A p : (\E m \in more : m.type = "COMMENTED" /\ m.to = p) <=> p \in (x.watching \ {x.by}) \ hushed
      BY <2>2, <2>3, <2>4, <2>5
    <2>8. QED
      BY <2>1, <2>5, <2>6, <2>7
  <1>11. DiscussionTypeOK'
    <2>1. notices' \in SUBSET NoticeRow
      BY <1>1, <1>10 DEF DiscussionTypeOK
    <2>2. QED
      BY <1>1, <1>6, <1>8, <2>1 DEF DiscussionTypeOK, losses
  <1>12. FilesKept'
    <2>1. \A o \in Nat : /\ InStore(o)' <=> InStore(o)
                         /\ ~Holds(h, o)'
                         /\ \A g \in Handler : g # h => (Holds(g, o)' <=> Holds(g, o))
                         /\ Holds(h, o) <=> x.object = o
      BY <1>1, <1>2, <1>7, <1>8 DEF InStore, Holds, Busy
    <2>2. \A o \in Nat : Attached(o)' <=> Attached(o) \/ x.object = o
      <3>1. \A o : Attached(o)' <=> \E e \in 1..n : entries'[e].object = o
        BY <1>6 DEF Attached
      <3>2. \A o : Attached(o) <=> \E e \in 1..Len(entries) : entries'[e].object = o
        BY <1>6 DEF Attached
      <3>3. n \in 1..n /\ \A e \in Int : e \in 1..n <=> e = n \/ e \in 1..Len(entries)
        BY <1>1, <1>3 DEF DiscussionTypeOK
      <3>4. entries'[n].object = x.object
        BY <1>4, <1>6
      <3>5. QED
        BY <3>1, <3>2, <3>3, <3>4
    <2>3. \A o \in Nat : Attached(o)' => InStore(o)' \/ o \in bared'
      BY <1>1, <2>1, <2>2 DEF FilesKept, losses
    <2>4. \A o \in Nat : \A g \in Handler : Holds(g, o)' => InStore(o)' /\ ~Attached(o)' /\ o \notin strays'
      BY <1>1, <2>1, <2>2 DEF FilesKept, losses
    <2>5. \A o \in Nat : \A f, g \in Handler : Holds(f, o)' /\ Holds(g, o)' => f = g
      BY <1>1, <2>1 DEF FilesKept
    <2>6. \A o \in Nat : InStore(o)' => Attached(o)' \/ (\E g \in Handler : Holds(g, o)') \/ o \in strays'
      BY <1>1, <2>1, <2>2 DEF FilesKept, losses
    <2>7. \A o \in strays' : o \in 1..Len(objects') /\ ~Attached(o)'
      BY <1>1, <2>1, <2>2 DEF FilesKept, losses, DiscussionTypeOK
    <2>8. \A o \in Nat : Attached(o)' => o \in 1..Len(objects')
      BY <1>1, <2>1, <2>2 DEF FilesKept, InStore
    <2>9. QED
      BY <2>3, <2>4, <2>5, <2>6, <2>7, <2>8 DEF FilesKept
  <1>13. NoticesKept'
    <2>1. \A e \in 1..n : e # n => e \in 1..Len(entries)
      BY <1>1, <1>3 DEF DiscussionTypeOK
    <2>2. \A m \in notices : m.entry # n /\ m.entry \in 1..n
      BY <1>1, <1>3 DEF NoticesKept, DiscussionTypeOK
    <2>3. \A p : IsTold(n, p)' <=> p \in (x.watching \ {x.by}) \ hushed
      BY <1>10, <2>2 DEF IsTold
    <2>4. \A e \in 1..Len(entries) : \A p : IsTold(e, p)' <=> IsTold(e, p)
      BY <1>1, <1>3, <1>10 DEF IsTold, DiscussionTypeOK
    <2>5. x.kind # "comment" => x.watching = {}
      BY <1>1, <1>2 DEF NoticesKept
    <2>6. \A m \in notices' : m.entry \in 1..n
      BY <1>3, <1>10, <2>2
    <2>7. \A e \in 1..n :
            /\ \A p \in entries'[e].calls : p # entries'[e].by => IsTold(e, p)'
            /\ \A p : p = entries'[e].by => ~IsTold(e, p)'
            /\ entries'[e].kind # "comment" => \A p : ~IsTold(e, p)'
      <3>1. TAKE e \in 1..n
      <3>2. CASE e = n
        BY <1>4, <1>6, <2>3, <2>5, <3>2
      <3>3. CASE e # n
        BY <1>1, <1>6, <2>1, <2>4, <3>3 DEF NoticesKept
      <3>4. QED
        BY <3>2, <3>3
    <2>8. \A g \in Handler : Busy(g, "add")' /\ at'[g].kind # "comment" => at'[g].watching = {}
      BY <1>1, <1>9 DEF NoticesKept
    <2>9. \A g \in Handler : Busy(g, "added")' => at'[g].entry \in 1..n
      BY <1>1, <1>3, <1>7, <1>8, <1>9 DEF NoticesKept, DiscussionTypeOK
    <2>10. QED
      BY <1>6, <2>6, <2>7, <2>8, <2>9 DEF NoticesKept
  <1>14. PanelKept => PanelKept'
    <2> SUFFICES ASSUME PanelKept PROVE PanelKept'
      OBVIOUS
    <2>1. Len(entries) \in Nat /\ 1..Len(entries) \subseteq 1..n /\ n \in 1..n
      BY <1>1, <1>3 DEF DiscussionTypeOK
    <2>2. \A s \in Seq(Nat) : InOrderBelow(s, Len(entries)) => InOrderBelow(s, n) /\ \A i \in 1..Len(s) : s[i] < n
      BY <1>3, <2>1 DEF InOrderBelow
    <2>3. \A k \in Kind : sheet.shown[k] \in Seq(Nat)
      BY <1>1 DEF DiscussionTypeOK, SheetRow
    <2>4. details # None => \A k \in Kind : details[k] \in Seq(Nat)
      BY <1>1 DEF DiscussionTypeOK
    <2>5. ~sheet.loaded => sheet.own = {} /\ \A g \in Handler : ~ByViewer(g)'
      BY <1>9 DEF PanelKept
    <2>6. details # None => ~sheet.loaded /\ \A k \in Kind : InOrderBelow(details[k], n)
      BY <2>2, <2>4 DEF PanelKept
    <2>7. sheet.loaded => \A k \in Kind : InOrderBelow(sheet.shown[k], n)
      BY <2>2, <2>3 DEF PanelKept
    <2>8. \A e \in sheet.own : e \in 1..n /\ Has(sheet.shown[entries'[e].kind], e)
      BY <1>6, <2>1 DEF PanelKept
    <2>9. \A g \in Handler : Busy(g, "added")' => at'[g].entry \in 1..n /\ entries'[at'[g].entry].kind = at'[g].kind
      BY <1>4, <1>6, <1>7, <1>8, <1>9, <2>1 DEF PanelKept
    <2>10. \A f, g \in Handler : ByViewer(f)' /\ ByViewer(g)' /\ at'[f].kind = at'[g].kind => f = g
      BY <1>9 DEF PanelKept
    <2>11. \A g \in Handler : ByViewer(g)' /\ Busy(g, "added")' =>
             \A i \in 1..Len(sheet.shown[at'[g].kind]) : sheet.shown[at'[g].kind][i] < at'[g].entry
      <3>1. TAKE g \in Handler
      <3>2. CASE g = h
        <4>1. ByViewer(h) => sheet.loaded
          BY DEF PanelKept
        <4>2. ByViewer(h) => InOrderBelow(sheet.shown[x.kind], Len(entries)) /\ sheet.shown[x.kind] \in Seq(Nat)
          BY <2>3, <4>1 DEF PanelKept, AddRequest
        <4>3. QED
          BY <1>7, <1>8, <1>9, <2>2, <3>2, <4>2
      <3>3. CASE g # h
        BY <1>9, <3>3 DEF PanelKept
      <3>4. QED
        BY <3>2, <3>3
    <2>12. QED
      BY <1>1, <1>6, <2>5, <2>6, <2>7, <2>8, <2>9, <2>10, <2>11 DEF PanelKept
  <1>15. QED
    BY <1>1, <1>11, <1>12, <1>13, <1>14 DEF DiscussionInv

ShownMore(s, k, e) == [s EXCEPT !.shown[k] = Append(s.shown[k], e), !.own = s.own \cup {e}]

MoreOf(f, k, e) == [f EXCEPT ![k] = Append(f[k], e)]

LEMMA ShownForms ==
    ASSUME NEW s \in SheetRow, NEW k \in Kind, NEW e \in Nat
    PROVE  ShownMore(s, k, e) \in SheetRow /\ ShownMore(s, k, e).shown = MoreOf(s.shown, k, e)
  <1>1. PICK f \in [Kind -> Seq(Nat)] : f = s.shown
    BY DEF SheetRow
  <1>2. PICK l \in Seq(Nat) : l = Append(f[k], e)
    <2>1. Append(f[k], e) \in Seq(Nat)
      OBVIOUS
    <2>2. QED
      BY <2>1, Zenon
  <1>3. PICK g : g = [f EXCEPT ![k] = l]
    OBVIOUS
  <1>4. g \in [Kind -> Seq(Nat)] /\ g = MoreOf(s.shown, k, e)
    BY <1>1, <1>2, <1>3 DEF MoreOf
  <1>5. PICK o \in SUBSET Nat : o = s.own \cup {e}
    BY DEF SheetRow
  <1>6. ShownMore(s, k, e) = [s EXCEPT !.shown = g, !.own = o]
    BY <1>1, <1>2, <1>3, <1>5 DEF SheetRow, ShownMore
  <1>7. PICK t : t = [s EXCEPT !.shown = g, !.own = o]
    OBVIOUS
  <1>8. t \in SheetRow /\ t.shown = g
    BY <1>4, <1>7 DEF SheetRow
  <1>9. QED
    BY <1>4, <1>6, <1>7, <1>8

LEMMA MoreForms ==
    ASSUME NEW f \in [Kind -> Seq(Nat)], NEW k \in Kind, NEW e \in Nat
    PROVE  MoreOf(f, k, e)[k] = Append(f[k], e) /\ \A j \in Kind : j # k => MoreOf(f, k, e)[j] = f[j]
  BY DEF MoreOf

LEMMA ShownOthers ==
    ASSUME NEW s \in SheetRow, NEW k \in Kind, NEW e \in Nat
    PROVE  ShownMore(s, k, e).loaded = s.loaded /\ ShownMore(s, k, e).own = s.own \cup {e}
  BY DEF SheetRow, ShownMore

LEMMA AnswerAddKeeps ==
    ASSUME DiscussionInv, NEW h \in Handler, AnswerAdd(h)
    PROVE  DiscussionInv'
  <1>1. /\ UNCHANGED <<entries, objects, notices, losses, details, followers, blurred>>
        /\ DiscussionTypeOK /\ Busy(h, "added")
    BY DEF AnswerAdd, DiscussionInv
  <1>2. PICK x \in AddAnswer : x = at[h]
    BY <1>1 DEF DiscussionTypeOK, AddRequest, AddAnswer, Busy, Idle
  <1>3. at'[h] = Idle /\ (\A g \in Handler : g # h => at'[g] = at[g])
        /\ at' \in [Handler -> AddRequest \cup AddAnswer \cup {Idle}]
    BY <1>1 DEF AnswerAdd, Leave, Proceed, DiscussionTypeOK
  <1>4. \A g \in Handler : /\ Busy(g, "add")' <=> Busy(g, "add")
                           /\ Busy(g, "add") => at'[g] = at[g]
                           /\ Busy(g, "added")' => Busy(g, "added") /\ at'[g] = at[g]
                           /\ ByViewer(g)' => ByViewer(g) /\ at'[g] = at[g] /\ g # h
    BY <1>1, <1>3 DEF Busy, ByViewer, Idle
  <1>5. PICK s \in SheetRow : s = sheet
    BY <1>1 DEF DiscussionTypeOK
  <1>6. PICK k \in Kind, e \in Nat : k = x.kind /\ e = x.entry
    BY DEF AddAnswer
  <1>7. PICK t \in SheetRow :
          /\ t = ShownMore(s, k, e)
          /\ (t.loaded <=> s.loaded) /\ t.own = s.own \cup {e} /\ t.shown[k] = Append(s.shown[k], e)
          /\ \A j \in Kind : j # k => t.shown[j] = s.shown[j]
    <2>1. PICK t : t = ShownMore(s, k, e)
      OBVIOUS
    <2>2. /\ t \in SheetRow /\ (t.loaded <=> s.loaded) /\ t.own = s.own \cup {e}
          /\ t.shown[k] = Append(s.shown[k], e)
          /\ \A j \in Kind : j # k => t.shown[j] = s.shown[j]
      <3>1. /\ ShownMore(s, k, e) \in SheetRow
            /\ ShownMore(s, k, e).loaded = s.loaded
            /\ ShownMore(s, k, e).own = s.own \cup {e}
            /\ ShownMore(s, k, e).shown = MoreOf(s.shown, k, e)
        <4>1. ShownMore(s, k, e) \in SheetRow /\ ShownMore(s, k, e).shown = MoreOf(s.shown, k, e)
          BY ShownForms
        <4>2. ShownMore(s, k, e).loaded = s.loaded /\ ShownMore(s, k, e).own = s.own \cup {e}
          BY ShownOthers
        <4>3. QED
          BY <4>1, <4>2
      <3>2. s.shown \in [Kind -> Seq(Nat)]
        BY DEF SheetRow
      <3>3. MoreOf(s.shown, k, e)[k] = Append(s.shown[k], e) /\ \A j \in Kind : j # k => MoreOf(s.shown, k, e)[j] = s.shown[j]
        BY <3>2, MoreForms
      <3>4. QED
        BY <2>1, <3>1, <3>3
    <2>3. QED
      BY <2>1, <2>2
  <1>8. sheet' = s \/ (x.by = Viewer /\ sheet' = t)
    BY <1>2, <1>5, <1>6, <1>7 DEF AnswerAdd, ShownMore
  <1>9. DiscussionTypeOK'
    BY <1>1, <1>3, <1>8 DEF DiscussionTypeOK, losses
  <1>10. FilesKept'
    <2>1. \A o \in Nat : /\ InStore(o)' <=> InStore(o)
                         /\ Attached(o)' <=> Attached(o)
                         /\ \A g \in Handler : Holds(g, o)' <=> Holds(g, o)
      BY <1>1, <1>4 DEF InStore, Attached, Holds
    <2>2. QED
      BY <1>1, <2>1 DEF DiscussionInv, FilesKept, losses
  <1>11. NoticesKept'
    <2>1. \A n, p : IsTold(n, p)' <=> IsTold(n, p)
      BY <1>1 DEF IsTold
    <2>2. QED
      BY <1>1, <1>4, <2>1 DEF DiscussionInv, NoticesKept
  <1>12. PanelKept => PanelKept'
    <2> SUFFICES ASSUME PanelKept PROVE PanelKept'
      OBVIOUS
    <2>1. CASE sheet' = s
      <3>1. sheet' = sheet
        BY <1>5, <2>1
      <3>2. /\ \A g \in Handler : Busy(g, "added")' => at'[g].entry \in 1..Len(entries) /\ entries[at'[g].entry].kind = at'[g].kind
            /\ \A f, g \in Handler : ByViewer(f)' /\ ByViewer(g)' /\ at'[f].kind = at'[g].kind => f = g
            /\ \A g \in Handler : ByViewer(g)' /\ Busy(g, "added")' =>
                 \A i \in 1..Len(sheet.shown[at'[g].kind]) : sheet.shown[at'[g].kind][i] < at'[g].entry
            /\ ~sheet.loaded => \A g \in Handler : ~ByViewer(g)'
        BY <1>4 DEF PanelKept
      <3>3. QED
        BY <1>1, <3>1, <3>2 DEF PanelKept
    <2>2. CASE x.by = Viewer /\ sheet' = t
      <3>1. ByViewer(h) /\ sheet.loaded
        BY <1>1, <1>2, <2>2 DEF PanelKept, ByViewer, Busy
      <3>2. /\ e \in 1..Len(entries) /\ entries[e].kind = k /\ Len(entries) \in Nat
            /\ \A i \in 1..Len(s.shown[k]) : s.shown[k][i] < e
        <4>1. e \in 1..Len(entries) /\ entries[e].kind = k
          BY <1>1, <1>2, <1>6 DEF PanelKept
        <4>2. \A i \in 1..Len(sheet.shown[at[h].kind]) : sheet.shown[at[h].kind][i] < at[h].entry
          BY <1>1, <3>1 DEF PanelKept
        <4>3. Len(entries) \in Nat
          BY <1>1 DEF DiscussionTypeOK
        <4>4. QED
          BY <1>2, <1>5, <1>6, <4>1, <4>2, <4>3
      <3>3. PICK a \in Seq(Nat) : a = s.shown[k]
        BY DEF SheetRow
      <3>4. PICK b \in Seq(Nat) : b = Append(a, e)
        <4>1. Append(a, e) \in Seq(Nat)
          OBVIOUS
        <4>2. QED
          BY <4>1, Zenon
      <3>5. /\ Len(b) = Len(a) + 1 /\ b[Len(a) + 1] = e
            /\ \A i \in 1..Len(a) : b[i] = a[i]
        BY <3>4
      <3>6. InOrderBelow(a, Len(entries))
        BY <1>5, <3>1, <3>3 DEF PanelKept
      <3>7. InOrderBelow(b, Len(entries))
        <4>1. Len(a) \in Nat /\ \A i \in 1..Len(b) : i = Len(a) + 1 \/ i \in 1..Len(a)
          BY <3>5
        <4>2. \A i \in 1..Len(a) : b[i] < e /\ b[i] \in Nat
          <5>1. \A i \in 1..Len(a) : a[i] \in Nat /\ a[i] < e
            BY <3>2, <3>3
          <5>2. QED
            BY <3>5, <5>1
        <4>3. \A i, j \in 1..Len(b) : i < j => b[i] < b[j]
          <5>1. TAKE i, j \in 1..Len(b)
          <5>2. CASE i \in 1..Len(a) /\ j \in 1..Len(a)
            BY <3>5, <3>6, <5>2 DEF InOrderBelow
          <5>3. CASE i \in 1..Len(a) /\ j = Len(a) + 1
            BY <3>5, <4>2, <5>3
          <5>4. CASE i = Len(a) + 1
            BY <3>5, <4>1, <5>4
          <5>5. QED
            BY <4>1, <5>2, <5>3, <5>4
        <4>4. \A i \in 1..Len(b) : b[i] <= Len(entries)
          <5>1. TAKE i \in 1..Len(b)
          <5>2. b[i] \in Nat /\ (b[i] = e \/ b[i] < e) /\ Len(entries) \in Nat /\ e <= Len(entries)
            BY <3>2, <3>5, <4>1, <4>2
          <5>3. QED
            BY <5>2
        <4>5. QED
          BY <4>3, <4>4 DEF InOrderBelow
      <3>8. Has(b, e) /\ \A i : Has(a, i) => Has(b, i)
        <4>1. Len(a) \in Nat /\ Len(a) + 1 \in 1..Len(b) /\ 1..Len(a) \subseteq 1..Len(b)
          BY <3>5
        <4>2. Has(b, e)
          BY <3>5, <4>1 DEF Has
        <4>3. \A i : Has(a, i) => Has(b, i)
          BY <3>5, <4>1 DEF Has
        <4>4. QED
          BY <4>2, <4>3
      <3>9. t.shown[k] = b /\ s.shown[k] = a
        BY <1>7, <3>3, <3>4
      <3>10. \A j \in Kind : InOrderBelow(t.shown[j], Len(entries))
        BY <1>5, <1>7, <3>1, <3>7, <3>9 DEF PanelKept
      <3>11. \A j \in Kind : \A i : Has(s.shown[j], i) => Has(t.shown[j], i)
        BY <1>7, <3>8, <3>9
      <3>12. \A i \in t.own : i \in 1..Len(entries) /\ Has(t.shown[entries[i].kind], i)
        <4>1. TAKE i \in t.own
        <4>2. CASE i = e
          BY <3>2, <3>8, <3>9, <4>2
        <4>3. CASE i # e
          <5>1. i \in s.own
            BY <1>7, <4>3
          <5>2. i \in 1..Len(entries) /\ Has(s.shown[entries[i].kind], i)
            BY <1>5, <5>1 DEF PanelKept
          <5>3. entries[i].kind \in Kind
            <6>1. entries[i] \in EntryRow
              BY <1>1, <5>2 DEF DiscussionTypeOK
            <6>2. QED
              BY <6>1 DEF EntryRow
          <5>4. QED
            BY <3>11, <5>2, <5>3
        <4>4. QED
          BY <4>2, <4>3
      <3>13. \A g \in Handler : ByViewer(g)' => at'[g].kind # k /\ at'[g].kind \in Kind
        <4>1. \A g \in Handler : ByViewer(g) /\ g # h => at[g].kind # k
          BY <1>2, <1>6, <3>1 DEF PanelKept
        <4>2. \A g \in Handler : ByViewer(g) => at[g].kind \in Kind
          BY <1>1 DEF ByViewer, DiscussionTypeOK, AddRequest, AddAnswer, Idle
        <4>3. QED
          BY <1>4, <4>1, <4>2
      <3>14. \A g \in Handler : ByViewer(g)' /\ Busy(g, "added")' =>
               \A i \in 1..Len(t.shown[at'[g].kind]) : t.shown[at'[g].kind][i] < at'[g].entry
        <4>1. SUFFICES ASSUME NEW g \in Handler, ByViewer(g)', Busy(g, "added")'
                       PROVE  \A i \in 1..Len(t.shown[at'[g].kind]) : t.shown[at'[g].kind][i] < at'[g].entry
          OBVIOUS
        <4>2. ByViewer(g) /\ Busy(g, "added") /\ at'[g] = at[g] /\ at[g].kind # k /\ at[g].kind \in Kind
          BY <1>4, <3>13, <4>1
        <4>3. \A i \in 1..Len(sheet.shown[at[g].kind]) : sheet.shown[at[g].kind][i] < at[g].entry
          BY <4>2 DEF PanelKept
        <4>4. t.shown[at[g].kind] = sheet.shown[at[g].kind]
          BY <1>5, <1>7, <4>2
        <4>5. QED
          BY <4>2, <4>3, <4>4
      <3>15. \A g \in Handler : Busy(g, "added")' => at'[g].entry \in 1..Len(entries) /\ entries[at'[g].entry].kind = at'[g].kind
        BY <1>4 DEF PanelKept
      <3>16. \A f, g \in Handler : ByViewer(f)' /\ ByViewer(g)' /\ at'[f].kind = at'[g].kind => f = g
        BY <1>4 DEF PanelKept
      <3>17. t.loaded /\ details = None
        BY <1>5, <1>7, <3>1 DEF PanelKept
      <3>18. QED
        BY <1>1, <2>2, <3>10, <3>12, <3>14, <3>15, <3>16, <3>17 DEF PanelKept
    <2>3. QED
      BY <1>8, <2>1, <2>2
  <1>13. QED
    BY <1>1, <1>9, <1>10, <1>11, <1>12 DEF DiscussionInv

\* For every set of people and handlers, and any number of requests: an attachment has its
\* object unless nobody heard that it was saved, an object without one was left behind by a
\* failure, who watched is told of a comment and the author is not, and the panel loses
\* nothing that its viewer adds once it is loaded (src/components/issue-panel.tsx,
\* src/lib/notifications.ts, src/app/api/issues/[id]/attachments, src/lib/storage.ts).
THEOREM DiscussionIsKept ==
    ASSUME NEW requests
    PROVE  DiscussionSpec(requests) => []DiscussionHolds
  <1>1. DiscussionInit /\ HandlersInit(requests) => DiscussionInv
    BY DiscussionInitKeeps
  <1>2. DiscussionInv /\ [DiscussionNext]_discussionState => DiscussionInv'
    BY AsideKeeps, ReadDetailsKeeps, ShowDetailsKeeps, BeginningsKeep, PutObjectKeeps, CreateEntryKeeps,
       FailAddKeeps, PutHalfKeeps, MissCommitKeeps, DieKeeps, AnswerAddKeeps DEF DiscussionNext
  <1>3. DiscussionInv => DiscussionHolds
    BY DiscussionShows
  <1>4. QED
    BY <1>1, <1>2, <1>3, PTL DEF DiscussionSpec

=============================================================================
