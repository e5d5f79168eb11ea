------------------------ MODULE DeliveryQueue_proofs ------------------------
(***************************************************************************)
(* For every number of deliveries, channels, workers, attempts and crashes:*)
(*  - what the table says of a delivery is backed by what was sent, also   *)
(*    when workers sleep past their leases;                                *)
(*  - as long as none does, a row has one worker, a settled row stays      *)
(*    settled unless the provider returns it, and webhooks of a            *)
(*    subscription are sent in order;                                      *)
(*  - a row is claimed at most once more than its attempts allow for each  *)
(*    worker that crashed or slept.                                        *)
(***************************************************************************)
EXTENDS DeliveryQueue, FiniteSetTheorems, TLAPS

-----------------------------------------------------------------------------
(* Types.                                                                  *)

\* An outcome of a row keeps the types.
LEMMA RecordType ==
    ASSUME TypeOK, NEW w \in Workers, NEW s \in Waiting \cup Settled, Record(w, s)
    PROVE  /\ status' \in [Deliveries -> Waiting \cup Settled \cup {"absent"}]
           /\ attempts' \in [Deliveries -> Nat]
           /\ stale' \in [Deliveries -> BOOLEAN]
           /\ at' \in [Workers -> {"idle", "claimed", "allowed", "sent", "failed"}]
           /\ holds' \in [Workers -> Deliveries]
           /\ attempt' \in [Workers -> Nat]
  BY DEF TypeOK, Record

\* The tables and the workers are well typed in every reachable state.
THEOREM QueueTypes == Spec => []TypeOK
  <1>1. Init => TypeOK
    BY QueueAssumption DEF Init, TypeOK
  <1>2. TypeOK /\ [Next]_vars => TypeOK'
    <2> SUFFICES ASSUME TypeOK, [Next]_vars
                 PROVE  TypeOK'
      OBVIOUS
    <2>1. ASSUME NEW d \in Deliveries, Enqueue(d) PROVE TypeOK'
      BY <2>1 DEF TypeOK, Enqueue, workerVars, Waiting
    <2>2. ASSUME NEW d \in Deliveries, Passes(d) \/ Lapse(d) \/ Oversleep(d)
          PROVE  TypeOK'
      <3>1. CASE Passes(d)
        BY <3>1 DEF TypeOK, Passes, workerVars
      <3>2. CASE LeaseEnds(d) /\ stalls' \in {stalls, stalls + 1}
        <4>1. stalls' \in Nat
          BY <3>2 DEF TypeOK
        <4> QED
          BY <3>2, <4>1 DEF TypeOK, LeaseEnds, workerVars
      <3> QED
        BY <2>2, <3>1, <3>2 DEF Lapse, Oversleep
    <2>3. ASSUME NEW c \in Channels, Switch(c) PROVE TypeOK'
      BY <2>3 DEF TypeOK, Switch, rowVars, workerVars
    <2>4. ASSUME NEW w \in Workers, Claim(w) PROVE TypeOK'
      BY <2>4 DEF TypeOK, Claim, NextAttempt, Waiting
    <2>5. ASSUME NEW w \in Workers, Admit(w) PROVE TypeOK'
      <3>1. CASE open[Channel[holds[w]]]
        BY <2>5, <3>1 DEF TypeOK, Admit, rowVars
      <3>2. CASE ~open[Channel[holds[w]]]
        BY <2>5, <3>2, RecordType DEF TypeOK, Admit, Settled
      <3> QED
        BY <3>1, <3>2
    <2>6. ASSUME NEW w \in Workers, Send(w) PROVE TypeOK'
      BY <2>6 DEF TypeOK, Send, rowVars
    <2>7. ASSUME NEW w \in Workers, Confirm(w) PROVE TypeOK'
      BY <2>7, RecordType DEF TypeOK, Confirm, Settled
    <2>8. ASSUME NEW w \in Workers, Retry(w) PROVE TypeOK'
      <3>1. AfterFailure(w) \in Waiting \cup Settled
        BY DEF AfterFailure, Waiting, Settled
      <3>2. due' \in [Deliveries -> BOOLEAN]
        BY <2>8 DEF TypeOK, Retry
      <3> QED
        BY <2>8, <3>1, <3>2, RecordType DEF TypeOK, Retry
    <2>9. ASSUME NEW w \in Workers, Unconfirmed(w) \/ Crash(w) PROVE TypeOK'
      BY <2>9 DEF TypeOK, Unconfirmed, Crash, rowVars
    <2>10. CASE UNCHANGED vars
      BY <2>10 DEF TypeOK, vars, rowVars, workerVars
    <2>11. ASSUME NEW d \in Deliveries, Bounce(d) PROVE TypeOK'
      BY <2>11 DEF TypeOK, Bounce, workerVars, Settled
    <2> QED
      BY <2>1, <2>2, <2>3, <2>4, <2>5, <2>6, <2>7, <2>8, <2>9, <2>10, <2>11 DEF Next, Work
  <1> QED
    BY <1>1, <1>2, PTL DEF Spec

-----------------------------------------------------------------------------
(* Accounting, with and without stalls.                                    *)

\* A step after which no more workers are about to send d, no message has
\* been received and no attempt was forgotten keeps the account of d.
LEMMA AccountKept ==
    ASSUME TypeOK, AccountInv, TypeOK', NEW d \in Deliveries,
           Sending(d)' \subseteq Sending(d),
           received'[d] = received[d], attempts'[d] >= attempts[d]
    PROVE  /\ IsFiniteSet(Sending(d)')
           /\ received'[d] + Cardinality(Sending(d)') <= attempts'[d]
  <1>1. IsFiniteSet(Sending(d)) /\ received[d] + Cardinality(Sending(d)) <= attempts[d]
    BY DEF AccountInv
  <1>2. /\ IsFiniteSet(Sending(d)')
        /\ Cardinality(Sending(d)') <= Cardinality(Sending(d))
    BY <1>1, FS_Subset
  <1>3. Cardinality(Sending(d)) \in Nat /\ Cardinality(Sending(d)') \in Nat
    BY <1>1, <1>2, FS_CardinalityType
  <1>4. received[d] \in Nat /\ attempts[d] \in Nat /\ attempts'[d] \in Nat
    BY DEF TypeOK
  <1> QED
    BY <1>1, <1>2, <1>3, <1>4

\* The steps of producers, administrators and time.
LEMMA OutsideAccount ==
    ASSUME TypeOK, TypeOK', AccountInv, UNCHANGED <<attempts, workerVars, received, refused>>,
           bounced \subseteq bounced',
           \A d \in Deliveries : status'[d] \in Settled =>
              status'[d] = status[d] \/ (status'[d] = "DEAD" /\ d \in bounced')
    PROVE  AccountInv'
  <1>1. \A d \in Deliveries : Sending(d)' = Sending(d)
    BY DEF Sending, workerVars
  <1>2. attempts' = attempts /\ at' = at /\ holds' = holds /\ attempt' = attempt
        /\ received' = received /\ refused' = refused
    BY DEF workerVars
  <1>3. \A d \in Deliveries : attempts[d] \in Nat
    BY DEF TypeOK
  <1>4. \A d \in Deliveries : /\ IsFiniteSet(Sending(d)')
                              /\ received'[d] + Cardinality(Sending(d)') <= attempts'[d]
    BY <1>1, <1>2, <1>3, AccountKept
  <1>5. DeliveredWasReceived' /\ DeadForAReason'
    BY <1>2 DEF AccountInv, DeliveredWasReceived, DeadForAReason, Settled
  <1>6. \A w \in Workers : /\ at'[w] # "idle" => attempt'[w] <= attempts'[holds'[w]]
                           /\ at'[w] = "sent" => received'[holds'[w]] > 0
    BY <1>2 DEF AccountInv
  <1> QED
    BY <1>4, <1>5, <1>6 DEF AccountInv

LEMMA ClaimAccount ==
    ASSUME TypeOK, TypeOK', AccountInv, NEW w \in Workers, Claim(w)
    PROVE  AccountInv'
  <1>1. PICK d \in Deliveries :
            /\ status' = [status EXCEPT ![d] = "PROCESSING"]
            /\ attempts' = [attempts EXCEPT ![d] = attempts[d] + 1]
            /\ holds' = [holds EXCEPT ![w] = d]
            /\ attempt' = [attempt EXCEPT ![w] = attempts[d] + 1]
    BY DEF Claim, NextAttempt
  <1>2. at[w] = "idle" /\ at' = [at EXCEPT ![w] = "claimed"]
        /\ received' = received /\ refused' = refused /\ bounced' = bounced
    BY DEF Claim
  <1>3. attempts \in [Deliveries -> Nat] /\ received \in [Deliveries -> Nat]
    BY DEF TypeOK
  <1>4. ASSUME NEW e \in Deliveries
        PROVE  /\ IsFiniteSet(Sending(e)')
               /\ received'[e] + Cardinality(Sending(e)') <= attempts'[e]
    <2>1. CASE e # d
      <3>1. Sending(e)' \subseteq Sending(e)
        BY <1>1, <1>2, <2>1 DEF TypeOK, Sending
      <3> QED
        BY <1>1, <1>2, <1>3, <2>1, <3>1, AccountKept
    <2>2. CASE e = d
      <3>1. Sending(d)' = Sending(d) \cup {w}
        BY <1>1, <1>2 DEF TypeOK, Sending
      <3>2. w \notin Sending(d)
        BY <1>2 DEF Sending
      <3>3. IsFiniteSet(Sending(d)) /\ received[d] + Cardinality(Sending(d)) <= attempts[d]
        BY DEF AccountInv
      <3>4. /\ IsFiniteSet(Sending(d) \cup {w})
            /\ Cardinality(Sending(d) \cup {w}) = Cardinality(Sending(d)) + 1
        BY <3>2, <3>3, FS_AddElement
      <3>5. Cardinality(Sending(d)) \in Nat
        BY <3>3, FS_CardinalityType
      <3>6. attempts'[d] = attempts[d] + 1 /\ received'[d] = received[d]
        BY <1>1, <1>2, <1>3
      <3>7. received[d] + (Cardinality(Sending(d)) + 1) <= attempts[d] + 1
        BY <1>3, <3>3, <3>5
      <3> QED
        BY <2>2, <3>1, <3>4, <3>6, <3>7
    <2> QED
      BY <2>1, <2>2
  <1>5. ASSUME NEW v \in Workers
        PROVE  /\ at'[v] # "idle" => attempt'[v] <= attempts'[holds'[v]]
               /\ at'[v] = "sent" => received'[holds'[v]] > 0
    BY <1>1, <1>2, <1>3 DEF TypeOK, AccountInv
  <1>6. DeliveredWasReceived'
    BY <1>1, <1>2 DEF TypeOK, AccountInv, DeliveredWasReceived
  <1>7. DeadForAReason'
    BY <1>1, <1>2, <1>3, QueueAssumption DEF TypeOK, AccountInv, DeadForAReason
  <1> QED
    BY <1>4, <1>5, <1>6, <1>7 DEF AccountInv

\* A worker that records an outcome the account supports is done with it.
LEMMA RecordAccount ==
    ASSUME TypeOK, TypeOK', AccountInv, NEW w \in Workers, NEW s, Record(w, s),
           received' = received, refused \subseteq refused', bounced' = bounced,
           s = "DELIVERED" => received[holds[w]] > 0,
           s = "DEAD" => attempts[holds[w]] >= MaxAttempts \/ holds[w] \in refused'
    PROVE  AccountInv'
  <1>1. /\ status' = [status EXCEPT ![holds[w]] = s]
        /\ at' = [at EXCEPT ![w] = "idle"]
        /\ attempts' = attempts /\ holds' = holds /\ attempt' = attempt
    BY DEF Record
  <1>2. ASSUME NEW d \in Deliveries
        PROVE  /\ IsFiniteSet(Sending(d)')
               /\ received'[d] + Cardinality(Sending(d)') <= attempts'[d]
    <2>1. Sending(d)' \subseteq Sending(d)
      BY <1>1 DEF TypeOK, Sending
    <2>2. attempts'[d] >= attempts[d] /\ received'[d] = received[d]
      BY <1>1 DEF TypeOK
    <2> QED
      BY <2>1, <2>2, AccountKept
  <1>3. \A v \in Workers : /\ at'[v] # "idle" => attempt'[v] <= attempts'[holds'[v]]
                           /\ at'[v] = "sent" => received'[holds'[v]] > 0
    BY <1>1 DEF TypeOK, AccountInv
  <1>4. DeliveredWasReceived'
    BY <1>1 DEF TypeOK, AccountInv, DeliveredWasReceived
  <1>5. DeadForAReason'
    BY <1>1 DEF TypeOK, AccountInv, DeadForAReason
  <1> QED
    BY <1>2, <1>3, <1>4, <1>5 DEF AccountInv

\* A worker that neither sends nor records only gives up what it was about
\* to do.
LEMMA WorkerAccount ==
    ASSUME TypeOK, TypeOK', AccountInv, NEW w \in Workers,
           UNCHANGED <<rowVars, holds, attempt, received, refused, bounced>>, at[w] # "idle",
           NEW s, at' = [at EXCEPT ![w] = s], s # "sent",
           s \in {"claimed", "allowed"} => at[w] \in {"claimed", "allowed"}
    PROVE  AccountInv'
  <1>1. /\ status' = status /\ attempts' = attempts /\ holds' = holds
        /\ attempt' = attempt /\ received' = received /\ refused' = refused
        /\ bounced' = bounced
    BY DEF rowVars
  <1>2. ASSUME NEW d \in Deliveries
        PROVE  /\ IsFiniteSet(Sending(d)')
               /\ received'[d] + Cardinality(Sending(d)') <= attempts'[d]
    <2>1. Sending(d)' \subseteq Sending(d)
      BY <1>1 DEF TypeOK, Sending
    <2>2. attempts'[d] >= attempts[d] /\ received'[d] = received[d]
      BY <1>1 DEF TypeOK
    <2> QED
      BY <2>1, <2>2, AccountKept
  <1>3. \A v \in Workers : /\ at'[v] # "idle" => attempt'[v] <= attempts'[holds'[v]]
                           /\ at'[v] = "sent" => received'[holds'[v]] > 0
    BY <1>1 DEF TypeOK, AccountInv
  <1>4. DeliveredWasReceived' /\ DeadForAReason'
    BY <1>1 DEF AccountInv, DeliveredWasReceived, DeadForAReason
  <1> QED
    BY <1>2, <1>3, <1>4 DEF AccountInv

LEMMA SendAccount ==
    ASSUME TypeOK, TypeOK', AccountInv, NEW w \in Workers, Send(w)
    PROVE  AccountInv'
  <1> DEFINE d == holds[w]
  <1>1. PICK a \in Answers :
            /\ at' = [at EXCEPT ![w] = IF a.ok THEN "sent" ELSE "failed"]
            /\ received' = IF a.got THEN [received EXCEPT ![d] = received[d] + 1] ELSE received
    BY DEF Send
  <1>2. /\ at[w] = "allowed" /\ status' = status /\ attempts' = attempts
        /\ holds' = holds /\ attempt' = attempt /\ refused' = refused
        /\ bounced' = bounced
    BY DEF Send, rowVars
  <1>3. /\ received \in [Deliveries -> Nat] /\ attempts \in [Deliveries -> Nat]
        /\ d \in Deliveries
    BY DEF TypeOK
  <1>4. a.ok => a.got
    BY DEF Answers
  <1>5. ASSUME NEW e \in Deliveries
        PROVE  /\ IsFiniteSet(Sending(e)')
               /\ received'[e] + Cardinality(Sending(e)') <= attempts'[e]
    <2>1. Sending(e)' \subseteq Sending(e)
      BY <1>1, <1>2 DEF TypeOK, Sending
    <2>2. attempts'[e] >= attempts[e]
      BY <1>2, <1>3
    <2>3. CASE received'[e] = received[e]
      BY <2>1, <2>2, <2>3, AccountKept
    <2>4. CASE received'[e] # received[e]
      <3>1. e = d /\ received'[e] = received[e] + 1
        BY <1>1, <1>3, <2>4
      <3>2. w \in Sending(e) /\ Sending(e)' = Sending(e) \ {w}
        BY <1>1, <1>2, <3>1 DEF TypeOK, Sending
      <3>3. IsFiniteSet(Sending(e)) /\ received[e] + Cardinality(Sending(e)) <= attempts[e]
        BY DEF AccountInv
      <3>4. /\ IsFiniteSet(Sending(e) \ {w})
            /\ Cardinality(Sending(e) \ {w}) = Cardinality(Sending(e)) - 1
        BY <3>2, <3>3, FS_RemoveElement
      <3>5. Cardinality(Sending(e)) \in Nat
        BY <3>3, FS_CardinalityType
      <3>6. received[e] + 1 + (Cardinality(Sending(e)) - 1) <= attempts[e]
        BY <1>3, <3>3, <3>5
      <3> QED
        BY <1>2, <3>1, <3>2, <3>4, <3>6
    <2> QED
      BY <2>3, <2>4
  <1>6. \A e \in Deliveries : received'[e] >= received[e] /\ received'[e] \in Nat
    BY <1>1, <1>3
  <1>7. ASSUME NEW v \in Workers
        PROVE  /\ at'[v] # "idle" => attempt'[v] <= attempts'[holds'[v]]
               /\ at'[v] = "sent" => received'[holds'[v]] > 0
    <2>1. at'[v] # "idle" => attempt'[v] <= attempts'[holds'[v]]
      BY <1>1, <1>2 DEF TypeOK, AccountInv
    <2>2. CASE v # w
      <3>1. at'[v] = at[v] /\ holds[v] \in Deliveries
        BY <1>1, <2>2 DEF TypeOK
      <3>2. at[v] = "sent" => received[holds[v]] > 0
        BY DEF AccountInv
      <3> QED
        BY <1>2, <1>3, <1>6, <2>1, <3>1, <3>2
    <2>3. CASE v = w
      <3>1. at'[w] = "sent" => a.got
        BY <1>1, <1>4 DEF TypeOK
      <3>2. a.got => received'[d] > 0
        BY <1>1, <1>3
      <3> QED
        BY <1>2, <2>1, <2>3, <3>1, <3>2
    <2> QED
      BY <2>2, <2>3
  <1>8. DeliveredWasReceived'
    BY <1>2, <1>3, <1>6 DEF AccountInv, DeliveredWasReceived
  <1>9. DeadForAReason'
    BY <1>2 DEF AccountInv, DeadForAReason
  <1> QED
    BY <1>5, <1>7, <1>8, <1>9 DEF AccountInv

\* Every copy that a receiver gets is one of the attempts in the table, what
\* is marked DELIVERED was received, and what is marked DEAD was tried often
\* enough, refused or returned by the provider: for any number of workers,
\* crashes, lapsed leases and bounces.
THEOREM QueueAccounts ==
    Spec => [](AccountInv /\ OutcomesTrue)
  <1>1. Init => AccountInv
    <2> SUFFICES ASSUME Init PROVE AccountInv
      OBVIOUS
    <2>1. \A d \in Deliveries : Sending(d) = {}
      BY DEF Init, Sending
    <2>2. IsFiniteSet({}) /\ Cardinality({}) = 0
      BY FS_EmptySet
    <2> QED
      BY <2>1, <2>2 DEF Init, AccountInv, DeliveredWasReceived, DeadForAReason
  <1>2. TypeOK /\ TypeOK' /\ AccountInv /\ [Next]_vars => AccountInv'
    <2> SUFFICES ASSUME TypeOK, TypeOK', AccountInv, [Next]_vars
                 PROVE  AccountInv'
      OBVIOUS
    <2>1. ASSUME NEW d \in Deliveries, Enqueue(d) PROVE AccountInv'
      BY <2>1, OutsideAccount DEF TypeOK, Enqueue, Settled
    <2>2. ASSUME NEW d \in Deliveries, Passes(d) \/ Lapse(d) \/ Oversleep(d)
          PROVE  AccountInv'
      BY <2>2, OutsideAccount DEF Passes, Lapse, Oversleep, LeaseEnds
    <2>3. ASSUME NEW c \in Channels, Switch(c) PROVE AccountInv'
      BY <2>3, OutsideAccount DEF Switch, rowVars
    <2>4. ASSUME NEW w \in Workers, Claim(w) PROVE AccountInv'
      BY <2>4, ClaimAccount
    <2>5. ASSUME NEW w \in Workers, Admit(w) PROVE AccountInv'
      <3>1. CASE open[Channel[holds[w]]]
        BY <2>5, <3>1, WorkerAccount DEF Admit
      <3>2. CASE ~open[Channel[holds[w]]]
        BY <2>5, <3>2, RecordAccount DEF Admit
      <3> QED
        BY <3>1, <3>2
    <2>6. ASSUME NEW w \in Workers, Send(w) PROVE AccountInv'
      BY <2>6, SendAccount
    <2>7. ASSUME NEW w \in Workers, Confirm(w) PROVE AccountInv'
      <3>1. received[holds[w]] > 0
        BY <2>7 DEF Confirm, AccountInv
      <3> QED
        BY <2>7, <3>1, RecordAccount DEF Confirm
    <2>8. ASSUME NEW w \in Workers, Retry(w) PROVE AccountInv'
      <3>1. attempt[w] <= attempts[holds[w]]
        BY <2>8 DEF Retry, AccountInv
      <3>2. AfterFailure(w) = "DEAD" => attempts[holds[w]] >= MaxAttempts
        BY <3>1, QueueAssumption DEF AfterFailure, Exhausted, TypeOK
      <3>3. AfterFailure(w) # "DELIVERED"
        BY DEF AfterFailure
      <3> QED
        BY <2>8, <3>2, <3>3, RecordAccount DEF Retry
    <2>9. ASSUME NEW w \in Workers, Unconfirmed(w) \/ Crash(w) PROVE AccountInv'
      BY <2>9, WorkerAccount DEF Unconfirmed, Crash
    <2>10. CASE UNCHANGED vars
      BY <2>10, OutsideAccount DEF vars, rowVars
    <2>11. ASSUME NEW d \in Deliveries, Bounce(d) PROVE AccountInv'
      BY <2>11, OutsideAccount DEF TypeOK, Bounce, Settled
    <2> QED
      BY <2>1, <2>2, <2>3, <2>4, <2>5, <2>6, <2>7, <2>8, <2>9, <2>10, <2>11 DEF Next, Work
  <1>3. TypeOK /\ AccountInv => SendsAccounted
    <2> SUFFICES ASSUME TypeOK, AccountInv, NEW d \in Deliveries
                 PROVE  received[d] <= attempts[d]
      BY DEF SendsAccounted
    <2>1. Cardinality(Sending(d)) \in Nat
      BY FS_CardinalityType DEF AccountInv
    <2> QED
      BY <2>1 DEF AccountInv, TypeOK
  <1>4. TypeOK /\ AccountInv => OutcomesTrue
    BY <1>3 DEF AccountInv, OutcomesTrue
  <1> QED
    BY <1>1, <1>2, <1>4, QueueTypes, PTL DEF Spec

-----------------------------------------------------------------------------
(* Leases, when no worker sleeps through its own.                          *)

\* A step that leaves the workers alone, and the rows they are busy with.
LEMMA OutsideLease ==
    ASSUME Leased, UNCHANGED workerVars,
           bounced \subseteq bounced',
           \A w \in Workers : at[w] # "idle" =>
               \/ status'[holds[w]] = status[holds[w]] /\ stale'[holds[w]] = stale[holds[w]]
               \/ status'[holds[w]] = "DEAD" /\ holds[w] \in bounced'
    PROVE  Leased'
  <1>1. at' = at /\ holds' = holds
    BY DEF workerVars
  <1> QED
    BY <1>1 DEF Leased, Exclusive, HasLease

\* A step of a worker between its claim and its outcome.
LEMMA WorkerLease ==
    ASSUME TypeOK, Leased, NEW w \in Workers, at[w] # "idle",
           NEW s, at' = [at EXCEPT ![w] = s], UNCHANGED <<rowVars, holds, bounced>>
    PROVE  Leased'
  BY DEF TypeOK, Leased, Exclusive, rowVars, HasLease

\* An outcome frees the row of the worker that records it.
LEMMA RecordLease ==
    ASSUME TypeOK, Leased, NEW w \in Workers, at[w] # "idle", NEW s, Record(w, s),
           bounced' = bounced
    PROVE  Leased'
  <1>1. /\ status' = [status EXCEPT ![holds[w]] = s]
        /\ stale' = [stale EXCEPT ![holds[w]] = FALSE]
        /\ at' = [at EXCEPT ![w] = "idle"]
        /\ holds' = holds
    BY DEF Record
  <1>2. ASSUME NEW v \in Workers, at'[v] # "idle"
        PROVE  at[v] # "idle" /\ HasLease(holds[v])'
    <2>1. v # w /\ at[v] # "idle"
      BY <1>1, <1>2 DEF TypeOK
    <2>2. holds[v] # holds[w] /\ holds[v] \in Deliveries
      BY <2>1 DEF TypeOK, Leased, Exclusive
    <2>3. HasLease(holds[v])
      BY <2>1 DEF Leased
    <2> QED
      BY <1>1, <2>1, <2>2, <2>3 DEF TypeOK, HasLease
  <1>3. Exclusive'
    BY <1>1, <1>2 DEF Leased, Exclusive
  <1> QED
    BY <1>2, <1>3 DEF Leased

\* Nobody is busy with a row that can be claimed.
LEMMA ClaimedWasFree ==
    ASSUME Leased, NEW d \in Deliveries, Candidate(d), NEW v \in Workers, at[v] # "idle"
    PROVE  holds[v] # d
  BY DEF Leased, Candidate, ClaimableNow, HasLease

LEMMA ClaimLease ==
    ASSUME TypeOK, Leased, NEW w \in Workers, Claim(w)
    PROVE  Leased'
  <1>1. PICK d \in Deliveries :
            /\ Candidate(d)
            /\ status' = [status EXCEPT ![d] = "PROCESSING"]
            /\ stale' = [stale EXCEPT ![d] = FALSE]
            /\ holds' = [holds EXCEPT ![w] = d]
    BY DEF Claim
  <1>2. at[w] = "idle" /\ at' = [at EXCEPT ![w] = "claimed"] /\ bounced' = bounced
    BY DEF Claim
  <1>3. ASSUME NEW v \in Workers, at'[v] # "idle", v # w
        PROVE  /\ at[v] # "idle" /\ holds'[v] = holds[v] /\ holds[v] # d
               /\ HasLease(holds[v])'
    <2>1. at[v] # "idle" /\ holds'[v] = holds[v] /\ holds[v] \in Deliveries
      BY <1>1, <1>2, <1>3 DEF TypeOK
    <2>2. holds[v] # d
      BY <1>1, <2>1, ClaimedWasFree
    <2> QED
      BY <1>1, <1>2, <2>1, <2>2 DEF TypeOK, Leased, HasLease
  <1>4. holds'[w] = d /\ HasLease(d)'
    BY <1>1 DEF TypeOK, HasLease
  <1>5. Exclusive'
    BY <1>3, <1>4 DEF Leased, Exclusive
  <1> QED
    BY <1>3, <1>4, <1>5 DEF Leased

LEMMA LeaseStep ==
    ASSUME TypeOK, Leased, [Next]_vars, stalls' = stalls
    PROVE  Leased'
  <1>1. ASSUME NEW d \in Deliveries, Enqueue(d) PROVE Leased'
    <2>1. \A w \in Workers : at[w] # "idle" => holds[w] # d
      BY <1>1 DEF Enqueue, Leased, HasLease
    <2>2. /\ status' = [status EXCEPT ![d] = "PENDING"]
          /\ stale' = stale /\ bounced' = bounced /\ UNCHANGED workerVars
      BY <1>1 DEF Enqueue
    <2> QED
      BY <2>1, <2>2, OutsideLease DEF TypeOK
  <1>2. ASSUME NEW d \in Deliveries, Passes(d) PROVE Leased'
    BY <1>2, OutsideLease DEF Passes
  <1>3. ASSUME NEW d \in Deliveries, Lapse(d) PROVE Leased'
    <2>1. \A w \in Workers : at[w] # "idle" => holds[w] # d
      BY <1>3 DEF Lapse, Unattended
    <2>2. /\ stale' = [stale EXCEPT ![d] = TRUE] /\ status' = status
          /\ bounced' = bounced /\ UNCHANGED workerVars
      BY <1>3 DEF Lapse, LeaseEnds
    <2> QED
      BY <2>1, <2>2, OutsideLease DEF TypeOK
  <1>4. ASSUME NEW c \in Channels, Switch(c) PROVE Leased'
    BY <1>4, OutsideLease DEF Switch, rowVars
  <1>5. ASSUME NEW w \in Workers, Claim(w) PROVE Leased'
    BY <1>5, ClaimLease
  <1>6. ASSUME NEW w \in Workers, Admit(w) PROVE Leased'
    <2>1. CASE open[Channel[holds[w]]]
      BY <1>6, <2>1, WorkerLease DEF Admit
    <2>2. CASE ~open[Channel[holds[w]]]
      BY <1>6, <2>2, RecordLease DEF Admit
    <2> QED
      BY <2>1, <2>2
  <1>7. ASSUME NEW w \in Workers, Send(w) PROVE Leased'
    <2>1. PICK a \in Answers : at' = [at EXCEPT ![w] = IF a.ok THEN "sent" ELSE "failed"]
      BY <1>7 DEF Send
    <2> QED
      BY <1>7, <2>1, WorkerLease DEF Send
  <1>8. ASSUME NEW w \in Workers, Confirm(w) \/ Retry(w) PROVE Leased'
    BY <1>8, RecordLease DEF Confirm, Retry
  <1>9. ASSUME NEW w \in Workers, Unconfirmed(w) \/ Crash(w) PROVE Leased'
    BY <1>9, WorkerLease DEF Unconfirmed, Crash
  <1>10. CASE UNCHANGED vars
    BY <1>10, OutsideLease DEF vars, rowVars
  <1>11. ASSUME NEW d \in Deliveries, Oversleep(d) PROVE FALSE
    BY <1>11 DEF Oversleep, TypeOK
  <1>12. ASSUME NEW d \in Deliveries, Bounce(d) PROVE Leased'
    <2>1. /\ status' = [status EXCEPT ![d] = "DEAD"] /\ stale' = stale
          /\ bounced' = bounced \cup {d} /\ UNCHANGED workerVars
      BY <1>12 DEF Bounce
    <2> QED
      BY <2>1, OutsideLease DEF TypeOK
  <1> QED
    BY <1>1, <1>2, <1>3, <1>4, <1>5, <1>6, <1>7, <1>8, <1>9, <1>10, <1>11, <1>12 DEF Next, Work

\* No step takes a stall back.
LEMMA StallsCount ==
    ASSUME TypeOK, [Next]_vars
    PROVE  stalls' \in {stalls, stalls + 1} /\ kind' = kind
  BY DEF Next, Work, Enqueue, Bounce, Switch, Claim, Admit, Send, Confirm, Unconfirmed,
         Retry, Crash, Passes, Lapse, Oversleep, LeaseEnds, vars

\* Claims exclude each other although the lease has no token: nobody writes
\* a row that another worker is busy with, however many workers crash.
THEOREM LeasesExclude == Spec => [](LeaseInv /\ OneHolder)
  <1>1. Init => LeaseInv
    BY DEF Init, LeaseInv, Leased, Exclusive
  <1>2. TypeOK /\ LeaseInv /\ [Next]_vars => LeaseInv'
    <2> SUFFICES ASSUME TypeOK, LeaseInv, [Next]_vars, stalls' = 0
                 PROVE  Leased'
      BY DEF LeaseInv
    <2>1. stalls' = stalls /\ stalls = 0
      BY StallsCount DEF TypeOK
    <2> QED
      BY <2>1, LeaseStep DEF LeaseInv
  <1>3. LeaseInv => OneHolder
    BY DEF LeaseInv, Leased, OneHolder
  <1> QED
    BY <1>1, <1>2, <1>3, QueueTypes, PTL DEF Spec

\* Workers write rows that wait, and rows that bounced while they had them.
LEMMA SettledKept ==
    ASSUME TypeOK, Leased, [Next]_vars, NEW d \in Deliveries, status[d] \in Settled
    PROVE  status'[d] = status[d] \/ Overrides(d)
  <1>1. status[d] \notin Waiting \cup {"absent"}
    BY DEF Settled, Waiting
  <1>2. ASSUME NEW w \in Workers, at[w] # "idle", NEW s, Record(w, s), bounced' = bounced
        PROVE  status'[d] = status[d] \/ Overrides(d)
    <2>1. CASE holds[w] # d
      BY <1>2, <2>1 DEF Record, TypeOK
    <2>2. CASE holds[w] = d
      <3>1. status[d] = "DEAD" /\ d \in bounced
        BY <1>1, <1>2, <2>2 DEF Leased, HasLease, Waiting
      <3>2. ~Unattended(d)
        BY <1>2, <2>2 DEF Unattended
      <3> QED
        BY <1>2, <3>1, <3>2 DEF Overrides
    <2> QED
      BY <2>1, <2>2
  <1>3. ASSUME NEW e \in Deliveries, Enqueue(e) PROVE status'[d] = status[d]
    BY <1>1, <1>3 DEF Enqueue, TypeOK
  <1>4. ASSUME NEW w \in Workers, Claim(w) PROVE status'[d] = status[d]
    <2>1. PICK e \in Deliveries : Candidate(e) /\ status' = [status EXCEPT ![e] = "PROCESSING"]
      BY <1>4 DEF Claim
    <2>2. e # d
      BY <1>1, <2>1 DEF Candidate, ClaimableNow, Waiting
    <2> QED
      BY <2>1, <2>2 DEF TypeOK
  <1>5. ASSUME NEW w \in Workers, Admit(w) \/ Confirm(w) \/ Retry(w)
        PROVE  status'[d] = status[d] \/ Overrides(d)
    BY <1>2, <1>5 DEF Admit, Confirm, Retry, rowVars
  <1>6. ASSUME NEW w \in Workers, Send(w) \/ Unconfirmed(w) \/ Crash(w)
        PROVE  status'[d] = status[d]
    BY <1>6 DEF Send, Unconfirmed, Crash, rowVars
  <1>7. ASSUME \/ \E e \in Deliveries : Passes(e) \/ Lapse(e) \/ Oversleep(e)
               \/ \E c \in Channels : Switch(c)
               \/ UNCHANGED vars
        PROVE  status'[d] = status[d]
    BY <1>7 DEF Passes, Lapse, Oversleep, LeaseEnds, Switch, vars, rowVars
  <1>8. ASSUME NEW e \in Deliveries, Bounce(e)
        PROVE  status'[d] = status[d] \/ Overrides(d)
    BY <1>8 DEF Bounce, Overrides, TypeOK
  <1> QED
    BY <1>3, <1>4, <1>5, <1>6, <1>7, <1>8 DEF Next, Work

\* What is DELIVERED or DEAD stays so unless the provider returns it: then it is DEAD,
\* until a worker that was busy with it at the time records its outcome.
THEOREM SettledStays == Spec => SettledIsFinal
  <1>1. TypeOK /\ LeaseInv /\ [Next]_vars
        => [stalls = 0 => \A d \in Deliveries :
               status[d] \in Settled => status'[d] = status[d] \/ Overrides(d)]_vars
    BY SettledKept DEF LeaseInv
  <1> QED
    BY <1>1, LeasesExclude, QueueTypes, PTL DEF Spec, SettledIsFinal

-----------------------------------------------------------------------------
(* Order of the webhooks of a subscription.                                *)

\* An outcome neither makes a row wait that did not, nor starts a row.
LEMMA RecordOrder ==
    ASSUME TypeOK, Leased, Ordered, NEW w \in Workers, at[w] # "idle",
           NEW s, s # "PROCESSING", Record(w, s), UNCHANGED <<late, bounced>>
    PROVE  Ordered'
  <1>1. status' = [status EXCEPT ![holds[w]] = s] /\ attempts' = attempts
    BY DEF Record
  <1>2. status[holds[w]] = "PROCESSING"
    BY DEF Leased, HasLease, Ordered
  <1>3. ASSUME NEW d \in Deliveries, NEW e \in Deliveries, status'[e] = "PROCESSING"
        PROVE  /\ attempts'[e] > 0
               /\ Earlier(d, e) /\ status'[d] \in Waiting => d \in late'
    <2>1. status[e] = "PROCESSING"
      BY <1>1, <1>3 DEF TypeOK
    <2>2. status'[d] \in Waiting => status[d] \in Waiting
      BY <1>1, <1>2 DEF TypeOK, Waiting
    <2> QED
      BY <1>1, <2>1, <2>2 DEF Ordered
  <1> QED
    BY <1>3 DEF Ordered, Earlier

LEMMA ClaimOrder ==
    ASSUME kind = "webhook", TypeOK, Ordered, NEW w \in Workers, Claim(w)
    PROVE  Ordered'
  <1>1. PICK c \in Deliveries :
            /\ Candidate(c)
            /\ status' = [status EXCEPT ![c] = "PROCESSING"]
            /\ attempts' = [attempts EXCEPT ![c] = attempts[c] + 1]
    BY DEF Claim, NextAttempt
  <1>2. late' = late /\ bounced' = bounced
    BY DEF Claim
  <1>3. ASSUME NEW d \in Deliveries, NEW e \in Deliveries, status'[e] = "PROCESSING"
        PROVE  /\ attempts'[e] > 0
               /\ Earlier(d, e) /\ status'[d] \in Waiting => d \in late'
    <2>1. CASE e = c
      <3>1. attempts'[e] > 0
        BY <1>1, <2>1 DEF TypeOK
      <3>2. ASSUME Earlier(d, e) PROVE status'[d] \notin Waiting
        <4>1. status[d] \notin Waiting
          BY <1>1, <2>1, <3>2 DEF Candidate, Behind
        <4>2. d # c
          BY <2>1, <3>2, QueueAssumption DEF Earlier
        <4> QED
          BY <1>1, <4>1, <4>2 DEF TypeOK
      <3> QED
        BY <3>1, <3>2
    <2>2. CASE e # c
      <3>1. status[e] = "PROCESSING" /\ attempts'[e] = attempts[e]
        BY <1>1, <1>3, <2>2 DEF TypeOK
      <3>2. status'[d] \in Waiting => status[d] \in Waiting
        BY <1>1 DEF TypeOK, Waiting, Candidate, ClaimableNow
      <3> QED
        BY <1>2, <3>1, <3>2 DEF Ordered
    <2> QED
      BY <2>1, <2>2
  <1> QED
    BY <1>2, <1>3 DEF Ordered, Earlier

LEMMA EnqueueOrder ==
    ASSUME TypeOK, Ordered, NEW n \in Deliveries, Enqueue(n)
    PROVE  Ordered'
  <1>1. /\ status' = [status EXCEPT ![n] = "PENDING"] /\ attempts' = attempts
        /\ late \subseteq late' /\ bounced' = bounced
        /\ (\E e \in Deliveries : Earlier(n, e) /\ attempts[e] > 0) => n \in late'
    BY DEF Enqueue
  <1>2. ASSUME NEW d \in Deliveries, NEW e \in Deliveries, status'[e] = "PROCESSING"
        PROVE  /\ attempts'[e] > 0
               /\ Earlier(d, e) /\ status'[d] \in Waiting => d \in late'
    <2>1. status[e] = "PROCESSING" /\ attempts[e] > 0
      BY <1>1, <1>2 DEF TypeOK, Ordered
    <2>2. CASE d = n
      BY <1>1, <2>1, <2>2
    <2>3. CASE d # n
      BY <1>1, <2>1, <2>3 DEF TypeOK, Ordered
    <2> QED
      BY <2>2, <2>3
  <1> QED
    BY <1>1, <1>2 DEF Ordered, Earlier

LEMMA OrderStep ==
    ASSUME kind = "webhook", TypeOK, Leased, Ordered, [Next]_vars
    PROVE  Ordered'
  <1>1. ASSUME UNCHANGED <<status, attempts, late, bounced>> PROVE Ordered'
    BY <1>1 DEF Ordered, Earlier
  <1>2. ASSUME NEW d \in Deliveries, Enqueue(d) PROVE Ordered'
    BY <1>2, EnqueueOrder
  <1>3. ASSUME NEW w \in Workers, Claim(w) PROVE Ordered'
    BY <1>3, ClaimOrder
  <1>4. ASSUME NEW w \in Workers, Admit(w) PROVE Ordered'
    <2>1. CASE open[Channel[holds[w]]]
      BY <1>1, <1>4, <2>1 DEF Admit, rowVars
    <2>2. CASE ~open[Channel[holds[w]]]
      BY <1>4, <2>2, RecordOrder DEF Admit
    <2> QED
      BY <2>1, <2>2
  <1>5. ASSUME NEW w \in Workers, Confirm(w) PROVE Ordered'
    BY <1>5, RecordOrder DEF Confirm
  <1>6. ASSUME NEW w \in Workers, Retry(w) PROVE Ordered'
    <2>1. AfterFailure(w) # "PROCESSING"
      BY DEF AfterFailure
    <2> QED
      BY <1>6, <2>1, RecordOrder DEF Retry
  <1>7. ASSUME \/ \E w \in Workers : Send(w) \/ Unconfirmed(w) \/ Crash(w)
               \/ \E d \in Deliveries : Passes(d) \/ Lapse(d) \/ Oversleep(d)
               \/ \E c \in Channels : Switch(c)
               \/ UNCHANGED vars
        PROVE  Ordered'
    BY <1>1, <1>7 DEF Send, Unconfirmed, Crash, Passes, Lapse, Oversleep, LeaseEnds,
                      Switch, vars, rowVars
  <1>8. ASSUME NEW d \in Deliveries, Bounce(d) PROVE FALSE
    BY <1>8 DEF Bounce
  <1> QED
    BY <1>2, <1>3, <1>4, <1>5, <1>6, <1>7, <1>8 DEF Next, Work

\* Two webhooks of a subscription are under way together only if the earlier
\* one was committed late.
THEOREM WebhooksInOrder == Spec => [](OrderInv /\ InOrder)
  <1>1. Init => OrderInv
    BY DEF Init, OrderInv, Ordered
  <1>2. TypeOK /\ LeaseInv /\ OrderInv /\ [Next]_vars => OrderInv'
    <2> SUFFICES ASSUME TypeOK, LeaseInv, OrderInv, [Next]_vars,
                        kind' = "webhook", stalls' = 0
                 PROVE  Ordered'
      BY DEF OrderInv
    <2>1. kind = "webhook" /\ stalls = 0
      BY StallsCount DEF TypeOK
    <2> QED
      BY <2>1, OrderStep DEF LeaseInv, OrderInv
  <1>3. OrderInv => InOrder
    BY DEF OrderInv, Ordered, InOrder, OneByOne, Waiting
  <1> QED
    BY <1>1, <1>2, <1>3, QueueTypes, LeasesExclude, PTL DEF Spec

-----------------------------------------------------------------------------
(* Attempts: how many more can be made of a row.                           *)

\* The workers whose failure lets the row be claimed again.
Retrying(d) == {w \in Workers : at[w] # "idle" /\ holds[w] = d /\ attempt[w] < MaxAttempts}

\* The worker that claimed the row last is there.
Tended(d) == \E w \in Workers : at[w] # "idle" /\ holds[w] = d /\ attempt[w] = attempts[d]

\* The row can be claimed, now or without anyone doing anything about it.
Reclaimable(d) ==
  \/ status[d] = "PENDING"
  \/ (status[d] = "PROCESSING" /\ (stale[d] \/ ~Tended(d)))
Claims(d) == IF Reclaimable(d) THEN 1 ELSE 0

\* The attempts from the last regular one on.
Overtime(d) == IF attempts[d] < MaxAttempts THEN 0 ELSE attempts[d] - MaxAttempts + 1

\* Crashes and lapses of a lease that was held may each have cost an attempt.
Budget == 1 + crashes + stalls

AttemptInv ==
  /\ \A d \in Deliveries :
        /\ IsFiniteSet(Retrying(d))
        /\ Overtime(d) + Cardinality(Retrying(d)) + Claims(d) <= Budget
        /\ status[d] = "absent" => attempts[d] = 0
  /\ \A w \in Workers :
        at[w] # "idle" => status[holds[w]] # "absent" /\ attempt[w] <= attempts[holds[w]]

LEMMA BudgetGrows ==
    ASSUME TypeOK, TypeOK', crashes' >= crashes, stalls' >= stalls
    PROVE  /\ Budget \in Nat /\ Budget' \in Nat /\ Budget' >= Budget
           /\ (crashes' > crashes \/ stalls' > stalls) => Budget' > Budget
           /\ (crashes' = crashes /\ stalls' = stalls) => Budget' = Budget
  <1>1. crashes \in Nat /\ stalls \in Nat /\ crashes' \in Nat /\ stalls' \in Nat
    BY DEF TypeOK
  <1>2. PICK c \in Nat, s \in Nat : c = crashes' /\ s = stalls'
    BY <1>1
  <1>3. Budget' = 1 + c + s
    BY <1>2 DEF Budget
  <1>4. /\ c \in Nat /\ s \in Nat /\ crashes \in Nat /\ stalls \in Nat
        /\ c >= crashes /\ s >= stalls
    BY <1>1, <1>2
  <1>5. Budget \in Nat /\ Budget = 1 + crashes + stalls
    BY <1>1 DEF Budget
  <1>6. /\ 1 + c + s \in Nat /\ 1 + c + s >= 1 + crashes + stalls
        /\ (c > crashes \/ s > stalls) => 1 + c + s > 1 + crashes + stalls
    BY ONLY <1>4
  <1>7. QED
    BY <1>2, <1>3, <1>5, <1>6

\* A row that was not claimed.  If it can be claimed again by now, a worker failed that
\* had attempts left, or one crashed or overslept.
LEMMA AttemptsKept ==
    ASSUME TypeOK, TypeOK', AttemptInv, NEW d \in Deliveries,
           attempts'[d] = attempts[d], Retrying(d)' \subseteq Retrying(d),
           Budget \in Nat, Budget' \in Nat, Budget' >= Budget,
           \/ (Reclaimable(d)' => Reclaimable(d))
           \/ Budget' > Budget
           \/ \E w \in Retrying(d) : w \notin Retrying(d)'
    PROVE  /\ IsFiniteSet(Retrying(d)')
           /\ Overtime(d)' + Cardinality(Retrying(d)') + Claims(d)' <= Budget'
  <1>1. IsFiniteSet(Retrying(d)) /\ Overtime(d) + Cardinality(Retrying(d)) + Claims(d) <= Budget
    BY DEF AttemptInv
  <1>2. IsFiniteSet(Retrying(d)') /\ Cardinality(Retrying(d)') <= Cardinality(Retrying(d))
    BY <1>1, FS_Subset
  <1>3. Cardinality(Retrying(d)) \in Nat /\ Cardinality(Retrying(d)') \in Nat
    BY <1>1, <1>2, FS_CardinalityType
  <1>4. Overtime(d) \in Nat /\ Overtime(d)' = Overtime(d)
    BY QueueAssumption DEF TypeOK, Overtime
  <1>5. /\ Claims(d) \in Nat /\ Claims(d)' \in Nat
        /\ Claims(d) >= 0 /\ Claims(d)' <= 1
    BY DEF Claims
  <1>6. \/ Claims(d)' <= Claims(d)
        \/ Budget' > Budget
        \/ Cardinality(Retrying(d)') < Cardinality(Retrying(d))
    <2>1. CASE Reclaimable(d)' => Reclaimable(d)
      BY <2>1 DEF Claims
    <2>2. CASE Budget' > Budget
      BY <2>2
    <2>3. CASE \E w \in Retrying(d) : w \notin Retrying(d)'
      <3>1. PICK w \in Retrying(d) : w \notin Retrying(d)'
        BY <2>3
      <3>2. Retrying(d)' \subseteq Retrying(d) /\ Retrying(d)' # Retrying(d)
        BY <3>1
      <3>3. QED
        BY <1>1, <1>2, <1>3, <3>2, FS_Subset
    <2>4. QED
      BY <2>1, <2>2, <2>3
  <1>7. /\ Overtime(d) + Cardinality(Retrying(d)) + Claims(d) <= Budget
        /\ Budget \in Nat /\ Budget' \in Nat /\ Budget' >= Budget
        /\ Cardinality(Retrying(d)') <= Cardinality(Retrying(d))
        /\ Claims(d)' <= 1
    BY <1>1, <1>2, <1>5
  <1>8. Overtime(d) + Cardinality(Retrying(d)') + Claims(d)' <= Budget'
    BY ONLY <1>3, <1>4, <1>5, <1>6, <1>7
  <1>9. QED
    BY <1>2, <1>4, <1>8

\* Steps that leave the workers where they are, or busy with what they were.
LEMMA BystandersAttempts ==
    ASSUME TypeOK, TypeOK', AttemptInv, UNCHANGED <<attempts, holds, attempt, crashes>>,
           \A w \in Workers : at'[w] = "idle" <=> at[w] = "idle",
           \A d \in Deliveries :
              /\ status[d] # "absent" => status'[d] \in {status[d], "DEAD"}
              /\ status[d] = "absent" => status'[d] \in {"absent", "PENDING"}
              /\ stale'[d] # stale[d] => stalls' > stalls \/ ~Tended(d),
           stalls' >= stalls
    PROVE  AttemptInv'
  <1>1. /\ attempts' = attempts /\ holds' = holds /\ attempt' = attempt /\ crashes' = crashes
        /\ crashes' >= crashes /\ holds \in [Workers -> Deliveries]
    BY DEF TypeOK
  <1> DEFINE grown == stalls' > stalls
  <1>0. /\ Budget \in Nat /\ Budget' \in Nat /\ Budget' >= Budget
        /\ grown => Budget' > Budget
    BY <1>1, BudgetGrows
  <1> HIDE DEF grown
  <1>2. ASSUME NEW d \in Deliveries
        PROVE  /\ IsFiniteSet(Retrying(d)')
               /\ Overtime(d)' + Cardinality(Retrying(d)') + Claims(d)' <= Budget'
    <2>1. Retrying(d)' = Retrying(d) /\ (Tended(d)' <=> Tended(d))
      BY <1>1 DEF Retrying, Tended
    <2>2. CASE status[d] = "absent" /\ status'[d] = "PENDING"
      <3>1. Retrying(d) = {} /\ attempts[d] = 0
        BY <2>2 DEF AttemptInv, Retrying
      <3>2. IsFiniteSet({}) /\ Cardinality({}) = 0
        BY FS_EmptySet
      <3>3. Overtime(d)' = 0 /\ Claims(d)' \in {0, 1}
        BY <1>1, <3>1, QueueAssumption DEF Overtime, Claims
      <3>4. Cardinality(Retrying(d)') = 0 /\ IsFiniteSet(Retrying(d)')
        BY <2>1, <3>1, <3>2
      <3>5. Budget >= 1
        BY DEF Budget, TypeOK
      <3>6. QED
        BY <1>0, <3>3, <3>4, <3>5
    <2>3. CASE ~(status[d] = "absent" /\ status'[d] = "PENDING")
      <3>1. status'[d] = status[d] \/ status'[d] = "DEAD"
        BY <2>3 DEF TypeOK
      <3>2. (Reclaimable(d)' => Reclaimable(d)) \/ Budget' > Budget
        BY <1>0, <2>1, <3>1 DEF Reclaimable, grown
      <3>3. QED
        BY <1>0, <1>1, <2>1, <3>2, AttemptsKept
    <2>4. QED
      BY <2>2, <2>3
  <1>3. \A d \in Deliveries : status'[d] = "absent" => attempts'[d] = 0
    BY <1>1 DEF AttemptInv
  <1>4. \A w \in Workers : at'[w] # "idle" =>
            status'[holds'[w]] # "absent" /\ attempt'[w] <= attempts'[holds'[w]]
    BY <1>1 DEF AttemptInv
  <1>5. QED
    BY <1>2, <1>3, <1>4 DEF AttemptInv

LEMMA ClaimAttempts ==
    ASSUME TypeOK, TypeOK', AttemptInv, NEW w \in Workers, Claim(w)
    PROVE  AttemptInv'
  <1>1. PICK d \in Deliveries :
            /\ Candidate(d)
            /\ status' = [status EXCEPT ![d] = "PROCESSING"]
            /\ attempts' = [attempts EXCEPT ![d] = attempts[d] + 1]
            /\ stale' = [stale EXCEPT ![d] = FALSE]
            /\ holds' = [holds EXCEPT ![w] = d]
            /\ attempt' = [attempt EXCEPT ![w] = attempts[d] + 1]
    BY DEF Claim, NextAttempt
  <1>2. /\ at[w] = "idle" /\ at' = [at EXCEPT ![w] = "claimed"]
        /\ crashes' = crashes /\ stalls' = stalls
    BY DEF Claim
  <1>3. /\ d \in Deliveries /\ attempts[d] \in Nat /\ crashes \in Nat /\ stalls \in Nat
        /\ MaxAttempts \in Nat \ {0}
    BY <1>1, QueueAssumption DEF TypeOK
  <1>4. \A v \in Workers : v # w => at'[v] = at[v] /\ holds'[v] = holds[v] /\ attempt'[v] = attempt[v]
    BY <1>1, <1>2 DEF TypeOK
  <1>5. at'[w] = "claimed" /\ holds'[w] = d /\ attempt'[w] = attempts[d] + 1
    BY <1>1, <1>2 DEF TypeOK
  <1>6. \A e \in Deliveries : attempts'[e] = IF e = d THEN attempts[d] + 1 ELSE attempts[e]
    BY <1>1 DEF TypeOK
  <1>7. \A e \in Deliveries : /\ status'[e] = IF e = d THEN "PROCESSING" ELSE status[e]
                              /\ stale'[e] = IF e = d THEN FALSE ELSE stale[e]
    BY <1>1 DEF TypeOK
  <1>0. Budget \in Nat /\ Budget' = Budget
    BY <1>2, <1>3, BudgetGrows
  <1>8. ASSUME NEW e \in Deliveries
        PROVE  /\ IsFiniteSet(Retrying(e)')
               /\ Overtime(e)' + Cardinality(Retrying(e)') + Claims(e)' <= Budget'
    <2>1. CASE e # d
      <3>1. Retrying(e)' \subseteq Retrying(e)
        BY <1>4, <1>5, <2>1 DEF Retrying
      <3>2. Tended(e) => Tended(e)'
        BY <1>2, <1>4, <1>6, <2>1 DEF Tended
      <3>3. Reclaimable(e)' => Reclaimable(e)
        BY <1>7, <2>1, <3>2 DEF Reclaimable
      <3>4. QED
        BY <1>0, <1>6, <2>1, <3>1, <3>3, AttemptsKept
    <2>2. CASE e = d
      <3> DEFINE R == Retrying(d)
      <3>1. IsFiniteSet(R) /\ Overtime(d) + Cardinality(R) + Claims(d) <= Budget
        BY DEF AttemptInv
      <3>2. Cardinality(R) \in Nat
        BY <3>1, FS_CardinalityType
      <3>3. Claims(d) = 1
        BY <1>1 DEF Candidate, ClaimableNow, Claims, Reclaimable
      <3>4. Claims(d)' = 0
        <4>1. Tended(d)'
          BY <1>5, <1>6 DEF Tended
        <4>2. QED
          BY <1>7, <4>1 DEF Claims, Reclaimable
      <3>5. Retrying(d)' \subseteq R \cup {w} /\ w \notin R
        BY <1>2, <1>4 DEF Retrying
      <3>6. CASE attempts[d] + 1 < MaxAttempts
        <4>1. Overtime(d) = 0 /\ Overtime(d)' = 0
          BY <1>3, <1>6, <3>6 DEF Overtime
        <4>2. IsFiniteSet(R \cup {w}) /\ Cardinality(R \cup {w}) = Cardinality(R) + 1
          BY <3>1, <3>5, FS_AddElement
        <4>3. IsFiniteSet(Retrying(d)') /\ Cardinality(Retrying(d)') <= Cardinality(R \cup {w})
          BY <3>5, <4>2, FS_Subset
        <4>4. Cardinality(Retrying(d)') \in Nat
          BY <4>3, FS_CardinalityType
        <4>5. QED
          BY <1>0, <2>2, <3>1, <3>2, <3>3, <3>4, <4>1, <4>2, <4>3, <4>4
      <3>7. CASE attempts[d] + 1 >= MaxAttempts
        <4>1. Overtime(d) \in Nat /\ Overtime(d)' = Overtime(d) + 1
          BY <1>3, <1>6, <3>7 DEF Overtime
        <4>2. w \notin Retrying(d)'
          BY <1>3, <1>5, <3>7 DEF Retrying
        <4>3. IsFiniteSet(Retrying(d)') /\ Cardinality(Retrying(d)') <= Cardinality(R)
          BY <3>1, <3>5, <4>2, FS_Subset
        <4>4. Cardinality(Retrying(d)') \in Nat
          BY <4>3, FS_CardinalityType
        <4>5. QED
          BY <1>0, <2>2, <3>1, <3>2, <3>3, <3>4, <4>1, <4>3, <4>4
      <3>8. QED
        BY <1>3, <3>6, <3>7
    <2>3. QED
      BY <2>1, <2>2
  <1>9. \A e \in Deliveries : status'[e] = "absent" => attempts'[e] = 0
    BY <1>6, <1>7 DEF AttemptInv
  <1>10. ASSUME NEW v \in Workers, at'[v] # "idle"
         PROVE  status'[holds'[v]] # "absent" /\ attempt'[v] <= attempts'[holds'[v]]
    <2>1. CASE v = w
      <3>1. attempt'[v] = attempts[d] + 1 /\ holds'[v] = d
        BY <1>5, <2>1
      <3>2. attempts'[d] = attempts[d] + 1 /\ status'[d] = "PROCESSING"
        BY <1>3, <1>6, <1>7
      <3>3. QED
        BY <1>3, <3>1, <3>2
    <2>2. CASE v # w
      <3>1. at[v] # "idle" /\ holds[v] \in Deliveries /\ attempt[v] \in Nat /\ holds'[v] = holds[v]
        BY <1>4, <1>10, <2>2 DEF TypeOK
      <3>2. status[holds[v]] # "absent" /\ attempt[v] <= attempts[holds[v]]
        BY <3>1 DEF AttemptInv
      <3>3. attempts'[holds[v]] >= attempts[holds[v]] /\ attempts'[holds[v]] \in Nat
        BY <1>3, <1>6, <3>1 DEF TypeOK
      <3>4. status'[holds[v]] # "absent"
        BY <1>7, <3>1, <3>2
      <3>5. attempts[holds[v]] \in Nat /\ attempt'[v] = attempt[v]
        BY <1>4, <2>2, <3>1 DEF TypeOK
      <3>6. QED
        BY <3>1, <3>2, <3>3, <3>4, <3>5
    <2>3. QED
      BY <2>1, <2>2
  <1>11. QED
    BY <1>8, <1>9, <1>10 DEF AttemptInv

\* A worker that is done with its row.
LEMMA DoneAttempts ==
    ASSUME TypeOK, TypeOK', AttemptInv, NEW w \in Workers, at[w] # "idle",
           at' = [at EXCEPT ![w] = "idle"], UNCHANGED <<attempts, holds, attempt, stalls>>,
           \A d \in Deliveries : d # holds[w] => status'[d] = status[d] /\ stale'[d] = stale[d],
           status'[holds[w]] # "absent", crashes' >= crashes,
           \/ crashes' > crashes
           \/ status'[holds[w]] \in Settled
           \/ attempt[w] < MaxAttempts
    PROVE  AttemptInv'
  <1>1. /\ attempts' = attempts /\ holds' = holds /\ attempt' = attempt /\ stalls' = stalls
        /\ stalls \in Nat /\ crashes \in Nat /\ crashes' \in Nat
        /\ holds \in [Workers -> Deliveries]
    BY DEF TypeOK
  <1>2. at'[w] = "idle" /\ \A v \in Workers : v # w => at'[v] = at[v]
    BY DEF TypeOK
  <1>0. /\ Budget \in Nat /\ Budget' \in Nat /\ Budget' >= Budget
        /\ crashes' > crashes => Budget' > Budget
    BY <1>1, BudgetGrows
  <1>3. ASSUME NEW d \in Deliveries
        PROVE  /\ IsFiniteSet(Retrying(d)')
               /\ Overtime(d)' + Cardinality(Retrying(d)') + Claims(d)' <= Budget'
    <2>1. Retrying(d)' \subseteq Retrying(d)
      BY <1>1, <1>2 DEF Retrying
    <2>2. \/ (Reclaimable(d)' => Reclaimable(d))
          \/ Budget' > Budget
          \/ \E v \in Retrying(d) : v \notin Retrying(d)'
      <3>1. CASE d # holds[w]
        <4>1. Tended(d) => Tended(d)'
          BY <1>1, <1>2, <3>1 DEF Tended
        <4>2. QED
          BY <3>1, <4>1 DEF Reclaimable
      <3>2. CASE d = holds[w] /\ crashes' > crashes
        BY <1>0, <3>2
      <3>3. CASE d = holds[w] /\ status'[holds[w]] \in Settled
        BY <3>3 DEF Reclaimable, Settled
      <3>4. CASE d = holds[w] /\ attempt[w] < MaxAttempts
        BY <1>2, <3>4 DEF Retrying
      <3>5. QED
        BY <3>1, <3>2, <3>3, <3>4
    <2>3. attempts'[d] = attempts[d]
      BY <1>1
    <2>4. QED
      BY <1>0, <2>1, <2>2, <2>3, AttemptsKept
  <1>4. \A d \in Deliveries : status'[d] = "absent" => attempts'[d] = 0
    BY <1>1 DEF AttemptInv
  <1>5. \A v \in Workers : at'[v] # "idle" =>
            status'[holds'[v]] # "absent" /\ attempt'[v] <= attempts'[holds'[v]]
    BY <1>1, <1>2 DEF AttemptInv
  <1>6. QED
    BY <1>3, <1>4, <1>5 DEF AttemptInv

\* item.attempts is compared with the maximum when a send has failed, so a row is
\* claimed beyond it only because a worker crashed, or slept until its lease had lapsed:
\* once more for each.
THEOREM RetriesAreLimited == Spec => []AttemptsBounded
  <1>1. Init => AttemptInv
    <2> SUFFICES ASSUME Init PROVE AttemptInv
      OBVIOUS
    <2>1. \A d \in Deliveries : Retrying(d) = {} /\ Overtime(d) = 0 /\ Claims(d) = 0
      BY QueueAssumption DEF Init, Retrying, Overtime, Claims, Reclaimable
    <2>2. IsFiniteSet({}) /\ Cardinality({}) = 0
      BY FS_EmptySet
    <2>3. Budget = 1
      BY DEF Init, Budget
    <2>4. \A d \in Deliveries : /\ IsFiniteSet(Retrying(d))
                                /\ Overtime(d) + Cardinality(Retrying(d)) + Claims(d) <= Budget
      BY <2>1, <2>2, <2>3
    <2>5. QED
      BY <2>4 DEF Init, AttemptInv
  <1>2. TypeOK /\ TypeOK' /\ AttemptInv /\ [Next]_vars => AttemptInv'
    <2> SUFFICES ASSUME TypeOK, TypeOK', AttemptInv, [Next]_vars PROVE AttemptInv'
      OBVIOUS
    <2>0. crashes \in Nat /\ stalls \in Nat
      BY DEF TypeOK
    <2>1. ASSUME NEW d \in Deliveries, Enqueue(d) PROVE AttemptInv'
      BY <2>0, <2>1, BystandersAttempts DEF Enqueue, workerVars, TypeOK
    <2>2. ASSUME NEW d \in Deliveries, Passes(d) PROVE AttemptInv'
      BY <2>0, <2>2, BystandersAttempts DEF Passes, workerVars
    <2>3. ASSUME NEW d \in Deliveries, Lapse(d) PROVE AttemptInv'
      <3>1. /\ UNCHANGED <<status, attempts, at, holds, attempt, crashes, stalls>>
            /\ stale' = [stale EXCEPT ![d] = TRUE]
        BY <2>3 DEF Lapse, LeaseEnds, workerVars
      <3>2. ~Tended(d)
        BY <2>3 DEF Lapse, Unattended, Tended
      <3>3. \A e \in Deliveries : stale'[e] # stale[e] => ~Tended(e)
        BY <3>1, <3>2 DEF TypeOK
      <3>4. /\ UNCHANGED <<attempts, holds, attempt, crashes>>
            /\ status' = status /\ at' = at /\ stalls' >= stalls
        BY <2>0, <3>1
      <3>5. QED
        BY <3>3, <3>4, BystandersAttempts
    <2>4. ASSUME NEW d \in Deliveries, Oversleep(d) PROVE AttemptInv'
      <3>1. UNCHANGED <<status, attempts, at, holds, attempt, crashes>> /\ stalls' = stalls + 1
        BY <2>4 DEF Oversleep, LeaseEnds, workerVars
      <3>2. QED
        BY <2>0, <3>1, BystandersAttempts
    <2>5. ASSUME NEW c \in Channels, Switch(c) PROVE AttemptInv'
      BY <2>0, <2>5, BystandersAttempts DEF Switch, rowVars, workerVars
    <2>6. ASSUME NEW w \in Workers, Claim(w) PROVE AttemptInv'
      BY <2>6, ClaimAttempts
    <2>7. ASSUME NEW w \in Workers, at[w] # "idle", NEW s, s # "idle", at' = [at EXCEPT ![w] = s],
                 UNCHANGED <<rowVars, holds, attempt, crashes, stalls>>
          PROVE  AttemptInv'
      <3>1. \A v \in Workers : at'[v] = "idle" <=> at[v] = "idle"
        BY <2>7 DEF TypeOK
      <3>2. QED
        BY <2>0, <2>7, <3>1, BystandersAttempts DEF rowVars
    <2>8. ASSUME NEW w \in Workers, at[w] # "idle", NEW s, Record(w, s), s # "absent",
                 UNCHANGED <<crashes, stalls>>, s \in Settled \/ attempt[w] < MaxAttempts
          PROVE  AttemptInv'
      <3>1. /\ status' = [status EXCEPT ![holds[w]] = s] /\ stale' = [stale EXCEPT ![holds[w]] = FALSE]
            /\ at' = [at EXCEPT ![w] = "idle"] /\ UNCHANGED <<attempts, holds, attempt>>
        BY <2>8 DEF Record
      <3>2. /\ status'[holds[w]] = s
            /\ \A d \in Deliveries : d # holds[w] => status'[d] = status[d] /\ stale'[d] = stale[d]
        BY <3>1 DEF TypeOK
      <3>3. /\ UNCHANGED <<attempts, holds, attempt, stalls>> /\ crashes' >= crashes
            /\ status'[holds[w]] # "absent"
            /\ status'[holds[w]] \in Settled \/ attempt[w] < MaxAttempts
        BY <2>0, <2>8, <3>1, <3>2
      <3>4. QED
        BY <2>8, <3>1, <3>2, <3>3, DoneAttempts
    <2>9. ASSUME NEW w \in Workers, Admit(w) PROVE AttemptInv'
      <3>1. CASE open[Channel[holds[w]]]
        BY <2>7, <2>9, <3>1 DEF Admit
      <3>2. CASE ~open[Channel[holds[w]]]
        BY <2>8, <2>9, <3>2 DEF Admit, Settled
      <3> QED
        BY <3>1, <3>2
    <2>10. ASSUME NEW w \in Workers, Send(w) PROVE AttemptInv'
      <3>1. PICK a \in Answers : at' = [at EXCEPT ![w] = IF a.ok THEN "sent" ELSE "failed"]
        BY <2>10 DEF Send
      <3>2. CASE a.ok
        <4>1. at' = [at EXCEPT ![w] = "sent"]
          BY <3>1, <3>2
        <4>2. QED
          BY <2>7, <2>10, <4>1 DEF Send
      <3>3. CASE ~a.ok
        <4>1. at' = [at EXCEPT ![w] = "failed"]
          BY <3>1, <3>3
        <4>2. QED
          BY <2>7, <2>10, <4>1 DEF Send
      <3>4. QED
        BY <3>2, <3>3
    <2>11. ASSUME NEW w \in Workers, Confirm(w) PROVE AttemptInv'
      BY <2>8, <2>11 DEF Confirm, Settled
    <2>12. ASSUME NEW w \in Workers, Unconfirmed(w) PROVE AttemptInv'
      BY <2>7, <2>12 DEF Unconfirmed
    <2>13. ASSUME NEW w \in Workers, Retry(w) PROVE AttemptInv'
      <3>1. attempt[w] \in Nat /\ MaxAttempts \in Nat
        BY QueueAssumption DEF TypeOK
      <3>2. /\ AfterFailure(w) # "absent"
            /\ AfterFailure(w) \in Settled \/ attempt[w] < MaxAttempts
        BY <3>1 DEF AfterFailure, Exhausted, Settled
      <3>3. QED
        BY <2>8, <2>13, <3>2 DEF Retry
    <2>14. ASSUME NEW w \in Workers, Crash(w) PROVE AttemptInv'
      <3>1. /\ at[w] # "idle" /\ at' = [at EXCEPT ![w] = "idle"] /\ crashes' = crashes + 1
            /\ UNCHANGED <<status, stale, attempts, holds, attempt, stalls>>
        BY <2>14 DEF Crash, rowVars
      <3>2. status'[holds[w]] # "absent"
        BY <3>1 DEF AttemptInv
      <3>3. /\ UNCHANGED <<attempts, holds, attempt, stalls>> /\ crashes' > crashes /\ crashes' >= crashes
            /\ \A d \in Deliveries : status'[d] = status[d] /\ stale'[d] = stale[d]
        BY <2>0, <3>1
      <3>4. QED
        BY <3>1, <3>2, <3>3, DoneAttempts
    <2>15. CASE UNCHANGED vars
      BY <2>0, <2>15, BystandersAttempts DEF vars, rowVars, workerVars
    <2>16. ASSUME NEW d \in Deliveries, Bounce(d) PROVE AttemptInv'
      <3>1. \A e \in Deliveries : /\ status[e] # "absent" => status'[e] \in {status[e], "DEAD"}
                                  /\ status[e] = "absent" => status'[e] = "absent"
        BY <2>16 DEF Bounce, TypeOK
      <3>2. QED
        BY <2>0, <2>16, <3>1, BystandersAttempts DEF Bounce, workerVars
    <2> QED
      BY <2>1, <2>2, <2>3, <2>4, <2>5, <2>6, <2>9, <2>10, <2>11, <2>12, <2>13, <2>14, <2>15,
         <2>16
      DEF Next, Work
  <1>3. TypeOK /\ AttemptInv => AttemptsBounded
    <2> SUFFICES ASSUME TypeOK, AttemptInv, NEW d \in Deliveries
                 PROVE  attempts[d] <= MaxAttempts + crashes + stalls
      BY DEF AttemptsBounded
    <2>1. Cardinality(Retrying(d)) \in Nat
      BY FS_CardinalityType DEF AttemptInv
    <2>2. Claims(d) \in {0, 1} /\ Overtime(d) + Cardinality(Retrying(d)) + Claims(d) <= Budget
      BY DEF AttemptInv, Claims
    <2>3. /\ attempts[d] \in Nat /\ crashes \in Nat /\ stalls \in Nat /\ MaxAttempts \in Nat
      BY QueueAssumption DEF TypeOK
    <2>4. QED
      BY <2>1, <2>2, <2>3 DEF Overtime, Budget
  <1> QED
    BY <1>1, <1>2, <1>3, QueueTypes, PTL DEF Spec
=============================================================================
