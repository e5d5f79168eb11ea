------------------------------ MODULE Jobs_proofs -----------------------------
(***************************************************************************)
(* For every set of issues, operations, deletion jobs and events, every    *)
(* set of handlers (finite, for automation) and every number of requests:  *)
(* the results of bulk operations are exact, what is deleted was approved  *)
(* by another and held by nobody, and the status of an automation job says *)
(* what its workers did.                                                   *)
(***************************************************************************)
EXTENDS BulkJobs, Deletion, Automation, FiniteSetTheorems, TLAPS

bulkState == <<handlers, bulkVars>>

BulkSpec(requests) == BulkInit /\ HandlersInit(requests) /\ [][BulkNext]_bulkState

-----------------------------------------------------------------------------
(* The inductive invariant.                                                *)

BulkRow == [version : Nat, live : BOOLEAN]

Creating == [op : {"create"}, bulk : Bulk, chosen : UNION {[S -> Nat] : S \in SUBSET Target}]
Looking  == [op : {"look"}, bulk : Bulk]
Applying == [op : {"apply"}, bulk : Bulk, batch : SUBSET Target]
Marking  == [op : {"mark"}, bulk : Bulk, target : Target, then : Looking \cup Applying]

BulkTypeOK ==
  /\ target \in [Target -> BulkRow]
  /\ operation \in [Bulk -> BulkOperation \cup {None}]
  /\ item \in [Bulk -> [Target -> BulkOperationItem \cup {None}]]
  /\ applied \in [Bulk -> [Target -> Nat]]
  /\ unheard \subseteq Bulk \X Target
  /\ at \in [Handler -> {Idle} \cup Creating \cup Looking \cup Applying \cup Marking]

Occupied(h) == at[h].op \in {"look", "apply", "mark"}

\* The claim tests the status, and nobody takes an operation up again.
OneWorker ==
  \A g, h \in Handler : Occupied(g) /\ Occupied(h) /\ at[g].bulk = at[h].bulk => g = h

\* What a worker has before it is still to do; an item that it will mark is one that was
\* refused, or the answer to whose commit was lost.
HasTask(h) ==
  LET b == at[h].bulk IN
  /\ Occupied(h) => operation[b] # None /\ operation[b].status = "PROCESSING"
  /\ Busy(h, "apply") => at[h].batch \subseteq With(b, "PENDING")
  /\ Busy(h, "mark") =>
       /\ at[h].then.bulk = b
       /\ at[h].then.op = "apply" => at[h].then.batch \subseteq With(b, "PENDING") \ {at[h].target}
       /\ item[b][at[h].target] # None
       /\ <<b, at[h].target>> \in unheard \/ at[h].target \in With(b, "PENDING")

Items(b) == {t \in Target : item[b][t] # None}

\* The items of an operation are those of its selection, untouched until it is claimed.
ItemsOf(b) ==
  /\ operation[b] = None => Items(b) = {}
  /\ operation[b] # None => operation[b].total = Cardinality(Items(b))
  /\ operation[b] # None /\ operation[b].status \in {"PENDING", "CANCELLED"} => Items(b) = With(b, "PENDING")
  /\ \A t \in Target : <<b, t>> \in unheard => t \in Items(b) \ With(b, "PENDING")

\* The two halves of BulkExact, for one item and for one operation.
ItemExact(b, t) ==
  IF <<b, t>> \in unheard THEN applied[b][t] = 1
  ELSE applied[b][t] = IF t \in With(b, "SUCCEEDED") THEN 1 ELSE 0

CountsExact(b) ==
  operation[b] # None =>
    /\ operation[b].status # "COMPLETED" => operation[b].succeeded = 0
    /\ operation[b].status = "COMPLETED" =>
         /\ With(b, "PENDING") = {}
         /\ operation[b].succeeded = Cardinality(With(b, "SUCCEEDED"))
         /\ operation[b].failed = Cardinality(With(b, "FAILED"))

BulkInv ==
  /\ BulkTypeOK
  /\ OneWorker
  /\ \A h \in Handler : HasTask(h)
  /\ \A b \in Bulk : ItemsOf(b) /\ CountsExact(b)
  /\ \A b \in Bulk, t \in Target : ItemExact(b, t)

-----------------------------------------------------------------------------
(* The invariant says what the property says.                              *)

LEMMA WithStatus ==
    ASSUME NEW b \in Bulk, NEW status, NEW t \in Target
    PROVE  t \in With(b, status) <=> item[b][t] # None /\ item[b][t].status = status
  BY DEF With

\* The items that are not pending have succeeded or failed.
LEMMA Partition ==
    ASSUME BulkTypeOK, NEW b \in Bulk, With(b, "PENDING") = {}
    PROVE  Cardinality(Items(b)) = Cardinality(With(b, "SUCCEEDED")) + Cardinality(With(b, "FAILED"))
  <1> DEFINE S == With(b, "SUCCEEDED")
             F == With(b, "FAILED")
  <1>1. S \in SUBSET Target /\ F \in SUBSET Target
    BY DEF With
  <1>2. IsFiniteSet(S) /\ IsFiniteSet(F)
    BY <1>1, FS_Subset, BulkAssumption
  <1>3. \A t \in Items(b) : item[b][t] \in BulkOperationItem
    BY DEF Items, BulkTypeOK
  <1>4. Items(b) = S \cup F
    <2>1. ASSUME NEW t \in Items(b) PROVE t \in S \cup F
      <3>1. item[b][t].status \in {"PENDING", "SUCCEEDED", "FAILED"} /\ t \in Target /\ item[b][t] # None
        BY <1>3 DEF BulkOperationItem, Items
      <3>2. t \notin With(b, "PENDING")
        OBVIOUS
      <3>3. QED
        BY <3>1, <3>2 DEF With
    <2>2. S \cup F \subseteq Items(b)
      BY DEF With, Items
    <2>3. QED
      BY <2>1, <2>2
  <1>5. S \cap F = {}
    BY DEF With
  <1>6. Cardinality(S) \in Nat /\ Cardinality(F) \in Nat
    BY <1>2, FS_CardinalityType
  <1> HIDE DEF S, F
  <1>7. Cardinality(S \cup F) = Cardinality(S) + Cardinality(F)
    <2>1. Cardinality(S \cup F) = Cardinality(S) + Cardinality(F) - Cardinality(S \cap F)
      BY <1>2, FS_Union
    <2>2. Cardinality(S \cap F) = 0
      BY <1>5, FS_EmptySet
    <2>3. QED
      BY <1>6, <2>1, <2>2
  <1>8. QED
    BY <1>4, <1>7 DEF S, F

LEMMA InvImpliesExact == BulkInv => BulkExact
  <1> SUFFICES ASSUME BulkInv PROVE BulkExact
    OBVIOUS
  <1> USE DEF BulkInv
  <1>1. \A b \in Bulk, t \in Target :
          IF <<b, t>> \in unheard THEN applied[b][t] = 1
          ELSE applied[b][t] = IF t \in With(b, "SUCCEEDED") THEN 1 ELSE 0
    BY DEF ItemExact
  <1>2. ASSUME NEW b \in Bulk, operation[b] # None
        PROVE  /\ operation[b].status = "CANCELLED" => \A t \in Target : applied[b][t] = 0
               /\ operation[b].status # "COMPLETED" => operation[b].succeeded = 0
               /\ operation[b].status = "COMPLETED" =>
                    /\ With(b, "PENDING") = {}
                    /\ operation[b].succeeded + operation[b].failed = operation[b].total
                    /\ operation[b].succeeded =
                         Cardinality({t \in Target : applied[b][t] = 1 /\ t \notin With(b, "FAILED")})
    <2>1. ItemsOf(b) /\ CountsExact(b)
      OBVIOUS
    <2>2. ASSUME operation[b].status = "CANCELLED", NEW t \in Target PROVE applied[b][t] = 0
      <3>1. Items(b) = With(b, "PENDING")
        BY <1>2, <2>1, <2>2 DEF ItemsOf
      <3>2. <<b, t>> \notin unheard
        BY <2>1, <3>1 DEF ItemsOf
      <3>3. t \notin With(b, "SUCCEEDED")
        BY <3>1 DEF Items, With
      <3>4. QED
        BY <1>1, <3>2, <3>3
    <2>3. ASSUME operation[b].status = "COMPLETED"
          PROVE  /\ With(b, "PENDING") = {}
                 /\ operation[b].succeeded + operation[b].failed = operation[b].total
                 /\ operation[b].succeeded =
                      Cardinality({t \in Target : applied[b][t] = 1 /\ t \notin With(b, "FAILED")})
      <3>1. /\ With(b, "PENDING") = {}
            /\ operation[b].succeeded = Cardinality(With(b, "SUCCEEDED"))
            /\ operation[b].failed = Cardinality(With(b, "FAILED"))
        BY <1>2, <2>1, <2>3 DEF CountsExact
      <3>2. operation[b].total = Cardinality(Items(b))
        BY <1>2, <2>1 DEF ItemsOf
      <3>3. {t \in Target : applied[b][t] = 1 /\ t \notin With(b, "FAILED")} = With(b, "SUCCEEDED")
        <4>1. ASSUME NEW t \in Target, applied[b][t] = 1, t \notin With(b, "FAILED")
              PROVE  t \in With(b, "SUCCEEDED")
          <5>1. CASE <<b, t>> \in unheard
            <6>1. item[b][t] # None /\ item[b][t] \in BulkOperationItem
              BY <2>1, <5>1 DEF ItemsOf, Items, BulkTypeOK
            <6>2. item[b][t].status \in {"PENDING", "SUCCEEDED", "FAILED"}
              BY <6>1 DEF BulkOperationItem
            <6>3. t \notin With(b, "PENDING")
              BY <3>1
            <6>4. QED
              BY <4>1, <6>1, <6>2, <6>3 DEF With
          <5>2. CASE <<b, t>> \notin unheard
            BY <1>1, <4>1, <5>2
          <5>3. QED
            BY <5>1, <5>2
        <4>2. ASSUME NEW t \in With(b, "SUCCEEDED")
              PROVE  t \in Target /\ applied[b][t] = 1 /\ t \notin With(b, "FAILED")
          <5>1. t \in Target /\ t \notin With(b, "FAILED")
            BY DEF With
          <5>2. QED
            BY <1>1, <5>1
        <4>3. QED
          BY <4>1, <4>2
      <3>4. QED
        BY <3>1, <3>2, <3>3, Partition
    <2>4. QED
      BY <1>2, <2>1, <2>2, <2>3 DEF CountsExact
  <1>3. QED
    BY <1>1, <1>2 DEF BulkExact
-----------------------------------------------------------------------------
(* What the steps have in common.                                          *)

\* A handler that goes on with something else, on the same operation if it was at work.
LEMMA OneWorkerKept ==
    ASSUME BulkInv, NEW h \in Handler, NEW next, at' = [at EXCEPT ![h] = next],
           next.op \in {"look", "apply", "mark"} => Occupied(h) /\ next.bulk = at[h].bulk
    PROVE  OneWorker'
  <1>1. \A g \in Handler : at'[g] = IF g = h THEN next ELSE at[g]
    BY DEF BulkInv, BulkTypeOK
  <1>2. \A g \in Handler : Occupied(g)' => Occupied(g) /\ at'[g].bulk = at[g].bulk
    BY <1>1 DEF Occupied
  <1>3. QED
    BY <1>2 DEF OneWorker, BulkInv

\* A handler is not disturbed by what is done to other operations.
LEMMA OthersKeepTheirTask ==
    ASSUME BulkInv, NEW g \in Handler, at'[g] = at[g], unheard \subseteq unheard',
           Occupied(g) => /\ operation'[at[g].bulk] = operation[at[g].bulk]
                        /\ item'[at[g].bulk] = item[at[g].bulk]
    PROVE  HasTask(g)'
  <1>1. HasTask(g)
    BY DEF BulkInv
  <1>2. CASE Occupied(g)
    <2>1. \A status : With(at[g].bulk, status)' = With(at[g].bulk, status)
      BY <1>2 DEF With
    <2>2. QED
      BY <1>1, <1>2, <2>1 DEF HasTask, Occupied, Busy
  <1>3. CASE ~Occupied(g)
    BY <1>3 DEF HasTask, Occupied, Busy
  <1>4. QED
    BY <1>2, <1>3

\* Where neither operation nor items change, nothing is to be shown of them.
LEMMA TablesKept ==
    ASSUME BulkInv, UNCHANGED <<operation, item, applied, unheard>>
    PROVE  /\ \A b \in Bulk : ItemsOf(b)' /\ CountsExact(b)'
           /\ \A b \in Bulk, t \in Target : ItemExact(b, t)'
  <1>1. \A b : Items(b)' = Items(b) /\ \A status : With(b, status)' = With(b, status)
    BY DEF Items, With
  <1>2. \A b \in Bulk : ItemsOf(b)'
    BY <1>1 DEF BulkInv, ItemsOf
  <1>3. \A b \in Bulk : CountsExact(b)'
    BY <1>1 DEF BulkInv, CountsExact
  <1>4. \A b \in Bulk, t \in Target : ItemExact(b, t)'
    <2>1. \A b \in Bulk, t \in Target : ItemExact(b, t) /\ (ItemExact(b, t)' <=> ItemExact(b, t))
      BY <1>1 DEF BulkInv, ItemExact
    <2>2. QED
      BY <2>1
  <1>5. QED
    BY <1>2, <1>3, <1>4

\* One item gets a result.
LEMMA ItemSettled ==
    ASSUME BulkTypeOK, NEW b \in Bulk, NEW t \in Target, item[b][t] # None,
           NEW status \in {"SUCCEEDED", "FAILED"},
           item' = [item EXCEPT ![b][t].status = status]
    PROVE  /\ item' \in [Bulk -> [Target -> BulkOperationItem \cup {None}]]
           /\ \A c \in Bulk \ {b} : item'[c] = item[c]
           /\ Items(b)' = Items(b)
           /\ \A other : With(b, other)' = IF other = status THEN With(b, other) \cup {t}
                                                             ELSE With(b, other) \ {t}
  <1> DEFINE new == [item[b][t] EXCEPT !.status = status]
  <1>1. item[b][t] \in BulkOperationItem
    BY DEF BulkTypeOK
  <1>2. new \in BulkOperationItem /\ new.status = status
    BY <1>1 DEF BulkOperationItem
  <1>3. new # None
    BY <1>2, BulkAssumption
  <1> HIDE DEF new
  <1>4. item' = [item EXCEPT ![b] = [item[b] EXCEPT ![t] = new]]
    BY DEF new
  <1>5. item[b] \in [Target -> BulkOperationItem \cup {None}]
    BY DEF BulkTypeOK
  <1>6. item'[b] = [item[b] EXCEPT ![t] = new]
    BY <1>4 DEF BulkTypeOK
  <1>7. \A u \in Target : item'[b][u] = IF u = t THEN new ELSE item[b][u]
    BY <1>5, <1>6
  <1>8. item' \in [Bulk -> [Target -> BulkOperationItem \cup {None}]]
    <2>1. item'[b] \in [Target -> BulkOperationItem \cup {None}]
      BY <1>2, <1>5, <1>6
    <2>2. QED
      BY <1>4, <1>6, <2>1 DEF BulkTypeOK
  <1>9. \A c \in Bulk \ {b} : item'[c] = item[c]
    BY <1>4 DEF BulkTypeOK
  <1>10. Items(b)' = Items(b)
    BY <1>3, <1>7 DEF Items
  <1>11. \A other : With(b, other)' = IF other = status THEN With(b, other) \cup {t}
                                                       ELSE With(b, other) \ {t}
    BY <1>2, <1>3, <1>7 DEF With
  <1>12. QED
    BY <1>8, <1>9, <1>10, <1>11

\* The state of the others when a worker gives an item of its operation a result.
LEMMA ElsewhereKept ==
    ASSUME BulkInv, NEW b \in Bulk, NEW t \in Target, operation' = operation,
           \A c \in Bulk \ {b} : item'[c] = item[c],
           \A c \in Bulk \ {b} : applied'[c] = applied[c],
           unheard' \in {unheard, unheard \cup {<<b, t>>}}
    PROVE  \A c \in Bulk \ {b} : /\ ItemsOf(c)' /\ CountsExact(c)'
                                 /\ \A u \in Target : ItemExact(c, u)'
  <1> SUFFICES ASSUME NEW c \in Bulk \ {b}
               PROVE  /\ ItemsOf(c)' /\ CountsExact(c)'
                      /\ \A u \in Target : ItemExact(c, u)'
    OBVIOUS
  <1>1. \A u : <<c, u>> \in unheard' <=> <<c, u>> \in unheard
    OBVIOUS
  <1>2. item'[c] = item[c] /\ applied'[c] = applied[c]
    OBVIOUS
  <1>3. Items(c)' = Items(c) /\ \A status : With(c, status)' = With(c, status)
    BY <1>2 DEF Items, With
  <1>4. ItemsOf(c) /\ CountsExact(c) /\ \A u \in Target : ItemExact(c, u)
    BY DEF BulkInv
  <1>5. QED
    BY <1>1, <1>2, <1>3, <1>4 DEF ItemsOf, CountsExact, ItemExact

-----------------------------------------------------------------------------
(* The steps.                                                              *)

LEMMA BulkInitKeeps ==
    ASSUME NEW requests, BulkInit, HandlersInit(requests)
    PROVE  BulkInv
  <1>1. BulkTypeOK
    BY DEF BulkInit, HandlersInit, BulkTypeOK, BulkRow
  <1>2. OneWorker /\ \A h \in Handler : HasTask(h)
    BY DEF OneWorker, HasTask, Occupied, HandlersInit, Busy, Idle
  <1>3. \A b \in Bulk : operation[b] = None /\ Items(b) = {} /\ \A status : With(b, status) = {}
    BY DEF BulkInit, Items, With
  <1>4. \A b \in Bulk : ItemsOf(b) /\ CountsExact(b)
    BY <1>3 DEF ItemsOf, CountsExact, BulkInit
  <1>5. \A b \in Bulk, t \in Target : ItemExact(b, t)
    BY <1>3 DEF ItemExact, BulkInit
  <1>6. QED
    BY <1>1, <1>2, <1>4, <1>5 DEF BulkInv

LEMMA EditKeeps ==
    ASSUME BulkInv, NEW t \in Target, EditTarget(t)
    PROVE  BulkInv'
  <1>1. UNCHANGED <<at, operation, item, applied, unheard>>
    BY DEF EditTarget, InOneStep
  <1>2. target[t] \in BulkRow
    BY DEF BulkInv, BulkTypeOK
  <1>3. target' \in [Target -> BulkRow]
    <2>1. PICK new \in BulkRow : target' = [target EXCEPT ![t] = new]
      <3>1. \A row \in BulkRow : [row EXCEPT !.version = @ + 1] \in BulkRow
        BY DEF BulkRow
      <3>2. \A row \in BulkRow : [row EXCEPT !.live = FALSE] \in BulkRow
        BY DEF BulkRow
      <3>3. \/ target' = [target EXCEPT ![t] = [target[t] EXCEPT !.version = @ + 1]]
            \/ target' = [target EXCEPT ![t] = [target[t] EXCEPT !.live = FALSE]]
        BY DEF EditTarget
      <3>4. QED
        BY <1>2, <3>1, <3>2, <3>3
    <2>2. QED
      BY <2>1 DEF BulkInv, BulkTypeOK
  <1>4. BulkTypeOK'
    BY <1>1, <1>3 DEF BulkInv, BulkTypeOK
  <1>5. OneWorker'
    BY <1>1 DEF BulkInv, OneWorker, Occupied
  <1>6. \A h \in Handler : HasTask(h)'
    BY <1>1, OthersKeepTheirTask
  <1>7. QED
    BY <1>1, <1>4, <1>5, <1>6, TablesKept DEF BulkInv

\* Steps that only change what a handler has before it.
LEMMA BulkHandlerStep ==
    ASSUME BulkInv, NEW h \in Handler, NEW next \in {Idle} \cup Creating \cup Looking \cup Applying \cup Marking,
           at' = [at EXCEPT ![h] = next], UNCHANGED bulkVars,
           next.op \in {"look", "apply", "mark"} => Occupied(h) /\ next.bulk = at[h].bulk,
           HasTask(h)'
    PROVE  BulkInv'
  <1>1. BulkTypeOK'
    BY DEF BulkInv, BulkTypeOK, bulkVars
  <1>2. OneWorker'
    BY OneWorkerKept
  <1>3. \A g \in Handler \ {h} : HasTask(g)'
    <2>1. \A g \in Handler \ {h} : at'[g] = at[g]
      BY DEF BulkInv, BulkTypeOK
    <2>2. UNCHANGED <<operation, item, unheard>>
      BY DEF bulkVars
    <2>3. QED
      BY <2>1, <2>2, OthersKeepTheirTask
  <1>4. UNCHANGED <<operation, item, applied, unheard>>
    BY DEF bulkVars
  <1>5. QED
    BY <1>1, <1>2, <1>3, <1>4, TablesKept DEF BulkInv

LEMMA IdleHasNoTask ==
    ASSUME NEW h \in Handler, at'[h] = Idle \/ at'[h] \in Creating
    PROVE  HasTask(h)' /\ ~Occupied(h)'
  BY DEF HasTask, Occupied, Busy, Idle, Creating

LEMMA BulkBeginKeeps ==
    ASSUME BulkInv, NEW h \in Handler, NEW b \in Bulk, BeginBulk(h, b)
    PROVE  BulkInv'
  <1>1. PICK chosen \in SUBSET Target :
          /\ Enter(h, [op |-> "create", bulk |-> b, chosen |-> [t \in chosen |-> target[t].version]])
          /\ UNCHANGED bulkVars
    BY DEF BeginBulk
  <1> DEFINE next == [op |-> "create", bulk |-> b, chosen |-> [t \in chosen |-> target[t].version]]
  <1>2. next \in Creating
    <2>1. [t \in chosen |-> target[t].version] \in [chosen -> Nat]
      BY DEF BulkInv, BulkTypeOK, BulkRow
    <2>2. QED
      BY <2>1 DEF Creating
  <1>3. at' = [at EXCEPT ![h] = next]
    BY <1>1 DEF Enter
  <1>4. at'[h] = next
    BY <1>3 DEF BulkInv, BulkTypeOK
  <1>5. HasTask(h)'
    BY <1>2, <1>4, IdleHasNoTask
  <1>6. next.op = "create"
    OBVIOUS
  <1> HIDE DEF next
  <1>7. QED
    BY <1>1, <1>2, <1>3, <1>5, <1>6, BulkHandlerStep
\* A handler that leaves has nothing left to do.
LEMMA BulkLeaveKeeps ==
    ASSUME BulkInv, NEW h \in Handler, Leave(h), UNCHANGED bulkVars
    PROVE  BulkInv'
  <1>1. at' = [at EXCEPT ![h] = Idle]
    BY DEF Leave, Proceed
  <1>2. HasTask(h)'
    BY <1>1, IdleHasNoTask DEF BulkInv, BulkTypeOK
  <1>3. QED
    BY <1>1, <1>2, BulkHandlerStep DEF Idle

\* Only an operation changes, no handler works on it before or after.
LEMMA OperationKeeps ==
    ASSUME BulkInv, NEW b \in Bulk, operation[b] # None,
           operation[b].status \in {"PENDING", "CANCELLED"},
           NEW status \in {"PENDING", "CANCELLED"},
           operation' = [operation EXCEPT ![b].status = status],
           UNCHANGED <<at, target, item, applied, unheard>>
    PROVE  BulkInv'
  <1>1. operation[b] \in BulkOperation
    BY DEF BulkInv, BulkTypeOK
  <1> DEFINE new == [operation[b] EXCEPT !.status = status]
  <1>2. /\ new \in BulkOperation /\ new.status = status
        /\ new.total = operation[b].total /\ new.succeeded = operation[b].succeeded
    BY <1>1 DEF BulkOperation
  <1>3. operation' = [operation EXCEPT ![b] = new]
    OBVIOUS
  <1> HIDE DEF new
  <1>4. operation'[b] = new /\ \A c \in Bulk \ {b} : operation'[c] = operation[c]
    BY <1>3 DEF BulkInv, BulkTypeOK
  <1>5. BulkTypeOK'
    BY <1>2, <1>3 DEF BulkInv, BulkTypeOK
  <1>6. OneWorker'
    BY DEF BulkInv, OneWorker, Occupied
  <1>7. ASSUME NEW h \in Handler PROVE HasTask(h)'
    <2>1. Occupied(h) => at[h].bulk \in Bulk
      BY DEF BulkInv, BulkTypeOK, Occupied, Idle, Creating, Looking, Applying, Marking
    <2>2. Occupied(h) => at[h].bulk # b
      BY DEF BulkInv, HasTask
    <2>3. QED
      BY <1>4, <2>1, <2>2, OthersKeepTheirTask
  <1>8. \A c \in Bulk : Items(c)' = Items(c) /\ \A any : With(c, any)' = With(c, any)
    BY DEF Items, With
  <1>9. ItemsOf(b)' /\ CountsExact(b)'
    <2>1. ItemsOf(b) /\ CountsExact(b)
      BY DEF BulkInv
    <2>2. new # None
      BY <1>2, BulkAssumption
    <2>3. QED
      BY <1>2, <1>4, <1>8, <2>1, <2>2 DEF ItemsOf, CountsExact
  <1>10. \A c \in Bulk \ {b} : ItemsOf(c)' /\ CountsExact(c)'
    BY <1>4, <1>8 DEF BulkInv, ItemsOf, CountsExact
  <1>11. \A c \in Bulk, t \in Target : ItemExact(c, t)'
    BY <1>8 DEF BulkInv, ItemExact
  <1>12. QED
    BY <1>5, <1>6, <1>7, <1>9, <1>10, <1>11 DEF BulkInv

LEMMA CancelKeeps ==
    ASSUME BulkInv, NEW b \in Bulk, CancelBulk(b)
    PROVE  BulkInv'
  BY OperationKeeps DEF CancelBulk, InOneStep

\* The selection becomes items, none of which has a result.
LEMMA BulkCreateKeeps ==
    ASSUME BulkInv, NEW h \in Handler, CreateBulk(h)
    PROVE  BulkInv'
  <1>1. at[h] \in Creating
    BY DEF CreateBulk, Busy, BulkInv, BulkTypeOK, Idle, Looking, Applying, Marking
  <1>2. PICK b \in Bulk, chosen \in UNION {[S -> Nat] : S \in SUBSET Target} :
          b = at[h].bulk /\ chosen = at[h].chosen
    BY <1>1 DEF Creating
  <1>3. DOMAIN chosen \subseteq Target /\ \A t \in DOMAIN chosen : chosen[t] \in Nat
    OBVIOUS
  <1>4. CASE operation[b] # None
    <2>1. UNCHANGED bulkVars /\ Leave(h)
      BY <1>2, <1>4 DEF CreateBulk, bulkVars
    <2>2. QED
      BY <2>1, BulkLeaveKeeps
  <1>5. CASE operation[b] = None
    <2> DEFINE new == [status |-> "PENDING", total |-> Cardinality(DOMAIN chosen), succeeded |-> 0, failed |-> 0]
               items == [t \in Target |->
                           IF t \in DOMAIN chosen THEN [expected |-> chosen[t], status |-> "PENDING"] ELSE None]
    <2>1. /\ operation' = [operation EXCEPT ![b] = new]
          /\ item' = [item EXCEPT ![b] = items]
          /\ at' = [at EXCEPT ![h] = Idle]
          /\ UNCHANGED <<target, applied, unheard>>
      BY <1>2, <1>5 DEF CreateBulk, Leave, Proceed
    <2>2. Cardinality(DOMAIN chosen) \in Nat
      BY <1>3, FS_Subset, FS_CardinalityType, BulkAssumption
    <2>3. new \in BulkOperation /\ new # None
      BY <2>2, BulkAssumption DEF BulkOperation
    <2>4. \A t \in Target : items[t] = IF t \in DOMAIN chosen
                                       THEN [expected |-> chosen[t], status |-> "PENDING"] ELSE None
      OBVIOUS
    <2>5. \A t \in DOMAIN chosen : /\ [expected |-> chosen[t], status |-> "PENDING"] \in BulkOperationItem
                                   /\ [expected |-> chosen[t], status |-> "PENDING"] # None
      BY <1>3, BulkAssumption DEF BulkOperationItem
    <2>6. items \in [Target -> BulkOperationItem \cup {None}]
      BY <2>5
    <2>7. /\ operation'[b] = new /\ \A c \in Bulk \ {b} : operation'[c] = operation[c]
          /\ item'[b] = items /\ \A c \in Bulk \ {b} : item'[c] = item[c]
      BY <1>2, <2>1 DEF BulkInv, BulkTypeOK
    <2>8. \A t \in Target : items[t] # None => t \in DOMAIN chosen /\ items[t].status = "PENDING"
      BY <2>4
    <2>9. \A t \in Target : t \in DOMAIN chosen => items[t] # None /\ items[t].status = "PENDING"
      BY <2>4, <2>5
    <2>10. BulkTypeOK'
      <3>1. item' \in [Bulk -> [Target -> BulkOperationItem \cup {None}]]
        BY <2>1, <2>6 DEF BulkInv, BulkTypeOK
      <3>2. operation' \in [Bulk -> BulkOperation \cup {None}]
        BY <2>1, <2>3 DEF BulkInv, BulkTypeOK
      <3>3. at' \in [Handler -> {Idle} \cup Creating \cup Looking \cup Applying \cup Marking]
        BY <2>1 DEF BulkInv, BulkTypeOK
      <3>4. QED
        BY <2>1, <3>1, <3>2, <3>3 DEF BulkInv, BulkTypeOK
    <2>11. OneWorker'
      BY <2>1, OneWorkerKept DEF Idle
    <2>12. ASSUME NEW g \in Handler PROVE HasTask(g)'
      <3>1. CASE g = h
        BY <2>1, <3>1, IdleHasNoTask DEF BulkInv, BulkTypeOK
      <3>2. CASE g # h
        <4>1. at'[g] = at[g]
          BY <2>1, <3>2 DEF BulkInv, BulkTypeOK
        <4>2. Occupied(g) => at[g].bulk \in Bulk
          BY DEF BulkInv, BulkTypeOK, Occupied, Idle, Creating, Looking, Applying, Marking
        <4>3. Occupied(g) => at[g].bulk # b
          BY <1>5 DEF BulkInv, HasTask
        <4>4. QED
          BY <2>1, <2>7, <4>1, <4>2, <4>3, OthersKeepTheirTask
      <3>3. QED
        BY <3>1, <3>2
    <2> HIDE DEF items
    <2>13. Items(b)' = DOMAIN chosen /\ With(b, "PENDING")' = DOMAIN chosen /\ With(b, "SUCCEEDED")' = {}
      BY <1>3, <2>7, <2>8, <2>9 DEF Items, With
    <2>14. \A t \in Target : <<b, t>> \notin unheard
      <3>1. ItemsOf(b) /\ Items(b) = {}
        BY <1>2, <1>5 DEF BulkInv, ItemsOf
      <3>2. QED
        BY <3>1 DEF ItemsOf
    <2>15. ItemsOf(b)' /\ CountsExact(b)'
      BY <2>1, <2>3, <2>7, <2>13, <2>14 DEF ItemsOf, CountsExact
    <2>16. \A t \in Target : ItemExact(b, t)'
      <3>1. With(b, "SUCCEEDED") = {}
        BY <1>2, <1>5 DEF BulkInv, ItemsOf, Items, With
      <3>2. \A t \in Target : applied[b][t] = 0
        BY <1>2, <2>14, <3>1 DEF BulkInv, ItemExact
      <3>3. QED
        BY <2>1, <2>13, <2>14, <3>2 DEF ItemExact
    <2>17. \A c \in Bulk \ {b} : Items(c)' = Items(c) /\ \A any : With(c, any)' = With(c, any)
      BY <2>7 DEF Items, With
    <2>18. \A c \in Bulk \ {b} : ItemsOf(c)' /\ CountsExact(c)' /\ \A t \in Target : ItemExact(c, t)'
      <3>1. UNCHANGED <<applied, unheard>>
        BY <2>1
      <3>2. ASSUME NEW c \in Bulk \ {b} PROVE ItemsOf(c)' /\ CountsExact(c)' /\ \A t \in Target : ItemExact(c, t)'
        BY <2>7, <2>17, <3>1 DEF BulkInv, ItemsOf, CountsExact, ItemExact
      <3>3. QED
        BY <3>2
    <2>19. \A c \in Bulk : ItemsOf(c)' /\ CountsExact(c)' /\ \A t \in Target : ItemExact(c, t)'
      BY <2>15, <2>16, <2>18
    <2>20. QED
      BY <2>10, <2>11, <2>12, <2>19 DEF BulkInv
  <1>6. QED
    BY <1>4, <1>5
\* The claim finds nobody at work on the operation: it is pending.
LEMMA BulkClaimKeeps ==
    ASSUME BulkInv, NEW h \in Handler, NEW b \in Bulk, ClaimBulk(h, b)
    PROVE  BulkInv'
  <1> DEFINE next == [op |-> "look", bulk |-> b]
             new == [operation[b] EXCEPT !.status = "PROCESSING"]
  <1>1. /\ operation[b] # None /\ operation[b].status = "PENDING"
        /\ operation' = [operation EXCEPT ![b] = new]
        /\ at[h] = Idle /\ at' = [at EXCEPT ![h] = next]
        /\ UNCHANGED <<target, item, applied, unheard>>
    BY DEF ClaimBulk, Claimable, Enter
  <1>2. operation[b] \in BulkOperation
    BY <1>1 DEF BulkInv, BulkTypeOK
  <1>3. /\ new \in BulkOperation /\ new.status = "PROCESSING"
        /\ new.total = operation[b].total /\ new.succeeded = operation[b].succeeded
    BY <1>2 DEF BulkOperation
  <1>4. next \in Looking /\ next.op = "look" /\ next.bulk = b
    BY DEF Looking
  <1> HIDE DEF new, next
  <1>5. new # None
    BY <1>3, BulkAssumption
  <1>6. /\ operation'[b] = new /\ \A c \in Bulk \ {b} : operation'[c] = operation[c]
        /\ at'[h] = next /\ \A g \in Handler \ {h} : at'[g] = at[g]
    BY <1>1 DEF BulkInv, BulkTypeOK
  <1>7. BulkTypeOK'
    BY <1>1, <1>3, <1>4 DEF BulkInv, BulkTypeOK
  <1>8. \A g \in Handler : Occupied(g) => at[g].bulk \in Bulk \ {b}
    <2>1. \A g \in Handler : Occupied(g) => at[g].bulk \in Bulk
      BY DEF BulkInv, BulkTypeOK, Occupied, Idle, Creating, Looking, Applying, Marking
    <2>2. QED
      BY <1>1, <2>1 DEF BulkInv, HasTask
  <1>9. OneWorker'
    BY <1>4, <1>6, <1>8 DEF OneWorker, Occupied, BulkInv
  <1>10. ASSUME NEW g \in Handler PROVE HasTask(g)'
    <2>1. CASE g = h
      BY <1>3, <1>4, <1>5, <1>6, <2>1 DEF HasTask, Busy
    <2>2. CASE g # h
      BY <1>1, <1>6, <1>8, <2>2, OthersKeepTheirTask
    <2>3. QED
      BY <2>1, <2>2
  <1>11. \A c \in Bulk : Items(c)' = Items(c) /\ \A any : With(c, any)' = With(c, any)
    BY <1>1 DEF Items, With
  <1>12. ItemsOf(b)' /\ CountsExact(b)'
    <2>1. ItemsOf(b) /\ CountsExact(b)
      BY DEF BulkInv
    <2>2. QED
      BY <1>1, <1>3, <1>5, <1>6, <1>11, <2>1 DEF ItemsOf, CountsExact
  <1>13. \A c \in Bulk \ {b} : ItemsOf(c)' /\ CountsExact(c)'
    BY <1>1, <1>6, <1>11 DEF BulkInv, ItemsOf, CountsExact
  <1>14. \A c \in Bulk, t \in Target : ItemExact(c, t)'
    BY <1>1, <1>11 DEF BulkInv, ItemExact
  <1>15. QED
    BY <1>7, <1>9, <1>10, <1>12, <1>13, <1>14 DEF BulkInv

LEMMA LookKeeps ==
    ASSUME BulkInv, NEW h \in Handler, LookForItems(h)
    PROVE  BulkInv'
  <1>1. PICK b \in Bulk : b = at[h].bulk
    BY DEF LookForItems, Busy, BulkInv, BulkTypeOK, Idle, Creating, Looking, Applying, Marking
  <1>2. PICK batch \in SUBSET With(b, "PENDING") :
          Proceed(h, [op |-> "apply", bulk |-> b, batch |-> batch])
    BY <1>1 DEF LookForItems
  <1> DEFINE next == [op |-> "apply", bulk |-> b, batch |-> batch]
  <1>3. next \in Applying /\ next.op = "apply" /\ next.bulk = b /\ next.batch = batch
    BY DEF Applying, With
  <1> HIDE DEF next
  <1>4. at' = [at EXCEPT ![h] = next] /\ UNCHANGED bulkVars
    BY <1>2 DEF Proceed, next, LookForItems
  <1>5. at'[h] = next
    BY <1>4 DEF BulkInv, BulkTypeOK
  <1>6. Occupied(h)
    BY DEF LookForItems, Busy, Occupied
  <1>7. HasTask(h)'
    <2>1. operation[b] # None /\ operation[b].status = "PROCESSING"
      BY <1>1, <1>6 DEF BulkInv, HasTask
    <2>2. With(b, "PENDING")' = With(b, "PENDING")
      BY <1>4 DEF With, bulkVars
    <2>3. QED
      BY <1>3, <1>4, <1>5, <2>1, <2>2 DEF HasTask, Occupied, Busy, bulkVars
  <1>8. QED
    BY <1>1, <1>3, <1>4, <1>6, <1>7, BulkHandlerStep

\* What is left of a batch is well formed, and what it was but for the item.
LEMMA RestOfBatch ==
    ASSUME BulkInv, NEW h \in Handler, at[h] \in Applying, NEW t \in Target
    PROVE  /\ Rest(h, t) \in Looking \cup Applying
           /\ Rest(h, t).op \in {"look", "apply"}
           /\ Rest(h, t).bulk = at[h].bulk
           /\ Rest(h, t).op = "apply" => Rest(h, t).batch = at[h].batch \ {t}
  <1>1. at[h].bulk \in Bulk /\ at[h].batch \subseteq Target
    BY DEF Applying
  <1>2. CASE at[h].batch \ {t} = {}
    <2>1. Rest(h, t) = [op |-> "look", bulk |-> at[h].bulk]
      BY <1>2 DEF Rest
    <2>2. QED
      BY <1>1, <2>1 DEF Looking
  <1>3. CASE at[h].batch \ {t} # {}
    <2>1. Rest(h, t) = [op |-> "apply", bulk |-> at[h].bulk, batch |-> at[h].batch \ {t}]
      BY <1>3 DEF Rest
    <2>2. QED
      BY <1>1, <2>1 DEF Applying
  <1>4. QED
    BY <1>2, <1>3

LEMMA BulkRefuseKeeps ==
    ASSUME BulkInv, NEW h \in Handler, NEW t \in Target, RefuseItem(h, t)
    PROVE  BulkInv'
  <1>1. at[h] \in Applying
    BY DEF RefuseItem, Busy, BulkInv, BulkTypeOK, Idle, Creating, Looking, Marking
  <1>2. PICK b \in Bulk, rest \in Looking \cup Applying : b = at[h].bulk /\ rest = Rest(h, t)
    BY <1>1, RestOfBatch DEF Applying
  <1> DEFINE next == [op |-> "mark", bulk |-> b, target |-> t, then |-> rest]
  <1>3. next \in Marking /\ next.op = "mark" /\ next.bulk = b /\ next.target = t /\ next.then = rest
    BY DEF Marking
  <1> HIDE DEF next
  <1>4. at' = [at EXCEPT ![h] = next] /\ UNCHANGED bulkVars
    BY <1>2 DEF RefuseItem, Proceed, next
  <1>5. at'[h] = next
    BY <1>4 DEF BulkInv, BulkTypeOK
  <1>6. Occupied(h) /\ Busy(h, "apply") /\ t \in at[h].batch
    BY DEF RefuseItem, Busy, Occupied
  <1>7. HasTask(h)'
    <2>1. /\ operation[b] # None /\ operation[b].status = "PROCESSING"
          /\ at[h].batch \subseteq With(b, "PENDING")
      BY <1>2, <1>6 DEF BulkInv, HasTask
    <2>2. With(b, "PENDING")' = With(b, "PENDING")
      BY <1>4 DEF With, bulkVars
    <2>3. t \in With(b, "PENDING") /\ item[b][t] # None
      BY <1>6, <2>1 DEF With
    <2>4. rest.bulk = b /\ (rest.op = "apply" => rest.batch = at[h].batch \ {t})
      BY <1>1, <1>2, RestOfBatch
    <2>5. rest.op = "apply" => rest.batch \subseteq With(b, "PENDING") \ {t}
      BY <2>1, <2>4
    <2>6. QED
      BY <1>3, <1>4, <1>5, <2>1, <2>2, <2>3, <2>4, <2>5 DEF HasTask, Occupied, Busy, bulkVars
  <1>8. QED
    BY <1>2, <1>3, <1>4, <1>6, <1>7, BulkHandlerStep
\* The rest of a batch is still to do after an item of it got a result.
LEMMA ApplyKeeps ==
    ASSUME BulkInv, NEW h \in Handler, NEW t \in Target, ApplyItem(h, t)
    PROVE  BulkInv'
  <1>1. at[h] \in Applying
    BY DEF ApplyItem, Busy, BulkInv, BulkTypeOK, Idle, Creating, Looking, Marking
  <1>2. PICK b \in Bulk, rest \in Looking \cup Applying : b = at[h].bulk /\ rest = Rest(h, t)
    BY <1>1, RestOfBatch DEF Applying
  <1>3. /\ Occupied(h) /\ Busy(h, "apply") /\ t \in at[h].batch
        /\ target' = [target EXCEPT ![t].version = @ + 1]
        /\ item' = [item EXCEPT ![b][t].status = "SUCCEEDED"]
        /\ applied' = [applied EXCEPT ![b][t] = @ + 1]
        /\ operation' = operation
    BY <1>2 DEF ApplyItem, Occupied, Busy
  <1> DEFINE mark == [op |-> "mark", bulk |-> b, target |-> t, then |-> rest]
  <1>4. mark \in Marking /\ mark.op = "mark" /\ mark.bulk = b /\ mark.target = t /\ mark.then = rest
    BY DEF Marking
  <1> HIDE DEF mark
  <1>5. \/ at' = [at EXCEPT ![h] = rest] /\ unheard' = unheard
        \/ at' = [at EXCEPT ![h] = mark] /\ unheard' = unheard \cup {<<b, t>>}
    BY <1>2 DEF ApplyItem, Proceed, mark
  <1>6. PICK next \in {rest, mark} :
          /\ at' = [at EXCEPT ![h] = next]
          /\ IF next = mark THEN unheard' = unheard \cup {<<b, t>>} ELSE unheard' = unheard
    <2>1. rest # mark
      BY <1>4 DEF Looking, Applying
    <2>2. QED
      BY <1>5, <2>1
  <1>7. /\ operation[b] # None /\ operation[b].status = "PROCESSING"
        /\ at[h].batch \subseteq With(b, "PENDING")
    BY <1>2, <1>3 DEF BulkInv, HasTask
  <1>8. t \in With(b, "PENDING") /\ item[b][t] # None /\ t \notin With(b, "SUCCEEDED")
    BY <1>3, <1>7 DEF With
  <1>9. /\ item' \in [Bulk -> [Target -> BulkOperationItem \cup {None}]]
        /\ \A c \in Bulk \ {b} : item'[c] = item[c]
        /\ Items(b)' = Items(b)
        /\ \A other : With(b, other)' = IF other = "SUCCEEDED" THEN With(b, other) \cup {t}
                                                               ELSE With(b, other) \ {t}
    BY <1>3, <1>8, ItemSettled DEF BulkInv
  <1>10. /\ at'[h] = next /\ \A g \in Handler \ {h} : at'[g] = at[g]
         /\ applied'[b][t] = applied[b][t] + 1
         /\ \A u \in Target \ {t} : applied'[b][u] = applied[b][u]
         /\ \A c \in Bulk \ {b} : applied'[c] = applied[c]
    BY <1>3, <1>6 DEF BulkInv, BulkTypeOK
  <1>11. /\ rest.op \in {"look", "apply"} /\ rest.bulk = b
         /\ rest.op = "apply" => rest.batch \subseteq With(b, "PENDING") \ {t}
    BY <1>1, <1>2, <1>7, RestOfBatch
  <1>12. BulkTypeOK'
    <2>1. target' \in [Target -> BulkRow]
      <3>1. \A row \in BulkRow : [row EXCEPT !.version = @ + 1] \in BulkRow
        BY DEF BulkRow
      <3>2. target[t] \in BulkRow
        BY DEF BulkInv, BulkTypeOK
      <3>3. [target[t] EXCEPT !.version = @ + 1] \in BulkRow
        BY <3>1, <3>2
      <3>4. QED
        BY <1>3, <3>3 DEF BulkInv, BulkTypeOK
    <2>2. applied' \in [Bulk -> [Target -> Nat]]
      BY <1>3 DEF BulkInv, BulkTypeOK
    <2>3. at' \in [Handler -> {Idle} \cup Creating \cup Looking \cup Applying \cup Marking]
      BY <1>4, <1>6 DEF BulkInv, BulkTypeOK
    <2>4. unheard' \subseteq Bulk \X Target
      BY <1>6 DEF BulkInv, BulkTypeOK
    <2>5. QED
      BY <1>3, <1>9, <2>1, <2>2, <2>3, <2>4 DEF BulkInv, BulkTypeOK
  <1>13. OneWorker'
    BY <1>2, <1>3, <1>4, <1>6, <1>11, OneWorkerKept
  <1>14. ASSUME NEW g \in Handler PROVE HasTask(g)'
    <2>1. CASE g = h
      <3>1. With(b, "PENDING")' = With(b, "PENDING") \ {t} /\ item'[b][t] # None
        <4>1. t \in Items(b)'
          BY <1>8, <1>9 DEF Items
        <4>2. QED
          BY <1>9, <4>1 DEF Items
      <3>2. CASE next = mark
        BY <1>3, <1>4, <1>6, <1>7, <1>10, <1>11, <2>1, <3>1, <3>2 DEF HasTask, Occupied, Busy
      <3>3. CASE next = rest
        BY <1>3, <1>7, <1>10, <1>11, <2>1, <3>1, <3>3 DEF HasTask, Occupied, Busy
      <3>4. QED
        BY <3>2, <3>3
    <2>2. CASE g # h
      <3>1. Occupied(g) => at[g].bulk \in Bulk \ {b}
        BY <1>2, <1>3, <2>2 DEF BulkInv, BulkTypeOK, OneWorker, Occupied, Idle, Creating, Looking, Applying, Marking
      <3>2. QED
        BY <1>3, <1>6, <1>9, <1>10, <2>2, <3>1, OthersKeepTheirTask
    <2>3. QED
      BY <2>1, <2>2
  <1>15. \A c \in Bulk \ {b} : ItemsOf(c)' /\ CountsExact(c)' /\ \A u \in Target : ItemExact(c, u)'
    BY <1>3, <1>6, <1>9, <1>10, ElsewhereKept
  <1>16. <<b, t>> \notin unheard
    BY <1>8 DEF BulkInv, ItemsOf
  <1>17. ItemsOf(b)' /\ CountsExact(b)'
    <2>1. ItemsOf(b) /\ CountsExact(b)
      BY DEF BulkInv
    <2>2. \A u \in Target : <<b, u>> \in unheard' => <<b, u>> \in unheard \/ u = t
      BY <1>6
    <2>3. t \in Items(b)
      BY <1>8 DEF Items
    <2>4. \A u \in Target : <<b, u>> \in unheard' => u \in Items(b)' \ With(b, "PENDING")'
      BY <1>9, <2>1, <2>2, <2>3 DEF ItemsOf
    <2>5. QED
      BY <1>3, <1>7, <1>9, <2>1, <2>4 DEF ItemsOf, CountsExact
  <1>18. ASSUME NEW u \in Target PROVE ItemExact(b, u)'
    <2>1. CASE u = t
      <3>1. applied[b][t] = 0
        BY <1>8, <1>16 DEF BulkInv, ItemExact
      <3>2. applied'[b][t] = 1
        BY <1>10, <3>1
      <3>3. t \in With(b, "SUCCEEDED")'
        BY <1>9
      <3>4. QED
        BY <2>1, <3>2, <3>3 DEF ItemExact
    <2>2. CASE u # t
      <3>1. <<b, u>> \in unheard' <=> <<b, u>> \in unheard
        BY <1>6, <2>2
      <3>2. u \in With(b, "SUCCEEDED")' <=> u \in With(b, "SUCCEEDED")
        BY <1>9, <2>2
      <3>3. ItemExact(b, u)
        BY DEF BulkInv
      <3>4. QED
        BY <1>10, <2>2, <3>1, <3>2, <3>3 DEF ItemExact
    <2>3. QED
      BY <2>1, <2>2
  <1>19. QED
    BY <1>12, <1>13, <1>14, <1>15, <1>17, <1>18 DEF BulkInv

\* What is marked failed was pending, or is one whose commit was not heard of.
LEMMA MarkKeeps ==
    ASSUME BulkInv, NEW h \in Handler, MarkFailed(h)
    PROVE  BulkInv'
  <1>1. at[h] \in Marking /\ Occupied(h) /\ Busy(h, "mark")
    BY DEF MarkFailed, Busy, BulkInv, BulkTypeOK, Idle, Creating, Looking, Applying, Occupied
  <1>2. PICK b \in Bulk, t \in Target, then \in Looking \cup Applying :
          b = at[h].bulk /\ t = at[h].target /\ then = at[h].then
    BY <1>1 DEF Marking
  <1>3. /\ item' = [item EXCEPT ![b][t].status = "FAILED"]
        /\ at' = [at EXCEPT ![h] = then]
        /\ UNCHANGED <<target, operation, applied, unheard>>
    BY <1>2 DEF MarkFailed, Proceed
  <1>4. /\ operation[b] # None /\ operation[b].status = "PROCESSING"
        /\ then.bulk = b
        /\ then.op = "apply" => then.batch \subseteq With(b, "PENDING") \ {t}
        /\ item[b][t] # None
        /\ <<b, t>> \in unheard \/ t \in With(b, "PENDING")
    BY <1>1, <1>2 DEF BulkInv, HasTask
  <1>5. then.op \in {"look", "apply"}
    BY DEF Looking, Applying
  <1>6. /\ item' \in [Bulk -> [Target -> BulkOperationItem \cup {None}]]
        /\ \A c \in Bulk \ {b} : item'[c] = item[c]
        /\ Items(b)' = Items(b)
        /\ \A other : With(b, other)' = IF other = "FAILED" THEN With(b, other) \cup {t}
                                                            ELSE With(b, other) \ {t}
    BY <1>3, <1>4, ItemSettled DEF BulkInv
  <1>7. at'[h] = then /\ \A g \in Handler \ {h} : at'[g] = at[g]
    BY <1>3 DEF BulkInv, BulkTypeOK
  <1>8. BulkTypeOK'
    BY <1>3, <1>6 DEF BulkInv, BulkTypeOK
  <1>9. OneWorker'
    BY <1>1, <1>2, <1>3, <1>4, OneWorkerKept
  <1>10. ASSUME NEW g \in Handler PROVE HasTask(g)'
    <2>1. CASE g = h
      BY <1>3, <1>4, <1>5, <1>6, <1>7, <2>1 DEF HasTask, Occupied, Busy
    <2>2. CASE g # h
      <3>1. Occupied(g) => at[g].bulk \in Bulk \ {b}
        BY <1>1, <1>2, <2>2 DEF BulkInv, BulkTypeOK, OneWorker, Occupied, Idle, Creating, Looking, Applying, Marking
      <3>2. QED
        BY <1>3, <1>6, <1>7, <2>2, <3>1, OthersKeepTheirTask
    <2>3. QED
      BY <2>1, <2>2
  <1>11. \A c \in Bulk \ {b} : ItemsOf(c)' /\ CountsExact(c)' /\ \A u \in Target : ItemExact(c, u)'
    BY <1>3, <1>6, ElsewhereKept
  <1>12. ItemsOf(b)' /\ CountsExact(b)'
    <2>1. ItemsOf(b) /\ CountsExact(b)
      BY DEF BulkInv
    <2>2. QED
      BY <1>3, <1>4, <1>6, <2>1 DEF ItemsOf, CountsExact
  <1>13. ASSUME NEW u \in Target PROVE ItemExact(b, u)'
    <2>1. ItemExact(b, u)
      BY DEF BulkInv
    <2>2. u = t /\ <<b, t>> \notin unheard => u \notin With(b, "SUCCEEDED")
      BY <1>4 DEF With
    <2>3. QED
      BY <1>3, <1>6, <2>1, <2>2 DEF ItemExact
  <1>14. QED
    BY <1>8, <1>9, <1>10, <1>11, <1>12, <1>13 DEF BulkInv
\* Nobody else works on the operation, so that its items stay as they were counted.
LEMMA FinishKeeps ==
    ASSUME BulkInv, NEW h \in Handler, FinishBulk(h)
    PROVE  BulkInv'
  <1>1. PICK b \in Bulk : b = at[h].bulk
    BY DEF FinishBulk, Busy, BulkInv, BulkTypeOK, Idle, Creating, Looking, Applying, Marking
  <1> DEFINE succeeded == Cardinality(With(b, "SUCCEEDED"))
             failed == Cardinality(With(b, "FAILED"))
             new == [operation[b] EXCEPT !.status = "COMPLETED", !.succeeded = succeeded, !.failed = failed]
  <1>2. /\ Occupied(h) /\ With(b, "PENDING") = {}
        /\ operation' = [operation EXCEPT ![b] = new]
        /\ at' = [at EXCEPT ![h] = Idle]
        /\ UNCHANGED <<target, item, applied, unheard>>
    BY <1>1 DEF FinishBulk, Leave, Proceed, Occupied, Busy
  <1>3. succeeded \in Nat /\ failed \in Nat
    <2>1. With(b, "SUCCEEDED") \in SUBSET Target /\ With(b, "FAILED") \in SUBSET Target
      BY DEF With
    <2>2. QED
      BY <2>1, FS_Subset, FS_CardinalityType, BulkAssumption
  <1> HIDE DEF succeeded, failed
  <1>4. operation[b] # None /\ operation[b] \in BulkOperation
    BY <1>1, <1>2 DEF BulkInv, BulkTypeOK, HasTask
  <1>5. /\ new \in BulkOperation /\ new.status = "COMPLETED" /\ new.total = operation[b].total
        /\ new.succeeded = succeeded /\ new.failed = failed
    BY <1>3, <1>4 DEF BulkOperation
  <1> HIDE DEF new
  <1>6. operation'[b] = new /\ \A c \in Bulk \ {b} : operation'[c] = operation[c]
    BY <1>2 DEF BulkInv, BulkTypeOK
  <1>7. BulkTypeOK'
    BY <1>2, <1>5 DEF BulkInv, BulkTypeOK
  <1>8. OneWorker'
    BY <1>2, OneWorkerKept DEF Idle
  <1>9. ASSUME NEW g \in Handler PROVE HasTask(g)'
    <2>1. CASE g = h
      BY <1>2, <2>1, IdleHasNoTask DEF BulkInv, BulkTypeOK
    <2>2. CASE g # h
      <3>1. Occupied(g) => at[g].bulk \in Bulk \ {b}
        BY <1>1, <1>2, <2>2 DEF BulkInv, BulkTypeOK, OneWorker, Occupied, Idle, Creating, Looking, Applying, Marking
      <3>2. at'[g] = at[g]
        BY <1>2, <2>2 DEF BulkInv, BulkTypeOK
      <3>3. QED
        BY <1>2, <1>6, <3>1, <3>2, OthersKeepTheirTask
    <2>3. QED
      BY <2>1, <2>2
  <1>10. \A c \in Bulk : Items(c)' = Items(c) /\ \A any : With(c, any)' = With(c, any)
    BY <1>2 DEF Items, With
  <1>11. ItemsOf(b)' /\ CountsExact(b)'
    <2>1. ItemsOf(b)
      BY DEF BulkInv
    <2>2. new # None
      BY <1>5, BulkAssumption
    <2>3. ItemsOf(b)'
      BY <1>2, <1>4, <1>5, <1>6, <1>10, <2>1, <2>2 DEF ItemsOf
    <2>4. CountsExact(b)'
      BY <1>2, <1>5, <1>6, <1>10 DEF CountsExact, succeeded, failed
    <2>5. QED
      BY <2>3, <2>4
  <1>12. \A c \in Bulk \ {b} : ItemsOf(c)' /\ CountsExact(c)'
    BY <1>2, <1>6, <1>10 DEF BulkInv, ItemsOf, CountsExact
  <1>13. \A c \in Bulk, t \in Target : ItemExact(c, t)'
    BY <1>2, <1>10 DEF BulkInv, ItemExact
  <1>14. QED
    BY <1>7, <1>8, <1>9, <1>11, <1>12, <1>13 DEF BulkInv

LEMMA BulkStutterKeeps ==
    ASSUME BulkInv, UNCHANGED bulkState
    PROVE  BulkInv'
  <1>1. UNCHANGED <<at, target, operation, item, applied, unheard>>
    BY DEF bulkState, handlers, bulkVars
  <1>2. BulkTypeOK' /\ OneWorker'
    BY <1>1 DEF BulkInv, BulkTypeOK, OneWorker, Occupied
  <1>3. \A h \in Handler : HasTask(h)'
    BY <1>1, OthersKeepTheirTask
  <1>4. QED
    BY <1>1, <1>2, <1>3, TablesKept DEF BulkInv

-----------------------------------------------------------------------------
\* The result of an item tells what became of its issue, and the totals of an operation
\* those of its selection (claim and execute of bulk-worker.mjs, with lost answers,
\* retries, dead workers and cancellations).
THEOREM ResultsAreExact ==
    ASSUME NEW requests
    PROVE  BulkSpec(requests) => []BulkExact
  <1>1. BulkInit /\ HandlersInit(requests) => BulkInv
    BY BulkInitKeeps
  <1>2. BulkInv /\ [BulkNext]_bulkState => BulkInv'
    <2> SUFFICES ASSUME BulkInv, [BulkNext]_bulkState PROVE BulkInv'
      OBVIOUS
    <2>1. ASSUME NEW h \in Handler, MarkFailed(h) \/ FinishBulk(h) \/ WorkerDies(h)
                                    \/ CreateBulk(h) \/ LookForItems(h)
          PROVE  BulkInv'
      BY <2>1, MarkKeeps, FinishKeeps, BulkCreateKeeps, LookKeeps, BulkLeaveKeeps DEF WorkerDies
    <2>2. ASSUME NEW h \in Handler, NEW t \in Target, ApplyItem(h, t) \/ RefuseItem(h, t)
          PROVE  BulkInv'
      BY <2>2, ApplyKeeps, BulkRefuseKeeps
    <2>3. ASSUME NEW h \in Handler, NEW b \in Bulk, BeginBulk(h, b) \/ ClaimBulk(h, b)
          PROVE  BulkInv'
      BY <2>3, BulkBeginKeeps, BulkClaimKeeps
    <2>4. QED
      BY <2>1, <2>2, <2>3, EditKeeps, CancelKeeps, BulkStutterKeeps DEF BulkNext
  <1>3. BulkInv => BulkExact
    BY InvImpliesExact
  <1>4. QED
    BY <1>1, <1>2, <1>3, PTL DEF BulkSpec

-----------------------------------------------------------------------------
(* Governed deletion.                                                      *)

deletionState == <<handlers, deletionVars>>

DeletionSpec(requests) == DeletionInit /\ HandlersInit(requests) /\ [][DeletionNext]_deletionState

Previewing == [op : {"preview"}, job : Job, found : SUBSET Datum]
Approving  == [op : {"approve"}, job : Job]
Executing  == [op : {"execute"}, job : Job, found : SUBSET Datum]
Deleting   == [op : {"delete"}, job : Job, ids : SUBSET Datum, emptied : SUBSET Datum, count : Nat]

DatumRow == [row : BOOLEAN, object : BOOLEAN, old : BOOLEAN]

DeletionTypeOK ==
  /\ data \in [Datum -> DatumRow]
  /\ held \subseteq Datum /\ shielded \subseteq Datum /\ touched \subseteq Datum
  /\ job \in [Job -> {None} \cup DeletionJob]
  /\ oneByOne \in BOOLEAN
  /\ gone \in [Job -> SUBSET Datum]
  /\ at \in [Handler -> {Idle} \cup Previewing \cup Approving \cup Executing \cup Deleting]

\* Nothing that is shielded is still to be deleted.
ShieldKept ==
  /\ shielded \subseteq held /\ held \subseteq touched
  /\ \A d \in Datum : ~data[d].old => d \in touched
  /\ \A d \in shielded : data[d].row
  /\ \A h \in Handler : Busy(h, "delete") => at[h].ids \cap shielded = {}

\* A job has no more to do with it: it went, or somebody intervened.
Past(d) == ~data[d].row \/ d \in touched

\* What a handler knows of its job.
TaskKept(h) ==
  LET r == at[h]
      row == job[r.job]
  IN
  /\ Busy(h, "approve") => row # None
  /\ Busy(h, "execute") => row # None /\ row.approved /\ \A d \in Datum \ r.found : Past(d)
  /\ Busy(h, "delete") =>
       /\ row # None /\ row.approved /\ row.attempts >= 1
       /\ r.emptied \subseteq r.ids /\ r.ids \subseteq row.candidates
       /\ \A d \in row.candidates \ r.ids : Past(d)
       /\ r.count <= Cardinality(gone[r.job])
       /\ row.attempts = 1 => row.status # "COMPLETED" /\ r.count = Cardinality(gone[r.job])

OneExecution ==
  \A g, h \in Handler :
    Busy(g, "delete") /\ Busy(h, "delete") /\ at[g].job = at[h].job /\ job[at[h].job].attempts = 1 => g = h

JobKept(j) ==
  /\ gone[j] # {} => job[j] # None /\ job[j].approved /\ job[j].attempts >= 1 /\ gone[j] \subseteq job[j].candidates
  /\ \A d \in gone[j] : ~data[d].row
  /\ job[j] # None /\ job[j].status = "COMPLETED" =>
       /\ job[j].attempts >= 1
       /\ job[j].count <= Cardinality(gone[j])
       /\ job[j].attempts = 1 => job[j].count = Cardinality(gone[j])
       /\ \A d \in job[j].candidates : Past(d)

ObjectsKept ==
  \A d \in Datum : data[d].row /\ ~data[d].object =>
    d \in touched \/ \E j \in Job : job[j] # None /\ d \in job[j].candidates /\ job[j].status # "COMPLETED"

DeletionInv ==
  /\ DeletionTypeOK /\ ShieldKept /\ OneExecution /\ ObjectsKept
  /\ \A h \in Handler : TaskKept(h)
  /\ \A j \in Job : JobKept(j)

LEMMA InvImpliesGoverned == DeletionInv => DeletionGoverned
  <1> SUFFICES ASSUME DeletionInv PROVE DeletionGoverned
    OBVIOUS
  <1>1. ASSUME NEW j \in Job, job[j] # None, job[j].status = "COMPLETED"
        PROVE  IF job[j].attempts = 1 THEN job[j].count = Cardinality(gone[j])
                                      ELSE job[j].count <= Cardinality(gone[j])
    BY <1>1 DEF DeletionInv, JobKept
  <1>2. \A j \in Job : gone[j] # {} => job[j].approved /\ gone[j] \subseteq job[j].candidates
    BY DEF DeletionInv, JobKept
  <1>3. \A d \in shielded : data[d].row
    BY DEF DeletionInv, ShieldKept
  <1>4. ObjectsKept
    BY DEF DeletionInv
  <1>5. QED
    BY <1>1, <1>2, <1>3, <1>4 DEF DeletionGoverned, ObjectsKept

LEMMA DeletionReads ==
    ASSUME DeletionTypeOK, NEW h \in Handler
    PROVE  /\ Busy(h, "preview") => at[h] \in Previewing
           /\ Busy(h, "approve") => at[h] \in Approving
           /\ Busy(h, "execute") => at[h] \in Executing
           /\ Busy(h, "delete") => at[h] \in Deleting
  BY DEF DeletionTypeOK, Busy, Idle, Previewing, Approving, Executing, Deleting

LEMMA GoneFinite ==
    ASSUME DeletionTypeOK, NEW j \in Job
    PROVE  IsFiniteSet(gone[j]) /\ Cardinality(gone[j]) \in Nat
  <1>1. gone[j] \subseteq Datum
    BY DEF DeletionTypeOK
  <1>2. IsFiniteSet(gone[j])
    BY <1>1, DeletionAssumption, FS_Subset
  <1>3. QED
    BY <1>2, FS_CardinalityType

LEMMA DeletionInitKeeps ==
    ASSUME NEW requests, DeletionInit, HandlersInit(requests)
    PROVE  DeletionInv
  <1>1. DeletionTypeOK
    <2>1. [row |-> TRUE, object |-> TRUE, old |-> TRUE] \in DatumRow
      BY DEF DatumRow
    <2>2. QED
      BY <2>1 DEF DeletionInit, HandlersInit, DeletionTypeOK
  <1>2. \A h \in Handler : at[h].op = "idle"
    BY DEF HandlersInit, Idle
  <1>3. ShieldKept /\ OneExecution /\ ObjectsKept
    BY <1>2 DEF DeletionInit, ShieldKept, OneExecution, ObjectsKept, Busy
  <1>4. \A h \in Handler : TaskKept(h)
    BY <1>2 DEF TaskKept, Busy
  <1>5. \A j \in Job : JobKept(j)
    BY DEF DeletionInit, JobKept
  <1>6. QED
    BY <1>1, <1>3, <1>4, <1>5 DEF DeletionInv

\* Steps of a handler that leave the tables as they are.
LEMMA DeletionBegins ==
    ASSUME DeletionInv, NEW h \in Handler, NEW next \in {Idle} \cup Previewing \cup Approving \cup Executing,
           at' = [at EXCEPT ![h] = next], UNCHANGED deletionVars,
           next.op = "approve" => job[next.job] # None,
           next.op = "execute" => /\ job[next.job] # None /\ job[next.job].approved
                                  /\ \A d \in Datum \ next.found : Past(d)
    PROVE  DeletionInv'
  <1> USE DEF DeletionInv, deletionVars
  <1>1. DeletionTypeOK'
    BY DEF DeletionTypeOK
  <1>2. next.op # "delete"
    BY DEF Idle, Previewing, Approving, Executing
  <1>3. at'[h] = next /\ \A g \in Handler : g # h => at'[g] = at[g]
    BY DEF DeletionTypeOK
  <1>4. \A g \in Handler : Busy(g, "delete")' => Busy(g, "delete") /\ at'[g] = at[g]
    BY <1>2, <1>3 DEF Busy
  <1>5. ShieldKept' /\ OneExecution' /\ ObjectsKept'
    BY <1>4 DEF ShieldKept, OneExecution, ObjectsKept
  <1>6. ASSUME NEW g \in Handler PROVE TaskKept(g)'
    <2>1. CASE g = h
      BY <1>2, <1>3, <2>1 DEF TaskKept, Busy, Past
    <2>2. CASE g # h
      BY <1>3, <2>2 DEF TaskKept, Busy, Past
    <2>3. QED
      BY <2>1, <2>2
  <1>7. \A j \in Job : JobKept(j)'
    BY DEF JobKept, Past
  <1>8. QED
    BY <1>1, <1>5, <1>6, <1>7

\* Holds and restorations: rows, objects and jobs stay.
LEMMA HoldsKeep ==
    ASSUME DeletionInv, UNCHANGED <<at, job, oneByOne, gone>>, touched \subseteq touched', DeletionTypeOK',
           \A d \in Datum : data'[d].row = data[d].row /\ data'[d].object = data[d].object,
           ShieldKept'
    PROVE  DeletionInv'
  <1> USE DEF DeletionInv
  <1>1. \A d \in Datum : Past(d) => Past(d)'
    BY DEF Past
  <1>2. OneExecution' /\ ObjectsKept'
    BY DEF OneExecution, ObjectsKept, Busy
  <1>3. ASSUME NEW h \in Handler PROVE TaskKept(h)'
    <2>1. TaskKept(h) /\ Busy(h, "approve")' = Busy(h, "approve")
          /\ Busy(h, "execute")' = Busy(h, "execute") /\ Busy(h, "delete")' = Busy(h, "delete")
      BY DEF Busy
    <2>2. CASE Busy(h, "delete")
      <3>1. at[h].job \in Job /\ at[h] \in Deleting
        BY <2>2, DeletionReads DEF Deleting
      <3>2. job[at[h].job] # None /\ job[at[h].job].candidates \subseteq Datum
        BY <2>1, <2>2, <3>1 DEF TaskKept, DeletionTypeOK, DeletionJob
      <3>3. \A d \in job[at[h].job].candidates \ at[h].ids : Past(d)'
        BY <1>1, <2>1, <2>2, <3>2 DEF TaskKept
      <3>4. QED
        BY <2>1, <2>2, <3>3 DEF TaskKept, Busy
    <2>3. CASE ~Busy(h, "delete")
      BY <1>1, <2>1, <2>3 DEF TaskKept
    <2>4. QED
      BY <2>2, <2>3
  <1>4. ASSUME NEW j \in Job PROVE JobKept(j)'
    <2>1. JobKept(j) /\ gone[j] \subseteq Datum
      BY DEF DeletionTypeOK
    <2>2. job[j] # None => job[j].candidates \subseteq Datum
      BY DEF DeletionTypeOK, DeletionJob
    <2>3. QED
      BY <1>1, <2>1, <2>2 DEF JobKept
  <1>5. QED
    BY <1>2, <1>3, <1>4

LEMMA PlaceHoldKeeps ==
    ASSUME DeletionInv, NEW d \in Datum, PlaceHold(d)
    PROVE  DeletionInv'
  <1> USE DEF DeletionInv
  <1>1. UNCHANGED <<at, data, job, oneByOne, gone>> /\ touched' = touched \cup {d} /\ held' = held \cup {d}
    BY DEF PlaceHold, InOneStep
  <1>2. shielded' = shielded \/ (shielded' = shielded \cup {d} /\ d \notin Condemned)
    BY DEF PlaceHold
  <1>3. DeletionTypeOK'
    BY <1>1, <1>2 DEF DeletionTypeOK
  <1>4. ShieldKept'
    <2>1. \A h \in Handler : Busy(h, "delete") /\ d \notin Condemned => d \notin at[h].ids
      BY DEF Condemned, Busy
    <2>2. data[d].row
      BY DEF PlaceHold
    <2>3. QED
      BY <1>1, <1>2, <2>1, <2>2 DEF ShieldKept, Busy
  <1>5. QED
    BY <1>1, <1>3, <1>4, HoldsKeep

LEMMA ReleaseHoldKeeps ==
    ASSUME DeletionInv, NEW d \in Datum, ReleaseHold(d)
    PROVE  DeletionInv'
  <1> USE DEF DeletionInv
  <1>1. /\ UNCHANGED <<at, data, job, oneByOne, gone, touched>>
        /\ held' = held \ {d} /\ shielded' = shielded \ {d}
    BY DEF ReleaseHold, InOneStep
  <1>2. DeletionTypeOK'
    BY <1>1 DEF DeletionTypeOK
  <1>3. ShieldKept'
    BY <1>1 DEF ShieldKept, Busy
  <1>4. QED
    BY <1>1, <1>2, <1>3, HoldsKeep

LEMMA RestoreKeeps ==
    ASSUME DeletionInv, NEW d \in Datum, RestoreDatum(d)
    PROVE  DeletionInv'
  <1> USE DEF DeletionInv
  <1> DEFINE row == [data[d] EXCEPT !.old = FALSE]
  <1>1. /\ UNCHANGED <<at, held, job, oneByOne, gone, shielded>> /\ touched' = touched \cup {d}
        /\ data' = [data EXCEPT ![d] = row]
    BY DEF RestoreDatum, InOneStep
  <1>2. row \in DatumRow /\ row.row = data[d].row /\ row.object = data[d].object
    BY DEF DeletionTypeOK, DatumRow
  <1> HIDE DEF row
  <1>3. DeletionTypeOK'
    BY <1>1, <1>2 DEF DeletionTypeOK
  <1>4. \A e \in Datum : data'[e].row = data[e].row /\ data'[e].object = data[e].object
    BY <1>1, <1>2 DEF DeletionTypeOK
  <1>5. \A e \in Datum : e # d => data'[e] = data[e]
    BY <1>1 DEF DeletionTypeOK
  <1>6. ShieldKept'
    BY <1>1, <1>4, <1>5 DEF ShieldKept, Busy, DeletionTypeOK
  <1>7. QED
    BY <1>1, <1>3, <1>4, <1>6, HoldsKeep

\* A handler that ends and writes its job; attempts and candidates stay.
LEMMA JobWrites ==
    ASSUME DeletionInv, NEW h \in Handler, NEW j \in Job, job[j] # None, NEW row \in DeletionJob,
           job' = [job EXCEPT ![j] = row], row.candidates = job[j].candidates,
           row.attempts = job[j].attempts, job[j].approved => row.approved,
           at' = [at EXCEPT ![h] = Idle], UNCHANGED <<data, held, oneByOne, gone, shielded, touched>>,
           row.status = "COMPLETED" =>
             /\ row.attempts >= 1 /\ row.count <= Cardinality(gone[j])
             /\ row.attempts = 1 => /\ row.count = Cardinality(gone[j])
                                    /\ \A g \in Handler : Busy(g, "delete") /\ at[g].job = j => g = h
             /\ \A d \in row.candidates : Past(d)
    PROVE  DeletionInv'
  <1> USE DEF DeletionInv
  <1>1. DeletionTypeOK'
    BY DEF DeletionTypeOK
  <1>2. row # None /\ job'[j] = row /\ \A i \in Job : i # j => job'[i] = job[i]
    BY DeletionAssumption DEF DeletionTypeOK
  <1>3. at'[h] = Idle /\ \A g \in Handler : g # h => at'[g] = at[g]
    BY DEF DeletionTypeOK
  <1>4. \A g \in Handler : at'[g].op # "idle" => g # h /\ at'[g] = at[g]
    BY <1>3 DEF Idle
  <1>5. ShieldKept'
    BY <1>4 DEF ShieldKept, Busy
  <1>6. ASSUME NEW g \in Handler, at'[g].op \in {"approve", "execute", "delete"}
        PROVE  at[g].job \in Job
    BY <1>4, <1>6, DeletionReads DEF Busy, Approving, Executing, Deleting
  <1>7. OneExecution'
    BY <1>2, <1>4, <1>6 DEF OneExecution, Busy
  <1>8. ASSUME NEW g \in Handler PROVE TaskKept(g)'
    <2>1. CASE at'[g].op \in {"approve", "execute", "delete"}
      <3>1. g # h /\ at'[g] = at[g] /\ TaskKept(g) /\ at[g].job \in Job
        BY <1>4, <1>6, <2>1
      <3>2. CASE at[g].job # j
        BY <1>2, <3>1, <3>2 DEF TaskKept, Busy, Past
      <3>3. CASE at[g].job = j
        <4>1. /\ job'[at'[g].job] = row /\ gone' = gone
              /\ \A d \in Datum : Past(d)' = Past(d)
          BY <1>2, <3>1, <3>3 DEF Past
        <4>2. row.candidates \subseteq Datum
          BY DEF DeletionJob
        <4>3. Busy(g, "delete") /\ row.attempts = 1 => row.status # "COMPLETED"
          BY <3>1, <3>3
        <4>4. QED
          BY <1>2, <3>1, <3>3, <4>1, <4>2, <4>3 DEF TaskKept, Busy
      <3>4. QED
        BY <3>2, <3>3
    <2>2. CASE at'[g].op \notin {"approve", "execute", "delete"}
      BY <2>2 DEF TaskKept, Busy
    <2>3. QED
      BY <2>1, <2>2
  <1>9. ASSUME NEW i \in Job PROVE JobKept(i)'
    <2>1. CASE i # j
      BY <1>2, <2>1 DEF JobKept, Past
    <2>2. CASE i = j
      BY <1>2, <2>2 DEF JobKept, Past
    <2>3. QED
      BY <2>1, <2>2
  <1>10. ObjectsKept'
    <2> SUFFICES ASSUME NEW d \in Datum, data[d].row, ~data[d].object, d \notin touched
                 PROVE  \E i \in Job : job'[i] # None /\ d \in job'[i].candidates /\ job'[i].status # "COMPLETED"
      BY DEF ObjectsKept
    <2>1. PICK i \in Job : job[i] # None /\ d \in job[i].candidates /\ job[i].status # "COMPLETED"
      BY DEF ObjectsKept
    <2>2. ~Past(d)
      BY DEF Past
    <2>3. CASE i # j
      BY <1>2, <2>1, <2>3
    <2>4. CASE i = j
      BY <1>2, <2>1, <2>2, <2>4
    <2>5. QED
      BY <2>3, <2>4
  <1>11. QED
    BY <1>1, <1>5, <1>7, <1>8, <1>9, <1>10

LEMMA PreviewKeeps ==
    ASSUME DeletionInv, NEW h \in Handler, Preview(h)
    PROVE  DeletionInv'
  <1> USE DEF DeletionInv
  <1> DEFINE j == at[h].job
             row == [status |-> "PREVIEWED", approved |-> FALSE, candidates |-> NotHeld(at[h].found),
                     attempts |-> 0, count |-> 0]
  <1>1. at[h] \in Previewing
    BY DeletionReads DEF Preview
  <1>2. j \in Job /\ job[j] = None /\ at[h].found \subseteq Datum
    BY <1>1 DEF Preview, Previewing
  <1>3. row \in DeletionJob /\ row.status = "PREVIEWED"
    BY <1>2 DEF DeletionJob, NotHeld
  <1>4. /\ job' = [job EXCEPT ![j] = row] /\ at' = [at EXCEPT ![h] = Idle]
        /\ UNCHANGED <<data, held, oneByOne, gone, shielded, touched>>
    BY DEF Preview, Leave, Proceed
  <1> HIDE DEF row, j
  <1>5. DeletionTypeOK'
    BY <1>2, <1>3, <1>4 DEF DeletionTypeOK
  <1>6. row # None /\ job'[j] = row /\ \A i \in Job : i # j => job'[i] = job[i]
    BY <1>2, <1>3, <1>4, DeletionAssumption DEF DeletionTypeOK
  <1>7. at'[h] = Idle /\ \A g \in Handler : g # h => at'[g] = at[g]
    BY <1>4 DEF DeletionTypeOK
  <1>8. \A g \in Handler : at'[g].op # "idle" => at'[g] = at[g]
    BY <1>7 DEF Idle
  <1>9. ASSUME NEW g \in Handler, at'[g].op \in {"approve", "execute", "delete"}
        PROVE  at'[g] = at[g] /\ at[g].job \in Job /\ at[g].job # j /\ job'[at[g].job] = job[at[g].job]
    <2>1. at'[g] = at[g] /\ at[g].job \in Job
      BY <1>8, <1>9, DeletionReads DEF Busy, Approving, Executing, Deleting
    <2>2. job[at[g].job] # None
      BY <1>9, <2>1 DEF TaskKept, Busy
    <2>3. QED
      BY <1>2, <1>6, <2>1, <2>2
  <1>10. ShieldKept' /\ OneExecution'
    BY <1>4, <1>9 DEF ShieldKept, OneExecution, Busy
  <1>11. ASSUME NEW g \in Handler PROVE TaskKept(g)'
    <2>1. CASE at'[g].op \in {"approve", "execute", "delete"}
      BY <1>4, <1>9, <2>1 DEF TaskKept, Busy, Past
    <2>2. CASE at'[g].op \notin {"approve", "execute", "delete"}
      BY <2>2 DEF TaskKept, Busy
    <2>3. QED
      BY <2>1, <2>2
  <1>12. ASSUME NEW i \in Job PROVE JobKept(i)'
    <2>1. CASE i # j
      BY <1>4, <1>6, <2>1 DEF JobKept, Past
    <2>2. CASE i = j
      BY <1>2, <1>3, <1>4, <1>6, <2>2 DEF JobKept, Past
    <2>3. QED
      BY <2>1, <2>2
  <1>13. ObjectsKept'
    <2>1. \A i \in Job : job[i] # None => job'[i] = job[i]
      BY <1>2, <1>6
    <2>2. QED
      BY <1>4, <2>1 DEF ObjectsKept
  <1>14. QED
    BY <1>5, <1>10, <1>11, <1>12, <1>13

LEMMA ApproveKeeps ==
    ASSUME DeletionInv, NEW h \in Handler, Approve(h)
    PROVE  DeletionInv'
  <1> USE DEF DeletionInv
  <1> DEFINE j == at[h].job
             row == [job[j] EXCEPT !.status = "APPROVED", !.approved = TRUE]
  <1>1. j \in Job /\ job[j] # None
    <2>1. at[h] \in Approving
      BY DeletionReads DEF Approve
    <2>2. QED
      BY <2>1 DEF Approve, Approving, TaskKept
  <1>2. job[j] \in DeletionJob
    BY <1>1 DEF DeletionTypeOK
  <1>3. /\ row \in DeletionJob /\ row.status = "APPROVED" /\ row.approved
        /\ row.candidates = job[j].candidates /\ row.attempts = job[j].attempts
    BY <1>2 DEF DeletionJob
  <1>4. job' = [job EXCEPT ![j] = row]
    BY <1>1 DEF Approve, DeletionTypeOK
  <1>5. at' = [at EXCEPT ![h] = Idle] /\ UNCHANGED <<data, held, oneByOne, gone, shielded, touched>>
    BY DEF Approve, Leave, Proceed
  <1> HIDE DEF row, j
  <1>6. QED
    BY <1>1, <1>3, <1>4, <1>5, JobWrites

LEMMA FailKeeps ==
    ASSUME DeletionInv, NEW h \in Handler, Fail(h)
    PROVE  DeletionInv'
  <1> USE DEF DeletionInv
  <1> DEFINE j == at[h].job
             row == [job[j] EXCEPT !.status = "FAILED"]
  <1>1. j \in Job /\ job[j] # None
    <2>1. at[h] \in Deleting
      BY DeletionReads DEF Fail
    <2>2. QED
      BY <2>1 DEF Fail, Deleting, TaskKept
  <1>2. job[j] \in DeletionJob
    BY <1>1 DEF DeletionTypeOK
  <1>3. at' = [at EXCEPT ![h] = Idle] /\ UNCHANGED <<data, held, oneByOne, gone, shielded, touched>>
    BY DEF Fail, Leave, Proceed
  <1>4. CASE job' = job
    BY <1>3, <1>4, DeletionBegins DEF deletionVars, Idle
  <1>5. CASE job' = [job EXCEPT ![j].status = "FAILED"]
    <2>1. /\ row \in DeletionJob /\ row.status = "FAILED" /\ row.approved = job[j].approved
          /\ row.candidates = job[j].candidates /\ row.attempts = job[j].attempts
      BY <1>2 DEF DeletionJob
    <2>2. job' = [job EXCEPT ![j] = row]
      BY <1>5
    <2> HIDE DEF row, j
    <2>3. QED
      BY <1>1, <1>3, <2>1, <2>2, JobWrites
  <1>6. QED
    BY <1>4, <1>5 DEF Fail

LEMMA CompleteKeeps ==
    ASSUME DeletionInv, NEW h \in Handler, CompleteJob(h)
    PROVE  DeletionInv'
  <1> USE DEF DeletionInv
  <1> DEFINE j == at[h].job
             row == [job[j] EXCEPT !.status = "COMPLETED", !.count = at[h].count]
  <1>1. at[h] \in Deleting /\ Busy(h, "delete") /\ at[h].ids = {}
    BY DeletionReads DEF CompleteJob
  <1>2. j \in Job /\ at[h].count \in Nat
    BY <1>1 DEF Deleting
  <1>3. /\ job[j] # None /\ job[j].attempts >= 1
        /\ \A d \in job[j].candidates : Past(d)
        /\ at[h].count <= Cardinality(gone[j])
        /\ job[j].attempts = 1 => at[h].count = Cardinality(gone[j])
    BY <1>1 DEF TaskKept
  <1>4. job[j] \in DeletionJob
    BY <1>2, <1>3 DEF DeletionTypeOK
  <1>5. /\ row \in DeletionJob /\ row.count = at[h].count /\ row.approved = job[j].approved
        /\ row.candidates = job[j].candidates /\ row.attempts = job[j].attempts
    BY <1>2, <1>4 DEF DeletionJob
  <1>6. job' = [job EXCEPT ![j] = row]
    BY <1>2 DEF CompleteJob, DeletionTypeOK
  <1>7. at' = [at EXCEPT ![h] = Idle] /\ UNCHANGED <<data, held, oneByOne, gone, shielded, touched>>
    BY DEF CompleteJob, Leave, Proceed
  <1>8. job[j].attempts = 1 => \A g \in Handler : Busy(g, "delete") /\ at[g].job = j => g = h
    BY <1>1 DEF OneExecution
  <1> HIDE DEF row, j
  <1>9. QED
    BY <1>2, <1>3, <1>5, <1>6, <1>7, <1>8, JobWrites

LEMMA ExecuteKeeps ==
    ASSUME DeletionInv, NEW h \in Handler, Execute(h)
    PROVE  DeletionInv'
  <1> USE DEF DeletionInv
  <1> DEFINE j == at[h].job
             row == [job[j] EXCEPT !.status = "RUNNING", !.attempts = job[j].attempts + 1]
             ids == Deletable(j, at[h].found)
             next == [op |-> "delete", job |-> j, ids |-> ids, emptied |-> {}, count |-> 0]
  <1>1. at[h] \in Executing /\ Busy(h, "execute")
    BY DeletionReads DEF Execute
  <1>2. /\ j \in Job /\ at[h].found \subseteq Datum /\ job[j] # None /\ job[j].approved
        /\ \A d \in Datum \ at[h].found : Past(d)
    BY <1>1 DEF Executing, TaskKept
  <1>3. job[j] \in DeletionJob
    BY <1>2 DEF DeletionTypeOK
  <1>4. /\ row \in DeletionJob /\ row.status = "RUNNING" /\ row.approved = job[j].approved
        /\ row.candidates = job[j].candidates /\ row.attempts = job[j].attempts + 1
        /\ job[j].attempts \in Nat /\ row.attempts >= 1 /\ row.candidates \subseteq Datum
    <2>1. job[j].attempts \in Nat /\ job[j].attempts + 1 \in Nat /\ job[j].attempts + 1 >= 1
      BY <1>3 DEF DeletionJob
    <2>2. /\ row \in DeletionJob /\ row.status = "RUNNING" /\ row.approved = job[j].approved
          /\ row.candidates = job[j].candidates /\ row.attempts = job[j].attempts + 1
      BY <1>3, <2>1 DEF DeletionJob
    <2>3. row.candidates \subseteq Datum
      BY <2>2 DEF DeletionJob
    <2>4. QED
      BY <2>1, <2>2, <2>3
  <1>5. job' = [job EXCEPT ![j] = row] /\ at' = [at EXCEPT ![h] = next]
        /\ UNCHANGED <<data, held, oneByOne, gone, shielded, touched>>
    BY <1>2 DEF Execute, Proceed, DeletionTypeOK
  <1>6. /\ ids \subseteq job[j].candidates /\ ids \cap held = {}
        /\ \A d \in job[j].candidates \ ids : d \notin at[h].found \/ d \in held
    BY DEF Deletable, NotHeld
  <1>7. \A d \in job[j].candidates \ ids : Past(d)
    BY <1>2, <1>4, <1>6 DEF Past, ShieldKept
  <1>8. /\ next \in Deleting /\ next.op = "delete" /\ next.job = j /\ next.ids = ids
        /\ next.emptied = {} /\ next.count = 0
    BY <1>2, <1>4, <1>6 DEF Deleting
  <1>9. Cardinality(gone[j]) \in Nat /\ gone[j] \subseteq Datum /\ (gone[j] = {} => Cardinality(gone[j]) = 0)
    BY <1>2, GoneFinite, FS_EmptySet DEF DeletionTypeOK
  <1>10. row.attempts = 1 =>
           Cardinality(gone[j]) = 0 /\ \A g \in Handler : ~(Busy(g, "delete") /\ at[g].job = j)
    <2>1. SUFFICES ASSUME row.attempts = 1
                   PROVE  Cardinality(gone[j]) = 0 /\ \A g \in Handler : ~(Busy(g, "delete") /\ at[g].job = j)
      OBVIOUS
    <2>2. job[j].attempts = 0
      BY <1>4, <2>1
    <2>3. ~(job[j].attempts >= 1)
      BY <2>2
    <2>4. gone[j] = {}
      BY <1>2, <2>3 DEF JobKept
    <2>5. ASSUME NEW g \in Handler, Busy(g, "delete"), at[g].job = j PROVE FALSE
      <3>1. job[at[g].job].attempts >= 1
        BY <2>5 DEF TaskKept
      <3>2. QED
        BY <2>3, <2>5, <3>1
    <2>6. QED
      BY <1>9, <2>4, <2>5
  <1> HIDE DEF row, next, ids, j
  <1>11. DeletionTypeOK'
    BY <1>2, <1>4, <1>5, <1>8 DEF DeletionTypeOK
  <1>12. row # None /\ job'[j] = row /\ \A i \in Job : i # j => job'[i] = job[i]
    BY <1>2, <1>4, <1>5, DeletionAssumption DEF DeletionTypeOK
  <1>13. at'[h] = next /\ \A g \in Handler : g # h => at'[g] = at[g]
    BY <1>5 DEF DeletionTypeOK
  <1>14. ShieldKept'
    BY <1>5, <1>6, <1>8, <1>13 DEF ShieldKept, Busy
  <1>15. ASSUME NEW g \in Handler, g # h, at[g].op \in {"approve", "execute", "delete"}
         PROVE  at[g].job \in Job
    BY <1>15, DeletionReads DEF Busy, Approving, Executing, Deleting
  <1>16. OneExecution'
    <2> SUFFICES ASSUME NEW f \in Handler, NEW g \in Handler, Busy(f, "delete")', Busy(g, "delete")',
                        at'[f].job = at'[g].job, job'[at'[g].job].attempts = 1
                 PROVE  f = g
      BY DEF OneExecution
    <2>1. CASE at'[g].job = j
      BY <1>8, <1>10, <1>12, <1>13, <2>1 DEF Busy
    <2>2. CASE at'[g].job # j
      BY <1>8, <1>12, <1>13, <1>15, <2>2 DEF Busy, OneExecution
    <2>3. QED
      BY <2>1, <2>2
  <1>17. ASSUME NEW g \in Handler PROVE TaskKept(g)'
    <2>1. CASE g = h
      <3>1. /\ Busy(g, "delete")' /\ ~Busy(g, "approve")' /\ ~Busy(g, "execute")'
            /\ job'[at'[g].job] = row
        BY <1>8, <1>12, <1>13, <2>1 DEF Busy
      <3>2. \A d \in row.candidates \ at'[g].ids : Past(d)'
        BY <1>4, <1>5, <1>7, <1>8, <1>13, <2>1 DEF Past
      <3>3. 0 <= Cardinality(gone'[j])
        BY <1>5, <1>9
      <3>4. /\ at'[g].emptied = {} /\ at'[g].ids = ids /\ at'[g].count = 0 /\ gone'[at'[g].job] = gone[j]
        BY <1>5, <1>8, <1>13, <2>1
      <3>5. /\ row # None /\ row.approved /\ row.attempts >= 1 /\ ids \subseteq row.candidates
            /\ row.status # "COMPLETED" /\ 0 <= Cardinality(gone[j])
            /\ row.attempts = 1 => 0 = Cardinality(gone[j])
        BY <1>2, <1>4, <1>6, <1>9, <1>10, <1>12
      <3>6. QED
        BY ONLY <3>1, <3>2, <3>4, <3>5 DEF TaskKept
    <2>2. CASE g # h /\ at[g].op \in {"approve", "execute", "delete"}
      <3>1. at'[g] = at[g] /\ at[g].job \in Job /\ TaskKept(g)
        BY <1>13, <1>15, <2>2
      <3>2. CASE at[g].job # j
        BY <1>5, <1>12, <3>1, <3>2 DEF TaskKept, Busy, Past
      <3>3. CASE at[g].job = j
        <4>1. job'[at'[g].job] = row /\ gone' = gone /\ \A d \in Datum : Past(d)' = Past(d)
          BY <1>5, <1>12, <3>1, <3>3 DEF Past
        <4>2. Busy(g, "delete") => row.attempts # 1 /\ row.attempts >= 1
          BY <1>4, <1>10, <3>3
        <4>3. Busy(g, "approve")' = Busy(g, "approve") /\ Busy(g, "execute")' = Busy(g, "execute")
              /\ Busy(g, "delete")' = Busy(g, "delete")
          BY <3>1 DEF Busy
        <4>4. CASE Busy(g, "delete")
          <5>1. /\ row # None /\ row.approved /\ row.attempts >= 1 /\ row.attempts # 1
                /\ row.candidates = job[j].candidates
            <6>1. row # None /\ row \in DeletionJob
              BY <1>4, DeletionAssumption
            <6>2. row.approved /\ row.candidates = job[j].candidates
              BY ONLY <1>2, <1>4
            <6>3. row.attempts >= 1 /\ row.attempts # 1
              BY <4>2, <4>4
            <6>4. QED
              BY ONLY <6>1, <6>2, <6>3
          <5>2. /\ at[g].emptied \subseteq at[g].ids /\ at[g].ids \subseteq job[j].candidates
                /\ \A d \in job[j].candidates \ at[g].ids : Past(d)
                /\ at[g].count <= Cardinality(gone[j])
            BY <3>1, <3>3, <4>4 DEF TaskKept
          <5>3. ~Busy(g, "approve") /\ ~Busy(g, "execute")
            BY <4>4 DEF Busy
          <5>4. \A d \in row.candidates \ at'[g].ids : Past(d)'
            BY <1>4, <3>1, <4>1, <5>1, <5>2
          <5>5. at'[g] = at[g] /\ gone'[at'[g].job] = gone[j]
            BY <3>1, <3>3, <4>1
          <5>6. QED
            BY ONLY <4>1, <4>3, <5>1, <5>2, <5>3, <5>4, <5>5 DEF TaskKept
        <4>5. CASE ~Busy(g, "delete")
          BY <1>2, <1>4, <1>12, <3>1, <3>3, <4>1, <4>3, <4>5 DEF TaskKept
        <4>6. QED
          BY <4>4, <4>5
      <3>4. QED
        BY <3>2, <3>3
    <2>3. CASE g # h /\ at[g].op \notin {"approve", "execute", "delete"}
      BY <1>13, <2>3 DEF TaskKept, Busy
    <2>4. QED
      BY <2>1, <2>2, <2>3
  <1>18. ASSUME NEW i \in Job PROVE JobKept(i)'
    <2>1. CASE i # j
      BY <1>5, <1>12, <2>1 DEF JobKept, Past
    <2>2. CASE i = j
      <3>1. job'[i] = row /\ row # None /\ gone' = gone /\ data' = data
        BY <1>5, <1>12, <2>2
      <3>2. /\ gone[i] # {} => gone[i] \subseteq row.candidates
            /\ \A d \in gone[i] : ~data[d].row
        BY <1>4, <2>2 DEF JobKept
      <3>3. row.approved /\ row.attempts >= 1 /\ row.status # "COMPLETED"
        BY <1>2, <1>4
      <3>4. QED
        BY ONLY <3>1, <3>2, <3>3 DEF JobKept
    <2>3. QED
      BY <2>1, <2>2
  <1>19. ObjectsKept'
    BY <1>4, <1>5, <1>12 DEF ObjectsKept
  <1>20. QED
    BY <1>11, <1>14, <1>16, <1>17, <1>18, <1>19

\* What an execution removes it adds to what is gone, each row once.
LEMMA RemovalKeeps ==
    ASSUME DeletionInv, NEW h \in Handler, Busy(h, "delete"), NEW rows \in SUBSET at[h].ids,
           NEW left \in SUBSET at[h].ids, at[h].ids \subseteq left \cup rows, RemoveRows(h, rows, left)
    PROVE  DeletionInv'
  <1> USE DEF DeletionInv
  <1> DEFINE j == at[h].job
             there == {d \in rows : data[d].row}
             next == [at[h] EXCEPT !.ids = left, !.emptied = {}, !.count = at[h].count + Cardinality(there)]
  <1>1. at[h] \in Deleting
    BY DeletionReads
  <1>2. j \in Job /\ at[h].ids \subseteq Datum /\ at[h].count \in Nat
    BY <1>1 DEF Deleting
  <1>3. /\ data' = [d \in Datum |-> IF d \in there THEN [data[d] EXCEPT !.row = FALSE] ELSE data[d]]
        /\ gone' = [gone EXCEPT ![j] = gone[j] \cup there]
        /\ at' = [at EXCEPT ![h] = next]
        /\ UNCHANGED <<held, job, oneByOne, shielded, touched>>
    BY DEF RemoveRows, Proceed
  <1>4. there \subseteq at[h].ids /\ there \subseteq Datum /\ IsFiniteSet(there) /\ Cardinality(there) \in Nat
    <2>1. there \subseteq at[h].ids /\ there \subseteq Datum
      BY <1>2
    <2>2. IsFiniteSet(there)
      BY <2>1, DeletionAssumption, FS_Subset
    <2>3. QED
      BY <2>1, <2>2, FS_CardinalityType
  <1>5. /\ next \in Deleting /\ next.op = "delete" /\ next.job = j /\ next.ids = left
        /\ next.emptied = {} /\ next.count = at[h].count + Cardinality(there)
    <2>1. at[h].count + Cardinality(there) \in Nat
      BY <1>2, <1>4
    <2>2. QED
      BY <1>1, <1>2, <2>1 DEF Deleting
  <1>6. Cardinality(gone[j] \cup there) = Cardinality(gone[j]) + Cardinality(there)
    <2>1. gone[j] \cap there = {}
      BY <1>2 DEF JobKept
    <2>2. IsFiniteSet(gone[j]) /\ Cardinality(gone[j]) \in Nat
      BY <1>2, GoneFinite
    <2>3. Cardinality(gone[j] \cap there) = 0
      BY <2>1, FS_EmptySet
    <2>4. Cardinality(gone[j] \cup there) = Cardinality(gone[j]) + Cardinality(there) - Cardinality(gone[j] \cap there)
      BY <1>4, <2>2, FS_Union
    <2>5. QED
      BY <1>4, <2>2, <2>3, <2>4
  <1>7. ASSUME NEW d \in Datum
        PROVE  /\ data'[d] \in DatumRow /\ data'[d].object = data[d].object /\ data'[d].old = data[d].old
               /\ d \in rows => ~data'[d].row
               /\ d \notin rows => data'[d].row = data[d].row
               /\ data'[d].row => data[d].row
    <2>1. data[d] \in DatumRow
      BY DEF DeletionTypeOK
    <2>2. CASE d \in there
      <3>1. data'[d] = [data[d] EXCEPT !.row = FALSE]
        BY <1>3, <2>2
      <3>2. QED
        BY <2>1, <2>2, <3>1 DEF DatumRow
    <2>3. CASE d \notin there
      BY <1>3, <2>1, <2>3
    <2>4. QED
      BY <2>2, <2>3
  <1>8. rows \subseteq Datum /\ left \subseteq Datum
    BY <1>2
  <1>9. Cardinality(gone[j]) \in Nat /\ gone'[j] = gone[j] \cup there /\ \A i \in Job : i # j => gone'[i] = gone[i]
    BY <1>2, <1>3, GoneFinite DEF DeletionTypeOK
  <1>10. there \subseteq rows
    OBVIOUS
  <1>11. /\ job[j] # None /\ job[j].approved /\ job[j].attempts >= 1 /\ at[h].ids \subseteq job[j].candidates
         /\ \A d \in job[j].candidates \ at[h].ids : Past(d)
         /\ at[h].count <= Cardinality(gone[j])
         /\ job[j].attempts = 1 => job[j].status # "COMPLETED" /\ at[h].count = Cardinality(gone[j])
         /\ job[j].candidates \subseteq Datum
    BY <1>2 DEF TaskKept, DeletionTypeOK, DeletionJob
  <1>12. \A d \in Datum : Past(d) => Past(d)'
    BY <1>3, <1>7 DEF Past
  <1> HIDE DEF there, next, j
  <1>13. DeletionTypeOK'
    <2>1. data' \in [Datum -> DatumRow]
      BY <1>3, <1>7
    <2>2. gone' \in [Job -> SUBSET Datum]
      BY <1>2, <1>3, <1>4 DEF DeletionTypeOK
    <2>3. QED
      BY <1>3, <1>5, <2>1, <2>2 DEF DeletionTypeOK
  <1>14. at'[h] = next /\ \A g \in Handler : g # h => at'[g] = at[g]
    BY <1>3 DEF DeletionTypeOK
  <1>15. ShieldKept'
    <2>1. at[h].ids \cap shielded = {} /\ shielded \subseteq Datum
      BY DEF ShieldKept, DeletionTypeOK
    <2>2. \A d \in shielded : data'[d].row
      BY <1>7, <2>1 DEF ShieldKept
    <2>3. \A g \in Handler : Busy(g, "delete")' => at'[g].ids \cap shielded = {}
      BY <1>5, <1>14, <2>1 DEF ShieldKept, Busy
    <2>4. \A d \in Datum : ~data'[d].old => d \in touched
      BY <1>7 DEF ShieldKept
    <2>5. QED
      BY <1>3, <2>2, <2>3, <2>4 DEF ShieldKept
  <1>16. ObjectsKept'
    BY <1>3, <1>7 DEF ObjectsKept
  <1>17. OneExecution'
    <2>1. \A g \in Handler : Busy(g, "delete")' => Busy(g, "delete") /\ at'[g].job = at[g].job
      BY <1>5, <1>14 DEF Busy, j
    <2>2. QED
      BY <1>3, <2>1 DEF OneExecution
  <1>18. ASSUME NEW g \in Handler PROVE TaskKept(g)'
    <2>1. CASE g = h
      <3>1. /\ Busy(g, "delete")' /\ ~Busy(g, "approve")' /\ ~Busy(g, "execute")'
            /\ job'[at'[g].job] = job[j] /\ gone'[at'[g].job] = gone[j] \cup there
            /\ at'[g].emptied = {} /\ at'[g].ids = left /\ at'[g].count = at[h].count + Cardinality(there)
        BY <1>3, <1>5, <1>9, <1>14, <2>1 DEF Busy
      <3>2. ASSUME NEW d \in job[j].candidates \ left PROVE Past(d)'
        <4>1. d \in Datum
          BY <1>11
        <4>2. CASE d \in rows
          BY <1>7, <4>1, <4>2 DEF Past
        <4>3. CASE d \notin rows
          BY <1>11, <1>12, <4>1, <4>3
        <4>4. QED
          BY <4>2, <4>3
      <3>3. /\ at[h].count + Cardinality(there) <= Cardinality(gone[j] \cup there)
            /\ job[j].attempts = 1 => at[h].count + Cardinality(there) = Cardinality(gone[j] \cup there)
        BY <1>2, <1>4, <1>6, <1>9, <1>11
      <3>4. left \subseteq job[j].candidates
        BY <1>11
      <3>5. job[j] # None /\ job[j].approved /\ job[j].attempts >= 1 /\ (job[j].attempts = 1 => job[j].status # "COMPLETED")
        BY <1>11
      <3>6. QED
        BY ONLY <3>1, <3>2, <3>3, <3>4, <3>5 DEF TaskKept
    <2>2. CASE g # h /\ Busy(g, "delete")
      <3>1. at'[g] = at[g] /\ at[g].job \in Job /\ TaskKept(g) /\ at[g] \in Deleting
        BY <1>14, <2>2, DeletionReads DEF Deleting
      <3>2. job[at[g].job] # None /\ job[at[g].job].candidates \subseteq Datum
        BY <2>2, <3>1 DEF TaskKept, DeletionTypeOK, DeletionJob
      <3>3. \A d \in job[at[g].job].candidates \ at[g].ids : Past(d)'
        BY <1>12, <2>2, <3>1, <3>2 DEF TaskKept
      <3>4. CASE at[g].job # j
        <4>1. gone'[at[g].job] = gone[at[g].job] /\ job' = job /\ at'[g] = at[g]
          BY <1>3, <1>9, <3>1, <3>4
        <4>2. QED
          BY <2>2, <3>1, <3>3, <4>1 DEF TaskKept, Busy
      <3>5. CASE at[g].job = j
        <4>1. job[j].attempts # 1
          BY <2>2, <3>5 DEF OneExecution, j
        <4>2. at[g].count \in Nat /\ at[g].count <= Cardinality(gone[j])
          BY <2>2, <3>1, <3>5 DEF TaskKept, Deleting
        <4>3. at[g].count <= Cardinality(gone[j] \cup there)
          BY <1>4, <1>6, <1>9, <4>2
        <4>4. gone'[at[g].job] = gone[j] \cup there /\ job' = job /\ at'[g] = at[g]
          BY <1>3, <1>9, <3>1, <3>5
        <4>5. QED
          BY <2>2, <3>1, <3>3, <3>5, <4>1, <4>3, <4>4 DEF TaskKept, Busy
      <3>6. QED
        BY <3>4, <3>5
    <2>3. CASE g # h /\ ~Busy(g, "delete")
      <3>1. at'[g] = at[g] /\ job' = job /\ TaskKept(g)
        BY <1>3, <1>14, <2>3
      <3>2. QED
        BY <1>12, <2>3, <3>1 DEF TaskKept, Busy
    <2>4. QED
      BY <2>1, <2>2, <2>3
  <1>19. ASSUME NEW i \in Job PROVE JobKept(i)'
    <2>1. JobKept(i) /\ job' = job /\ gone[i] \subseteq Datum /\ (job[i] # None => job[i].candidates \subseteq Datum)
      BY <1>3 DEF DeletionTypeOK, DeletionJob
    <2>2. CASE i # j
      <3>1. gone'[i] = gone[i]
        BY <1>9, <2>2
      <3>2. \A d \in gone[i] : ~data'[d].row
        BY <1>7, <2>1 DEF JobKept
      <3>3. job[i] # None /\ job[i].status = "COMPLETED" => \A d \in job[i].candidates : Past(d)'
        BY <1>12, <2>1 DEF JobKept
      <3>4. QED
        BY <2>1, <3>1, <3>2, <3>3 DEF JobKept
    <2>3. CASE i = j
      <3>1. gone'[i] = gone[j] \cup there
        BY <1>9, <2>3
      <3>2. gone[j] \cup there \subseteq job[j].candidates
        BY <1>4, <1>11, <2>1, <2>3 DEF JobKept
      <3>3. \A d \in gone[j] \cup there : ~data'[d].row
        BY <1>4, <1>7, <1>10, <2>1, <2>3 DEF JobKept
      <3>4. job[j].status = "COMPLETED" =>
              /\ \A d \in job[j].candidates : Past(d)'
              /\ job[j].count <= Cardinality(gone[j] \cup there)
              /\ job[j].attempts # 1
        <4> SUFFICES ASSUME job[j].status = "COMPLETED"
                     PROVE  /\ \A d \in job[j].candidates : Past(d)'
                            /\ job[j].count <= Cardinality(gone[j] \cup there)
                            /\ job[j].attempts # 1
          OBVIOUS
        <4>1. /\ \A d \in job[j].candidates : Past(d)
              /\ job[j].count <= Cardinality(gone[j])
          BY <1>11, <2>1, <2>3 DEF JobKept
        <4>2. job[j].count \in Nat
          BY <1>2, <1>11 DEF DeletionTypeOK, DeletionJob
        <4>3. job[j].count <= Cardinality(gone[j] \cup there)
          BY <1>4, <1>6, <1>9, <4>1, <4>2
        <4>4. QED
          BY <1>11, <1>12, <4>1, <4>3
      <3>5. QED
        BY <1>11, <2>1, <2>3, <3>1, <3>2, <3>3, <3>4 DEF JobKept
    <2>4. QED
      BY <2>2, <2>3
  <1>20. QED
    BY <1>13, <1>15, <1>16, <1>17, <1>18, <1>19

\* The object may go before its row: the row is still to be removed, or was interfered with.
LEMMA DeleteObjectKeeps ==
    ASSUME DeletionInv, NEW h \in Handler, NEW d \in Datum, DeleteObject(h, d)
    PROVE  DeletionInv'
  <1> USE DEF DeletionInv
  <1>1. PICK removed \in BOOLEAN : data' = [data EXCEPT ![d].object = data[d].object /\ ~removed]
    BY DEF DeleteObject
  <1> DEFINE j == at[h].job
             row == [data[d] EXCEPT !.object = data[d].object /\ ~removed]
             next == [at[h] EXCEPT !.emptied = {d}]
  <1>2. at[h] \in Deleting /\ Busy(h, "delete") /\ d \in at[h].ids
    BY DeletionReads DEF DeleteObject
  <1>3. /\ at' = [at EXCEPT ![h] = next] /\ data' = [data EXCEPT ![d] = row]
        /\ UNCHANGED <<held, job, oneByOne, gone, shielded, touched>>
    BY <1>1 DEF DeleteObject, Proceed
  <1>4. /\ next \in Deleting /\ next.op = "delete" /\ next.job = j /\ next.ids = at[h].ids
        /\ next.count = at[h].count /\ next.emptied = {d}
    BY <1>2 DEF Deleting
  <1>5. row \in DatumRow /\ row.row = data[d].row /\ row.old = data[d].old
    <2>1. data[d] \in DatumRow
      BY DEF DeletionTypeOK
    <2>2. QED
      BY <2>1 DEF DatumRow
  <1>6. j \in Job
    BY <1>2 DEF Deleting
  <1>7. /\ job[j] # None /\ d \in job[j].candidates
        /\ job[j].status = "COMPLETED" => Past(d)
    BY <1>2, <1>6 DEF TaskKept, JobKept
  <1> HIDE DEF next, row
  <1>8. DeletionTypeOK'
    BY <1>3, <1>4, <1>5 DEF DeletionTypeOK
  <1>9. at'[h] = next /\ \A g \in Handler : g # h => at'[g] = at[g]
    BY <1>3 DEF DeletionTypeOK
  <1>10. /\ \A e \in Datum : data'[e].row = data[e].row /\ data'[e].old = data[e].old
         /\ \A e \in Datum : e # d => data'[e].object = data[e].object
    BY <1>3, <1>5 DEF DeletionTypeOK
  <1>11. \A e \in Datum : Past(e)' = Past(e)
    BY <1>3, <1>10 DEF Past
  <1>12. ShieldKept'
    <2>1. \A e \in shielded : data'[e].row
      BY <1>10 DEF ShieldKept, DeletionTypeOK
    <2>2. \A g \in Handler : Busy(g, "delete")' => at'[g].ids \cap shielded = {}
      BY <1>2, <1>4, <1>9 DEF ShieldKept, Busy
    <2>3. \A e \in Datum : ~data'[e].old => e \in touched
      BY <1>10 DEF ShieldKept
    <2>4. QED
      BY <1>3, <2>1, <2>2, <2>3 DEF ShieldKept
  <1>13. OneExecution'
    <2>1. \A g \in Handler : Busy(g, "delete")' => Busy(g, "delete") /\ at'[g].job = at[g].job
      BY <1>2, <1>4, <1>9 DEF Busy
    <2>2. QED
      BY <1>3, <2>1 DEF OneExecution
  <1>14. ObjectsKept'
    <2> SUFFICES ASSUME NEW e \in Datum, data'[e].row, ~data'[e].object, e \notin touched
                 PROVE  \E i \in Job : job[i] # None /\ e \in job[i].candidates /\ job[i].status # "COMPLETED"
      BY <1>3 DEF ObjectsKept
    <2>1. CASE e = d
      BY <1>6, <1>7, <1>10, <2>1 DEF Past
    <2>2. CASE e # d
      BY <1>10, <2>2 DEF ObjectsKept
    <2>3. QED
      BY <2>1, <2>2
  <1>15. ASSUME NEW g \in Handler PROVE TaskKept(g)'
    <2>1. TaskKept(g)
      OBVIOUS
    <2>2. CASE g = h
      <3>1. /\ Busy(g, "delete") /\ Busy(g, "delete")' /\ ~Busy(g, "approve")' /\ ~Busy(g, "execute")'
            /\ at'[g].job = at[g].job /\ at'[g].ids = at[g].ids /\ at'[g].count = at[g].count
            /\ at'[g].emptied \subseteq at'[g].ids /\ job' = job /\ gone' = gone
        BY <1>2, <1>3, <1>4, <1>9, <2>2 DEF Busy
      <3>2. job[at[g].job].candidates \subseteq Datum
        BY <1>6, <1>7, <2>2 DEF DeletionTypeOK, DeletionJob
      <3>3. \A e \in job[at[g].job].candidates \ at[g].ids : Past(e)'
        BY <1>11, <2>1, <3>1, <3>2 DEF TaskKept
      <3>4. QED
        BY <2>1, <3>1, <3>3 DEF TaskKept
    <2>3. CASE g # h /\ Busy(g, "delete")
      <3>1. at[g].job \in Job
        BY <2>3, DeletionReads DEF Deleting
      <3>2. job[at[g].job].candidates \subseteq Datum
        BY <2>1, <2>3, <3>1 DEF TaskKept, DeletionTypeOK, DeletionJob
      <3>3. at'[g] = at[g] /\ job' = job /\ gone' = gone
        BY <1>3, <1>9, <2>3
      <3>4. \A e \in job[at[g].job].candidates \ at[g].ids : Past(e)'
        BY <1>11, <2>1, <2>3, <3>2 DEF TaskKept
      <3>5. QED
        BY <2>1, <2>3, <3>3, <3>4 DEF TaskKept, Busy
    <2>4. CASE g # h /\ ~Busy(g, "delete")
      <3>1. at'[g] = at[g] /\ job' = job
        BY <1>3, <1>9, <2>4
      <3>2. QED
        BY <1>11, <2>1, <2>4, <3>1 DEF TaskKept, Busy
    <2>5. QED
      BY <2>2, <2>3, <2>4
  <1>16. ASSUME NEW i \in Job PROVE JobKept(i)'
    <2>1. JobKept(i) /\ job' = job /\ gone' = gone /\ gone[i] \subseteq Datum
          /\ (job[i] # None => job[i].candidates \subseteq Datum)
      BY <1>3 DEF DeletionTypeOK, DeletionJob
    <2>2. QED
      BY <1>10, <1>11, <2>1 DEF JobKept
  <1>17. QED
    BY <1>8, <1>12, <1>13, <1>14, <1>15, <1>16

LEMMA DeletionNextKeeps ==
    ASSUME DeletionInv, [DeletionNext]_deletionState
    PROVE  DeletionInv'
  <1>1. ASSUME NEW h \in Handler, NEW j \in Job, BeginPreview(h, j) PROVE DeletionInv'
    <2> DEFINE next == [op |-> "preview", job |-> j, found |-> Discovered]
    <2>1. next \in Previewing /\ next.op = "preview"
      BY DEF Previewing, Discovered
    <2>2. at' = [at EXCEPT ![h] = next] /\ UNCHANGED deletionVars
      BY <1>1 DEF BeginPreview, Enter
    <2> HIDE DEF next
    <2>3. QED
      BY <2>1, <2>2, DeletionBegins
  <1>2. ASSUME NEW h \in Handler, NEW j \in Job, BeginApprove(h, j) PROVE DeletionInv'
    <2> DEFINE next == [op |-> "approve", job |-> j]
    <2>1. next \in Approving /\ next.op = "approve" /\ next.job = j
      BY DEF Approving
    <2>2. at' = [at EXCEPT ![h] = next] /\ UNCHANGED deletionVars /\ job[j] # None
      BY <1>2 DEF BeginApprove, Enter
    <2> HIDE DEF next
    <2>3. QED
      BY <2>1, <2>2, DeletionBegins
  <1>3. ASSUME NEW h \in Handler, NEW j \in Job, BeginExecute(h, j) PROVE DeletionInv'
    <2> DEFINE next == [op |-> "execute", job |-> j, found |-> Discovered]
    <2>1. next \in Executing /\ next.op = "execute" /\ next.job = j /\ next.found = Discovered
      BY DEF Executing, Discovered
    <2>2. at' = [at EXCEPT ![h] = next] /\ UNCHANGED deletionVars /\ job[j] # None /\ job[j].approved
      BY <1>3 DEF BeginExecute, Executable, Enter
    <2>3. \A d \in Datum \ Discovered : Past(d)
      BY DEF Discovered, Past, DeletionInv, ShieldKept
    <2> HIDE DEF next
    <2>4. QED
      BY <2>1, <2>2, <2>3, DeletionBegins
  <1>4. ASSUME NEW h \in Handler, DeleteRows(h) PROVE DeletionInv'
    <2>1. Busy(h, "delete") /\ RemoveRows(h, at[h].ids, {})
      BY <1>4 DEF DeleteRows
    <2>2. QED
      BY <2>1, RemovalKeeps
  <1>5. ASSUME NEW h \in Handler, DeleteRow(h) PROVE DeletionInv'
    <2>1. Busy(h, "delete") /\ RemoveRows(h, at[h].emptied, at[h].ids \ at[h].emptied)
      BY <1>5 DEF DeleteRow
    <2>2. at[h].emptied \subseteq at[h].ids
      BY <2>1 DEF DeletionInv, TaskKept
    <2>3. QED
      BY <2>1, <2>2, RemovalKeeps
  <1>6. CASE UNCHANGED deletionState
    <2>1. \A d : Past(d)' = Past(d)
      BY <1>6 DEF deletionState, deletionVars, Past
    <2>2. DeletionTypeOK' /\ ShieldKept' /\ OneExecution' /\ ObjectsKept'
      BY <1>6 DEF deletionState, handlers, deletionVars, DeletionInv, DeletionTypeOK, ShieldKept,
         OneExecution, ObjectsKept, Busy
    <2>3. \A h \in Handler : TaskKept(h)'
      BY <1>6, <2>1 DEF deletionState, handlers, deletionVars, DeletionInv, TaskKept, Busy
    <2>4. \A j \in Job : JobKept(j)'
      BY <1>6, <2>1 DEF deletionState, deletionVars, DeletionInv, JobKept
    <2>5. QED
      BY <2>2, <2>3, <2>4 DEF DeletionInv
  <1>7. QED
    BY <1>1, <1>2, <1>3, <1>4, <1>5, <1>6, PlaceHoldKeeps, ReleaseHoldKeeps, RestoreKeeps, PreviewKeeps,
       ApproveKeeps, ExecuteKeeps, DeleteObjectKeeps, CompleteKeeps, FailKeeps DEF DeletionNext

\* Whatever is executed twice or again after a failure, for every finite set of data and
\* every set of jobs and handlers: what an earlier hold covers stays, what goes was previewed and
\* approved, the count of a job that was executed once is exact, and an object that is
\* gone before its row is accounted for.
THEOREM DeletionsAreGoverned ==
    ASSUME NEW requests
    PROVE  DeletionSpec(requests) => []DeletionGoverned
  <1>1. DeletionInit /\ HandlersInit(requests) => DeletionInv
    BY DeletionInitKeeps
  <1>2. DeletionInv /\ [DeletionNext]_deletionState => DeletionInv'
    BY DeletionNextKeeps
  <1>3. QED
    BY <1>1, <1>2, InvImpliesGoverned, PTL DEF DeletionSpec

-----------------------------------------------------------------------------
(* Automation.                                                             *)

automationState == <<handlers, automationVars>>

AutomationSpec(requests) ==
  AutomationInit /\ HandlersInit(requests) /\ [][AutomationNext]_automationState

Engaged(h) == at[h].op \in {"run", "failing"}

AutomationTypeOK ==
  /\ task \in [Occasion -> AutomationJob \cup {None}]
  /\ settings \in [Occasion -> Nat]
  /\ remarks \subseteq Occasion \X {1}
  /\ rule = [rule EXCEPT !.enabled = rule.enabled]
  /\ at = [h \in Handler |-> at[h]]

\* A worker has run the actions before the next one, if the event matches, or will run none.
Progress(h) ==
  Engaged(h) =>
    /\ at[h].task \in Occasion /\ task[at[h].task] # None
    /\ Busy(h, "run") =>
         /\ at[h].next \in 0 .. 4
         /\ task[at[h].task].matches =>
              /\ \A i \in 1 .. 3 : i < at[h].next => Steps[i] \in rule.permitted
              /\ at[h].next > 1 => <<at[h].task, 1>> \in remarks
         /\ ~task[at[h].task].matches => at[h].next \in {0, 4}

\* The workers that have still to set the priority for an event.
Owing(e) == {h \in Handler : Busy(h, "run") /\ at[h].task = e /\ at[h].next <= 2}

Fresh(e) == task[e] = None => e \notin execution /\ settings[e] = 0

Delivered(e) == task[e] # None /\ task[e].status = "DELIVERED" => e \in execution

\* An attempt pays for one setting.
Paid(e) ==
  task[e] # None =>
    IF task[e].matches THEN settings[e] + Cardinality(Owing(e)) <= task[e].attempts ELSE settings[e] = 0

Complete(e) ==
  task[e] # None /\ e \in execution /\ task[e].matches =>
    (\A i \in 1 .. 3 : Steps[i] \in rule.permitted) /\ <<e, 1>> \in remarks

\* Whoever works on a job that is not disrupted is alone with it, and it is not settled.
Final(e) ==
  task[e] # None /\ e \notin disrupted /\ e \in execution =>
    task[e].status = "DELIVERED" /\ e \notin redone /\ ~AtWork(e)

Alone(e) ==
  e \notin disrupted =>
    \A g, h \in Handler : Engaged(g) /\ Engaged(h) /\ at[g].task = e /\ at[h].task = e => g = h

Recorded(e) == Fresh(e) /\ Delivered(e) /\ Paid(e) /\ Complete(e) /\ Final(e) /\ Alone(e)

AutomationInv ==
  /\ AutomationTypeOK
  /\ redone \subseteq execution
  /\ \A h \in Handler : Progress(h)
  /\ \A e \in Occasion : Recorded(e)

LEMMA StepsAre == DOMAIN Steps = 1 .. 3 /\ Len(Steps) = 3 /\ Steps[1] = "COMMENT" /\ Steps[2] = "SET_PRIORITY"
                  /\ Steps[3] = "ADD_LABEL"
  BY DEF Steps

LEMMA OwingFinite == ASSUME NEW e PROVE IsFiniteSet(Owing(e)) /\ Cardinality(Owing(e)) \in Nat
  <1>1. Owing(e) \in SUBSET Handler /\ IsFiniteSet(Handler)
    BY AutomationAssumption DEF Owing
  <1>2. QED
    BY <1>1, FS_Subset, FS_CardinalityType

LEMMA AutomationInvImplies == AutomationInv => AutomationTells
  <1> SUFFICES ASSUME AutomationInv, NEW e \in Occasion, task[e] # None
               PROVE  /\ task[e].status = "DELIVERED" => e \in execution
                      /\ e \in execution /\ task[e].matches =>
                           {Steps[i] : i \in DOMAIN Steps} \subseteq rule.permitted
                      /\ settings[e] <= IF task[e].matches THEN task[e].attempts ELSE 0
                      /\ e \in execution /\ task[e].matches => Cardinality({c \in remarks : c[1] = e}) = 1
                      /\ e \notin disrupted /\ e \in execution =>
                           task[e].status = "DELIVERED" /\ e \notin redone
    BY DEF AutomationTells
  <1>1. Recorded(e) /\ task[e] \in AutomationJob /\ settings[e] \in Nat /\ remarks \subseteq Occasion \X {1}
    BY DEF AutomationInv, AutomationTypeOK
  <1>2. task[e].attempts \in Nat
    BY <1>1 DEF AutomationJob
  <1>3. settings[e] <= IF task[e].matches THEN task[e].attempts ELSE 0
    BY <1>1, <1>2, OwingFinite DEF Recorded, Fresh, Delivered, Paid, Complete, Final, Alone
  <1>4. e \in execution /\ task[e].matches => {Steps[i] : i \in DOMAIN Steps} \subseteq rule.permitted
    BY <1>1, StepsAre DEF Recorded, Fresh, Delivered, Paid, Complete, Final, Alone
  <1>5. ASSUME e \in execution /\ task[e].matches PROVE Cardinality({c \in remarks : c[1] = e}) = 1
    <2>1. <<e, 1>> \in remarks
      BY <1>1, <1>5 DEF Recorded, Fresh, Delivered, Paid, Complete, Final, Alone
    <2>2. {c \in remarks : c[1] = e} = {<<e, 1>>}
      BY <1>1, <2>1
    <2>3. Cardinality({<<e, 1>>}) = 1
      BY FS_Singleton
    <2>4. QED
      BY <2>2, <2>3
  <1>6. QED
    BY <1>1, <1>3, <1>4, <1>5 DEF Recorded, Fresh, Delivered, Paid, Complete, Final, Alone

LEMMA AutomationInitKeeps ==
    ASSUME NEW requests PROVE AutomationInit /\ HandlersInit(requests) => AutomationInv
  <1> SUFFICES ASSUME AutomationInit, HandlersInit(requests) PROVE AutomationInv
    OBVIOUS
  <1>1. task = [e \in Occasion |-> None] /\ settings = [e \in Occasion |-> 0]
        /\ remarks = {} /\ execution = {} /\ redone = {}
    BY DEF AutomationInit
  <1>2. rule = [rule EXCEPT !.enabled = rule.enabled]
    <2>1. ASSUME NEW A, NEW B, rule \in [enabled : A, permitted : B] PROVE rule = [rule EXCEPT !.enabled = rule.enabled]
      BY ONLY <2>1
    <2>2. QED
      BY <2>1 DEF AutomationInit
  <1>3. at = [h \in Handler |-> at[h]] /\ \A h \in Handler : at[h].op = "idle"
    BY DEF HandlersInit, Idle
  <1>4. AutomationTypeOK
    BY <1>1, <1>2, <1>3 DEF AutomationTypeOK
  <1>5. \A h \in Handler : Progress(h)
    BY <1>3 DEF Progress, Engaged
  <1>6. \A e \in Occasion : Recorded(e)
    BY <1>1, <1>3 DEF Recorded, Fresh, Delivered, Paid, Complete, Final, Alone, Engaged
  <1>7. QED
    BY <1>1, <1>4, <1>5, <1>6 DEF AutomationInv

-----------------------------------------------------------------------------

\* What a worker has before it stays as true as it is.
LEMMA ProgressStays ==
    ASSUME NEW g \in Handler, Progress(g), at'[g] = at[g],
           Engaged(g) => task'[at[g].task] # None
                         /\ (task[at[g].task] # None => (task'[at[g].task].matches <=> task[at[g].task].matches)),
           remarks \subseteq remarks', rule'.permitted = rule.permitted
    PROVE  Progress(g)'
  BY DEF Progress, Engaged, Busy

\* Fewer work, and fewer owe.
LEMMA RecordedStays ==
    ASSUME NEW e \in Occasion, Recorded(e), task'[e] = task[e],
           task[e] # None => task[e].attempts \in Nat /\ settings[e] \in Nat,
           UNCHANGED <<execution, remarks, redone, disrupted>>, settings'[e] = settings[e],
           rule'.permitted = rule.permitted,
           \A g \in Handler : /\ Engaged(g)' /\ at'[g].task = e => Engaged(g) /\ at[g].task = e
                              /\ g \in Owing(e)' => g \in Owing(e)
    PROVE  Recorded(e)'
  <1>1. Owing(e)' \in SUBSET Owing(e)
    BY DEF Owing
  <1>2. Cardinality(Owing(e)') \in Nat /\ Cardinality(Owing(e)') <= Cardinality(Owing(e))
    BY <1>1, OwingFinite, FS_Subset, FS_CardinalityType
  <1>3. AtWork(e)' => AtWork(e)
    BY DEF AtWork, Engaged
  <1>4. task[e] # None /\ task[e].matches => settings[e] + Cardinality(Owing(e)') <= task[e].attempts
    BY <1>2, OwingFinite DEF Recorded, Fresh, Delivered, Paid, Complete, Final, Alone
  <1>5. QED
    BY <1>3, <1>4 DEF Recorded, Fresh, Delivered, Paid, Complete, Final, Alone

\* A worker goes on, fails or ends, and nothing else changes.
LEMMA WorkerGoesOn ==
    ASSUME AutomationInv, UNCHANGED automationVars, NEW h \in Handler, NEW m, at' = [at EXCEPT ![h] = m],
           Progress(h)',
           \/ m.op = "idle"
           \/ m.op = "failing" /\ Engaged(h) /\ m.task = at[h].task
           \/ m.op = "run" /\ Busy(h, "run") /\ m.task = at[h].task /\ at[h].next <= 2
    PROVE  AutomationInv'
  <1>1. at' = [g \in Handler |-> at'[g]] /\ \A g \in Handler : at'[g] = IF g = h THEN m ELSE at[g]
    BY DEF AutomationInv, AutomationTypeOK
  <1>2. UNCHANGED <<rule, task, execution, remarks, settings, redone, disrupted>>
    BY DEF automationVars
  <1>3. ASSUME NEW g \in Handler PROVE Progress(g)'
    <2>1. CASE g # h
      BY <1>1, <1>2, <2>1, ProgressStays DEF AutomationInv, Progress
    <2>2. QED
      BY <2>1
  <1>4. ASSUME NEW e \in Occasion PROVE Recorded(e)'
    <2>1. ASSUME NEW g \in Handler
          PROVE  /\ Engaged(g)' /\ at'[g].task = e => Engaged(g) /\ at[g].task = e
                 /\ g \in Owing(e)' => g \in Owing(e)
      BY <1>1 DEF Engaged, Owing, Busy
    <2>2. task[e] # None => task[e].attempts \in Nat /\ settings[e] \in Nat
      BY DEF AutomationInv, AutomationTypeOK, AutomationJob
    <2>3. QED
      BY <1>2, <2>1, <2>2, RecordedStays DEF AutomationInv
  <1>5. QED
    BY <1>1, <1>2, <1>3, <1>4 DEF AutomationInv, AutomationTypeOK

LEMMA WorkerLeaves ==
    ASSUME AutomationInv, UNCHANGED automationVars, NEW h \in Handler, at' = [at EXCEPT ![h] = Idle]
    PROVE  AutomationInv'
  <1>1. Idle.op = "idle" /\ at'[h] = Idle
    BY DEF Idle, AutomationInv, AutomationTypeOK
  <1>2. Progress(h)'
    BY <1>1 DEF Progress, Engaged
  <1>3. QED
    BY <1>1, <1>2, WorkerGoesOn

LEMMA StartTaskKeeps == ASSUME NEW h \in Handler PROVE AutomationInv /\ StartTask(h) => AutomationInv'
  <1> SUFFICES ASSUME AutomationInv, StartTask(h) PROVE AutomationInv'
    OBVIOUS
  <1> DEFINE e == at[h].task
             first == IF task[e].matches THEN 1 ELSE Len(Steps) + 1
  <1>1. Busy(h, "run") /\ at[h].next = 0 /\ e \in Occasion /\ task[e] # None
    BY DEF StartTask, AutomationInv, Progress, Engaged, Busy
  <1>2. first = IF task[e].matches THEN 1 ELSE 4
    BY StepsAre
  <1> HIDE DEF first
  <1>3. ASSUME NEW m, m = [at[h] EXCEPT !.next = first] PROVE AutomationInv'
    <2>1. at' = [at EXCEPT ![h] = m] /\ UNCHANGED automationVars
      BY <1>3 DEF StartTask, Proceed, first
    <2>2. PICK r : r = at[h]
      OBVIOUS
    <2>3. m.op = "run" /\ m.task = e /\ at'[h] = m
      BY <1>1, <1>3, <2>1 DEF AutomationInv, AutomationTypeOK, Busy
    <2>4. Progress(h)'
      BY <1>1, <1>2, <1>3, <2>1, <2>3 DEF Progress, Engaged, Busy, automationVars
    <2>5. m.op = "run" /\ Busy(h, "run") /\ m.task = at[h].task /\ at[h].next <= 2
      BY <1>1, <2>3
    <2>6. QED
      BY <2>1, <2>4, <2>5, WorkerGoesOn
  <1>4. QED
    BY <1>3

LEMMA ThrowKeeps == ASSUME NEW h \in Handler PROVE AutomationInv /\ Throw(h) => AutomationInv'
  <1> SUFFICES ASSUME AutomationInv, Throw(h) PROVE AutomationInv'
    OBVIOUS
  <1>1. Busy(h, "run") /\ Engaged(h) /\ Progress(h)
    BY DEF Throw, AutomationInv, Engaged, Busy
  <1>2. ASSUME NEW m, m = [at[h] EXCEPT !.op = "failing"] PROVE AutomationInv'
    <2>1. at' = [at EXCEPT ![h] = m] /\ UNCHANGED automationVars
      BY <1>2 DEF Throw, Proceed
    <2>2. m.op = "failing" /\ m.task = at[h].task /\ at'[h] = m
      BY <1>1, <1>2, <2>1 DEF AutomationInv, AutomationTypeOK, Busy
    <2>3. Progress(h)'
      BY <1>1, <2>1, <2>2 DEF Progress, Engaged, Busy, automationVars
    <2>4. QED
      BY <1>1, <2>1, <2>2, <2>3, WorkerGoesOn
  <1>3. QED
    BY <1>2

LEMMA SwitchRuleKeeps == AutomationInv /\ SwitchRule => AutomationInv'
  <1> SUFFICES ASSUME AutomationInv, SwitchRule PROVE AutomationInv'
    OBVIOUS
  <1>1. /\ UNCHANGED <<task, execution, remarks, settings, redone, disrupted, at>>
        /\ rule' = [rule EXCEPT !.enabled = ~@]
    BY DEF SwitchRule, InOneStep
  <1>2. rule = [rule EXCEPT !.enabled = rule.enabled]
    BY DEF AutomationInv, AutomationTypeOK
  <1>3. rule'.permitted = rule.permitted
    BY <1>1
  <1>4. rule' = [rule' EXCEPT !.enabled = rule'.enabled]
    BY <1>1, <1>2
  <1>5. ASSUME NEW g \in Handler PROVE Progress(g)'
    BY <1>1, <1>3, ProgressStays DEF AutomationInv, Progress
  <1>6. ASSUME NEW e \in Occasion PROVE Recorded(e)'
    <2>1. task[e] # None => task[e].attempts \in Nat /\ settings[e] \in Nat
      BY DEF AutomationInv, AutomationTypeOK, AutomationJob
    <2>2. \A g \in Handler : /\ Engaged(g)' /\ at'[g].task = e => Engaged(g) /\ at[g].task = e
                             /\ g \in Owing(e)' => g \in Owing(e)
      BY <1>1 DEF Engaged, Owing, Busy
    <2>3. QED
      BY <1>1, <1>3, <2>1, <2>2, RecordedStays DEF AutomationInv
  <1>7. QED
    BY <1>1, <1>4, <1>5, <1>6 DEF AutomationInv, AutomationTypeOK

LEMMA EnqueueJobKeeps == ASSUME NEW e \in Occasion PROVE AutomationInv /\ EnqueueJob(e) => AutomationInv'
  <1> SUFFICES ASSUME AutomationInv, EnqueueJob(e) PROVE AutomationInv'
    OBVIOUS
  <1>1. PICK matches \in BOOLEAN :
          task' = [task EXCEPT ![e] = [status |-> "PENDING", attempts |-> 0, matches |-> matches]]
    BY DEF EnqueueJob
  <1> DEFINE new == [status |-> "PENDING", attempts |-> 0, matches |-> matches]
  <1>2. new \in AutomationJob /\ new.status = "PENDING" /\ new.attempts = 0
    BY DEF AutomationJob
  <1>3. task' = [task EXCEPT ![e] = new]
    BY <1>1
  <1> HIDE DEF new
  <1>4. UNCHANGED <<rule, execution, remarks, settings, redone, disrupted, at>> /\ task[e] = None
    BY DEF EnqueueJob, InOneStep
  <1>5. task' \in [Occasion -> AutomationJob \cup {None}] /\ task'[e] = new /\ new # None
        /\ \A f \in Occasion : f # e => task'[f] = task[f]
    BY <1>2, <1>3, AutomationAssumption DEF AutomationInv, AutomationTypeOK
  <1>6. \A g \in Handler : Engaged(g) => at[g].task \in Occasion /\ at[g].task # e
    BY <1>4 DEF AutomationInv, Progress
  <1>7. ASSUME NEW g \in Handler PROVE Progress(g)'
    <2>1. Engaged(g) => task'[at[g].task] = task[at[g].task] /\ task[at[g].task] # None
      BY <1>5, <1>6 DEF AutomationInv, Progress
    <2>2. QED
      BY <1>4, <2>1, ProgressStays DEF AutomationInv
  <1>8. ASSUME NEW f \in Occasion PROVE Recorded(f)'
    <2>1. CASE f = e
      <3>1. Owing(e)' = {}
        BY <1>4, <1>6 DEF Owing, Engaged, Busy
      <3>2. Cardinality(Owing(e)') = 0
        BY <3>1, FS_EmptySet
      <3>3. e \notin execution /\ settings[e] = 0
        BY <1>4 DEF AutomationInv, Recorded, Fresh
      <3>5. \A g \in Handler : ~(Engaged(g)' /\ at'[g].task = e)
        BY <1>4, <1>6 DEF Engaged
      <3>6. QED
        BY <1>2, <1>4, <1>5, <2>1, <3>2, <3>3, <3>5 DEF Recorded, Fresh, Delivered, Paid, Complete, Final, Alone
    <2>2. CASE f # e
      <3>1. task[f] # None => task[f].attempts \in Nat /\ settings[f] \in Nat
        BY DEF AutomationInv, AutomationTypeOK, AutomationJob
      <3>2. \A g \in Handler : /\ Engaged(g)' /\ at'[g].task = f => Engaged(g) /\ at[g].task = f
                               /\ g \in Owing(f)' => g \in Owing(f)
        BY <1>4 DEF Engaged, Owing, Busy
      <3>3. QED
        BY <1>4, <1>5, <2>2, <3>1, <3>2, RecordedStays DEF AutomationInv
    <2>3. QED
      BY <2>1, <2>2
  <1>9. QED
    BY <1>4, <1>5, <1>7, <1>8 DEF AutomationInv, AutomationTypeOK

\* The attempt that is counted pays for the setting that its worker may make.
LEMMA ClaimTaskKeeps ==
    ASSUME NEW h \in Handler, NEW e \in Occasion PROVE AutomationInv /\ ClaimTask(h, e) => AutomationInv'
  <1> SUFFICES ASSUME AutomationInv, ClaimTask(h, e) PROVE AutomationInv'
    OBVIOUS
  <1> DEFINE new == [task[e] EXCEPT !.status = "PROCESSING", !.attempts = @ + 1]
             m == [op |-> "run", task |-> e, next |-> 0, attempt |-> task[e].attempts + 1]
  <1>1. task[e] # None /\ task[e].status \in {"PENDING", "PROCESSING"} /\ at[h] = Idle
    BY DEF ClaimTask, DueTask, Enter
  <1>2. task[e] \in AutomationJob /\ task[e].attempts \in Nat
    BY <1>1 DEF AutomationInv, AutomationTypeOK, AutomationJob
  <1>3. /\ new \in AutomationJob /\ new.status = "PROCESSING" /\ new.attempts = task[e].attempts + 1
        /\ new.matches <=> task[e].matches
    <2>1. new = [status |-> "PROCESSING", attempts |-> task[e].attempts + 1, matches |-> task[e].matches]
      <3>1. ASSUME NEW A, NEW B, NEW C, NEW x \in [status : A, attempts : B, matches : C]
            PROVE  [x EXCEPT !.status = "PROCESSING"]
                     = [status |-> "PROCESSING", attempts |-> x.attempts, matches |-> x.matches]
        BY ONLY <3>1
      <3>2. PICK z : z = [task[e] EXCEPT !.status = "PROCESSING"]
        OBVIOUS
      <3>3. z = [status |-> "PROCESSING", attempts |-> task[e].attempts, matches |-> task[e].matches]
        BY <1>2, <3>1, <3>2 DEF AutomationJob
      <3>4. new = [z EXCEPT !.attempts = task[e].attempts + 1]
        BY ONLY <3>2, Zenon
      <3>5. [z EXCEPT !.attempts = task[e].attempts + 1]
              = [status |-> "PROCESSING", attempts |-> task[e].attempts + 1, matches |-> task[e].matches]
        BY <3>3
      <3>6. QED
        BY ONLY <3>4, <3>5
    <2>2. task[e].matches \in BOOLEAN
      BY <1>2 DEF AutomationJob
    <2> HIDE DEF new
    <2>3. new \in AutomationJob
      BY <1>2, <2>1, <2>2 DEF AutomationJob
    <2>4. QED
      BY <2>1, <2>3
  <1>4. task' = [task EXCEPT ![e] = new]
    BY DEF ClaimTask
  <1>5. m.op = "run" /\ m.task = e /\ m.next = 0 /\ at' = [at EXCEPT ![h] = m]
    BY DEF ClaimTask, Enter
  <1> HIDE DEF new, m
  <1>6. UNCHANGED <<rule, execution, remarks, settings, redone>> /\ disrupted \subseteq disrupted'
        /\ (AtWork(e) => e \in disrupted') /\ \A f \in Occasion : f # e /\ f \in disrupted' => f \in disrupted
    BY DEF ClaimTask
  <1>7. task' \in [Occasion -> AutomationJob \cup {None}] /\ task'[e] = new /\ new # None
        /\ \A f \in Occasion : f # e => task'[f] = task[f]
    BY <1>3, <1>4, AutomationAssumption DEF AutomationInv, AutomationTypeOK
  <1>8. at' = [g \in Handler |-> at'[g]] /\ \A g \in Handler : at'[g] = IF g = h THEN m ELSE at[g]
    BY <1>5 DEF AutomationInv, AutomationTypeOK
  <1>9. at[h].op = "idle"
    BY <1>1 DEF Idle
  <1>10. ASSUME NEW g \in Handler PROVE Progress(g)'
    <2>1. CASE g = h
      BY <1>5, <1>7, <1>8, <2>1 DEF Progress, Engaged, Busy
    <2>2. CASE g # h
      <3>1. Engaged(g) => /\ task'[at[g].task] # None
                          /\ task'[at[g].task].matches <=> task[at[g].task].matches
        <4>1. Engaged(g) => at[g].task \in Occasion /\ task[at[g].task] # None
          BY DEF AutomationInv, Progress
        <4>2. CASE at[g].task = e
          BY <1>3, <1>7, <4>2
        <4>3. CASE at[g].task # e
          BY <1>7, <4>1, <4>3
        <4>4. QED
          BY <4>2, <4>3
      <3>2. QED
        BY <1>6, <1>8, <2>2, <3>1, ProgressStays DEF AutomationInv
    <2>3. QED
      BY <2>1, <2>2
  <1>11. Recorded(e)'
    <2>1. Recorded(e) /\ settings[e] \in Nat
      BY DEF AutomationInv, AutomationTypeOK
    <2>2. Owing(e)' = Owing(e) \cup {h} /\ h \notin Owing(e)
      BY <1>5, <1>8, <1>9 DEF Owing, Busy
    <2>3. Cardinality(Owing(e)') = Cardinality(Owing(e)) + 1
      BY <2>2, OwingFinite, FS_AddElement
    <2>4. task[e].matches => settings[e] + Cardinality(Owing(e)') <= new.attempts
      BY <1>1, <1>2, <1>3, <2>1, <2>3, OwingFinite DEF Recorded, Fresh, Delivered, Paid, Complete, Final, Alone
    <2>5. e \in execution => e \in disrupted'
      BY <1>1, <1>6, <2>1 DEF Recorded, Fresh, Delivered, Paid, Complete, Final, Alone
    <2>6. e \notin disrupted' => \A g \in Handler : Engaged(g)' /\ at'[g].task = e => g = h
      BY <1>6, <1>8 DEF Engaged, AtWork
    <2>7. QED
      BY <1>1, <1>3, <1>6, <1>7, <2>1, <2>4, <2>5, <2>6 DEF Recorded, Fresh, Delivered, Paid, Complete, Final, Alone
  <1>12. ASSUME NEW f \in Occasion, f # e PROVE Recorded(f)'
    <2>1. Recorded(f) /\ (f \in disrupted' <=> f \in disrupted)
      BY <1>6, <1>12 DEF AutomationInv
    <2>2. Owing(f)' = Owing(f)
      BY <1>5, <1>8, <1>9, <1>12 DEF Owing, Busy
    <2>3. \A g \in Handler : Engaged(g)' /\ at'[g].task = f <=> Engaged(g) /\ at[g].task = f
      BY <1>5, <1>8, <1>9, <1>12 DEF Engaged
    <2>4. AtWork(f)' <=> AtWork(f)
      BY <2>3 DEF AtWork, Engaged
    <2>5. QED
      BY <1>6, <1>7, <1>12, <2>1, <2>2, <2>3, <2>4 DEF Recorded, Fresh, Delivered, Paid, Complete, Final, Alone
  <1>13. QED
    BY <1>6, <1>7, <1>8, <1>10, <1>11, <1>12 DEF AutomationInv, AutomationTypeOK

\* An action is run: a comment once at most, the priority at the expense of the attempt.
LEMMA ActKeeps ==
    ASSUME NEW h \in Handler, NEW e \in Occasion, e = at[h].task, AutomationInv, Act(h)
    PROVE  AutomationInv'
  <1> DEFINE n == at[h].next
             m == [at[h] EXCEPT !.next = @ + 1]
  <1>1. Busy(h, "run") /\ Engaged(h) /\ Progress(h) /\ n \in 1 .. 3 /\ Steps[n] \in rule.permitted
    BY StepsAre DEF Act, AutomationInv, Engaged, Busy
  <1>2. e \in Occasion /\ task[e] # None /\ task[e].matches
    BY <1>1 DEF Progress
  <1>3. /\ remarks' = IF n = 1 THEN remarks \cup {<<e, 1>>} ELSE remarks
        /\ settings' = IF n = 2 THEN [settings EXCEPT ![e] = @ + 1] ELSE settings
        /\ redone' = IF n = 2 /\ e \in execution THEN redone \cup {e} ELSE redone
        /\ at' = [at EXCEPT ![h] = m]
        /\ UNCHANGED <<rule, task, execution, disrupted>>
    <2>1. (Steps[n] = "COMMENT" <=> n = 1) /\ (Steps[n] = "SET_PRIORITY" <=> n = 2)
      BY <1>1, StepsAre
    <2>2. QED
      BY <2>1 DEF Act, Proceed
  <1>4. at[h].op = "run" /\ m.op = "run" /\ m.task = e /\ m.next = n + 1
    <2>1. at[h].op = "run"
      BY <1>1 DEF Busy
    <2>2. m.op = at[h].op /\ m.task = at[h].task
      OBVIOUS
    <2>3. m.next = n + 1
      OBVIOUS
    <2>4. QED
      BY <2>1, <2>2, <2>3
  <1> HIDE DEF m
  <1>5. at' = [g \in Handler |-> at'[g]] /\ \A g \in Handler : at'[g] = IF g = h THEN m ELSE at[g]
    BY <1>3 DEF AutomationInv, AutomationTypeOK
  <1>6. /\ settings' \in [Occasion -> Nat] /\ remarks' \subseteq Occasion \X {1} /\ remarks \subseteq remarks'
        /\ settings'[e] = settings[e] + (IF n = 2 THEN 1 ELSE 0)
        /\ \A f \in Occasion : f # e => settings'[f] = settings[f]
    BY <1>2, <1>3 DEF AutomationInv, AutomationTypeOK
  <1>7. ASSUME NEW g \in Handler PROVE Progress(g)'
    <2>1. CASE g = h
      <3>1. at'[h].op = "run" /\ at'[h].task = e /\ at'[h].next = n + 1
        BY <1>4, <1>5
      <3>2. n + 1 \in 0 .. 4
        BY <1>1
      <3>3. \A i \in 1 .. 3 : i < n + 1 => Steps[i] \in rule.permitted
        BY <1>1, <1>2 DEF Progress
      <3>4. <<e, 1>> \in remarks'
        BY <1>1, <1>2, <1>3 DEF Progress
      <3>5. QED
        BY <1>2, <1>3, <2>1, <3>1, <3>2, <3>3, <3>4 DEF Progress, Busy
    <2>2. CASE g # h
      BY <1>3, <1>5, <1>6, <2>2, ProgressStays DEF AutomationInv, Progress
    <2>3. QED
      BY <2>1, <2>2
  <1>8. Engaged(h)' /\ at'[h].task = e
    BY <1>4, <1>5 DEF Engaged
  <1>9. \A g \in Handler, f \in Occasion : Engaged(g)' /\ at'[g].task = f <=> Engaged(g) /\ at[g].task = f
    BY <1>1, <1>5, <1>8 DEF Engaged
  <1>10. \A f \in Occasion : AtWork(f)' <=> AtWork(f)
    BY <1>9 DEF AtWork, Engaged
  <1>11. AtWork(e)
    BY <1>1 DEF AtWork, Engaged
  <1>12. Recorded(e)'
    <2>1. Recorded(e) /\ settings[e] \in Nat /\ task[e] \in AutomationJob
      BY <1>2 DEF AutomationInv, AutomationTypeOK
    <2>2. task[e].attempts \in Nat
      BY <2>1 DEF AutomationJob
    <2>3. settings[e] + Cardinality(Owing(e)) <= task[e].attempts
      BY <1>2, <2>1 DEF Recorded, Paid
    <2>4. ASSUME n = 2 PROVE settings'[e] + Cardinality(Owing(e)') <= task[e].attempts
      <3>1. Owing(e)' = Owing(e) \ {h} /\ h \in Owing(e)
        BY <1>1, <1>4, <1>5, <2>4 DEF Owing, Busy
      <3>2. Cardinality(Owing(e)') = Cardinality(Owing(e)) - 1
        <4>1. PICK S : S = Owing(e)
          OBVIOUS
        <4>2. IsFiniteSet(S) /\ h \in S
          BY <3>1, <4>1, OwingFinite
        <4>3. Cardinality(S \ {h}) = Cardinality(S) - 1
          BY ONLY <4>2, FS_RemoveElement
        <4>4. QED
          BY <3>1, <4>1, <4>3
      <3>3. settings'[e] + Cardinality(Owing(e)') <= task[e].attempts
        <4>1. settings'[e] = settings[e] + 1
          BY <1>6, <2>4
        <4>2. settings[e] \in Nat /\ Cardinality(Owing(e)) \in Nat
          BY <2>1, OwingFinite
        <4>3. QED
          BY ONLY <2>2, <2>3, <3>2, <4>1, <4>2
      <3>4. QED
        BY <3>3
    <2>5. ASSUME n # 2 PROVE settings'[e] + Cardinality(Owing(e)') <= task[e].attempts
      <3>1. Owing(e)' \in SUBSET Owing(e)
        BY <1>1, <1>4, <1>5, <2>5 DEF Owing, Busy
      <3>2. Cardinality(Owing(e)') \in Nat /\ Cardinality(Owing(e)') <= Cardinality(Owing(e))
        BY <3>1, OwingFinite, FS_Subset, FS_CardinalityType
      <3>3. settings'[e] + Cardinality(Owing(e)') <= task[e].attempts
        <4>1. settings'[e] = settings[e]
          BY <1>6, <2>1, <2>5
        <4>2. settings[e] \in Nat /\ Cardinality(Owing(e)) \in Nat
          BY <2>1, OwingFinite
        <4>3. QED
          BY ONLY <2>2, <2>3, <3>2, <4>1, <4>2
      <3>4. QED
        BY <3>3
    <2>6. e \in execution => e \in disrupted
      BY <1>2, <1>11, <2>1 DEF Recorded, Final
    <2>7. Fresh(e)' /\ Delivered(e)'
      BY <1>2, <1>3, <2>1 DEF Recorded, Fresh, Delivered
    <2>8. Paid(e)'
      BY <1>2, <1>3, <2>4, <2>5 DEF Paid
    <2>9. Complete(e)'
      BY <1>3, <1>6, <2>1 DEF Recorded, Complete
    <2>10. Final(e)'
      BY <1>3, <2>6 DEF Final
    <2>11. Alone(e)'
      BY <1>3, <1>9, <2>1, <1>2 DEF Recorded, Alone
    <2>12. QED
      BY <2>7, <2>8, <2>9, <2>10, <2>11 DEF Recorded
  <1>13. ASSUME NEW f \in Occasion, f # e PROVE Recorded(f)'
    <2>1. Recorded(f) /\ (f \in redone' <=> f \in redone) /\ (<<f, 1>> \in remarks => <<f, 1>> \in remarks')
      BY <1>3, <1>13 DEF AutomationInv
    <2>2. Owing(f)' = Owing(f)
      BY <1>4, <1>5, <1>13 DEF Owing, Busy
    <2>3. Fresh(f)' /\ Delivered(f)' /\ Complete(f)'
      BY <1>3, <1>6, <1>13, <2>1 DEF Recorded, Fresh, Delivered, Complete
    <2>4. Paid(f)'
      BY <1>3, <1>6, <1>13, <2>1, <2>2 DEF Recorded, Paid
    <2>5. Final(f)' /\ Alone(f)'
      BY <1>3, <1>9, <1>10, <2>1 DEF Recorded, Final, Alone
    <2>6. QED
      BY <2>3, <2>4, <2>5 DEF Recorded
  <1>14. QED
    BY <1>3, <1>5, <1>6, <1>7, <1>12, <1>13 DEF AutomationInv, AutomationTypeOK

\* The status of a job is written, whatever it was: by who is at work.
StatusWritten(e, status) ==
  /\ task' = [task EXCEPT ![e].status = status]
  /\ task' \in [Occasion -> AutomationJob \cup {None}]
  /\ task'[e] # None /\ task'[e].status = status /\ task'[e].attempts = task[e].attempts
  /\ task'[e].matches <=> task[e].matches
  /\ \A f \in Occasion : f # e => task'[f] = task[f]

LEMMA StatusIsWritten ==
    ASSUME AutomationInv, NEW e \in Occasion, task[e] # None,
           NEW status \in {"PENDING", "PROCESSING", "DELIVERED", "DEAD"},
           task' = [task EXCEPT ![e].status = status]
    PROVE  StatusWritten(e, status)
  <1> DEFINE new == [task[e] EXCEPT !.status = status]
  <1>1. task[e] \in AutomationJob
    BY DEF AutomationInv, AutomationTypeOK
  <1>2. new = [status |-> status, attempts |-> task[e].attempts, matches |-> task[e].matches]
    BY <1>1 DEF AutomationJob
  <1>3. task[e].attempts \in Nat /\ task[e].matches \in BOOLEAN
    BY <1>1 DEF AutomationJob
  <1>4. task' = [task EXCEPT ![e] = new]
    OBVIOUS
  <1> HIDE DEF new
  <1>5. new \in AutomationJob
    BY <1>2, <1>3 DEF AutomationJob
  <1>6. new.status = status /\ new.attempts = task[e].attempts /\ (new.matches <=> task[e].matches)
    BY <1>2
  <1>7. /\ task' \in [Occasion -> AutomationJob \cup {None}] /\ task'[e] = new /\ new # None
        /\ \A f \in Occasion : f # e => task'[f] = task[f]
    BY <1>4, <1>5, AutomationAssumption DEF AutomationInv, AutomationTypeOK
  <1>8. QED
    BY <1>6, <1>7 DEF StatusWritten

LEMMA FailTaskKeeps ==
    ASSUME NEW h \in Handler, NEW e \in Occasion, e = at[h].task, AutomationInv, FailTask(h)
    PROVE  AutomationInv'
  <1>1. at[h].op = "failing" /\ Engaged(h) /\ e \in Occasion /\ task[e] # None
    BY DEF FailTask, AutomationInv, Progress, Engaged, Busy
  <1>2. PICK status \in {"PENDING", "DEAD"} : StatusWritten(e, status)
    BY <1>1, StatusIsWritten DEF FailTask
  <1>3. UNCHANGED <<rule, execution, remarks, settings, redone, disrupted>> /\ at' = [at EXCEPT ![h] = Idle]
    BY DEF FailTask, Leave, Proceed
  <1>4. at' = [g \in Handler |-> at'[g]] /\ at'[h].op = "idle" /\ \A g \in Handler : g # h => at'[g] = at[g]
    BY <1>3 DEF AutomationInv, AutomationTypeOK, Idle
  <1>5. ASSUME NEW g \in Handler PROVE Progress(g)'
    <2>1. CASE g = h
      BY <1>4, <2>1 DEF Progress, Engaged
    <2>2. CASE g # h
      <3>1. Engaged(g) => /\ task'[at[g].task] # None
                          /\ task'[at[g].task].matches <=> task[at[g].task].matches
        <4>1. Engaged(g) => at[g].task \in Occasion /\ task[at[g].task] # None
          BY DEF AutomationInv, Progress
        <4>2. CASE at[g].task = e
          BY <1>2, <4>2 DEF StatusWritten
        <4>3. CASE at[g].task # e
          BY <1>2, <4>1, <4>3 DEF StatusWritten
        <4>4. QED
          BY <4>2, <4>3
      <3>2. QED
        BY <1>3, <1>4, <2>2, <3>1, ProgressStays DEF AutomationInv
    <2>3. QED
      BY <2>1, <2>2
  <1>6. \A f \in Occasion : Owing(f)' = Owing(f)
    BY <1>1, <1>4 DEF Owing, Busy
  <1>7. \A g \in Handler, f \in Occasion : Engaged(g)' /\ at'[g].task = f => Engaged(g) /\ at[g].task = f
    BY <1>4 DEF Engaged
  <1>8. Recorded(e)'
    <2>1. Recorded(e)
      BY <1>1 DEF AutomationInv
    <2>2. e \in execution => e \in disrupted
      BY <1>1, <2>1 DEF Recorded, Fresh, Delivered, Paid, Complete, Final, Alone, AtWork, Engaged
    <2>3. task'[e] # None /\ task'[e].status # "DELIVERED" /\ task'[e].attempts = task[e].attempts
          /\ (task'[e].matches <=> task[e].matches)
      BY <1>2 DEF StatusWritten
    <2>4. Fresh(e)' /\ Delivered(e)' /\ Complete(e)'
      BY <1>1, <1>3, <2>1, <2>3 DEF Recorded, Fresh, Delivered, Complete
    <2>5. Paid(e)'
      <3>1. Owing(e)' = Owing(e) /\ settings' = settings
        BY <1>1, <1>3, <1>6
      <3>2. QED
        BY <1>1, <2>1, <2>3, <3>1 DEF Recorded, Paid
    <2>6. Final(e)' /\ Alone(e)'
      BY <1>1, <1>3, <1>7, <2>1, <2>2 DEF Recorded, Final, Alone
    <2>7. QED
      BY <2>4, <2>5, <2>6 DEF Recorded
  <1>9. ASSUME NEW f \in Occasion, f # e PROVE Recorded(f)'
    <2>1. task[f] # None => task[f].attempts \in Nat /\ settings[f] \in Nat
      BY DEF AutomationInv, AutomationTypeOK, AutomationJob
    <2>2. task'[f] = task[f]
      BY <1>2, <1>9 DEF StatusWritten
    <2>3. \A g \in Handler : /\ Engaged(g)' /\ at'[g].task = f => Engaged(g) /\ at[g].task = f
                             /\ g \in Owing(f)' => g \in Owing(f)
      BY <1>6, <1>7
    <2>4. QED
      BY <1>3, <2>1, <2>2, <2>3, RecordedStays DEF AutomationInv
  <1>10. AutomationTypeOK'
    BY <1>2, <1>3, <1>4 DEF AutomationInv, AutomationTypeOK, StatusWritten
  <1>11. QED
    BY <1>3, <1>5, <1>8, <1>9, <1>10 DEF AutomationInv

LEMMA FinishTaskKeeps ==
    ASSUME NEW h \in Handler, NEW e \in Occasion, e = at[h].task, AutomationInv, FinishTask(h)
    PROVE  AutomationInv'
  <1>1. at[h].op = "run" /\ Engaged(h) /\ Progress(h) /\ at[h].next > 3 /\ e \in Occasion /\ task[e] # None
    BY StepsAre DEF FinishTask, AutomationInv, Progress, Engaged, Busy
  <1>2. StatusWritten(e, "DELIVERED")
    BY <1>1, StatusIsWritten DEF FinishTask
  <1>3. UNCHANGED <<rule, remarks, settings, redone>> /\ execution' = execution \cup {e}
    BY DEF FinishTask
  <1>4. PICK m : /\ at' = [at EXCEPT ![h] = m]
                 /\ \/ m.op = "idle" /\ disrupted' = disrupted
                    \/ m.op = "failing" /\ m.task = e /\ disrupted' = disrupted \cup {e}
    <2>1. CASE Leave(h) /\ UNCHANGED disrupted
      <3>1. PICK m : m = Idle
        OBVIOUS
      <3>2. m.op = "idle" /\ at' = [at EXCEPT ![h] = m]
        BY <2>1, <3>1 DEF Leave, Proceed, Idle
      <3>3. QED
        BY <2>1, <3>2
    <2>2. CASE Proceed(h, [at[h] EXCEPT !.op = "failing"]) /\ disrupted' = disrupted \cup {e}
      <3>1. PICK m : m = [at[h] EXCEPT !.op = "failing"]
        OBVIOUS
      <3>2. m.task = e /\ at' = [at EXCEPT ![h] = m]
        BY <2>2, <3>1 DEF Proceed
      <3>3. m.op = "failing"
        BY <1>1, <3>1
      <3>4. QED
        BY <2>2, <3>2, <3>3
    <2>3. QED
      BY <2>1, <2>2 DEF FinishTask
  <1>5. at' = [g \in Handler |-> at'[g]] /\ at'[h] = m /\ \A g \in Handler : g # h => at'[g] = at[g]
    BY <1>4 DEF AutomationInv, AutomationTypeOK
  <1>6. disrupted \subseteq disrupted' /\ \A f \in Occasion : f # e /\ f \in disrupted' => f \in disrupted
    BY <1>4
  <1>7. ASSUME NEW g \in Handler PROVE Progress(g)'
    <2>1. CASE g = h
      <3>1. task'[e] # None
        BY <1>2 DEF StatusWritten
      <3>2. QED
        BY <1>1, <1>4, <1>5, <2>1, <3>1 DEF Progress, Engaged, Busy
    <2>2. CASE g # h
      <3>1. Engaged(g) => /\ task'[at[g].task] # None
                          /\ task'[at[g].task].matches <=> task[at[g].task].matches
        <4>1. Engaged(g) => at[g].task \in Occasion /\ task[at[g].task] # None
          BY DEF AutomationInv, Progress
        <4>2. CASE at[g].task = e
          BY <1>2, <4>2 DEF StatusWritten
        <4>3. CASE at[g].task # e
          BY <1>2, <4>1, <4>3 DEF StatusWritten
        <4>4. QED
          BY <4>2, <4>3
      <3>2. QED
        BY <1>3, <1>5, <2>2, <3>1, ProgressStays DEF AutomationInv
    <2>3. QED
      BY <2>1, <2>2
  <1>8. ASSUME NEW f \in Occasion PROVE Owing(f)' = Owing(f)
    <2>1. at'[h].op # "run" /\ ~(at[h].next <= 2)
      BY <1>1, <1>4, <1>5 DEF Progress, Busy
    <2>2. QED
      BY <1>5, <2>1 DEF Owing, Busy
  <1>9. \A g \in Handler, f \in Occasion : Engaged(g)' /\ at'[g].task = f => Engaged(g) /\ at[g].task = f
    BY <1>1, <1>4, <1>5 DEF Engaged
  <1>10. Recorded(e)'
    <2>1. Recorded(e) /\ e \notin execution
      BY <1>1 DEF AutomationInv, FinishTask, Unrecorded
    <2>2. task'[e] # None /\ task'[e].status = "DELIVERED" /\ task'[e].attempts = task[e].attempts
          /\ (task'[e].matches <=> task[e].matches)
      BY <1>2 DEF StatusWritten
    <2>3. task[e].matches => (\A i \in 1 .. 3 : Steps[i] \in rule.permitted) /\ <<e, 1>> \in remarks
      BY <1>1 DEF Progress, Busy
    <2>5. e \notin disrupted' => ~AtWork(e)'
      <3>1. SUFFICES ASSUME e \notin disrupted', NEW g \in Handler, Engaged(g)', at'[g].task = e PROVE FALSE
        BY DEF AtWork, Engaged
      <3>2. g = h
        BY <1>1, <1>6, <1>9, <2>1, <3>1 DEF Recorded, Fresh, Delivered, Paid, Complete, Final, Alone
      <3>3. QED
        BY <1>4, <1>5, <3>1, <3>2 DEF Engaged
    <2>6. Fresh(e)' /\ Delivered(e)' /\ Complete(e)'
      BY <1>1, <1>3, <2>1, <2>2, <2>3 DEF Recorded, Fresh, Delivered, Complete
    <2>7. Paid(e)'
      <3>1. Owing(e)' = Owing(e) /\ settings' = settings
        BY <1>1, <1>3, <1>8
      <3>2. QED
        BY <1>1, <2>1, <2>2, <3>1 DEF Recorded, Paid
    <2>8. e \notin redone'
      BY <1>1, <1>3, <2>1 DEF AutomationInv
    <2>9. Final(e)'
      BY <2>2, <2>5, <2>8 DEF Final
    <2>10. Alone(e)'
      BY <1>1, <1>6, <1>9, <2>1 DEF Recorded, Alone
    <2>11. QED
      BY <2>6, <2>7, <2>9, <2>10 DEF Recorded
  <1>11. ASSUME NEW f \in Occasion, f # e PROVE Recorded(f)'
    <2>1. Recorded(f) /\ task'[f] = task[f] /\ (f \in disrupted' <=> f \in disrupted)
          /\ (f \in execution' <=> f \in execution)
      BY <1>2, <1>3, <1>6, <1>11 DEF StatusWritten, AutomationInv
    <2>2. AtWork(f)' => AtWork(f)
      BY <1>9 DEF AtWork, Engaged
    <2>3. Fresh(f)' /\ Delivered(f)' /\ Complete(f)'
      BY <1>3, <2>1 DEF Recorded, Fresh, Delivered, Complete
    <2>4. Paid(f)'
      BY <1>3, <1>8, <2>1 DEF Recorded, Paid
    <2>5. Final(f)' /\ Alone(f)'
      BY <1>3, <1>9, <2>1, <2>2 DEF Recorded, Final, Alone
    <2>6. QED
      BY <2>3, <2>4, <2>5 DEF Recorded
  <1>12. AutomationTypeOK'
    BY <1>2, <1>3, <1>5 DEF AutomationInv, AutomationTypeOK, StatusWritten
  <1>13. QED
    BY <1>3, <1>7, <1>10, <1>11, <1>12 DEF AutomationInv

(* What the record of a job says its worker did: a settled job has run     *)
(* every action it may run, commented once, and set the priority no more   *)
(* often than it was attempted; and unless it was disrupted it stays so    *)
(* (src/lib/automation.ts, ops/automation-worker.mjs).                     *)
THEOREM AutomationIsTold ==
    ASSUME NEW requests
    PROVE  AutomationSpec(requests) => []AutomationTells
  <1>1. AutomationInit /\ HandlersInit(requests) => AutomationInv
    BY AutomationInitKeeps
  <1>2. AutomationInv /\ [AutomationNext]_automationState => AutomationInv'
    <2> SUFFICES ASSUME AutomationInv, [AutomationNext]_automationState PROVE AutomationInv'
      OBVIOUS
    <2>1. ASSUME NEW h \in Handler, WorkerStops(h) PROVE AutomationInv'
      BY <2>1, WorkerLeaves DEF WorkerStops, Leave, Proceed
    <2>2. CASE UNCHANGED automationState
      <3>1. UNCHANGED <<at, rule, task, execution, remarks, settings, redone, disrupted>>
        BY <2>2 DEF automationState, automationVars, handlers
      <3>2. \A g \in Handler : Progress(g)'
        BY <3>1, ProgressStays DEF AutomationInv, Progress
      <3>3. ASSUME NEW e \in Occasion PROVE Recorded(e)'
        <4>1. task[e] # None => task[e].attempts \in Nat /\ settings[e] \in Nat
          BY DEF AutomationInv, AutomationTypeOK, AutomationJob
        <4>2. \A g \in Handler : /\ Engaged(g)' /\ at'[g].task = e => Engaged(g) /\ at[g].task = e
                                 /\ g \in Owing(e)' => g \in Owing(e)
          BY <3>1 DEF Engaged, Owing, Busy
        <4>3. QED
          BY <3>1, <4>1, <4>2, RecordedStays DEF AutomationInv
      <3>4. QED
        BY <3>1, <3>2, <3>3 DEF AutomationInv, AutomationTypeOK
    <2>3. ASSUME NEW h \in Handler, Act(h) \/ FinishTask(h) \/ FailTask(h) PROVE AutomationInv'
      <3>1. PICK e \in Occasion : e = at[h].task
        BY <2>3 DEF AutomationInv, Progress, Act, FinishTask, FailTask, Engaged, Busy
      <3>2. QED
        BY <2>3, <3>1, ActKeeps, FinishTaskKeeps, FailTaskKeeps
    <2>4. QED
      BY <2>1, <2>2, <2>3, SwitchRuleKeeps, EnqueueJobKeeps, ClaimTaskKeeps, StartTaskKeeps, ThrowKeeps
         DEF AutomationNext
  <1>3. QED
    BY <1>1, <1>2, AutomationInvImplies, PTL DEF AutomationSpec
=============================================================================
