------------------------------ MODULE BulkJobs ------------------------------
(***************************************************************************)
(* Bulk operations: a client selects issues at their versions and sends    *)
(* the selection with an idempotency key; workers claim the operations and *)
(* apply the change to one issue after the other, each in a transaction.   *)
(* A handler is a request or a worker.                                     *)
(***************************************************************************)
EXTENDS Handlers

CONSTANTS
  Target,    \* issues
  Bulk,      \* idempotency keys; an operation is known by its key
  BulkBatch  \* items that are read at once, 50 in the code

BulkOperation == [status : {"PENDING", "PROCESSING", "CANCELLED", "COMPLETED"},
                  total : Nat, succeeded : Nat, failed : Nat]

BulkOperationItem == [expected : Nat, status : {"PENDING", "SUCCEEDED", "FAILED"}]

ASSUME BulkAssumption == IsFiniteSet(Target) /\ None \notin BulkOperation \cup BulkOperationItem

VARIABLES
  target,     \* Issue: [version, live]
  operation,  \* the BulkOperation, or None
  item,       \* the BulkOperationItem of each operation and issue, or None
  applied,    \* history: how often the change of an operation was committed for an issue
  unheard     \* history: items the answer to whose commit was lost

bulkVars == <<target, operation, item, applied, unheard>>

BulkInit ==
  /\ target = [t \in Target |-> [version |-> 1, live |-> TRUE]]
  /\ operation = [b \in Bulk |-> None]
  /\ item = [b \in Bulk |-> [t \in Target |-> None]]
  /\ applied = [b \in Bulk |-> [t \in Target |-> 0]]
  /\ unheard = {}

EditTarget(t) ==
  /\ InOneStep /\ target[t].live
  /\ target' \in {[target EXCEPT ![t].version = @ + 1], [target EXCEPT ![t].live = FALSE]}
  /\ UNCHANGED <<operation, item, applied, unheard>>

---------------------------------------------------------------------------
(* Requests.                                                               *)

\* Every issue of the selection must be there, at the version that was selected.
BeginBulk(h, b) ==
  /\ \E chosen \in SUBSET {t \in Target : target[t].live} \ {{}} :
       Enter(h, [op |-> "create", bulk |-> b, chosen |-> [t \in chosen |-> target[t].version]])
  /\ UNCHANGED bulkVars

\* A key that was used before is answered with its operation; the loser of a race for the
\* unique key is answered with an error.
CreateBulk(h) == LET b == at[h].bulk  chosen == at[h].chosen IN
  /\ Busy(h, "create")
  /\ IF operation[b] # None THEN UNCHANGED <<operation, item>>
     ELSE /\ operation' = [operation EXCEPT ![b] =
               [status |-> "PENDING", total |-> Cardinality(DOMAIN chosen), succeeded |-> 0, failed |-> 0]]
          /\ item' = [item EXCEPT ![b] = [t \in Target |->
               IF t \in DOMAIN chosen THEN [expected |-> chosen[t], status |-> "PENDING"] ELSE None]]
  /\ Leave(h)
  /\ UNCHANGED <<target, applied, unheard>>

CancelBulk(b) ==
  /\ InOneStep
  /\ operation[b] # None /\ operation[b].status = "PENDING"
  /\ operation' = [operation EXCEPT ![b].status = "CANCELLED"]
  /\ UNCHANGED <<target, item, applied, unheard>>

---------------------------------------------------------------------------
(* A worker.                                                               *)

\* Operations that were left by their worker are taken up, and others.
Unfinished(b) == operation[b] # None /\ operation[b].status \in {"PENDING", "PROCESSING"}
Claimable(b) == operation[b] # None /\ operation[b].status = "PENDING"

ClaimBulk(h, b) ==
  /\ Claimable(b)
  /\ Enter(h, [op |-> "look", bulk |-> b])
  /\ operation' = [operation EXCEPT ![b].status = "PROCESSING"]
  /\ UNCHANGED <<target, item, applied, unheard>>

With(b, status) == {t \in Target : item[b][t] # None /\ item[b][t].status = status}

\* Cancellation is tested here too, but only a pending operation can be cancelled.
LookForItems(h) == LET pending == With(at[h].bulk, "PENDING") IN
  /\ Busy(h, "look") /\ pending # {}
  /\ \E batch \in SUBSET pending :
       /\ Cardinality(batch) = IF Cardinality(pending) < BulkBatch THEN Cardinality(pending) ELSE BulkBatch
       /\ Proceed(h, [op |-> "apply", bulk |-> at[h].bulk, batch |-> batch])
  /\ UNCHANGED bulkVars

Rest(h, t) == LET batch == at[h].batch \ {t} IN
  IF batch = {} THEN [op |-> "look", bulk |-> at[h].bulk]
                ELSE [op |-> "apply", bulk |-> at[h].bulk, batch |-> batch]

\* The version is tested twice in the transaction, the second time by the update itself.
AsSelected(b, t) == target[t].live /\ target[t].version = item[b][t].expected

\* Issue, activity, event and item in one transaction; one that timed out is tried again.
ApplyItem(h, t) == LET b == at[h].bulk IN
  /\ Busy(h, "apply") /\ t \in at[h].batch
  /\ AsSelected(b, t)
  /\ target' = [target EXCEPT ![t].version = @ + 1]
  /\ item' = [item EXCEPT ![b][t].status = "SUCCEEDED"]
  /\ applied' = [applied EXCEPT ![b][t] = @ + 1]
  /\ UNCHANGED operation
  /\ \/ Proceed(h, Rest(h, t)) /\ UNCHANGED unheard
     \/ /\ Proceed(h, [op |-> "mark", bulk |-> b, target |-> t, then |-> Rest(h, t)])
        /\ unheard' = unheard \cup {<<b, t>>}

\* Permission, workflow, limits and references may be refused, whatever the version.
RefuseItem(h, t) ==
  /\ Busy(h, "apply") /\ t \in at[h].batch
  /\ Proceed(h, [op |-> "mark", bulk |-> at[h].bulk, target |-> t, then |-> Rest(h, t)])
  /\ UNCHANGED bulkVars

MarkFailed(h) ==
  /\ Busy(h, "mark")
  /\ item' = [item EXCEPT ![at[h].bulk][at[h].target].status = "FAILED"]
  /\ Proceed(h, at[h].then)
  /\ UNCHANGED <<target, operation, applied, unheard>>

\* The counts and the summary follow when no item is pending any more.
FinishBulk(h) == LET b == at[h].bulk IN
  /\ Busy(h, "look") /\ With(b, "PENDING") = {}
  /\ operation' = [operation EXCEPT
       ![b].status = "COMPLETED", ![b].succeeded = Cardinality(With(b, "SUCCEEDED")),
       ![b].failed = Cardinality(With(b, "FAILED"))]
  /\ Leave(h)
  /\ UNCHANGED <<target, item, applied, unheard>>

\* The process ends; nobody takes the operation up.
WorkerDies(h) ==
  /\ at[h].op \in {"look", "apply", "mark"}
  /\ Leave(h)
  /\ UNCHANGED bulkVars

BulkNext ==
  \/ \E t \in Target : EditTarget(t)
  \/ \E b \in Bulk : CancelBulk(b)
  \/ \E h \in Handler :
       \/ \E b \in Bulk : BeginBulk(h, b) \/ ClaimBulk(h, b)
       \/ \E t \in Target : ApplyItem(h, t) \/ RefuseItem(h, t)
       \/ CreateBulk(h) \/ LookForItems(h) \/ MarkFailed(h) \/ FinishBulk(h) \/ WorkerDies(h)

---------------------------------------------------------------------------
(* The result of an item tells what became of its issue: a change was      *)
(* committed once if it succeeded, and not at all if it failed or is       *)
(* pending, unless the answer to its commit was lost; a cancelled          *)
(* operation changed nothing; and the totals of a completed one are those  *)
(* of its selection.                                                       *)
BulkExact ==
  /\ \A b \in Bulk, t \in Target :
       IF <<b, t>> \in unheard THEN applied[b][t] = 1
       ELSE applied[b][t] = IF t \in With(b, "SUCCEEDED") THEN 1 ELSE 0
  /\ \A b \in Bulk : operation[b] # None =>
       /\ operation[b].status = "CANCELLED" => \A t \in Target : applied[b][t] = 0
       /\ operation[b].status # "COMPLETED" => operation[b].succeeded = 0
       /\ operation[b].status = "COMPLETED" =>
            /\ With(b, "PENDING") = {}
            /\ operation[b].succeeded + operation[b].failed = operation[b].total
            /\ operation[b].succeeded = Cardinality({t \in Target : applied[b][t] = 1 /\ t \notin With(b, "FAILED")})
=============================================================================
