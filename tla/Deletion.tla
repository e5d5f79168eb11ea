------------------------------ MODULE Deletion ------------------------------
(***************************************************************************)
(* Governed deletion: an administrator previews what is old enough and     *)
(* under no legal hold, approves the preview, and executes it, as often as *)
(* it takes; meanwhile holds are placed and released and issues restored.  *)
(* Attachments go one by one, the object in the storage before the row;    *)
(* the rows of the other classes in one statement.  The chain of the audit *)
(* log has a module of its own.                                            *)
(***************************************************************************)
EXTENDS Handlers

CONSTANTS
  Datum,  \* rows of the class that the jobs are about
  Job

\* DeletionJob; its candidates are what the digest of the preview is over.
DeletionJob ==
  [status : {"PREVIEWED", "APPROVED", "RUNNING", "FAILED", "COMPLETED"}, approved : BOOLEAN,
   candidates : SUBSET Datum, attempts : Nat, count : Nat]

ASSUME DeletionAssumption == IsFiniteSet(Datum) /\ None \notin DeletionJob

VARIABLES
  data,      \* Datum: [row, object, old]: the row, its object, archived before the cutoff
  held,      \* data that an active LegalHold covers
  job,       \* DeletionJob: [status, approved, candidates, attempts, count], None
  oneByOne,  \* the class is ATTACHMENTS
  gone,      \* history: what the executions of a job have removed
  shielded,  \* history: held since before any execution at work had looked
  touched    \* history: held or restored some time

deletionVars == <<data, held, job, oneByOne, gone, shielded, touched>>

DeletionInit ==
  /\ data = [d \in Datum |-> [row |-> TRUE, object |-> TRUE, old |-> TRUE]]
  /\ held = {}
  /\ job = [j \in Job |-> None]
  /\ oneByOne \in BOOLEAN
  /\ gone = [j \in Job |-> {}]
  /\ shielded = {}
  /\ touched = {}

---------------------------------------------------------------------------
(* Holds, and the archive.                                                 *)

\* What the executions at work go on to delete.
Condemned == UNION {at[h].ids : h \in {g \in Handler : at[g].op = "delete"}}

PlaceHold(d) ==
  /\ InOneStep /\ d \notin held /\ data[d].row
  /\ held' = held \cup {d}
  /\ shielded' = IF d \in Condemned THEN shielded ELSE shielded \cup {d}
  /\ touched' = touched \cup {d}
  /\ UNCHANGED <<data, job, oneByOne, gone>>

ReleaseHold(d) ==
  /\ InOneStep /\ d \in held
  /\ held' = held \ {d}
  /\ shielded' = shielded \ {d}
  /\ UNCHANGED <<data, job, oneByOne, gone, touched>>

\* A restored issue that is archived again is no longer older than the cutoff.
RestoreDatum(d) ==
  /\ InOneStep /\ data[d].row /\ data[d].old
  /\ data' = [data EXCEPT ![d].old = FALSE]
  /\ touched' = touched \cup {d}
  /\ UNCHANGED <<held, job, oneByOne, gone, shielded>>

---------------------------------------------------------------------------
(* The job.  Candidates are read first, then the holds that they are under.*)

Discovered == {d \in Datum : data[d].row /\ data[d].old}
NotHeld(found) == found \ held

BeginPreview(h, j) ==
  /\ job[j] = None /\ \A g \in Handler : Busy(g, "preview") => at[g].job # j
  /\ Enter(h, [op |-> "preview", job |-> j, found |-> Discovered])
  /\ UNCHANGED deletionVars

Preview(h) ==
  /\ Busy(h, "preview") /\ job[at[h].job] = None
  /\ job' = [job EXCEPT ![at[h].job] =
       [status |-> "PREVIEWED", approved |-> FALSE, candidates |-> NotHeld(at[h].found), attempts |-> 0, count |-> 0]]
  /\ Leave(h)
  /\ UNCHANGED <<data, held, oneByOne, gone, shielded, touched>>

\* The status is tested on the row that was read, the digest never changes.
BeginApprove(h, j) ==
  /\ job[j] # None /\ job[j].status = "PREVIEWED"
  /\ Enter(h, [op |-> "approve", job |-> j])
  /\ UNCHANGED deletionVars

Approve(h) ==
  /\ Busy(h, "approve")
  /\ job' = [job EXCEPT ![at[h].job].status = "APPROVED", ![at[h].job].approved = TRUE]
  /\ Leave(h)
  /\ UNCHANGED <<data, held, oneByOne, gone, shielded, touched>>

Executable(j) == job[j] # None /\ job[j].approved /\ job[j].status \in {"APPROVED", "RUNNING", "FAILED"}

BeginExecute(h, j) ==
  /\ Executable(j)
  /\ Enter(h, [op |-> "execute", job |-> j, found |-> Discovered])
  /\ UNCHANGED deletionVars

\* The holds of the preview are good enough.
Previewed(j, found) == found \cap job[j].candidates
Deletable(j, found) == NotHeld(found) \cap job[j].candidates

Execute(h) == LET j == at[h].job IN
  /\ Busy(h, "execute")
  /\ job' = [job EXCEPT ![j].status = "RUNNING", ![j].attempts = @ + 1]
  /\ Proceed(h, [op |-> "delete", job |-> j, ids |-> Deletable(j, at[h].found), emptied |-> {}, count |-> 0])
  /\ UNCHANGED <<data, held, oneByOne, gone, shielded, touched>>

\* A row that another execution has removed is not counted.
RemoveRows(h, rows, left) ==
  LET there == {d \in rows : data[d].row} IN
  /\ data' = [d \in Datum |-> IF d \in there THEN [data[d] EXCEPT !.row = FALSE] ELSE data[d]]
  /\ gone' = [gone EXCEPT ![at[h].job] = @ \cup there]
  /\ Proceed(h, [at[h] EXCEPT !.ids = left, !.emptied = {}, !.count = @ + Cardinality(there)])
  /\ UNCHANGED <<held, job, oneByOne, shielded, touched>>

DeleteRows(h) ==
  /\ Busy(h, "delete") /\ ~oneByOne /\ at[h].ids # {}
  /\ RemoveRows(h, at[h].ids, {})

\* The storage answers nothing when it could not remove the object.
DeleteObject(h, d) ==
  /\ Busy(h, "delete") /\ oneByOne /\ at[h].emptied = {} /\ d \in at[h].ids
  /\ \E removed \in BOOLEAN : data' = [data EXCEPT ![d].object = @ /\ ~removed]
  /\ Proceed(h, [at[h] EXCEPT !.emptied = {d}])
  /\ UNCHANGED <<held, job, oneByOne, gone, shielded, touched>>

DeleteRow(h) ==
  /\ Busy(h, "delete") /\ oneByOne /\ at[h].emptied # {}
  /\ RemoveRows(h, at[h].emptied, at[h].ids \ at[h].emptied)

CompleteJob(h) ==
  /\ Busy(h, "delete") /\ at[h].ids = {}
  /\ job' = [job EXCEPT ![at[h].job].status = "COMPLETED", ![at[h].job].count = at[h].count]
  /\ Leave(h)
  /\ UNCHANGED <<data, held, oneByOne, gone, shielded, touched>>

\* A statement fails; the failure is recorded, or nobody is left to record it.
Fail(h) ==
  /\ Busy(h, "delete")
  /\ job' \in {job, [job EXCEPT ![at[h].job].status = "FAILED"]}
  /\ Leave(h)
  /\ UNCHANGED <<data, held, oneByOne, gone, shielded, touched>>

DeletionNext ==
  \/ \E d \in Datum : PlaceHold(d) \/ ReleaseHold(d) \/ RestoreDatum(d)
  \/ \E h \in Handler :
       \/ \E j \in Job : BeginPreview(h, j) \/ BeginApprove(h, j) \/ BeginExecute(h, j)
       \/ Preview(h) \/ Approve(h) \/ Execute(h) \/ DeleteRows(h) \/ DeleteRow(h)
       \/ \E d \in Datum : DeleteObject(h, d)
       \/ CompleteJob(h) \/ Fail(h)

---------------------------------------------------------------------------
(* Whatever is executed, twice or again after a failure: data stays while  *)
(* it is under a hold that was there before an execution at work had asked *)
(* for the holds; what goes was in the preview; a completed job that was   *)
(* executed once tells exactly what is gone; and a row without its object  *)
(* is one that a job is still to remove, or that was held or restored      *)
(* between its two statements.                                             *)
DeletionGoverned ==
  /\ \A d \in shielded : data[d].row
  /\ \A j \in Job : gone[j] # {} => job[j].approved /\ gone[j] \subseteq job[j].candidates
  /\ \A j \in Job : job[j] # None /\ job[j].status = "COMPLETED" =>
       IF job[j].attempts = 1 THEN job[j].count = Cardinality(gone[j])
                              ELSE job[j].count <= Cardinality(gone[j])
  /\ \A d \in Datum : data[d].row /\ ~data[d].object =>
       d \in touched \/ \E j \in Job : job[j] # None /\ d \in job[j].candidates /\ job[j].status # "COMPLETED"
=============================================================================
