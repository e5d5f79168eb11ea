------------------------------ MODULE Sprints ------------------------------
(***************************************************************************)
(* The sprints of a project: planned, started and completed by handlers    *)
(* that compare the sprint's version when they read it and write against   *)
(* it later; the issues placed in them; and the report that a completion   *)
(* leaves.  Positions are not modelled, only the versions that a change of *)
(* order advances.                                                         *)
(***************************************************************************)
EXTENDS Handlers

CONSTANTS
  Sprint,
  Task  \* issues of the project

ASSUME SprintsAssumption == IsFiniteSet(Task)

VARIABLES
  sprint,  \* Sprint: [state, version]
  placed,  \* SprintIssue: <<sprint, issue>>
  done,    \* issues whose status is of the category DONE
  report,  \* SprintSnapshotIssue of the sprint: [issue, completed]
  totals   \* totalIssueCount and completedIssueCount of the sprint: [all, completed]

sprintVars == <<sprint, placed, done, report, totals>>

SprintsInit ==
  /\ sprint \in [Sprint -> [state : {"none", "PLANNED"}, version : {1}]]
  /\ placed = {} /\ done = {}
  /\ report = [s \in Sprint |-> {}]
  /\ totals = [s \in Sprint |-> [all |-> 0, completed |-> 0]]

Exists(s) == sprint[s].state \notin {"none", "DELETED"}
OpenSprints == {s \in Sprint : sprint[s].state \in {"PLANNED", "ACTIVE"}}
TasksOf(s) == {t \in Task : <<s, t>> \in placed}

---------------------------------------------------------------------------
CreateSprint(s) ==
  /\ InOneStep
  /\ sprint[s].state = "none"
  /\ sprint' = [sprint EXCEPT ![s].state = "PLANNED"]
  /\ UNCHANGED <<placed, done, report, totals>>

\* managed() reads the sprint; the version in the body is the one it has now, and
\* completed sprints are immutable.
Manage(h, s, states, next) ==
  /\ sprint[s].state \in states
  /\ Enter(h, next)
  /\ UNCHANGED sprintVars

\* The transaction of an "add" that has not committed holds the sprint's row.
Locked(s) == \E h \in Handler : Busy(h, "place") /\ at[h].sprint = s

\* The write checks only that the sprint is there.
Present(s, read) == Exists(s) /\ ~Locked(s)

\* Guard of every write: WHERE version = the one that was read.
Fresh(s, read) == Exists(s) /\ ~Locked(s) /\ sprint[s].version = read.version

Stale(h) ==
  /\ at[h].op \in {"edit", "move", "start", "complete", "add", "remove"}
  /\ ~Locked(at[h].sprint) /\ ~Fresh(at[h].sprint, at[h].read)
  /\ Leave(h)
  /\ UNCHANGED sprintVars

Advanced(s, state) == [state |-> state, version |-> sprint[s].version + 1]

\* Edits of the details, and of the order of the issues in the sprint.
BeginEditSprint(h, s) == Manage(h, s, {"PLANNED", "ACTIVE"}, [op |-> "edit", sprint |-> s, read |-> sprint[s]])

EditSprint(h) == LET s == at[h].sprint IN
  /\ Busy(h, "edit") /\ Fresh(s, at[h].read)
  /\ sprint' = [sprint EXCEPT ![s] = Advanced(s, sprint[s].state)]
  /\ Leave(h)
  /\ UNCHANGED <<placed, done, report, totals>>

BeginMoveSprint(h, s) ==
  \E neighbor \in Sprint \ {s} :
    /\ sprint[neighbor].state = "PLANNED"
    /\ Manage(h, s, {"PLANNED"}, [op |-> "move", sprint |-> s, read |-> sprint[s], neighbor |-> neighbor])

\* Only the sprint itself is guarded; the neighbour has to be there.
MoveSprint(h) == LET s == at[h].sprint  neighbor == at[h].neighbor IN
  /\ Busy(h, "move") /\ Fresh(s, at[h].read) /\ Exists(neighbor) /\ ~Locked(neighbor)
  /\ sprint' = [sprint EXCEPT ![s] = Advanced(s, sprint[s].state),
                              ![neighbor] = Advanced(neighbor, sprint[neighbor].state)]
  /\ Leave(h)
  /\ UNCHANGED <<placed, done, report, totals>>

\* A sprint is deleted that was planned and empty when it was read.  The rows that
\* belong to it go with it.
BeginDeleteSprint(h, s) ==
  TasksOf(s) = {} /\ Manage(h, s, {"PLANNED"}, [op |-> "delete", sprint |-> s, read |-> sprint[s]])

DeleteSprint(h) == LET s == at[h].sprint IN
  /\ Busy(h, "delete") /\ Exists(s) /\ ~Locked(s)
  /\ sprint' = [sprint EXCEPT ![s].state = "DELETED"]
  /\ placed' = {row \in placed : row[1] # s}
  /\ report' = [report EXCEPT ![s] = {}]
  /\ totals' = [totals EXCEPT ![s] = [all |-> 0, completed |-> 0]]
  /\ Leave(h)
  /\ UNCHANGED done

BeginStart(h, s) == Manage(h, s, {"PLANNED"}, [op |-> "start", sprint |-> s, read |-> sprint[s]])

\* One active sprint: a unique index of the database.
NoneActive == \A s \in Sprint : sprint[s].state # "ACTIVE"

StartSprint(h) == LET s == at[h].sprint IN
  /\ Busy(h, "start") /\ Fresh(s, at[h].read) /\ NoneActive
  /\ sprint' = [sprint EXCEPT ![s] = Advanced(s, "ACTIVE")]
  /\ Leave(h)
  /\ UNCHANGED <<placed, done, report, totals>>

---------------------------------------------------------------------------
(* Completion.  The destination, the rows and which of them are done are   *)
(* read before the transaction.                                            *)

BeginComplete(h, s) ==
  \E destination \in {"backlog"} \cup {d \in Sprint : sprint[d].state = "PLANNED"} :
    Manage(h, s, {"ACTIVE"}, [op |-> "complete", sprint |-> s, read |-> sprint[s], destination |-> destination,
                              rows |-> TasksOf(s), done |-> TasksOf(s) \cap done])

\* Unfinished rows are moved one by one: each has to be there still, and not in the
\* destination already.
CanMove(s, unfinished, destination) ==
  destination # "backlog" =>
    /\ Exists(destination) \/ unfinished = {}
    /\ unfinished \subseteq TasksOf(s)
    /\ unfinished \cap TasksOf(destination) = {}

Reported(rows, finished) == {[issue |-> t, completed |-> t \in finished] : t \in rows}

\* The primary key of the report: one row for an issue of the sprint.
NotReported(s, rows) == {entry.issue : entry \in report[s]} \cap rows = {}

Complete(h) ==
  LET s == at[h].sprint  destination == at[h].destination
      unfinished == at[h].rows \ at[h].done IN
  /\ Busy(h, "complete") /\ Fresh(s, at[h].read)
  /\ CanMove(s, unfinished, destination) /\ NotReported(s, at[h].rows)
  /\ report' = [report EXCEPT ![s] = @ \cup Reported(at[h].rows, at[h].done)]
  /\ totals' = [totals EXCEPT ![s] = [all |-> Cardinality(at[h].rows), completed |-> Cardinality(at[h].done)]]
  /\ placed' = (placed \ ({s} \X unfinished))
                 \cup (IF destination = "backlog" THEN {} ELSE {destination} \X unfinished)
  /\ sprint' = [sprint EXCEPT ![s] = Advanced(s, "COMPLETED")]
  /\ Leave(h)
  /\ UNCHANGED done

\* The other reasons for which a write fails.
Conflict(h) == LET s == at[h].sprint IN
  /\ \/ Busy(h, "start") /\ ~NoneActive
     \/ Busy(h, "move") /\ ~Exists(at[h].neighbor)
     \/ /\ Busy(h, "complete")
        /\ ~(CanMove(s, at[h].rows \ at[h].done, at[h].destination) /\ NotReported(s, at[h].rows))
     \/ Busy(h, "delete") /\ ~Exists(s)
  /\ Leave(h)
  /\ UNCHANGED sprintVars

---------------------------------------------------------------------------
(* Placing issues.  An issue that is added leaves the open sprints that    *)
(* the transaction sees it in, under the lock of the one it is added to.   *)

BeginPlace(h, s, t) ==
  \E op \in {"add", "remove"} :
    Manage(h, s, {"PLANNED", "ACTIVE"}, [op |-> op, sprint |-> s, read |-> sprint[s], issue |-> t])

Withdraw(h) == LET s == at[h].sprint IN
  /\ Busy(h, "add") /\ Fresh(s, at[h].read)
  /\ Proceed(h, [op |-> "place", sprint |-> s, read |-> at[h].read, issue |-> at[h].issue,
                 from |-> {row \in placed : row[2] = at[h].issue /\ row[1] \in OpenSprints}])
  /\ UNCHANGED sprintVars

Place(h) == LET s == at[h].sprint IN
  /\ Busy(h, "place")
  /\ placed' = (placed \ at[h].from) \cup {<<s, at[h].issue>>}
  /\ sprint' = [sprint EXCEPT ![s] = Advanced(s, sprint[s].state)]
  /\ Leave(h)
  /\ UNCHANGED <<done, report, totals>>

Remove(h) == LET s == at[h].sprint IN
  /\ Busy(h, "remove") /\ Fresh(s, at[h].read)
  /\ placed' = placed \ {<<s, at[h].issue>>}
  /\ sprint' = [sprint EXCEPT ![s] = Advanced(s, sprint[s].state)]
  /\ Leave(h)
  /\ UNCHANGED <<done, report, totals>>

\* External to this module: work is finished, or taken up again.
WorkOn(t) ==
  /\ InOneStep
  /\ done' = IF t \in done THEN done \ {t} ELSE done \cup {t}
  /\ UNCHANGED <<sprint, placed, report, totals>>

SprintsNext ==
  \/ \E s \in Sprint : CreateSprint(s)
  \/ \E t \in Task : WorkOn(t)
  \/ \E h \in Handler :
       \/ \E s \in Sprint :
            \/ BeginEditSprint(h, s) \/ BeginMoveSprint(h, s) \/ BeginDeleteSprint(h, s)
            \/ BeginStart(h, s) \/ BeginComplete(h, s)
            \/ \E t \in Task : BeginPlace(h, s, t)
       \/ EditSprint(h) \/ MoveSprint(h) \/ DeleteSprint(h) \/ StartSprint(h) \/ Complete(h)
       \/ Withdraw(h) \/ Place(h) \/ Remove(h)
       \/ Stale(h) \/ Conflict(h)

---------------------------------------------------------------------------
(* A sprint is completed at most once, whoever completes, fills and        *)
(* reorders it at the same time: the totals are those of its report, no    *)
(* other sprint has one, and there is at most one active sprint.           *)
CompletedOnce ==
  /\ \A s \in Sprint :
       /\ sprint[s].state # "COMPLETED" => report[s] = {}
       /\ totals[s] = [all |-> Cardinality(report[s]),
                       completed |-> Cardinality({entry \in report[s] : entry.completed})]
  /\ Cardinality({s \in Sprint : sprint[s].state = "ACTIVE"}) <= 1
=============================================================================
