----------------------------- MODULE Automation -----------------------------
(***************************************************************************)
(* An automation rule: an event makes a job of it, and a worker runs the   *)
(* actions of a job one after the other, each in a statement of its own,   *)
(* before it records the execution.  What was interrupted is run again     *)
(* from the first action.  A handler is a worker.                          *)
(***************************************************************************)
EXTENDS Handlers

CONSTANTS
  Occasion,  \* the events, by eventId; the rule has at most one job for each
  MaxTries   \* AUTOMATION_MAX_ATTEMPTS, 8 in the code

\* The actions of the rule, and the ways in which they repeat.
Steps == <<"COMMENT", "SET_PRIORITY", "ADD_LABEL">>

\* AutomationJob; whether its event meets the conditions is in its payload.
AutomationJob ==
  [status : {"PENDING", "PROCESSING", "DELIVERED", "DEAD"}, attempts : Nat, matches : BOOLEAN]

ASSUME AutomationAssumption == IsFiniteSet(Handler) /\ None \notin AutomationJob

VARIABLES
  rule,       \* AutomationRule: [enabled, permitted: the actions that it may take]
  task,       \* the AutomationJob of each event, or None
  execution,  \* events whose execution was recorded
  remarks,    \* ids of the comments the rule has written: pairs of a job and an action
  settings,   \* history: how often a job has set the priority
  redone,     \* history: jobs that set it although their execution was recorded
  disrupted   \* history: jobs that were taken from a worker at work, or whose end was not heard

automationVars == <<rule, task, execution, remarks, settings, redone, disrupted>>

AutomationInit ==
  /\ rule \in [enabled : {TRUE}, permitted : {{"COMMENT", "SET_PRIORITY", "ADD_LABEL"},
                                              {"COMMENT", "SET_PRIORITY"}}]
  /\ task = [e \in Occasion |-> None]
  /\ execution = {} /\ remarks = {} /\ redone = {} /\ disrupted = {}
  /\ settings = [e \in Occasion |-> 0]

\* enqueueAutomation: an event that comes again makes no second job.
EnqueueJob(e) ==
  /\ InOneStep /\ rule.enabled
  /\ task[e] = None
  /\ \E matches \in BOOLEAN :
       task' = [task EXCEPT ![e] = [status |-> "PENDING", attempts |-> 0, matches |-> matches]]
  /\ UNCHANGED <<rule, execution, remarks, settings, redone, disrupted>>

\* Nothing but enabled can be changed.
SwitchRule ==
  /\ InOneStep
  /\ rule' = [rule EXCEPT !.enabled = ~@]
  /\ UNCHANGED <<task, execution, remarks, settings, redone, disrupted>>

---------------------------------------------------------------------------
(* A worker.  Waiting times are left out: what is due is due at any time.  *)

AtWork(e) == \E h \in Handler : at[h].op \in {"run", "failing"} /\ at[h].task = e

\* Whatever has become of it.
EveryTask(e) == task[e] # None

\* A lock of ten minutes does not say whether its worker lives.
DueTask(e) == task[e] # None /\ task[e].status \in {"PENDING", "PROCESSING"}

ClaimTask(h, e) ==
  /\ DueTask(e)
  /\ Enter(h, [op |-> "run", task |-> e, next |-> 0, attempt |-> task[e].attempts + 1])
  /\ task' = [task EXCEPT ![e].status = "PROCESSING", ![e].attempts = @ + 1]
  /\ disrupted' = IF AtWork(e) THEN disrupted \cup {e} ELSE disrupted
  /\ UNCHANGED <<rule, execution, remarks, settings, redone>>

\* The rule is looked up once; nothing is run for an event that it does not match.
StartTask(h) ==
  /\ Busy(h, "run") /\ at[h].next = 0
  /\ rule.enabled
  /\ Proceed(h, [at[h] EXCEPT !.next = IF task[at[h].task].matches THEN 1 ELSE Len(Steps) + 1])
  /\ UNCHANGED automationVars

\* A comment is known by its job and action, a label by its name: they are there once.
Act(h) == LET e == at[h].task  action == Steps[at[h].next] IN
  /\ Busy(h, "run") /\ at[h].next \in DOMAIN Steps
  /\ action \in rule.permitted
  /\ remarks' = IF action = "COMMENT" THEN remarks \cup {<<e, at[h].next>>} ELSE remarks
  /\ settings' = IF action = "SET_PRIORITY" THEN [settings EXCEPT ![e] = @ + 1] ELSE settings
  /\ redone' = IF action = "SET_PRIORITY" /\ e \in execution THEN redone \cup {e} ELSE redone
  /\ Proceed(h, [at[h] EXCEPT !.next = @ + 1])
  /\ UNCHANGED <<rule, task, execution, disrupted>>

\* Execution, event and status in one transaction: an execution that is there forbids it.
Unrecorded(e) == e \notin execution

FinishTask(h) == LET e == at[h].task IN
  /\ Busy(h, "run") /\ at[h].next > Len(Steps)
  /\ Unrecorded(e)
  /\ execution' = execution \cup {e}
  /\ task' = [task EXCEPT ![e].status = "DELIVERED"]
  /\ \/ Leave(h) /\ UNCHANGED disrupted
     \/ Proceed(h, [at[h] EXCEPT !.op = "failing"]) /\ disrupted' = disrupted \cup {e}
  /\ UNCHANGED <<rule, remarks, settings, redone>>

\* The rule is disabled, an action is not permitted, a statement fails.
Throw(h) ==
  /\ Busy(h, "run")
  /\ Proceed(h, [at[h] EXCEPT !.op = "failing"])
  /\ UNCHANGED automationVars

\* By the id of the job alone, whatever has become of it.
FailTask(h) ==
  /\ Busy(h, "failing")
  /\ task' = [task EXCEPT ![at[h].task].status = IF at[h].attempt >= MaxTries THEN "DEAD" ELSE "PENDING"]
  /\ Leave(h)
  /\ UNCHANGED <<rule, execution, remarks, settings, redone, disrupted>>

WorkerStops(h) ==
  /\ at[h].op \in {"run", "failing"}
  /\ Leave(h)
  /\ UNCHANGED automationVars

AutomationNext ==
  \/ SwitchRule
  \/ \E e \in Occasion : EnqueueJob(e)
  \/ \E h \in Handler :
       \/ \E e \in Occasion : ClaimTask(h, e)
       \/ StartTask(h) \/ Act(h) \/ FinishTask(h) \/ Throw(h) \/ FailTask(h) \/ WorkerStops(h)

---------------------------------------------------------------------------
(* A job that is settled has an execution; one whose event matches has     *)
(* then run every action, and may run every one, and has one comment,      *)
(* however often it was run; the priority is set at most once per attempt. *)
(* Once its execution is recorded a job stays settled and sets nothing any *)
(* more, unless it was taken from a worker that lived or the answer to the *)
(* last transaction was lost: then it is run again, and ends up dead.      *)
AutomationTells ==
  \A e \in Occasion : task[e] # None =>
    /\ task[e].status = "DELIVERED" => e \in execution
    /\ e \in execution /\ task[e].matches => {Steps[i] : i \in DOMAIN Steps} \subseteq rule.permitted
    /\ settings[e] <= IF task[e].matches THEN task[e].attempts ELSE 0
    /\ e \in execution /\ task[e].matches => Cardinality({c \in remarks : c[1] = e}) = 1
    /\ e \notin disrupted /\ e \in execution => task[e].status = "DELIVERED" /\ e \notin redone
=============================================================================
