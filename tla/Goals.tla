------------------------------- MODULE Goals --------------------------------
(***************************************************************************)
(* Organizational goals: their edits, check-ins and archival, which go by  *)
(* the version their sender has read, and their place in a hierarchy.      *)
(* Everybody may see and manage every goal; the work that is linked to a   *)
(* goal and the progress derived from it are not modelled.                 *)
(***************************************************************************)
EXTENDS Handlers

CONSTANTS
  Aim,      \* goals
  MaxDepth, \* bound on the ancestors that are walked (a hundred in the code)
  Measure   \* values of currentValue

GoalRow == [parent : Aim \cup {None}, version : Nat, value : Measure, archived : BOOLEAN]

ASSUME GoalsAssumption == None \notin Aim \cup GoalRow

VARIABLES
  goal,     \* Goal: the GoalRow of each, or None
  checkIn,  \* GoalUpdate: [goal, version, value]
  edits,    \* history: versions that edits and archivals made: <<goal, version>>
  twisted   \* history: two changes of a parent met

goalVars == <<goal, checkIn, edits, twisted>>

GoalsInit ==
  /\ goal = [a \in Aim |-> None]
  /\ checkIn = {} /\ edits = {} /\ twisted = FALSE

VisibleGoal(a) == goal[a] # None /\ ~goal[a].archived

\* Creation writes the first check-in; the parent is one the creator sees.
CreateGoal(a, parent, value) ==
  /\ InOneStep
  /\ goal[a] = None /\ parent \in {None} \cup {b \in Aim : VisibleGoal(b)}
  /\ goal' = [goal EXCEPT ![a] = [parent |-> parent, version |-> 1, value |-> value, archived |-> FALSE]]
  /\ checkIn' = checkIn \cup {[goal |-> a, version |-> 1, value |-> value]}
  /\ UNCHANGED <<edits, twisted>>

\* Each handler reads the goal, whose version must be the one in the body.
BeginOnGoal(h, a, next) ==
  /\ VisibleGoal(a)
  /\ Enter(h, next)

---------------------------------------------------------------------------
(* Edits. *)

BeginEditGoal(h, a, parent, value) ==
  /\ BeginOnGoal(h, a, [op |-> "walk", goal |-> a, read |-> goal[a].version, parent |-> parent,
                        cursor |-> parent, seen |-> {a}, value |-> value])
  /\ twisted' = (twisted \/ \E g \in Handler : Busy(g, "walk") \/ Busy(g, "edit"))
  /\ UNCHANGED <<goal, checkIn, edits>>

\* validateGoalParent, an ancestor at a time.
WalkUp(h) ==
  LET r == at[h]
      c == r.cursor
      refused == c \in r.seen \/ Cardinality(r.seen) > MaxDepth \/ ~VisibleGoal(c)
  IN
  /\ Busy(h, "walk")
  /\ IF c = None THEN Proceed(h, [r EXCEPT !.op = "edit"])
     ELSE IF refused THEN Leave(h)
     ELSE Proceed(h, [r EXCEPT !.cursor = goal[c].parent, !.seen = @ \cup {c}])
  /\ UNCHANGED goalVars

\* Guard of edits and check-ins: WHERE version = the one that was read.
SameEdition(r) == goal[r.goal].version = r.read

\* version: { increment: 1 }, as every write of a goal has it.
Renewed(a) == [goal[a] EXCEPT !.version = @ + 1]

EditGoal(h) ==
  LET r == at[h] IN
  /\ Busy(h, "edit")
  /\ \/ /\ SameEdition(r)
        /\ goal' = [goal EXCEPT ![r.goal] = [Renewed(r.goal) EXCEPT !.parent = r.parent, !.value = r.value]]
        /\ edits' = edits \cup {<<r.goal, goal'[r.goal].version>>}
     \/ ~SameEdition(r) /\ UNCHANGED <<goal, edits>>
  /\ Leave(h)
  /\ UNCHANGED <<checkIn, twisted>>

---------------------------------------------------------------------------
(* Check-ins and archival. *)

BeginCheckIn(h, a, value) ==
  /\ BeginOnGoal(h, a, [op |-> "check in", goal |-> a, read |-> goal[a].version, value |-> value])
  /\ UNCHANGED goalVars

\* The row of the check-in has the version after the one that was read, unique per goal.
CheckIn(h) ==
  LET r == at[h]
      row == [goal |-> r.goal, version |-> r.read + 1, value |-> r.value]
      taken == \E c \in checkIn : c.goal = r.goal /\ c.version = row.version
  IN
  /\ Busy(h, "check in")
  /\ \/ /\ SameEdition(r) /\ ~taken
        /\ goal' = [goal EXCEPT ![r.goal] = [Renewed(r.goal) EXCEPT !.value = r.value]]
        /\ checkIn' = checkIn \cup {row}
     \/ /\ ~SameEdition(r) \/ taken
        /\ UNCHANGED <<goal, checkIn>>
  /\ Leave(h)
  /\ UNCHANGED <<edits, twisted>>

BeginArchiveGoal(h, a) ==
  /\ BeginOnGoal(h, a, [op |-> "archive", goal |-> a, read |-> goal[a].version])
  /\ UNCHANGED goalVars

\* The update goes by the id alone.
ArchiveGoal(h) ==
  LET a == at[h].goal IN
  /\ Busy(h, "archive")
  /\ goal' = [goal EXCEPT ![a] = [Renewed(a) EXCEPT !.archived = TRUE]]
  /\ edits' = edits \cup {<<a, goal'[a].version>>}
  /\ Leave(h)
  /\ UNCHANGED <<checkIn, twisted>>

GoalsNext ==
  \/ \E a \in Aim, parent \in Aim \cup {None}, value \in Measure : CreateGoal(a, parent, value)
  \/ \E h \in Handler, a \in Aim, parent \in Aim \cup {None}, value \in Measure : BeginEditGoal(h, a, parent, value)
  \/ \E h \in Handler, a \in Aim, value \in Measure : BeginCheckIn(h, a, value)
  \/ \E h \in Handler, a \in Aim : BeginArchiveGoal(h, a)
  \/ \E h \in Handler : WalkUp(h) \/ EditGoal(h) \/ CheckIn(h) \/ ArchiveGoal(h)

---------------------------------------------------------------------------
VersionsOf(a) == {c.version : c \in {d \in checkIn : d.goal = a}} \cup {e[2] : e \in {f \in edits : f[1] = a}}

\* The history of a goal has no gap and no fork: every version up to the present one was
\* made by one check-in, edit or archival that had seen the one before; the value is that
\* of the last check-in unless an edit came later.
HistoryKept ==
  \A a \in Aim : goal[a] # None =>
    /\ VersionsOf(a) = 1 .. goal[a].version
    /\ \A c \in checkIn : c.goal = a =>
         <<a, c.version>> \notin edits /\ (c.version = goal[a].version => c.value = goal[a].value)

\* No goal is among its own ancestors, however far up: there are no goals that each have
\* their parent among them.
NoCircle ==
  \A S \in SUBSET Aim : S # {} => \E a \in S : goal[a] = None \/ goal[a].parent \notin S

\* The history of goals is kept, and their hierarchy is one unless two changes of a parent
\* met (validateGoalParent in src/lib/goals.ts walks before the update).
GoalsKept == HistoryKept /\ (twisted \/ NoCircle)
=============================================================================
