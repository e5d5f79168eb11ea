----------------------------- MODULE PlanReport -----------------------------
(***************************************************************************)
(* The health report of a portfolio plan: a handler reads the plan's       *)
(* issues page by page, each page with a query of its own, while the       *)
(* issues change, and computes progress, schedule and forecast from what   *)
(* the pages held.  The report counts overdue issues against the day       *)
(* calculatePortfolioHealth is called with, which is always the same.      *)
(***************************************************************************)
EXTENDS Handlers

CONSTANTS
  Pieces,   \* issues, numbered in id order
  MaxPages, \* pages of one issue each that a report reads (fifty in the code)
  Cohort,   \* fewest issues that a shared plan is reported for (five)
  Points,   \* the estimate that every issue has
  Today     \* the day the report takes for today

ASSUME ReportAssumption ==
  /\ Pieces \in Nat /\ MaxPages \in Nat \ {0} /\ Cohort \in Nat /\ Points \in Nat
  /\ Today \in Int /\ None \notin Int

Piece == 1 .. Pieces

VARIABLES
  shared,  \* whether the plan is shared
  work,    \* Issue: [due, state], the state "open", "done" or "archived"
  latest   \* the answer to the last report, with what held then: [health, truth, rest], or None

reportVars == <<shared, work, latest>>

\* Dates are days, Today the first that is not overdue.
Due == {Today - 1, Today, None}

PieceRow == [due : Due, state : {"open", "done", "archived"}]

ReportInit ==
  /\ shared \in BOOLEAN
  /\ work \in [Piece -> [due : Due, state : {"open"}]]
  /\ latest = None

---------------------------------------------------------------------------
(* planItems *)

PlanItems == {i \in Piece : work[i].state # "archived"}

\* By due date, those without one last, then by id.
Before(i, j) ==
  LET a == work[i].due
      b == work[j].due
  IN  \/ a # None /\ (b = None \/ a < b)
      \/ a = b /\ i < j

Preceding(i) == Cardinality({j \in PlanItems : Before(j, i)})

Page(n) == {i \in PlanItems : Preceding(i) = n - 1}

---------------------------------------------------------------------------
(* calculatePortfolioHealth: the items are records, as they were read. *)

Ceiling(n, d) == (n + d - 1) \div d

Health(items, total) ==
  LET open        == {k \in DOMAIN items : items[k].state # "done"}
      remaining   == Cardinality(open)
      overdue     == Cardinality({k \in open : items[k].due # None /\ items[k].due < Today})
      unscheduled == Cardinality({k \in open : items[k].due = None})
      points      == Points * remaining
  IN  [total |-> total, bounded |-> total > Len(items), completed |-> Len(items) - remaining,
       remaining |-> remaining, overdue |-> overdue, unscheduled |-> unscheduled,
       confidence |-> IF items = <<>> \/ 4 * unscheduled > remaining THEN "LOW"
                      ELSE IF 5 * overdue > remaining THEN "MEDIUM" ELSE "HIGH",
       lowDays |-> Ceiling(points, 8), highDays |-> Ceiling(points, 3) + 2 * unscheduled]

\* An aggregate of a few issues of a shared plan says nothing but how many they are.
Suppressed(total) == shared /\ 0 < total /\ total < Cohort

Withheld(health) ==
  [health EXCEPT !.completed = 0, !.remaining = 0, !.overdue = 0, !.unscheduled = 0,
                 !.confidence = "LOW", !.lowDays = 0, !.highDays = 0]

---------------------------------------------------------------------------
(* The handler. *)

\* The plan's issues are counted with the first page; the count decides how many pages
\* are read.
BeginReport(h) ==
  /\ Enter(h, [op |-> "report", total |-> Cardinality(PlanItems), page |-> 1, items |-> <<>>, rest |-> TRUE])
  /\ UNCHANGED reportVars

LastPage(total) == IF total = 0 THEN 1 ELSE IF total < MaxPages THEN total ELSE MaxPages

ReadPage(h) ==
  LET r == at[h]
      found == Page(r.page)
  IN
  /\ Busy(h, "report") /\ r.page <= LastPage(r.total)
  /\ Proceed(h, [r EXCEPT !.page = @ + 1,
                          !.items = IF found = {} THEN @ ELSE Append(@, work[CHOOSE i \in found : TRUE])])
  /\ UNCHANGED reportVars

\* What the report is to say: of the first issues of the plan, as they are now.
Truth ==
  LET first == {i \in PlanItems : Preceding(i) < MaxPages}
      open  == {i \in first : work[i].state = "open"}
  IN  [completed |-> Cardinality(first \ open), remaining |-> Cardinality(open),
       overdue |-> Cardinality({i \in open : work[i].due = Today - 1}),
       unscheduled |-> Cardinality({i \in open : work[i].due = None}),
       bounded |-> first # PlanItems]

Answer(h) ==
  LET r == at[h]
      health == Health(r.items, r.total)
  IN
  /\ Busy(h, "report") /\ r.page > LastPage(r.total)
  /\ latest' = [health |-> IF Suppressed(r.total) THEN Withheld(health) ELSE health,
                truth |-> Truth, rest |-> r.rest]
  /\ Leave(h)
  /\ UNCHANGED <<shared, work>>

---------------------------------------------------------------------------
\* Somebody works on an issue, by the handlers of IssueMutation.
PieceChanges(i, piece) ==
  /\ Arrive /\ piece # work[i]
  /\ work' = [work EXCEPT ![i] = piece]
  /\ at' = [h \in Handler |-> IF Busy(h, "report") THEN [at[h] EXCEPT !.rest = FALSE] ELSE at[h]]
  /\ UNCHANGED <<shared, latest>>

ReportNext ==
  \/ \E h \in Handler : BeginReport(h) \/ ReadPage(h) \/ Answer(h)
  \/ \E i \in Piece, state \in {"open", "done", "archived"} : PieceChanges(i, [work[i] EXCEPT !.state = state])
  \/ \E i \in Piece : PieceChanges(i, [work[i] EXCEPT !.due = None])

---------------------------------------------------------------------------
\* The pages of a plan at rest hold each of its first issues once: the report counts what
\* there is and says exactly when it left issues out.  Whatever happens between the pages,
\* its numbers agree with each other, and a small shared plan gives nothing away.
ReportExact ==
  latest # None =>
    LET health == latest.health
        small  == Suppressed(health.total)
    IN
    /\ health.overdue + health.unscheduled <= health.remaining
    /\ health.lowDays <= health.highDays
    /\ small => health.completed + health.remaining + health.highDays = 0
    /\ latest.rest /\ ~small => \A name \in DOMAIN latest.truth : health[name] = latest.truth[name]
=============================================================================
