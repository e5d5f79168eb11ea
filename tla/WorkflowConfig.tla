--------------------------- MODULE WorkflowConfig ---------------------------
(***************************************************************************)
(* The administration of a project's workflow: its statuses in their       *)
(* order, the columns of its board, and the transitions with the versions  *)
(* in which they were published.  A request is one READ COMMITTED          *)
(* transaction: what it reads may change until it writes.  Names, colours, *)
(* limits and the rules of a transition are not modelled, issue types are  *)
(* ordered like statuses, and the issues that a deletion moves to another  *)
(* status belong to IssueMutation.                                         *)
(***************************************************************************)
EXTENDS Handlers

CONSTANT Stages  \* statuses are numbered in the order of their creation

ASSUME StagesAssumption == Stages \in Nat

Stage == 1 .. Stages

VARIABLES
  position,    \* of the rows there are: [status, column] of functions, columns by their status
  retired,     \* deleted statuses
  transition,  \* WorkflowTransition: <<from, to>>
  edition,     \* WorkflowVersion in order of publication: [number, configuration]
  shuffled,    \* history: columns were moved since they last followed the statuses
  calm         \* history: no requests that place rows met, none created after a deletion

workflowVars == <<position, retired, transition, edition, shuffled, calm>>

WorkflowInit ==
  /\ \E n \in {Stages - 1, Stages} :
       LET first == [s \in 1 .. n |-> s - 1] IN position = [status |-> first, column |-> first]
  /\ retired = {} /\ transition = {} /\ edition = <<>>
  /\ shuffled = FALSE /\ calm = TRUE

Standing(k) == DOMAIN position[k]

Without(f, s) == [x \in DOMAIN f \ {s} |-> f[x]]

\* The rows of f, and of writes as they are written.
Updated(f, writes) ==
  [x \in DOMAIN f \cup DOMAIN writes |-> IF x \in DOMAIN writes THEN writes[x] ELSE f[x]]

\* Requests that place rows, which two administrators may send at once.
PlaceRows(h, next) ==
  /\ Enter(h, next)
  /\ calm' = (calm /\ \A g \in Handler : at[g].op \in {"idle", "publish"})
  /\ UNCHANGED <<position, retired, transition, edition, shuffled>>

\* The rows a transaction has updated and not yet committed.
RowsHeld == UNION {DOMAIN at[h].writes : h \in {g \in Handler : Busy(g, "renumber")}}

Fails(h) == Leave(h) /\ UNCHANGED workflowVars

---------------------------------------------------------------------------
(* Positions. *)

\* reorder() reads the row,
BeginMoveRow(h, k, s, up) ==
  /\ s \in Standing(k)
  /\ PlaceRows(h, [op |-> "move", kind |-> k, item |-> s, up |-> up, from |-> position[k][s]])

\* looks for the next one on the side it moves to,
Beyond(k, from, up) ==
  {t \in Standing(k) : IF up THEN position[k][t] < from ELSE position[k][t] > from}

Adjacent(k, from, up) ==
  {t \in Beyond(k, from, up) : \A other \in Beyond(k, from, up) :
     IF up THEN position[k][other] <= position[k][t] ELSE position[k][t] <= position[k][other]}

Exchange(r, t) == [x \in {r.item, t} |-> IF x = r.item THEN position[r.kind][t] ELSE r.from]

FindAdjacent(h) ==
  LET r == at[h]
      near == Adjacent(r.kind, r.from, r.up)
  IN
  /\ Busy(h, "move")
  /\ \/ /\ near = {}
        /\ Proceed(h, [op |-> "swap", kind |-> r.kind, writes |-> [x \in {} |-> r.from]])
     \/ \E t \in near :
          Proceed(h, [op |-> "swap", kind |-> r.kind, writes |-> Exchange(r, t)])
  /\ UNCHANGED workflowVars

\* and gives each the position of the other, whatever they have by now.  The order of
\* the statuses, read once more, is then given to the columns.
Renumberings(f) ==
  {o \in [DOMAIN f -> 0 .. Cardinality(DOMAIN f) - 1] :
     \A s, t \in DOMAIN f : s # t => o[s] # o[t] /\ (f[s] < f[t] => o[s] < o[t])}

Swap(h) ==
  LET r == at[h]
      rows == DOMAIN r.writes
  IN
  /\ Busy(h, "swap")
  /\ \/ /\ ~(rows \subseteq Standing(r.kind))
        /\ Fails(h)
     \/ /\ r.kind = "status" /\ rows \subseteq Standing("status") \ RowsHeld
        /\ \E order \in Renumberings(Updated(position.status, r.writes)) :
             Proceed(h, [op |-> "renumber", writes |-> r.writes, order |-> order])
        /\ UNCHANGED workflowVars
     \/ /\ r.kind = "column" /\ rows \subseteq Standing("column")
        /\ position' = [position EXCEPT !.column = Updated(@, r.writes)]
        /\ shuffled' = TRUE
        /\ Leave(h)
        /\ UNCHANGED <<retired, transition, edition, calm>>

Renumber(h) ==
  LET r == at[h] IN
  /\ Busy(h, "renumber")
  /\ position' = [status |-> Updated(position.status, r.writes),
                  column |-> [s \in Standing("column") |->
                                IF s \in DOMAIN r.order THEN r.order[s] ELSE position.column[s]]]
  /\ shuffled' = FALSE
  /\ Leave(h)
  /\ UNCHANGED <<retired, transition, edition, calm>>

---------------------------------------------------------------------------
(* Statuses come and go. *)

\* A new status is counted first; ids are not used again.
BeginCreate(h) == PlaceRows(h, [op |-> "create", count |-> Cardinality(Standing("status"))])

CreateStatus(h) ==
  LET s == Cardinality(Standing("status") \cup retired) + 1
      row == [x \in {s} |-> at[h].count]
  IN
  /\ Busy(h, "create") /\ s \in Stage
  /\ position' = [status |-> Updated(position.status, row), column |-> Updated(position.column, row)]
  /\ calm' = (calm /\ retired = {})
  /\ Leave(h)
  /\ UNCHANGED <<retired, transition, edition, shuffled>>

BeginDelete(h, s, replacement) ==
  /\ {s, replacement} \subseteq Standing("status") /\ s # replacement
  /\ PlaceRows(h, [op |-> "delete", item |-> s])

\* The columns go first, the transitions by the cascade of their foreign keys.
DeleteStatus(h) ==
  LET s == at[h].item IN
  /\ Busy(h, "delete")
  /\ \/ /\ s \in retired
        /\ Fails(h)
     \/ /\ s \in Standing("status") \ RowsHeld
        /\ position' = [status |-> Without(position.status, s), column |-> Without(position.column, s)]
        /\ retired' = retired \cup {s}
        /\ transition' = {t \in transition : s \notin {t[1], t[2]}}
        /\ Leave(h)
        /\ UNCHANGED <<edition, shuffled, calm>>

---------------------------------------------------------------------------
(* Transitions. *)

\* No transition, or one from an older status to a newer one.
Drafts == {{}} \cup {{t} : t \in {t \in Stage \X Stage : t[1] < t[2]}}

StatusesOf(draft) == UNION {{t[1], t[2]} : t \in draft}

Latest == IF edition = <<>> THEN 0 ELSE edition[Len(edition)].number

\* What the validation finds is checked again by the foreign keys.
BeginTransitions(h, draft) ==
  /\ StatusesOf(draft) \subseteq Standing("status")
  /\ Enter(h, [op |-> "publish", draft |-> draft, number |-> Latest + 1])
  /\ UNCHANGED workflowVars

\* The number may be taken.
AnyNumber(number) == TRUE

\* The unique index of (projectId, version).
NumberFree(number) == \A i \in DOMAIN edition : edition[i].number # number

SetTransitions(h) ==
  LET r == at[h] IN
  /\ Busy(h, "publish")
  /\ \/ /\ StatusesOf(r.draft) \subseteq Standing("status") /\ NumberFree(r.number)
        /\ transition' = r.draft
        /\ edition' = Append(edition, [number |-> r.number, configuration |-> r.draft])
        /\ Leave(h)
        /\ UNCHANGED <<position, retired, shuffled, calm>>
     \/ /\ ~(StatusesOf(r.draft) \subseteq Standing("status") /\ NumberFree(r.number))
        /\ Fails(h)

\* The transaction is rolled back: a deadlock, a reference that keeps the status, a crash.
RollBack(h) == at[h] # Idle /\ Fails(h)

WorkflowNext ==
  \/ \E h \in Handler, k \in {"status", "column"}, s \in Stage, up \in BOOLEAN : BeginMoveRow(h, k, s, up)
  \/ \E h \in Handler, s, replacement \in Stage : BeginDelete(h, s, replacement)
  \/ \E h \in Handler, draft \in Drafts : BeginTransitions(h, draft)
  \/ \E h \in Handler : \/ FindAdjacent(h) \/ Swap(h) \/ Renumber(h) \/ BeginCreate(h) \/ CreateStatus(h)
                         \/ DeleteStatus(h) \/ SetTransitions(h) \/ RollBack(h)

---------------------------------------------------------------------------
ColumnsMatch == Standing("status") = Standing("column")

VersionsTell ==
  /\ \A i \in DOMAIN edition : edition[i].number = i
  /\ edition # <<>> => transition = {t \in edition[Len(edition)].configuration :
                                       {t[1], t[2]} \subseteq Standing("status")}

Distinct(f) == \A s, t \in DOMAIN f : f[s] = f[t] => s = t

SameOrder(f, g) == \A s, t \in DOMAIN f \cap DOMAIN g : f[s] < f[t] => g[s] < g[t]

\* Every status keeps its one column, the transitions are those of the last published
\* version that the remaining statuses allow, and versions are numbered without a gap,
\* whatever administrators do at once.  While they work one after the other and nothing
\* is created after a deletion, no two rows share a position (such a pair could never be
\* swapped again), and the board shows the order of the workflow unless its columns were
\* moved since the last move of a status.
WorkflowIntact ==
  /\ ColumnsMatch /\ VersionsTell
  /\ calm => /\ Distinct(position.status) /\ Distinct(position.column)
             /\ ~shuffled => SameOrder(position.status, position.column)
=============================================================================
