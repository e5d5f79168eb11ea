------------------------------- MODULE Links -------------------------------
(***************************************************************************)
(* Links between the issues of a plan: the handlers that create, change    *)
(* and remove them.  Before a link that blocks is created, what is there   *)
(* is searched for a way back.  Rows are listed in id order.  Everybody    *)
(* may see every issue.                                                    *)
(***************************************************************************)
EXTENDS Handlers

CONSTANTS
  Nodes,    \* issues of the plan, numbered in id order
  MaxLinks, \* bound on the links ever created
  Overlap   \* days by which a link may let two issues overlap

Node == 1 .. Nodes
Lag  == {-Overlap, 0}

LinkRow == [from : Node, to : Node, type : {"blocks", "relates"}, lag : Lag]

ASSUME LinksAssumption == Nodes \in Nat /\ Overlap \in Nat /\ None \notin LinkRow

VARIABLES
  duration, \* days an issue takes, its estimate or one
  edge,     \* the rows by id, None where one was removed
  crossed   \* history: two creations met, or a link was turned into "blocks"

dependencyVars == <<duration, edge, crossed>>

DependenciesInit ==
  /\ \E long \in Node : duration = [n \in Node |-> IF n = long THEN 3 ELSE 1]
  /\ edge = <<>> /\ crossed = FALSE

There(i) == i \in DOMAIN edge /\ edge[i] # None

\* The "blocks" links.
Blocking == {i \in DOMAIN edge : edge[i] # None /\ edge[i].type = "blocks"}
Arrows   == {<<edge[i].from, edge[i].to>> : i \in Blocking}

\* Whoever goes on along the arrows from m comes to n.
Leads(arrows, m, n) ==
  \A S \in SUBSET Node :
    m \in S /\ (\A a \in arrows : a[1] \in S => a[2] \in S) => n \in S

\* Only a link straight back.
DirectCycle(from, to) == from = to \/ <<to, from>> \in Arrows

IntroducesCycle(from, to) == from = to \/ Leads(Arrows, to, from)

---------------------------------------------------------------------------
(* The handlers. *)

Link(from, to, term) == [from |-> from, to |-> to, type |-> term.type, lag |-> term.lag]

Creating == {h \in Handler : Busy(h, "create") /\ at[h].link.type = "blocks"}

\* Unique by both ends and the type.
Same(e, link) == e # None /\ e.from = link.from /\ e.to = link.to /\ e.type = link.type

\* The graph is read and checked before the transaction.
BeginLink(h, link) ==
  /\ link.type = "blocks" => ~IntroducesCycle(link.from, link.to)
  /\ crossed' = (crossed \/ (link.type = "blocks" /\ Creating # {}))
  /\ Enter(h, [op |-> "create", link |-> link])
  /\ UNCHANGED <<duration, edge>>

CreateLink(h) ==
  /\ Busy(h, "create") /\ Len(edge) < MaxLinks
  /\ edge' = IF \E i \in DOMAIN edge : Same(edge[i], at[h].link) THEN edge
             ELSE Append(edge, at[h].link)
  /\ Leave(h)
  /\ UNCHANGED <<duration, crossed>>

\* Changes and removals compare the version when they read the row, and not again.
BeginOnLink(h, next) ==
  /\ There(next.row)
  /\ Enter(h, next)
  /\ UNCHANGED dependencyVars

\* The type of a link may change, and nothing is checked then.
ChangeLink(h) ==
  LET r == at[h]
      changed == Link(edge[r.row].from, edge[r.row].to, r.term)
  IN
  /\ Busy(h, "change")
  /\ IF There(r.row) /\ \A i \in DOMAIN edge \ {r.row} : ~Same(edge[i], changed)
     THEN /\ edge' = [edge EXCEPT ![r.row] = changed]
          /\ crossed' = (crossed \/ (r.term.type = "blocks" /\ edge[r.row].type # "blocks"))
     ELSE UNCHANGED <<edge, crossed>>
  /\ Leave(h)
  /\ UNCHANGED duration

RemoveLink(h) ==
  /\ Busy(h, "remove")
  /\ edge' = [edge EXCEPT ![at[h].row] = None]
  /\ Leave(h)
  /\ UNCHANGED <<duration, crossed>>

\* What a request asks for; the lag of a link that does not block plays no part.
Terms == {[type |-> "blocks", lag |-> lag] : lag \in Lag} \cup {[type |-> "relates", lag |-> 0]}

DependenciesNext ==
  \/ \E h \in Handler, from, to \in Node, term \in Terms : BeginLink(h, Link(from, to, term))
  \/ \E h \in Handler, i \in DOMAIN edge :
       \/ \E term \in Terms : BeginOnLink(h, [op |-> "change", row |-> i, term |-> term])
       \/ BeginOnLink(h, [op |-> "remove", row |-> i])
  \/ \E h \in Handler : CreateLink(h) \/ ChangeLink(h) \/ RemoveLink(h)

---------------------------------------------------------------------------
NoWayBack == \A a \in Arrows : ~Leads(Arrows, a[2], a[1])

\* Links that are created one after the other make no cycle, and none comes about but
\* by two creations that did not see each other or by turning another link into one
\* that blocks.
LinksOrdered == crossed \/ NoWayBack
=============================================================================
