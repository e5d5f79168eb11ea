---------------------------- MODULE Dependencies ----------------------------
(***************************************************************************)
(* What the analysis says of the graph of links: its cycles, its longest   *)
(* chain and how long that takes; and the search for a way back, step by   *)
(* step.                                                                   *)
(***************************************************************************)
EXTENDS Links

---------------------------------------------------------------------------
(* dependency-graph.ts *)

\* The search of introducesCycle: the fringe is its queue.
RECURSIVE Reached(_, _)
Reached(seen, fringe) ==
  LET next == {edge[i].to : i \in {j \in Blocking : edge[j].from \in fringe}} \ (seen \cup fringe)
  IN  IF fringe = {} THEN seen ELSE Reached(seen \cup fringe, next)

\* Depth-first search: st has the nodes in progress and finished, those found on a
\* cycle, and the nodes in the order in which they were finished.
From(trail, n) == {trail[k] : k \in {j \in DOMAIN trail : \E i \in 1 .. j : trail[i] = n}}

Outgoing(n) ==
  LET out == {i \in Blocking : edge[i].from = n} IN
  CHOOSE s \in [1 .. Cardinality(out) -> out] : \A j, k \in DOMAIN s : j < k => s[j] < s[k]

RECURSIVE Visit(_, _, _), VisitAll(_, _, _)
Visit(n, trail, st) ==
  IF n \in st.visiting THEN [st EXCEPT !.cyclic = @ \cup From(trail, n)]
  ELSE IF n \in st.visited THEN st
  ELSE LET below == VisitAll(Outgoing(n), trail, [st EXCEPT !.visiting = @ \cup {n}])
       IN  [below EXCEPT !.visiting = @ \ {n}, !.visited = @ \cup {n}, !.order = Append(@, n)]

VisitAll(out, trail, st) ==
  IF out = <<>> THEN st
  ELSE LET to == edge[Head(out)].to
       IN  VisitAll(Tail(out), trail, Visit(to, Append(trail, to), st))

RECURSIVE Search(_, _)
Search(n, st) == IF n > Nodes THEN st ELSE Search(n + 1, Visit(n, <<n>>, st))

Searched == Search(1, [visiting |-> {}, visited |-> {}, cyclic |-> {}, order |-> <<>>])

\* The longest chain that ends in each node, backwards through the order, with the link
\* it came by.
Candidate(d, i) ==
  LET e == edge[i] IN
  (IF e.from \in DOMAIN d THEN d[e.from].days ELSE duration[e.from]) + e.lag + duration[e.to]

RECURSIVE Best(_, _, _)
Best(d, S, best) ==
  IF S = {} THEN best
  ELSE LET i == CHOOSE j \in S : \A k \in S : j <= k
           days == Candidate(d, i)
       IN  Best(d, S \ {i}, IF days > best.days THEN [days |-> days, via |-> edge[i].from] ELSE best)

RECURSIVE Distances(_, _)
Distances(order, d) ==
  IF order = <<>> THEN d
  ELSE LET n == order[Len(order)]
           incoming == {i \in Blocking : edge[i].to = n}
           best == Best(d, incoming, [days |-> duration[n], via |-> None])
       IN  Distances(SubSeq(order, 1, Len(order) - 1),
                     [m \in DOMAIN d \cup {n} |-> IF m = n THEN best ELSE d[m]])

RECURSIVE Chain(_, _, _)
Chain(d, n, path) ==
  IF n = None \/ (\E k \in DOMAIN path : path[k] = n) THEN path
  ELSE Chain(d, d[n].via, <<n>> \o path)

\* The node with the largest distance, the first of them.
Farthest(d) ==
  CHOOSE n \in DOMAIN d : \A m \in DOMAIN d :
    d[m].days < d[n].days \/ (d[m].days = d[n].days /\ n <= m)

---------------------------------------------------------------------------
\* The chains of different issues, each blocked by the one before.
Chains ==
  {p \in UNION {[1 .. k -> Node] : k \in 1 .. Nodes} :
     /\ \A k \in 1 .. Len(p) - 1 : <<p[k], p[k + 1]>> \in Arrows
     /\ \A j, k \in DOMAIN p : p[j] = p[k] => j = k}

OnCycle == {p[1] : p \in {q \in Chains : <<q[Len(q)], q[1]>> \in Arrows}}

Lagging(m, n) == edge[CHOOSE i \in Blocking : edge[i].from = m /\ edge[i].to = n].lag

Takes(p) ==
  LET upTo[k \in 1 .. Len(p)] ==
        duration[p[k]] + IF k = 1 THEN 0 ELSE upTo[k - 1] + Lagging(p[k - 1], p[k])
  IN  upTo[Len(p)]

\* The links are ordered, as told there, and the search finds what there is a way to.
\* The analysis says that there is a cycle exactly if there is, naming only issues on
\* one; without a cycle its critical path is a chain, takes the time that is shown, and
\* no chain takes longer, also where a lag is negative.
ChainsTell ==
  LET st == Searched
      d == Distances(st.order, <<>>)
      path == Chain(d, Farthest(d), <<>>)
      onCycle == OnCycle
  IN
  /\ LinksOrdered /\ (NoWayBack <=> onCycle = {})
  /\ \A n \in Node : Reached({}, {n}) = {m \in Node : Leads(Arrows, n, m)}
  /\ st.cyclic \subseteq onCycle /\ (onCycle # {} => st.cyclic # {})
  /\ onCycle = {} =>
       LET chains == Chains IN
       /\ path \in chains /\ Takes(path) = d[Farthest(d)].days
       /\ \A p \in chains : Takes(p) <= Takes(path)
=============================================================================
