---------------------------- MODULE ServiceQueues ----------------------------
(***************************************************************************)
(* Queues of a service project and the triage of what they show: an agent  *)
(* takes a snapshot of a queue, selects requests in it, and acts on all of *)
(* them at once, while others edit the queue, the requests and the         *)
(* workflow, and while other agents triage.                                *)
(***************************************************************************)
EXTENDS Handlers

CONSTANTS
  Agent,
  Queue,
  Ticket,         \* issues of the project's service requests
  Status,
  QueueLimit,     \* 100 in the code
  SnapshotLimit,  \* 30 in the code
  WipLimit        \* of the column of every status

\* ServiceQueue
QueueRow == [owner : Agent, team : BOOLEAN, isDefault : BOOLEAN, version : Nat]

ASSUME QueueAssumption ==
  /\ IsFiniteSet(Queue) /\ IsFiniteSet(Handler)
  /\ QueueLimit \in Nat \ {0} /\ SnapshotLimit \in Nat \ {0} /\ WipLimit \in Nat
  /\ None \notin QueueRow

VARIABLES
  queue,     \* a QueueRow, or None
  snapshot,  \* ServiceQueueSnapshot, in order of creation: [agent, queue, version, rows, expired]
  ticket,    \* Issue: [version, assignee, status, archived]
  triaged    \* history: the last triage, [action, shown, found, crowd]

queueVars == <<queue, snapshot, ticket, triaged>>

NoTriage == [action |-> [claim |-> FALSE, assignee |-> None, status |-> None],
             shown |-> <<>>, found |-> <<>>, crowd |-> 0]

QueueInit ==
  /\ \E team \in BOOLEAN, owner \in Agent, one \in Queue :
       queue = [q \in Queue |->
         IF q = one THEN [owner |-> owner, team |-> team, isDefault |-> TRUE, version |-> 1] ELSE None]
  /\ snapshot = <<>>
  /\ \E s \in Status : ticket = [t \in Ticket |->
       [version |-> 1, assignee |-> None, status |-> s, archived |-> FALSE]]
  /\ triaged = NoTriage

Created == {q \in Queue : queue[q] # None}

\* visibleQueues
Visible(a, q) == queue[q] # None /\ (queue[q].team \/ queue[q].owner = a)

---------------------------------------------------------------------------
(* Queues.  Both transactions are serializable.                            *)

\* The queues that share a default: those of the team, or the private ones of the owner.
SameScope(q, owner, team) ==
  queue[q] # None /\ queue[q].team = team /\ (team \/ queue[q].owner = owner)

\* Making a queue the default takes that from the others, which thereby change.
Demoted(q, owner, team) ==
  IF SameScope(q, owner, team)
  THEN [queue[q] EXCEPT !.isDefault = FALSE, !.version = @ + 1]
  ELSE queue[q]

BelowLimit == Cardinality(Created) < QueueLimit

CreateQueue(a, q) ==
  /\ InOneStep
  /\ queue[q] = None /\ BelowLimit
  /\ \E team, isDefault \in BOOLEAN :
       queue' = [o \in Queue |->
         IF o = q THEN [owner |-> a, team |-> team, isDefault |-> isDefault, version |-> 1]
         ELSE IF isDefault THEN Demoted(o, a, team) ELSE queue[o]]
  /\ UNCHANGED <<snapshot, ticket, triaged>>

\* The editor sends the version that he has seen, which is compared now and written against.
BeginEditQueue(h, a, q) ==
  /\ Visible(a, q)
  /\ Enter(h, [op |-> "edit queue", queue |-> q, read |-> queue[q]])
  /\ UNCHANGED queueVars

EditQueue(h) == LET q == at[h].queue IN
  /\ Busy(h, "edit queue")
  /\ queue[q].version = at[h].read.version
  /\ \/ queue' = [queue EXCEPT ![q].version = @ + 1]
     \/ \E isDefault \in BOOLEAN :
          queue' = [o \in Queue |->
            IF o = q THEN [queue[q] EXCEPT !.isDefault = isDefault, !.version = @ + 1]
            ELSE IF isDefault THEN Demoted(o, at[h].read.owner, at[h].read.team) ELSE queue[o]]
  /\ Leave(h)
  /\ UNCHANGED <<snapshot, ticket, triaged>>

RefuseEditQueue(h) ==
  /\ Busy(h, "edit queue")
  /\ queue[at[h].queue].version # at[h].read.version
  /\ Leave(h)
  /\ UNCHANGED queueVars

---------------------------------------------------------------------------
(* Snapshots.  The queue is read first; the transaction counts and reads   *)
(* the rows from one view of the database (repeatable read), which a       *)
(* concurrent one does not change.                                         *)

Active(a, q) == {i \in DOMAIN snapshot :
  snapshot[i].agent = a /\ snapshot[i].queue = q /\ ~snapshot[i].expired}

BeginSnapshot(h, a, q) ==
  /\ Visible(a, q)
  /\ Enter(h, [op |-> "snapshot", agent |-> a, queue |-> q, version |-> queue[q].version])
  /\ UNCHANGED queueVars

Room(a, q) == Cardinality(Active(a, q)) < SnapshotLimit

ReadRows(h) ==
  /\ Busy(h, "snapshot") /\ Room(at[h].agent, at[h].queue)
  /\ Proceed(h, [op |-> "store", agent |-> at[h].agent, queue |-> at[h].queue, version |-> at[h].version,
                 rows |-> [t \in {u \in Ticket : ~ticket[u].archived} |-> ticket[t]]])
  /\ UNCHANGED queueVars

StoreSnapshot(h) ==
  /\ Busy(h, "store")
  /\ snapshot' = Append(snapshot, [agent |-> at[h].agent, queue |-> at[h].queue,
                                   version |-> at[h].version, rows |-> at[h].rows, expired |-> FALSE])
  /\ Leave(h)
  /\ UNCHANGED <<queue, ticket, triaged>>

RefuseSnapshot(h) ==
  /\ Busy(h, "snapshot") /\ ~Room(at[h].agent, at[h].queue)
  /\ Leave(h)
  /\ UNCHANGED queueVars

\* Five minutes go by.
ExpireSnapshot(i) ==
  /\ ~snapshot[i].expired
  /\ snapshot' = [snapshot EXCEPT ![i].expired = TRUE]
  /\ UNCHANGED <<queue, ticket, triaged, handlers>>

\* readQueueSnapshot: neither the queue nor any of its rows changed since.
Current(i) ==
  /\ ~snapshot[i].expired
  /\ Visible(snapshot[i].agent, snapshot[i].queue)
  /\ snapshot[i].version = queue[snapshot[i].queue].version
  /\ \A t \in DOMAIN snapshot[i].rows :
       ~ticket[t].archived /\ ticket[t].version = snapshot[i].rows[t].version

---------------------------------------------------------------------------
(* Triage: applyQueueAction.  The snapshot is read before the transaction, *)
(* which is serializable and acts on all selected requests or on none.     *)

Actions ==
  {[claim |-> TRUE, assignee |-> None, status |-> s] : s \in Status \cup {None}}
  \cup [claim : {FALSE}, assignee : Agent, status : {None}]
  \cup [claim : {FALSE}, assignee : {None}, status : Status]

BeginTriage(h, i) ==
  /\ Current(i)
  /\ \E chosen \in (SUBSET DOMAIN snapshot[i].rows) \ {{}}, action \in Actions :
       Enter(h, [op |-> "triage", agent |-> snapshot[i].agent, action |-> action,
                 shown |-> [t \in chosen |-> snapshot[i].rows[t]]])
  /\ UNCHANGED queueVars

InStatus(s) == {t \in Ticket : ticket[t].status = s /\ ~ticket[t].archived}

\* Rows that come into the status with the batch, which are counted one after the other.
Arriving(shown, s) == {t \in DOMAIN shown : ticket[t].status # s}

\* The versions are not compared again.
StillThere(shown, action) == \A t \in DOMAIN shown :
  /\ ~ticket[t].archived
  /\ action.claim => ticket[t].assignee = None

\* As shown, whatever happened between the snapshot and the transaction.
Unchanged(shown, action) == \A t \in DOMAIN shown :
  /\ ticket[t].version = shown[t].version /\ ~ticket[t].archived
  /\ action.claim => ticket[t].assignee = None

Allowed(shown, action) ==
  action.status # None /\ Arriving(shown, action.status) # {} =>
    Cardinality(InStatus(action.status) \cup Arriving(shown, action.status)) <= WipLimit

Acted(t, agent, action) ==
  [ticket[t] EXCEPT
     !.version = @ + 1,
     !.assignee = IF action.claim THEN agent ELSE IF action.assignee # None THEN action.assignee ELSE @,
     !.status = IF action.status # None THEN action.status ELSE @]

Triage(h) == LET shown == at[h].shown  action == at[h].action IN
  /\ Busy(h, "triage")
  /\ Unchanged(shown, action) /\ Allowed(shown, action)
  /\ ticket' = [t \in Ticket |-> IF t \in DOMAIN shown THEN Acted(t, at[h].agent, action) ELSE ticket[t]]
  /\ triaged' = [action |-> action, shown |-> shown, found |-> [t \in DOMAIN shown |-> ticket[t]],
                 crowd |-> IF action.status = None \/ Arriving(shown, action.status) = {} THEN 0
                           ELSE Cardinality({t \in Ticket : ticket'[t].status = action.status
                                                            /\ ~ticket'[t].archived})]
  /\ Leave(h)
  /\ UNCHANGED <<queue, snapshot>>

RefuseTriage(h) ==
  /\ Busy(h, "triage")
  /\ ~(Unchanged(at[h].shown, at[h].action) /\ Allowed(at[h].shown, at[h].action))
  /\ Leave(h)
  /\ UNCHANGED queueVars

---------------------------------------------------------------------------
(* What others do to the requests *)

\* Every editor of an issue advances its version.
EditTicket(t) ==
  /\ InOneStep
  /\ \E assignee \in Agent \cup {None}, s \in Status, archived \in BOOLEAN :
       ticket' = [ticket EXCEPT ![t] = [version |-> @.version + 1, assignee |-> assignee,
                                        status |-> s, archived |-> archived]]
  /\ UNCHANGED <<queue, snapshot, triaged>>

\* External to this module: a status that is removed from the workflow is replaced
\* in its issues, whose versions stay.
ReplaceStatus(old, new) ==
  /\ InOneStep
  /\ old # new
  /\ ticket' = [t \in Ticket |-> [ticket[t] EXCEPT !.status = IF @ = old THEN new ELSE @]]
  /\ UNCHANGED <<queue, snapshot, triaged>>

QueueNext ==
  \/ \E a \in Agent, q \in Queue : CreateQueue(a, q)
  \/ \E t \in Ticket : EditTicket(t)
  \/ \E old, new \in Status : ReplaceStatus(old, new)
  \/ \E i \in DOMAIN snapshot : ExpireSnapshot(i)
  \/ \E h \in Handler :
       \/ \E a \in Agent, q \in Queue : BeginEditQueue(h, a, q) \/ BeginSnapshot(h, a, q)
       \/ EditQueue(h) \/ RefuseEditQueue(h)
       \/ ReadRows(h) \/ StoreSnapshot(h) \/ RefuseSnapshot(h)
       \/ \E i \in DOMAIN snapshot : BeginTriage(h, i)
       \/ Triage(h) \/ RefuseTriage(h)

---------------------------------------------------------------------------
(* A triage acts on what its agent has seen: since the snapshot nobody     *)
(* changed who is assigned to any of the requests it writes, what it       *)
(* claims nobody had, and it does not crowd the status it moves them to.   *)
(* (The status that was shown may be another one: see ReplaceStatus.)      *)
TriagedAsShown ==
  /\ \A t \in DOMAIN triaged.shown :
       /\ triaged.found[t].assignee = triaged.shown[t].assignee
       /\ triaged.found[t].version = triaged.shown[t].version
       /\ ~triaged.found[t].archived
       /\ triaged.action.claim => triaged.found[t].assignee = None
  /\ triaged.crowd <= WipLimit

(* The limits: on queues exactly, since their creation is serializable; on *)
(* an agent's active snapshots of a queue up to those whose transactions   *)
(* had counted before; and one default in each scope.                      *)
LimitsHold ==
  /\ Cardinality(Created) <= QueueLimit
  /\ \A a \in Agent, q \in Queue :
       Cardinality(Active(a, q)) <= SnapshotLimit + Cardinality(Handler) - 1
  /\ \A p, q \in Created :
       queue[p].isDefault /\ queue[q].isDefault /\ SameScope(q, queue[p].owner, queue[p].team) => p = q

(* A queue's bulk change hits what its page showed, and the limits hold.   *)
QueuesHold == TriagedAsShown /\ LimitsHold
=============================================================================
