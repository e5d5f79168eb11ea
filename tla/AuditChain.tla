----------------------------- MODULE AuditChain -----------------------------
(***************************************************************************)
(* The audit hash chain of one workspace: the insert trigger that links a  *)
(* row to the newest one, the retention purge that cuts a prefix off and   *)
(* remembers where it cut in an anchor, and the verification that walks    *)
(* the rows.  Every writer is a database transaction of its own; the       *)
(* trigger holds an advisory lock from the insert to the end of it.        *)
(*                                                                         *)
(* The digest of a row is injective in what it covers (the id is part of   *)
(* it), so the event itself stands for its hash, and "altered" for a row   *)
(* whose stored hash is no longer the digest of its content.               *)
(***************************************************************************)
EXTENDS Integers, FiniteSets, Sequences

CONSTANTS
    Events,             \* bound: the events that can be recorded
    None,               \* SQL NULL
    Writers,            \* transactions that record an event
    SnapshotWriters,    \* those that run REPEATABLE READ or SERIALIZABLE
    Purgers,            \* runs of a deletion job for AUDIT_EVENTS
    Verifiers,          \* calls of verifyAuditChain
    MaxDamage           \* bound: rows lost or changed outside the program

ASSUME ChainAssumption ==
    /\ None \notin Events
    /\ SnapshotWriters \subseteq Writers
    /\ Writers \cap Purgers = {} /\ Writers \cap Verifiers = {} /\ Purgers \cap Verifiers = {}
    /\ MaxDamage \in Nat

VARIABLES
    rows,       \* table AuditEvent
    anchor,     \* the AuditChainAnchor row; sequence 0 when there is none
    aged,       \* committed events that are older than the retention cutoff
    phase,      \* where each writer, purger and verifier is
    view,       \* per writer: the database as of the start of its transaction
    draft,      \* per writer: the row it inserted and has not committed
    chosen,     \* per purger: ids that it may delete
    doomed,     \* per purger: the rows it is going to delete
    got,        \* per verifier: the rows it read
    log,        \* history: every event ever committed, in commit order
    damaged     \* history: rows lost or changed outside the program

vars == <<rows, anchor, aged, phase, view, draft, chosen, doomed, got, log, damaged>>

Processes == Writers \cup Purgers \cup Verifiers

NoAnchor == [seq |-> 0, hash |-> None]
NoView == [rows |-> {}, anchor |-> NoAnchor]

Init ==
    /\ rows = {}
    /\ anchor = NoAnchor
    /\ aged = {}
    /\ phase = [p \in Processes |-> "idle"]
    /\ view = [w \in Writers |-> NoView]
    /\ draft = [w \in Writers |-> None]
    /\ chosen = [p \in Purgers |-> {}]
    /\ doomed = [p \in Purgers |-> {}]
    /\ got = [v \in Verifiers |-> {}]
    /\ log = <<>>
    /\ damaged = {}

Logged == {log[k] : k \in DOMAIN log}

-----------------------------------------------------------------------------
(* Recording an event.                                                     *)

\* ORDER BY sequence DESC LIMIT 1
Newest(rs) == {x \in rs : \A y \in rs : y.seq <= x.seq}

\* What the trigger finds to chain to: the newest row, else the anchor.
IgnoringAnchor(rs, a) ==
    IF rs = {} THEN NoAnchor
    ELSE [seq |-> (CHOOSE x \in Newest(rs) : TRUE).seq,
          hash |-> (CHOOSE x \in Newest(rs) : TRUE).hash]
ChainEnd(rs, a) ==
    IF rs = {} THEN a
    ELSE [seq |-> (CHOOSE x \in Newest(rs) : TRUE).seq,
          hash |-> (CHOOSE x \in Newest(rs) : TRUE).hash]

\* The statements of the trigger see the start of a snapshot transaction,
\* and the present otherwise.
Seen(w) == IF w \in SnapshotWriters THEN view[w] ELSE [rows |-> rows, anchor |-> anchor]

\* pg_advisory_xact_lock
AlwaysFree(w) == TRUE
LockFree(w) == \A o \in Writers : phase[o] # "inserted"

\* The transaction takes its snapshot.
Begin(w) ==
    /\ phase[w] = "idle"
    /\ phase' = [phase EXCEPT ![w] = "begun"]
    /\ view' = [view EXCEPT ![w] = IF w \in SnapshotWriters
                                   THEN [rows |-> rows, anchor |-> anchor] ELSE NoView]
    /\ UNCHANGED <<rows, anchor, aged, draft, chosen, doomed, got, log, damaged>>

Leave(w) ==
    /\ phase' = [phase EXCEPT ![w] = "idle"]
    /\ view' = [view EXCEPT ![w] = NoView]
    /\ draft' = [draft EXCEPT ![w] = None]

\* INSERT INTO AuditEvent: the trigger waits for the lock and builds the row;
\* the unique index on the sequence refuses a number that is taken.
Insert(w) ==
    LET end == ChainEnd(Seen(w).rows, Seen(w).anchor) IN
    /\ phase[w] = "begun"
    /\ LockFree(w)
    /\ IF \E x \in rows : x.seq = end.seq + 1
       THEN Leave(w)
       ELSE /\ \E e \in Events \ Logged :
                  /\ \A o \in Writers : phase[o] = "inserted" => draft[o].hash # e
                  /\ draft' = [draft EXCEPT ![w] =
                        [seq |-> end.seq + 1, prev |-> end.hash,
                         hash |-> e, altered |-> FALSE]]
            /\ phase' = [phase EXCEPT ![w] = "inserted"]
            /\ UNCHANGED view
    /\ UNCHANGED <<rows, anchor, aged, chosen, doomed, got, log, damaged>>

Commit(w) ==
    /\ phase[w] = "inserted"
    /\ rows' = rows \cup {draft[w]}
    /\ log' = Append(log, draft[w].hash)
    /\ Leave(w)
    /\ UNCHANGED <<anchor, aged, chosen, doomed, got, damaged>>

\* The rest of the transaction fails, or its process dies.
Rollback(w) ==
    /\ phase[w] \in {"begun", "inserted"}
    /\ Leave(w)
    /\ UNCHANGED <<rows, anchor, aged, chosen, doomed, got, log, damaged>>

-----------------------------------------------------------------------------
(* Retention.                                                              *)

\* Half a year and more goes by: no transaction lasts that long.
Age ==
    /\ \A w \in Writers : phase[w] = "idle"
    /\ aged # Logged
    /\ aged' = Logged
    /\ UNCHANGED <<rows, anchor, phase, view, draft, chosen, doomed, got, log, damaged>>

\* discoverRetention: old rows, less those under a legal hold, among the
\* ids of the preview that was approved.
Discover(p) ==
    /\ phase[p] = "idle"
    /\ \E ids \in SUBSET {x.hash : x \in {y \in rows : y.hash \in aged}} :
          /\ ids # {}
          /\ chosen' = [chosen EXCEPT ![p] = ids]
    /\ phase' = [phase EXCEPT ![p] = "chosen"]
    /\ UNCHANGED <<rows, anchor, aged, view, draft, doomed, got, log, damaged>>

\* The loop stops at the first row, in sequence order, that is not deletable.
AnyDeletable(rs, ids) == {x \in rs : x.hash \in ids}
Prefix(rs, ids) == {x \in rs : \A y \in rs : y.seq <= x.seq => y.hash \in ids}

\* It reads the rows of the workspace in order.
Order(p) ==
    LET prefix == Prefix(rows, chosen[p]) IN
    /\ phase[p] = "chosen"
    /\ phase' = [phase EXCEPT ![p] = IF prefix = {} THEN "idle" ELSE "doomed"]
    /\ doomed' = [doomed EXCEPT ![p] = prefix]
    /\ chosen' = [chosen EXCEPT ![p] = {}]
    /\ UNCHANGED <<rows, anchor, aged, view, draft, got, log, damaged>>

LastOf(prefix) ==
    LET last == CHOOSE x \in Newest(prefix) : TRUE
    IN [seq |-> last.seq, hash |-> last.hash]

\* One transaction: upsert the anchor, delete the rows by id.
Purge(p) ==
    /\ phase[p] = "doomed"
    /\ anchor' = LastOf(doomed[p])
    /\ rows' = {x \in rows : \A y \in doomed[p] : y.hash # x.hash}
    /\ doomed' = [doomed EXCEPT ![p] = {}]
    /\ phase' = [phase EXCEPT ![p] = "idle"]
    /\ UNCHANGED <<aged, view, draft, chosen, got, log, damaged>>

\* The job fails between two statements; it can be executed again.
Abandon(p) ==
    /\ phase[p] \in {"chosen", "doomed"}
    /\ phase' = [phase EXCEPT ![p] = "idle"]
    /\ chosen' = [chosen EXCEPT ![p] = {}]
    /\ doomed' = [doomed EXCEPT ![p] = {}]
    /\ UNCHANGED <<rows, anchor, aged, view, draft, got, log, damaged>>

-----------------------------------------------------------------------------
(* Verification.                                                           *)

\* A row is broken when it was altered, or does not continue what precedes
\* it: the row before it (SQL lag), the anchor for the first one.
Before(x, rs) == {y \in rs : y.seq < x.seq}
BrokenLinks(rs, a) ==
    {x \in rs : \/ x.seq # ChainEnd(Before(x, rs), a).seq + 1
                \/ x.prev # ChainEnd(Before(x, rs), a).hash}
Broken(rs, a) ==
    {x \in rs : \/ x.altered
                \/ x.seq # ChainEnd(Before(x, rs), a).seq + 1
                \/ x.prev # ChainEnd(Before(x, rs), a).hash}

\* verifyAuditChain reads the rows in one statement and the anchor in the
\* next.
ReadRows(v) ==
    /\ phase[v] \in {"idle", "valid", "broken"}
    /\ got' = [got EXCEPT ![v] = rows]
    /\ phase' = [phase EXCEPT ![v] = "read"]
    /\ UNCHANGED <<rows, anchor, aged, view, draft, chosen, doomed, log, damaged>>

Judge(v) ==
    /\ phase[v] = "read"
    /\ phase' = [phase EXCEPT ![v] = IF Broken(got[v], anchor) = {} THEN "valid" ELSE "broken"]
    /\ got' = [got EXCEPT ![v] = {}]
    /\ UNCHANGED <<rows, anchor, aged, view, draft, chosen, doomed, log, damaged>>

-----------------------------------------------------------------------------
(* Rows that are lost or changed by other means than the program.          *)

Lose(x) ==
    /\ rows' = rows \ {x}
    /\ damaged' = damaged \cup {x}

Alter(x) ==
    /\ rows' = (rows \ {x}) \cup {[x EXCEPT !.altered = TRUE]}
    /\ damaged' = damaged \cup {x}

Damage(x) ==
    /\ Cardinality(damaged) < MaxDamage
    /\ Lose(x) \/ (~x.altered /\ Alter(x))
    /\ UNCHANGED <<anchor, aged, phase, view, draft, chosen, doomed, got, log>>

Next ==
    \/ \E w \in Writers : Begin(w) \/ Insert(w) \/ Commit(w) \/ Rollback(w)
    \/ Age
    \/ \E p \in Purgers : Discover(p) \/ Order(p) \/ Purge(p) \/ Abandon(p)
    \/ \E v \in Verifiers : ReadRows(v) \/ Judge(v)
    \/ \E x \in rows : Damage(x)

Spec == Init /\ [][Next]_vars
-----------------------------------------------------------------------------
(* Properties.                                                             *)

HashAt(k) == IF k = 0 THEN None ELSE log[k]
LogRow(k) == [seq |-> k, prev |-> HashAt(k - 1), hash |-> log[k], altered |-> FALSE]

\* The table holds exactly the events that were committed after the anchor,
\* each linked to the one before it and numbered by its place.
TableIsLog ==
    /\ anchor.seq \in 0 .. Len(log)
    /\ anchor = [seq |-> anchor.seq, hash |-> HashAt(anchor.seq)]
    /\ rows = {LogRow(k) : k \in anchor.seq + 1 .. Len(log)}

\* The program itself loses no event, uses no number twice, and anchors the
\* chain where its rows begin, whichever transactions and purges overlap
\* (trigger planeo_audit_chain, purge of executeDeletion).
ChainIntact == damaged = {} => TableIsLog

\* The chain is an append-only log of which only a prefix is ever cut off.
Log == INSTANCE AuditLog WITH trimmed <- anchor.seq
AppendOnly == Log!LogSpec

\* Verification reports a broken chain only if a row was lost or altered, or
\* if a purge took rows away between its two reads (src/lib/audit.ts
\* verifyAuditChain).
NoFalseAlarm ==
    [][\A v \in Verifiers : phase[v] = "read" /\ phase'[v] = "broken"
          => damaged # {} \/ ~(got[v] \subseteq rows)]_vars

\* As long as nothing was lost or altered, the stored chain verifies, also
\* when several deletion jobs for audit events have run.
ChainVerifies == damaged = {} => Broken(rows, anchor) = {}

\* A row that was lost or altered, that no purge has taken away since and
\* that was not the newest one (a later row still points to it, or it is
\* still there in an altered form) makes verification fail.
Anchored(x) == \E y \in rows : y.prev = x.hash \/ y.hash = x.hash
InnerDamageVisible ==
    (\E x \in damaged : Anchored(x) /\ x.seq > anchor.seq) => Broken(rows, anchor) # {}

\* What the writers and the purger rely on, so that TableIsLog survives
\* every step of theirs when there is one purger and no damage.
OneWriterInside ==
    \A w, o \in Writers : phase[w] = "inserted" /\ phase[o] = "inserted" => w = o
DraftIsNext ==
    \A w \in Writers : phase[w] = "inserted" =>
        /\ draft[w].hash \in Events \ Logged
        /\ draft[w] = [seq |-> Len(log) + 1, prev |-> HashAt(Len(log)),
                       hash |-> draft[w].hash, altered |-> FALSE]
\* A snapshot ends somewhere in the log, and nothing after that is old.
RecentView(w, n) ==
    /\ ChainEnd(view[w].rows, view[w].anchor) = [seq |-> n, hash |-> HashAt(n)]
    /\ \A k \in n + 1 .. Len(log) : log[k] \notin aged
SnapshotsRecent ==
    \A w \in SnapshotWriters : phase[w] = "begun" => \E n \in 0 .. Len(log) : RecentView(w, n)
OnlyOldPurged ==
    /\ aged \subseteq Logged
    /\ \A k \in 1 .. anchor.seq : log[k] \in aged
\* What a purger is about to delete is an old beginning of the table.
DoomedIsPrefix ==
    \A p \in Purgers :
        /\ chosen[p] \subseteq aged
        /\ phase[p] = "doomed" => doomed[p] # {}
        /\ doomed[p] \subseteq rows
        /\ \A x \in doomed[p], y \in rows :
              /\ x.hash \in aged
              /\ y.seq <= x.seq => y \in doomed[p]
Distinct == \A j, k \in DOMAIN log : log[j] = log[k] => j = k
ChainInv ==
    /\ TableIsLog /\ Distinct /\ OneWriterInside /\ DraftIsNext
    /\ SnapshotsRecent /\ OnlyOldPurged /\ DoomedIsPrefix
=============================================================================
