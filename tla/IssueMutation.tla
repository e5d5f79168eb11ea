--------------------------- MODULE IssueMutation ----------------------------
(***************************************************************************)
(* The handlers that change an issue row, interleaved at the granularity   *)
(* of their database statements (READ COMMITTED, one row lock held from    *)
(* the UPDATE to the COMMIT, so the UPDATE and everything after it in the  *)
(* same transaction is one step here):                                     *)
(*                                                                         *)
(*   ui          PATCH /api/issues/:id        (src/app/api/issues/[id])    *)
(*   v1          PATCH /api/v1/issues/:id     (src/app/api/v1/issues/[id]) *)
(*   bulk        one item of a bulk operation (ops/bulk-worker.mjs)        *)
(*   archive, restore                         (issues/[id], .../archive)   *)
(*   automation  SET_PRIORITY of a rule       (ops/automation-worker.mjs)  *)
(*   remap       status.delete with remapping (.../workflow/route.ts)      *)
(*                                                                         *)
(* The fields of a row other than version, status and archivedAt are one   *)
(* abstract "content".  Conditions and validators of a transition and the  *)
(* custom field checks can only refuse a request: they are Refuse.         *)
(***************************************************************************)
EXTENDS Integers, FiniteSets, Sequences

CONSTANTS
    Issues, Statuses, Contents,
    Transitions,   \* enabled rows of WorkflowTransition, pairs of statuses
    FirstStatus,   \* status of a created issue
    WipLimit,      \* limit of the board column of a status, 0 for none
    Requests,      \* slots for requests that run at the same time
    Kinds,         \* the kinds of request a run lets in
    Unset,         \* a field that a request does not carry
    MaxVersion     \* bound: no request is opened on a row past this version

Editors == {"ui", "v1", "bulk"}
Guarded == {"v1", "bulk"}
RequestKinds == Editors \cup {"archive", "restore", "automation", "remap"}

ASSUME ConstantsAssumption ==
    /\ FirstStatus \in Statuses
    /\ Transitions \subseteq Statuses \X Statuses
    /\ WipLimit \in [Statuses -> Nat]
    /\ Kinds \subseteq RequestKinds
    /\ Unset \notin Statuses
    /\ Unset \notin Contents
    /\ MaxVersion \in Nat

VARIABLES
    issue,      \* the rows of table Issue
    live,       \* the rows of table Status of the project
    phase,      \* where the handler in a slot is
    job,        \* the request the slot serves
    seen,       \* the row the handler read before its transaction wrote
    reply,      \* version in a successful answer, 0 otherwise
    outbox,     \* WebhookDelivery and AutomationJob rows
    realtime    \* RealtimeEvent rows of the issues, in id order

vars == <<issue, live, phase, job, seen, reply, outbox, realtime>>

Row == [version: Nat, status: Statuses, content: Contents \cup {Unset},
        archived: BOOLEAN]
Job == [kind: RequestKinds, id: Issues, expected: Nat,
        status: Statuses \cup {Unset}, content: Contents \cup {Unset}]
Event == [channel: {"webhook", "automation"}, id: Issues, version: Nat,
          by: Requests]
Notice == [id: Issues, version: Nat]

TypeOK ==
    /\ issue \in [Issues -> Row]
    /\ live \subseteq Statuses
    /\ phase \in [Requests -> {"idle", "open", "loaded", "checked", "done"}]
    /\ job \in [Requests -> Job \cup {Unset}]
    /\ seen \in [Requests -> Row \cup {Unset}]
    /\ \A r \in Requests :
          /\ phase[r] \in {"open", "loaded", "checked"} => job[r] \in Job
          /\ phase[r] \in {"loaded", "checked"} => seen[r] \in Row
    /\ reply \in [Requests -> Nat]
    /\ outbox \subseteq Event
    /\ realtime \in Seq(Notice)

Init ==
    /\ issue = [i \in Issues |-> [version |-> 1, status |-> FirstStatus,
                                  content |-> Unset, archived |-> FALSE]]
    /\ live = Statuses
    /\ phase = [r \in Requests |-> "idle"]
    /\ job = [r \in Requests |-> Unset]
    /\ seen = [r \in Requests |-> Unset]
    /\ reply = [r \in Requests |-> 0]
    /\ outbox = {}
    /\ realtime = <<>>

-----------------------------------------------------------------------------
(* Rules the handlers consult.                                             *)

\* Deleting a status cascades to its transitions.
EnabledTransitions == Transitions \cap (live \X live)

Allowed(from, to) ==
    EnabledTransitions = {} \/ <<from, to>> \in EnabledTransitions

InColumn(s) == Cardinality({i \in Issues : issue[i].status = s /\ ~issue[i].archived})

NeverFull(s) == TRUE
Roomy(s) == WipLimit[s] = 0 \/ InColumn(s) < WipLimit[s]

\* The issue editor skips the rules when the status is the one it loaded;
\* the bulk worker applies them to every status it is asked to set; the v1
\* route has no rules.
MustObeyRules(r) ==
    /\ job[r].status # Unset
    /\ \/ job[r].kind = "ui" /\ job[r].status # seen[r].status
       \/ job[r].kind = "bulk"

\* UPDATE ... WHERE id [AND version], per kind.
AnyVersion(r) == TRUE
VersionHolds(r) ==
    job[r].kind \in Guarded => issue[job[r].id].version = job[r].expected

\* The foreign key of Issue.statusId.
StatusExists(r) == job[r].status \in live \cup {Unset}

AsSent(value, default) == value
Given(value, default) == IF value = Unset THEN default ELSE value

\* data plus version: { increment: 1 }
WrittenOverSeen(row, r) ==
    [version  |-> seen[r].version + 1,
     status   |-> Given(job[r].status, row.status),
     content  |-> Given(job[r].content, row.content),
     archived |-> row.archived]
Written(row, r) ==
    [version  |-> row.version + 1,
     status   |-> Given(job[r].status, row.status),
     content  |-> Given(job[r].content, row.content),
     archived |-> row.archived]

\* createMany with skipDuplicates on the event id, which is built from the
\* issue id and the version just written.
Enqueued(rows, events) ==
    rows \cup {e \in events : \A o \in rows :
                  <<o.channel, o.id, o.version>> # <<e.channel, e.id, e.version>>}

Channels(kind) ==
    {c \in {"webhook", "automation"} :
        kind = "ui" \/ (kind = "v1" /\ c = "webhook")}

\* The version a realtime event carries: the bulk worker computes it.
Announced(r, new) ==
    IF job[r].kind = "bulk" THEN job[r].expected + 1 ELSE new.version

-----------------------------------------------------------------------------
(* Handlers of one row that decide first and write later.                  *)

Answer(r, version) ==
    /\ phase' = [phase EXCEPT ![r] = "done"]
    /\ reply' = [reply EXCEPT ![r] = version]
    /\ seen' = [seen EXCEPT ![r] = Unset]
    /\ UNCHANGED job

\* An error answer (4xx, 5xx, a FAILED item) changes nothing: the slot is free.
Reject(r) ==
    /\ phase' = [phase EXCEPT ![r] = "idle"]
    /\ reply' = [reply EXCEPT ![r] = 0]
    /\ seen' = [seen EXCEPT ![r] = Unset]
    /\ job' = [job EXCEPT ![r] = Unset]

\* A client looks at a live row and sends a request about it.  A bulk
\* operation stores the version as the item's expectedVersion; the issue
\* editor may leave the version out.
Open(r) ==
    /\ phase[r] \in {"idle", "done"}
    /\ \E kind \in Kinds \cap Editors, i \in Issues,
          s \in live \cup {Unset}, c \in Contents \cup {Unset} :
        /\ s # Unset \/ c # Unset
        /\ ~issue[i].archived
        /\ issue[i].version < MaxVersion
        /\ \E v \in {issue[i].version} \cup (IF kind = "ui" THEN {0} ELSE {}) :
              job' = [job EXCEPT ![r] = [kind |-> kind, id |-> i, expected |-> v,
                                         status |-> s, content |-> c]]
    /\ phase' = [phase EXCEPT ![r] = "open"]
    /\ seen' = [seen EXCEPT ![r] = Unset]
    /\ reply' = [reply EXCEPT ![r] = 0]
    /\ UNCHANGED <<issue, live, outbox, realtime>>

Acceptable(r) ==
    LET row == issue[job[r].id] IN
    /\ ~row.archived
    /\ job[r].expected \in {row.version} \cup (IF job[r].kind = "ui" THEN {0} ELSE {})
    /\ StatusExists(r)

\* The handler reads the row; 404 when archived, 409 when the version of the
\* request is stale, 400 when the status is unknown.
Load(r) ==
    /\ phase[r] = "open"
    /\ \/ /\ Acceptable(r)
          /\ seen' = [seen EXCEPT ![r] = issue[job[r].id]]
          /\ phase' = [phase EXCEPT ![r] = "loaded"]
          /\ UNCHANGED <<job, reply>>
       \/ /\ ~Acceptable(r)
          /\ Reject(r)
    /\ UNCHANGED <<issue, live, outbox, realtime>>

\* Workflow transition from the status that was read, then the count of the
\* target column.
Check(r) ==
    /\ phase[r] = "loaded"
    /\ job[r].kind # "v1"
    /\ IF MustObeyRules(r) => /\ Allowed(seen[r].status, job[r].status)
                              /\ Roomy(job[r].status)
       THEN /\ phase' = [phase EXCEPT ![r] = "checked"]
            /\ UNCHANGED <<job, seen, reply>>
       ELSE Reject(r)
    /\ UNCHANGED <<issue, live, outbox, realtime>>

ReadyToWrite(r) ==
    \/ phase[r] = "checked"
    \/ phase[r] = "loaded" /\ job[r].kind = "v1"

\* UPDATE, outbox rows, realtime event, COMMIT; or no row matched.
Commit(r) ==
    LET i   == job[r].id
        new == Written(issue[i], r)
    IN
    /\ ReadyToWrite(r)
    /\ \/ /\ VersionHolds(r) /\ StatusExists(r)
          /\ issue' = [issue EXCEPT ![i] = new]
          /\ outbox' = Enqueued(outbox,
                [channel: Channels(job[r].kind), id: {i},
                 version: {new.version}, by: {r}])
          /\ realtime' = IF job[r].kind = "v1" THEN realtime
                         ELSE Append(realtime, [id |-> i, version |-> Announced(r, new)])
          /\ Answer(r, new.version)
       \/ /\ ~(VersionHolds(r) /\ StatusExists(r))
          /\ Reject(r)
          /\ UNCHANGED <<issue, outbox, realtime>>
    /\ UNCHANGED live

\* A transition condition, a validator or a custom field refuses the
\* request, or the process dies: the transaction rolls back.
Refuse(r) ==
    /\ phase[r] \in {"open", "loaded", "checked"}
    /\ Reject(r)
    /\ UNCHANGED <<issue, live, outbox, realtime>>

-----------------------------------------------------------------------------
(* Handlers that write by id whatever the row has become: their read only  *)
(* establishes that the row exists and that the caller may write it.       *)

ArchivedQuietly(row, b) == [row EXCEPT !.archived = b]
ArchivedRow(row, b) ==
    [version |-> row.version + 1, status |-> row.status,
     content |-> row.content, archived |-> b]

\* DELETE /api/issues/:id and PATCH .../archive
SetArchived(i) ==
    \E kind \in Kinds \cap {"archive", "restore"} :
        /\ issue[i].version < MaxVersion
        /\ issue' = [issue EXCEPT ![i] = ArchivedRow(issue[i], kind = "archive")]
        /\ UNCHANGED <<live, phase, job, seen, reply, outbox, realtime>>

Prioritised(row, c) ==
    [version |-> row.version + 1, status |-> row.status,
     content |-> c, archived |-> row.archived]

\* updateMany({ id, workspaceId }, { priority, version: { increment: 1 } })
SetPriority(i) ==
    /\ "automation" \in Kinds
    /\ issue[i].version < MaxVersion
    /\ \E c \in Contents :
          issue' = [issue EXCEPT ![i] = Prioritised(issue[i], c)]
    /\ UNCHANGED <<live, phase, job, seen, reply, outbox, realtime>>

\* Only the live rows would be moved: the archived ones keep the old status.
RemappedLive(row, from, to) ==
    IF row.status = from /\ ~row.archived THEN [row EXCEPT !.status = to] ELSE row
\* Every row in the deleted status moves; its version stays as it was.
Remapped(row, from, to) ==
    IF row.status = from THEN [row EXCEPT !.status = to] ELSE row

DeleteStatus(from, to) ==
    /\ "remap" \in Kinds
    /\ from \in live /\ to \in live /\ from # to
    /\ issue' = [i \in Issues |-> Remapped(issue[i], from, to)]
    /\ live' = live \ {from}
    /\ UNCHANGED <<phase, job, seen, reply, outbox, realtime>>

Next ==
    \/ \E r \in Requests :
          \/ Open(r) \/ Load(r) \/ Check(r) \/ Commit(r) \/ Refuse(r)
    \/ \E i \in Issues : SetArchived(i) \/ SetPriority(i)
    \/ \E from, to \in Statuses : DeleteStatus(from, to)

Spec == Init /\ [][Next]_vars
-----------------------------------------------------------------------------
(* Properties.                                                             *)

\* The request of slot r is answered with a new version in this step.
Answers(r) == phase[r] # "done" /\ phase'[r] = "done"

\* The version stands for the whole row: whoever still holds the current
\* version holds the current fields and archive flag, and the current status
\* unless a status was deleted meanwhile.  Every writer but the remapping of a
\* status has to increment the version for this.
Deciding(r) == phase[r] \in {"loaded", "checked"}
AsSeen(r) ==
    LET row == issue[job[r].id] IN
    /\ seen[r].content = row.content
    /\ seen[r].archived = row.archived
    /\ live = Statuses => seen[r].status = row.status
HoldsCurrentRow(r) ==
    Deciding(r) /\ seen[r].version = issue[job[r].id].version => AsSeen(r)

\* Inductive form: what a handler relies on when it comes to write.
RequestInv(r) ==
    /\ HoldsCurrentRow(r)
    /\ phase[r] \in {"open", "loaded", "checked"} =>
          /\ job[r].kind \in Kinds \cap Editors
          /\ job[r].kind \in Guarded => job[r].expected # 0
    /\ Deciding(r) =>
          /\ seen[r].version <= issue[job[r].id].version
          /\ ~seen[r].archived
          /\ job[r].expected # 0 => job[r].expected = seen[r].version
    /\ phase[r] = "checked" /\ job[r].kind = "bulk" /\ job[r].status # Unset
          /\ live = Statuses => Allowed(seen[r].status, job[r].status)
HandlerInv ==
    /\ \A i \in Issues : issue[i].version > 0
    /\ \A r \in Requests : RequestInv(r)

\* A guarded request replaces the very row its decisions were made on, which
\* is live: nothing that was committed between its read and its UPDATE is
\* overwritten (v1/issues/[id]/route.ts:4, bulk-worker.mjs:4).
NoLostUpdate ==
    [][\A r \in Requests : Answers(r) /\ job[r].kind \in Guarded
          => AsSeen(r) /\ ~issue[job[r].id].archived]_vars

\* The same said of the issue editor, for requests that carry a version
\* (issues/[id]/route.ts:45 and :131).
EditorLosesNoUpdate ==
    [][\A r \in Requests : Answers(r) /\ job[r].kind = "ui" /\ job[r].expected # 0
          => AsSeen(r)]_vars

\* Every edit can be thought of as one indivisible operation that found a
\* live row and an enabled transition from its status at that instant.
Atomic == INSTANCE AtomicIssues WITH
    NoContent <- Unset,
    Direct <- "v1" \in Kinds,
    Rules <- "automation" \in Kinds,
    Remaps <- "remap" \in Kinds
EditsAreAtomic == Atomic!AtomicSpec

\* A bulk item moves an issue along a transition that is enabled from the
\* status the row really leaves, whatever other writers did meanwhile, unless
\* a status was deleted under it.
BulkFollowsWorkflow ==
    [][\A r \in Requests :
          /\ Answers(r) /\ live = Statuses
          /\ job[r].kind = "bulk" /\ job[r].status # Unset
          => Allowed(issue[job[r].id].status, job[r].status)]_vars

\* Every answered edit has its webhook row: two commits never build the same
\* event id, which skipDuplicates would drop without a trace.
NoEventLost ==
    \A r \in Requests :
        phase[r] = "done" /\ job[r].kind \in {"ui", "v1"}
        => \E e \in outbox : /\ e.channel = "webhook" /\ e.by = r
                             /\ e.id = job[r].id /\ e.version = reply[r]

\* Browsers see the versions of an issue grow: a realtime event never
\* announces a version that an earlier event has reached already, nor one
\* the row does not have yet.
RealtimeInOrder ==
    \A m \in 1 .. Len(realtime) :
        /\ realtime[m].version <= issue[realtime[m].id].version
        /\ \A n \in 1 .. m - 1 : realtime[n].id = realtime[m].id
              => realtime[n].version < realtime[m].version

\* Both: no commit goes unannounced, nor is announced out of turn.
EventsComplete == NoEventLost /\ RealtimeInOrder

\* The count of a column and the move into it are not one step, so a limit
\* can be overrun, but only by the moves that were under way together: at
\* most one per additional slot (issues/[id]/route.ts:122, bulk-worker.mjs:4).
\* Where API v1, restoring and remapping take part they ignore the limit.
WipOverrunBounded ==
    \A s \in Statuses : WipLimit[s] > 0
        => InColumn(s) <= WipLimit[s] + Cardinality(Requests) - 1

\* No issue, archived ones included, is left in a status that was deleted.
StatusesExist == \A i \in Issues : issue[i].status \in live
=============================================================================
