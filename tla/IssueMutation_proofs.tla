------------------------ MODULE IssueMutation_proofs ------------------------
(***************************************************************************)
(* For every set of issues, statuses, request slots and versions:          *)
(*  - the types of the tables and of the requests;                         *)
(*  - the version of a row stands for the row, up to a remapped status;    *)
(*  - hence the version guarded handlers lose no update, bulk items follow *)
(*    the workflow, and without the issue editor the handlers implement    *)
(*    AtomicIssues;                                                        *)
(*  - deleted statuses leave no issue behind, every commit has its events, *)
(*    and a limit is overrun by the other requests under way at most.      *)
(***************************************************************************)
EXTENDS IssueMutation, FiniteSetTheorems, TLAPS

-----------------------------------------------------------------------------
(* Types.                                                                  *)

\* The row a request writes has the type of a row.
LEMMA WrittenType ==
    ASSUME TypeOK, NEW r \in Requests, ReadyToWrite(r), StatusExists(r)
    PROVE  Written(issue[job[r].id], r) \in Row
  <1>1. job[r] \in Job /\ issue[job[r].id] \in Row
    BY DEF TypeOK, ReadyToWrite, Job
  <1>2. job[r].status \in Statuses \cup {Unset} /\ job[r].content \in Contents \cup {Unset}
    BY <1>1 DEF Job
  <1>3. QED
    BY <1>1, <1>2 DEF Written, Given, Row

\* Adding the events of one commit keeps the outbox rows well formed.
LEMMA EnqueuedType ==
    ASSUME NEW rows, rows \subseteq Event, NEW i \in Issues, NEW v \in Nat,
           NEW r \in Requests, NEW kind \in RequestKinds
    PROVE  Enqueued(rows, [channel: Channels(kind), id: {i}, version: {v}, by: {r}])
              \subseteq Event
  <1>1. Channels(kind) \subseteq {"webhook", "automation"}
    BY DEF Channels
  <1>2. [channel: Channels(kind), id: {i}, version: {v}, by: {r}] \subseteq Event
    BY <1>1 DEF Event
  <1>3. QED
    BY <1>2 DEF Enqueued

LEMMA RejectType ==
    ASSUME TypeOK, NEW r \in Requests, Reject(r),
           UNCHANGED <<issue, live, outbox, realtime>>
    PROVE  TypeOK'
  BY DEF TypeOK, Reject

\* Every reachable state is well typed: rows, requests, what a handler has
\* read, outbox and realtime rows (all handlers).
THEOREM TypeCorrect == Spec => []TypeOK
  <1>1. Init => TypeOK
    BY ConstantsAssumption DEF Init, TypeOK, Row
  <1>2. TypeOK /\ [Next]_vars => TypeOK'
    <2> SUFFICES ASSUME TypeOK, [Next]_vars
                 PROVE  TypeOK'
      OBVIOUS
    <2>1. ASSUME NEW r \in Requests, Open(r) PROVE TypeOK'
      <3>1. PICK kind \in Kinds \cap Editors, i \in Issues,
                 s \in live \cup {Unset}, c \in Contents \cup {Unset} :
              \E v \in {issue[i].version} \cup (IF kind = "ui" THEN {0} ELSE {}) :
                 job' = [job EXCEPT ![r] = [kind |-> kind, id |-> i, expected |-> v,
                                            status |-> s, content |-> c]]
        BY <2>1 DEF Open
      <3> PICK v \in {issue[i].version} \cup (IF kind = "ui" THEN {0} ELSE {}) :
              job' = [job EXCEPT ![r] = [kind |-> kind, id |-> i, expected |-> v,
                                         status |-> s, content |-> c]]
        BY <3>1
      <3>2. v \in Nat /\ s \in Statuses \cup {Unset} /\ kind \in RequestKinds
        BY DEF TypeOK, Row, RequestKinds
      <3>3. [kind |-> kind, id |-> i, expected |-> v, status |-> s, content |-> c] \in Job
        BY <3>2 DEF Job
      <3>4. QED
        BY <2>1, <3>3 DEF Open, TypeOK
    <2>2. ASSUME NEW r \in Requests, Load(r) PROVE TypeOK'
      <3>1. CASE Acceptable(r)
        <4>1. job[r] \in Job /\ issue[job[r].id] \in Row
          BY <2>2 DEF Load, TypeOK, Job
        <4>2. /\ seen' = [seen EXCEPT ![r] = issue[job[r].id]]
              /\ phase' = [phase EXCEPT ![r] = "loaded"]
              /\ UNCHANGED <<issue, live, job, reply, outbox, realtime>>
          <5>1. ~(Reject(r) /\ ~Acceptable(r))
            BY <3>1
          <5>2. QED
            BY <2>2, <5>1 DEF Load
        <4>3. QED
          BY <4>1, <4>2 DEF TypeOK
      <3>2. CASE ~Acceptable(r)
        BY <2>2, <3>2, RejectType DEF Load
      <3>3. QED
        BY <3>1, <3>2
    <2>3. ASSUME NEW r \in Requests, Check(r) PROVE TypeOK'
      <3>1. CASE Reject(r)
        BY <2>3, <3>1, RejectType DEF Check
      <3>2. CASE ~Reject(r)
        BY <2>3, <3>2 DEF Check, TypeOK
      <3>3. QED
        BY <3>1, <3>2
    <2>4. ASSUME NEW r \in Requests, Commit(r) PROVE TypeOK'
      <3>1. CASE VersionHolds(r) /\ StatusExists(r)
        <4> DEFINE i == job[r].id
                   new == Written(issue[i], r)
        <4>1. job[r] \in Job /\ i \in Issues
          BY <2>4 DEF TypeOK, Commit, ReadyToWrite, Job
        <4>2. new \in Row /\ new.version \in Nat
          BY <2>4, <3>1, WrittenType DEF Commit, Row
        <4>3. outbox' \subseteq Event
          <5>1. job[r].kind \in RequestKinds
            BY <4>1 DEF Job
          <5>2. outbox' = Enqueued(outbox, [channel: Channels(job[r].kind), id: {i},
                                            version: {new.version}, by: {r}])
            BY <2>4, <3>1 DEF Commit
          <5>3. QED
            <6>1. outbox \subseteq Event
              BY DEF TypeOK
            <6>2. QED
              BY <4>1, <4>2, <5>1, <5>2, <6>1, EnqueuedType
        <4>4. realtime' \in Seq(Notice)
          <5>1. [id |-> i, version |-> Announced(r, new)] \in Notice
            BY <4>1, <4>2 DEF Notice, Job, Announced
          <5>2. realtime' \in {realtime, Append(realtime, [id |-> i, version |-> Announced(r, new)])}
            BY <2>4, <3>1 DEF Commit
          <5>3. \A s \in Seq(Notice), n \in Notice : Append(s, n) \in Seq(Notice)
            OBVIOUS
          <5>4. QED
            BY <5>1, <5>2, <5>3 DEF TypeOK
        <4>5. issue' \in [Issues -> Row] /\ reply' \in [Requests -> Nat]
          BY <2>4, <3>1, <4>1, <4>2 DEF Commit, Answer, TypeOK
        <4>6. QED
          BY <2>4, <3>1, <4>3, <4>4, <4>5 DEF Commit, Answer, TypeOK
      <3>2. CASE ~(VersionHolds(r) /\ StatusExists(r))
        BY <2>4, <3>2, RejectType DEF Commit
      <3>3. QED
        BY <3>1, <3>2
    <2>5. ASSUME NEW r \in Requests, Refuse(r) PROVE TypeOK'
      BY <2>5, RejectType DEF Refuse
    <2>6. ASSUME NEW i \in Issues, SetArchived(i) PROVE TypeOK'
      <3>1. PICK b \in BOOLEAN : issue' = [issue EXCEPT ![i] = ArchivedRow(issue[i], b)]
        BY <2>6 DEF SetArchived
      <3>2. ArchivedRow(issue[i], b) \in Row
        <4>1. issue[i] \in Row
          BY DEF TypeOK
        <4>2. QED
          BY <4>1 DEF ArchivedRow, Row
      <3>3. QED
        BY <2>6, <3>1, <3>2 DEF SetArchived, TypeOK
    <2>7. ASSUME NEW i \in Issues, SetPriority(i) PROVE TypeOK'
      <3>1. PICK c \in Contents :
              issue' = [issue EXCEPT ![i] = Prioritised(issue[i], c)]
        BY <2>7 DEF SetPriority
      <3>2. Prioritised(issue[i], c) \in Row
        <4>1. issue[i] \in Row
          BY DEF TypeOK
        <4>2. QED
          BY <4>1 DEF Prioritised, Row
      <3>3. QED
        BY <2>7, <3>1, <3>2 DEF SetPriority, TypeOK
    <2>8. ASSUME NEW from \in Statuses, NEW to \in Statuses, DeleteStatus(from, to)
          PROVE  TypeOK'
      <3>1. \A i \in Issues : Remapped(issue[i], from, to) \in Row
        BY DEF Remapped, TypeOK, Row
      <3>2. QED
        BY <2>8, <3>1 DEF DeleteStatus, TypeOK
    <2>9. CASE UNCHANGED vars
      BY <2>9 DEF vars, TypeOK
    <2>10. QED
      BY <2>1, <2>2, <2>3, <2>4, <2>5, <2>6, <2>7, <2>8, <2>9 DEF Next
  <1>3. QED
    BY <1>1, <1>2, PTL DEF Spec

-----------------------------------------------------------------------------
(* The version stands for the row.                                         *)

\* What one step does to a row: it leaves the row as it is, raises its version
\* by one, or deletes a status and changes nothing but the status of the row.
RowsMoveOn ==
    /\ live' = live \/ live' # Statuses
    /\ \A i \in Issues :
          \/ issue'[i] = issue[i]
          \/ issue'[i].version = issue[i].version + 1
          \/ /\ live' # Statuses
             /\ issue'[i].version = issue[i].version
             /\ issue'[i].content = issue[i].content
             /\ issue'[i].archived = issue[i].archived

\* A slot that does not take part in a step keeps its invariant: if its row
\* moved on, the version it holds is stale from now on.
LEMMA BystanderKeepsInv ==
    ASSUME TypeOK, NEW r \in Requests, RequestInv(r), RowsMoveOn,
           phase'[r] = phase[r], job'[r] = job[r], seen'[r] = seen[r]
    PROVE  RequestInv(r)'
  <1>1. CASE ~(phase[r] \in {"open", "loaded", "checked"})
    BY <1>1 DEF RequestInv, HoldsCurrentRow, Deciding
  <1>2. CASE phase[r] = "open"
    BY <1>2 DEF RequestInv, HoldsCurrentRow, Deciding
  <1>3. CASE Deciding(r)
    <2>1. /\ job[r] \in Job /\ seen[r] \in Row
          /\ job[r].id \in Issues
      BY <1>3 DEF Deciding, TypeOK, Job
    <2>2. issue[job[r].id] \in Row
      BY <2>1 DEF TypeOK
    <2>3. seen[r].version \in Nat /\ issue[job[r].id].version \in Nat
      BY <2>1, <2>2 DEF Row
    <2>4. /\ live' = live \/ live' # Statuses
          /\ \/ issue'[job[r].id] = issue[job[r].id]
             \/ issue'[job[r].id].version = issue[job[r].id].version + 1
             \/ /\ live' # Statuses
                /\ issue'[job[r].id].version = issue[job[r].id].version
                /\ issue'[job[r].id].content = issue[job[r].id].content
                /\ issue'[job[r].id].archived = issue[job[r].id].archived
      BY <2>1 DEF RowsMoveOn
    <2>5. /\ HoldsCurrentRow(r)
          /\ seen[r].version <= issue[job[r].id].version
      BY <1>3 DEF RequestInv
    <2>6. /\ seen[r].version <= issue'[job[r].id].version
          /\ HoldsCurrentRow(r)'
      <3>1. seen[r].version <= issue'[job[r].id].version
        BY <2>3, <2>4, <2>5
      <3>2. ASSUME seen[r].version = issue'[job[r].id].version
            PROVE  /\ seen[r].content = issue'[job[r].id].content
                   /\ seen[r].archived = issue'[job[r].id].archived
                   /\ live' = Statuses => seen[r].status = issue'[job[r].id].status
        <4>1. seen[r].version = issue[job[r].id].version
          BY <2>3, <2>4, <2>5, <3>2
        <4>2. AsSeen(r)
          BY <1>3, <2>5, <4>1 DEF HoldsCurrentRow
        <4>3. issue'[job[r].id].version # issue[job[r].id].version + 1
          BY <2>3, <3>2, <4>1
        <4>4. QED
          BY <2>4, <4>2, <4>3 DEF AsSeen
      <3>3. QED
        BY <3>1, <3>2 DEF HoldsCurrentRow, AsSeen
    <2>7. phase[r] = "checked" /\ job[r].kind = "bulk" /\ job[r].status # Unset
             /\ live' = Statuses => Allowed(seen[r].status, job[r].status)'
      BY <2>4 DEF RequestInv, Allowed, EnabledTransitions
    <2>8. QED
      BY <1>3, <2>6, <2>7 DEF RequestInv, Deciding
  <1>4. QED
    BY <1>1, <1>2, <1>3 DEF Deciding

\* A slot that is idle or answered has nothing to rely on.
LEMMA RestingInv ==
    ASSUME NEW r \in Requests, phase'[r] \in {"idle", "done"}
    PROVE  RequestInv(r)'
  BY DEF RequestInv, HoldsCurrentRow, Deciding

LEMMA VersionStep ==
    ASSUME TypeOK, HandlerInv, [Next]_vars
    PROVE  HandlerInv'
  <1> USE DEF HandlerInv
  <1>1. ASSUME NEW r \in Requests, Open(r) PROVE HandlerInv'
    <2>1. /\ RowsMoveOn /\ live' = live
          /\ \A q \in Requests \ {r} : phase'[q] = phase[q] /\ job'[q] = job[q] /\ seen'[q] = seen[q]
      BY <1>1 DEF Open, RowsMoveOn, TypeOK
    <2>2. RequestInv(r)'
      <3>1. PICK kind \in Kinds \cap Editors, i \in Issues,
                 s \in live \cup {Unset}, c \in Contents \cup {Unset} :
              \E v \in {issue[i].version} \cup (IF kind = "ui" THEN {0} ELSE {}) :
                 job' = [job EXCEPT ![r] = [kind |-> kind, id |-> i, expected |-> v,
                                            status |-> s, content |-> c]]
        BY <1>1 DEF Open
      <3>2. job'[r].kind = kind /\ (kind \in Guarded => job'[r].expected = issue[i].version)
        BY <3>1 DEF TypeOK, Guarded
      <3>3. phase'[r] = "open"
        BY <1>1 DEF Open, TypeOK
      <3>4. issue[i].version # 0
        BY DEF TypeOK, Row
      <3>5. QED
        BY <3>2, <3>3, <3>4 DEF RequestInv, HoldsCurrentRow, Deciding
    <2>3. QED
      BY <1>1, <2>1, <2>2, BystanderKeepsInv DEF Open
  <1>2. ASSUME NEW r \in Requests, Load(r) PROVE HandlerInv'
    <2>1. /\ RowsMoveOn /\ issue' = issue /\ live' = live
          /\ \A q \in Requests \ {r} : phase'[q] = phase[q] /\ job'[q] = job[q] /\ seen'[q] = seen[q]
      BY <1>2 DEF Load, Reject, RowsMoveOn, TypeOK
    <2>2. CASE Acceptable(r)
      <3>1. /\ job'[r] = job[r] /\ seen'[r] = issue[job[r].id] /\ phase'[r] = "loaded"
        BY <1>2, <2>2 DEF Load, TypeOK
      <3>2. job[r] \in Job /\ issue[job[r].id] \in Row
        BY <1>2 DEF Load, TypeOK, Job
      <3>3. RequestInv(r)'
        BY <1>2, <2>1, <2>2, <3>1, <3>2
           DEF Load, Acceptable, RequestInv, HoldsCurrentRow, AsSeen, Deciding, Row
      <3>4. QED
        BY <2>1, <3>3, BystanderKeepsInv
    <2>3. CASE ~Acceptable(r)
      <3>1. phase'[r] = "idle"
        BY <1>2, <2>3 DEF Load, Reject, TypeOK
      <3>2. QED
        BY <2>1, <3>1, RestingInv, BystanderKeepsInv
    <2>4. QED
      BY <2>2, <2>3
  <1>3. ASSUME NEW r \in Requests, Check(r) PROVE HandlerInv'
    <2>1. /\ RowsMoveOn /\ issue' = issue /\ live' = live
          /\ \A q \in Requests \ {r} : phase'[q] = phase[q] /\ job'[q] = job[q] /\ seen'[q] = seen[q]
      BY <1>3 DEF Check, Reject, RowsMoveOn, TypeOK
    <2>2. CASE MustObeyRules(r) => Allowed(seen[r].status, job[r].status) /\ Roomy(job[r].status)
      <3>1. /\ job'[r] = job[r] /\ seen'[r] = seen[r] /\ phase'[r] = "checked"
            /\ phase[r] = "loaded"
        BY <1>3, <2>2 DEF Check, TypeOK
      <3>2. job[r].kind = "bulk" /\ job[r].status # Unset => Allowed(seen[r].status, job[r].status)
        BY <2>2 DEF MustObeyRules
      <3>3. RequestInv(r)'
        BY <2>1, <3>1, <3>2
           DEF RequestInv, HoldsCurrentRow, AsSeen, Deciding, Allowed, EnabledTransitions
      <3>4. QED
        BY <2>1, <3>3, BystanderKeepsInv
    <2>3. CASE ~(MustObeyRules(r) => Allowed(seen[r].status, job[r].status) /\ Roomy(job[r].status))
      <3>1. phase'[r] = "idle"
        BY <1>3, <2>3 DEF Check, Reject, TypeOK
      <3>2. QED
        BY <2>1, <3>1, RestingInv, BystanderKeepsInv
    <2>4. QED
      BY <2>2, <2>3
  <1>4. ASSUME NEW r \in Requests, Commit(r) PROVE HandlerInv'
    <2>1. /\ live' = live /\ phase'[r] \in {"idle", "done"}
          /\ \A q \in Requests \ {r} : phase'[q] = phase[q] /\ job'[q] = job[q] /\ seen'[q] = seen[q]
      BY <1>4 DEF Commit, Reject, Answer, TypeOK
    <2>2. /\ RowsMoveOn
          /\ \A i \in Issues : issue'[i].version > 0
      <3>1. job[r].id \in Issues
        BY <1>4 DEF Commit, ReadyToWrite, TypeOK, Job
      <3>2. \/ issue' = issue
            \/ issue' = [issue EXCEPT ![job[r].id] = Written(issue[job[r].id], r)]
        BY <1>4 DEF Commit
      <3>3. Written(issue[job[r].id], r).version = issue[job[r].id].version + 1
        BY DEF Written
      <3>4. \A i \in Issues : issue[i].version \in Nat
        BY DEF TypeOK, Row
      <3>5. \A i \in Issues : \/ issue'[i] = issue[i]
                             \/ issue'[i].version = issue[i].version + 1
        <4>1. CASE issue' = issue
          BY <4>1
        <4>2. CASE issue' = [issue EXCEPT ![job[r].id] = Written(issue[job[r].id], r)]
          BY <3>1, <3>3, <4>2 DEF TypeOK
        <4>3. QED
          BY <3>2, <4>1, <4>2
      <3>6. QED
        BY <2>1, <3>4, <3>5 DEF RowsMoveOn
    <2>3. QED
      BY <2>1, <2>2, RestingInv, BystanderKeepsInv
  <1>5. ASSUME NEW r \in Requests, Refuse(r) PROVE HandlerInv'
    <2>1. /\ RowsMoveOn /\ live' = live /\ phase'[r] = "idle" /\ issue' = issue
          /\ \A q \in Requests \ {r} : phase'[q] = phase[q] /\ job'[q] = job[q] /\ seen'[q] = seen[q]
      BY <1>5 DEF Refuse, Reject, RowsMoveOn, TypeOK
    <2>2. QED
      BY <2>1, RestingInv, BystanderKeepsInv
  <1>6. ASSUME NEW i \in Issues, SetArchived(i) \/ SetPriority(i) PROVE HandlerInv'
    <2>1. UNCHANGED <<live, phase, job, seen>>
      BY <1>6 DEF SetArchived, SetPriority
    <2>2. \E row : /\ issue' = [issue EXCEPT ![i] = row]
                   /\ row.version = issue[i].version + 1
      <3>1. CASE SetArchived(i)
        <4>1. PICK b : issue' = [issue EXCEPT ![i] = ArchivedRow(issue[i], b)]
          BY <3>1 DEF SetArchived
        <4>2. ArchivedRow(issue[i], b).version = issue[i].version + 1
          BY DEF ArchivedRow
        <4>3. QED
          BY <4>1, <4>2
      <3>2. CASE SetPriority(i)
        <4>1. PICK c : issue' = [issue EXCEPT ![i] = Prioritised(issue[i], c)]
          BY <3>2 DEF SetPriority
        <4>2. Prioritised(issue[i], c).version = issue[i].version + 1
          BY DEF Prioritised
        <4>3. QED
          BY <4>1, <4>2
      <3>3. QED
        BY <1>6, <3>1, <3>2
    <2>3. \A j \in Issues : issue[j].version \in Nat
      BY DEF TypeOK, Row
    <2>4. RowsMoveOn /\ \A j \in Issues : issue'[j].version > 0
      BY <2>1, <2>2, <2>3 DEF RowsMoveOn, TypeOK
    <2>5. QED
      BY <2>1, <2>4, BystanderKeepsInv
  <1>7. ASSUME NEW from \in Statuses, NEW to \in Statuses, DeleteStatus(from, to)
        PROVE  HandlerInv'
    <2>1. UNCHANGED <<phase, job, seen>> /\ live' = live \ {from} /\ from \in Statuses
      BY <1>7 DEF DeleteStatus
    <2>2. \A i \in Issues : issue'[i] = Remapped(issue[i], from, to)
      BY <1>7 DEF DeleteStatus
    <2>3. \A i \in Issues : /\ issue'[i].version = issue[i].version
                           /\ issue'[i].content = issue[i].content
                           /\ issue'[i].archived = issue[i].archived
      <3> TAKE i \in Issues
      <3>1. issue[i] \in Row
        BY DEF TypeOK
      <3>2. issue'[i] \in {issue[i], [issue[i] EXCEPT !.status = to]}
        BY <2>2 DEF Remapped
      <3>3. QED
        BY <3>1, <3>2 DEF Row
    <2>4. RowsMoveOn
      <3>1. live' # Statuses
        BY <2>1
      <3>2. QED
        BY <2>3, <3>1 DEF RowsMoveOn
    <2>5. QED
      BY <2>1, <2>3, <2>4, BystanderKeepsInv
  <1>8. CASE UNCHANGED vars
    <2>1. RowsMoveOn /\ UNCHANGED <<live, phase, job, seen, issue>>
      BY <1>8 DEF vars, RowsMoveOn
    <2>2. QED
      BY <2>1, BystanderKeepsInv
  <1>9. QED
    BY <1>1, <1>2, <1>3, <1>4, <1>5, <1>6, <1>7, <1>8 DEF Next

\* Whoever still holds the current version of an issue holds its current
\* row, whichever handlers run: every writer of the row increments the
\* version, but for the status that a remapping takes away.
THEOREM VersionCorrect == Spec => []HandlerInv
  <1>1. Init => HandlerInv
    BY DEF Init, HandlerInv, RequestInv, HoldsCurrentRow, Deciding
  <1>2. QED
    BY <1>1, VersionStep, TypeCorrect, PTL DEF Spec

-----------------------------------------------------------------------------
(* What the version guard buys.                                            *)

\* A guarded handler that writes, writes over the row it read.
LEMMA GuardHolds ==
    ASSUME TypeOK, HandlerInv, NEW r \in Requests,
           ReadyToWrite(r), VersionHolds(r), job[r].kind \in Guarded
    PROVE  AsSeen(r) /\ ~issue[job[r].id].archived
  <1>1. Deciding(r) /\ RequestInv(r)
    BY DEF ReadyToWrite, Deciding, HandlerInv
  <1>2. issue[job[r].id].version = job[r].expected /\ job[r].expected # 0
    BY <1>1 DEF VersionHolds, RequestInv, Deciding
  <1>3. AsSeen(r)
    BY <1>1, <1>2 DEF RequestInv, HoldsCurrentRow
  <1>4. QED
    BY <1>1, <1>3 DEF RequestInv, AsSeen

\* Only the commit of its own handler answers a request.
LEMMA OnlyCommitAnswers ==
    ASSUME TypeOK, [Next]_vars, NEW r \in Requests, Answers(r)
    PROVE  Commit(r) /\ VersionHolds(r) /\ StatusExists(r)
  <1>1. ASSUME NEW q \in Requests, Open(q) \/ Load(q) \/ Check(q) \/ Refuse(q)
        PROVE  FALSE
    BY <1>1 DEF Open, Load, Check, Refuse, Reject, Answers, TypeOK
  <1>2. ASSUME NEW i \in Issues, SetArchived(i) \/ SetPriority(i) PROVE FALSE
    BY <1>2 DEF SetArchived, SetPriority, Answers
  <1>3. ASSUME NEW from \in Statuses, NEW to \in Statuses, DeleteStatus(from, to)
        PROVE  FALSE
    BY <1>3 DEF DeleteStatus, Answers
  <1>4. ~UNCHANGED vars
    BY DEF vars, Answers
  <1>5. PICK q \in Requests : Commit(q)
    BY <1>1, <1>2, <1>3, <1>4 DEF Next
  <1>6. q = r /\ VersionHolds(q) /\ StatusExists(q)
    BY <1>5 DEF Commit, Reject, Answer, Answers, TypeOK
  <1>7. QED
    BY <1>5, <1>6

\* Bulk items and v1 requests replace the row they were decided on, and it is
\* live, under any interleaving of all seven kinds of handler.
THEOREM GuardedLoseNoUpdate == Spec => NoLostUpdate
  <1>1. TypeOK /\ HandlerInv /\ [Next]_vars
        => [\A r \in Requests : Answers(r) /\ job[r].kind \in Guarded
               => AsSeen(r) /\ ~issue[job[r].id].archived]_vars
    <2> SUFFICES ASSUME TypeOK, HandlerInv, [Next]_vars,
                        NEW r \in Requests, Answers(r), job[r].kind \in Guarded
                 PROVE  AsSeen(r) /\ ~issue[job[r].id].archived
      BY DEF vars
    <2>1. Commit(r) /\ VersionHolds(r)
      BY OnlyCommitAnswers
    <2>2. QED
      BY <2>1, GuardHolds DEF Commit
  <1>2. QED
    BY <1>1, TypeCorrect, VersionCorrect, PTL DEF Spec, NoLostUpdate

\* A bulk item moves an issue along a transition enabled from the status the
\* row leaves, until a status is deleted.
THEOREM BulkObeysRules == Spec => BulkFollowsWorkflow
  <1>1. TypeOK /\ HandlerInv /\ [Next]_vars
        => [\A r \in Requests :
               /\ Answers(r) /\ live = Statuses
               /\ job[r].kind = "bulk" /\ job[r].status # Unset
               => Allowed(issue[job[r].id].status, job[r].status)]_vars
    <2> SUFFICES ASSUME TypeOK, HandlerInv, [Next]_vars, NEW r \in Requests,
                        Answers(r), live = Statuses,
                        job[r].kind = "bulk", job[r].status # Unset
                 PROVE  Allowed(issue[job[r].id].status, job[r].status)
      BY DEF vars
    <2>1. Commit(r) /\ VersionHolds(r)
      BY OnlyCommitAnswers
    <2>2. phase[r] = "checked" /\ ReadyToWrite(r)
      BY <2>1 DEF Commit, ReadyToWrite
    <2>3. seen[r].status = issue[job[r].id].status
      BY <2>1, <2>2, GuardHolds DEF Guarded, AsSeen
    <2>4. Allowed(seen[r].status, job[r].status)
      BY <2>2 DEF HandlerInv, RequestInv
    <2>5. QED
      BY <2>3, <2>4
  <1>2. QED
    BY <1>1, TypeCorrect, VersionCorrect, PTL DEF Spec, BulkFollowsWorkflow

\* A guarded write is an atomic edit of the row it finds.
LEMMA CommitIsEdit ==
    ASSUME "ui" \notin Kinds, "remap" \notin Kinds, live = Statuses,
           TypeOK, HandlerInv, NEW r \in Requests,
           Commit(r), VersionHolds(r), StatusExists(r)
    PROVE  Atomic!Edit(job[r].id)
  <1> DEFINE i == job[r].id
             s == Given(job[r].status, issue[i].status)
             c == Given(job[r].content, issue[i].content)
  <1>1. job[r] \in Job /\ i \in Issues /\ issue[i] \in Row /\ RequestInv(r)
    BY DEF Commit, ReadyToWrite, TypeOK, Job, HandlerInv
  <1>2. job[r].kind \in Kinds \cap Editors /\ job[r].kind \in Guarded
    BY <1>1 DEF Commit, ReadyToWrite, RequestInv, Editors, Guarded
  <1>3. ~issue[i].archived /\ seen[r].status = issue[i].status
    BY <1>2, GuardHolds DEF Commit, AsSeen
  <1>4. s \in Statuses /\ c \in Contents \cup {issue[i].content}
    BY <1>1 DEF Job, Row, Given
  <1>5. s = issue[i].status \/ "v1" \in Kinds \/ Atomic!Reachable(issue[i].status, s)
    <2>1. EnabledTransitions = Transitions
      BY <1>2, ConstantsAssumption DEF EnabledTransitions
    <2>2. CASE job[r].status = Unset
      BY <2>2 DEF Given
    <2>3. CASE job[r].kind = "v1"
      BY <2>3, <1>2
    <2>4. CASE job[r].status # Unset /\ job[r].kind # "v1"
      <3>1. job[r].kind = "bulk"
        BY <2>4, <1>2 DEF Guarded
      <3>2. phase[r] = "checked"
        BY <2>4 DEF Commit, ReadyToWrite
      <3>3. Allowed(issue[i].status, s)
        BY <1>1, <1>3, <2>4, <3>1, <3>2 DEF RequestInv, Given
      <3>4. QED
        BY <2>1, <3>3 DEF Allowed, Atomic!Reachable
    <2>5. QED
      BY <2>2, <2>3, <2>4
  <1>6. issue' = [issue EXCEPT ![i] = [version |-> issue[i].version + 1, status |-> s,
                                       content |-> c, archived |-> FALSE]]
    <2>1. Written(issue[i], r) = [version |-> issue[i].version + 1, status |-> s,
                                  content |-> c, archived |-> issue[i].archived]
      BY DEF Written
    <2>2. issue[i].archived = FALSE
      BY <1>1, <1>3 DEF Row
    <2>3. issue' = [issue EXCEPT ![i] = Written(issue[i], r)]
      BY DEF Commit
    <2>4. QED
      BY <2>1, <2>2, <2>3
  <1>7. QED
    BY <1>3, <1>4, <1>5, <1>6 DEF Atomic!Edit

\* The guarded handlers implement the indivisible operations of AtomicIssues:
\* reading and deciding before the transaction writes makes no difference.
THEOREM GuardedEditsAreAtomic ==
    ASSUME "remap" \notin Kinds, "ui" \notin Kinds
    PROVE  Spec => EditsAreAtomic
  <1>1. Init => Atomic!AtomicInit
    BY DEF Init, Atomic!AtomicInit
  <1>2. Init => live = Statuses
    BY DEF Init
  <1>3. live = Statuses /\ [Next]_vars => (live = Statuses)'
    BY DEF Next, vars, Open, Load, Check, Commit, Refuse, SetArchived,
           SetPriority, DeleteStatus
  <1>4. TypeOK /\ HandlerInv /\ live = Statuses /\ [Next]_vars
        => [Atomic!AtomicNext]_issue
    <2> SUFFICES ASSUME TypeOK, HandlerInv, live = Statuses, [Next]_vars,
                        issue' # issue
                 PROVE  \E i \in Issues : \/ Atomic!Edit(i)
                                          \/ \E b \in BOOLEAN : Atomic!SetArchived(i, b)
                                          \/ Atomic!Automate(i)
      BY DEF Atomic!AtomicNext
    <2>1. ASSUME NEW r \in Requests, Commit(r)
          PROVE  \E i \in Issues : Atomic!Edit(i)
      <3>1. VersionHolds(r) /\ StatusExists(r)
        BY <2>1 DEF Commit
      <3>2. job[r].id \in Issues
        BY <2>1 DEF Commit, ReadyToWrite, TypeOK, Job
      <3>3. QED
        BY <2>1, <3>1, <3>2, CommitIsEdit
    <2>2. ASSUME NEW i \in Issues, SetArchived(i)
          PROVE  \E b \in BOOLEAN : Atomic!SetArchived(i, b)
      <3>1. PICK kind \in Kinds \cap {"archive", "restore"} :
              issue' = [issue EXCEPT ![i] = ArchivedRow(issue[i], kind = "archive")]
        BY <2>2 DEF SetArchived
      <3>2. (kind = "archive") \in BOOLEAN
        OBVIOUS
      <3>3. Atomic!SetArchived(i, kind = "archive")
        BY <3>1 DEF ArchivedRow, Atomic!SetArchived
      <3>4. QED
        BY <3>2, <3>3
    <2>3. ASSUME NEW i \in Issues, SetPriority(i)
          PROVE  Atomic!Automate(i)
      BY <2>3 DEF SetPriority, Prioritised, Atomic!Automate
    <2>4. ASSUME NEW r \in Requests, Open(r) \/ Load(r) \/ Check(r) \/ Refuse(r)
          PROVE  FALSE
      BY <2>4 DEF Open, Load, Check, Refuse
    <2>5. ASSUME NEW from \in Statuses, NEW to \in Statuses, DeleteStatus(from, to)
          PROVE  FALSE
      BY <2>5 DEF DeleteStatus
    <2>6. QED
      BY <2>1, <2>2, <2>3, <2>4, <2>5 DEF Next, vars
  <1>5. QED
    BY <1>1, <1>2, <1>3, <1>4, TypeCorrect, VersionCorrect, PTL
       DEF Spec, EditsAreAtomic, Atomic!AtomicSpec

-----------------------------------------------------------------------------
(* Deleted statuses.                                                       *)

LEMMA StatusStep ==
    ASSUME TypeOK, StatusesExist, [Next]_vars
    PROVE  StatusesExist'
  <1>1. ASSUME NEW r \in Requests, Commit(r) PROVE StatusesExist'
    <2>1. CASE VersionHolds(r) /\ StatusExists(r)
      <3>1. job[r] \in Job /\ job[r].id \in Issues
        BY <1>1 DEF Commit, ReadyToWrite, TypeOK, Job
      <3>2. issue' = [issue EXCEPT ![job[r].id] = Written(issue[job[r].id], r)] /\ live' = live
        BY <1>1, <2>1 DEF Commit
      <3>3. Written(issue[job[r].id], r).status \in live
        BY <2>1, <3>1 DEF StatusesExist, StatusExists, Written, Given
      <3>4. QED
        BY <3>1, <3>2, <3>3 DEF StatusesExist, TypeOK
    <2>2. CASE ~(VersionHolds(r) /\ StatusExists(r))
      BY <1>1, <2>2 DEF Commit, StatusesExist
    <2>3. QED
      BY <2>1, <2>2
  <1>2. ASSUME NEW r \in Requests, Open(r) \/ Load(r) \/ Check(r) \/ Refuse(r) PROVE StatusesExist'
    BY <1>2 DEF Open, Load, Check, Refuse, StatusesExist
  <1>3. ASSUME NEW i \in Issues, SetArchived(i) \/ SetPriority(i) PROVE StatusesExist'
    <2>1. PICK row : issue' = [issue EXCEPT ![i] = row] /\ row.status = issue[i].status
      BY <1>3 DEF SetArchived, SetPriority, ArchivedRow, Prioritised
    <2>2. live' = live
      BY <1>3 DEF SetArchived, SetPriority
    <2>3. QED
      BY <2>1, <2>2 DEF StatusesExist, TypeOK
  <1>4. ASSUME NEW from \in Statuses, NEW to \in Statuses, DeleteStatus(from, to)
        PROVE  StatusesExist'
    <2>1. ASSUME NEW i \in Issues PROVE Remapped(issue[i], from, to).status \in live \ {from}
      <3>1. issue[i] \in Row /\ issue[i].status \in live
        BY DEF TypeOK, StatusesExist
      <3>2. QED
        BY <1>4, <3>1 DEF DeleteStatus, Remapped, Row
    <2>2. QED
      BY <1>4, <2>1 DEF DeleteStatus, StatusesExist
  <1>5. CASE UNCHANGED vars
    BY <1>5 DEF vars, StatusesExist
  <1>6. QED
    BY <1>1, <1>2, <1>3, <1>4, <1>5 DEF Next

\* No issue is ever in a status that was deleted: whoever writes a status has the
\* foreign key tested in its UPDATE, and the remap takes every row along
\* (workflow/route.ts:54).
THEOREM NobodyLeftBehind == Spec => []StatusesExist
  <1>1. Init => StatusesExist
    BY ConstantsAssumption DEF Init, StatusesExist
  <1>2. QED
    BY <1>1, StatusStep, TypeCorrect, PTL DEF Spec

-----------------------------------------------------------------------------
(* Events.                                                                 *)

\* No event is ahead of its row, so the next version makes a new event id.
OutboxBehind == \A e \in outbox : e.version <= issue[e.id].version

EventInv == OutboxBehind /\ EventsComplete

VersionsGrow == \A i \in Issues : issue'[i].version >= issue[i].version

\* Steps that announce nothing and answer nobody.
LEMMA QuietStep ==
    ASSUME TypeOK, EventInv, issue' \in [Issues -> Row], VersionsGrow, UNCHANGED <<outbox, realtime>>,
           \A r \in Requests : phase'[r] = "done" =>
              phase[r] = "done" /\ job'[r] = job[r] /\ reply'[r] = reply[r]
    PROVE  EventInv'
  <1>1. OutboxBehind'
    <2> SUFFICES ASSUME NEW e \in outbox PROVE e.version <= issue'[e.id].version
      BY DEF OutboxBehind
    <2>1. e \in Event /\ e.id \in Issues /\ e.version \in Nat
      BY DEF TypeOK, Event
    <2>2. issue[e.id].version \in Nat /\ issue'[e.id].version \in Nat
      BY <2>1 DEF TypeOK, Row
    <2>3. QED
      BY <2>1, <2>2 DEF EventInv, OutboxBehind, VersionsGrow
  <1>2. NoEventLost'
    BY DEF EventInv, EventsComplete, NoEventLost
  <1>3. RealtimeInOrder'
    <2> SUFFICES ASSUME NEW m \in 1 .. Len(realtime)
                 PROVE  realtime[m].version <= issue'[realtime[m].id].version
      BY DEF RealtimeInOrder, EventInv, EventsComplete
    <2>1. realtime[m] \in Notice
      BY DEF TypeOK
    <2>2. realtime[m].id \in Issues /\ realtime[m].version \in Nat
      BY <2>1 DEF Notice
    <2>3. issue[realtime[m].id].version \in Nat /\ issue'[realtime[m].id].version \in Nat
      BY <2>2 DEF TypeOK, Row
    <2>4. QED
      BY <2>2, <2>3 DEF EventInv, EventsComplete, RealtimeInOrder, VersionsGrow
  <1>4. QED
    BY <1>1, <1>2, <1>3 DEF EventInv, EventsComplete

\* A commit announces the version that it makes, which nobody made before.
LEMMA CommitAnnounces ==
    ASSUME TypeOK, TypeOK', EventInv, NEW r \in Requests, Commit(r), VersionHolds(r), StatusExists(r)
    PROVE  EventInv'
  <1> DEFINE i == job[r].id
             new == Written(issue[i], r)
             kind == job[r].kind
             events == [channel: Channels(kind), id: {i}, version: {new.version}, by: {r}]
             notice == [id |-> i, version |-> Announced(r, new)]
  <1>1. /\ job[r] \in Job /\ i \in Issues /\ kind \in RequestKinds
        /\ issue[i] \in Row /\ issue[i].version \in Nat
    BY DEF Commit, ReadyToWrite, TypeOK, Job, Row
  <1>2. new.version = issue[i].version + 1 /\ new.version \in Nat
    BY <1>1 DEF Written
  <1>3. /\ issue' = [issue EXCEPT ![i] = new]
        /\ outbox' = Enqueued(outbox, events)
        /\ realtime' = IF kind = "v1" THEN realtime ELSE Append(realtime, notice)
        /\ phase' = [phase EXCEPT ![r] = "done"]
        /\ reply' = [reply EXCEPT ![r] = new.version]
        /\ job' = job
    BY DEF Commit, Answer
  <1>4. kind = "bulk" => job[r].expected = issue[i].version
    BY DEF VersionHolds, Guarded
  <1>5. notice.id = i /\ notice.version = new.version
    BY <1>2, <1>4 DEF Announced
  <1>6. \A e \in events : e.id = i /\ e.version = new.version /\ e.by = r /\ e.channel \in Channels(kind)
    OBVIOUS
  <1>7. "webhook" \in Channels(kind) => [channel |-> "webhook", id |-> i, version |-> new.version, by |-> r] \in events
    OBVIOUS
  <1> HIDE DEF notice, events, new
  <1>8. \A j \in Issues : issue'[j] = IF j = i THEN new ELSE issue[j]
    BY <1>3 DEF TypeOK
  <1>9. \A o \in outbox : o \in Event /\ o.id \in Issues /\ o.version \in Nat /\ o.version <= issue[o.id].version
    BY DEF TypeOK, Event, EventInv, OutboxBehind
  <1>10. \A o \in outbox, e \in events : <<o.channel, o.id, o.version>> # <<e.channel, e.id, e.version>>
    BY <1>1, <1>2, <1>6, <1>9
  <1>11. outbox' = outbox \cup events
    BY <1>3, <1>10 DEF Enqueued
  <1>12. OutboxBehind'
    <2> SUFFICES ASSUME NEW e \in outbox' PROVE e.version <= issue'[e.id].version
      BY DEF OutboxBehind
    <2>1. CASE e \in events
      BY <1>1, <1>2, <1>6, <1>8, <2>1
    <2>2. CASE e \in outbox
      <3>1. e.id \in Issues /\ e.version \in Nat /\ e.version <= issue[e.id].version
        BY <1>9, <2>2
      <3>2. CASE e.id = i
        BY <1>1, <1>2, <1>8, <3>1, <3>2
      <3>3. CASE e.id # i
        BY <1>8, <3>1, <3>3
      <3>4. QED
        BY <3>2, <3>3
    <2>3. QED
      BY <1>11, <2>1, <2>2
  <1>13. NoEventLost'
    <2> SUFFICES ASSUME NEW q \in Requests, phase'[q] = "done", job'[q].kind \in {"ui", "v1"}
                 PROVE  \E e \in outbox' : /\ e.channel = "webhook" /\ e.by = q
                                           /\ e.id = job'[q].id /\ e.version = reply'[q]
      BY DEF NoEventLost
    <2>1. CASE q = r
      <3> DEFINE e == [channel |-> "webhook", id |-> i, version |-> new.version, by |-> r]
      <3>1. e \in outbox'
        BY <1>3, <1>7, <1>11, <2>1 DEF Channels
      <3>2. reply'[q] = new.version
        BY <1>3, <2>1 DEF TypeOK
      <3>3. e.channel = "webhook" /\ e.by = q /\ e.id = job'[q].id /\ e.version = reply'[q]
        BY <1>3, <2>1, <3>2
      <3>4. QED
        BY <3>1, <3>3
    <2>2. CASE q # r
      <3>1. phase[q] = "done" /\ reply'[q] = reply[q] /\ job'[q] = job[q]
        BY <1>3, <2>2 DEF TypeOK
      <3>2. QED
        BY <1>11, <3>1 DEF EventInv, EventsComplete, NoEventLost
    <2>3. QED
      BY <2>1, <2>2
  <1>14. realtime \in Seq(Notice) /\ Len(realtime) \in Nat
    BY DEF TypeOK
  <1>15. \A m \in 1 .. Len(realtime) :
           /\ realtime[m].id \in Issues /\ realtime[m].version \in Nat
           /\ realtime[m].version <= issue[realtime[m].id].version
           /\ issue[realtime[m].id].version \in Nat
    <2> SUFFICES ASSUME NEW m \in 1 .. Len(realtime)
                 PROVE  /\ realtime[m].id \in Issues /\ realtime[m].version \in Nat
                        /\ realtime[m].version <= issue[realtime[m].id].version
                        /\ issue[realtime[m].id].version \in Nat
      OBVIOUS
    <2>1. realtime[m] \in Notice
      BY <1>14
    <2>2. realtime[m].id \in Issues /\ realtime[m].version \in Nat
      BY <2>1 DEF Notice
    <2>3. QED
      BY <2>2 DEF TypeOK, Row, EventInv, EventsComplete, RealtimeInOrder
  <1>16. \A m \in 1 .. Len(realtime) :
           /\ realtime[m].version <= issue'[realtime[m].id].version
           /\ realtime[m].id = i => realtime[m].version < new.version
    BY <1>1, <1>2, <1>8, <1>15
  <1>17. CASE kind = "v1"
    <2>1. RealtimeInOrder'
      BY <1>3, <1>16, <1>17 DEF RealtimeInOrder, EventInv, EventsComplete
    <2>2. QED
      BY <1>12, <1>13, <2>1 DEF EventInv, EventsComplete
  <1>18. CASE kind # "v1"
    <2>1. /\ Len(realtime') = Len(realtime) + 1 /\ realtime'[Len(realtime) + 1] = notice
          /\ \A m \in 1 .. Len(realtime) : realtime'[m] = realtime[m]
      BY <1>3, <1>14, <1>18
    <2>2. ASSUME NEW m \in 1 .. Len(realtime')
          PROVE  /\ realtime'[m].version <= issue'[realtime'[m].id].version
                 /\ \A n \in 1 .. m - 1 : realtime'[n].id = realtime'[m].id
                       => realtime'[n].version < realtime'[m].version
      <3>1. CASE m = Len(realtime) + 1
        BY <1>1, <1>2, <1>5, <1>8, <1>14, <1>16, <2>1, <3>1
      <3>2. CASE m # Len(realtime) + 1
        <4>1. m \in 1 .. Len(realtime) /\ \A n \in 1 .. m - 1 : n \in 1 .. Len(realtime)
          BY <1>14, <2>1, <3>2
        <4>2. QED
          BY <1>16, <2>1, <4>1 DEF RealtimeInOrder, EventInv, EventsComplete
      <3>3. QED
        BY <3>1, <3>2
    <2>3. RealtimeInOrder'
      BY <2>2 DEF RealtimeInOrder
    <2>4. QED
      BY <1>12, <1>13, <2>3 DEF EventInv, EventsComplete
  <1>19. QED
    BY <1>17, <1>18

LEMMA EventStep ==
    ASSUME TypeOK, TypeOK', EventInv, [Next]_vars
    PROVE  EventInv'
  <1>1. issue' \in [Issues -> Row] /\ \A i \in Issues : issue[i] \in Row /\ issue[i].version \in Nat
    BY DEF TypeOK, Row
  <1>2. ASSUME NEW r \in Requests, Commit(r) PROVE EventInv'
    <2>1. CASE VersionHolds(r) /\ StatusExists(r)
      BY <1>2, <2>1, CommitAnnounces
    <2>2. CASE ~(VersionHolds(r) /\ StatusExists(r))
      <3>1. Reject(r) /\ UNCHANGED <<issue, outbox, realtime>>
        BY <1>2, <2>2 DEF Commit
      <3>2. VersionsGrow
        BY <1>1, <3>1 DEF VersionsGrow
      <3>3. \A q \in Requests : phase'[q] = "done" =>
               phase[q] = "done" /\ job'[q] = job[q] /\ reply'[q] = reply[q]
        BY <3>1 DEF Reject, TypeOK
      <3>4. QED
        BY <1>1, <3>1, <3>2, <3>3, QuietStep
    <2>3. QED
      BY <2>1, <2>2
  <1>3. ASSUME NEW r \in Requests, Open(r) \/ Load(r) \/ Check(r) \/ Refuse(r) PROVE EventInv'
    <2>1. UNCHANGED <<issue, outbox, realtime>>
      BY <1>3 DEF Open, Load, Check, Refuse
    <2>2. VersionsGrow
      BY <1>1, <2>1 DEF VersionsGrow
    <2>3. \A q \in Requests : phase'[q] = "done" =>
             phase[q] = "done" /\ job'[q] = job[q] /\ reply'[q] = reply[q]
      <3>1. CASE Open(r)
        BY <3>1 DEF Open, TypeOK
      <3>2. CASE Load(r)
        BY <3>2 DEF Load, Reject, TypeOK
      <3>3. CASE Check(r) \/ Refuse(r)
        BY <3>3 DEF Check, Refuse, Reject, TypeOK
      <3>4. QED
        BY <1>3, <3>1, <3>2, <3>3
    <2>4. QED
      BY <1>1, <2>1, <2>2, <2>3, QuietStep
  <1>4. ASSUME NEW i \in Issues, SetArchived(i) \/ SetPriority(i) PROVE EventInv'
    <2>1. UNCHANGED <<phase, job, reply, outbox, realtime>>
      BY <1>4 DEF SetArchived, SetPriority
    <2>2. VersionsGrow
      BY <1>1, <1>4 DEF SetArchived, SetPriority, ArchivedRow, Prioritised, VersionsGrow, TypeOK
    <2>3. QED
      BY <1>1, <2>1, <2>2, QuietStep
  <1>5. ASSUME NEW from \in Statuses, NEW to \in Statuses, DeleteStatus(from, to)
        PROVE  EventInv'
    <2>1. UNCHANGED <<phase, job, reply, outbox, realtime>>
      BY <1>5 DEF DeleteStatus
    <2>2. VersionsGrow
      BY <1>1, <1>5 DEF DeleteStatus, Remapped, VersionsGrow, Row
    <2>3. QED
      BY <1>1, <2>1, <2>2, QuietStep
  <1>6. CASE UNCHANGED vars
    <2>1. UNCHANGED <<issue, phase, job, reply, outbox, realtime>>
      BY <1>6 DEF vars
    <2>2. VersionsGrow
      BY <1>1, <2>1 DEF VersionsGrow
    <2>3. QED
      BY <1>1, <2>1, <2>2, QuietStep
  <1>7. QED
    BY <1>2, <1>3, <1>4, <1>5, <1>6 DEF Next

\* Every answered edit has its webhook row, and realtime events of an issue announce
\* versions that grow: event ids built from the version never collide (webhooks.ts:33,
\* bulk-worker.mjs:4).
THEOREM CommitsAreAnnounced == Spec => []EventsComplete
  <1>1. Init => EventInv
    BY DEF Init, EventInv, OutboxBehind, EventsComplete, NoEventLost, RealtimeInOrder
  <1>2. EventInv => EventsComplete
    BY DEF EventInv
  <1>3. QED
    BY <1>1, <1>2, EventStep, TypeCorrect, PTL DEF Spec

-----------------------------------------------------------------------------
(* The limit of a column.                                                  *)

\* Everybody consults the limit, and issues are created in a status without one.
LimitConsulted ==
    /\ Kinds \subseteq {"bulk", "archive"}
    /\ WipLimit[FirstStatus] = 0
    /\ IsFiniteSet(Issues) /\ IsFiniteSet(Requests)

Column(s) == {i \in Issues : issue[i].status = s /\ ~issue[i].archived}

\* The requests that found room in a column and have not moved their issue yet.
Movers(s) == {r \in Requests : phase[r] = "checked" /\ job[r].status = s}

\* Who finds room sees less than the limit, and at most all requests are then on the way.
LimitInv ==
    \A s \in Statuses : WipLimit[s] > 0
        => Cardinality(Column(s)) + Cardinality(Movers(s)) <= WipLimit[s] + Cardinality(Requests) - 1

LEMMA Fewer ==
    ASSUME NEW S, IsFiniteSet(S), NEW T \in SUBSET S
    PROVE  IsFiniteSet(T) /\ Cardinality(T) \in Nat /\ Cardinality(S) \in Nat /\ Cardinality(T) <= Cardinality(S)
  BY FS_Subset, FS_CardinalityType

LEMMA OneFewer ==
    ASSUME NEW S, IsFiniteSet(S), NEW x \in S, NEW T \in SUBSET (S \ {x})
    PROVE  Cardinality(T) <= Cardinality(S) - 1
  <1>1. IsFiniteSet(S \ {x}) /\ Cardinality(S \ {x}) = Cardinality(S) - 1
    BY FS_RemoveElement
  <1>2. QED
    BY <1>1, FS_Subset

LEMMA OneMore ==
    ASSUME NEW S, IsFiniteSet(S), NEW x, NEW T \in SUBSET (S \cup {x})
    PROVE  Cardinality(T) <= Cardinality(S) + 1
  <1>1. IsFiniteSet(S \cup {x}) /\ Cardinality(S \cup {x}) <= Cardinality(S) + 1 /\ Cardinality(S) \in Nat
    BY FS_AddElement, FS_CardinalityType
  <1>2. Cardinality(T) <= Cardinality(S \cup {x}) /\ Cardinality(T) \in Nat /\ Cardinality(S \cup {x}) \in Nat
    BY <1>1, FS_Subset, FS_CardinalityType
  <1>3. QED
    BY <1>1, <1>2

\* Steps in which no column grows and nobody new is on the way.
LEMMA NoneComes ==
    ASSUME LimitConsulted, TypeOK, LimitInv,
           \A s \in Statuses : WipLimit[s] > 0 =>
              Column(s)' \subseteq Column(s) /\ Movers(s)' \subseteq Movers(s)
    PROVE  LimitInv'
  <1> SUFFICES ASSUME NEW s \in Statuses, WipLimit[s] > 0
               PROVE  Cardinality(Column(s)') + Cardinality(Movers(s)')
                         <= WipLimit[s] + Cardinality(Requests) - 1
    BY DEF LimitInv
  <1>1. IsFiniteSet(Column(s)) /\ IsFiniteSet(Movers(s)) /\ Cardinality(Requests) \in Nat
    BY Fewer, FS_CardinalityType DEF LimitConsulted, Column, Movers
  <1>2. /\ Cardinality(Column(s)') <= Cardinality(Column(s)) /\ Cardinality(Movers(s)') <= Cardinality(Movers(s))
        /\ Cardinality(Column(s)') \in Nat /\ Cardinality(Movers(s)') \in Nat
        /\ Cardinality(Column(s)) \in Nat /\ Cardinality(Movers(s)) \in Nat
    BY <1>1, Fewer
  <1>3. WipLimit[s] \in Nat
    BY ConstantsAssumption
  <1>4. Cardinality(Column(s)) + Cardinality(Movers(s)) <= WipLimit[s] + Cardinality(Requests) - 1
    BY DEF LimitInv
  <1>5. QED
    BY <1>1, <1>2, <1>3, <1>4

LEMMA LimitStep ==
    ASSUME LimitConsulted, TypeOK, HandlerInv, LimitInv, [Next]_vars
    PROVE  LimitInv'
  <1>1. ASSUME NEW r \in Requests, Check(r) PROVE LimitInv'
    <2>1. issue' = issue /\ phase[r] = "loaded" /\ job[r].kind = "bulk"
      BY <1>1 DEF Check, HandlerInv, RequestInv, LimitConsulted, Editors
    <2>2. CASE MustObeyRules(r) => Allowed(seen[r].status, job[r].status) /\ Roomy(job[r].status)
      <3>1. phase' = [phase EXCEPT ![r] = "checked"] /\ job' = job
        BY <1>1, <2>2 DEF Check
      <3> SUFFICES ASSUME NEW s \in Statuses, WipLimit[s] > 0
                   PROVE  Cardinality(Column(s)') + Cardinality(Movers(s)')
                             <= WipLimit[s] + Cardinality(Requests) - 1
        BY DEF LimitInv
      <3>2. Column(s)' = Column(s)
        BY <2>1 DEF Column
      <3>3. /\ IsFiniteSet(Column(s)) /\ IsFiniteSet(Movers(s)) /\ Cardinality(Requests) \in Nat
            /\ Cardinality(Movers(s)') \in Nat /\ Cardinality(Movers(s)') <= Cardinality(Requests)
        BY Fewer, FS_CardinalityType DEF LimitConsulted, Column, Movers
      <3>4. Cardinality(Column(s)) \in Nat /\ Cardinality(Movers(s)) \in Nat /\ WipLimit[s] \in Nat
        BY <3>3, FS_CardinalityType, ConstantsAssumption
      <3>5. CASE job[r].status = s
        <4>1. Roomy(s)
          BY <2>1, <2>2, <3>5, ConstantsAssumption DEF MustObeyRules
        <4>2. Cardinality(Column(s)) < WipLimit[s]
          BY <4>1, <3>4 DEF Roomy, InColumn, Column
        <4>3. QED
          BY <3>2, <3>3, <3>4, <4>2
      <3>6. CASE job[r].status # s
        <4>1. Movers(s)' = Movers(s)
          BY <2>1, <3>1, <3>6 DEF Movers, TypeOK
        <4>2. QED
          BY <3>2, <4>1 DEF LimitInv
      <3>7. QED
        BY <3>5, <3>6
    <2>3. CASE ~(MustObeyRules(r) => Allowed(seen[r].status, job[r].status) /\ Roomy(job[r].status))
      <3>1. Reject(r)
        BY <1>1, <2>3 DEF Check
      <3>2. \A s \in Statuses : Column(s)' \subseteq Column(s) /\ Movers(s)' \subseteq Movers(s)
        BY <2>1, <3>1 DEF Reject, Column, Movers, TypeOK
      <3>3. QED
        BY <3>2, NoneComes
    <2>4. QED
      BY <2>2, <2>3
  <1>2. ASSUME NEW r \in Requests, Commit(r) PROVE LimitInv'
    <2>1. CASE VersionHolds(r) /\ StatusExists(r)
      <3> DEFINE i == job[r].id
                 new == Written(issue[i], r)
      <3>1. job[r] \in Job /\ i \in Issues /\ phase[r] = "checked"
        BY <1>2 DEF Commit, ReadyToWrite, TypeOK, Job, HandlerInv, RequestInv, LimitConsulted, Editors
      <3>2. /\ issue' = [issue EXCEPT ![i] = new] /\ phase' = [phase EXCEPT ![r] = "done"] /\ job' = job
        BY <1>2, <2>1 DEF Commit, Answer
      <3>3. /\ new.archived = issue[i].archived
            /\ new.status = issue[i].status \/ new.status = job[r].status
        BY DEF Written, Given
      <3> HIDE DEF new
      <3>4. \A j \in Issues : issue'[j] = IF j = i THEN new ELSE issue[j]
        BY <3>2 DEF TypeOK
      <3>5. \A q \in Requests : phase'[q] = IF q = r THEN "done" ELSE phase[q]
        BY <3>2 DEF TypeOK
      <3> SUFFICES ASSUME NEW s \in Statuses, WipLimit[s] > 0
                   PROVE  Cardinality(Column(s)') + Cardinality(Movers(s)')
                             <= WipLimit[s] + Cardinality(Requests) - 1
        BY DEF LimitInv
      <3>6. /\ IsFiniteSet(Column(s)) /\ IsFiniteSet(Movers(s)) /\ Cardinality(Requests) \in Nat
            /\ IsFiniteSet(Column(s)') /\ IsFiniteSet(Movers(s)')
        BY Fewer, FS_CardinalityType DEF LimitConsulted, Column, Movers
      <3>7. /\ Cardinality(Column(s)) \in Nat /\ Cardinality(Movers(s)) \in Nat /\ WipLimit[s] \in Nat
            /\ Cardinality(Column(s)') \in Nat /\ Cardinality(Movers(s)') \in Nat
        BY <3>6, FS_CardinalityType, ConstantsAssumption
      <3>8. Cardinality(Column(s)) + Cardinality(Movers(s)) <= WipLimit[s] + Cardinality(Requests) - 1
        BY DEF LimitInv
      <3>9. CASE job[r].status = s
        <4>1. r \in Movers(s) /\ Movers(s)' \in SUBSET (Movers(s) \ {r})
          BY <3>1, <3>2, <3>5, <3>9 DEF Movers
        <4>2. Cardinality(Movers(s)') <= Cardinality(Movers(s)) - 1
          BY <3>6, <4>1, OneFewer
        <4>3. Column(s)' \in SUBSET (Column(s) \cup {i})
          BY <3>4 DEF Column
        <4>4. Cardinality(Column(s)') <= Cardinality(Column(s)) + 1
          BY <3>6, <4>3, OneMore
        <4>5. QED
          BY <3>7, <3>8, <3>6, <4>2, <4>4
      <3>10. CASE job[r].status # s
        <4>1. Movers(s)' \in SUBSET Movers(s)
          BY <3>2, <3>5 DEF Movers
        <4>2. Column(s)' \in SUBSET Column(s)
          BY <3>1, <3>3, <3>4, <3>10 DEF Column
        <4>3. Cardinality(Movers(s)') <= Cardinality(Movers(s)) /\ Cardinality(Column(s)') <= Cardinality(Column(s))
          BY <3>6, <4>1, <4>2, Fewer
        <4>4. QED
          BY <3>6, <3>7, <3>8, <4>3
      <3>11. QED
        BY <3>9, <3>10
    <2>2. CASE ~(VersionHolds(r) /\ StatusExists(r))
      <3>1. Reject(r) /\ issue' = issue
        BY <1>2, <2>2 DEF Commit
      <3>2. \A s \in Statuses : Column(s)' \subseteq Column(s) /\ Movers(s)' \subseteq Movers(s)
        BY <3>1 DEF Reject, Column, Movers, TypeOK
      <3>3. QED
        BY <3>2, NoneComes
    <2>3. QED
      BY <2>1, <2>2
  <1>3. ASSUME NEW r \in Requests, Open(r) \/ Load(r) \/ Refuse(r) PROVE LimitInv'
    <2>1. issue' = issue
      BY <1>3 DEF Open, Load, Refuse
    <2>2. \A q \in Requests : phase'[q] = "checked" => phase[q] = "checked" /\ job'[q] = job[q]
      <3>1. CASE Open(r)
        BY <3>1 DEF Open, TypeOK
      <3>2. CASE Load(r)
        BY <3>2 DEF Load, Reject, TypeOK
      <3>3. CASE Refuse(r)
        BY <3>3 DEF Refuse, Reject, TypeOK
      <3>4. QED
        BY <1>3, <3>1, <3>2, <3>3
    <2>3. \A s \in Statuses : Column(s)' \subseteq Column(s) /\ Movers(s)' \subseteq Movers(s)
      BY <2>1, <2>2 DEF Column, Movers
    <2>4. QED
      BY <2>3, NoneComes
  <1>4. ASSUME NEW i \in Issues, SetArchived(i) PROVE LimitInv'
    <2>1. issue' = [issue EXCEPT ![i] = ArchivedRow(issue[i], TRUE)] /\ UNCHANGED <<phase, job>>
      BY <1>4 DEF SetArchived, LimitConsulted
    <2>2. ArchivedRow(issue[i], TRUE).archived
      BY DEF ArchivedRow
    <2>3. \A s \in Statuses : Column(s)' \subseteq Column(s) /\ Movers(s)' \subseteq Movers(s)
      BY <2>1, <2>2 DEF Column, Movers, TypeOK
    <2>4. QED
      BY <2>3, NoneComes
  <1>5. ASSUME NEW i \in Issues, SetPriority(i) PROVE FALSE
    BY <1>5 DEF SetPriority, LimitConsulted
  <1>6. ASSUME NEW from \in Statuses, NEW to \in Statuses, DeleteStatus(from, to) PROVE FALSE
    BY <1>6 DEF DeleteStatus, LimitConsulted
  <1>7. CASE UNCHANGED vars
    <2>1. \A s \in Statuses : Column(s)' \subseteq Column(s) /\ Movers(s)' \subseteq Movers(s)
      BY <1>7 DEF vars, Column, Movers
    <2>2. QED
      BY <2>1, NoneComes
  <1>8. QED
    BY <1>1, <1>2, <1>3, <1>4, <1>5, <1>6, <1>7 DEF Next

\* A column limit is overrun by at most one issue for each other request under way
\* (bulk-worker.mjs:4 counts the column and moves the issue in two statements).
THEOREM OverrunIsBounded ==
    ASSUME LimitConsulted
    PROVE  Spec => []WipOverrunBounded
  <1>1. Init => LimitInv
    <2> SUFFICES ASSUME Init, NEW s \in Statuses, WipLimit[s] > 0
                 PROVE  Cardinality(Column(s)) + Cardinality(Movers(s)) <= WipLimit[s] + Cardinality(Requests) - 1
      BY DEF LimitInv
    <2>1. Column(s) = {} /\ Movers(s) = {}
      BY DEF LimitConsulted, Init, Column, Movers
    <2>2. Cardinality({}) = 0 /\ Cardinality(Requests) \in Nat /\ WipLimit[s] \in Nat
      BY FS_EmptySet, FS_CardinalityType, ConstantsAssumption DEF LimitConsulted
    <2>3. QED
      BY <2>1, <2>2
  <1>2. LimitInv => WipOverrunBounded
    <2> SUFFICES ASSUME LimitInv, NEW s \in Statuses, WipLimit[s] > 0
                 PROVE  InColumn(s) <= WipLimit[s] + Cardinality(Requests) - 1
      BY DEF WipOverrunBounded
    <2>1. IsFiniteSet(Column(s)) /\ IsFiniteSet(Movers(s))
      BY Fewer DEF LimitConsulted, Column, Movers
    <2>2. /\ Cardinality(Column(s)) \in Nat /\ Cardinality(Movers(s)) \in Nat
          /\ Cardinality(Requests) \in Nat /\ WipLimit[s] \in Nat
      BY <2>1, FS_CardinalityType, ConstantsAssumption DEF LimitConsulted
    <2>3. QED
      BY <2>2 DEF LimitInv, InColumn, Column
  <1>3. QED
    BY <1>1, <1>2, LimitStep, TypeCorrect, VersionCorrect, PTL DEF Spec
=============================================================================
