---------------------------- MODULE Projects_proofs ---------------------------
(***************************************************************************)
(* What the members of a project plan and serve, for every set of          *)
(* releases, sprints, issues, uploads, letters, customers, queues,         *)
(* requests, agents and handlers and every number of statuses and          *)
(* requests: a release is released once, a sprint completed once, what a   *)
(* publication keeps for its rollback is what it replaced, and the         *)
(* administration of a workflow keeps statuses, columns, transitions and   *)
(* versions together; a service request is read by the form it was         *)
(* submitted through, a letter has the effect that its record tells,       *)
(* triage hits what its agent has seen, goals keep their history and stay  *)
(* a hierarchy, links that block make no cycle, and a report tells what    *)
(* is in the pages of its plan.                                            *)
(***************************************************************************)
EXTENDS Releases, Sprints, Scenarios, WorkflowConfig, ServiceForms, ServiceMail, ServiceQueues,
  Goals, Links, PlanReport, FiniteSetTheorems, FunctionTheorems, SequenceTheorems, TLAPS

releaseState == <<handlers, releaseVars>>

ReleaseSpec(requests) == ReleasesInit /\ HandlersInit(requests) /\ [][ReleasesNext]_releaseState

-----------------------------------------------------------------------------
(* The inductive invariant.                                                *)

ReleaseRow == [version : Nat, released : Nat, archived : BOOLEAN]

ReleasePatch == [op : {"patch"}, release : Release, read : ReleaseRow,
          action : {"update", "release", "archive", "restore", "other"},
          issues : {{}} \cup {{list} : list \in SUBSET Work}]

ReleasesTypeOK ==
  /\ release \in [Release -> ReleaseRow]
  /\ contents \in [Release -> SUBSET Work]
  /\ trail \in [Release -> Seq(Nat)]
  /\ announced \in [Release -> Nat]
  /\ at \in [Handler -> ReleasePatch \cup {Idle}]

\* A row only moves on: one that still has the version that was read is the row that
\* was read, so that the refusals decided from it still stand.
ReadStands ==
  \A h \in Handler : Busy(h, "patch") =>
    LET now == release[at[h].release]  read == at[h].read IN
    /\ read.version <= now.version
    /\ read.version = now.version => read = now
    /\ ~ReleaseRefused(read, at[h].action, at[h].issues)

ReleasesInv == ReleasesTypeOK /\ ReadStands /\ ReleasedOnce

LEMMA BusyPatches ==
    ASSUME ReleasesTypeOK, NEW h \in Handler, Busy(h, "patch")
    PROVE  at[h] \in ReleasePatch
  BY DEF ReleasesTypeOK, Busy, Idle

\* The row that a change writes is one with the next version.
LEMMA PatchedRow ==
    ASSUME ReleasesTypeOK, NEW r \in Release,
           NEW action \in {"update", "release", "archive", "restore", "other"}
    PROVE  /\ Patched(r, action) \in ReleaseRow
           /\ Patched(r, action).version = release[r].version + 1
           /\ Patched(r, action).released =
                IF action = "release" THEN release[r].version + 1 ELSE release[r].released
  <1> DEFINE next == [release[r] EXCEPT !.version = @ + 1]
  <1>1. release[r] \in ReleaseRow
    BY DEF ReleasesTypeOK
  <1>2. next \in ReleaseRow /\ next.version = release[r].version + 1 /\ next.released = release[r].released
    BY <1>1 DEF ReleaseRow
  <1> HIDE DEF next
  <1>3. Patched(r, action) = CASE action = "release" -> [next EXCEPT !.released = next.version]
                               [] action = "archive" -> [next EXCEPT !.archived = TRUE]
                               [] action = "restore" -> [next EXCEPT !.archived = FALSE]
                               [] OTHER              -> next
    BY DEF Patched, next
  <1>4. CASE action = "release"
    <2>1. Patched(r, action) = [next EXCEPT !.released = next.version]
      BY <1>3, <1>4
    <2>2. QED
      BY <1>2, <1>4, <2>1 DEF ReleaseRow
  <1>5. CASE action = "archive"
    <2>1. Patched(r, action) = [next EXCEPT !.archived = TRUE]
      BY <1>3, <1>5
    <2>2. QED
      BY <1>2, <1>5, <2>1 DEF ReleaseRow
  <1>6. CASE action = "restore"
    <2>1. Patched(r, action) = [next EXCEPT !.archived = FALSE]
      BY <1>3, <1>6
    <2>2. QED
      BY <1>2, <1>6, <2>1 DEF ReleaseRow
  <1>7. CASE action \in {"update", "other"}
    <2>1. Patched(r, action) = next
      BY <1>3, <1>7
    <2>2. QED
      BY <1>2, <1>7, <2>1
  <1>8. QED
    BY <1>4, <1>5, <1>6, <1>7

-----------------------------------------------------------------------------
(* The steps.                                                              *)

LEMMA ReleaseInitKeeps ==
    ASSUME NEW requests, ReleasesInit, HandlersInit(requests)
    PROVE  ReleasesInv
  <1>1. ReleasesTypeOK
    BY DEF ReleasesInit, HandlersInit, ReleasesTypeOK, ReleaseRow
  <1>2. ReadStands
    BY DEF ReadStands, HandlersInit, Busy, Idle
  <1>3. ReleasedOnce
    BY DEF ReleasedOnce, ReleasesInit
  <1>4. QED
    BY <1>1, <1>2, <1>3 DEF ReleasesInv

LEMMA ReleaseCreateKeeps ==
    ASSUME ReleasesInv, NEW r \in Release, CreateRelease(r)
    PROVE  ReleasesInv'
  <1> USE DEF ReleasesInv
  <1>1. release[r] \in ReleaseRow /\ release[r].version = 0
    BY DEF CreateRelease, ReleasesTypeOK
  <1>2. [release[r] EXCEPT !.version = 1] \in ReleaseRow
    BY <1>1 DEF ReleaseRow
  <1>3. ReleasesTypeOK'
    BY <1>2 DEF CreateRelease, InOneStep, ReleasesTypeOK
  <1>4. ReadStands'
    <2> SUFFICES ASSUME NEW h \in Handler, Busy(h, "patch")'
                 PROVE  /\ at[h].read.version <= release'[at[h].release].version
                        /\ at[h].read.version = release'[at[h].release].version
                           => at[h].read = release'[at[h].release]
                        /\ ~ReleaseRefused(at[h].read, at[h].action, at[h].issues)
      BY DEF ReadStands, CreateRelease, InOneStep, ReleaseRefused
    <2>1. Busy(h, "patch")
      BY DEF Busy, CreateRelease, InOneStep
    <2>2. at[h] \in ReleasePatch
      BY <2>1, BusyPatches
    <2>3. CASE at[h].release # r
      BY <2>1, <2>2, <2>3 DEF CreateRelease, ReadStands, ReleasesTypeOK, ReleasePatch
    <2>4. CASE at[h].release = r
      <3>1. release'[r].version = 1
        BY <1>1 DEF CreateRelease, ReleasesTypeOK, ReleaseRow
      <3>2. at[h].read.version <= 0 /\ at[h].read.version \in Nat
        BY <1>1, <2>1, <2>2, <2>4 DEF ReadStands, ReleasePatch, ReleaseRow
      <3>3. QED
        BY <2>1, <2>4, <3>1, <3>2 DEF ReadStands
    <2>5. QED
      BY <2>3, <2>4
  <1>5. ReleasedOnce'
    BY <1>1 DEF ReleasedOnce, CreateRelease, ReleasesTypeOK, ReleaseRow
  <1>6. QED
    BY <1>3, <1>4, <1>5

LEMMA ReleaseBeginKeeps ==
    ASSUME ReleasesInv, NEW h \in Handler, NEW r \in Release, BeginPatchRelease(h, r)
    PROVE  ReleasesInv'
  <1> USE DEF ReleasesInv
  <1>1. PICK action \in {"update", "release", "archive", "restore", "other"},
             issues \in {{}} \cup {{list} : list \in SUBSET Work} :
          /\ ~ReleaseRefused(release[r], action, issues)
          /\ Enter(h, [op |-> "patch", release |-> r, read |-> release[r],
                       action |-> action, issues |-> issues])
          /\ UNCHANGED releaseVars
    BY DEF BeginPatchRelease
  <1> DEFINE next == [op |-> "patch", release |-> r, read |-> release[r],
                      action |-> action, issues |-> issues]
  <1>2. next \in ReleasePatch
    BY DEF ReleasesTypeOK, ReleasePatch
  <1>3. at' = [at EXCEPT ![h] = next]
    BY <1>1 DEF Enter
  <1>4. ReleasesTypeOK'
    BY <1>1, <1>2, <1>3 DEF ReleasesTypeOK, releaseVars
  <1>5. ReadStands'
    <2> SUFFICES ASSUME NEW g \in Handler, Busy(g, "patch")'
                 PROVE  /\ at'[g].read.version <= release[at'[g].release].version
                        /\ at'[g].read.version = release[at'[g].release].version
                           => at'[g].read = release[at'[g].release]
                        /\ ~ReleaseRefused(at'[g].read, at'[g].action, at'[g].issues)
      BY <1>1 DEF ReadStands, releaseVars, ReleaseRefused
    <2>1. CASE g = h
      <3>1. at'[g] = next
        BY <1>3, <2>1 DEF ReleasesTypeOK
      <3>2. release[r].version \in Nat
        BY DEF ReleasesTypeOK, ReleaseRow
      <3>3. QED
        BY <1>1, <3>1, <3>2
    <2>2. CASE g # h
      <3>1. at'[g] = at[g]
        BY <1>3, <2>2 DEF ReleasesTypeOK
      <3>2. Busy(g, "patch")
        BY <3>1 DEF Busy
      <3>3. QED
        BY <3>1, <3>2 DEF ReadStands
    <2>3. QED
      BY <2>1, <2>2
  <1>6. ReleasedOnce'
    BY <1>1 DEF ReleasedOnce, releaseVars
  <1>7. QED
    BY <1>4, <1>5, <1>6

\* What the others have read has become old, if it was a row of this release.
LEMMA PatchKeeps ==
    ASSUME ReleasesInv, NEW h \in Handler, PatchRelease(h)
    PROVE  ReleasesInv'
  <1> USE DEF ReleasesInv
  <1> DEFINE r == at[h].release
             action == at[h].action
             next == Patched(r, action)
  <1>1. at[h] \in ReleasePatch
    BY BusyPatches DEF PatchRelease
  <1>2. r \in Release /\ action \in {"update", "release", "archive", "restore", "other"}
    BY <1>1 DEF ReleasePatch
  <1>3. /\ next \in ReleaseRow
        /\ next.version = release[r].version + 1
        /\ next.released = IF action = "release" THEN release[r].version + 1 ELSE release[r].released
    BY <1>2, PatchedRow
  <1>4. /\ release' = [release EXCEPT ![r] = next]
        /\ at' = [at EXCEPT ![h] = Idle]
        /\ contents' = [contents EXCEPT ![r] = IF at[h].issues = {} THEN @ ELSE UNION at[h].issues]
    BY DEF PatchRelease, Leave, Proceed
  <1>5. release[r].version \in Nat /\ release[r] \in ReleaseRow
    BY <1>2 DEF ReleasesTypeOK, ReleaseRow
  <1>6. release'[r] = next
    BY <1>2, <1>4 DEF ReleasesTypeOK
  <1>7. action = "release" => release[r].released = 0
    <2>1. Busy(h, "patch") /\ at[h].read.version = release[r].version
      BY DEF PatchRelease, SameRelease
    <2>2. QED
      BY <1>1, <2>1 DEF ReadStands, ReleaseRefused, ReleasePatch, ReleaseRow
  <1>8. /\ action = "release" =>
             /\ trail' = [trail EXCEPT ![r] = Append(@, next.version)]
             /\ announced' = [announced EXCEPT ![r] = IF @ = 0 THEN next.version ELSE @]
        /\ action # "release" => UNCHANGED <<trail, announced>>
    BY <1>6 DEF PatchRelease
  <1> HIDE DEF next
  <1>9. ReleasesTypeOK'
    <2>1. UNION at[h].issues \in SUBSET Work
      BY <1>1 DEF ReleasePatch
    <2>2. contents' \in [Release -> SUBSET Work]
      BY <1>4, <2>1 DEF ReleasesTypeOK
    <2>3. trail' \in [Release -> Seq(Nat)] /\ announced' \in [Release -> Nat]
      <3>1. next.version \in Nat /\ trail[r] \in Seq(Nat)
        BY <1>2, <1>3, <1>5 DEF ReleasesTypeOK
      <3>2. Append(trail[r], next.version) \in Seq(Nat)
        BY <3>1
      <3>3. CASE action = "release"
        <4>1. /\ trail' = [trail EXCEPT ![r] = Append(trail[r], next.version)]
              /\ announced' = [announced EXCEPT ![r] = IF announced[r] = 0 THEN next.version ELSE announced[r]]
          BY <1>8, <3>3
        <4>2. trail \in [Release -> Seq(Nat)] /\ announced \in [Release -> Nat]
          BY DEF ReleasesTypeOK
        <4>3. trail' \in [Release -> Seq(Nat)]
          BY <3>2, <4>1, <4>2
        <4>4. announced' \in [Release -> Nat]
          BY <3>1, <4>1, <4>2
        <4>5. QED
          BY <4>3, <4>4
      <3>4. CASE action # "release"
        BY <1>8, <3>4 DEF ReleasesTypeOK
      <3>5. QED
        BY <3>3, <3>4
    <2>4. QED
      BY <1>3, <1>4, <2>2, <2>3 DEF ReleasesTypeOK
  <1>10. ReadStands'
    <2> SUFFICES ASSUME NEW g \in Handler, Busy(g, "patch")'
                 PROVE  /\ at'[g].read.version <= release'[at'[g].release].version
                        /\ at'[g].read.version = release'[at'[g].release].version
                           => at'[g].read = release'[at'[g].release]
                        /\ ~ReleaseRefused(at'[g].read, at'[g].action, at'[g].issues)
      BY DEF ReadStands, ReleaseRefused
    <2>1. g # h
      BY <1>4 DEF Busy, Idle, ReleasesTypeOK
    <2>2. at'[g] = at[g] /\ Busy(g, "patch")
      BY <1>4, <2>1 DEF Busy, ReleasesTypeOK
    <2>3. at[g] \in ReleasePatch
      BY <2>2, BusyPatches
    <2>4. CASE at[g].release # r
      <3>1. release'[at[g].release] = release[at[g].release]
        BY <1>4, <2>3, <2>4 DEF ReleasesTypeOK, ReleasePatch
      <3>2. QED
        BY <2>2, <3>1 DEF ReadStands
    <2>5. CASE at[g].release = r
      <3>1. at[g].read.version <= release[r].version /\ at[g].read.version \in Nat
        BY <2>2, <2>3, <2>5 DEF ReadStands, ReleasePatch, ReleaseRow
      <3>2. at[g].read.version < release'[r].version
        BY <1>3, <1>5, <1>6, <3>1
      <3>3. QED
        BY <2>2, <2>5, <1>5, <1>3, <1>6, <3>1, <3>2 DEF ReadStands
    <2>6. QED
      BY <2>4, <2>5
  <1>11. ReleasedOnce'
    <2> SUFFICES ASSUME NEW q \in Release
                 PROVE  /\ trail'[q] = IF release'[q].released = 0 THEN <<>> ELSE <<release'[q].released>>
                        /\ announced'[q] = release'[q].released
      BY DEF ReleasedOnce
    <2>1. CASE q # r
      BY <1>4, <1>8, <2>1 DEF ReleasedOnce, ReleasesTypeOK
    <2>2. CASE q = r /\ action # "release"
      BY <1>3, <1>6, <1>8, <2>2 DEF ReleasedOnce
    <2>3. CASE q = r /\ action = "release"
      <3>1. trail[r] = <<>> /\ announced[r] = 0
        BY <1>2, <1>7, <2>3 DEF ReleasedOnce
      <3>2. trail'[r] = <<next.version>> /\ announced'[r] = next.version
        BY <1>2, <1>8, <2>3, <3>1 DEF ReleasesTypeOK
      <3>3. next.version # 0 /\ next.released = next.version
        BY <1>3, <1>5, <2>3
      <3>4. QED
        BY <1>6, <2>3, <3>2, <3>3
    <2>4. QED
      BY <2>1, <2>2, <2>3
  <1>12. QED
    BY <1>9, <1>10, <1>11

LEMMA ConflictKeeps ==
    ASSUME ReleasesInv, NEW h \in Handler, PatchConflict(h)
    PROVE  ReleasesInv'
  <1> USE DEF ReleasesInv
  <1>1. at' = [at EXCEPT ![h] = Idle] /\ UNCHANGED releaseVars
    BY DEF PatchConflict, Leave, Proceed
  <1>2. ReleasesTypeOK'
    BY <1>1 DEF ReleasesTypeOK, releaseVars
  <1>3. ReadStands'
    <2>1. \A g \in Handler : Busy(g, "patch")' => Busy(g, "patch") /\ at'[g] = at[g]
      BY <1>1 DEF Busy, Idle, ReleasesTypeOK
    <2>2. QED
      BY <1>1, <2>1 DEF ReadStands, releaseVars, ReleaseRefused
  <1>4. ReleasedOnce'
    BY <1>1 DEF ReleasedOnce, releaseVars
  <1>5. QED
    BY <1>2, <1>3, <1>4

LEMMA ReleaseStutterKeeps ==
    ASSUME ReleasesInv, UNCHANGED releaseState
    PROVE  ReleasesInv'
  BY DEF releaseState, handlers, releaseVars, ReleasesInv, ReleasesTypeOK, ReadStands, ReleasedOnce,
         Busy, ReleaseRefused

-----------------------------------------------------------------------------
\* A release is released at most once, and its trail and its webhook tell of that release
\* (PATCH of releases/[id]/route.ts, which compares the version it read in its UPDATE).
THEOREM ReleasesAreFinal ==
    ASSUME NEW requests
    PROVE  ReleaseSpec(requests) => []ReleasedOnce
  <1>1. ReleasesInit /\ HandlersInit(requests) => ReleasesInv
    BY ReleaseInitKeeps
  <1>2. ReleasesInv /\ [ReleasesNext]_releaseState => ReleasesInv'
    BY ReleaseCreateKeeps, ReleaseBeginKeeps, PatchKeeps, ConflictKeeps, ReleaseStutterKeeps DEF ReleasesNext
  <1>3. ReleasesInv => ReleasedOnce
    BY DEF ReleasesInv
  <1>4. QED
    BY <1>1, <1>2, <1>3, PTL DEF ReleaseSpec

-----------------------------------------------------------------------------
(* Sprints.                                                                *)

sprintState == <<handlers, sprintVars>>

SprintSpec(requests) == SprintsInit /\ HandlersInit(requests) /\ [][SprintsNext]_sprintState

SprintRow == [state : {"none", "PLANNED", "ACTIVE", "COMPLETED", "DELETED"}, version : Nat]

SprintsTypeOK ==
  /\ sprint \in [Sprint -> SprintRow]
  /\ report = [s \in Sprint |-> report[s]]
  /\ totals = [s \in Sprint |-> totals[s]]
  /\ at = [h \in Handler |-> at[h]]

\* A handler at work holds a sprint that was there.  While its version is the one that was
\* read and it was not deleted, it is in the state in which it was read.
SprintTask(h) ==
  LET r == at[h]  now == sprint[r.sprint] IN
  at[h] # Idle =>
    /\ r.sprint \in Sprint /\ r.read \in SprintRow
    /\ now.state # "none" /\ r.read.version <= now.version
    /\ r.read.version = now.version /\ now.state # "DELETED" => now.state = r.read.state
    /\ r.op = "move" => r.neighbor \in Sprint
    /\ r.op = "start" => r.read.state = "PLANNED"
    /\ r.op = "complete" => r.read.state = "ACTIVE" /\ r.rows \subseteq Task /\ r.done \subseteq r.rows

ReportKept(s) ==
  /\ sprint[s].state # "COMPLETED" => report[s] = {}
  /\ totals[s] = [all |-> Cardinality(report[s]),
                  completed |-> Cardinality({entry \in report[s] : entry.completed})]

OneActive == \A s, t \in Sprint : sprint[s].state = "ACTIVE" /\ sprint[t].state = "ACTIVE" => s = t

SprintsInv ==
  /\ SprintsTypeOK /\ OneActive
  /\ \A h \in Handler : SprintTask(h)
  /\ \A s \in Sprint : ReportKept(s)

\* A report has a row for each issue, and as many completed ones as issues that were done.
LEMMA ReportedCounts ==
    ASSUME NEW rows, NEW finished, IsFiniteSet(rows)
    PROVE  Cardinality(Reported(rows, finished)) = Cardinality(rows)
  <1> DEFINE f == [t \in rows |-> [issue |-> t, completed |-> t \in finished]]
             T == Reported(rows, finished)
  <1>1. f \in [rows -> T]
    BY DEF Reported
  <1>2. \A t \in rows : f[t].issue = t
    OBVIOUS
  <1>3. \A e \in T : \E t \in rows : f[t] = e
    BY DEF Reported
  <1> HIDE DEF f, T
  <1>4. \A s, t \in rows : f[s] = f[t] => s = t
    BY <1>2
  <1>5. f \in Bijection(rows, T)
    BY <1>1, <1>3, <1>4, Fun_IsBij
  <1>6. QED
    BY <1>5, FS_Bijection, Fun_ExistsBij DEF T

LEMMA ReportTells ==
    ASSUME NEW rows, NEW finished, IsFiniteSet(rows), finished \subseteq rows
    PROVE  /\ Cardinality(Reported(rows, finished)) = Cardinality(rows)
           /\ Cardinality({entry \in Reported(rows, finished) : entry.completed}) = Cardinality(finished)
  <1>1. IsFiniteSet(finished)
    BY FS_Subset
  <1>2. \A t : t \in finished => [issue |-> t, completed |-> t \in finished] = [issue |-> t, completed |-> TRUE]
    BY Zenon
  <1>3. {entry \in Reported(rows, finished) : entry.completed} = Reported(finished, finished)
    <2>1. ASSUME NEW e \in Reported(finished, finished)
          PROVE  e \in Reported(rows, finished) /\ e.completed
      <3>1. PICK t \in finished : e = [issue |-> t, completed |-> t \in finished]
        BY DEF Reported
      <3>2. e.completed
        BY <3>1
      <3>3. QED
        BY <3>1, <3>2 DEF Reported
    <2>2. ASSUME NEW e \in Reported(rows, finished), e.completed
          PROVE  e \in Reported(finished, finished)
      <3>1. PICK t \in rows : e = [issue |-> t, completed |-> t \in finished]
        BY DEF Reported
      <3>2. t \in finished
        BY <2>2, <3>1
      <3>3. QED
        BY <3>1, <3>2 DEF Reported
    <2>3. QED
      BY <2>1, <2>2
  <1>4. QED
    BY <1>1, <1>3, ReportedCounts

LEMMA AtMostOneActive ==
    ASSUME OneActive
    PROVE  Cardinality({s \in Sprint : sprint[s].state = "ACTIVE"}) <= 1
  <1> DEFINE S == {s \in Sprint : sprint[s].state = "ACTIVE"}
  <1>1. CASE S = {}
    <2>1. Cardinality(S) = 0
      BY <1>1, FS_EmptySet
    <2>2. QED
      BY <2>1
  <1>2. CASE S # {}
    <2>1. PICK s : s \in S
      BY <1>2
    <2>2. S = {s}
      BY <2>1 DEF OneActive
    <2> HIDE DEF S
    <2>3. Cardinality(S) = 1
      BY <2>2, FS_Singleton
    <2>4. QED
      BY <2>3 DEF S
  <1>3. QED
    BY <1>1, <1>2

-----------------------------------------------------------------------------
(* The steps.                                                              *)

LEMMA SprintInitKeeps ==
    ASSUME NEW requests, SprintsInit, HandlersInit(requests)
    PROVE  SprintsInv
  <1>1. SprintsTypeOK
    BY DEF SprintsInit, HandlersInit, SprintsTypeOK, SprintRow
  <1>2. OneActive
    BY DEF SprintsInit, OneActive
  <1>3. ASSUME NEW h \in Handler PROVE SprintTask(h)
    BY DEF HandlersInit, SprintTask
  <1>4. ASSUME NEW s \in Sprint PROVE ReportKept(s)
    <2>1. report[s] = {} /\ {entry \in report[s] : entry.completed} = {}
      BY DEF SprintsInit
    <2>2. Cardinality({}) = 0
      BY FS_EmptySet
    <2>3. QED
      BY <2>1, <2>2 DEF ReportKept, SprintsInit
  <1>5. QED
    BY <1>1, <1>2, <1>3, <1>4 DEF SprintsInv

\* What a step may make of the row of a sprint.
Onward(s) ==
  \/ sprint'[s] = sprint[s]
  \/ sprint'[s].version > sprint[s].version /\ sprint'[s].state # "none"
  \/ sprint'[s].version = sprint[s].version /\ sprint'[s].state = "DELETED"
  \/ sprint[s].state = "none"

LEMMA TasksStand ==
    ASSUME SprintsInv, SprintsTypeOK', \A s \in Sprint : Onward(s),
           NEW h \in Handler, at'[h] = at[h] \/ at'[h] = Idle
    PROVE  SprintTask(h)'
  <1> DEFINE r == at[h]
  <1>1. CASE at'[h] = Idle
    BY <1>1 DEF SprintTask
  <1>2. CASE at'[h] # Idle
    <2>1. at'[h] = r /\ r # Idle /\ SprintTask(h)
      BY <1>2 DEF SprintsInv
    <2>2. r.sprint \in Sprint /\ Onward(r.sprint)
      BY <2>1 DEF SprintTask
    <2>3. /\ sprint[r.sprint] \in SprintRow /\ sprint'[r.sprint] \in SprintRow
          /\ r.read.version \in Nat
      BY <2>1, <2>2 DEF SprintsInv, SprintsTypeOK, SprintTask, SprintRow
    <2>4. /\ sprint[r.sprint].version \in Nat /\ sprint'[r.sprint].version \in Nat
      BY <2>3 DEF SprintRow
    <2>5. /\ sprint'[r.sprint].state # "none" /\ r.read.version <= sprint'[r.sprint].version
          /\ r.read.version = sprint'[r.sprint].version /\ sprint'[r.sprint].state # "DELETED"
             => sprint'[r.sprint].state = r.read.state
      BY <2>1, <2>2, <2>3, <2>4 DEF SprintTask, Onward
    <2>6. QED
      BY <2>1, <2>5 DEF SprintTask
  <1>3. QED
    BY <1>1, <1>2

\* A write that leaves every state as it is.
LEMMA RowsAdvance ==
    ASSUME SprintsInv, NEW h \in Handler, sprint' \in [Sprint -> SprintRow],
           \A s \in Sprint : sprint'[s].state = sprint[s].state /\ Onward(s),
           at' = [at EXCEPT ![h] = Idle], UNCHANGED <<report, totals>>
    PROVE  SprintsInv'
  <1>1. SprintsTypeOK'
    BY DEF SprintsInv, SprintsTypeOK
  <1>2. OneActive'
    BY DEF SprintsInv, OneActive
  <1>3. ASSUME NEW g \in Handler PROVE SprintTask(g)'
    <2>1. at'[g] = at[g] \/ at'[g] = Idle
      BY DEF SprintsInv, SprintsTypeOK
    <2>2. QED
      BY <1>1, <2>1, TasksStand
  <1>4. ASSUME NEW s \in Sprint PROVE ReportKept(s)'
    BY DEF SprintsInv, ReportKept
  <1>5. QED
    BY <1>1, <1>2, <1>3, <1>4 DEF SprintsInv

LEMMA AdvancedRow ==
    ASSUME SprintsInv, NEW s \in Sprint,
           NEW state \in {"PLANNED", "ACTIVE", "COMPLETED", "DELETED"}
    PROVE  /\ Advanced(s, state) \in SprintRow
           /\ Advanced(s, state).state = state
           /\ Advanced(s, state).version = sprint[s].version + 1
           /\ Advanced(s, state).version > sprint[s].version
  <1>1. sprint[s] \in SprintRow
    BY DEF SprintsInv, SprintsTypeOK
  <1>2. sprint[s].version \in Nat
    BY <1>1 DEF SprintRow
  <1>3. QED
    BY <1>2 DEF Advanced, SprintRow

\* Every handler at work holds one of the project's sprints.
LEMMA SprintHeld ==
    ASSUME SprintsInv, NEW h \in Handler, NEW op, Busy(h, op), op # "idle"
    PROVE  /\ at[h] # Idle /\ at[h].op = op /\ SprintTask(h)
           /\ at[h].sprint \in Sprint /\ sprint[at[h].sprint] \in SprintRow
           /\ sprint[at[h].sprint].state \in {"PLANNED", "ACTIVE", "COMPLETED", "DELETED"}
  <1>1. at[h] # Idle /\ at[h].op = op
    BY DEF Busy, Idle
  <1>2. at[h].sprint \in Sprint /\ sprint[at[h].sprint].state # "none"
    BY <1>1 DEF SprintsInv, SprintTask
  <1>3. sprint[at[h].sprint] \in SprintRow
    BY <1>2 DEF SprintsInv, SprintsTypeOK
  <1>4. QED
    BY <1>1, <1>2, <1>3 DEF SprintsInv, SprintRow

LEMMA OneAdvanced ==
    ASSUME SprintsInv, NEW h \in Handler, NEW op, Busy(h, op), op # "idle",
           sprint' = [sprint EXCEPT ![at[h].sprint] = Advanced(at[h].sprint, sprint[at[h].sprint].state)],
           at' = [at EXCEPT ![h] = Idle], UNCHANGED <<report, totals>>
    PROVE  SprintsInv'
  <1> DEFINE s == at[h].sprint
             row == Advanced(s, sprint[s].state)
  <1>1. s \in Sprint /\ sprint[s].state \in {"PLANNED", "ACTIVE", "COMPLETED", "DELETED"}
    BY SprintHeld
  <1>2. row \in SprintRow /\ row.state = sprint[s].state /\ row.version > sprint[s].version
    BY <1>1, AdvancedRow
  <1> HIDE DEF row, s
  <1>3. sprint \in [Sprint -> SprintRow] /\ sprint' = [sprint EXCEPT ![s] = row]
    BY DEF row, s, SprintsInv, SprintsTypeOK
  <1>4. sprint' \in [Sprint -> SprintRow]
    BY <1>1, <1>2, <1>3
  <1>5. \A t \in Sprint : sprint'[t].state = sprint[t].state /\ Onward(t)
    BY <1>1, <1>2, <1>3 DEF Onward
  <1>6. QED
    BY <1>4, <1>5, RowsAdvance

LEMMA EditKeeps ==
    ASSUME SprintsInv, NEW h \in Handler, EditSprint(h) \/ Place(h) \/ Remove(h)
    PROVE  SprintsInv'
  <1>1. PICK op \in {"edit", "place", "remove"} : Busy(h, op)
    BY DEF EditSprint, Place, Remove
  <1>2. /\ sprint' = [sprint EXCEPT ![at[h].sprint] = Advanced(at[h].sprint, sprint[at[h].sprint].state)]
        /\ at' = [at EXCEPT ![h] = Idle] /\ UNCHANGED <<report, totals>>
    BY DEF EditSprint, Place, Remove, Leave, Proceed
  <1>3. QED
    BY <1>1, <1>2, OneAdvanced

LEMMA MoveKeeps ==
    ASSUME SprintsInv, NEW h \in Handler, MoveSprint(h)
    PROVE  SprintsInv'
  <1> DEFINE s == at[h].sprint
             n == at[h].neighbor
             row == Advanced(s, sprint[s].state)
             other == Advanced(n, sprint[n].state)
  <1>1. s \in Sprint /\ sprint[s].state \in {"PLANNED", "ACTIVE", "COMPLETED", "DELETED"} /\ n \in Sprint
    BY SprintHeld DEF MoveSprint, SprintTask
  <1>2. row \in SprintRow /\ row.state = sprint[s].state /\ row.version > sprint[s].version
    BY <1>1, AdvancedRow
  <1>3. sprint[n].state \in {"PLANNED", "ACTIVE", "COMPLETED", "DELETED"}
    BY <1>1 DEF MoveSprint, Exists, SprintsInv, SprintsTypeOK, SprintRow
  <1>4. other \in SprintRow /\ other.state = sprint[n].state /\ other.version > sprint[n].version
    BY <1>1, <1>3, AdvancedRow
  <1>5. sprint \in [Sprint -> SprintRow] /\ sprint' = [sprint EXCEPT ![s] = row, ![n] = other]
        /\ at' = [at EXCEPT ![h] = Idle] /\ UNCHANGED <<report, totals>>
    BY DEF SprintsInv, SprintsTypeOK, MoveSprint, Leave, Proceed
  <1> HIDE DEF row, other, s, n
  <1>6. sprint' \in [Sprint -> SprintRow]
    BY <1>1, <1>2, <1>4, <1>5
  <1>7. \A t \in Sprint : sprint'[t].state = sprint[t].state /\ Onward(t)
    BY <1>1, <1>2, <1>4, <1>5 DEF Onward
  <1>8. QED
    BY <1>5, <1>6, <1>7, RowsAdvance

LEMMA CreateSprintKeeps ==
    ASSUME SprintsInv, NEW s \in Sprint, CreateSprint(s)
    PROVE  SprintsInv'
  <1>1. sprint[s] \in SprintRow /\ sprint[s].state = "none"
    BY DEF SprintsInv, SprintsTypeOK, CreateSprint
  <1> DEFINE row == [sprint[s] EXCEPT !.state = "PLANNED"]
  <1>2. row \in SprintRow /\ row.state = "PLANNED"
    BY <1>1 DEF SprintRow
  <1>3. sprint' = [sprint EXCEPT ![s] = row] /\ UNCHANGED <<at, report, totals>>
    BY DEF CreateSprint, InOneStep
  <1> HIDE DEF row
  <1>4. SprintsTypeOK' /\ sprint'[s] = row /\ \A t \in Sprint : t # s => sprint'[t] = sprint[t]
    BY <1>2, <1>3 DEF SprintsInv, SprintsTypeOK
  <1>5. OneActive'
    BY <1>2, <1>4 DEF SprintsInv, OneActive
  <1>6. \A t \in Sprint : Onward(t)
    BY <1>1, <1>4 DEF Onward
  <1>7. ASSUME NEW g \in Handler PROVE SprintTask(g)'
    BY <1>3, <1>4, <1>6, TasksStand
  <1>8. ASSUME NEW t \in Sprint PROVE ReportKept(t)'
    BY <1>1, <1>2, <1>3, <1>4 DEF SprintsInv, ReportKept
  <1>9. QED
    BY <1>4, <1>5, <1>7, <1>8 DEF SprintsInv

LEMMA SprintAsideKeeps ==
    ASSUME SprintsInv, UNCHANGED <<sprint, report, totals>>,
           \/ UNCHANGED at
           \/ \E h \in Handler : at' = [at EXCEPT ![h] = Idle]
    PROVE  SprintsInv'
  <1>1. SprintsTypeOK' /\ OneActive'
    BY DEF SprintsInv, SprintsTypeOK, OneActive
  <1>2. ASSUME NEW g \in Handler PROVE SprintTask(g)'
    <2>1. at'[g] = at[g] \/ at'[g] = Idle
      BY DEF SprintsInv, SprintsTypeOK
    <2>2. \A t \in Sprint : Onward(t)
      BY DEF Onward
    <2>3. QED
      BY <1>1, <2>1, <2>2, TasksStand
  <1>3. ASSUME NEW t \in Sprint PROVE ReportKept(t)'
    BY DEF SprintsInv, ReportKept
  <1>4. QED
    BY <1>1, <1>2, <1>3 DEF SprintsInv

\* A handler goes on with a task that is in order.
LEMMA TaskTaken ==
    ASSUME SprintsInv, UNCHANGED sprintVars, NEW h \in Handler, NEW next,
           at' = [at EXCEPT ![h] = next], at'[h] = next => SprintTask(h)'
    PROVE  SprintsInv'
  <1>1. SprintsTypeOK' /\ OneActive'
    BY DEF SprintsInv, SprintsTypeOK, OneActive, sprintVars
  <1>2. ASSUME NEW g \in Handler PROVE SprintTask(g)'
    <2>1. CASE g = h
      <3>1. at'[h] = next
        BY DEF SprintsInv, SprintsTypeOK
      <3>2. QED
        BY <2>1, <3>1
    <2>2. CASE g # h
      <3>1. at'[g] = at[g]
        BY <2>2 DEF SprintsInv, SprintsTypeOK
      <3>2. QED
        BY <3>1 DEF SprintsInv, SprintTask, sprintVars
    <2>3. QED
      BY <2>1, <2>2
  <1>3. ASSUME NEW t \in Sprint PROVE ReportKept(t)'
    BY DEF SprintsInv, ReportKept, sprintVars
  <1>4. QED
    BY <1>1, <1>2, <1>3 DEF SprintsInv

LEMMA SprintBeginKeeps ==
    ASSUME SprintsInv, NEW h \in Handler, NEW s \in Sprint,
           NEW states \in SUBSET {"PLANNED", "ACTIVE"}, NEW next, Manage(h, s, states, next),
           next.sprint = s, next.read = sprint[s], next.op = "move" => next.neighbor \in Sprint,
           next.op = "start" => states = {"PLANNED"},
           next.op = "complete" => states = {"ACTIVE"} /\ next.rows \subseteq Task /\ next.done \subseteq next.rows
    PROVE  SprintsInv'
  <1>1. at' = [at EXCEPT ![h] = next] /\ UNCHANGED sprintVars /\ sprint[s].state \in states
    BY DEF Manage, Enter
  <1>2. sprint[s] \in SprintRow /\ sprint[s].version \in Nat
    BY DEF SprintsInv, SprintsTypeOK, SprintRow
  <1>3. ASSUME at'[h] = next PROVE SprintTask(h)'
    BY <1>1, <1>2, <1>3 DEF SprintTask, sprintVars
  <1>4. QED
    BY <1>1, <1>3, TaskTaken

LEMMA SprintArrivalKeeps ==
    ASSUME SprintsInv, NEW h \in Handler, NEW s \in Sprint,
           \/ BeginEditSprint(h, s) \/ BeginMoveSprint(h, s) \/ BeginDeleteSprint(h, s)
           \/ BeginStart(h, s) \/ BeginComplete(h, s)
           \/ \E t \in Task : BeginPlace(h, s, t)
    PROVE  SprintsInv'
  <1>1. CASE BeginEditSprint(h, s)
    BY <1>1, SprintBeginKeeps DEF BeginEditSprint
  <1>2. CASE BeginMoveSprint(h, s)
    <2>1. PICK n \in Sprint : Manage(h, s, {"PLANNED"}, [op |-> "move", sprint |-> s, read |-> sprint[s], neighbor |-> n])
      BY <1>2 DEF BeginMoveSprint
    <2>2. QED
      BY <2>1, SprintBeginKeeps
  <1>3. CASE BeginDeleteSprint(h, s)
    BY <1>3, SprintBeginKeeps DEF BeginDeleteSprint
  <1>4. CASE BeginStart(h, s)
    BY <1>4, SprintBeginKeeps DEF BeginStart
  <1>5. CASE BeginComplete(h, s)
    <2> DEFINE next(d) == [op |-> "complete", sprint |-> s, read |-> sprint[s], destination |-> d,
                           rows |-> TasksOf(s), done |-> TasksOf(s) \cap done]
    <2>1. PICK d \in {"backlog"} \cup Sprint : Manage(h, s, {"ACTIVE"}, next(d))
      BY <1>5 DEF BeginComplete
    <2>2. /\ next(d).op = "complete" /\ next(d).sprint = s /\ next(d).read = sprint[s]
          /\ next(d).rows = TasksOf(s) /\ next(d).done = TasksOf(s) \cap done
      OBVIOUS
    <2>3. TasksOf(s) \subseteq Task /\ TasksOf(s) \cap done \subseteq TasksOf(s)
      BY DEF TasksOf
    <2> HIDE DEF next
    <2>4. QED
      BY <2>1, <2>2, <2>3, SprintBeginKeeps
  <1>6. CASE \E t \in Task : BeginPlace(h, s, t)
    <2>1. PICK t \in Task, op \in {"add", "remove"} :
            Manage(h, s, {"PLANNED", "ACTIVE"}, [op |-> op, sprint |-> s, read |-> sprint[s], issue |-> t])
      BY <1>6 DEF BeginPlace
    <2>2. QED
      BY <2>1, SprintBeginKeeps
  <1>7. QED
    BY <1>1, <1>2, <1>3, <1>4, <1>5, <1>6

LEMMA WithdrawKeeps ==
    ASSUME SprintsInv, NEW h \in Handler, Withdraw(h)
    PROVE  SprintsInv'
  <1> DEFINE next == [op |-> "place", sprint |-> at[h].sprint, read |-> at[h].read, issue |-> at[h].issue,
                      from |-> {row \in placed : row[2] = at[h].issue /\ row[1] \in OpenSprints}]
  <1>1. at[h] # Idle /\ SprintTask(h)
    BY SprintHeld DEF Withdraw
  <1>2. at' = [at EXCEPT ![h] = next] /\ UNCHANGED sprintVars
    BY DEF Withdraw, Proceed
  <1>3. next.op = "place" /\ next.sprint = at[h].sprint /\ next.read = at[h].read
    OBVIOUS
  <1> HIDE DEF next
  <1>4. ASSUME at'[h] = next PROVE SprintTask(h)'
    BY <1>1, <1>2, <1>3, <1>4 DEF SprintTask, sprintVars
  <1>5. QED
    BY <1>2, <1>4, TaskTaken

LEMMA DeleteSprintKeeps ==
    ASSUME SprintsInv, NEW h \in Handler, DeleteSprint(h)
    PROVE  SprintsInv'
  <1> DEFINE s == at[h].sprint
             row == [sprint[s] EXCEPT !.state = "DELETED"]
  <1>1. s \in Sprint /\ sprint[s] \in SprintRow
    BY SprintHeld DEF DeleteSprint
  <1>2. row \in SprintRow /\ row.state = "DELETED" /\ row.version = sprint[s].version
    BY <1>1 DEF SprintRow
  <1>3. /\ sprint' = [sprint EXCEPT ![s] = row] /\ at' = [at EXCEPT ![h] = Idle]
        /\ report' = [report EXCEPT ![s] = {}]
        /\ totals' = [totals EXCEPT ![s] = [all |-> 0, completed |-> 0]]
    BY DEF DeleteSprint, Leave, Proceed
  <1> HIDE DEF row, s
  <1>4. /\ SprintsTypeOK' /\ sprint'[s] = row /\ report'[s] = {} /\ totals'[s] = [all |-> 0, completed |-> 0]
        /\ \A t \in Sprint : t # s => sprint'[t] = sprint[t] /\ report'[t] = report[t] /\ totals'[t] = totals[t]
        /\ \A g \in Handler : at'[g] = at[g] \/ at'[g] = Idle
    BY <1>1, <1>2, <1>3 DEF SprintsInv, SprintsTypeOK
  <1>5. OneActive'
    BY <1>2, <1>4 DEF SprintsInv, OneActive
  <1>6. \A t \in Sprint : Onward(t)
    BY <1>2, <1>4 DEF Onward
  <1>7. ASSUME NEW g \in Handler PROVE SprintTask(g)'
    BY <1>4, <1>6, TasksStand
  <1>8. ASSUME NEW t \in Sprint PROVE ReportKept(t)'
    <2>1. CASE t # s
      BY <1>4, <2>1 DEF SprintsInv, ReportKept
    <2>2. CASE t = s
      <3>1. {entry \in report'[t] : entry.completed} = {} /\ Cardinality({}) = 0
        BY <1>4, <2>2, FS_EmptySet
      <3>2. QED
        BY <1>4, <2>2, <3>1 DEF ReportKept
    <2>3. QED
      BY <2>1, <2>2
  <1>9. QED
    BY <1>4, <1>5, <1>7, <1>8 DEF SprintsInv

LEMMA StartKeeps ==
    ASSUME SprintsInv, NEW h \in Handler, StartSprint(h)
    PROVE  SprintsInv'
  <1> DEFINE s == at[h].sprint
             row == Advanced(s, "ACTIVE")
  <1>1. at[h] # Idle /\ at[h].op = "start" /\ SprintTask(h) /\ s \in Sprint
    BY SprintHeld DEF StartSprint
  <1>2. sprint[s].state = "PLANNED"
    BY <1>1 DEF SprintTask, StartSprint, Fresh, Exists
  <1>3. row \in SprintRow /\ row.state = "ACTIVE" /\ row.version > sprint[s].version
    BY <1>1, AdvancedRow
  <1>4. sprint' = [sprint EXCEPT ![s] = row] /\ at' = [at EXCEPT ![h] = Idle] /\ UNCHANGED <<report, totals>>
    BY DEF StartSprint, Leave, Proceed
  <1> HIDE DEF row, s
  <1>5. /\ SprintsTypeOK' /\ sprint'[s] = row
        /\ \A t \in Sprint : t # s => sprint'[t] = sprint[t]
        /\ \A g \in Handler : at'[g] = at[g] \/ at'[g] = Idle
    BY <1>1, <1>3, <1>4 DEF SprintsInv, SprintsTypeOK
  <1>6. OneActive'
    BY <1>5 DEF SprintsInv, OneActive, StartSprint, NoneActive
  <1>7. \A t \in Sprint : Onward(t)
    BY <1>3, <1>5 DEF Onward
  <1>8. ASSUME NEW g \in Handler PROVE SprintTask(g)'
    BY <1>5, <1>7, TasksStand
  <1>9. ASSUME NEW t \in Sprint PROVE ReportKept(t)'
    BY <1>2, <1>3, <1>4, <1>5 DEF SprintsInv, ReportKept
  <1>10. QED
    BY <1>5, <1>6, <1>8, <1>9 DEF SprintsInv

LEMMA CompletionKeeps ==
    ASSUME SprintsInv, NEW h \in Handler, Complete(h)
    PROVE  SprintsInv'
  <1> DEFINE s == at[h].sprint
             row == Advanced(s, "COMPLETED")
             rows == at[h].rows
             finished == at[h].done
             sums == [all |-> Cardinality(rows), completed |-> Cardinality(finished)]
  <1>1. at[h] # Idle /\ at[h].op = "complete" /\ SprintTask(h) /\ s \in Sprint
    BY SprintHeld DEF Complete
  <1>2. sprint[s].state = "ACTIVE" /\ rows \subseteq Task /\ finished \subseteq rows
    BY <1>1 DEF SprintTask, Complete, Fresh, Exists
  <1>3. row \in SprintRow /\ row.state = "COMPLETED" /\ row.version > sprint[s].version
    BY <1>1, AdvancedRow
  <1>4. report[s] = {}
    BY <1>1, <1>2 DEF SprintsInv, ReportKept
  <1>5. /\ sprint' = [sprint EXCEPT ![s] = row] /\ at' = [at EXCEPT ![h] = Idle]
        /\ report' = [report EXCEPT ![s] = report[s] \cup Reported(rows, finished)]
        /\ totals' = [totals EXCEPT ![s] = sums]
    BY <1>1 DEF Complete, Leave, Proceed, SprintsInv, SprintsTypeOK
  <1>6. IsFiniteSet(rows)
    BY <1>2, SprintsAssumption, FS_Subset
  <1>7. sums = [all |-> Cardinality(Reported(rows, finished)),
                completed |-> Cardinality({entry \in Reported(rows, finished) : entry.completed})]
    BY <1>2, <1>6, ReportTells
  <1> HIDE DEF row, s, rows, finished, sums
  <1>8. /\ SprintsTypeOK' /\ sprint'[s] = row /\ report'[s] = Reported(rows, finished) /\ totals'[s] = sums
        /\ \A t \in Sprint : t # s => sprint'[t] = sprint[t] /\ report'[t] = report[t] /\ totals'[t] = totals[t]
        /\ \A g \in Handler : at'[g] = at[g] \/ at'[g] = Idle
    BY <1>1, <1>3, <1>4, <1>5 DEF SprintsInv, SprintsTypeOK
  <1>9. OneActive'
    BY <1>3, <1>8 DEF SprintsInv, OneActive
  <1>10. \A t \in Sprint : Onward(t)
    BY <1>3, <1>8 DEF Onward
  <1>11. ASSUME NEW g \in Handler PROVE SprintTask(g)'
    BY <1>8, <1>10, TasksStand
  <1>12. ASSUME NEW t \in Sprint PROVE ReportKept(t)'
    <2>1. CASE t # s
      BY <1>8, <2>1 DEF SprintsInv, ReportKept
    <2>2. CASE t = s
      BY <1>3, <1>7, <1>8, <2>2 DEF ReportKept
    <2>3. QED
      BY <2>1, <2>2
  <1>13. QED
    BY <1>8, <1>9, <1>11, <1>12 DEF SprintsInv

-----------------------------------------------------------------------------
\* A sprint is completed at most once: its totals are those of its report, no sprint that
\* is not completed has one, and at most one sprint is active, whoever starts, completes,
\* fills, reorders and deletes sprints at the same time (the UPDATE ... WHERE version = of
\* sprints/[id]/route.ts and the unique index of active sprints).
THEOREM SprintsCompleteOnce ==
    ASSUME NEW requests
    PROVE  SprintSpec(requests) => []CompletedOnce
  <1>1. SprintsInit /\ HandlersInit(requests) => SprintsInv
    BY SprintInitKeeps
  <1>2. SprintsInv /\ [SprintsNext]_sprintState => SprintsInv'
    <2> SUFFICES ASSUME SprintsInv, [SprintsNext]_sprintState PROVE SprintsInv'
      OBVIOUS
    <2>1. ASSUME NEW s \in Sprint, CreateSprint(s) PROVE SprintsInv'
      BY <2>1, CreateSprintKeeps
    <2>2. ASSUME NEW t \in Task, WorkOn(t) PROVE SprintsInv'
      BY <2>2, SprintAsideKeeps DEF WorkOn, InOneStep
    <2>3. ASSUME NEW h \in Handler, Stale(h) \/ Conflict(h) PROVE SprintsInv'
      BY <2>3, SprintAsideKeeps DEF Stale, Conflict, Leave, Proceed, sprintVars
    <2>4. CASE UNCHANGED sprintState
      BY <2>4, SprintAsideKeeps DEF sprintState, handlers, sprintVars
    <2>5. QED
      BY <2>1, <2>2, <2>3, <2>4, SprintArrivalKeeps, EditKeeps, MoveKeeps, DeleteSprintKeeps,
         StartKeeps, CompletionKeeps, WithdrawKeeps DEF SprintsNext
  <1>3. SprintsInv => CompletedOnce
    BY AtMostOneActive DEF SprintsInv, ReportKept, CompletedOnce
  <1>4. QED
    BY <1>1, <1>2, <1>3, PTL DEF SprintSpec

-----------------------------------------------------------------------------
(* Planning scenarios.                                                     *)

scenarioState == <<handlers, scenarioVars>>

ScenarioSpec(requests) == ScenariosInit /\ HandlersInit(requests) /\ [][ScenariosNext]_scenarioState

Value    == [parent : Parent, rank : Rank, estimate : Estimate]
Snapshot == [parent : Parent, estimate : Estimate]
Change   == [baseVersion : Nat, snapshot : Snapshot, patch : Patch, version : Nat]

Reparenting == [op : {"reparent"}, item : Item, parent : Parent, cursor : Parent, seen : SUBSET Parent,
                version : Nat, old : Parent]
Saving      == [op : {"save"}, item : Item, patch : Patch, seen : SUBSET Parent, version : Nat,
                snapshot : Snapshot, cursor : Parent]
Recording   == [op : {"record"}, item : Item, existing : BOOLEAN, patch : Patch, version : Nat,
                snapshot : Snapshot]
Publishing  == [op : {"publish"}, changes : SUBSET (Item \X Change)]
Releasing   == [op : {"apply"}, valid : SUBSET (Item \X Change), conflicts : SUBSET Item]

ScenarioTasks == Reparenting \cup Saving \cup Recording \cup Publishing \cup Releasing \cup {Idle}

ScenariosTypeOK ==
  /\ past \in [Item -> Seq(Value)]
  /\ \A i \in Item : Len(past[i]) >= 1
  /\ change \in [Item -> SUBSET Change]
  /\ at \in [Handler -> ScenarioTasks]

\* What was noted of a version of an issue is what the issue had then.
NotedTrue(i, version, noted) ==
  version \in 1 .. Len(past[i]) /\ noted = Planned(past[i][version])

\* Changes of different issues, each with what its issue had.
RowsTrue(rows) ==
  /\ \A row \in rows : NotedTrue(row[1], row[2].baseVersion, row[2].snapshot)
  /\ \A row, other \in rows : row[1] = other[1] => row = other

ChangesKept ==
  \A i \in Item :
    /\ \A c \in change[i] : NotedTrue(i, c.baseVersion, c.snapshot)
    /\ \A c, d \in change[i] : c = d

ScenarioTask(h) ==
  /\ at[h].op \in {"save", "record"} => NotedTrue(at[h].item, at[h].version, at[h].snapshot)
  /\ at[h].op = "publish" => RowsTrue(at[h].changes)
  /\ at[h].op = "apply" => RowsTrue(at[h].valid) /\ \A row \in at[h].valid : row[1] \notin at[h].conflicts

PublicationTrue(p) ==
  /\ p.wrote = {<<entry.item, entry.version + 1>> : entry \in p.rollback}
  /\ \A entry \in p.rollback : entry.item \in Item /\ NotedTrue(entry.item, entry.version, entry.snapshot)
  /\ \A entry \in p.rollback : entry.item \notin p.conflicts

ScenariosInv ==
  /\ ScenariosTypeOK /\ ChangesKept
  /\ \A h \in Handler : ScenarioTask(h)
  /\ \A p \in published : PublicationTrue(p)

\* The versions of an issue stay as they were.
Grown ==
  \A i \in Item : /\ Len(past'[i]) >= Len(past[i])
                  /\ \A k \in 1 .. Len(past[i]) : past'[i][k] = past[i][k]

LEMMA NotedStays ==
    ASSUME ScenariosTypeOK, ScenariosTypeOK', Grown, NEW i \in Item, NEW version, NEW noted,
           NotedTrue(i, version, noted)
    PROVE  NotedTrue(i, version, noted)'
  <1>1. Len(past[i]) \in Nat /\ Len(past'[i]) \in Nat
    BY DEF ScenariosTypeOK
  <1>2. version \in 1 .. Len(past'[i]) /\ past'[i][version] = past[i][version]
    BY <1>1 DEF Grown, NotedTrue
  <1>3. QED
    BY <1>2 DEF NotedTrue, Planned

LEMMA RowsStay ==
    ASSUME ScenariosTypeOK, ScenariosTypeOK', Grown, NEW rows \in SUBSET (Item \X Change), RowsTrue(rows)
    PROVE  RowsTrue(rows)'
  BY NotedStays DEF RowsTrue

\* What stands in a step that only adds versions.
LEMMA GrowthKeeps ==
    ASSUME ScenariosInv, ScenariosTypeOK', Grown
    PROVE  /\ \A h \in Handler : at'[h] = at[h] \/ at'[h] = Idle => ScenarioTask(h)'
           /\ change' = change => ChangesKept'
           /\ \A p \in published : PublicationTrue(p)'
  <1>1. ASSUME NEW h \in Handler, at'[h] = at[h] \/ at'[h] = Idle PROVE ScenarioTask(h)'
    <2>1. CASE at'[h] = Idle
      BY <2>1 DEF ScenarioTask, Idle
    <2>2. CASE at'[h] = at[h] /\ at[h].op \in {"save", "record"}
      <3>1. at[h].item \in Item
        BY <2>2 DEF ScenariosInv, ScenariosTypeOK, ScenarioTasks, Saving, Recording, Reparenting,
                    Publishing, Releasing, Idle
      <3>2. NotedTrue(at[h].item, at[h].version, at[h].snapshot)
        BY <2>2 DEF ScenariosInv, ScenarioTask
      <3>3. (NotedTrue(at[h].item, at[h].version, at[h].snapshot))'
        BY <2>2, <3>1, <3>2, NotedStays DEF ScenariosInv, NotedTrue
      <3>4. QED
        BY <2>2, <3>3 DEF ScenarioTask
    <2>3. CASE at'[h] = at[h] /\ at[h].op = "publish"
      <3>1. at[h].changes \in SUBSET (Item \X Change)
        BY <2>3 DEF ScenariosInv, ScenariosTypeOK, ScenarioTasks, Saving, Recording, Reparenting,
                    Publishing, Releasing, Idle
      <3>2. RowsTrue(at[h].changes)
        BY <2>3 DEF ScenariosInv, ScenarioTask
      <3>3. RowsTrue(at[h].changes)'
        BY <2>3, <3>1, <3>2, RowsStay DEF ScenariosInv, RowsTrue, NotedTrue
      <3>4. QED
        BY <2>3, <3>3 DEF ScenarioTask
    <2>4. CASE at'[h] = at[h] /\ at[h].op = "apply"
      <3>1. at[h].valid \in SUBSET (Item \X Change)
        BY <2>4 DEF ScenariosInv, ScenariosTypeOK, ScenarioTasks, Saving, Recording, Reparenting,
                    Publishing, Releasing, Idle
      <3>2. RowsTrue(at[h].valid) /\ \A row \in at[h].valid : row[1] \notin at[h].conflicts
        BY <2>4 DEF ScenariosInv, ScenarioTask
      <3>3. RowsTrue(at[h].valid)'
        BY <2>4, <3>1, <3>2, RowsStay DEF ScenariosInv, RowsTrue, NotedTrue
      <3>4. QED
        BY <2>4, <3>2, <3>3 DEF ScenarioTask
    <2>5. CASE at'[h] = at[h] /\ at[h].op \notin {"save", "record", "publish", "apply"}
      BY <2>5 DEF ScenarioTask
    <2>6. QED
      BY <1>1, <2>1, <2>2, <2>3, <2>4, <2>5
  <1>2. ASSUME change' = change PROVE ChangesKept'
    BY <1>2, NotedStays DEF ScenariosInv, ChangesKept
  <1>3. ASSUME NEW p \in published PROVE PublicationTrue(p)'
    BY NotedStays DEF ScenariosInv, PublicationTrue
  <1>4. QED
    BY <1>1, <1>2, <1>3

\* Nothing is written but by the handler that stops.
LEMMA QuietKeeps ==
    ASSUME ScenariosInv, ScenariosTypeOK', UNCHANGED <<past, change, published>>,
           \A h \in Handler : at'[h] = at[h] \/ ScenarioTask(h)'
    PROVE  ScenariosInv'
  <1>1. Grown
    BY DEF Grown, ScenariosInv, ScenariosTypeOK
  <1>2. QED
    BY <1>1, GrowthKeeps DEF ScenariosInv

\* An issue is written: it has one more version.
LEMMA WriteGrows ==
    ASSUME ScenariosTypeOK, NEW i \in Item, NEW value \in Value, Write(i, value)
    PROVE  /\ past' \in [Item -> Seq(Value)]
           /\ \A j \in Item : Len(past'[j]) >= 1
           /\ Grown
  <1> HIDE DEF Value
  <1>1. past \in [Item -> Seq(Value)] /\ past' = [past EXCEPT ![i] = Append(past[i], value)]
    BY DEF ScenariosTypeOK, Write
  <1>2. /\ Append(past[i], value) \in Seq(Value)
        /\ Len(Append(past[i], value)) = Len(past[i]) + 1
        /\ \A k \in 1 .. Len(past[i]) : Append(past[i], value)[k] = past[i][k]
    BY <1>1, AppendProperties
  <1>3. \A j \in Item : past'[j] = IF j = i THEN Append(past[i], value) ELSE past[j]
    BY <1>1
  <1>4. past' \in [Item -> Seq(Value)]
    BY <1>1, <1>2
  <1>5. \A j \in Item : Len(past[j]) \in Nat /\ Len(past[j]) >= 1
    BY <1>1 DEF ScenariosTypeOK
  <1>6. ASSUME NEW j \in Item
        PROVE  /\ Len(past'[j]) >= Len(past[j])
               /\ \A k \in 1 .. Len(past[j]) : past'[j][k] = past[j][k]
    <2>1. CASE j = i
      <3>1. past'[j] = Append(past[j], value)
        BY <1>3, <2>1
      <3>2. QED
        BY <1>2, <1>5, <2>1, <3>1
    <2>2. CASE j # i
      BY <1>3, <1>5, <2>2
    <2>3. QED
      BY <2>1, <2>2
  <1>7. ASSUME NEW j \in Item PROVE Len(past'[j]) >= 1
    BY <1>4, <1>5, <1>6
  <1>8. QED
    BY <1>4, <1>6, <1>7 DEF Grown

LEMMA LiveValue ==
    ASSUME ScenariosTypeOK, NEW i \in Item
    PROVE  Live(i) \in Value /\ VersionOf(i) \in 1 .. Len(past[i]) /\ VersionOf(i) \in Nat
  <1> HIDE DEF Value
  <1>1. past[i] \in Seq(Value) /\ Len(past[i]) >= 1 /\ Len(past[i]) \in Nat
    BY DEF ScenariosTypeOK
  <1>2. QED
    BY <1>1 DEF Live, VersionOf

LEMMA ScenarioInitKeeps ==
    ASSUME NEW requests, ScenariosInit, HandlersInit(requests)
    PROVE  ScenariosInv
  <1> DEFINE e == CHOOSE e \in Estimate : TRUE
             first(k) == [parent |-> None, rank |-> k, estimate |-> e]
  <1>1. e \in Estimate
    BY ScenariosAssumption
  <1>2. \A k \in Rank : first(k) \in Value
    BY <1>1 DEF Value, Parent
  <1>3. past \in [Item -> {<<first(k)>> : k \in Rank}]
    BY DEF ScenariosInit
  <1> HIDE DEF first, e, Value
  <1>4. \A k \in Rank : <<first(k)>> \in Seq(Value) /\ Len(<<first(k)>>) = 1
    BY <1>2
  <1>5. past \in [Item -> Seq(Value)] /\ \A i \in Item : Len(past[i]) >= 1
    <2>1. ASSUME NEW i \in Item PROVE past[i] \in Seq(Value) /\ Len(past[i]) = 1
      <3>1. PICK k \in Rank : past[i] = <<first(k)>>
        BY <1>3
      <3>2. QED
        BY <1>4, <3>1
    <2>2. past = [i \in Item |-> past[i]]
      BY <1>3
    <2>3. \A i \in Item : past[i] \in Seq(Value)
      BY <2>1
    <2>4. past \in [Item -> Seq(Value)]
      BY ONLY <2>2, <2>3
    <2>5. \A i \in Item : Len(past[i]) >= 1
      BY <2>1
    <2>6. QED
      BY <2>4, <2>5
  <1>6. ScenariosTypeOK
    BY <1>5 DEF ScenariosTypeOK, ScenariosInit, HandlersInit, ScenarioTasks
  <1>7. ChangesKept /\ \A h \in Handler : ScenarioTask(h)
    BY DEF ScenariosInit, HandlersInit, ChangesKept, ScenarioTask, Idle
  <1>8. QED
    BY <1>6, <1>7 DEF ScenariosInv, ScenariosInit

\* The record of a handler that is at work.
LEMMA ScenarioReads ==
    ASSUME ScenariosTypeOK, NEW h \in Handler
    PROVE  /\ Busy(h, "reparent") => at[h] \in Reparenting
           /\ Busy(h, "save") => at[h] \in Saving
           /\ Busy(h, "record") => at[h] \in Recording
           /\ Busy(h, "publish") => at[h] \in Publishing
           /\ Busy(h, "apply") => at[h] \in Releasing
  BY DEF ScenariosTypeOK, ScenarioTasks, Busy, Reparenting, Saving, Recording, Publishing, Releasing, Idle

LEMMA EditItemKeeps ==
    ASSUME ScenariosInv, NEW i \in Item, EditItem(i)
    PROVE  ScenariosInv'
  <1> USE DEF ScenariosInv
  <1>1. PICK value \in [parent : {Live(i).parent}, rank : Rank, estimate : Estimate] : Write(i, value)
    BY DEF EditItem
  <1>2. value \in Value
    BY LiveValue DEF Value
  <1>3. UNCHANGED <<change, published, at>>
    BY DEF EditItem, InOneStep
  <1>4. ScenariosTypeOK' /\ Grown
    BY <1>1, <1>2, <1>3, WriteGrows DEF ScenariosTypeOK
  <1>5. QED
    BY <1>3, <1>4, GrowthKeeps

LEMMA ReparentKeeps ==
    ASSUME ScenariosInv, NEW h \in Handler, Reparent(h)
    PROVE  ScenariosInv'
  <1> USE DEF ScenariosInv
  <1> DEFINE i == at[h].item
             value == [Live(i) EXCEPT !.parent = at[h].parent]
  <1>1. at[h] \in Reparenting
    BY ScenarioReads DEF Reparent
  <1>2. i \in Item /\ at[h].parent \in Parent
    BY <1>1 DEF Reparenting
  <1>3. value \in Value
    BY <1>2, LiveValue DEF Value
  <1>4. Write(i, value) /\ at' = [at EXCEPT ![h] = Idle] /\ UNCHANGED <<change, published>>
    BY DEF Reparent, Leave, Proceed
  <1> HIDE DEF value, i
  <1>5. ScenariosTypeOK' /\ Grown
    BY <1>2, <1>3, <1>4, WriteGrows DEF ScenariosTypeOK, ScenarioTasks
  <1>6. \A g \in Handler : at'[g] = at[g] \/ at'[g] = Idle
    BY <1>4 DEF ScenariosTypeOK
  <1>7. QED
    BY <1>4, <1>5, <1>6, GrowthKeeps

LEMMA TaskReplaced ==
    ASSUME ScenariosInv, NEW h \in Handler, NEW next \in ScenarioTasks, at' = [at EXCEPT ![h] = next],
           UNCHANGED <<past, change, published>>, at'[h] = next => ScenarioTask(h)'
    PROVE  ScenariosInv'
  <1>1. ScenariosTypeOK'
    BY DEF ScenariosInv, ScenariosTypeOK
  <1>2. at'[h] = next /\ \A g \in Handler : g # h => at'[g] = at[g]
    BY DEF ScenariosInv, ScenariosTypeOK
  <1>3. QED
    BY <1>1, <1>2, QuietKeeps

LEMMA ScenarioLeaveKeeps ==
    ASSUME ScenariosInv, NEW h \in Handler, Leave(h), UNCHANGED scenarioVars
    PROVE  ScenariosInv'
  <1>1. at' = [at EXCEPT ![h] = Idle] /\ Idle \in ScenarioTasks /\ UNCHANGED <<past, change, published>>
    BY DEF Leave, Proceed, ScenarioTasks, scenarioVars
  <1>2. at'[h] = Idle => ScenarioTask(h)'
    BY DEF ScenarioTask, Idle
  <1>3. QED
    BY <1>1, <1>2, TaskReplaced

LEMMA BeginReparentKeeps ==
    ASSUME ScenariosInv, NEW h \in Handler, NEW i \in Item, BeginReparent(h, i)
    PROVE  ScenariosInv'
  <1> DEFINE next(p) == [op |-> "reparent", item |-> i, parent |-> p, cursor |-> p, seen |-> {},
                         version |-> VersionOf(i), old |-> Live(i).parent]
  <1>1. PICK p \in Parent : at' = [at EXCEPT ![h] = next(p)] /\ UNCHANGED scenarioVars
    BY DEF BeginReparent, Enter
  <1>2. VersionOf(i) \in Nat /\ Live(i).parent \in Parent
    BY LiveValue DEF ScenariosInv, Value
  <1>3. next(p) \in Reparenting /\ next(p).op = "reparent"
    BY <1>1, <1>2 DEF Reparenting
  <1> HIDE DEF next
  <1>4. at'[h] = next(p) => ScenarioTask(h)'
    BY <1>3 DEF ScenarioTask
  <1>5. QED
    BY <1>1, <1>3, <1>4, TaskReplaced DEF ScenarioTasks, scenarioVars

LEMMA BeginSaveKeeps ==
    ASSUME ScenariosInv, NEW h \in Handler, NEW i \in Item, BeginSave(h, i)
    PROVE  ScenariosInv'
  <1> DEFINE cursor(patch) == IF patch.parent = {} THEN None ELSE CHOOSE p \in patch.parent : TRUE
             next(patch) == [op |-> "save", item |-> i, patch |-> patch, seen |-> {}, version |-> VersionOf(i),
                             snapshot |-> Planned(Live(i)), cursor |-> cursor(patch)]
  <1>1. PICK patch \in Patch : at' = [at EXCEPT ![h] = next(patch)] /\ UNCHANGED scenarioVars
    BY DEF BeginSave, Enter
  <1>2. VersionOf(i) \in Nat /\ Planned(Live(i)) \in Snapshot
    BY LiveValue DEF ScenariosInv, Value, Snapshot, Planned
  <1>3. cursor(patch) \in Parent
    BY <1>1 DEF Patch, Parent
  <1> HIDE DEF cursor
  <1>4. /\ next(patch) \in Saving /\ next(patch).op = "save" /\ next(patch).item = i
        /\ next(patch).version = VersionOf(i) /\ next(patch).snapshot = Planned(Live(i))
    BY <1>1, <1>2, <1>3 DEF Saving
  <1> HIDE DEF next
  <1>5. ASSUME at'[h] = next(patch) PROVE ScenarioTask(h)'
    <2>1. past' = past /\ VersionOf(i) \in 1 .. Len(past[i])
      BY <1>1, LiveValue DEF ScenariosInv, scenarioVars
    <2>2. at'[h].snapshot = Planned(past'[i][VersionOf(i)]) /\ at'[h].op = "save"
      BY <1>4, <1>5, <2>1 DEF Live
    <2>3. QED
      BY <1>4, <1>5, <2>1, <2>2 DEF ScenarioTask, NotedTrue
  <1>6. QED
    BY <1>1, <1>4, <1>5, TaskReplaced DEF ScenarioTasks, scenarioVars

LEMMA WalkKeeps ==
    ASSUME ScenariosInv, NEW h \in Handler, Walk(h)
    PROVE  ScenariosInv'
  <1> DEFINE c == at[h].cursor
             next == [at[h] EXCEPT !.seen = at[h].seen \cup {c}, !.cursor = Live(c).parent]
  <1>1. at' = [at EXCEPT ![h] = next] /\ UNCHANGED scenarioVars
    BY DEF Walk, Proceed
  <1>2. CASE Busy(h, "reparent")
    <2>1. at[h] \in Reparenting
      BY <1>2, ScenarioReads DEF ScenariosInv
    <2>2. c \in Item
      BY <2>1 DEF Walk, Reparenting, Parent
    <2>3. Live(c).parent \in Parent
      BY <2>2, LiveValue DEF ScenariosInv, Value
    <2>4. next \in Reparenting /\ next.op = "reparent"
      BY <2>1, <2>2, <2>3 DEF Reparenting, Parent
    <2> HIDE DEF next
    <2>5. at'[h] = next => ScenarioTask(h)'
      BY <2>4 DEF ScenarioTask
    <2>6. QED
      BY <1>1, <2>4, <2>5, TaskReplaced DEF ScenarioTasks, scenarioVars
  <1>3. CASE Busy(h, "save")
    <2>1. at[h] \in Saving
      BY <1>3, ScenarioReads DEF ScenariosInv
    <2>2. c \in Item
      BY <2>1 DEF Walk, Saving, Parent
    <2>3. Live(c).parent \in Parent
      BY <2>2, LiveValue DEF ScenariosInv, Value
    <2>4. /\ next \in Saving /\ next.op = "save" /\ next.item = at[h].item
          /\ next.version = at[h].version /\ next.snapshot = at[h].snapshot
      BY <2>1, <2>2, <2>3 DEF Saving, Parent
    <2> HIDE DEF next
    <2>5. NotedTrue(at[h].item, at[h].version, at[h].snapshot)
      BY <1>3 DEF Busy, ScenariosInv, ScenarioTask
    <2>6. at'[h] = next => ScenarioTask(h)'
      BY <1>1, <2>4, <2>5 DEF ScenarioTask, NotedTrue, Planned, scenarioVars
    <2>7. QED
      BY <1>1, <2>4, <2>6, TaskReplaced DEF ScenarioTasks, scenarioVars
  <1>4. QED
    BY <1>2, <1>3 DEF Walk, Busy

LEMMA FindChangeKeeps ==
    ASSUME ScenariosInv, NEW h \in Handler, FindChange(h)
    PROVE  ScenariosInv'
  <1> DEFINE i == at[h].item
             there == change[i] # {}
             next == [op |-> "record", item |-> i, existing |-> there, patch |-> at[h].patch,
                      version |-> at[h].version, snapshot |-> at[h].snapshot]
  <1>1. at' = [at EXCEPT ![h] = next] /\ UNCHANGED scenarioVars
    BY DEF FindChange, Proceed
  <1>2. at[h] \in Saving
    BY ScenarioReads DEF FindChange, ScenariosInv
  <1>3. there \in BOOLEAN
    OBVIOUS
  <1> HIDE DEF there
  <1>4. /\ next \in Recording /\ next.op = "record" /\ next.item = i
        /\ next.version = at[h].version /\ next.snapshot = at[h].snapshot
    BY <1>2, <1>3 DEF Saving, Recording
  <1> HIDE DEF next
  <1>5. NotedTrue(i, at[h].version, at[h].snapshot)
    BY DEF FindChange, Busy, ScenariosInv, ScenarioTask
  <1>6. at'[h] = next => ScenarioTask(h)'
    BY <1>1, <1>4, <1>5 DEF ScenarioTask, NotedTrue, Planned, scenarioVars
  <1>7. QED
    BY <1>1, <1>4, <1>6, TaskReplaced DEF ScenarioTasks, scenarioVars

LEMMA SaveChangeKeeps ==
    ASSUME ScenariosInv, NEW h \in Handler, SaveChange(h)
    PROVE  ScenariosInv'
  <1> USE DEF ScenariosInv
  <1> DEFINE i == at[h].item
             new == NewChange(at[h])
             set == IF change[i] = {} THEN {new} ELSE {Resaved(old, at[h]) : old \in change[i]}
  <1>1. at' = [at EXCEPT ![h] = Idle] /\ UNCHANGED <<past, hidden, published>>
    BY DEF SaveChange, Leave, Proceed
  <1>2. at[h] \in Recording /\ NotedTrue(i, at[h].version, at[h].snapshot)
    BY ScenarioReads DEF SaveChange, Busy, ScenarioTask
  <1>3. i \in Item
    BY <1>2 DEF Recording
  <1>4. \A g \in Handler : at'[g] = at[g] \/ at'[g] = Idle
    BY <1>1 DEF ScenariosTypeOK
  <1>5. CASE UNCHANGED change
    <2>1. ScenariosTypeOK'
      BY <1>1, <1>5 DEF ScenariosTypeOK, ScenarioTasks
    <2>2. Grown
      BY <1>1 DEF Grown, ScenariosTypeOK
    <2>3. QED
      BY <1>1, <1>4, <1>5, <2>1, <2>2, GrowthKeeps
  <1>6. CASE change' = [change EXCEPT ![i] = set]
    <2>1. new \in Change /\ new.baseVersion = at[h].version /\ new.snapshot = at[h].snapshot
      BY <1>2 DEF NewChange, Change, Recording
    <2>2. ASSUME NEW old \in change[i]
          PROVE  /\ Resaved(old, at[h]) \in Change
                 /\ Resaved(old, at[h]).baseVersion = old.baseVersion
                 /\ Resaved(old, at[h]).snapshot = old.snapshot
      <3>1. old \in Change /\ at[h].patch \in Patch
        BY <1>2, <1>3 DEF ScenariosTypeOK, Recording
      <3>2. old.version + 1 \in Nat
        BY <3>1 DEF Change
      <3>3. Resaved(old, at[h]) = [old EXCEPT !.patch = at[h].patch, !.version = old.version + 1]
        BY DEF Resaved
      <3>4. QED
        BY ONLY <3>1, <3>2, <3>3 DEF Change
    <2> HIDE DEF new
    <2>3. set \subseteq Change
      BY <2>1, <2>2
    <2>4. \A c \in set : NotedTrue(i, c.baseVersion, c.snapshot)
      BY <1>2, <1>3, <2>1, <2>2 DEF ChangesKept
    <2>5. \A c, d \in set : c = d
      BY <1>3 DEF ChangesKept
    <2> HIDE DEF set, i
    <2>6. ScenariosTypeOK' /\ change'[i] = set /\ \A j \in Item : j # i => change'[j] = change[j]
      BY <1>1, <1>3, <1>6, <2>3 DEF ScenariosTypeOK, ScenarioTasks
    <2>7. Grown
      BY <1>1 DEF Grown, ScenariosTypeOK
    <2>8. ASSUME NEW j \in Item
          PROVE  /\ \A c \in change'[j] : NotedTrue(j, c.baseVersion, c.snapshot)
                 /\ \A c, d \in change'[j] : c = d
      BY <2>4, <2>5, <2>6 DEF ChangesKept
    <2>9. ChangesKept'
      BY <1>1, <2>8 DEF ChangesKept, NotedTrue
    <2>10. QED
      BY <1>1, <1>4, <2>6, <2>7, <2>9, GrowthKeeps
  <1>7. QED
    BY <1>5, <1>6 DEF SaveChange

LEMMA BeginPublishKeeps ==
    ASSUME ScenariosInv, NEW h \in Handler, BeginPublishChanges(h)
    PROVE  ScenariosInv'
  <1> DEFINE changes(selected) == {row \in Item \X UNION {change[i] : i \in selected} :
                                     row[1] \in selected /\ row[2] \in change[row[1]]}
             next(selected) == [op |-> "publish", changes |-> changes(selected)]
  <1>1. PICK selected \in SUBSET {i \in Item : change[i] # {}} :
          at' = [at EXCEPT ![h] = next(selected)] /\ UNCHANGED scenarioVars
    BY DEF BeginPublishChanges, Enter
  <1>2. \A row \in changes(selected) :
          row \in Item \X Change /\ row[1] \in Item /\ row[2] \in change[row[1]] /\ row = <<row[1], row[2]>>
    BY <1>1 DEF ScenariosInv, ScenariosTypeOK
  <1> HIDE DEF changes
  <1>3. next(selected) \in Publishing /\ next(selected).op = "publish"
        /\ next(selected).changes = changes(selected)
    BY <1>2 DEF Publishing
  <1> HIDE DEF next
  <1>4. \A row \in changes(selected) : NotedTrue(row[1], row[2].baseVersion, row[2].snapshot)
    BY <1>2 DEF ScenariosInv, ChangesKept
  <1>5. \A row, other \in changes(selected) : row[1] = other[1] => row = other
    BY <1>2 DEF ScenariosInv, ChangesKept
  <1>6. at'[h] = next(selected) => ScenarioTask(h)'
    BY <1>1, <1>3, <1>4, <1>5 DEF ScenarioTask, RowsTrue, NotedTrue, scenarioVars
  <1>7. QED
    BY <1>1, <1>3, <1>6, TaskReplaced DEF ScenarioTasks, scenarioVars

LEMMA DecideKeeps ==
    ASSUME ScenariosInv, NEW h \in Handler, DecideConflicts(h)
    PROVE  ScenariosInv'
  <1> DEFINE conflicts == {row \in at[h].changes : row[1] \in hidden \/ ~Unmoved(row[2], row[1])}
             valid == at[h].changes \ conflicts
             refused == {row[1] : row \in conflicts}
             next == [op |-> "apply", valid |-> valid, conflicts |-> refused]
  <1>1. at' = [at EXCEPT ![h] = next] /\ UNCHANGED scenarioVars
    BY DEF DecideConflicts, Proceed
  <1>2. at[h] \in Publishing /\ RowsTrue(at[h].changes)
    BY ScenarioReads DEF DecideConflicts, ScenariosInv, ScenarioTask, Busy
  <1>3. at[h].changes \subseteq Item \X Change
    BY <1>2 DEF Publishing
  <1>4. conflicts \subseteq at[h].changes /\ valid \subseteq at[h].changes /\ valid \cap conflicts = {}
    OBVIOUS
  <1> HIDE DEF conflicts, valid
  <1>5. refused \subseteq Item
    BY <1>3, <1>4
  <1>6. \A row \in valid : row[1] \notin refused
    BY <1>2, <1>4 DEF RowsTrue
  <1> HIDE DEF refused
  <1>7. next \in Releasing /\ next.op = "apply" /\ next.valid = valid /\ next.conflicts = refused
    BY <1>3, <1>4, <1>5 DEF Releasing
  <1> HIDE DEF next
  <1>8. RowsTrue(valid)
    BY <1>2, <1>4 DEF RowsTrue
  <1>9. at'[h] = next => ScenarioTask(h)'
    BY <1>1, <1>6, <1>7, <1>8 DEF ScenarioTask, RowsTrue, NotedTrue, scenarioVars
  <1>10. QED
    BY <1>1, <1>7, <1>9, TaskReplaced DEF ScenarioTasks, scenarioVars

\* The value that a change makes of an issue.
LEMMA AppliedValue ==
    ASSUME NEW value \in Value, NEW patch \in Patch
    PROVE  Applied(value, patch) \in Value
  <1>1. patch.parent \subseteq Parent /\ patch.estimate \subseteq Estimate
    BY DEF Patch
  <1> DEFINE p == IF patch.parent = {} THEN value.parent ELSE CHOOSE p \in patch.parent : TRUE
             e == IF patch.estimate = {} THEN value.estimate ELSE CHOOSE e \in patch.estimate : TRUE
  <1>2. p \in Parent /\ e \in Estimate
    BY <1>1 DEF Value
  <1>3. Applied(value, patch) = [value EXCEPT !.parent = p, !.estimate = e]
    BY DEF Applied, Value
  <1> HIDE DEF p, e
  <1>4. QED
    BY <1>2, <1>3 DEF Value

LEMMA PublishKeeps ==
    ASSUME ScenariosInv, NEW h \in Handler, PublishChanges(h)
    PROVE  ScenariosInv'
  <1> USE DEF ScenariosInv
  <1> DEFINE valid == at[h].valid
             more(i) == IF \E row \in valid : row[1] = i
                        THEN <<Applied(Live(i), (CHOOSE row \in valid : row[1] = i)[2].patch)>> ELSE <<>>
             entry(row) == [item |-> row[1], version |-> row[2].baseVersion, snapshot |-> row[2].snapshot]
             rollback == {entry(row) : row \in valid}
             wrote == {<<row[1], VersionOf(row[1]) + 1>> : row \in valid}
             status == PublishStatus(valid, at[h].conflicts)
             made == [rollback |-> rollback, wrote |-> wrote, conflicts |-> at[h].conflicts, status |-> status]
  <1>1. /\ past' = [i \in Item |-> past[i] \o more(i)]
        /\ published' = published \cup {made}
        /\ at' = [at EXCEPT ![h] = Idle] /\ UNCHANGED change
        /\ \A row \in valid : VersionOf(row[1]) = row[2].baseVersion
    BY DEF PublishChanges, Leave, Proceed, StillUnmoved, Unmoved
  <1>2. /\ at[h] \in Releasing /\ RowsTrue(valid)
        /\ \A row \in valid : row[1] \notin at[h].conflicts
    BY ScenarioReads DEF PublishChanges, ScenarioTask, Busy
  <1>3. valid \subseteq Item \X Change
    BY <1>2 DEF Releasing
  <1>4. ASSUME NEW i \in Item PROVE more(i) \in Seq(Value)
    <2>1. CASE \E row \in valid : row[1] = i
      <3> DEFINE row == CHOOSE row \in valid : row[1] = i
      <3>1. row \in valid
        BY <2>1
      <3>2. row[2] \in Change
        BY <1>3, <3>1
      <3>3. row[2].patch \in Patch
        BY <3>2 DEF Change
      <3>4. Applied(Live(i), row[2].patch) \in Value
        BY <3>3, LiveValue, AppliedValue
      <3>5. more(i) = <<Applied(Live(i), row[2].patch)>>
        BY <2>1
      <3> HIDE DEF row, more, Value
      <3>6. QED
        BY <3>4, <3>5
    <2>2. CASE ~\E row \in valid : row[1] = i
      <3>1. more(i) = <<>>
        BY <2>2
      <3> HIDE DEF Value, more
      <3>2. QED
        BY <3>1
    <2>3. QED
      BY <2>1, <2>2
  <1> HIDE DEF more, Value
  <1>5. ASSUME NEW i \in Item
        PROVE  /\ past'[i] \in Seq(Value) /\ Len(past'[i]) >= Len(past[i]) /\ Len(past'[i]) >= 1
               /\ \A k \in 1 .. Len(past[i]) : past'[i][k] = past[i][k]
    <2>1. past[i] \in Seq(Value) /\ Len(past[i]) >= 1 /\ more(i) \in Seq(Value)
      BY <1>4 DEF ScenariosTypeOK
    <2>2. past'[i] = past[i] \o more(i)
      BY <1>1
    <2>3. /\ past[i] \o more(i) \in Seq(Value) /\ Len(past[i] \o more(i)) = Len(past[i]) + Len(more(i))
          /\ \A k \in 1 .. Len(past[i]) : (past[i] \o more(i))[k] = past[i][k]
          /\ Len(past[i]) \in Nat /\ Len(more(i)) \in Nat
      BY <2>1
    <2>4. QED
      BY <2>1, <2>2, <2>3
  <1>6. past' \in [Item -> Seq(Value)]
    BY <1>1, <1>5
  <1>7. ScenariosTypeOK' /\ Grown
    BY <1>1, <1>5, <1>6 DEF ScenariosTypeOK, Grown, ScenarioTasks
  <1>8. \A g \in Handler : at'[g] = at[g] \/ at'[g] = Idle
    BY <1>1 DEF ScenariosTypeOK
  <1> HIDE DEF status
  <1>9. made.wrote = wrote /\ made.rollback = rollback /\ made.conflicts = at[h].conflicts
    OBVIOUS
  <1> HIDE DEF made
  <1>10. ASSUME NEW m, m = made PROVE PublicationTrue(m)'
    <2>1. \A row \in valid : entry(row).item = row[1] /\ entry(row).version = row[2].baseVersion
                              /\ entry(row).snapshot = row[2].snapshot
      OBVIOUS
    <2> HIDE DEF entry
    <2>2. wrote = {<<e.item, e.version + 1>> : e \in rollback}
      <3>1. \A row \in valid : <<entry(row).item, entry(row).version + 1>> = <<row[1], VersionOf(row[1]) + 1>>
        BY <1>1, <2>1
      <3> HIDE DEF valid
      <3>2. \A w \in wrote : \E e \in rollback : w = <<e.item, e.version + 1>>
        BY ONLY <3>1
      <3>3. \A e \in rollback : <<e.item, e.version + 1>> \in wrote
        BY ONLY <3>1
      <3> HIDE DEF wrote, rollback
      <3>4. QED
        BY ONLY <3>2, <3>3
    <2>3. \A row \in valid : row[1] \in Item
      BY <1>3
    <2>4. ASSUME NEW e \in rollback
          PROVE  e.item \in Item /\ NotedTrue(e.item, e.version, e.snapshot)' /\ e.item \notin at[h].conflicts
      <3>1. PICK row \in valid : e = entry(row)
        OBVIOUS
      <3>2. e.item \in Item /\ NotedTrue(e.item, e.version, e.snapshot) /\ e.item \notin at[h].conflicts
        BY <1>2, <2>1, <2>3, <3>1 DEF RowsTrue
      <3>3. QED
        BY <1>7, <3>2, NotedStays
    <2> HIDE DEF rollback, wrote, valid
    <2>5. /\ m.wrote = {<<e.item, e.version + 1>> : e \in m.rollback}
          /\ \A e \in m.rollback : e.item \in Item /\ NotedTrue(e.item, e.version, e.snapshot)'
          /\ \A e \in m.rollback : e.item \notin m.conflicts
      BY <1>9, <1>10, <2>2, <2>4
    <2>6. QED
      BY <2>5 DEF PublicationTrue, NotedTrue
  <1>11. QED
    BY <1>1, <1>7, <1>8, <1>10, GrowthKeeps

-----------------------------------------------------------------------------
\* What a publication keeps for a rollback is, for every issue it wrote, the version it
\* replaced with the fields that issue had then, and no conflict among them: the changes
\* keep what they were prepared against, and the transaction of publishScenario
\* (planning-scenarios.ts) compares that version once more.
THEOREM RollbacksAreExact ==
    ASSUME NEW requests
    PROVE  ScenarioSpec(requests) => []RollbackExact
  <1>1. ScenariosInit /\ HandlersInit(requests) => ScenariosInv
    BY ScenarioInitKeeps
  <1>2. ScenariosInv /\ [ScenariosNext]_scenarioState => ScenariosInv'
    <2> SUFFICES ASSUME ScenariosInv, [ScenariosNext]_scenarioState PROVE ScenariosInv'
      OBVIOUS
    <2>1. ASSUME NEW i \in Item, HideItem(i) PROVE ScenariosInv'
      <3>1. ScenariosTypeOK' /\ UNCHANGED <<past, change, published, at>>
        BY <2>1 DEF HideItem, InOneStep, ScenariosInv, ScenariosTypeOK
      <3>2. QED
        BY <3>1, QuietKeeps
    <2>2. ASSUME NEW h \in Handler, GiveUp(h) \/ AbortPublish(h) PROVE ScenariosInv'
      BY <2>2, ScenarioLeaveKeeps DEF GiveUp, AbortPublish
    <2>3. CASE UNCHANGED scenarioState
      <3>1. ScenariosTypeOK' /\ UNCHANGED <<past, change, published, at>>
        BY <2>3 DEF scenarioState, handlers, scenarioVars, ScenariosInv, ScenariosTypeOK
      <3>2. QED
        BY <3>1, QuietKeeps
    <2>4. QED
      BY <2>1, <2>2, <2>3, EditItemKeeps, BeginReparentKeeps, BeginSaveKeeps, BeginPublishKeeps, WalkKeeps,
         ReparentKeeps, FindChangeKeeps, SaveChangeKeeps, DecideKeeps, PublishKeeps DEF ScenariosNext
  <1>3. ScenariosInv => RollbackExact
    BY DEF ScenariosInv, PublicationTrue, NotedTrue, RollbackExact
  <1>4. QED
    BY <1>1, <1>2, <1>3, PTL DEF ScenarioSpec

-----------------------------------------------------------------------------
(* The administration of workflows.                                        *)

workflowState == <<handlers, workflowVars>>

WorkflowSpec(requests) == WorkflowInit /\ HandlersInit(requests) /\ [][WorkflowNext]_workflowState

\* Positions of some of the rows.
Places == UNION {[S -> Nat] : S \in SUBSET Stage}

Kind == {"status", "column"}

Edition == [number : Nat, configuration : SUBSET (Stage \X Stage)]

MovingRow    == [op : {"move"}, kind : Kind, item : Stage, up : BOOLEAN, from : Nat]
SwappingRows == [op : {"swap"}, kind : Kind, writes : Places]
Renumbering  == [op : {"renumber"}, writes : Places, order : Places]
AddingRow    == [op : {"create"}, count : Nat]
DroppingRow  == [op : {"delete"}, item : Stage]
Drafting     == [op : {"publish"}, draft : SUBSET (Stage \X Stage), number : Nat]

WorkflowTasks == MovingRow \cup SwappingRows \cup Renumbering \cup AddingRow \cup DroppingRow \cup Drafting \cup {Idle}

WorkflowTypeOK ==
  /\ position \in [status : Places, column : Places]
  /\ retired \subseteq Stage
  /\ transition \subseteq Stage \X Stage
  /\ edition \in Seq(Edition)
  /\ shuffled \in BOOLEAN /\ calm \in BOOLEAN
  /\ at \in [Handler -> WorkflowTasks]

\* Statuses were numbered without a gap, whether or not they were deleted since.
Numbered == \E n \in Nat : Standing("status") \cup retired = 1 .. n

\* The rows of a transaction that holds them are there.
HeldThere == \A h \in Handler : Busy(h, "renumber") => DOMAIN at[h].writes \subseteq Standing("status")

\* No version was published of statuses that are still to come, or with a number that
\* leaves a gap.
EditionsKept ==
  /\ \A i \in DOMAIN edition : StatusesOf(edition[i].configuration) \subseteq Standing("status") \cup retired
  /\ \A h \in Handler : Busy(h, "publish") => 1 <= at[h].number /\ at[h].number <= Len(edition) + 1

Placing(h) == at[h].op \notin {"idle", "publish"}

\* Positions that no two rows share, and that leave the next one free.
Tidy(f) == Distinct(f) /\ (retired = {} => \A x \in DOMAIN f : f[x] < Cardinality(DOMAIN f))

CalmTask(r) ==
  /\ r.op = "move" => r.item \in Standing(r.kind) /\ r.from = position[r.kind][r.item]
  /\ r.op = "swap" => DOMAIN r.writes \subseteq Standing(r.kind) /\ Tidy(Updated(position[r.kind], r.writes))
  /\ r.op = "renumber" => /\ Tidy(Updated(position.status, r.writes))
                          /\ r.order \in Renumberings(Updated(position.status, r.writes))
  /\ r.op = "create" => r.count = Cardinality(Standing("status"))

CalmKept ==
  calm => /\ \A g, h \in Handler : Placing(g) /\ Placing(h) => g = h
          /\ \A h \in Handler : CalmTask(at[h])
          /\ Tidy(position.status) /\ Tidy(position.column)
          /\ ~shuffled => SameOrder(position.status, position.column)

WorkflowInv ==
  /\ WorkflowTypeOK /\ Numbered /\ HeldThere /\ EditionsKept /\ CalmKept
  /\ ColumnsMatch /\ VersionsTell

-----------------------------------------------------------------------------
(* Positions.                                                              *)

LEMMA PlacesHave ==
    ASSUME NEW f \in Places
    PROVE  /\ f \in [DOMAIN f -> Nat] /\ DOMAIN f \subseteq Stage
           /\ IsFiniteSet(DOMAIN f) /\ Cardinality(DOMAIN f) \in Nat
  <1>1. PICK S \in SUBSET Stage : f \in [S -> Nat]
    BY DEF Places
  <1>2. f \in [DOMAIN f -> Nat] /\ DOMAIN f \subseteq Stage
    BY <1>1
  <1>3. IsFiniteSet(Stage)
    BY StagesAssumption, FS_Interval DEF Stage
  <1>4. QED
    BY <1>2, <1>3, FS_Subset, FS_CardinalityType

LEMMA PlacesAre ==
    ASSUME NEW S \in SUBSET Stage, NEW f \in [S -> Nat]
    PROVE  f \in Places
  BY DEF Places

LEMMA UpdatedPlaces ==
    ASSUME NEW f \in Places, NEW writes \in Places
    PROVE  /\ Updated(f, writes) \in Places
           /\ DOMAIN Updated(f, writes) = DOMAIN f \cup DOMAIN writes
           /\ \A x \in DOMAIN f \cup DOMAIN writes :
                Updated(f, writes)[x] = IF x \in DOMAIN writes THEN writes[x] ELSE f[x]
  <1>1. Updated(f, writes) \in [DOMAIN f \cup DOMAIN writes -> Nat]
    BY PlacesHave DEF Updated
  <1>2. DOMAIN f \cup DOMAIN writes \in SUBSET Stage
    BY PlacesHave
  <1>3. QED
    BY <1>1, <1>2, PlacesAre DEF Updated

LEMMA WithoutPlaces ==
    ASSUME NEW f \in Places, NEW s
    PROVE  /\ Without(f, s) \in Places
           /\ DOMAIN Without(f, s) = DOMAIN f \ {s}
           /\ \A x \in DOMAIN f \ {s} : Without(f, s)[x] = f[x]
  <1>1. Without(f, s) \in [DOMAIN f \ {s} -> Nat]
    BY PlacesHave DEF Without
  <1>2. DOMAIN f \ {s} \in SUBSET Stage
    BY PlacesHave
  <1>3. QED
    BY <1>1, <1>2, PlacesAre DEF Without

LEMMA RowsOfKind ==
    ASSUME WorkflowTypeOK, NEW k \in Kind
    PROVE  position[k] \in Places /\ Standing(k) = DOMAIN position[k]
  BY DEF WorkflowTypeOK, Kind, Standing

LEMMA WorkflowReads ==
    ASSUME WorkflowTypeOK, NEW h \in Handler
    PROVE  /\ Busy(h, "move") => at[h] \in MovingRow
           /\ Busy(h, "swap") => at[h] \in SwappingRows
           /\ Busy(h, "renumber") => at[h] \in Renumbering
           /\ Busy(h, "create") => at[h] \in AddingRow
           /\ Busy(h, "delete") => at[h] \in DroppingRow
           /\ Busy(h, "publish") => at[h] \in Drafting
  BY DEF WorkflowTypeOK, WorkflowTasks, Busy, MovingRow, SwappingRows, Renumbering, AddingRow,
         DroppingRow, Drafting, Idle

-----------------------------------------------------------------------------
(* The steps.                                                              *)

\* A handler goes on with another task, and no row is written.
LEMMA TaskChanged ==
    ASSUME WorkflowInv, NEW h \in Handler, NEW next \in WorkflowTasks, at' = [at EXCEPT ![h] = next],
           UNCHANGED <<position, retired, transition, edition, shuffled>>,
           calm' \in BOOLEAN, calm' => calm,
           next.op = "renumber" => DOMAIN next.writes \subseteq Standing("status"),
           next.op = "publish" => 1 <= next.number /\ next.number <= Len(edition) + 1,
           calm' => CalmTask(next),
           calm' /\ next.op \notin {"idle", "publish"} => \A g \in Handler : g # h => ~Placing(g)
    PROVE  WorkflowInv'
  <1> USE DEF WorkflowInv
  <1>1. at'[h] = next /\ \A g \in Handler : g # h => at'[g] = at[g]
    BY DEF WorkflowTypeOK
  <1>2. WorkflowTypeOK'
    BY DEF WorkflowTypeOK
  <1>3. Numbered' /\ ColumnsMatch' /\ VersionsTell'
    BY DEF Numbered, ColumnsMatch, VersionsTell, Standing
  <1>4. HeldThere'
    BY <1>1 DEF HeldThere, Busy, Standing
  <1>5. EditionsKept'
    <2>1. \A i \in DOMAIN edition' : StatusesOf(edition'[i].configuration) \subseteq Standing("status")' \cup retired'
      BY DEF EditionsKept, Standing
    <2>2. ASSUME NEW g \in Handler, Busy(g, "publish")'
          PROVE  1 <= at'[g].number /\ at'[g].number <= Len(edition') + 1
      BY <1>1, <2>2 DEF EditionsKept, Busy
    <2>3. QED
      BY <2>1, <2>2 DEF EditionsKept
  <1>6. CalmKept'
    <2> SUFFICES ASSUME calm' PROVE
            /\ \A f, g \in Handler : Placing(f)' /\ Placing(g)' => f = g
            /\ \A g \in Handler : CalmTask(at'[g])
            /\ Tidy(position.status) /\ Tidy(position.column)
            /\ ~shuffled => SameOrder(position.status, position.column)
      BY DEF CalmKept, CalmTask, Tidy, Standing
    <2>1. \A f, g \in Handler : Placing(f)' /\ Placing(g)' => f = g
      BY <1>1 DEF CalmKept, Placing
    <2>2. \A g \in Handler : CalmTask(at'[g])
      BY <1>1 DEF CalmKept
    <2>3. QED
      BY <2>1, <2>2 DEF CalmKept
  <1>7. QED
    BY <1>2, <1>3, <1>4, <1>5, <1>6

LEMMA WorkflowFailKeeps ==
    ASSUME WorkflowInv, NEW h \in Handler, Fails(h)
    PROVE  WorkflowInv'
  <1>1. /\ at' = [at EXCEPT ![h] = Idle] /\ UNCHANGED <<position, retired, transition, edition, shuffled, calm>>
        /\ calm \in BOOLEAN
    BY DEF Fails, Leave, Proceed, workflowVars, WorkflowInv, WorkflowTypeOK
  <1>2. Idle \in WorkflowTasks /\ Idle.op = "idle"
    BY DEF WorkflowTasks, Idle
  <1>3. CalmTask(Idle)
    BY <1>2 DEF CalmTask
  <1>4. QED
    BY <1>1, <1>2, <1>3, TaskChanged

\* A request that places rows arrives: in calm it is the only one.
LEMMA PlaceRowsKeeps ==
    ASSUME WorkflowInv, NEW h \in Handler, NEW next \in WorkflowTasks, PlaceRows(h, next),
           next.op \notin {"renumber", "publish"}, CalmTask(next)
    PROVE  WorkflowInv'
  <1>1. /\ at' = [at EXCEPT ![h] = next] /\ UNCHANGED <<position, retired, transition, edition, shuffled>>
        /\ calm' = (calm /\ \A g \in Handler : at[g].op \in {"idle", "publish"})
    BY DEF PlaceRows, Enter
  <1>2. calm' \in BOOLEAN /\ (calm' => calm) /\ (calm' => \A g \in Handler : ~Placing(g))
    BY <1>1 DEF Placing
  <1>3. QED
    BY <1>1, <1>2, TaskChanged

LEMMA BeginMoveRowKeeps ==
    ASSUME WorkflowInv, NEW h \in Handler, NEW k \in Kind, NEW s \in Stage, NEW up \in BOOLEAN,
           BeginMoveRow(h, k, s, up)
    PROVE  WorkflowInv'
  <1> DEFINE next == [op |-> "move", kind |-> k, item |-> s, up |-> up, from |-> position[k][s]]
  <1>1. s \in Standing(k) /\ PlaceRows(h, next)
    BY DEF BeginMoveRow
  <1>2. position[k][s] \in Nat
    BY <1>1, RowsOfKind, PlacesHave DEF WorkflowInv
  <1>3. next \in MovingRow /\ next.op = "move" /\ next.kind = k /\ next.item = s /\ next.from = position[k][s]
    BY <1>2 DEF MovingRow
  <1> HIDE DEF next
  <1>4. CalmTask(next)
    BY <1>1, <1>3 DEF CalmTask
  <1>5. QED
    BY <1>1, <1>3, <1>4, PlaceRowsKeeps DEF WorkflowTasks

LEMMA BeginCreateKeeps ==
    ASSUME WorkflowInv, NEW h \in Handler, BeginCreate(h)
    PROVE  WorkflowInv'
  <1> DEFINE n == Cardinality(Standing("status"))
             next == [op |-> "create", count |-> n]
  <1>1. n \in Nat
    BY RowsOfKind, PlacesHave DEF WorkflowInv, Kind
  <1> HIDE DEF n
  <1>2. next \in AddingRow /\ next.op = "create" /\ next.count = n
    BY <1>1 DEF AddingRow
  <1>3. PlaceRows(h, next)
    BY DEF BeginCreate, n
  <1> HIDE DEF next
  <1>4. CalmTask(next)
    BY <1>2 DEF CalmTask, n
  <1>5. QED
    BY <1>2, <1>3, <1>4, PlaceRowsKeeps DEF WorkflowTasks

LEMMA BeginDeleteKeeps ==
    ASSUME WorkflowInv, NEW h \in Handler, NEW s \in Stage, NEW replacement, BeginDelete(h, s, replacement)
    PROVE  WorkflowInv'
  <1> DEFINE next == [op |-> "delete", item |-> s]
  <1>1. next \in DroppingRow /\ next.op = "delete" /\ PlaceRows(h, next)
    BY DEF DroppingRow, BeginDelete
  <1> HIDE DEF next
  <1>2. CalmTask(next)
    BY <1>1 DEF CalmTask
  <1>3. QED
    BY <1>1, <1>2, PlaceRowsKeeps DEF WorkflowTasks

LEMMA LatestIsLength ==
    ASSUME WorkflowInv
    PROVE  Latest = Len(edition) /\ Len(edition) \in Nat
  <1> HIDE DEF Edition
  <1>1. edition \in Seq(Edition) /\ Len(edition) \in Nat
    BY DEF WorkflowInv, WorkflowTypeOK
  <1>2. CASE edition = <<>>
    BY <1>1, <1>2 DEF Latest
  <1>3. CASE edition # <<>>
    <2>1. Len(edition) \in DOMAIN edition
      BY <1>1, <1>3
    <2>2. QED
      BY <1>1, <1>3, <2>1 DEF Latest, WorkflowInv, VersionsTell
  <1>4. QED
    BY <1>2, <1>3

LEMMA BeginTransitionsKeeps ==
    ASSUME WorkflowInv, NEW h \in Handler, NEW draft \in Drafts, BeginTransitions(h, draft)
    PROVE  WorkflowInv'
  <1> DEFINE next == [op |-> "publish", draft |-> draft, number |-> Latest + 1]
  <1>1. /\ at' = [at EXCEPT ![h] = next]
        /\ UNCHANGED <<position, retired, transition, edition, shuffled, calm>>
    BY DEF BeginTransitions, Enter, workflowVars
  <1>2. draft \subseteq Stage \X Stage
    BY DEF Drafts
  <1>3. next \in Drafting /\ next.op = "publish" /\ next.number = Len(edition) + 1
    BY <1>2, LatestIsLength DEF Drafting
  <1>4. 1 <= next.number /\ next.number <= Len(edition) + 1
    BY <1>3, LatestIsLength
  <1> HIDE DEF next
  <1>5. CalmTask(next)
    BY <1>3 DEF CalmTask
  <1>6. calm \in BOOLEAN
    BY DEF WorkflowInv, WorkflowTypeOK
  <1>7. QED
    BY <1>1, <1>3, <1>4, <1>5, <1>6, TaskChanged DEF WorkflowTasks

\* Two rows exchange their positions.
LEMMA ExchangeTidy ==
    ASSUME NEW f \in Places, NEW w \in Places, NEW x \in DOMAIN f, NEW t \in DOMAIN f, DOMAIN w = {x, t},
           f[x] # f[t], w[x] = f[t], w[t] = f[x], Tidy(f)
    PROVE  Tidy(Updated(f, w))
  <1> DEFINE u == Updated(f, w)
  <1>1. DOMAIN u = DOMAIN f /\ \A y \in DOMAIN f : u[y] = IF y \in {x, t} THEN w[y] ELSE f[y]
    <2>1. DOMAIN f \cup DOMAIN w = DOMAIN f
      OBVIOUS
    <2>2. /\ DOMAIN u = DOMAIN f \cup DOMAIN w
          /\ \A y \in DOMAIN f \cup DOMAIN w : u[y] = IF y \in DOMAIN w THEN w[y] ELSE f[y]
      BY UpdatedPlaces
    <2> HIDE DEF u
    <2>3. QED
      BY ONLY <2>1, <2>2, DOMAIN w = {x, t}
  <1> HIDE DEF u
  <1>2. \A y \in DOMAIN f : u[y] = IF y = x THEN f[t] ELSE IF y = t THEN f[x] ELSE f[y]
    BY <1>1
  <1>3. Distinct(u)
    BY <1>1, <1>2 DEF Tidy, Distinct
  <1>4. retired = {} => \A y \in DOMAIN u : u[y] < Cardinality(DOMAIN u)
    BY <1>1, <1>2 DEF Tidy
  <1>5. QED
    BY <1>3, <1>4 DEF Tidy, u

LEMMA FindAdjacentKeeps ==
    ASSUME WorkflowInv, NEW h \in Handler, FindAdjacent(h)
    PROVE  WorkflowInv'
  <1> USE DEF WorkflowInv
  <1> DEFINE r == at[h]
             f == position[r.kind]
  <1>1. r \in MovingRow /\ Busy(h, "move") /\ Placing(h)
    BY WorkflowReads DEF FindAdjacent, Placing, Busy
  <1>2. r.kind \in Kind /\ r.item \in Stage /\ r.from \in Nat
    BY <1>1 DEF MovingRow
  <1>3. f \in Places /\ Standing(r.kind) = DOMAIN f
    BY <1>2, RowsOfKind
  <1>4. PICK writes \in Places :
          /\ at' = [at EXCEPT ![h] = [op |-> "swap", kind |-> r.kind, writes |-> writes]]
          /\ \/ DOMAIN writes = {}
             \/ \E t \in DOMAIN f : /\ f[t] # r.from /\ DOMAIN writes = {r.item, t}
                                    /\ writes = [x \in {r.item, t} |-> IF x = r.item THEN f[t] ELSE r.from]
    <2>1. CASE Proceed(h, [op |-> "swap", kind |-> r.kind, writes |-> [x \in {} |-> r.from]])
      <3> DEFINE w == [x \in {} |-> r.from]
      <3>1. w \in [{} -> Nat] /\ DOMAIN w = {} /\ {} \in SUBSET Stage
        OBVIOUS
      <3>2. w \in Places
        BY <3>1, PlacesAre
      <3>3. at' = [at EXCEPT ![h] = [op |-> "swap", kind |-> r.kind, writes |-> w]]
        BY <2>1 DEF Proceed
      <3> HIDE DEF w
      <3>4. QED
        BY <3>1, <3>2, <3>3
    <2>2. CASE \E t \in Adjacent(r.kind, r.from, r.up) :
                 Proceed(h, [op |-> "swap", kind |-> r.kind, writes |-> Exchange(r, t)])
      <3>1. PICK t \in Adjacent(r.kind, r.from, r.up) :
                 Proceed(h, [op |-> "swap", kind |-> r.kind, writes |-> Exchange(r, t)])
        BY <2>2
      <3>2. t \in DOMAIN f /\ f[t] \in Nat /\ t \in Stage
        BY <1>3, <3>1, PlacesHave DEF Adjacent, Beyond
      <3>3. f[t] # r.from
        <4>1. IF r.up THEN f[t] < r.from ELSE f[t] > r.from
          BY <3>1 DEF Adjacent, Beyond
        <4>2. QED
          BY <1>2, <3>2, <4>1
      <3> DEFINE w == Exchange(r, t)
      <3>4. /\ w = [x \in {r.item, t} |-> IF x = r.item THEN f[t] ELSE r.from]
            /\ w \in [{r.item, t} -> Nat] /\ DOMAIN w = {r.item, t}
        BY <1>2, <3>2 DEF Exchange
      <3>5. w \in Places
        BY <1>2, <3>2, <3>4, PlacesAre
      <3>6. at' = [at EXCEPT ![h] = [op |-> "swap", kind |-> r.kind, writes |-> w]]
        BY <3>1 DEF Proceed
      <3> HIDE DEF w, f
      <3>7. QED
        BY <3>2, <3>3, <3>4, <3>5, <3>6
    <2>3. QED
      BY <2>1, <2>2 DEF FindAdjacent
  <1> DEFINE next == [op |-> "swap", kind |-> r.kind, writes |-> writes]
  <1>5. next \in SwappingRows /\ next.op = "swap" /\ next.kind = r.kind /\ next.writes = writes
    BY <1>2, <1>4 DEF SwappingRows
  <1>6. at' = [at EXCEPT ![h] = next] /\ UNCHANGED <<position, retired, transition, edition, shuffled, calm>>
    BY <1>4 DEF FindAdjacent, workflowVars
  <1> HIDE DEF next
  <1>7. ASSUME calm PROVE DOMAIN writes \subseteq DOMAIN f /\ Tidy(Updated(f, writes))
    <2>1. Tidy(f)
      BY <1>2, <1>7 DEF CalmKept, Kind
    <2>2. r.item \in DOMAIN f /\ r.from = f[r.item]
      BY <1>1, <1>3, <1>7 DEF CalmKept, CalmTask, Busy
    <2>3. CASE DOMAIN writes = {}
      <3>1. Updated(f, writes) = f
        <4>1. f = [x \in DOMAIN f |-> f[x]]
          BY <1>3, PlacesHave
        <4> HIDE DEF f
        <4>2. QED
          BY <2>3, <4>1 DEF Updated
      <3>2. QED
        BY <2>1, <2>3, <3>1
    <2>4. CASE \E t \in DOMAIN f : /\ f[t] # r.from /\ DOMAIN writes = {r.item, t}
                                   /\ writes = [x \in {r.item, t} |-> IF x = r.item THEN f[t] ELSE r.from]
      <3>1. PICK t \in DOMAIN f : /\ f[t] # r.from /\ DOMAIN writes = {r.item, t}
                                   /\ writes = [x \in {r.item, t} |-> IF x = r.item THEN f[t] ELSE r.from]
        BY <2>4
      <3>2. writes[r.item] = f[t] /\ writes[t] = f[r.item] /\ f[r.item] # f[t]
        BY <2>2, <3>1
      <3> HIDE DEF f
      <3>3. QED
        BY <1>3, <1>4, <2>1, <2>2, <3>1, <3>2, ExchangeTidy
    <2>5. QED
      BY <1>4, <2>3, <2>4
  <1>8. calm => CalmTask(next)
    BY <1>3, <1>5, <1>7 DEF CalmTask
  <1>9. calm => \A g \in Handler : g # h => ~Placing(g)
    BY <1>1 DEF CalmKept
  <1>10. calm \in BOOLEAN
    BY DEF WorkflowTypeOK
  <1>11. QED
    BY <1>5, <1>6, <1>8, <1>9, <1>10, TaskChanged DEF WorkflowTasks

\* Rows are written by the handler, which is then done.
LEMMA RowsPlaced ==
    ASSUME WorkflowInv, NEW h \in Handler, Placing(h), at' = [at EXCEPT ![h] = Idle],
           UNCHANGED edition, calm' \in BOOLEAN, shuffled' \in BOOLEAN, calm' => calm,
           position' \in [status : Places, column : Places], retired' \subseteq Stage,
           transition' \subseteq Stage \X Stage,
           ColumnsMatch', VersionsTell', Numbered',
           Standing("status") \cup retired \subseteq Standing("status")' \cup retired',
           \A g \in Handler : g # h /\ Busy(g, "renumber") => DOMAIN at[g].writes \subseteq Standing("status")',
           calm' => Tidy(position.status)' /\ Tidy(position.column)',
           calm' /\ ~shuffled' => SameOrder(position.status, position.column)'
    PROVE  WorkflowInv'
  <1> USE DEF WorkflowInv
  <1>1. at'[h] = Idle /\ \A g \in Handler : g # h => at'[g] = at[g]
    BY DEF WorkflowTypeOK
  <1>2. WorkflowTypeOK'
    BY DEF WorkflowTypeOK, WorkflowTasks
  <1>3. HeldThere'
    BY <1>1 DEF HeldThere, Busy, Idle
  <1>4. EditionsKept'
    <2>1. \A i \in DOMAIN edition' : StatusesOf(edition'[i].configuration) \subseteq Standing("status")' \cup retired'
      BY DEF EditionsKept
    <2>2. ASSUME NEW g \in Handler, Busy(g, "publish")'
          PROVE  1 <= at'[g].number /\ at'[g].number <= Len(edition') + 1
      BY <1>1, <2>2 DEF EditionsKept, Busy, Idle
    <2>3. QED
      BY <2>1, <2>2 DEF EditionsKept
  <1>5. ASSUME calm', NEW g \in Handler PROVE ~Placing(g)' /\ CalmTask(at[g])'
    <2>1. g # h => ~Placing(g)
      BY <1>5 DEF CalmKept
    <2>2. at'[g].op \in {"idle", "publish"}
      BY <1>1, <2>1 DEF Placing, Idle
    <2>3. QED
      BY <2>2 DEF Placing, CalmTask
  <1>6. CalmKept'
    BY <1>5 DEF CalmKept
  <1>7. QED
    BY <1>2, <1>3, <1>4, <1>6

LEMMA SwapKeeps ==
    ASSUME WorkflowInv, NEW h \in Handler, Swap(h)
    PROVE  WorkflowInv'
  <1> USE DEF WorkflowInv
  <1> DEFINE r == at[h]
             rows == DOMAIN r.writes
  <1>1. r \in SwappingRows /\ Busy(h, "swap") /\ Placing(h) /\ r.op = "swap"
    BY WorkflowReads DEF Swap, Placing, Busy
  <1>2. r.kind \in Kind /\ r.writes \in Places
    BY <1>1 DEF SwappingRows
  <1>3. CASE Fails(h)
    BY <1>3, WorkflowFailKeeps
  <1>4. CASE /\ r.kind = "status" /\ rows \subseteq Standing("status") \ RowsHeld
             /\ \E order \in Renumberings(Updated(position.status, r.writes)) :
                  Proceed(h, [op |-> "renumber", writes |-> r.writes, order |-> order])
             /\ UNCHANGED workflowVars
    <2> DEFINE u == Updated(position.status, r.writes)
    <2>1. position.status \in Places
      BY DEF WorkflowTypeOK
    <2>2. u \in Places
      BY <1>2, <2>1, UpdatedPlaces
    <2>3. PICK order \in Renumberings(u) :
            Proceed(h, [op |-> "renumber", writes |-> r.writes, order |-> order])
      BY <1>4
    <2> HIDE DEF u
    <2>4. order \in [DOMAIN u -> 0 .. Cardinality(DOMAIN u) - 1] /\ DOMAIN u \subseteq Stage
      BY <2>2, <2>3, PlacesHave DEF Renumberings
    <2>5. order \in [DOMAIN u -> Nat]
      BY <2>4
    <2>6. order \in Places
      BY <2>4, <2>5, PlacesAre
    <2> DEFINE next == [op |-> "renumber", writes |-> r.writes, order |-> order]
    <2>7. next \in Renumbering /\ next.op = "renumber" /\ next.writes = r.writes /\ next.order = order
      BY <1>2, <2>6 DEF Renumbering
    <2>8. at' = [at EXCEPT ![h] = next] /\ UNCHANGED <<position, retired, transition, edition, shuffled, calm>>
      BY <1>4, <2>3 DEF Proceed, workflowVars
    <2> HIDE DEF next
    <2>9. calm => Tidy(u)
      BY <1>1, <1>4 DEF CalmKept, CalmTask, u
    <2>10. calm => CalmTask(next)
      BY <2>3, <2>7, <2>9 DEF CalmTask, u
    <2>11. calm => \A g \in Handler : g # h => ~Placing(g)
      BY <1>1 DEF CalmKept
    <2>12. calm \in BOOLEAN /\ rows \subseteq Standing("status")
      BY <1>4 DEF WorkflowTypeOK
    <2>13. QED
      BY <2>7, <2>8, <2>10, <2>11, <2>12, TaskChanged DEF WorkflowTasks
  <1>5. CASE /\ r.kind = "column" /\ rows \subseteq Standing("column")
             /\ position' = [position EXCEPT !.column = Updated(@, r.writes)]
             /\ shuffled' = TRUE
             /\ Leave(h)
             /\ UNCHANGED <<retired, transition, edition, calm>>
    <2> DEFINE u == Updated(position.column, r.writes)
    <2>1. position.column \in Places /\ position.status \in Places
      BY DEF WorkflowTypeOK
    <2>2. u \in Places /\ DOMAIN u = Standing("column")
      <3>1. DOMAIN position.column \cup rows = Standing("column")
        BY <1>5 DEF Standing
      <3>2. QED
        BY <1>2, <2>1, <3>1, UpdatedPlaces
    <2>3. position' = [position EXCEPT !.column = u]
      BY <1>5
    <2>4. calm => Tidy(u)
      BY <1>1, <1>5 DEF CalmKept, CalmTask
    <2> HIDE DEF u
    <2>5. position'.status = position.status /\ position'.column = u
          /\ position' \in [status : Places, column : Places]
      BY <2>1, <2>2, <2>3 DEF WorkflowTypeOK
    <2>6. Standing("status")' = Standing("status") /\ Standing("column")' = Standing("column")
      BY <2>2, <2>5 DEF Standing
    <2>7. at' = [at EXCEPT ![h] = Idle] /\ UNCHANGED <<retired, transition, edition, calm>> /\ shuffled'
      BY <1>5 DEF Leave, Proceed
    <2>8. ColumnsMatch' /\ VersionsTell' /\ Numbered'
      BY <2>6, <2>7 DEF ColumnsMatch, VersionsTell, Numbered
    <2>9. calm' => Tidy(position.status)' /\ Tidy(position.column)'
      BY <2>4, <2>5, <2>7 DEF CalmKept, Tidy
    <2>10. calm' \in BOOLEAN /\ shuffled' \in BOOLEAN /\ retired' \subseteq Stage /\ transition' \subseteq Stage \X Stage
      BY <1>5, <2>7 DEF WorkflowTypeOK
    <2>11. \A g \in Handler : Busy(g, "renumber") => DOMAIN at[g].writes \subseteq Standing("status")'
      BY <2>6 DEF HeldThere
    <2>12. QED
      BY <1>1, <2>5, <2>6, <2>7, <2>8, <2>9, <2>10, <2>11, RowsPlaced
  <1>6. QED
    BY <1>3, <1>4, <1>5 DEF Swap

LEMMA RenumberKeeps ==
    ASSUME WorkflowInv, NEW h \in Handler, Renumber(h)
    PROVE  WorkflowInv'
  <1> USE DEF WorkflowInv
  <1> DEFINE r == at[h]
             u == Updated(position.status, r.writes)
             c == [s \in Standing("column") |-> IF s \in DOMAIN r.order THEN r.order[s] ELSE position.column[s]]
  <1>1. r \in Renumbering /\ Busy(h, "renumber") /\ Placing(h) /\ r.op = "renumber"
    BY WorkflowReads DEF Renumber, Placing, Busy
  <1>2. /\ r.writes \in Places /\ r.order \in Places /\ DOMAIN r.writes \subseteq Standing("status")
        /\ position.column \in Places /\ position.status \in Places
    BY <1>1 DEF Renumbering, HeldThere, WorkflowTypeOK
  <1>3. u \in Places /\ DOMAIN u = Standing("status")
    <2>1. DOMAIN position.status \cup DOMAIN r.writes = Standing("status")
      BY <1>2 DEF Standing
    <2>2. QED
      BY <1>2, <2>1, UpdatedPlaces
  <1>4. c \in Places /\ DOMAIN c = Standing("column")
    <2>1. c \in [Standing("column") -> Nat] /\ Standing("column") \subseteq Stage
      BY <1>2, PlacesHave DEF Standing
    <2>2. QED
      BY <2>1, PlacesAre
  <1>5. /\ position' = [status |-> u, column |-> c] /\ at' = [at EXCEPT ![h] = Idle]
        /\ shuffled' = FALSE /\ UNCHANGED <<retired, transition, edition, calm>>
    BY DEF Renumber, Leave, Proceed
  <1>6. ASSUME calm PROVE Tidy(u) /\ Tidy(c) /\ SameOrder(u, c)
    <2>1. Tidy(u) /\ r.order \in Renumberings(u)
      BY <1>1, <1>6 DEF CalmKept, CalmTask
    <2>2. /\ r.order \in [DOMAIN u -> 0 .. Cardinality(DOMAIN u) - 1]
          /\ \A s, t \in DOMAIN u : s # t => r.order[s] # r.order[t] /\ (u[s] < u[t] => r.order[s] < r.order[t])
      BY <2>1 DEF Renumberings
    <2>3. DOMAIN c = DOMAIN u
      BY <1>3, <1>4 DEF ColumnsMatch
    <2>4. \A s \in DOMAIN u : c[s] = r.order[s]
      BY <1>3, <2>2 DEF ColumnsMatch
    <2>5. Cardinality(DOMAIN u) \in Nat /\ \A s \in DOMAIN u : u[s] \in Nat
      BY <1>3, PlacesHave
    <2> HIDE DEF c, u
    <2>6. Tidy(c)
      BY <2>2, <2>3, <2>4, <2>5 DEF Tidy, Distinct
    <2>7. SameOrder(u, c)
      <3>1. ASSUME NEW s \in DOMAIN u, NEW t \in DOMAIN u, u[s] < u[t] PROVE c[s] < c[t]
        <4>1. s # t
          BY <2>5, <3>1
        <4>2. QED
          BY <2>2, <2>4, <3>1, <4>1
      <3>2. QED
        BY <3>1 DEF SameOrder
    <2>8. QED
      BY <2>1, <2>6, <2>7
  <1> HIDE DEF u, c
  <1>7. position' \in [status : Places, column : Places] /\ position'.status = u /\ position'.column = c
    BY <1>3, <1>4, <1>5
  <1>8. Standing("status")' = Standing("status") /\ Standing("column")' = Standing("column")
    BY <1>3, <1>4, <1>7 DEF Standing
  <1>9. ColumnsMatch' /\ VersionsTell' /\ Numbered'
    BY <1>5, <1>8 DEF ColumnsMatch, VersionsTell, Numbered
  <1>10. calm' => Tidy(position.status)' /\ Tidy(position.column)' /\ SameOrder(position.status, position.column)'
    BY <1>5, <1>6, <1>7 DEF Tidy
  <1>11. calm' \in BOOLEAN /\ shuffled' \in BOOLEAN /\ retired' \subseteq Stage /\ transition' \subseteq Stage \X Stage
    BY <1>5 DEF WorkflowTypeOK
  <1>12. \A g \in Handler : Busy(g, "renumber") => DOMAIN at[g].writes \subseteq Standing("status")'
    BY <1>8 DEF HeldThere
  <1>13. QED
    BY <1>1, <1>5, <1>7, <1>8, <1>9, <1>10, <1>11, <1>12, RowsPlaced

\* A row at the position after all others.
LEMMA AppendedTidy ==
    ASSUME NEW f \in Places, NEW n \in Nat, DOMAIN f = 1 .. n, n + 1 \in Stage, Tidy(f), retired = {}
    PROVE  Tidy(Updated(f, [x \in {n + 1} |-> n]))
  <1> DEFINE w == [x \in {n + 1} |-> n]
             u == Updated(f, w)
  <1>1. w \in [{n + 1} -> Nat] /\ DOMAIN w = {n + 1} /\ w[n + 1] = n
    OBVIOUS
  <1>2. w \in Places
    BY <1>1, PlacesAre
  <1>3. DOMAIN f \cup DOMAIN w = 1 .. (n + 1)
    BY <1>1
  <1>4. DOMAIN u = 1 .. (n + 1) /\ \A x \in 1 .. (n + 1) : u[x] = IF x \in {n + 1} THEN w[x] ELSE f[x]
    <2> HIDE DEF w
    <2>1. /\ DOMAIN u = DOMAIN f \cup DOMAIN w
          /\ \A x \in DOMAIN f \cup DOMAIN w : u[x] = IF x \in DOMAIN w THEN w[x] ELSE f[x]
      BY <1>2, UpdatedPlaces
    <2> HIDE DEF u
    <2>2. QED
      BY <1>1, <1>3, <2>1
  <1>5. Cardinality(1 .. n) = n /\ Cardinality(1 .. (n + 1)) = n + 1
    BY FS_Interval
  <1>6. \A x \in 1 .. n : f[x] < n /\ f[x] \in Nat
    BY <1>5, PlacesHave DEF Tidy
  <1> HIDE DEF u, w
  <1>7. u[n + 1] = n /\ \A x \in 1 .. n : u[x] = f[x]
    BY <1>1, <1>4
  <1>8. Distinct(u)
    <2>1. ASSUME NEW x \in 1 .. (n + 1), NEW y \in 1 .. (n + 1), u[x] = u[y] PROVE x = y
      <3>1. CASE x \in 1 .. n /\ y \in 1 .. n
        BY <1>7, <2>1, <3>1 DEF Tidy, Distinct
      <3>2. CASE x = n + 1 \/ y = n + 1
        BY <1>6, <1>7, <2>1, <3>2
      <3>3. QED
        BY <3>1, <3>2
    <2>2. QED
      BY <1>4, <2>1 DEF Distinct
  <1>9. \A x \in DOMAIN u : u[x] < Cardinality(DOMAIN u)
    BY <1>4, <1>5, <1>6, <1>7
  <1>10. QED
    BY <1>8, <1>9 DEF Tidy, u, w

LEMMA CreateStatusKeeps ==
    ASSUME WorkflowInv, NEW h \in Handler, CreateStatus(h)
    PROVE  WorkflowInv'
  <1> USE DEF WorkflowInv
  <1> DEFINE count == at[h].count
  <1>1. at[h] \in AddingRow /\ Busy(h, "create") /\ Placing(h) /\ at[h].op = "create"
    BY WorkflowReads DEF CreateStatus, Placing, Busy
  <1>2. count \in Nat /\ position.column \in Places /\ position.status \in Places
    BY <1>1 DEF AddingRow, WorkflowTypeOK
  <1>3. PICK n \in Nat : Standing("status") \cup retired = 1 .. n
    BY DEF Numbered
  <1>4. Cardinality(Standing("status") \cup retired) = n
    <2>1. Cardinality(1 .. n) = n
      BY FS_Interval
    <2>2. QED
      BY <1>3, <2>1
  <1> DEFINE s == n + 1
             row == [x \in {s} |-> count]
             f == Updated(position.status, row)
             c == Updated(position.column, row)
  <1>5. /\ s \in Stage /\ position' = [status |-> f, column |-> c] /\ calm' = (calm /\ retired = {})
        /\ at' = [at EXCEPT ![h] = Idle] /\ UNCHANGED <<retired, transition, edition, shuffled>>
    BY <1>4 DEF CreateStatus, Leave, Proceed
  <1>6. row \in Places /\ DOMAIN row = {s} /\ row[s] = count
    <2>1. row \in [{s} -> Nat] /\ DOMAIN row = {s} /\ row[s] = count
      BY <1>2
    <2>2. QED
      BY <1>5, <2>1, PlacesAre
  <1> HIDE DEF row
  <1>7. /\ f \in Places /\ DOMAIN f = Standing("status") \cup {s}
        /\ \A x \in DOMAIN f : f[x] = IF x \in {s} THEN row[x] ELSE position.status[x]
    <2>1. /\ f \in Places /\ DOMAIN f = DOMAIN position.status \cup DOMAIN row
          /\ \A x \in DOMAIN position.status \cup DOMAIN row :
               f[x] = IF x \in DOMAIN row THEN row[x] ELSE position.status[x]
      BY <1>2, <1>6, UpdatedPlaces
    <2> HIDE DEF f
    <2>2. QED
      BY <1>6, <2>1 DEF Standing
  <1>8. /\ c \in Places /\ DOMAIN c = Standing("column") \cup {s}
        /\ \A x \in DOMAIN c : c[x] = IF x \in {s} THEN row[x] ELSE position.column[x]
    <2>1. /\ c \in Places /\ DOMAIN c = DOMAIN position.column \cup DOMAIN row
          /\ \A x \in DOMAIN position.column \cup DOMAIN row :
               c[x] = IF x \in DOMAIN row THEN row[x] ELSE position.column[x]
      BY <1>2, <1>6, UpdatedPlaces
    <2> HIDE DEF c
    <2>2. QED
      BY <1>6, <2>1 DEF Standing
  <1>9. ASSUME calm, retired = {} PROVE Tidy(f) /\ Tidy(c) /\ (~shuffled => SameOrder(f, c))
    <2>1. Standing("status") = 1 .. n /\ Standing("column") = 1 .. n
      BY <1>3, <1>9 DEF ColumnsMatch
    <2>2. count = n
      <3>1. Cardinality(1 .. n) = n
        BY FS_Interval
      <3>2. QED
        BY <1>1, <1>9, <2>1, <3>1 DEF CalmKept, CalmTask
    <2>3. Tidy(position.status) /\ Tidy(position.column) /\ (~shuffled => SameOrder(position.status, position.column))
      BY <1>9 DEF CalmKept
    <2>4. Tidy(f) /\ Tidy(c)
      BY <1>2, <1>5, <1>9, <2>1, <2>2, <2>3, AppendedTidy DEF row, Standing
    <2>5. Cardinality(1 .. n) = n
      BY FS_Interval
    <2>6. \A x \in 1 .. n : /\ f[x] = position.status[x] /\ c[x] = position.column[x]
                            /\ f[x] \in Nat /\ f[x] < n /\ c[x] \in Nat /\ c[x] < n
      <3>1. \A x \in 1 .. n : x \notin {s}
        OBVIOUS
      <3>2. \A x \in 1 .. n : position.status[x] < n /\ position.column[x] < n
        BY <1>9, <2>1, <2>3, <2>5 DEF Tidy, Standing
      <3>3. \A x \in 1 .. n : f[x] \in Nat /\ c[x] \in Nat
        BY <1>7, <1>8, <2>1, PlacesHave
      <3> HIDE DEF f, c, s
      <3>4. QED
        BY <1>7, <1>8, <2>1, <3>1, <3>2, <3>3
    <2>7. f[s] = n /\ c[s] = n
      BY <1>6, <1>7, <1>8, <2>2
    <2> HIDE DEF f, c
    <2>8. ASSUME ~shuffled PROVE SameOrder(f, c)
      <3>1. ASSUME NEW x \in DOMAIN f, NEW y \in DOMAIN f, f[x] < f[y] PROVE c[x] < c[y]
        <4>1. x \in 1 .. n \/ x = s
          BY <1>7, <2>1
        <4>2. y \in 1 .. n \/ y = s
          BY <1>7, <2>1
        <4>3. x # s
          BY <2>6, <2>7, <3>1, <4>2
        <4>4. CASE y = s
          BY <2>6, <2>7, <4>1, <4>3, <4>4
        <4>5. CASE y \in 1 .. n
          BY <2>1, <2>3, <2>6, <2>8, <3>1, <4>1, <4>3, <4>5 DEF SameOrder, Standing
        <4>6. QED
          BY <4>2, <4>4, <4>5
      <3>2. QED
        BY <3>1 DEF SameOrder
    <2>9. QED
      BY <2>4, <2>8
  <1> HIDE DEF f, c
  <1>10. position' \in [status : Places, column : Places] /\ position'.status = f /\ position'.column = c
    BY <1>5, <1>7, <1>8
  <1>11. Standing("status")' = Standing("status") \cup {s} /\ Standing("column")' = Standing("column") \cup {s}
    BY <1>7, <1>8, <1>10 DEF Standing
  <1>12. ColumnsMatch'
    BY <1>11 DEF ColumnsMatch
  <1>13. Numbered'
    <2>1. Standing("status")' \cup retired' = 1 .. (n + 1)
      BY <1>3, <1>5, <1>11
    <2>2. QED
      BY <2>1 DEF Numbered
  <1>14. VersionsTell'
    <2>1. edition # <<>> =>
            transition = {t \in edition[Len(edition)].configuration : {t[1], t[2]} \subseteq Standing("status")'}
      <3> SUFFICES ASSUME edition # <<>>
                   PROVE  transition = {t \in edition[Len(edition)].configuration :
                                          {t[1], t[2]} \subseteq Standing("status")'}
        OBVIOUS
      <3> DEFINE last == edition[Len(edition)].configuration
      <3>1. Len(edition) \in DOMAIN edition
        <4> HIDE DEF Edition
        <4>1. edition \in Seq(Edition)
          BY DEF WorkflowTypeOK
        <4>2. QED
          BY <4>1
      <3>2. transition = {t \in last : {t[1], t[2]} \subseteq Standing("status")}
        BY DEF VersionsTell
      <3>3. StatusesOf(last) \subseteq 1 .. n
        BY <1>3, <3>1 DEF EditionsKept
      <3> HIDE DEF last
      <3>4. \A t \in last : t[1] # s /\ t[2] # s
        <4>1. \A t \in last : t[1] \in StatusesOf(last) /\ t[2] \in StatusesOf(last)
          BY ONLY DEF StatusesOf
        <4>2. \A x \in 1 .. n : x # s
          OBVIOUS
        <4>3. QED
          BY ONLY <3>3, <4>1, <4>2
      <3>5. \A t \in last : {t[1], t[2]} \subseteq Standing("status")' <=> {t[1], t[2]} \subseteq Standing("status")
        BY <1>11, <3>4
      <3>6. QED
        BY <3>2, <3>5 DEF last
    <2>2. QED
      BY <1>5, <2>1 DEF VersionsTell
  <1>15. calm' => Tidy(position.status)' /\ Tidy(position.column)'
    BY <1>5, <1>9, <1>10 DEF Tidy
  <1>16. calm' /\ ~shuffled' => SameOrder(position.status, position.column)'
    BY <1>5, <1>9, <1>10
  <1>17. /\ calm' \in BOOLEAN /\ (calm' => calm) /\ shuffled' \in BOOLEAN /\ retired' \subseteq Stage
         /\ transition' \subseteq Stage \X Stage
    BY <1>5 DEF WorkflowTypeOK
  <1>18. /\ \A g \in Handler : Busy(g, "renumber") => DOMAIN at[g].writes \subseteq Standing("status")'
         /\ Standing("status") \cup retired \subseteq Standing("status")' \cup retired'
    BY <1>5, <1>11 DEF HeldThere
  <1>19. QED
    BY <1>1, <1>5, <1>10, <1>12, <1>13, <1>14, <1>15, <1>16, <1>17, <1>18, RowsPlaced

LEMMA DeleteStatusKeeps ==
    ASSUME WorkflowInv, NEW h \in Handler, DeleteStatus(h)
    PROVE  WorkflowInv'
  <1> USE DEF WorkflowInv
  <1> DEFINE s == at[h].item
             f == Without(position.status, s)
             c == Without(position.column, s)
  <1>1. at[h] \in DroppingRow /\ Busy(h, "delete") /\ Placing(h)
    BY WorkflowReads DEF DeleteStatus, Placing, Busy
  <1>2. s \in Stage /\ position.column \in Places /\ position.status \in Places
    BY <1>1 DEF DroppingRow, WorkflowTypeOK
  <1>3. CASE Fails(h)
    BY <1>3, WorkflowFailKeeps
  <1>4. CASE /\ s \in Standing("status") \ RowsHeld
             /\ position' = [status |-> f, column |-> c]
             /\ retired' = retired \cup {s}
             /\ transition' = {t \in transition : s \notin {t[1], t[2]}}
             /\ Leave(h)
             /\ UNCHANGED <<edition, shuffled, calm>>
    <2>1. /\ f \in Places /\ DOMAIN f = Standing("status") \ {s}
          /\ \A x \in DOMAIN f : f[x] = position.status[x]
      BY <1>2, WithoutPlaces DEF Standing
    <2>2. /\ c \in Places /\ DOMAIN c = Standing("column") \ {s}
          /\ \A x \in DOMAIN c : c[x] = position.column[x]
      BY <1>2, WithoutPlaces DEF Standing
    <2> HIDE DEF f, c
    <2>3. at' = [at EXCEPT ![h] = Idle]
      BY <1>4 DEF Leave, Proceed
    <2>4. position' \in [status : Places, column : Places] /\ position'.status = f /\ position'.column = c
      BY <1>4, <2>1, <2>2
    <2>5. Standing("status")' = Standing("status") \ {s} /\ Standing("column")' = Standing("column") \ {s}
      BY <2>1, <2>2, <2>4 DEF Standing
    <2>6. ColumnsMatch'
      BY <2>5 DEF ColumnsMatch
    <2>7. Standing("status")' \cup retired' = Standing("status") \cup retired
      BY <1>4, <2>5
    <2>8. Numbered'
      BY <2>7 DEF Numbered
    <2>9. VersionsTell'
      <3>1. edition # <<>> =>
              transition' = {t \in edition[Len(edition)].configuration : {t[1], t[2]} \subseteq Standing("status")'}
        BY <1>4, <2>5 DEF VersionsTell
      <3>2. QED
        BY <1>4, <3>1 DEF VersionsTell
    <2>10. \A g \in Handler : Busy(g, "renumber") => DOMAIN at[g].writes \subseteq Standing("status")'
      BY <1>4, <2>5 DEF HeldThere, RowsHeld
    <2>11. calm' => Tidy(position.status)' /\ Tidy(position.column)'
      <3>1. calm => Distinct(f) /\ Distinct(c)
        BY <2>1, <2>2 DEF CalmKept, Tidy, Distinct, Standing
      <3>2. retired' # {}
        BY <1>4
      <3>3. QED
        BY <1>4, <2>4, <3>1, <3>2 DEF Tidy
    <2>12. calm' /\ ~shuffled' => SameOrder(position.status, position.column)'
      <3>1. calm /\ ~shuffled => SameOrder(f, c)
        BY <2>1, <2>2 DEF CalmKept, SameOrder, Standing
      <3>2. QED
        BY <1>4, <2>4, <3>1
    <2>13. /\ calm' \in BOOLEAN /\ (calm' => calm) /\ shuffled' \in BOOLEAN /\ retired' \subseteq Stage
           /\ transition' \subseteq Stage \X Stage /\ UNCHANGED edition
      BY <1>2, <1>4 DEF WorkflowTypeOK
    <2>14. QED
      BY <1>1, <2>3, <2>4, <2>6, <2>7, <2>8, <2>9, <2>10, <2>11, <2>12, <2>13, RowsPlaced
  <1>5. QED
    BY <1>3, <1>4 DEF DeleteStatus

LEMMA SetTransitionsKeeps ==
    ASSUME WorkflowInv, NEW h \in Handler, SetTransitions(h)
    PROVE  WorkflowInv'
  <1> USE DEF WorkflowInv
  <1> DEFINE r == at[h]
             new == [number |-> r.number, configuration |-> r.draft]
             n == Len(edition)
  <1>1. r \in Drafting /\ Busy(h, "publish") /\ r.op = "publish"
    BY WorkflowReads DEF SetTransitions, Busy
  <1>2. r.draft \subseteq Stage \X Stage /\ r.number \in Nat /\ 1 <= r.number /\ r.number <= n + 1
    BY <1>1 DEF Drafting, EditionsKept
  <1>3. CASE Fails(h)
    BY <1>3, WorkflowFailKeeps
  <1>4. CASE /\ StatusesOf(r.draft) \subseteq Standing("status") /\ NumberFree(r.number)
             /\ transition' = r.draft
             /\ edition' = Append(edition, new)
             /\ Leave(h)
             /\ UNCHANGED <<position, retired, shuffled, calm>>
    <2>1. new \in Edition /\ new.number = r.number /\ new.configuration = r.draft
      BY <1>2 DEF Edition
    <2> HIDE DEF new, Edition
    <2>2. edition \in Seq(Edition) /\ n \in Nat /\ DOMAIN edition = 1 .. n
      BY DEF WorkflowTypeOK
    <2>3. /\ edition' \in Seq(Edition) /\ Len(edition') = n + 1 /\ DOMAIN edition' = 1 .. (n + 1)
          /\ edition'[n + 1] = new /\ \A i \in 1 .. n : edition'[i] = edition[i]
      <3>1. edition' = Append(edition, new)
        BY <1>4
      <3>2. edition' \in Seq(Edition) /\ Len(edition') = n + 1
            /\ edition'[n + 1] = new /\ \A i \in 1 .. n : edition'[i] = edition[i]
        BY <2>1, <2>2, <3>1, AppendProperties
      <3>3. QED
        BY <3>2
    <2> HIDE DEF n
    <2>4. r.number = n + 1
      <3>1. \A i \in 1 .. n : r.number # i
        BY <1>4, <2>2 DEF NumberFree, VersionsTell
      <3>2. QED
        BY <1>2, <2>2, <3>1
    <2>5. /\ at'[h] = Idle /\ (\A g \in Handler : g # h => at'[g] = at[g])
          /\ at' \in [Handler -> WorkflowTasks]
      BY <1>4 DEF Leave, Proceed, WorkflowTypeOK, WorkflowTasks
    <2>6. WorkflowTypeOK'
      BY <1>2, <1>4, <2>3, <2>5 DEF WorkflowTypeOK
    <2>7. Numbered' /\ ColumnsMatch' /\ Standing("status")' = Standing("status")
      BY <1>4 DEF Numbered, ColumnsMatch, Standing
    <2>8. HeldThere'
      BY <2>5, <2>7 DEF HeldThere, Busy, Idle
    <2>9. EditionsKept'
      <3>1. ASSUME NEW i \in DOMAIN edition'
            PROVE  StatusesOf(edition'[i].configuration) \subseteq Standing("status")' \cup retired'
        <4>1. CASE i = n + 1
          BY <1>4, <2>1, <2>3, <2>7, <4>1
        <4>2. CASE i \in 1 .. n
          BY <1>4, <2>2, <2>3, <2>7, <4>2 DEF EditionsKept
        <4>3. QED
          BY <2>2, <2>3, <4>1, <4>2
      <3>2. ASSUME NEW g \in Handler, Busy(g, "publish")'
            PROVE  1 <= at'[g].number /\ at'[g].number <= Len(edition') + 1
        <4>1. g # h /\ at'[g] = at[g] /\ Busy(g, "publish")
          BY <2>5, <3>2 DEF Busy, Idle
        <4>2. at[g].number \in Nat /\ 1 <= at[g].number /\ at[g].number <= n + 1
          BY <4>1, WorkflowReads DEF EditionsKept, Drafting, n
        <4>3. QED
          BY <2>2, <2>3, <4>1, <4>2
      <3>3. QED
        BY <3>1, <3>2 DEF EditionsKept
    <2>10. VersionsTell'
      <3>1. \A i \in DOMAIN edition' : edition'[i].number = i
        BY <2>1, <2>2, <2>3, <2>4 DEF VersionsTell
      <3>2. edition'[Len(edition')].configuration = r.draft
        BY <2>1, <2>3
      <3>3. \A t \in r.draft : {t[1], t[2]} \subseteq Standing("status")
        BY <1>4 DEF StatusesOf
      <3>4. transition' = {t \in edition'[Len(edition')].configuration : {t[1], t[2]} \subseteq Standing("status")'}
        BY <1>4, <2>7, <3>2, <3>3
      <3>5. QED
        BY <3>1, <3>4 DEF VersionsTell
    <2>11. CalmKept'
      <3> SUFFICES ASSUME calm' PROVE
              /\ \A f, g \in Handler : Placing(f)' /\ Placing(g)' => f = g
              /\ \A g \in Handler : CalmTask(at'[g])
              /\ Tidy(position.status) /\ Tidy(position.column)
              /\ ~shuffled => SameOrder(position.status, position.column)
        BY <1>4 DEF CalmKept, CalmTask, Tidy, Standing
      <3>1. calm
        BY <1>4
      <3>2. \A f, g \in Handler : Placing(f)' /\ Placing(g)' => f = g
        BY <2>5, <3>1 DEF CalmKept, Placing, Idle
      <3>3. CalmTask(Idle)
        BY DEF CalmTask, Idle
      <3>4. \A g \in Handler : CalmTask(at'[g])
        BY <2>5, <3>1, <3>3 DEF CalmKept
      <3>5. QED
        BY <3>1, <3>2, <3>4 DEF CalmKept
    <2>12. QED
      BY <2>6, <2>7, <2>8, <2>9, <2>10, <2>11
  <1>5. QED
    BY <1>3, <1>4 DEF SetTransitions

LEMMA WorkflowInitKeeps ==
    ASSUME NEW requests, WorkflowInit, HandlersInit(requests)
    PROVE  WorkflowInv
  <1>1. PICK n \in {Stages - 1, Stages} :
          LET first == [s \in 1 .. n |-> s - 1] IN position = [status |-> first, column |-> first]
    BY DEF WorkflowInit
  <1> DEFINE first == [s \in 1 .. n |-> s - 1]
  <1>2. n \in Int /\ n <= Stages
    BY StagesAssumption
  <1>3. first \in [1 .. n -> Nat] /\ 1 .. n \in SUBSET Stage /\ DOMAIN first = 1 .. n
    <2>1. \A x \in 1 .. n : x - 1 \in Nat
      BY <1>2
    <2>2. 1 .. n \in SUBSET Stage
      BY <1>2, StagesAssumption DEF Stage
    <2>3. QED
      BY <2>1, <2>2
  <1>4. first \in Places
    BY <1>3, PlacesAre
  <1>5. Distinct(first) /\ SameOrder(first, first)
    BY <1>2 DEF Distinct, SameOrder
  <1>6. \A x \in 1 .. n : first[x] < Cardinality(1 .. n)
    <2>1. CASE 1 <= n
      <3>1. Cardinality(1 .. n) = n
        BY <1>2, <2>1, FS_Interval
      <3>2. QED
        BY <1>2, <3>1
    <2>2. CASE ~(1 <= n)
      BY <1>2, <2>2
    <2>3. QED
      BY <2>1, <2>2
  <1>7. Tidy(first)
    BY <1>3, <1>5, <1>6 DEF Tidy
  <1>8. position = [status |-> first, column |-> first]
    BY <1>1
  <1> HIDE DEF first
  <1>9. position.status = first /\ position.column = first
    BY <1>8
  <1>10. Standing("status") = 1 .. n /\ Standing("column") = 1 .. n
    BY <1>3, <1>9 DEF Standing
  <1>11. WorkflowTypeOK
    <2> HIDE DEF Edition
    <2>1. <<>> \in Seq(Edition)
      OBVIOUS
    <2>2. QED
      BY <1>4, <1>8, <2>1 DEF WorkflowTypeOK, WorkflowInit, HandlersInit, WorkflowTasks
  <1>12. Numbered
    <2>1. CASE n \in Nat
      BY <1>10, <2>1 DEF Numbered, WorkflowInit
    <2>2. CASE n \notin Nat
      <3>1. 1 .. n = 1 .. 0
        BY <1>2, <2>2
      <3>2. Standing("status") \cup retired = 1 .. 0
        BY <1>10, <3>1 DEF WorkflowInit
      <3>3. QED
        BY <3>2 DEF Numbered
    <2>3. QED
      BY <2>1, <2>2
  <1>13. \A h \in Handler : at[h] = Idle /\ Idle.op = "idle"
    BY DEF HandlersInit, Idle
  <1>14. HeldThere /\ EditionsKept /\ ColumnsMatch /\ VersionsTell
    BY <1>10, <1>13 DEF HeldThere, EditionsKept, ColumnsMatch, VersionsTell, WorkflowInit, Busy
  <1>15. CalmKept
    BY <1>5, <1>7, <1>9, <1>13 DEF CalmKept, CalmTask, Placing
  <1>16. QED
    BY <1>11, <1>12, <1>14, <1>15 DEF WorkflowInv

-----------------------------------------------------------------------------
\* Every status keeps its one column, transitions and versions tell the same, versions have
\* no gap, and administrators who work one after the other keep the positions apart and the
\* board in the order of the workflow: workflow/route.ts, whose transactions read before
\* they write and rely on foreign keys and the unique index of versions.
THEOREM WorkflowsStayIntact ==
    ASSUME NEW requests
    PROVE  WorkflowSpec(requests) => []WorkflowIntact
  <1>1. WorkflowInit /\ HandlersInit(requests) => WorkflowInv
    BY WorkflowInitKeeps
  <1>2. WorkflowInv /\ [WorkflowNext]_workflowState => WorkflowInv'
    <2> SUFFICES ASSUME WorkflowInv, [WorkflowNext]_workflowState PROVE WorkflowInv'
      OBVIOUS
    <2>1. ASSUME NEW h \in Handler, RollBack(h) PROVE WorkflowInv'
      BY <2>1, WorkflowFailKeeps DEF RollBack
    <2>2. CASE UNCHANGED workflowState
      BY <2>2 DEF workflowState, handlers, workflowVars, WorkflowInv, WorkflowTypeOK, Numbered, HeldThere,
                  EditionsKept, CalmKept, CalmTask, Placing, Tidy, ColumnsMatch, VersionsTell, Standing, Busy
    <2>3. QED
      BY <2>1, <2>2, BeginMoveRowKeeps, BeginDeleteKeeps, BeginTransitionsKeeps, FindAdjacentKeeps, SwapKeeps,
         RenumberKeeps, BeginCreateKeeps, CreateStatusKeeps, DeleteStatusKeeps, SetTransitionsKeeps
         DEF WorkflowNext, Kind
  <1>3. WorkflowInv => WorkflowIntact
    BY DEF WorkflowInv, CalmKept, Tidy, WorkflowIntact
  <1>4. QED
    BY <1>1, <1>2, <1>3, PTL DEF WorkflowSpec

-----------------------------------------------------------------------------
(* Request forms.                                                          *)

formsState == <<handlers, formsVars>>

FormsSpec(requests) == FormsInit /\ HandlersInit(requests) /\ [][FormsNext]_formsState

RequestType == [draft : Schema, currentVersion : Nat, archived : BOOLEAN]
UploadRow == [stored : BOOLEAN, used : BOOLEAN, expired : BOOLEAN]
FormRequest == [version : Nat, form : Schema, uploads : SUBSET Upload, consented : BOOLEAN]

PublishingForm == [op : {"publish"}, read : RequestType]
Submitting ==
  [op : {"submit", "claim"}, version : Nat, form : Schema, files : SUBSET Upload, consented : BOOLEAN]

FormsTypeOK ==
  /\ requestType \in RequestType
  /\ versions \in Seq(Schema)
  /\ upload \in [Upload -> UploadRow]
  /\ submitted \in Seq(FormRequest)
  /\ at \in [Handler -> {Idle} \cup PublishingForm \cup Submitting]

\* The version is there with that content, which the consent and the files go with.
Honours(version, form, files, consented) ==
  /\ version \in DOMAIN versions
  /\ versions[version] = form
  /\ consented = form.consent
  /\ files # {} => form.attach

\* The requests that a file is in.
In(f) == {i \in DOMAIN submitted : f \in submitted[i].uploads}

Accounted(f) ==
  /\ upload[f].used => \E i \in DOMAIN submitted : In(f) = {i}
  /\ ~upload[f].used => In(f) = {}

\* What was rendered is known from the moment it was read, not only once it is stored.
FormsInv ==
  /\ FormsTypeOK
  /\ requestType.currentVersion = Len(versions)
  /\ \A i \in DOMAIN submitted :
       Honours(submitted[i].version, submitted[i].form, submitted[i].uploads, submitted[i].consented)
  /\ \A h \in Handler : at[h].op \in {"submit", "claim"} =>
       Honours(at[h].version, at[h].form, at[h].files, at[h].consented)
  /\ \A f \in Upload : Accounted(f)

LEMMA FormsInvImplies == FormsInv => FormsHold
  <1> SUFFICES ASSUME FormsInv PROVE FormsHold
    OBVIOUS
  <1>1. UploadsOnce
    <2> SUFFICES ASSUME NEW f \in Upload
                 PROVE  Cardinality(In(f)) = IF upload[f].used THEN 1 ELSE 0
      BY DEF UploadsOnce, In
    <2>1. Accounted(f)
      BY DEF FormsInv
    <2>2. CASE upload[f].used
      <3>1. PICK i \in DOMAIN submitted : In(f) = {i}
        BY <2>1, <2>2 DEF Accounted
      <3>2. Cardinality({i}) = 1
        BY FS_Singleton
      <3>3. QED
        BY <2>2, <3>1, <3>2
    <2>3. CASE ~upload[f].used
      <3>1. In(f) = {}
        BY <2>1, <2>3 DEF Accounted
      <3>2. Cardinality({}) = 0
        BY FS_EmptySet
      <3>3. QED
        BY <2>3, <3>1, <3>2
    <2>4. QED
      BY <2>2, <2>3
  <1>2. RequestsHonourTheirForm
    BY DEF FormsInv, Honours, RequestsHonourTheirForm
  <1>3. QED
    BY <1>1, <1>2 DEF FormsHold

LEMMA FormsInitKeeps ==
    ASSUME NEW requests PROVE FormsInit /\ HandlersInit(requests) => FormsInv
  <1> SUFFICES ASSUME FormsInit, HandlersInit(requests) PROVE FormsInv
    OBVIOUS
  <1> USE DEF FormsInit, HandlersInit
  <1>1. requestType \in RequestType /\ requestType.currentVersion = 0
    <2>1. ASSUME NEW t \in [draft : Schema, currentVersion : {0}, archived : {FALSE}]
          PROVE  t \in RequestType /\ t.currentVersion = 0
      <3>1. {0} \subseteq Nat /\ {FALSE} \subseteq BOOLEAN
        OBVIOUS
      <3>2. ASSUME NEW C, NEW D, C \subseteq Nat, D \subseteq BOOLEAN,
                   t \in [draft : Schema, currentVersion : C, archived : D]
            PROVE  t \in RequestType /\ t.currentVersion \in C
        BY ONLY <3>2 DEF RequestType
      <3>3. t \in RequestType /\ t.currentVersion \in {0}
        BY ONLY <2>1, <3>1, <3>2
      <3>4. QED
        BY <3>3
    <2>2. QED
      BY <2>1
  <1>2. upload \in [Upload -> UploadRow] /\ \A f \in Upload : upload[f].used = FALSE
    <2> DEFINE fresh == [stored |-> FALSE, used |-> FALSE, expired |-> FALSE]
    <2>1. fresh \in UploadRow /\ fresh.used = FALSE
      BY DEF UploadRow
    <2>2. upload = [f \in Upload |-> fresh]
      OBVIOUS
    <2> HIDE DEF fresh
    <2>3. QED
      BY ONLY <2>1, <2>2
  <1>3. versions \in Seq(Schema) /\ Len(versions) = 0 /\ submitted \in Seq(FormRequest) /\ DOMAIN submitted = {}
    OBVIOUS
  <1>4. at \in [Handler -> {Idle} \cup PublishingForm \cup Submitting] /\ \A h \in Handler : at[h].op = "idle"
    BY DEF Idle
  <1>5. \A f \in Upload : Accounted(f)
    BY <1>2, <1>3 DEF Accounted, In
  <1>6. QED
    BY <1>1, <1>2, <1>3, <1>4, <1>5 DEF FormsInv, FormsTypeOK

\* Versions are only appended, so that what goes with one keeps going with it.
LEMMA HonoursStays ==
    ASSUME versions \in Seq(Schema), NEW s \in Schema, versions' = Append(versions, s),
           NEW v, NEW form, NEW files, NEW consented, Honours(v, form, files, consented)
    PROVE  Honours(v, form, files, consented)'
  <1> HIDE DEF Schema
  <1>1. /\ DOMAIN versions = 1 .. Len(versions) /\ Len(versions) \in Nat
        /\ DOMAIN versions' = 1 .. Len(versions) + 1
        /\ \A i \in 1 .. Len(versions) : versions'[i] = versions[i]
    BY AppendProperties
  <1>2. QED
    BY <1>1 DEF Honours

\* A step that leaves versions, uploads and requests alone, and that ends a handler's work
\* or leaves it as it is.
LEMMA FormsAside ==
    ASSUME FormsInv, UNCHANGED <<versions, upload, submitted>>,
           requestType' \in RequestType, requestType'.currentVersion = requestType.currentVersion,
           UNCHANGED at \/ \E h \in Handler : at' = [at EXCEPT ![h] = Idle]
    PROVE  FormsInv'
  <1>1. at' \in [Handler -> {Idle} \cup PublishingForm \cup Submitting]
    BY DEF FormsInv, FormsTypeOK
  <1>2. \A h \in Handler : at'[h] = at[h] \/ at'[h].op = "idle"
    BY DEF FormsInv, FormsTypeOK, Idle
  <1>3. \A f \in Upload : Accounted(f)'
    BY DEF FormsInv, Accounted, In
  <1>4. \A h \in Handler : at'[h].op \in {"submit", "claim"} =>
          Honours(at'[h].version, at'[h].form, at'[h].files, at'[h].consented)
    BY <1>2 DEF FormsInv
  <1>5. QED
    BY <1>1, <1>3, <1>4 DEF FormsInv, FormsTypeOK, Honours

\* A handler takes up, or goes on with, what it has.
LEMMA FormsTaskChanged ==
    ASSUME FormsInv, UNCHANGED formsVars, NEW h \in Handler, NEW m \in PublishingForm \cup Submitting,
           at' = [at EXCEPT ![h] = m],
           m.op \in {"submit", "claim"} => Honours(m.version, m.form, m.files, m.consented)
    PROVE  FormsInv'
  <1>1. at' \in [Handler -> {Idle} \cup PublishingForm \cup Submitting]
    BY DEF FormsInv, FormsTypeOK
  <1>2. \A g \in Handler : at'[g] = IF g = h THEN m ELSE at[g]
    BY DEF FormsInv, FormsTypeOK
  <1>3. \A f \in Upload : Accounted(f)'
    BY DEF FormsInv, Accounted, In, formsVars
  <1>4. \A g \in Handler : at'[g].op \in {"submit", "claim"} =>
          Honours(at'[g].version, at'[g].form, at'[g].files, at'[g].consented)
    BY <1>2 DEF FormsInv
  <1>5. QED
    BY <1>1, <1>3, <1>4 DEF FormsInv, FormsTypeOK, Honours, formsVars

LEMMA EditDraftKeeps == FormsInv /\ EditDraft => FormsInv'
  <1> SUFFICES ASSUME FormsInv, EditDraft PROVE FormsInv'
    OBVIOUS
  <1>1. PICK draft \in Schema, archived \in BOOLEAN :
          requestType' = [requestType EXCEPT !.draft = draft, !.archived = archived]
    BY DEF EditDraft
  <1>2. requestType' \in RequestType /\ requestType'.currentVersion = requestType.currentVersion
    BY <1>1 DEF FormsInv, FormsTypeOK, RequestType
  <1>3. QED
    BY <1>2, FormsAside DEF EditDraft, InOneStep

LEMMA BeginPublishFormKeeps == ASSUME NEW h \in Handler PROVE FormsInv /\ BeginPublish(h) => FormsInv'
  <1> SUFFICES ASSUME FormsInv, BeginPublish(h) PROVE FormsInv'
    OBVIOUS
  <1> DEFINE m == [op |-> "publish", read |-> requestType]
  <1>1. m \in PublishingForm /\ m.op = "publish" /\ at' = [at EXCEPT ![h] = m]
    BY DEF FormsInv, FormsTypeOK, PublishingForm, BeginPublish, Enter
  <1>2. ASSUME NEW n, n = m PROVE FormsInv'
    <2>1. n \in PublishingForm /\ n.op = "publish" /\ at' = [at EXCEPT ![h] = n]
      BY <1>1, <1>2
    <2>2. QED
      BY <2>1, FormsTaskChanged DEF BeginPublish
  <1>3. QED
    BY <1>2

LEMMA PublishFormKeeps == ASSUME NEW h \in Handler PROVE FormsInv /\ Publish(h) => FormsInv'
  <1> SUFFICES ASSUME FormsInv, Publish(h) PROVE FormsInv'
    OBVIOUS
  <1>1. at[h] \in PublishingForm
    BY DEF FormsInv, FormsTypeOK, Publish, Busy, Idle, PublishingForm, Submitting
  <1>2. at[h].read.draft \in Schema /\ at[h].read.currentVersion = Len(versions)
    BY <1>1 DEF PublishingForm, RequestType, Publish, Unpublished, FormsInv
  <1>3. versions \in Seq(Schema) /\ versions' = Append(versions, at[h].read.draft)
    BY DEF FormsInv, FormsTypeOK, Publish
  <1>4. versions' \in Seq(Schema) /\ Len(versions') = Len(versions) + 1 /\ Len(versions) \in Nat
    <2> HIDE DEF Schema
    <2>1. QED
      BY <1>2, <1>3, AppendProperties
  <1>5. requestType' \in RequestType /\ requestType'.currentVersion = Len(versions')
    BY <1>2, <1>4 DEF FormsInv, FormsTypeOK, RequestType, Publish
  <1>6. at' \in [Handler -> {Idle} \cup PublishingForm \cup Submitting]
    BY DEF FormsInv, FormsTypeOK, Publish, Leave, Proceed
  <1>7. \A g \in Handler : at'[g] = at[g] \/ at'[g].op = "idle"
    BY DEF FormsInv, FormsTypeOK, Idle, Publish, Leave, Proceed
  <1>8. UNCHANGED <<upload, submitted>>
    BY DEF Publish
  <1>9. \A v, form, files, consented :
          Honours(v, form, files, consented) => Honours(v, form, files, consented)'
    BY <1>2, <1>3, HonoursStays
  <1>10. \A i \in DOMAIN submitted' :
           Honours(submitted[i].version, submitted[i].form, submitted[i].uploads, submitted[i].consented)'
    <2> SUFFICES ASSUME NEW i \in DOMAIN submitted
                 PROVE  Honours(submitted[i].version, submitted[i].form, submitted[i].uploads,
                                submitted[i].consented)'
      BY <1>8
    <2>1. Honours(submitted[i].version, submitted[i].form, submitted[i].uploads, submitted[i].consented)
      BY DEF FormsInv
    <2>2. QED
      BY <2>1, <1>8, <1>9 DEF Honours
  <1>11. ASSUME NEW g \in Handler, at'[g].op \in {"submit", "claim"}
         PROVE  Honours(at[g].version, at[g].form, at[g].files, at[g].consented)'
    <2>1. at'[g] = at[g]
      BY <1>7, <1>11
    <2>2. Honours(at[g].version, at[g].form, at[g].files, at[g].consented)
      BY <1>11, <2>1 DEF FormsInv
    <2>3. QED
      BY <2>1, <2>2, <1>9 DEF Honours
  <1>12. \A f \in Upload : Accounted(f)'
    BY <1>8 DEF FormsInv, Accounted, In
  <1>13. QED
    BY <1>4, <1>5, <1>6, <1>8, <1>10, <1>11, <1>12 DEF FormsInv, FormsTypeOK

\* A file arrives, or an hour goes by.
LEMMA UploadKeeps ==
    ASSUME FormsInv, NEW f \in Upload, NEW row \in UploadRow, row.used = upload[f].used,
           upload' = [upload EXCEPT ![f] = row], UNCHANGED <<requestType, versions, submitted, at>>
    PROVE  FormsInv'
  <1>1. upload' \in [Upload -> UploadRow]
    BY DEF FormsInv, FormsTypeOK
  <1>2. \A g \in Upload : upload'[g].used = upload[g].used
    BY DEF FormsInv, FormsTypeOK
  <1>3. \A g \in Upload : Accounted(g)'
    BY <1>2 DEF FormsInv, Accounted, In
  <1>4. QED
    BY <1>1, <1>3 DEF FormsInv, FormsTypeOK, Honours

LEMMA StoreUploadKeeps ==
    ASSUME NEW f \in Upload PROVE FormsInv /\ (StoreUpload(f) \/ ExpireUpload(f)) => FormsInv'
  <1> SUFFICES ASSUME FormsInv, StoreUpload(f) \/ ExpireUpload(f) PROVE FormsInv'
    OBVIOUS
  <1>1. upload[f] \in UploadRow /\ upload = [g \in Upload |-> upload[g]]
    BY DEF FormsInv, FormsTypeOK
  <1>2. CASE StoreUpload(f)
    <2> DEFINE made == [upload[f] EXCEPT !.stored = TRUE]
    <2>1. made \in UploadRow /\ made.used = upload[f].used
      BY <1>1 DEF UploadRow
    <2>2. upload' = [upload EXCEPT ![f] = made] /\ UNCHANGED <<requestType, versions, submitted, at>>
      BY <1>2 DEF StoreUpload, InOneStep
    <2>3. QED
      BY <2>1, <2>2, UploadKeeps
  <1>3. CASE ExpireUpload(f)
    <2> DEFINE made == [upload[f] EXCEPT !.expired = TRUE]
    <2>1. made \in UploadRow /\ made.used = upload[f].used
      BY <1>1 DEF UploadRow
    <2>2. upload' = [upload EXCEPT ![f] = made] /\ UNCHANGED <<requestType, versions, submitted, at>>
      BY <1>3 DEF ExpireUpload, handlers
    <2>3. QED
      BY <2>1, <2>2, UploadKeeps
  <1>4. QED
    BY <1>2, <1>3

LEMMA BeginSubmitKeeps == ASSUME NEW h \in Handler PROVE FormsInv /\ BeginSubmit(h) => FormsInv'
  <1> SUFFICES ASSUME FormsInv, BeginSubmit(h) PROVE FormsInv'
    OBVIOUS
  <1> DEFINE last == versions[Len(versions)]
  <1>1. versions \in Seq(Schema) /\ versions # <<>>
    BY DEF FormsInv, FormsTypeOK, BeginSubmit, Offered
  <1>2. Len(versions) \in Nat /\ Len(versions) \in DOMAIN versions /\ last \in Schema
    <2> HIDE DEF Schema
    <2>1. QED
      BY <1>1
  <1>3. last.consent \in BOOLEAN /\ last.attach \in BOOLEAN
    BY <1>2 DEF Schema
  <1>4. PICK files \in SUBSET Upload, consents \in BOOLEAN :
          /\ Valid(last, files, consents)
          /\ Enter(h, [op |-> "submit", version |-> Len(versions), form |-> last, files |-> files,
                       consented |-> consents /\ last.consent])
    BY DEF BeginSubmit
  <1>5. PICK consented \in BOOLEAN : consented = (consents /\ last.consent)
    BY <1>3
  <1>6. consented = last.consent
    BY <1>3, <1>4, <1>5 DEF Valid
  <1>7. ASSUME NEW m, m = [op |-> "submit", version |-> Len(versions), form |-> last, files |-> files,
                           consented |-> consented]
        PROVE  FormsInv'
    <2>1. m.op = "submit" /\ m.version = Len(versions) /\ m.form = last /\ m.files = files /\ m.consented = consented
      BY <1>7
    <2>2. m \in Submitting
      BY <1>2, <1>7 DEF Submitting
    <2>3. at' = [at EXCEPT ![h] = m]
      BY <1>4, <1>5, <1>7 DEF Enter
    <2>4. Honours(m.version, m.form, m.files, m.consented)
      BY <2>1, <1>2, <1>4, <1>6 DEF Honours, Valid
    <2>5. QED
      BY <2>2, <2>3, <2>4, FormsTaskChanged DEF BeginSubmit
  <1>8. QED
    BY <1>7

LEMMA FindUploadsKeeps == ASSUME NEW h \in Handler PROVE FormsInv /\ FindUploads(h) => FormsInv'
  <1> SUFFICES ASSUME FormsInv, FindUploads(h) PROVE FormsInv'
    OBVIOUS
  <1>1. at[h] \in Submitting /\ at[h].op = "submit"
    BY DEF FormsInv, FormsTypeOK, FindUploads, Busy, Idle, PublishingForm, Submitting
  <1>2. ASSUME NEW m, m = [at[h] EXCEPT !.op = "claim"] PROVE FormsInv'
    <2>1. m \in Submitting /\ m.version = at[h].version /\ m.form = at[h].form
          /\ m.files = at[h].files /\ m.consented = at[h].consented
      BY <1>1, <1>2 DEF Submitting
    <2>2. Honours(m.version, m.form, m.files, m.consented)
      BY <1>1, <2>1 DEF FormsInv
    <2>3. at' = [at EXCEPT ![h] = m]
      BY <1>2 DEF FindUploads, Proceed
    <2>4. QED
      BY <2>1, <2>2, <2>3, FormsTaskChanged DEF FindUploads
  <1>3. QED
    BY <1>2

LEMMA SubmitKeeps == ASSUME NEW h \in Handler PROVE FormsInv /\ Submit(h) => FormsInv'
  <1> SUFFICES ASSUME FormsInv, Submit(h) PROVE FormsInv'
    OBVIOUS
  <1> DEFINE files == at[h].files
             r == [version |-> at[h].version, form |-> at[h].form, uploads |-> files,
                   consented |-> at[h].consented]
             n == Len(submitted)
  <1>1. at[h] \in Submitting /\ at[h].op = "claim"
    BY DEF FormsInv, FormsTypeOK, Submit, Busy, Idle, PublishingForm, Submitting
  <1>2. r \in FormRequest /\ files \in SUBSET Upload
    BY <1>1 DEF Submitting, FormRequest
  <1>3. r.uploads = files /\ Honours(r.version, r.form, r.uploads, r.consented)
    BY <1>1 DEF FormsInv
  <1>4. submitted \in Seq(FormRequest) /\ submitted' = Append(submitted, r) /\ UNCHANGED <<requestType, versions>>
    BY DEF FormsInv, FormsTypeOK, Submit
  <1> HIDE DEF r
  <1>5. /\ submitted' \in Seq(FormRequest) /\ n \in Nat
        /\ DOMAIN submitted = 1 .. n /\ DOMAIN submitted' = 1 .. n + 1
        /\ \A i \in 1 .. n : submitted'[i] = submitted[i]
        /\ submitted'[n + 1] = r
    <2> HIDE DEF FormRequest
    <2>1. QED
      BY <1>2, <1>4, AppendProperties
  <1>6. /\ upload' \in [Upload -> UploadRow]
        /\ \A f \in Upload : upload'[f].used <=> upload[f].used \/ f \in files
    <2>1. \A f \in Upload : upload[f] \in UploadRow
      BY DEF FormsInv, FormsTypeOK
    <2>2. upload' = [f \in Upload |-> [upload[f] EXCEPT !.used = @ \/ f \in files]]
      BY DEF Submit
    <2>3. ASSUME NEW f \in Upload
          PROVE  /\ [upload[f] EXCEPT !.used = @ \/ f \in files] \in UploadRow
                 /\ [upload[f] EXCEPT !.used = @ \/ f \in files].used <=> upload[f].used \/ f \in files
      BY <2>1, Zenon DEF UploadRow
    <2>4. QED
      BY <2>2, <2>3, Zenon
  <1>7. ASSUME NEW f \in Upload PROVE Accounted(f)'
    <2>1. Accounted(f)
      BY DEF FormsInv
    <2>2. CASE f \in files
      <3>1. ~upload[f].used /\ upload'[f].used
        BY <1>6, <2>2 DEF Submit, Unclaimed
      <3>2. In(f) = {}
        BY <2>1, <3>1 DEF Accounted
      <3>3. In(f)' = {n + 1}
        BY <1>3, <1>5, <2>2, <3>2 DEF In
      <3>4. QED
        BY <1>5, <3>1, <3>3 DEF Accounted
    <2>3. CASE f \notin files
      <3>1. upload'[f].used <=> upload[f].used
        BY <1>6, <2>3
      <3>2. In(f)' = In(f)
        BY <1>3, <1>5, <2>3 DEF In
      <3>3. QED
        BY <1>5, <2>1, <3>1, <3>2 DEF Accounted
    <2>4. QED
      BY <2>2, <2>3
  <1>8. ASSUME NEW i \in DOMAIN submitted'
        PROVE  Honours(submitted'[i].version, submitted'[i].form, submitted'[i].uploads, submitted'[i].consented)
    <2>1. CASE i \in 1 .. n
      BY <1>5, <2>1 DEF FormsInv
    <2>2. CASE i = n + 1
      BY <1>3, <1>5, <2>2
    <2>3. QED
      BY <1>5, <2>1, <2>2
  <1>9. at' \in [Handler -> {Idle} \cup PublishingForm \cup Submitting]
    BY DEF FormsInv, FormsTypeOK, Submit, Leave, Proceed
  <1>10. \A g \in Handler : at'[g] = at[g] \/ at'[g].op = "idle"
    BY DEF FormsInv, FormsTypeOK, Idle, Submit, Leave, Proceed
  <1>11. \A g \in Handler : at'[g].op \in {"submit", "claim"} =>
           Honours(at'[g].version, at'[g].form, at'[g].files, at'[g].consented)
    BY <1>10 DEF FormsInv
  <1>12. QED
    BY <1>4, <1>5, <1>6, <1>7, <1>8, <1>9, <1>11 DEF FormsInv, FormsTypeOK, Honours

(* A file goes into one request at most and counts as used exactly then,   *)
(* and every request can be read by the version it names, whatever was     *)
(* edited, published or archived since that version was shown.             *)
THEOREM FormsAreHonoured ==
    ASSUME NEW requests
    PROVE  FormsSpec(requests) => []FormsHold
  <1>1. FormsInit /\ HandlersInit(requests) => FormsInv
    BY FormsInitKeeps
  <1>2. FormsInv /\ [FormsNext]_formsState => FormsInv'
    <2> SUFFICES ASSUME FormsInv, [FormsNext]_formsState PROVE FormsInv'
      OBVIOUS
    <2>1. requestType \in RequestType
      BY DEF FormsInv, FormsTypeOK
    <2>2. ASSUME NEW h \in Handler, RefusePublish(h) \/ RefuseSubmit(h) PROVE FormsInv'
      BY <2>1, <2>2, FormsAside DEF RefusePublish, RefuseSubmit, Leave, Proceed, formsVars
    <2>3. CASE UNCHANGED formsState
      BY <2>1, <2>3, FormsAside DEF formsState, handlers, formsVars
    <2>4. QED
      BY <2>2, <2>3, EditDraftKeeps, StoreUploadKeeps, BeginPublishFormKeeps, PublishFormKeeps,
         BeginSubmitKeeps, FindUploadsKeeps, SubmitKeeps DEF FormsNext
  <1>3. QED
    BY <1>1, <1>2, FormsInvImplies, PTL DEF FormsSpec

-----------------------------------------------------------------------------
(* Service queues.                                                         *)

queuesState == <<handlers, queueVars>>

QueuesSpec(requests) == QueueInit /\ HandlersInit(requests) /\ [][QueueNext]_queuesState

TicketRow == [version : Nat, assignee : Agent \cup {None}, status : Status, archived : BOOLEAN]
Rows == UNION {[S -> TicketRow] : S \in SUBSET Ticket}
SnapshotRow == [agent : Agent, queue : Queue, version : Nat, rows : Rows, expired : BOOLEAN]

QueuesTypeOK ==
  /\ queue \in [Queue -> QueueRow \cup {None}]
  /\ ticket \in [Ticket -> TicketRow]
  /\ snapshot \in Seq(SnapshotRow)
  /\ at = [h \in Handler |-> at[h]]

\* A request at the version that was read is assigned as it was read.
AsRead(rows) ==
  \A t \in DOMAIN rows :
    /\ rows[t].version <= ticket[t].version
    /\ rows[t].version = ticket[t].version => rows[t].assignee = ticket[t].assignee

\* An editor knows the scope of his queue, which nobody changes.
QueueTask(h) ==
  /\ Busy(h, "edit queue") =>
       /\ at[h].queue \in Queue /\ queue[at[h].queue] # None
       /\ at[h].read.owner = queue[at[h].queue].owner
       /\ at[h].read.team = queue[at[h].queue].team
  /\ at[h].op \in {"snapshot", "store"} =>
       at[h].agent \in Agent /\ at[h].queue \in Queue /\ at[h].version \in Nat
  /\ Busy(h, "store") => at[h].rows \in Rows /\ AsRead(at[h].rows)
  /\ Busy(h, "triage") =>
       at[h].agent \in Agent /\ at[h].action \in Actions /\ at[h].shown \in Rows /\ AsRead(at[h].shown)

\* The handlers that found room for a snapshot and have yet to store it.
Storing(a, q) == {h \in Handler : Busy(h, "store") /\ at[h].agent = a /\ at[h].queue = q}

\* They count against the limit as if they had stored it.
RoomKept(a, q) ==
  Cardinality(Active(a, q)) + Cardinality(Storing(a, q)) <= SnapshotLimit + Cardinality(Handler) - 1

OneDefault ==
  \A p, q \in Created :
    queue[p].isDefault /\ queue[q].isDefault /\ SameScope(q, queue[p].owner, queue[p].team) => p = q

QueuesInv ==
  /\ QueuesTypeOK
  /\ \A h \in Handler : QueueTask(h)
  /\ \A i \in DOMAIN snapshot : AsRead(snapshot[i].rows)
  /\ TriagedAsShown
  /\ Cardinality(Created) <= QueueLimit
  /\ \A a \in Agent, q \in Queue : RoomKept(a, q)
  /\ OneDefault

LEMMA ActiveFinite ==
    ASSUME snapshot \in Seq(SnapshotRow), NEW a, NEW q
    PROVE  IsFiniteSet(Active(a, q)) /\ Cardinality(Active(a, q)) \in Nat
  <1> HIDE DEF SnapshotRow
  <1>1. Len(snapshot) \in Nat /\ DOMAIN snapshot = 1 .. Len(snapshot)
    OBVIOUS
  <1>2. IsFiniteSet(1 .. Len(snapshot))
    BY <1>1, FS_Interval
  <1>3. Active(a, q) \in SUBSET (1 .. Len(snapshot))
    BY <1>1 DEF Active
  <1>4. IsFiniteSet(Active(a, q))
    BY <1>2, <1>3, FS_Subset
  <1>5. QED
    BY <1>4, FS_CardinalityType

LEMMA StoringFinite ==
    ASSUME NEW a, NEW q
    PROVE  /\ IsFiniteSet(Storing(a, q)) /\ Cardinality(Storing(a, q)) \in Nat
           /\ Cardinality(Handler) \in Nat /\ Cardinality(Storing(a, q)) <= Cardinality(Handler)
  <1>1. Storing(a, q) \in SUBSET Handler /\ IsFiniteSet(Handler)
    BY QueueAssumption DEF Storing
  <1>2. QED
    BY <1>1, FS_Subset, FS_CardinalityType

LEMMA CreatedFinite == IsFiniteSet(Created) /\ Cardinality(Created) \in Nat
  <1>1. Created \in SUBSET Queue /\ IsFiniteSet(Queue)
    BY QueueAssumption DEF Created
  <1>2. IsFiniteSet(Created)
    BY <1>1, FS_Subset
  <1>3. QED
    BY <1>2, FS_CardinalityType

LEMMA QueuesInvImplies == QueuesInv => QueuesHold
  <1> SUFFICES ASSUME QueuesInv PROVE QueuesHold
    OBVIOUS
  <1>1. ASSUME NEW a \in Agent, NEW q \in Queue
        PROVE  Cardinality(Active(a, q)) <= SnapshotLimit + Cardinality(Handler) - 1
    <2>1. RoomKept(a, q)
      BY DEF QueuesInv
    <2>2. Cardinality(Active(a, q)) \in Nat
      BY ActiveFinite DEF QueuesInv, QueuesTypeOK
    <2>3. QED
      BY <2>1, <2>2, StoringFinite, QueueAssumption DEF RoomKept
  <1>2. QED
    BY <1>1 DEF QueuesInv, OneDefault, LimitsHold, QueuesHold

LEMMA QueuesInitKeeps ==
    ASSUME NEW requests PROVE QueueInit /\ HandlersInit(requests) => QueuesInv
  <1> SUFFICES ASSUME QueueInit, HandlersInit(requests) PROVE QueuesInv
    OBVIOUS
  <1>1. PICK team \in BOOLEAN, owner \in Agent, one \in Queue :
          queue = [q \in Queue |->
            IF q = one THEN [owner |-> owner, team |-> team, isDefault |-> TRUE, version |-> 1] ELSE None]
    BY DEF QueueInit
  <1>2. [owner |-> owner, team |-> team, isDefault |-> TRUE, version |-> 1] \in QueueRow
    BY DEF QueueRow
  <1>3. queue \in [Queue -> QueueRow \cup {None}] /\ Created = {one}
    BY <1>1, <1>2, QueueAssumption DEF Created
  <1>4. PICK s \in Status :
          ticket = [t \in Ticket |-> [version |-> 1, assignee |-> None, status |-> s, archived |-> FALSE]]
    BY DEF QueueInit
  <1>5. ticket \in [Ticket -> TicketRow]
    <2> DEFINE fresh == [version |-> 1, assignee |-> None, status |-> s, archived |-> FALSE]
    <2>1. fresh \in TicketRow
      BY DEF TicketRow
    <2>2. ticket = [t \in Ticket |-> fresh]
      BY <1>4
    <2> HIDE DEF fresh
    <2>3. QED
      BY ONLY <2>1, <2>2
  <1>6. snapshot \in Seq(SnapshotRow) /\ DOMAIN snapshot = {}
    BY DEF QueueInit
  <1>7. at = [h \in Handler |-> at[h]] /\ \A h \in Handler : at[h].op = "idle"
    BY DEF HandlersInit, Idle
  <1>8. TriagedAsShown
    BY QueueAssumption DEF QueueInit, TriagedAsShown, NoTriage
  <1>9. Cardinality(Created) <= QueueLimit
    <2>1. Cardinality({one}) = 1
      BY FS_Singleton
    <2>2. QED
      BY <2>1, <1>3, QueueAssumption
  <1>10. ASSUME NEW a \in Agent, NEW q \in Queue PROVE RoomKept(a, q)
    <2>1. Active(a, q) = {} /\ Storing(a, q) = {}
      BY <1>6, <1>7 DEF Active, Storing, Busy
    <2>2. Cardinality({}) = 0
      BY FS_EmptySet
    <2>3. QED
      BY <2>1, <2>2, StoringFinite, QueueAssumption DEF RoomKept
  <1>11. QED
    BY <1>3, <1>5, <1>6, <1>7, <1>8, <1>9, <1>10 DEF QueuesInv, QueuesTypeOK, QueueTask, Busy, OneDefault

-----------------------------------------------------------------------------

LEMMA QueueTaskStays ==
    ASSUME NEW g \in Handler, QueueTask(g), at'[g] = at[g], UNCHANGED <<queue, ticket>>
    PROVE  QueueTask(g)'
  BY DEF QueueTask, AsRead, Busy

LEMMA QueueTaskIdle ==
    ASSUME NEW g \in Handler, at'[g] = Idle
    PROVE  QueueTask(g)'
  <1>1. at'[g].op = "idle"
    BY DEF Idle
  <1>2. QED
    BY <1>1 DEF QueueTask, Busy

\* A step that leaves the rest alone and after which a handler stores nothing it did not
\* store before.
LEMMA QueueTasksChange ==
    ASSUME QueuesInv, UNCHANGED queueVars, NEW h \in Handler, NEW m, at' = [at EXCEPT ![h] = m],
           m.op # "store", QueueTask(h)'
    PROVE  QueuesInv'
  <1>1. at' = [g \in Handler |-> at'[g]] /\ \A g \in Handler : at'[g] = IF g = h THEN m ELSE at[g]
    BY DEF QueuesInv, QueuesTypeOK
  <1>2. ASSUME NEW g \in Handler PROVE QueueTask(g)'
    <2>1. CASE g = h
      BY <2>1
    <2>2. CASE g # h
      BY <1>1, <2>2, QueueTaskStays DEF QueuesInv, queueVars
    <2>3. QED
      BY <2>1, <2>2
  <1>3. ASSUME NEW a \in Agent, NEW q \in Queue PROVE RoomKept(a, q)'
    <2>1. Storing(a, q)' \in SUBSET Storing(a, q)
      BY <1>1 DEF Storing, Busy
    <2>2. Cardinality(Storing(a, q)') \in Nat /\ Cardinality(Storing(a, q)') <= Cardinality(Storing(a, q))
      BY <2>1, StoringFinite, FS_Subset, FS_CardinalityType
    <2>3. Active(a, q)' = Active(a, q)
      BY DEF Active, queueVars
    <2>4. RoomKept(a, q) /\ Cardinality(Active(a, q)) \in Nat
      BY ActiveFinite DEF QueuesInv, QueuesTypeOK
    <2>5. QED
      BY <2>2, <2>3, <2>4, StoringFinite, QueueAssumption DEF RoomKept
  <1>4. QED
    BY <1>1, <1>2, <1>3 DEF QueuesInv, QueuesTypeOK, AsRead, TriagedAsShown, Created, OneDefault, SameScope, queueVars

LEMMA QueueLeaves ==
    ASSUME QueuesInv, UNCHANGED queueVars, NEW h \in Handler, at' = [at EXCEPT ![h] = Idle]
    PROVE  QueuesInv'
  <1>1. at'[h].op = "idle" /\ Idle.op # "store"
    BY DEF QueuesInv, QueuesTypeOK, Idle
  <1>2. QueueTask(h)'
    BY <1>1 DEF QueueTask, Busy
  <1>3. QED
    BY <1>1, <1>2, QueueTasksChange

\* Requests are edited; a version that stays goes with the same assignee.
LEMMA AsReadStays ==
    ASSUME ticket \in [Ticket -> TicketRow], ticket' \in [Ticket -> TicketRow],
           \A t \in Ticket : \/ ticket[t].version < ticket'[t].version
                             \/ ticket[t].version = ticket'[t].version /\ ticket[t].assignee = ticket'[t].assignee,
           NEW rows \in Rows, AsRead(rows)
    PROVE  AsRead(rows)'
  <1> SUFFICES ASSUME NEW t \in DOMAIN rows
               PROVE  /\ rows[t].version <= ticket'[t].version
                      /\ rows[t].version = ticket'[t].version => rows[t].assignee = ticket'[t].assignee
    BY DEF AsRead
  <1>1. t \in Ticket /\ rows[t] \in TicketRow
    BY DEF Rows
  <1>2. rows[t].version \in Nat /\ ticket[t].version \in Nat /\ ticket'[t].version \in Nat
    BY <1>1 DEF TicketRow
  <1>3. QED
    BY <1>1, <1>2 DEF AsRead

\* A handler may end its work with that.
LEMMA TicketsChange ==
    ASSUME QueuesInv, UNCHANGED <<queue, snapshot>>, TriagedAsShown', ticket' \in [Ticket -> TicketRow],
           \A t \in Ticket : \/ ticket[t].version < ticket'[t].version
                             \/ ticket[t].version = ticket'[t].version /\ ticket[t].assignee = ticket'[t].assignee,
           UNCHANGED at \/ \E h \in Handler : at' = [at EXCEPT ![h] = Idle]
    PROVE  QueuesInv'
  <1>1. at' = [g \in Handler |-> at'[g]] /\ \A g \in Handler : at'[g] = at[g] \/ at'[g].op = "idle"
    BY DEF QueuesInv, QueuesTypeOK, Idle
  <1>2. \A rows \in Rows : AsRead(rows) => AsRead(rows)'
    BY AsReadStays DEF QueuesInv, QueuesTypeOK
  <1>3. ASSUME NEW g \in Handler PROVE QueueTask(g)'
    <2>1. CASE at'[g].op = "idle"
      BY <2>1 DEF QueueTask, Busy
    <2>2. CASE at'[g] = at[g]
      <3>1. QueueTask(g)
        BY DEF QueuesInv
      <3>2. ASSUME NEW rows \in Rows, AsRead(rows), NEW other, other = rows,
                   NEW now \in [Ticket -> TicketRow], now = ticket'
            PROVE  \A t \in DOMAIN other :
                     /\ other[t].version <= now[t].version
                     /\ other[t].version = now[t].version => other[t].assignee = now[t].assignee
        BY <1>2, <3>2 DEF AsRead
      <3>3. Busy(g, "store") => AsRead(at[g].rows)'
        <4>1. SUFFICES ASSUME Busy(g, "store") PROVE AsRead(at[g].rows)'
          OBVIOUS
        <4>2. at[g].rows \in Rows /\ AsRead(at[g].rows) /\ at'[g].rows = at[g].rows
          BY <2>2, <3>1, <4>1 DEF QueueTask
        <4>3. QED
          BY <3>2, <4>2 DEF AsRead
      <3>4. Busy(g, "triage") => AsRead(at[g].shown)'
        <4>1. SUFFICES ASSUME Busy(g, "triage") PROVE AsRead(at[g].shown)'
          OBVIOUS
        <4>2. at[g].shown \in Rows /\ AsRead(at[g].shown) /\ at'[g].shown = at[g].shown
          BY <2>2, <3>1, <4>1 DEF QueueTask
        <4>3. QED
          BY <3>2, <4>2 DEF AsRead
      <3>5. QED
        BY <2>2, <3>1, <3>3, <3>4 DEF QueueTask, Busy
    <2>3. QED
      BY <1>1, <2>1, <2>2
  <1>4. ASSUME NEW i \in DOMAIN snapshot' PROVE AsRead(snapshot[i].rows)'
    <2>1. i \in DOMAIN snapshot /\ snapshot' = snapshot
      BY <1>4
    <2>2. snapshot[i] \in SnapshotRow
      <3> HIDE DEF SnapshotRow
      <3>1. QED
        BY <2>1 DEF QueuesInv, QueuesTypeOK
    <2>3. snapshot[i].rows \in Rows /\ AsRead(snapshot[i].rows)
      BY <2>1, <2>2 DEF SnapshotRow, QueuesInv
    <2>4. QED
      BY <1>2, <2>1, <2>3 DEF AsRead
  <1>5. ASSUME NEW a \in Agent, NEW q \in Queue PROVE RoomKept(a, q)'
    <2>1. Storing(a, q)' \in SUBSET Storing(a, q)
      BY <1>1 DEF Storing, Busy
    <2>2. Cardinality(Storing(a, q)') \in Nat /\ Cardinality(Storing(a, q)') <= Cardinality(Storing(a, q))
      BY <2>1, StoringFinite, FS_Subset, FS_CardinalityType
    <2>3. Active(a, q)' = Active(a, q)
      BY DEF Active
    <2>4. RoomKept(a, q) /\ Cardinality(Active(a, q)) \in Nat
      BY ActiveFinite DEF QueuesInv, QueuesTypeOK
    <2>5. QED
      BY <2>2, <2>3, <2>4, StoringFinite, QueueAssumption DEF RoomKept
  <1>6. QED
    BY <1>1, <1>3, <1>4, <1>5 DEF QueuesInv, QueuesTypeOK, Created, OneDefault, SameScope

\* Queues are created and edited; their scopes stay, and one default in each.
LEMMA QueuesChange ==
    ASSUME QueuesInv, UNCHANGED <<snapshot, ticket, triaged>>,
           queue' \in [Queue -> QueueRow \cup {None}], Cardinality(Created') <= QueueLimit, OneDefault',
           \A q \in Queue : queue[q] # None =>
             queue'[q] # None /\ queue'[q].owner = queue[q].owner /\ queue'[q].team = queue[q].team,
           UNCHANGED at \/ \E h \in Handler : at' = [at EXCEPT ![h] = Idle]
    PROVE  QueuesInv'
  <1>1. at' = [g \in Handler |-> at'[g]] /\ \A g \in Handler : at'[g] = at[g] \/ at'[g].op = "idle"
    BY DEF QueuesInv, QueuesTypeOK, Idle
  <1>2. ASSUME NEW g \in Handler PROVE QueueTask(g)'
    <2>1. CASE at'[g].op = "idle"
      BY <2>1 DEF QueueTask, Busy
    <2>2. CASE at'[g] = at[g]
      <3>1. QueueTask(g) /\ ticket' = ticket
        BY DEF QueuesInv
      <3>2. Busy(g, "edit queue") =>
              /\ at[g].queue \in Queue /\ queue'[at[g].queue] # None
              /\ at[g].read.owner = queue'[at[g].queue].owner
              /\ at[g].read.team = queue'[at[g].queue].team
        BY <3>1 DEF QueueTask
      <3>3. (Busy(g, "store") => AsRead(at[g].rows)') /\ (Busy(g, "triage") => AsRead(at[g].shown)')
        BY <2>2, <3>1 DEF QueueTask, AsRead
      <3>4. QED
        BY <2>2, <3>1, <3>2, <3>3 DEF QueueTask, Busy
    <2>3. QED
      BY <1>1, <2>1, <2>2
  <1>3. ASSUME NEW a \in Agent, NEW q \in Queue PROVE RoomKept(a, q)'
    <2>1. Storing(a, q)' \in SUBSET Storing(a, q)
      BY <1>1 DEF Storing, Busy
    <2>2. Cardinality(Storing(a, q)') \in Nat /\ Cardinality(Storing(a, q)') <= Cardinality(Storing(a, q))
      BY <2>1, StoringFinite, FS_Subset, FS_CardinalityType
    <2>3. Active(a, q)' = Active(a, q)
      BY DEF Active
    <2>4. RoomKept(a, q) /\ Cardinality(Active(a, q)) \in Nat
      BY ActiveFinite DEF QueuesInv, QueuesTypeOK
    <2>5. QED
      BY <2>2, <2>3, <2>4, StoringFinite, QueueAssumption DEF RoomKept
  <1>4. QED
    BY <1>1, <1>2, <1>3 DEF QueuesInv, QueuesTypeOK, AsRead, TriagedAsShown

\* A queue is edited.
LEMMA EditedRow ==
    ASSUME NEW r \in QueueRow, NEW b \in BOOLEAN, NEW made, made = [r EXCEPT !.isDefault = b, !.version = @ + 1]
    PROVE  made \in QueueRow /\ made.owner = r.owner /\ made.team = r.team /\ (made.isDefault => b)
  <1>1. r.owner \in Agent /\ r.team \in BOOLEAN /\ r.version + 1 \in Nat
    BY DEF QueueRow
  <1>2. made = [owner |-> r.owner, team |-> r.team, isDefault |-> b, version |-> r.version + 1]
    BY DEF QueueRow
  <1>3. made \in QueueRow
    BY <1>1, <1>2 DEF QueueRow
  <1>4. made.owner = r.owner /\ made.team = r.team /\ (made.isDefault => b)
    BY <1>2
  <1>5. QED
    BY <1>3, <1>4

\* What demotion makes of a row.
LEMMA DemotedRow ==
    ASSUME QueuesTypeOK, NEW o \in Queue, NEW owner, NEW team, NEW made, made = Demoted(o, owner, team)
    PROVE  /\ queue[o] = None => made = None
           /\ queue[o] # None => made \in QueueRow /\ made.owner = queue[o].owner /\ made.team = queue[o].team
           /\ (made = queue[o] /\ ~SameScope(o, owner, team)) \/ made = None \/ ~made.isDefault
  <1>1. queue[o] \in QueueRow \cup {None}
    BY DEF QueuesTypeOK
  <1>2. CASE SameScope(o, owner, team)
    <2>1. queue[o] # None /\ queue[o] \in QueueRow
      BY <1>1, <1>2 DEF SameScope
    <2>2. made = [queue[o] EXCEPT !.isDefault = FALSE, !.version = @ + 1]
      BY <1>2 DEF Demoted
    <2>3. made \in QueueRow /\ made.owner = queue[o].owner /\ made.team = queue[o].team /\ ~made.isDefault
      BY <2>1, <2>2, EditedRow
    <2>4. QED
      BY <1>2, <2>1, <2>3
  <1>3. CASE ~SameScope(o, owner, team)
    <2>1. made = queue[o]
      BY <1>3 DEF Demoted
    <2>2. QED
      BY <1>1, <1>3, <2>1
  <1>4. QED
    BY <1>2, <1>3

QueueWritten(q) ==
  /\ queue' \in [Queue -> QueueRow \cup {None}]
  /\ Created' = Created \cup {q}
  /\ OneDefault'
  /\ \A o \in Queue : queue[o] # None =>
       queue'[o] # None /\ queue'[o].owner = queue[o].owner /\ queue'[o].team = queue[o].team

\* A row is written that is the default of its scope, and the others are demoted.
LEMMA DefaultWritten ==
    ASSUME QueuesInv, NEW q \in Queue, NEW row \in QueueRow,
           queue[q] # None => row.owner = queue[q].owner /\ row.team = queue[q].team,
           queue' = [o \in Queue |-> IF o = q THEN row ELSE Demoted(o, row.owner, row.team)]
    PROVE  QueueWritten(q)
  <1>1. row # None /\ queue'[q] = row /\ QueuesTypeOK
    BY QueueAssumption DEF QueuesInv
  <1>2. ASSUME NEW o \in Queue, o # q
        PROVE  /\ queue[o] = None => queue'[o] = None
               /\ queue[o] # None =>
                    queue'[o] \in QueueRow /\ queue'[o].owner = queue[o].owner /\ queue'[o].team = queue[o].team
               /\ \/ queue'[o] = queue[o] /\ ~SameScope(o, row.owner, row.team)
                  \/ queue'[o] = None
                  \/ ~queue'[o].isDefault
    <2>1. PICK made : made = Demoted(o, row.owner, row.team)
      OBVIOUS
    <2>2. queue'[o] = made
      BY <1>2, <2>1
    <2>3. /\ queue[o] = None => made = None
          /\ queue[o] # None => made \in QueueRow /\ made.owner = queue[o].owner /\ made.team = queue[o].team
          /\ (made = queue[o] /\ ~SameScope(o, row.owner, row.team)) \/ made = None \/ ~made.isDefault
      BY <1>1, <2>1, DemotedRow
    <2>4. QED
      BY <2>2, <2>3
  <1>3. Created' = Created \cup {q}
    BY <1>1, <1>2, QueueAssumption DEF Created
  <1>4. \A o \in Queue : queue[o] # None =>
          queue'[o] # None /\ queue'[o].owner = queue[o].owner /\ queue'[o].team = queue[o].team
    BY <1>1, <1>2, QueueAssumption
  <1>5. OneDefault'
    <2> SUFFICES ASSUME NEW p \in Queue, NEW r \in Queue, queue'[p] # None, queue'[r] # None,
                        queue'[p].isDefault, queue'[r].isDefault,
                        queue'[r].team = queue'[p].team,
                        queue'[p].team \/ queue'[r].owner = queue'[p].owner
                 PROVE  p = r
      BY DEF OneDefault, Created, SameScope
    <2>1. CASE p # q /\ r # q
      <3>1. queue'[p] = queue[p] /\ queue'[r] = queue[r]
        BY <1>2, <2>1
      <3>2. SameScope(r, queue[p].owner, queue[p].team) /\ p \in Created /\ r \in Created
        BY <3>1 DEF SameScope, Created
      <3>3. QED
        BY <3>1, <3>2 DEF QueuesInv, OneDefault
    <2>2. CASE p = q /\ r # q
      <3>1. queue'[r] = queue[r] /\ ~SameScope(r, row.owner, row.team)
        BY <1>2, <2>2
      <3>2. QED
        BY <1>1, <2>2, <3>1 DEF SameScope
    <2>3. CASE p # q /\ r = q
      <3>1. queue'[p] = queue[p] /\ ~SameScope(p, row.owner, row.team)
        BY <1>2, <2>3
      <3>2. QED
        BY <1>1, <2>3, <3>1 DEF SameScope
    <2>4. QED
      BY <2>1, <2>2, <2>3
  <1>6. queue' \in [Queue -> QueueRow \cup {None}]
    <2>1. \A o \in Queue : queue'[o] \in QueueRow \cup {None}
      BY <1>1, <1>2
    <2>2. queue' = [o \in Queue |-> queue'[o]]
      OBVIOUS
    <2>3. QED
      BY ONLY <2>1, <2>2
  <1>7. QED
    BY <1>3, <1>4, <1>5, <1>6 DEF QueueWritten

\* A row is written that is no default, or was the default before.
LEMMA PlainWritten ==
    ASSUME QueuesInv, NEW q \in Queue, NEW row \in QueueRow,
           queue[q] # None => row.owner = queue[q].owner /\ row.team = queue[q].team,
           row.isDefault => queue[q] # None /\ queue[q].isDefault,
           queue' = [queue EXCEPT ![q] = row]
    PROVE  QueueWritten(q)
  <1>1. row # None /\ queue \in [Queue -> QueueRow \cup {None}]
    BY QueueAssumption DEF QueuesInv, QueuesTypeOK
  <1>2. queue' \in [Queue -> QueueRow \cup {None}] /\ queue'[q] = row
        /\ \A o \in Queue : o # q => queue'[o] = queue[o]
    BY <1>1
  <1>3. Created' = Created \cup {q}
    BY <1>1, <1>2 DEF Created
  <1>4. \A o \in Queue : queue[o] # None =>
          queue'[o] # None /\ queue'[o].owner = queue[o].owner /\ queue'[o].team = queue[o].team
    BY <1>1, <1>2
  <1>5. \A o \in Queue : queue'[o] # None /\ queue'[o].isDefault => queue[o] # None /\ queue[o].isDefault
    BY <1>1, <1>2
  <1>6. OneDefault'
    <2> SUFFICES ASSUME NEW p \in Queue, NEW r \in Queue, queue'[p] # None, queue'[r] # None,
                        queue'[p].isDefault, queue'[r].isDefault,
                        queue'[r].team = queue'[p].team,
                        queue'[p].team \/ queue'[r].owner = queue'[p].owner
                 PROVE  p = r
      BY DEF OneDefault, Created, SameScope
    <2>1. SameScope(r, queue[p].owner, queue[p].team) /\ p \in Created /\ r \in Created
      BY <1>4, <1>5 DEF SameScope, Created
    <2>2. QED
      BY <1>5, <2>1 DEF QueuesInv, OneDefault
  <1>7. QED
    BY <1>2, <1>3, <1>4, <1>6 DEF QueueWritten

LEMMA CreateQueueKeeps ==
    ASSUME NEW a \in Agent, NEW q \in Queue PROVE QueuesInv /\ CreateQueue(a, q) => QueuesInv'
  <1> SUFFICES ASSUME QueuesInv, CreateQueue(a, q) PROVE QueuesInv'
    OBVIOUS
  <1>1. queue[q] = None /\ queue = [o \in Queue |-> queue[o]]
    BY DEF CreateQueue, QueuesInv, QueuesTypeOK
  <1>2. ASSUME NEW team \in BOOLEAN,
               queue' = [o \in Queue |->
                 IF o = q THEN [owner |-> a, team |-> team, isDefault |-> TRUE, version |-> 1]
                 ELSE Demoted(o, a, team)]
        PROVE  QueueWritten(q)
    <2> DEFINE row == [owner |-> a, team |-> team, isDefault |-> TRUE, version |-> 1]
    <2>1. row \in QueueRow /\ row.owner = a /\ row.team = team
      BY DEF QueueRow
    <2>2. queue' = [o \in Queue |-> IF o = q THEN row ELSE Demoted(o, row.owner, row.team)]
      BY <1>2, <2>1
    <2> HIDE DEF row
    <2>3. QED
      BY <1>1, <2>1, <2>2, DefaultWritten
  <1>3. ASSUME NEW team \in BOOLEAN,
               queue' = [o \in Queue |->
                 IF o = q THEN [owner |-> a, team |-> team, isDefault |-> FALSE, version |-> 1] ELSE queue[o]]
        PROVE  QueueWritten(q)
    <2> DEFINE row == [owner |-> a, team |-> team, isDefault |-> FALSE, version |-> 1]
    <2>1. row \in QueueRow /\ ~row.isDefault
      BY DEF QueueRow
    <2>2. queue' = [queue EXCEPT ![q] = row]
      BY <1>1, <1>3
    <2> HIDE DEF row
    <2>3. QED
      BY <1>1, <2>1, <2>2, PlainWritten
  <1>4. QueueWritten(q)
    BY <1>2, <1>3 DEF CreateQueue
  <1>5. Cardinality(Created') <= QueueLimit
    <2>1. q \notin Created
      BY <1>1 DEF Created
    <2>2. Cardinality(Created \cup {q}) = Cardinality(Created) + 1
      BY <2>1, CreatedFinite, FS_AddElement
    <2>3. Cardinality(Created) < QueueLimit
      BY DEF CreateQueue, BelowLimit
    <2>4. Created' = Created \cup {q}
      BY <1>4 DEF QueueWritten
    <2>5. QED
      BY <2>2, <2>3, <2>4, CreatedFinite, QueueAssumption
  <1>6. QED
    BY <1>4, <1>5, QueuesChange DEF CreateQueue, InOneStep, QueueWritten

LEMMA EditQueueKeeps ==
    ASSUME NEW h \in Handler PROVE QueuesInv /\ EditQueue(h) => QueuesInv'
  <1> SUFFICES ASSUME QueuesInv, EditQueue(h) PROVE QueuesInv'
    OBVIOUS
  <1> DEFINE q == at[h].queue
  <1>1. /\ q \in Queue /\ queue[q] # None /\ queue = [o \in Queue |-> queue[o]]
        /\ at[h].read.owner = queue[q].owner /\ at[h].read.team = queue[q].team
    BY DEF QueuesInv, QueueTask, EditQueue, QueuesTypeOK
  <1>2. queue[q] \in QueueRow
    BY <1>1 DEF QueuesInv, QueuesTypeOK
  <1>3. ASSUME queue' = [queue EXCEPT ![q].version = @ + 1] PROVE QueueWritten(q)
    <2> DEFINE row == [queue[q] EXCEPT !.version = @ + 1]
    <2>1. /\ row \in QueueRow /\ row.owner = queue[q].owner /\ row.team = queue[q].team
          /\ (row.isDefault => queue[q].isDefault)
      BY <1>2 DEF QueueRow
    <2>2. queue' = [queue EXCEPT ![q] = row]
      BY <1>3
    <2> HIDE DEF row
    <2>3. QED
      BY <1>1, <2>1, <2>2, PlainWritten
  <1>4. ASSUME queue' = [o \in Queue |->
                 IF o = q THEN [queue[q] EXCEPT !.isDefault = TRUE, !.version = @ + 1]
                 ELSE Demoted(o, at[h].read.owner, at[h].read.team)]
        PROVE  QueueWritten(q)
    <2> DEFINE row == [queue[q] EXCEPT !.isDefault = TRUE, !.version = @ + 1]
    <2>1. row \in QueueRow /\ row.owner = queue[q].owner /\ row.team = queue[q].team
      BY <1>2, EditedRow
    <2>2. queue' = [o \in Queue |-> IF o = q THEN row ELSE Demoted(o, row.owner, row.team)]
      BY <1>1, <1>4, <2>1
    <2> HIDE DEF row
    <2>3. QED
      BY <1>1, <2>1, <2>2, DefaultWritten
  <1>5. ASSUME queue' = [o \in Queue |->
                 IF o = q THEN [queue[q] EXCEPT !.isDefault = FALSE, !.version = @ + 1] ELSE queue[o]]
        PROVE  QueueWritten(q)
    <2> DEFINE row == [queue[q] EXCEPT !.isDefault = FALSE, !.version = @ + 1]
    <2>1. row \in QueueRow /\ row.owner = queue[q].owner /\ row.team = queue[q].team /\ ~row.isDefault
      BY <1>2, EditedRow
    <2>2. queue' = [queue EXCEPT ![q] = row]
      BY <1>1, <1>5
    <2> HIDE DEF row
    <2>3. QED
      BY <1>1, <2>1, <2>2, PlainWritten
  <1>6. QueueWritten(q)
    BY <1>3, <1>4, <1>5 DEF EditQueue
  <1>7. Created' = Created
    BY <1>1, <1>6 DEF Created, QueueWritten
  <1>8. QED
    BY <1>6, <1>7, QueuesChange DEF EditQueue, Leave, Proceed, QueuesInv, QueueWritten

LEMMA BeginEditQueueKeeps ==
    ASSUME NEW h \in Handler, NEW a \in Agent, NEW q \in Queue
    PROVE  QueuesInv /\ BeginEditQueue(h, a, q) => QueuesInv'
  <1> SUFFICES ASSUME QueuesInv, BeginEditQueue(h, a, q) PROVE QueuesInv'
    OBVIOUS
  <1>1. ASSUME NEW m, m = [op |-> "edit queue", queue |-> q, read |-> queue[q]] PROVE QueuesInv'
    <2>1. m.op = "edit queue" /\ m.queue = q /\ m.read = queue[q] /\ at' = [at EXCEPT ![h] = m]
      BY <1>1 DEF BeginEditQueue, Enter
    <2>2. at'[h] = m /\ UNCHANGED queueVars /\ queue[q] # None
      BY <2>1 DEF BeginEditQueue, Visible, QueuesInv, QueuesTypeOK
    <2>3. QueueTask(h)'
      BY <2>1, <2>2 DEF QueueTask, Busy, queueVars
    <2>4. QED
      BY <2>1, <2>2, <2>3, QueueTasksChange
  <1>2. QED
    BY <1>1

LEMMA BeginSnapshotKeeps ==
    ASSUME NEW h \in Handler, NEW a \in Agent, NEW q \in Queue
    PROVE  QueuesInv /\ BeginSnapshot(h, a, q) => QueuesInv'
  <1> SUFFICES ASSUME QueuesInv, BeginSnapshot(h, a, q) PROVE QueuesInv'
    OBVIOUS
  <1>1. queue[q] \in QueueRow
    BY DEF BeginSnapshot, Visible, QueuesInv, QueuesTypeOK
  <1>2. queue[q].version \in Nat
    BY <1>1 DEF QueueRow
  <1>3. ASSUME NEW m, m = [op |-> "snapshot", agent |-> a, queue |-> q, version |-> queue[q].version]
        PROVE  QueuesInv'
    <2>1. m.op = "snapshot" /\ m.agent = a /\ m.queue = q /\ m.version \in Nat /\ at' = [at EXCEPT ![h] = m]
      BY <1>2, <1>3 DEF BeginSnapshot, Enter
    <2>2. at'[h] = m /\ UNCHANGED queueVars
      BY <2>1 DEF BeginSnapshot, QueuesInv, QueuesTypeOK
    <2>3. QueueTask(h)'
      BY <2>1, <2>2 DEF QueueTask, Busy
    <2>4. QED
      BY <2>1, <2>2, <2>3, QueueTasksChange
  <1>4. QED
    BY <1>3

\* The rows are read: the handler will store them, whoever else stores meanwhile.
LEMMA ReadRowsKeeps ==
    ASSUME NEW h \in Handler PROVE QueuesInv /\ ReadRows(h) => QueuesInv'
  <1> SUFFICES ASSUME QueuesInv, ReadRows(h) PROVE QueuesInv'
    OBVIOUS
  <1> DEFINE read == [t \in {u \in Ticket : ~ticket[u].archived} |-> ticket[t]]
             a == at[h].agent
             q == at[h].queue
  <1>1. a \in Agent /\ q \in Queue /\ at[h].version \in Nat /\ Cardinality(Active(a, q)) < SnapshotLimit
    BY DEF QueuesInv, QueueTask, ReadRows, Busy, Room
  <1>2. read \in Rows /\ AsRead(read)
    <2>1. \A t \in Ticket : ticket[t] \in TicketRow
      BY DEF QueuesInv, QueuesTypeOK
    <2>2. \A t \in Ticket : ticket[t].version \in Nat
      BY <2>1 DEF TicketRow
    <2>3. DOMAIN read \subseteq Ticket /\ \A t \in DOMAIN read : read[t] = ticket[t]
      OBVIOUS
    <2>4. read \in [{u \in Ticket : ~ticket[u].archived} -> TicketRow]
      BY <2>1
    <2> HIDE DEF read
    <2>5. AsRead(read)
      BY <2>2, <2>3 DEF AsRead
    <2>6. QED
      BY <2>4, <2>5 DEF Rows
  <1>3. ASSUME NEW m, m = [op |-> "store", agent |-> a, queue |-> q, version |-> at[h].version, rows |-> read]
        PROVE  QueuesInv'
    <2>1. /\ m.op = "store" /\ m.agent = a /\ m.queue = q /\ m.version \in Nat /\ m.rows = read
          /\ at' = [at EXCEPT ![h] = m]
      BY <1>1, <1>3 DEF ReadRows, Proceed
    <2> HIDE DEF read
    <2>2. UNCHANGED queueVars
      BY DEF ReadRows
    <2>3. at' = [g \in Handler |-> at'[g]] /\ \A g \in Handler : at'[g] = IF g = h THEN m ELSE at[g]
      BY <2>1 DEF QueuesInv, QueuesTypeOK
    <2>4. AsRead(m.rows)'
      BY <1>2, <2>1, <2>2 DEF AsRead, queueVars
    <2>5. QueueTask(h)'
      <3>1. at'[h] = m
        BY <2>3
      <3>2. AsRead(at[h].rows)'
        BY <2>4, <3>1 DEF AsRead
      <3>3. QED
        BY <1>1, <1>2, <2>1, <3>1, <3>2 DEF QueueTask, Busy
    <2>6. ASSUME NEW g \in Handler PROVE QueueTask(g)'
      BY <2>2, <2>3, <2>5, QueueTaskStays DEF QueuesInv, queueVars
    <2>7. ASSUME NEW b \in Agent, NEW p \in Queue PROVE RoomKept(b, p)'
      <3>1. Active(b, p)' = Active(b, p) /\ Cardinality(Active(b, p)) \in Nat
        <4>1. snapshot' = snapshot /\ snapshot \in Seq(SnapshotRow)
          BY <2>2 DEF queueVars, QueuesInv, QueuesTypeOK
        <4>2. Active(b, p)' = Active(b, p)
          BY <4>1 DEF Active
        <4>3. QED
          BY <4>1, <4>2, ActiveFinite
      <3>2. CASE b = a /\ p = q
        <4>1. Storing(b, p)' \in SUBSET Handler
          BY DEF Storing
        <4>2. Cardinality(Storing(b, p)') \in Nat /\ Cardinality(Storing(b, p)') <= Cardinality(Handler)
          BY <4>1, QueueAssumption, FS_Subset, FS_CardinalityType
        <4>3. QED
          BY <1>1, <3>1, <3>2, <4>2, StoringFinite, QueueAssumption DEF RoomKept
      <3>3. CASE ~(b = a /\ p = q)
        <4>1. Storing(b, p)' = Storing(b, p)
          BY <2>1, <2>3, <3>3 DEF Storing, Busy, ReadRows
        <4>2. RoomKept(b, p)
          BY DEF QueuesInv
        <4>3. QED
          BY <3>1, <4>1, <4>2 DEF RoomKept
      <3>4. QED
        BY <3>2, <3>3
    <2>8. QED
      BY <2>2, <2>3, <2>6, <2>7
         DEF QueuesInv, QueuesTypeOK, AsRead, TriagedAsShown, Created, OneDefault, SameScope, queueVars
  <1>4. QED
    BY <1>3

LEMMA StoreSnapshotKeeps ==
    ASSUME NEW h \in Handler PROVE QueuesInv /\ StoreSnapshot(h) => QueuesInv'
  <1> SUFFICES ASSUME QueuesInv, StoreSnapshot(h) PROVE QueuesInv'
    OBVIOUS
  <1> DEFINE row == [agent |-> at[h].agent, queue |-> at[h].queue, version |-> at[h].version,
                     rows |-> at[h].rows, expired |-> FALSE]
             n == Len(snapshot)
  <1>1. /\ at[h].agent \in Agent /\ at[h].queue \in Queue /\ at[h].version \in Nat
        /\ at[h].rows \in Rows /\ AsRead(at[h].rows)
    BY DEF QueuesInv, QueueTask, StoreSnapshot, Busy
  <1>2. row \in SnapshotRow /\ row.agent = at[h].agent /\ row.queue = at[h].queue /\ row.rows = at[h].rows
    BY <1>1 DEF SnapshotRow
  <1>3. ~row.expired
    OBVIOUS
  <1>4. snapshot' = Append(snapshot, row) /\ UNCHANGED <<queue, ticket, triaged>>
    BY DEF StoreSnapshot
  <1> HIDE DEF row
  <1>5. /\ snapshot' \in Seq(SnapshotRow) /\ n \in Nat
        /\ DOMAIN snapshot = 1 .. n /\ DOMAIN snapshot' = 1 .. n + 1
        /\ \A i \in 1 .. n : snapshot'[i] = snapshot[i]
        /\ snapshot'[n + 1] = row
    <2> HIDE DEF SnapshotRow
    <2>1. snapshot \in Seq(SnapshotRow)
      BY DEF QueuesInv, QueuesTypeOK
    <2>2. QED
      BY <1>2, <1>4, <2>1, AppendProperties
  <1>6. at' = [g \in Handler |-> at'[g]] /\ \A g \in Handler : at'[g] = IF g = h THEN Idle ELSE at[g]
    BY DEF StoreSnapshot, Leave, Proceed, QueuesInv, QueuesTypeOK
  <1>7. ASSUME NEW g \in Handler PROVE QueueTask(g)'
    <2>1. CASE g = h
      BY <1>6, <2>1, QueueTaskIdle
    <2>2. CASE g # h
      BY <1>4, <1>6, <2>2, QueueTaskStays DEF QueuesInv
    <2>3. QED
      BY <2>1, <2>2
  <1>8. ASSUME NEW i \in DOMAIN snapshot' PROVE AsRead(snapshot'[i].rows)
    <2>1. CASE i \in 1 .. n
      BY <1>5, <2>1 DEF QueuesInv
    <2>2. CASE i = n + 1
      BY <1>1, <1>2, <1>5, <2>2
    <2>3. QED
      BY <1>5, <2>1, <2>2
  <1>9. ASSUME NEW b \in Agent, NEW p \in Queue PROVE RoomKept(b, p)'
    <2>1. RoomKept(b, p) /\ IsFiniteSet(Active(b, p)) /\ Cardinality(Active(b, p)) \in Nat
      BY ActiveFinite DEF QueuesInv, QueuesTypeOK
    <2>2. CASE b = at[h].agent /\ p = at[h].queue
      <3>1. Active(b, p)' = Active(b, p) \cup {n + 1} /\ n + 1 \notin Active(b, p)
        BY <1>2, <1>3, <1>5, <2>2 DEF Active
      <3>2. Cardinality(Active(b, p)') = Cardinality(Active(b, p)) + 1
        BY <2>1, <3>1, FS_AddElement
      <3>3. Storing(b, p)' = Storing(b, p) \ {h} /\ h \in Storing(b, p)
        BY <1>6, <2>2 DEF Storing, Busy, Idle, StoreSnapshot
      <3>4. Cardinality(Storing(b, p)') = Cardinality(Storing(b, p)) - 1
        BY <3>3, StoringFinite, FS_RemoveElement
      <3>5. QED
        BY <2>1, <3>2, <3>4, StoringFinite, QueueAssumption DEF RoomKept
    <2>3. CASE ~(b = at[h].agent /\ p = at[h].queue)
      <3>1. Active(b, p)' = Active(b, p)
        BY <1>2, <1>5, <2>3 DEF Active
      <3>2. Storing(b, p)' = Storing(b, p)
        BY <1>6, <2>3 DEF Storing, Busy, Idle
      <3>3. QED
        BY <2>1, <3>1, <3>2 DEF RoomKept
    <2>4. QED
      BY <2>2, <2>3
  <1>10. QED
    BY <1>4, <1>5, <1>6, <1>7, <1>8, <1>9
       DEF QueuesInv, QueuesTypeOK, AsRead, TriagedAsShown, Created, OneDefault, SameScope

LEMMA ExpireSnapshotKeeps ==
    ASSUME NEW k \in DOMAIN snapshot PROVE QueuesInv /\ ExpireSnapshot(k) => QueuesInv'
  <1> SUFFICES ASSUME QueuesInv, ExpireSnapshot(k) PROVE QueuesInv'
    OBVIOUS
  <1> DEFINE row == [snapshot[k] EXCEPT !.expired = TRUE]
             n == Len(snapshot)
  <1>1. snapshot[k] \in SnapshotRow /\ snapshot \in Seq(SnapshotRow) /\ n \in Nat /\ DOMAIN snapshot = 1 .. n
    <2> HIDE DEF SnapshotRow
    <2>1. QED
      BY DEF QueuesInv, QueuesTypeOK
  <1>2. /\ row \in SnapshotRow /\ row.agent = snapshot[k].agent /\ row.queue = snapshot[k].queue
        /\ row.rows = snapshot[k].rows
    BY <1>1 DEF SnapshotRow
  <1>3. row.expired
    BY <1>1 DEF SnapshotRow
  <1>4. snapshot' = [snapshot EXCEPT ![k] = row] /\ UNCHANGED <<queue, ticket, triaged, at>>
    BY DEF ExpireSnapshot, handlers
  <1> HIDE DEF row
  <1>5. /\ snapshot' \in Seq(SnapshotRow) /\ DOMAIN snapshot' = 1 .. n
        /\ \A i \in 1 .. n : snapshot'[i] = IF i = k THEN row ELSE snapshot[i]
    <2> HIDE DEF SnapshotRow
    <2>1. QED
      BY <1>1, <1>2, <1>4, ExceptSeq
  <1>6. ASSUME NEW i \in DOMAIN snapshot' PROVE AsRead(snapshot'[i].rows)
    BY <1>1, <1>2, <1>5 DEF QueuesInv
  <1>7. ASSUME NEW b \in Agent, NEW p \in Queue PROVE RoomKept(b, p)'
    <2>1. RoomKept(b, p) /\ IsFiniteSet(Active(b, p)) /\ Cardinality(Active(b, p)) \in Nat
      BY ActiveFinite DEF QueuesInv, QueuesTypeOK
    <2>2. Active(b, p)' \in SUBSET Active(b, p)
      BY <1>1, <1>2, <1>3, <1>5 DEF Active
    <2>3. Cardinality(Active(b, p)') \in Nat /\ Cardinality(Active(b, p)') <= Cardinality(Active(b, p))
      BY <2>1, <2>2, FS_Subset, FS_CardinalityType
    <2>4. Storing(b, p)' = Storing(b, p)
      BY <1>4 DEF Storing, Busy
    <2>5. QED
      BY <2>1, <2>3, <2>4, StoringFinite, QueueAssumption DEF RoomKept
  <1>8. ASSUME NEW g \in Handler PROVE QueueTask(g)'
    BY <1>4 DEF QueuesInv, QueueTask, AsRead, Busy
  <1>9. QED
    BY <1>4, <1>5, <1>6, <1>7, <1>8
       DEF QueuesInv, QueuesTypeOK, AsRead, TriagedAsShown, Created, OneDefault, SameScope

LEMMA BeginTriageKeeps ==
    ASSUME NEW h \in Handler, NEW i \in DOMAIN snapshot
    PROVE  QueuesInv /\ BeginTriage(h, i) => QueuesInv'
  <1> SUFFICES ASSUME QueuesInv, BeginTriage(h, i) PROVE QueuesInv'
    OBVIOUS
  <1> DEFINE rows == snapshot[i].rows
  <1>1. snapshot[i] \in SnapshotRow
    <2> HIDE DEF SnapshotRow
    <2>1. QED
      BY DEF QueuesInv, QueuesTypeOK
  <1>2. snapshot[i].agent \in Agent /\ rows \in Rows /\ AsRead(rows)
    BY <1>1 DEF SnapshotRow, QueuesInv
  <1>3. PICK chosen \in SUBSET DOMAIN rows, action \in Actions :
          Enter(h, [op |-> "triage", agent |-> snapshot[i].agent, action |-> action,
                    shown |-> [t \in chosen |-> rows[t]]])
    BY DEF BeginTriage
  <1> DEFINE shown == [t \in chosen |-> rows[t]]
  <1>4. shown \in Rows /\ AsRead(shown)
    <2>1. chosen \subseteq Ticket /\ \A t \in chosen : rows[t] \in TicketRow
      BY <1>2 DEF Rows
    <2>2. shown \in [chosen -> TicketRow]
      BY <2>1
    <2>3. AsRead(shown)
      BY <1>2 DEF AsRead
    <2>4. QED
      BY <2>1, <2>2, <2>3 DEF Rows
  <1> HIDE DEF shown
  <1>5. ASSUME NEW m, m = [op |-> "triage", agent |-> snapshot[i].agent, action |-> action, shown |-> shown]
        PROVE  QueuesInv'
    <2>1. m.op = "triage" /\ m.agent \in Agent /\ m.action \in Actions /\ m.shown = shown
      BY <1>2, <1>5
    <2>2. at' = [at EXCEPT ![h] = m] /\ UNCHANGED queueVars
      BY <1>3, <1>5 DEF Enter, BeginTriage, shown
    <2>3. at'[h] = m
      BY <2>2 DEF QueuesInv, QueuesTypeOK
    <2>4. AsRead(m.shown)'
      BY <1>4, <2>1, <2>2 DEF AsRead, queueVars
    <2>5. QueueTask(h)'
      BY <1>4, <2>1, <2>3, <2>4 DEF QueueTask, Busy, AsRead
    <2>6. QED
      BY <2>1, <2>2, <2>5, QueueTasksChange
  <1>6. QED
    BY <1>5

LEMMA ActionFields ==
    ASSUME NEW action \in Actions
    PROVE  action.status \in Status \cup {None} /\ action.assignee \in Agent \cup {None}
  <1>1. CASE action \in {[claim |-> TRUE, assignee |-> None, status |-> s] : s \in Status \cup {None}}
    <2>1. PICK s \in Status \cup {None} : action = [claim |-> TRUE, assignee |-> None, status |-> s]
      BY <1>1
    <2>2. QED
      BY <2>1
  <1>2. ASSUME NEW B, NEW A, NEW S, A \subseteq Agent \cup {None}, S \subseteq Status \cup {None},
               action \in [claim : B, assignee : A, status : S]
        PROVE  action.status \in Status \cup {None} /\ action.assignee \in Agent \cup {None}
    BY ONLY <1>2
  <1>3. CASE action \in [claim : {FALSE}, assignee : Agent, status : {None}]
    BY <1>2, <1>3
  <1>4. CASE action \in [claim : {FALSE}, assignee : {None}, status : Status]
    BY <1>2, <1>4
  <1>5. QED
    BY <1>1, <1>3, <1>4 DEF Actions

LEMMA TriageKeeps ==
    ASSUME NEW h \in Handler PROVE QueuesInv /\ Triage(h) => QueuesInv'
  <1> SUFFICES ASSUME QueuesInv, Triage(h) PROVE QueuesInv'
    OBVIOUS
  <1> DEFINE shown == at[h].shown
             action == at[h].action
             agent == at[h].agent
  <1>1. agent \in Agent /\ action \in Actions /\ shown \in Rows /\ AsRead(shown)
    BY DEF QueuesInv, QueueTask, Triage
  <1>2. DOMAIN shown \subseteq Ticket
    BY <1>1 DEF Rows
  <1>3. \A t \in Ticket : ticket[t] \in TicketRow
    BY DEF QueuesInv, QueuesTypeOK
  <1>4. action.status \in Status \cup {None} /\ action.assignee \in Agent \cup {None}
    BY <1>1, ActionFields
  <1>5. ASSUME NEW t \in Ticket
        PROVE  /\ Acted(t, agent, action) \in TicketRow
               /\ Acted(t, agent, action).version = ticket[t].version + 1
               /\ action.status # None => Acted(t, agent, action).status = action.status
               /\ Acted(t, agent, action).archived <=> ticket[t].archived
    <2> DEFINE assignee == IF action.claim THEN agent
                           ELSE IF action.assignee # None THEN action.assignee ELSE ticket[t].assignee
               status == IF action.status # None THEN action.status ELSE ticket[t].status
    <2>1. ticket[t].assignee \in Agent \cup {None} /\ ticket[t].status \in Status /\ ticket[t].version \in Nat
          /\ ticket[t].archived \in BOOLEAN
      BY <1>3 DEF TicketRow
    <2>2. assignee \in Agent \cup {None} /\ status \in Status
      BY <1>1, <1>4, <2>1
    <2>3. action.status # None => status = action.status
      OBVIOUS
    <2>4. Acted(t, agent, action) =
            [ticket[t] EXCEPT !.version = @ + 1, !.assignee = assignee, !.status = status]
      BY DEF Acted
    <2> HIDE DEF assignee, status
    <2>5. Acted(t, agent, action) = [version |-> ticket[t].version + 1, assignee |-> assignee,
                                     status |-> status, archived |-> ticket[t].archived]
      BY <1>3, <2>4 DEF TicketRow
    <2>6. Acted(t, agent, action) \in TicketRow
      BY <2>1, <2>2, <2>5 DEF TicketRow
    <2>7. QED
      BY <2>3, <2>5, <2>6
  <1>6. /\ ticket' = [t \in Ticket |-> IF t \in DOMAIN shown THEN Acted(t, agent, action) ELSE ticket[t]]
        /\ UNCHANGED <<queue, snapshot>> /\ at' = [at EXCEPT ![h] = Idle]
        /\ Unchanged(shown, action) /\ Allowed(shown, action)
    BY DEF Triage, Leave, Proceed
  <1>7. ticket' \in [Ticket -> TicketRow]
    BY <1>3, <1>5, <1>6
  <1>8. \A t \in Ticket : \/ ticket[t].version < ticket'[t].version
                          \/ ticket[t].version = ticket'[t].version /\ ticket[t].assignee = ticket'[t].assignee
    <2>1. \A t \in Ticket : ticket[t].version \in Nat
      BY <1>3 DEF TicketRow
    <2>2. QED
      BY <1>5, <1>6, <2>1
  <1>9. TriagedAsShown'
    <2> DEFINE crowd == IF action.status = None \/ Arriving(shown, action.status) = {} THEN 0
                        ELSE Cardinality({t \in Ticket : ticket'[t].status = action.status
                                                         /\ ~ticket'[t].archived})
               found == [t \in DOMAIN shown |-> ticket[t]]
    <2>1. triaged' = [action |-> action, shown |-> shown, found |-> found, crowd |-> crowd]
      BY DEF Triage
    <2>2. crowd <= WipLimit
      <3>1. CASE action.status = None \/ Arriving(shown, action.status) = {}
        BY <3>1, QueueAssumption
      <3>2. CASE ~(action.status = None \/ Arriving(shown, action.status) = {})
        <4>1. \A t \in DOMAIN shown : ~ticket[t].archived
          BY <1>6 DEF Unchanged
        <4>2. ASSUME NEW t \in Ticket
              PROVE  ticket'[t].status = action.status /\ ~ticket'[t].archived
                     <=> t \in InStatus(action.status) \cup Arriving(shown, action.status)
          <5>1. CASE t \in DOMAIN shown
            <6>1. ticket'[t].status = action.status /\ ~ticket'[t].archived
              BY <1>5, <1>6, <3>2, <4>1, <5>1
            <6>2. t \in InStatus(action.status) \cup Arriving(shown, action.status)
              BY <4>1, <5>1 DEF InStatus, Arriving
            <6>3. QED
              BY <6>1, <6>2
          <5>2. CASE t \notin DOMAIN shown
            BY <1>6, <5>2 DEF InStatus, Arriving
          <5>3. QED
            BY <5>1, <5>2
        <4>3. {t \in Ticket : ticket'[t].status = action.status /\ ~ticket'[t].archived}
                = InStatus(action.status) \cup Arriving(shown, action.status)
          BY <1>2, <4>2 DEF InStatus, Arriving
        <4>4. QED
          BY <1>6, <3>2, <4>3 DEF Allowed
      <3>3. QED
        BY <3>1, <3>2
    <2>3. ASSUME NEW t \in DOMAIN shown
          PROVE  /\ found[t].assignee = shown[t].assignee
                 /\ found[t].version = shown[t].version
                 /\ ~found[t].archived
                 /\ action.claim => found[t].assignee = None
      BY <1>1, <1>6 DEF AsRead, Unchanged
    <2> HIDE DEF crowd, found
    <2>4. triaged'.shown = shown /\ triaged'.found = found /\ triaged'.action = action /\ triaged'.crowd = crowd
      BY <2>1
    <2>5. QED
      BY <2>2, <2>3, <2>4 DEF TriagedAsShown
  <1>10. QED
    BY <1>6, <1>7, <1>8, <1>9, TicketsChange

LEMMA EditTicketKeeps ==
    ASSUME NEW t \in Ticket PROVE QueuesInv /\ EditTicket(t) => QueuesInv'
  <1> SUFFICES ASSUME QueuesInv, EditTicket(t) PROVE QueuesInv'
    OBVIOUS
  <1>1. PICK assignee \in Agent \cup {None}, s \in Status, archived \in BOOLEAN :
          ticket' = [ticket EXCEPT ![t] = [version |-> @.version + 1, assignee |-> assignee,
                                           status |-> s, archived |-> archived]]
    BY DEF EditTicket
  <1>2. ticket \in [Ticket -> TicketRow] /\ ticket[t] \in TicketRow
    BY DEF QueuesInv, QueuesTypeOK
  <1>3. ticket[t].version \in Nat
    BY <1>2 DEF TicketRow
  <1> DEFINE row == [version |-> ticket[t].version + 1, assignee |-> assignee, status |-> s, archived |-> archived]
  <1>4. row \in TicketRow /\ row.version = ticket[t].version + 1
    BY <1>3 DEF TicketRow
  <1>5. ticket' = [ticket EXCEPT ![t] = row]
    BY <1>1
  <1> HIDE DEF row
  <1>6. ticket' \in [Ticket -> TicketRow] /\ \A u \in Ticket : ticket'[u] = IF u = t THEN row ELSE ticket[u]
    BY <1>2, <1>4, <1>5
  <1>7. TriagedAsShown'
    BY DEF QueuesInv, TriagedAsShown, EditTicket
  <1>8. QED
    BY <1>3, <1>4, <1>6, <1>7, TicketsChange DEF EditTicket, InOneStep

LEMMA ReplaceStatusKeeps ==
    ASSUME NEW old \in Status, NEW new \in Status PROVE QueuesInv /\ ReplaceStatus(old, new) => QueuesInv'
  <1> SUFFICES ASSUME QueuesInv, ReplaceStatus(old, new) PROVE QueuesInv'
    OBVIOUS
  <1>1. \A t \in Ticket : ticket[t] \in TicketRow
    BY DEF QueuesInv, QueuesTypeOK
  <1>2. ASSUME NEW t \in Ticket
        PROVE  ticket'[t] \in TicketRow /\ ticket'[t].version = ticket[t].version
               /\ ticket'[t].assignee = ticket[t].assignee
    <2>1. PICK s \in Status : ticket'[t] = [ticket[t] EXCEPT !.status = s]
      BY <1>1 DEF ReplaceStatus, TicketRow
    <2>2. QED
      BY <1>1, <2>1 DEF TicketRow
  <1>3. ticket' = [t \in Ticket |-> ticket'[t]]
    BY DEF ReplaceStatus
  <1>4. ticket' \in [Ticket -> TicketRow]
    BY ONLY <1>2, <1>3
  <1>5. TriagedAsShown'
    BY DEF QueuesInv, TriagedAsShown, ReplaceStatus
  <1>6. QED
    BY <1>2, <1>4, <1>5, TicketsChange DEF ReplaceStatus, InOneStep

(* A bulk change hits requests that are assigned as the agent saw them and *)
(* does not crowd their status, while others edit, move and triage; the    *)
(* limits on queues and snapshots hold, and a scope has one default queue. *)
THEOREM TriageIsAsShown ==
    ASSUME NEW requests
    PROVE  QueuesSpec(requests) => []QueuesHold
  <1>1. QueueInit /\ HandlersInit(requests) => QueuesInv
    BY QueuesInitKeeps
  <1>2. QueuesInv /\ [QueueNext]_queuesState => QueuesInv'
    <2> SUFFICES ASSUME QueuesInv, [QueueNext]_queuesState PROVE QueuesInv'
      OBVIOUS
    <2>1. ASSUME NEW h \in Handler, RefuseEditQueue(h) \/ RefuseSnapshot(h) \/ RefuseTriage(h) PROVE QueuesInv'
      BY <2>1, QueueLeaves DEF RefuseEditQueue, RefuseSnapshot, RefuseTriage, Leave, Proceed
    <2>2. CASE UNCHANGED queuesState
      <3>1. /\ ticket' = ticket /\ TriagedAsShown' /\ UNCHANGED <<queue, snapshot, at>>
        BY <2>2 DEF queuesState, handlers, queueVars, QueuesInv, TriagedAsShown
      <3>2. QED
        BY <3>1, TicketsChange DEF QueuesInv, QueuesTypeOK
    <2>3. QED
      BY <2>1, <2>2, CreateQueueKeeps, EditTicketKeeps, ReplaceStatusKeeps, ExpireSnapshotKeeps,
         BeginEditQueueKeeps, BeginSnapshotKeeps, EditQueueKeeps, ReadRowsKeeps, StoreSnapshotKeeps,
         BeginTriageKeeps, TriageKeeps DEF QueueNext
  <1>3. QED
    BY <1>1, <1>2, QueuesInvImplies, PTL DEF QueuesSpec
-----------------------------------------------------------------------------
(* The conversation with customers.                                        *)

mailState == <<handlers, mailVars>>

MailSpec(requests) == MailInit /\ HandlersInit(requests) /\ [][MailNext]_mailState

ServiceRequest ==
  [reporter : Customer, sharing : Sharing, ofOrganization : BOOLEAN, participants : SUBSET Customer,
   shown : BOOLEAN, origin : Mail \cup {None}]
PortalComment == [id : Mail \cup ReplyKey \cup {None}, author : Customer \cup {None}]
Conversation == Seq(PortalComment)

MailTypeOK ==
  /\ posted \in [Mail -> Letter \cup {None}]
  /\ inbound \in [Mail -> InboundMessage \cup {None}]
  /\ serviceRequest \in Seq(ServiceRequest)
  /\ comments \in Seq(Conversation) /\ Len(comments) = Len(serviceRequest)
  /\ at = [h \in Handler |-> at[h]]

MailTask(h) ==
  /\ at[h].op \in {"mail", "mail locked"} => at[h].mail \in Mail /\ posted[at[h].mail] # None
  /\ Busy(h, "comment") => at[h].customer \in Customer /\ at[h].request \in DOMAIN serviceRequest
  /\ Busy(h, "reply") => at[h].key \in ReplyKey /\ at[h].request \in DOMAIN serviceRequest
  /\ Busy(h, "merge") => at[h].source \in Customer /\ at[h].target \in Customer

\* The requests that a message became, and where it was said.
Became(m) == {r \in DOMAIN serviceRequest : serviceRequest[r].origin = m}
SaidAt(r, id) == {i \in DOMAIN comments[r] : comments[r][i].id = id}
Answering(m) == UNION {{r} \X SaidAt(r, m) : r \in DOMAIN comments}

Accepted(m) == inbound[m] # None /\ inbound[m].status = "ACCEPTED"

\* An accepted message is one request or one comment, any other is neither.
Settled(m) ==
  /\ ~Accepted(m) => /\ Became(m) = {} /\ Answering(m) = {}
                     /\ inbound[m] # None => inbound[m].request = None
  /\ Accepted(m) =>
       \/ Became(m) = {inbound[m].request} /\ Answering(m) = {}
       \/ Became(m) = {} /\ \E i : Answering(m) = {<<inbound[m].request, i>>}

\* What an accepted message answers was accepted before.
Threaded(m) ==
  Accepted(m) =>
    /\ posted[m] # None
    /\ posted[m].answers.kind = "mail" =>
         /\ inbound[posted[m].answers.of] # None
         /\ inbound[posted[m].answers.of].request = inbound[m].request
    /\ posted[m].answers.kind = "sent" => posted[m].answers.of = inbound[m].request

RepliedOnce ==
  \A r \in DOMAIN comments, k \in ReplyKey : SaidAt(r, k) = {} \/ \E i : SaidAt(r, k) = {i}

\* What goes out is about a request that there is.
Outgoing == \A p \in outbox : p[2] \in DOMAIN serviceRequest

MailInv ==
  /\ MailTypeOK /\ Outgoing
  /\ \A h \in Handler : MailTask(h)
  /\ \A m \in Mail : Settled(m) /\ Threaded(m)
  /\ RepliedOnce

LEMMA MailInvImplies == MailInv => EffectMatchesRecord
  <1> SUFFICES ASSUME MailInv PROVE EffectMatchesRecord
    OBVIOUS
  <1>1. ASSUME NEW m \in Mail
        PROVE  Effects(m) = IF Accepted(m) THEN 1 ELSE 0
    <2>1. Effects(m) = Cardinality(Became(m)) + Cardinality(Answering(m))
      BY DEF Effects, Became, Answering, SaidAt
    <2>2. Cardinality({}) = 0 /\ \A x : Cardinality({x}) = 1
      BY FS_EmptySet, FS_Singleton
    <2>3. Settled(m)
      BY DEF MailInv
    <2>4. CASE Accepted(m)
      <3>1. CASE Became(m) = {inbound[m].request} /\ Answering(m) = {}
        <4>1. Cardinality(Became(m)) = 1 /\ Cardinality(Answering(m)) = 0
          BY <2>2, <3>1, Zenon
        <4>2. QED
          BY <2>1, <2>4, <4>1
      <3>2. CASE Became(m) = {} /\ \E i : Answering(m) = {<<inbound[m].request, i>>}
        <4>1. Cardinality(Became(m)) = 0 /\ Cardinality(Answering(m)) = 1
          BY <2>2, <3>2, Zenon
        <4>2. QED
          BY <2>1, <2>4, <4>1
      <3>3. QED
        BY <2>3, <2>4, <3>1, <3>2 DEF Settled
    <2>5. CASE ~Accepted(m)
      <3>1. Cardinality(Became(m)) = 0 /\ Cardinality(Answering(m)) = 0
        BY <2>2, <2>3, <2>5, Zenon DEF Settled
      <3>2. QED
        BY <2>1, <2>5, <3>1
    <2>6. QED
      BY <2>4, <2>5
  <1>2. ASSUME NEW m \in Mail, Accepted(m), NEW r, r = inbound[m].request
        PROVE  serviceRequest[r].origin = m \/ Said(r, m)
    <2>1. Settled(m)
      BY DEF MailInv
    <2>2. CASE Became(m) = {r}
      BY <2>2 DEF Became
    <2>3. CASE \E i : Answering(m) = {<<r, i>>}
      <3>1. PICK i : <<r, i>> \in Answering(m)
        BY <2>3
      <3>2. PICK s \in DOMAIN comments : <<r, i>> \in {s} \X SaidAt(s, m)
        BY <3>1 DEF Answering
      <3>3. r = s /\ i \in SaidAt(r, m)
        BY <3>2
      <3>4. QED
        BY <3>3 DEF SaidAt, Said
    <2>4. QED
      BY <1>2, <2>1, <2>2, <2>3 DEF Settled
  <1>3. ASSUME NEW m \in Mail, Accepted(m)
        PROVE  /\ posted[m].answers.kind = "mail" => inbound[posted[m].answers.of].request = inbound[m].request
               /\ posted[m].answers.kind = "sent" => posted[m].answers.of = inbound[m].request
    BY <1>3 DEF MailInv, Threaded
  <1>4. ASSUME NEW r \in DOMAIN comments, NEW k \in ReplyKey
        PROVE  Cardinality(SaidAt(r, k)) <= 1
    <2>1. Cardinality({}) = 0 /\ \A x : Cardinality({x}) = 1
      BY FS_EmptySet, FS_Singleton
    <2>2. SaidAt(r, k) = {} \/ \E i : SaidAt(r, k) = {i}
      BY DEF MailInv, RepliedOnce
    <2>3. Cardinality(SaidAt(r, k)) \in {0, 1}
      BY <2>1, <2>2, Zenon
    <2>4. QED
      BY <2>3
  <1>5. QED
    BY <1>1, <1>2, <1>3, <1>4 DEF EffectMatchesRecord, Accepted, SaidAt

LEMMA MailInitKeeps ==
    ASSUME NEW requests PROVE MailInit /\ HandlersInit(requests) => MailInv
  <1> SUFFICES ASSUME MailInit, HandlersInit(requests) PROVE MailInv
    OBVIOUS
  <1>1. /\ posted \in [Mail -> Letter \cup {None}] /\ inbound \in [Mail -> InboundMessage \cup {None}]
        /\ serviceRequest \in Seq(ServiceRequest)
        /\ comments \in Seq(Conversation) /\ Len(comments) = Len(serviceRequest)
        /\ DOMAIN serviceRequest = {} /\ DOMAIN comments = {}
        /\ outbox = {} /\ \A m \in Mail : inbound[m] = None
    BY DEF MailInit
  <1>2. at = [h \in Handler |-> at[h]] /\ \A h \in Handler : at[h].op = "idle"
    BY DEF HandlersInit, Idle
  <1>3. ASSUME NEW m \in Mail PROVE Settled(m) /\ Threaded(m)
    BY <1>1 DEF Settled, Threaded, Accepted, Became, Answering
  <1>4. QED
    BY <1>1, <1>2, <1>3 DEF MailInv, MailTypeOK, Outgoing, MailTask, Busy, RepliedOnce

LEMMA MailTaskStays ==
    ASSUME NEW g \in Handler, MailTask(g), at'[g] = at[g], DOMAIN serviceRequest \subseteq DOMAIN serviceRequest',
           \A m \in Mail : posted[m] # None => posted'[m] = posted[m]
    PROVE  MailTask(g)'
  BY DEF MailTask, Busy

\* A handler ends its work, or none goes on.
LEMMA MailTasksStay ==
    ASSUME MailInv, DOMAIN serviceRequest \subseteq DOMAIN serviceRequest',
           \A m \in Mail : posted[m] # None => posted'[m] = posted[m],
           UNCHANGED at \/ \E h \in Handler : at' = [at EXCEPT ![h] = Idle]
    PROVE  at' = [g \in Handler |-> at'[g]] /\ \A g \in Handler : MailTask(g)'
  <1>1. at' = [g \in Handler |-> at'[g]] /\ \A g \in Handler : at'[g] = at[g] \/ at'[g].op = "idle"
    BY DEF MailInv, MailTypeOK, Idle
  <1>2. ASSUME NEW g \in Handler PROVE MailTask(g)'
    <2>1. CASE at'[g] = at[g]
      BY <2>1, MailTaskStays DEF MailInv
    <2>2. CASE at'[g].op = "idle"
      BY <2>2 DEF MailTask, Busy
    <2>3. QED
      BY <1>1, <2>1, <2>2
  <1>3. QED
    BY <1>1, <1>2

\* A handler takes up, or goes on with, what it has.
LEMMA MailTaskChanged ==
    ASSUME MailInv, UNCHANGED <<talk, inbound>>, posted' \in [Mail -> Letter \cup {None}],
           \A m \in Mail : posted[m] # None => posted'[m] = posted[m],
           NEW h \in Handler, NEW t, at' = [at EXCEPT ![h] = t], MailTask(h)'
    PROVE  MailInv'
  <1>1. at' = [g \in Handler |-> at'[g]] /\ \A g \in Handler : g # h => at'[g] = at[g]
    BY DEF MailInv, MailTypeOK
  <1>2. ASSUME NEW g \in Handler PROVE MailTask(g)'
    <2>1. CASE g = h
      BY <2>1
    <2>2. CASE g # h
      BY <1>1, <2>2, MailTaskStays DEF MailInv, talk
    <2>3. QED
      BY <2>1, <2>2
  <1>3. ASSUME NEW m \in Mail PROVE Settled(m)' /\ Threaded(m)'
    <2>1. Settled(m) /\ Threaded(m)
      BY DEF MailInv
    <2>2. Became(m)' = Became(m) /\ Answering(m)' = Answering(m)
      BY DEF Became, Answering, SaidAt, talk
    <2>3. QED
      BY <2>1, <2>2 DEF Settled, Threaded, Accepted, talk
  <1>4. RepliedOnce'
    <2>1. RepliedOnce /\ \A r, k : SaidAt(r, k)' = SaidAt(r, k)
      BY DEF MailInv, SaidAt, talk
    <2>2. QED
      BY <2>1 DEF RepliedOnce, talk
  <1>5. QED
    BY <1>1, <1>2, <1>3, <1>4 DEF MailInv, MailTypeOK, Outgoing, talk

\* Requests change or are added without any message, and so are comments.
LEMMA MailAside ==
    ASSUME MailInv, UNCHANGED <<posted, inbound>>,
           serviceRequest' \in Seq(ServiceRequest), DOMAIN serviceRequest \subseteq DOMAIN serviceRequest',
           comments' \in Seq(Conversation), Len(comments') = Len(serviceRequest'),
           \A m \in Mail : Became(m)' = Became(m) /\ Answering(m)' = Answering(m),
           RepliedOnce', Outgoing',
           UNCHANGED at \/ \E h \in Handler : at' = [at EXCEPT ![h] = Idle]
    PROVE  MailInv'
  <1>1. at' = [g \in Handler |-> at'[g]] /\ \A g \in Handler : MailTask(g)'
    BY MailTasksStay
  <1>2. ASSUME NEW m \in Mail PROVE Settled(m)' /\ Threaded(m)'
    BY DEF MailInv, Settled, Threaded, Accepted
  <1>3. QED
    BY <1>1, <1>2 DEF MailInv, MailTypeOK

LEMMA MailUnchanged ==
    ASSUME MailInv, UNCHANGED <<posted, inbound, talk>>,
           UNCHANGED at \/ \E h \in Handler : at' = [at EXCEPT ![h] = Idle]
    PROVE  MailInv'
  <1>1. \A m \in Mail : Became(m)' = Became(m) /\ Answering(m)' = Answering(m)
    BY DEF Became, Answering, SaidAt, talk
  <1>2. RepliedOnce'
    <2>1. RepliedOnce /\ \A r, k : SaidAt(r, k)' = SaidAt(r, k)
      BY DEF MailInv, SaidAt, talk
    <2>2. QED
      BY <2>1 DEF RepliedOnce, talk
  <1>3. QED
    BY <1>1, <1>2, MailAside DEF MailInv, MailTypeOK, Outgoing, talk

LEMMA CommentsIndexed ==
    ASSUME MailTypeOK
    PROVE  /\ Len(comments) \in Nat /\ DOMAIN comments = 1 .. Len(comments)
           /\ DOMAIN serviceRequest = 1 .. Len(comments)
           /\ \A r \in DOMAIN comments : comments[r] \in Conversation
           /\ \A r \in DOMAIN serviceRequest : serviceRequest[r] \in ServiceRequest
  <1>1. serviceRequest \in Seq(ServiceRequest) /\ comments \in Seq(Conversation)
        /\ Len(comments) = Len(serviceRequest)
    BY DEF MailTypeOK
  <1> HIDE DEF ServiceRequest, Conversation
  <1>2. QED
    BY <1>1

\* What is said is added to what was said under its id.
LEMMA SayAdds ==
    ASSUME MailTypeOK, NEW r \in DOMAIN comments, NEW id \in Mail \cup ReplyKey \cup {None},
           NEW author \in Customer \cup {None}, Say(r, id, author)
    PROVE  /\ comments' \in Seq(Conversation) /\ Len(comments') = Len(comments)
           /\ DOMAIN comments' = DOMAIN comments
           /\ \A x : \A s \in DOMAIN comments :
                SaidAt(s, x)' = IF s = r /\ x = id THEN SaidAt(s, x) \cup {Len(comments[r]) + 1} ELSE SaidAt(s, x)
  <1> DEFINE said == [id |-> id, author |-> author]
             old == comments[r]
             new == Append(old, said)
  <1>1. said \in PortalComment /\ said.id = id
    BY DEF PortalComment
  <1> HIDE DEF said
  <1>2. old \in Seq(PortalComment)
    BY CommentsIndexed DEF Conversation
  <1>3. /\ new \in Seq(PortalComment) /\ Len(old) \in Nat
        /\ DOMAIN old = 1 .. Len(old) /\ DOMAIN new = 1 .. Len(old) + 1
        /\ \A i \in 1 .. Len(old) : new[i] = old[i]
        /\ new[Len(old) + 1] = said
    <2> HIDE DEF PortalComment
    <2>1. QED
      BY <1>1, <1>2, AppendProperties
  <1>4. comments' = [comments EXCEPT ![r] = new]
    BY DEF Say, said
  <1>5. ASSUME NEW S, NEW e \in S, NEW f \in Seq(S), NEW i \in DOMAIN f, NEW g, g = [f EXCEPT ![i] = e]
        PROVE  g \in Seq(S) /\ Len(g) = Len(f) /\ DOMAIN g = DOMAIN f /\ \A j \in DOMAIN f : g[j] = IF j = i THEN e ELSE f[j]
    BY <1>5
  <1>6. /\ comments' \in Seq(Conversation) /\ Len(comments') = Len(comments) /\ DOMAIN comments' = DOMAIN comments
        /\ \A j \in DOMAIN comments : comments'[j] = IF j = r THEN new ELSE comments[j]
    <2>1. new \in Conversation /\ comments \in Seq(Conversation)
      BY <1>3 DEF Conversation, MailTypeOK
    <2> HIDE DEF new, Conversation
    <2>2. QED
      BY <1>4, <1>5, <2>1
  <1>7. ASSUME NEW s \in DOMAIN comments, NEW x
        PROVE  SaidAt(s, x)' = IF s = r /\ x = id THEN SaidAt(s, x) \cup {Len(old) + 1} ELSE SaidAt(s, x)
    <2>1. CASE s # r
      BY <1>6, <2>1 DEF SaidAt
    <2>2. CASE s = r
      <3>1. SaidAt(s, x)' = {i \in DOMAIN new : new[i].id = x}
        BY <1>6, <2>2 DEF SaidAt
      <3>2. SaidAt(s, x) = {i \in DOMAIN old : old[i].id = x}
        BY <2>2 DEF SaidAt
      <3> HIDE DEF new, old
      <3>3. QED
        BY <1>1, <1>3, <2>2, <3>1, <3>2
    <2>3. QED
      BY <2>1, <2>2
  <1>8. QED
    BY <1>6, <1>7

LEMMA NotifyKeeps ==
    ASSUME Outgoing, NEW r \in DOMAIN serviceRequest', DOMAIN serviceRequest \subseteq DOMAIN serviceRequest',
           Notify(r)
    PROVE  Outgoing'
  BY DEF Outgoing, Notify

\* Something is said that is no message, and under no key that was used.
LEMMA SayKeeps ==
    ASSUME MailInv, NEW r \in DOMAIN comments, NEW id \in ReplyKey \cup {None},
           NEW author \in Customer \cup {None}, Say(r, id, author),
           id \in ReplyKey => ~Said(r, id), UNCHANGED <<posted, inbound, serviceRequest>>, Notify(r),
           NEW h \in Handler, at' = [at EXCEPT ![h] = Idle]
    PROVE  MailInv'
  <1>1. MailTypeOK /\ RepliedOnce
    BY DEF MailInv
  <1>2. /\ comments' \in Seq(Conversation) /\ Len(comments') = Len(comments)
        /\ DOMAIN comments' = DOMAIN comments
        /\ \A x : \A s \in DOMAIN comments :
             SaidAt(s, x)' = IF s = r /\ x = id THEN SaidAt(s, x) \cup {Len(comments[r]) + 1} ELSE SaidAt(s, x)
    BY <1>1, SayAdds
  <1>3. ASSUME NEW m \in Mail PROVE Became(m)' = Became(m) /\ Answering(m)' = Answering(m)
    <2>1. m # id
      BY MailAssumption
    <2>2. DOMAIN comments' = DOMAIN comments /\ \A s \in DOMAIN comments : SaidAt(s, m)' = SaidAt(s, m)
      BY <1>2, <2>1
    <2>3. Answering(m)' = Answering(m)
      BY <2>2, Zenon DEF Answering
    <2>4. QED
      BY <2>3 DEF Became
  <1>4. RepliedOnce'
    <2> SUFFICES ASSUME NEW s \in DOMAIN comments, NEW k \in ReplyKey
                 PROVE  SaidAt(s, k)' = {} \/ \E i : SaidAt(s, k)' = {i}
      BY <1>2 DEF RepliedOnce
    <2>1. SaidAt(s, k) = {} \/ \E i : SaidAt(s, k) = {i}
      BY <1>1 DEF RepliedOnce
    <2>2. CASE s = r /\ k = id
      <3>1. SaidAt(s, k) = {}
        BY <2>2 DEF Said, SaidAt
      <3>2. SaidAt(s, k)' = {Len(comments[r]) + 1}
        BY <1>2, <2>2, <3>1
      <3>3. QED
        BY <3>2
    <2>3. CASE ~(s = r /\ k = id)
      <3>1. SaidAt(s, k)' = SaidAt(s, k)
        BY <1>2, <2>3
      <3>2. QED
        BY <2>1, <3>1
    <2>4. QED
      BY <2>2, <2>3
  <1>5. Outgoing'
    BY <1>1, CommentsIndexed, NotifyKeeps DEF MailInv
  <1>6. QED
    BY <1>1, <1>2, <1>3, <1>4, <1>5, MailAside DEF MailTypeOK

\* A message is recorded: what counts is what this makes of it.
LEMMA RecordKeeps ==
    ASSUME MailInv, NEW m \in Mail, inbound[m] = None, NEW row \in InboundMessage,
           inbound' = [inbound EXCEPT ![m] = row], UNCHANGED posted,
           serviceRequest' \in Seq(ServiceRequest), DOMAIN serviceRequest \subseteq DOMAIN serviceRequest',
           comments' \in Seq(Conversation), Len(comments') = Len(serviceRequest'),
           \A n \in Mail \ {m} : Became(n)' = Became(n) /\ Answering(n)' = Answering(n),
           Settled(m)', Threaded(m)', RepliedOnce', Outgoing',
           NEW h \in Handler, at' = [at EXCEPT ![h] = Idle]
    PROVE  MailInv'
  <1>1. at' = [g \in Handler |-> at'[g]] /\ \A g \in Handler : MailTask(g)'
    BY MailTasksStay
  <1>2. /\ inbound' \in [Mail -> InboundMessage \cup {None}]
        /\ \A n \in Mail : n # m => inbound'[n] = inbound[n]
    BY DEF MailInv, MailTypeOK
  <1>3. ASSUME NEW n \in Mail \ {m} PROVE Settled(n)' /\ Threaded(n)'
    <2>1. Settled(n) /\ Threaded(n)
      BY DEF MailInv
    <2>2. Settled(n)'
      BY <1>2, <2>1 DEF Settled, Accepted
    <2>3. Threaded(n)'
      <3>1. SUFFICES ASSUME Accepted(n), posted[n] # None PROVE Threaded(n)'
        BY <1>2, <2>1 DEF Threaded, Accepted
      <3>2. posted[n] \in Letter
        BY <3>1 DEF MailInv, MailTypeOK
      <3>3. posted[n].answers \in Thread
        BY <3>2 DEF Letter
      <3>4. posted[n].answers.kind = "mail" => posted[n].answers.of \in Mail
        BY <3>3 DEF Thread, NoThread
      <3>5. posted[n].answers.kind = "mail" => inbound'[posted[n].answers.of] = inbound[posted[n].answers.of]
        BY <1>2, <2>1, <3>1, <3>4 DEF Threaded
      <3>6. QED
        BY <1>2, <2>1, <3>1, <3>5 DEF Threaded, Accepted
    <2>4. QED
      BY <2>2, <2>3
  <1>4. QED
    BY <1>1, <1>2, <1>3 DEF MailInv, MailTypeOK

\* What a message that is not refused goes on with.
LEMMA AnsweredIsThread ==
    ASSUME MailInv, NEW m \in Mail, posted[m] # None, Continued(m) # None
    PROVE  /\ Continued(m) \in DOMAIN serviceRequest
           /\ posted[m].answers.kind = "mail" =>
                /\ inbound[posted[m].answers.of] # None
                /\ inbound[posted[m].answers.of].request = Continued(m)
           /\ posted[m].answers.kind = "sent" => posted[m].answers.of = Continued(m)
  <1>1. Continued(m) = Answered(m)
    BY DEF Continued
  <1>2. posted[m] \in Letter
    BY DEF MailInv, MailTypeOK
  <1>3. posted[m].answers \in Thread
    BY <1>2 DEF Letter
  <1>4. CASE posted[m].answers.kind = "mail" /\ inbound[posted[m].answers.of] # None
    <2>1. PICK o : o = posted[m].answers.of
      OBVIOUS
    <2>2. o \in Mail
      BY <1>3, <1>4, <2>1 DEF Thread, NoThread
    <2>3. Continued(m) = inbound[o].request /\ inbound[o] # None
      BY <1>1, <1>4, <2>1 DEF Answered
    <2>4. Settled(o) /\ Accepted(o)
      BY <2>2, <2>3 DEF MailInv, Settled
    <2>5. inbound[o].request \in DOMAIN serviceRequest
      <3>1. CASE Became(o) = {inbound[o].request}
        BY <3>1 DEF Became
      <3>2. CASE \E i : Answering(o) = {<<inbound[o].request, i>>}
        <4>1. PICK i : <<inbound[o].request, i>> \in Answering(o)
          BY <3>2
        <4>2. PICK s \in DOMAIN comments : <<inbound[o].request, i>> \in {s} \X SaidAt(s, o)
          BY <4>1 DEF Answering
        <4>3. inbound[o].request \in DOMAIN comments
          BY <4>2
        <4>4. QED
          BY <4>3, CommentsIndexed DEF MailInv
      <3>3. QED
        BY <2>4, <3>1, <3>2 DEF Settled
    <2>6. QED
      BY <1>4, <2>1, <2>3, <2>5
  <1>5. CASE posted[m].answers.kind = "sent" /\ <<posted[m].sender, posted[m].answers.of>> \in outbox
    <2>1. Continued(m) = posted[m].answers.of
      BY <1>1, <1>5 DEF Answered
    <2>2. posted[m].answers.of \in DOMAIN serviceRequest
      BY <1>5 DEF MailInv, Outgoing
    <2>3. QED
      BY <1>5, <2>1, <2>2
  <1>6. QED
    BY <1>1, <1>4, <1>5 DEF Answered

-----------------------------------------------------------------------------
(* Mail comes in.                                                          *)

LEMMA BeginDeliveryKeeps ==
    ASSUME NEW h \in Handler, NEW m \in Mail PROVE MailInv /\ BeginDelivery(h, m) => MailInv'
  <1> SUFFICES ASSUME MailInv, BeginDelivery(h, m) PROVE MailInv'
    OBVIOUS
  <1>1. /\ posted' \in [Mail -> Letter \cup {None}] /\ posted'[m] # None
        /\ \A n \in Mail : posted[n] # None => posted'[n] = posted[n]
    <2>1. posted \in [Mail -> Letter \cup {None}]
      BY DEF MailInv, MailTypeOK
    <2>2. CASE posted[m] # None
      BY <2>1, <2>2 DEF BeginDelivery, Written
    <2>3. CASE posted[m] = None
      <3>1. PICK letter \in [sender : Customer, answers : Threads, safe : BOOLEAN] :
              posted' = [posted EXCEPT ![m] = letter]
        BY <2>3 DEF BeginDelivery, Written
      <3>2. DOMAIN serviceRequest \subseteq Nat
        BY CommentsIndexed DEF MailInv
      <3>3. Threads \subseteq Thread
        BY <3>2 DEF Threads, Thread
      <3>4. letter \in Letter
        BY <3>3 DEF Letter
      <3>5. letter # None
        BY <3>4, MailAssumption
      <3>6. QED
        BY <2>1, <2>3, <3>1, <3>4, <3>5
    <2>4. QED
      BY <2>2, <2>3
  <1>2. PICK form : form = mailbox.form
    OBVIOUS
  <1>3. ASSUME NEW t, t = [op |-> "mail", mail |-> m, form |-> form] PROVE MailInv'
    <2>1. at' = [at EXCEPT ![h] = t] /\ UNCHANGED <<talk, inbound>>
      BY <1>2, <1>3 DEF BeginDelivery, Enter
    <2>2. at'[h] = t
      BY <2>1 DEF MailInv, MailTypeOK
    <2>3. t.op = "mail" /\ t.mail = m
      BY <1>3
    <2>4. MailTask(h)'
      BY <1>1, <2>2, <2>3 DEF MailTask, Busy
    <2>5. QED
      BY <1>1, <2>1, <2>4, MailTaskChanged
  <1>4. QED
    BY <1>3

LEMMA LockMailboxKeeps == ASSUME NEW h \in Handler PROVE MailInv /\ LockMailbox(h) => MailInv'
  <1> SUFFICES ASSUME MailInv, LockMailbox(h) PROVE MailInv'
    OBVIOUS
  <1>1. at[h].mail \in Mail /\ posted[at[h].mail] # None
    BY DEF MailInv, MailTask, LockMailbox, Busy
  <1>2. PICK m, form, known :
          m = at[h].mail /\ form = at[h].form /\ known = Known(posted[at[h].mail].sender)
    OBVIOUS
  <1>3. ASSUME NEW t, t = [op |-> "mail locked", mail |-> m, form |-> form, known |-> known] PROVE MailInv'
    <2>1. at' = [at EXCEPT ![h] = t] /\ UNCHANGED mailVars
      BY <1>2, <1>3 DEF LockMailbox, Proceed
    <2>2. at'[h] = t
      BY <2>1 DEF MailInv, MailTypeOK
    <2>3. t.op = "mail locked" /\ t.mail = m
      BY <1>3
    <2>4. MailTask(h)'
      BY <1>1, <1>2, <2>1, <2>2, <2>3 DEF MailTask, Busy, mailVars, letters
    <2>5. UNCHANGED <<talk, inbound, posted>>
      BY <2>1 DEF mailVars, letters
    <2>6. QED
      BY <2>1, <2>4, <2>5, MailTaskChanged DEF MailInv, MailTypeOK
  <1>4. QED
    BY <1>3

\* The message that a handler has under the lock, and what is known of it.
LEMMA UnderTheLock ==
    ASSUME MailInv, NEW h \in Handler, Busy(h, "mail locked"), NEW m, m = at[h].mail, inbound[m] = None
    PROVE  /\ m \in Mail /\ posted[m] \in Letter /\ posted[m] # None
           /\ Became(m) = {} /\ Answering(m) = {}
  <1>1. m \in Mail /\ posted[m] # None
    BY DEF MailInv, MailTask, Busy
  <1>2. Settled(m) /\ ~Accepted(m)
    BY <1>1 DEF MailInv, Accepted
  <1>3. QED
    BY <1>1, <1>2 DEF MailInv, MailTypeOK, Settled

LEMMA QuarantineKeeps == ASSUME NEW h \in Handler PROVE MailInv /\ Quarantine(h) => MailInv'
  <1> SUFFICES ASSUME MailInv, Quarantine(h) PROVE MailInv'
    OBVIOUS
  <1>1. PICK m : m = at[h].mail
    OBVIOUS
  <1>2. Busy(h, "mail locked") /\ inbound[m] = None
    BY <1>1 DEF Quarantine, Record
  <1>3. /\ m \in Mail /\ posted[m] \in Letter /\ posted[m] # None
        /\ Became(m) = {} /\ Answering(m) = {}
    BY <1>1, <1>2, UnderTheLock
  <1>4. ASSUME NEW row, row = [status |-> "QUARANTINED", request |-> None] PROVE MailInv'
    <2>1. row \in InboundMessage /\ row.status = "QUARANTINED" /\ row.request = None
      BY <1>4 DEF InboundMessage
    <2>2. inbound' = [inbound EXCEPT ![m] = row]
      BY <1>1, <1>4 DEF Quarantine, Record
    <2>3. UNCHANGED <<posted, talk>> /\ at' = [at EXCEPT ![h] = Idle]
      BY DEF Quarantine, Leave, Proceed
    <2>4. inbound'[m] = row
      BY <1>3, <2>2 DEF MailInv, MailTypeOK
    <2>5. \A n : Became(n)' = Became(n) /\ Answering(n)' = Answering(n)
      BY <2>3 DEF Became, Answering, SaidAt, talk
    <2>6. Settled(m)' /\ Threaded(m)'
      BY <1>3, <2>1, <2>4, <2>5 DEF Settled, Threaded, Accepted
    <2>7. RepliedOnce'
      <3>1. RepliedOnce /\ \A r, k : SaidAt(r, k)' = SaidAt(r, k)
        BY <2>3 DEF MailInv, SaidAt, talk
      <3>2. QED
        BY <2>3, <3>1 DEF RepliedOnce, talk
    <2>8. Outgoing'
      BY <2>3 DEF MailInv, Outgoing, talk
    <2>9. QED
      BY <1>2, <1>3, <2>1, <2>2, <2>3, <2>5, <2>6, <2>7, <2>8, RecordKeeps DEF MailInv, MailTypeOK, talk
  <1>5. QED
    BY <1>4

LEMMA AcceptReplyKeeps == ASSUME NEW h \in Handler PROVE MailInv /\ AcceptReply(h) => MailInv'
  <1> SUFFICES ASSUME MailInv, AcceptReply(h) PROVE MailInv'
    OBVIOUS
  <1>1. PICK m : m = at[h].mail
    OBVIOUS
  <1>2. PICK r : r = Continued(m)
    OBVIOUS
  <1>3. Busy(h, "mail locked") /\ inbound[m] = None /\ r # None
    BY <1>1, <1>2 DEF AcceptReply, Record
  <1>4. /\ m \in Mail /\ posted[m] \in Letter /\ posted[m] # None
        /\ Became(m) = {} /\ Answering(m) = {}
    BY <1>1, <1>3, UnderTheLock
  <1>5. /\ r \in DOMAIN serviceRequest
        /\ posted[m].answers.kind = "mail" =>
             /\ inbound[posted[m].answers.of] # None
             /\ inbound[posted[m].answers.of].request = r
        /\ posted[m].answers.kind = "sent" => posted[m].answers.of = r
    BY <1>2, <1>3, <1>4, AnsweredIsThread
  <1>6. MailTypeOK /\ RepliedOnce /\ Outgoing
    BY DEF MailInv
  <1>7. r \in DOMAIN comments /\ r \in Nat
    BY <1>5, <1>6, CommentsIndexed
  <1>8. /\ Say(r, m, posted[m].sender) /\ UNCHANGED <<serviceRequest, posted>> /\ Notify(r)
        /\ at' = [at EXCEPT ![h] = Idle]
        /\ inbound' = [inbound EXCEPT ![m] = [status |-> "ACCEPTED", request |-> r]]
    BY <1>1, <1>2 DEF AcceptReply, Record, Leave, Proceed
  <1>9. posted[m].sender \in Customer \cup {None}
    BY <1>4 DEF Letter
  <1>10. /\ comments' \in Seq(Conversation) /\ Len(comments') = Len(comments)
         /\ DOMAIN comments' = DOMAIN comments
         /\ \A x : \A s \in DOMAIN comments :
              SaidAt(s, x)' = IF s = r /\ x = m THEN SaidAt(s, x) \cup {Len(comments[r]) + 1} ELSE SaidAt(s, x)
    BY <1>4, <1>6, <1>7, <1>8, <1>9, SayAdds
  <1>11. \A n \in Mail \ {m} : Became(n)' = Became(n) /\ Answering(n)' = Answering(n)
    <2> SUFFICES ASSUME NEW n \in Mail \ {m}
                 PROVE  Became(n)' = Became(n) /\ Answering(n)' = Answering(n)
      OBVIOUS
    <2>1. DOMAIN comments' = DOMAIN comments /\ \A s \in DOMAIN comments : SaidAt(s, n)' = SaidAt(s, n)
      BY <1>10
    <2>2. Answering(n)' = Answering(n)
      BY <2>1, Zenon DEF Answering
    <2>3. QED
      BY <1>8, <2>2 DEF Became
  <1>12. Became(m)' = {} /\ \E i : Answering(m)' = {<<r, i>>}
    <2>1. \A s \in DOMAIN comments : SaidAt(s, m) = {}
      <3> SUFFICES ASSUME NEW s \in DOMAIN comments, NEW i \in SaidAt(s, m) PROVE FALSE
        OBVIOUS
      <3>1. <<s, i>> \in {s} \X SaidAt(s, m)
        OBVIOUS
      <3>2. <<s, i>> \in Answering(m)
        BY <3>1 DEF Answering
      <3>3. QED
        BY <1>4, <3>2
    <2>2. PICK i : i = Len(comments[r]) + 1
      OBVIOUS
    <2>3. \A s \in DOMAIN comments : SaidAt(s, m)' = IF s = r THEN {i} ELSE {}
      BY <1>10, <2>1, <2>2
    <2>4. Answering(m)' = UNION {{s} \X SaidAt(s, m)' : s \in DOMAIN comments}
      <3>1. DOMAIN comments' = DOMAIN comments
        BY <1>10
      <3>2. QED
        BY <3>1, Zenon DEF Answering
    <2>5. Answering(m)' = {<<r, i>>}
      <3>1. ASSUME NEW p \in Answering(m)' PROVE p = <<r, i>>
        <4>1. PICK s \in DOMAIN comments : p \in {s} \X SaidAt(s, m)'
          BY <2>4, <3>1
        <4>2. s = r /\ SaidAt(s, m)' = {i}
          BY <2>3, <4>1
        <4>3. QED
          BY <4>1, <4>2
      <3>2. <<r, i>> \in {r} \X SaidAt(r, m)'
        BY <1>7, <2>3
      <3>3. <<r, i>> \in Answering(m)'
        BY <1>7, <2>4, <3>2
      <3>4. QED
        BY <3>1, <3>3
    <2>6. QED
      BY <1>4, <1>8, <2>5 DEF Became
  <1>13. RepliedOnce'
    <2>1. \A s \in DOMAIN comments, k \in ReplyKey : SaidAt(s, k)' = SaidAt(s, k)
      BY <1>4, <1>10, MailAssumption
    <2>2. SUFFICES ASSUME NEW s \in DOMAIN comments, NEW k \in ReplyKey
                   PROVE  SaidAt(s, k)' = {} \/ \E i : SaidAt(s, k)' = {i}
      BY <1>10 DEF RepliedOnce
    <2>3. SaidAt(s, k) = {} \/ \E i : SaidAt(s, k) = {i}
      BY <1>6 DEF RepliedOnce
    <2>4. QED
      BY <2>1, <2>3
  <1>14. Outgoing'
    BY <1>5, <1>6, <1>8, NotifyKeeps
  <1>15. ASSUME NEW row, row = [status |-> "ACCEPTED", request |-> r] PROVE MailInv'
    <2>1. row \in InboundMessage /\ row.status = "ACCEPTED" /\ row.request = r
      BY <1>7, <1>15 DEF InboundMessage
    <2>2. row # None
      BY <2>1, MailAssumption
    <2>3. inbound' = [inbound EXCEPT ![m] = row]
      BY <1>8, <1>15
    <2>4. inbound'[m] = row /\ \A n \in Mail : inbound[n] # None => inbound'[n] = inbound[n]
      BY <1>3, <1>4, <2>3 DEF MailInv, MailTypeOK
    <2>5. Settled(m)'
      BY <1>12, <2>1, <2>2, <2>4 DEF Settled, Accepted
    <2>6. posted[m].answers.kind = "mail" => posted[m].answers.of \in Mail
      <3>1. posted[m].answers \in Thread
        BY <1>4 DEF Letter
      <3>2. QED
        BY <3>1 DEF Thread, NoThread
    <2>7. Threaded(m)'
      BY <1>4, <1>5, <1>8, <2>1, <2>4, <2>6 DEF Threaded, Accepted
    <2>8. QED
      BY <1>3, <1>4, <1>6, <1>8, <1>10, <1>11, <1>13, <1>14, <2>1, <2>3, <2>5, <2>7, RecordKeeps DEF MailTypeOK
  <1>16. QED
    BY <1>15

\* A request is opened: nothing is said in it yet.
LEMMA OpenAdds ==
    ASSUME MailInv, NEW new \in ServiceRequest, Open(new)
    PROVE  /\ serviceRequest' \in Seq(ServiceRequest)
           /\ comments' \in Seq(Conversation) /\ Len(comments') = Len(serviceRequest')
           /\ Len(serviceRequest) + 1 \in DOMAIN serviceRequest' /\ Len(serviceRequest) \in Nat
           /\ DOMAIN serviceRequest \subseteq DOMAIN serviceRequest'
           /\ \A m \in Mail : Answering(m)' = Answering(m)
           /\ \A m : Became(m)' = IF m = new.origin THEN Became(m) \cup {Len(serviceRequest) + 1} ELSE Became(m)
           /\ RepliedOnce'
  <1>0. PICK n : n = Len(serviceRequest)
    OBVIOUS
  <1>1. /\ serviceRequest \in Seq(ServiceRequest) /\ comments \in Seq(Conversation) /\ Len(comments) = n
        /\ serviceRequest' = Append(serviceRequest, new) /\ comments' = Append(comments, <<>>)
    BY <1>0 DEF MailInv, MailTypeOK, Open
  <1>2. <<>> \in Conversation /\ DOMAIN <<>> = {}
    BY DEF Conversation
  <1>3. /\ serviceRequest' \in Seq(ServiceRequest) /\ n \in Nat
        /\ DOMAIN serviceRequest = 1 .. n /\ DOMAIN serviceRequest' = 1 .. n + 1
        /\ \A r \in 1 .. n : serviceRequest'[r] = serviceRequest[r]
        /\ serviceRequest'[n + 1] = new /\ Len(serviceRequest') = n + 1
    <2> HIDE DEF ServiceRequest
    <2>1. QED
      BY <1>0, <1>1, AppendProperties
  <1>4. /\ comments' \in Seq(Conversation) /\ Len(comments') = n + 1
        /\ DOMAIN comments = 1 .. n /\ DOMAIN comments' = 1 .. n + 1
        /\ \A r \in 1 .. n : comments'[r] = comments[r]
        /\ comments'[n + 1] = <<>>
    <2> HIDE DEF Conversation
    <2>1. QED
      BY <1>1, <1>2, AppendProperties
  <1>5. \A x : SaidAt(n + 1, x)' = {} /\ \A r \in 1 .. n : SaidAt(r, x)' = SaidAt(r, x)
    BY <1>2, <1>4 DEF SaidAt
  <1>6. ASSUME NEW m \in Mail PROVE Answering(m)' = Answering(m)
    <2>1. ASSUME NEW p \in Answering(m) PROVE p \in Answering(m)'
      <3>1. PICK r \in DOMAIN comments : p \in {r} \X SaidAt(r, m)
        BY <2>1 DEF Answering
      <3>2. r \in DOMAIN comments' /\ SaidAt(r, m)' = SaidAt(r, m)
        BY <1>3, <1>4, <1>5
      <3>3. QED
        BY <3>1, <3>2 DEF Answering
    <2>2. ASSUME NEW p \in Answering(m)' PROVE p \in Answering(m)
      <3>1. PICK r \in DOMAIN comments' : p \in {r} \X SaidAt(r, m)'
        BY <2>2 DEF Answering
      <3>2. SaidAt(r, m)' # {}
        BY <3>1
      <3>3. r \in DOMAIN comments /\ SaidAt(r, m)' = SaidAt(r, m)
        BY <1>3, <1>4, <1>5, <3>2
      <3>4. QED
        BY <3>1, <3>3 DEF Answering
    <2>3. QED
      BY <2>1, <2>2
  <1>7. ASSUME NEW m PROVE Became(m)' = IF m = new.origin THEN Became(m) \cup {n + 1} ELSE Became(m)
    BY <1>3 DEF Became
  <1>8. RepliedOnce'
    <2> SUFFICES ASSUME NEW r \in DOMAIN comments', NEW k \in ReplyKey
                 PROVE  SaidAt(r, k)' = {} \/ \E i : SaidAt(r, k)' = {i}
      BY DEF RepliedOnce
    <2>1. r \in DOMAIN comments \/ r = n + 1
      BY <1>3, <1>4
    <2>2. CASE r \in DOMAIN comments
      <3>1. SaidAt(r, k) = {} \/ \E i : SaidAt(r, k) = {i}
        BY <2>2 DEF MailInv, RepliedOnce
      <3>2. SaidAt(r, k)' = SaidAt(r, k)
        BY <1>4, <1>5, <2>2
      <3>3. QED
        BY <3>1, <3>2
    <2>3. CASE r = n + 1
      <3>1. SaidAt(r, k)' = {}
        BY <1>5, <2>3
      <3>2. QED
        BY <3>1
    <2>4. QED
      BY <2>1, <2>2, <2>3
  <1>9. QED
    BY <1>0, <1>3, <1>4, <1>6, <1>7, <1>8

LEMMA AcceptRequestKeeps == ASSUME NEW h \in Handler PROVE MailInv /\ AcceptRequest(h) => MailInv'
  <1> SUFFICES ASSUME MailInv, AcceptRequest(h) PROVE MailInv'
    OBVIOUS
  <1>1. PICK m, sender, r : m = at[h].mail /\ sender = posted[m].sender /\ r = Len(serviceRequest) + 1
    OBVIOUS
  <1>2. Busy(h, "mail locked") /\ inbound[m] = None /\ Continued(m) = None
    BY <1>1 DEF AcceptRequest, Record
  <1>3. /\ m \in Mail /\ posted[m] \in Letter /\ posted[m] # None
        /\ Became(m) = {} /\ Answering(m) = {}
    BY <1>1, <1>2, UnderTheLock
  <1>4. posted[m].answers = NoThread
    BY <1>1, <1>2 DEF AcceptRequest, Refused
  <1>5. posted[m].answers.kind = "none"
    BY <1>4 DEF NoThread
  <1>6. sender \in Customer
    BY <1>1, <1>3 DEF Letter
  <1>7. ASSUME NEW new, NEW row,
               new = [reporter |-> sender, sharing |-> "PRIVATE", ofOrganization |-> FALSE,
                      participants |-> {}, shown |-> TRUE, origin |-> m],
               row = [status |-> "ACCEPTED", request |-> r]
        PROVE  MailInv'
    <2>1. new \in ServiceRequest /\ new.origin = m
      BY <1>3, <1>6, <1>7 DEF ServiceRequest, Sharing
    <2>2. /\ Open(new) /\ Notify(r) /\ UNCHANGED posted /\ at' = [at EXCEPT ![h] = Idle]
          /\ inbound' = [inbound EXCEPT ![m] = row]
      BY <1>1, <1>7 DEF AcceptRequest, Record, Leave, Proceed
    <2>3. /\ serviceRequest' \in Seq(ServiceRequest)
          /\ comments' \in Seq(Conversation) /\ Len(comments') = Len(serviceRequest')
          /\ r \in DOMAIN serviceRequest' /\ Len(serviceRequest) \in Nat
          /\ DOMAIN serviceRequest \subseteq DOMAIN serviceRequest'
          /\ \A n \in Mail : Answering(n)' = Answering(n)
          /\ \A n : Became(n)' = IF n = m THEN Became(n) \cup {r} ELSE Became(n)
          /\ RepliedOnce'
      BY <1>1, <2>1, <2>2, OpenAdds
    <2>4. r \in Nat
      BY <1>1, <2>3
    <2>5. row \in InboundMessage /\ row.status = "ACCEPTED" /\ row.request = r
      BY <1>7, <2>4 DEF InboundMessage
    <2>6. row # None
      BY <2>5, MailAssumption
    <2>7. inbound'[m] = row
      BY <1>3, <2>2 DEF MailInv, MailTypeOK
    <2>8. Became(m)' = {r} /\ Answering(m)' = {}
      BY <1>3, <2>3
    <2>9. Settled(m)'
      BY <2>5, <2>6, <2>7, <2>8 DEF Settled, Accepted
    <2>10. Threaded(m)'
      BY <1>3, <1>5, <2>2 DEF Threaded
    <2>11. Outgoing'
      BY <2>2, <2>3, NotifyKeeps DEF MailInv
    <2>12. QED
      BY <1>2, <1>3, <2>2, <2>3, <2>5, <2>9, <2>10, <2>11, RecordKeeps
  <1>8. QED
    BY <1>7

-----------------------------------------------------------------------------
(* The portal, the agents and the administrators.                          *)

LEMMA SubmitPrivatelyKeeps == ASSUME NEW c \in Customer PROVE MailInv /\ SubmitPrivately(c) => MailInv'
  <1> SUFFICES ASSUME MailInv, SubmitPrivately(c) PROVE MailInv'
    OBVIOUS
  <1>1. PICK sharing \in Sharing, others \in SUBSET {d \in Customer : Known(d) /\ InProject(d) /\ d # c} :
          /\ sharing = "ORGANIZATION" => c \in member
          /\ Open([reporter |-> c, sharing |-> sharing, ofOrganization |-> sharing = "ORGANIZATION",
                   participants |-> others, shown |-> TRUE, origin |-> None])
    BY DEF SubmitPrivately
  <1>2. PICK o \in BOOLEAN : o = (sharing = "ORGANIZATION")
    OBVIOUS
  <1>3. ASSUME NEW new, new = [reporter |-> c, sharing |-> sharing, ofOrganization |-> o,
                               participants |-> others, shown |-> TRUE, origin |-> None]
        PROVE  MailInv'
    <2>1. new \in ServiceRequest /\ new.origin = None
      BY <1>3 DEF ServiceRequest
    <2>2. Open(new)
      BY <1>1, <1>2, <1>3
    <2>3. UNCHANGED <<posted, inbound, outbox, at>>
      BY DEF SubmitPrivately, InOneStep, letters
    <2>4. /\ serviceRequest' \in Seq(ServiceRequest)
          /\ comments' \in Seq(Conversation) /\ Len(comments') = Len(serviceRequest')
          /\ DOMAIN serviceRequest \subseteq DOMAIN serviceRequest'
          /\ \A n \in Mail : Answering(n)' = Answering(n)
          /\ \A n : n # None => Became(n)' = Became(n)
          /\ RepliedOnce'
      BY <2>1, <2>2, OpenAdds
    <2>5. \A n \in Mail : n # None
      BY MailAssumption
    <2>6. Outgoing'
      BY <2>3, <2>4 DEF MailInv, Outgoing
    <2>7. QED
      BY <2>3, <2>4, <2>5, <2>6, MailAside
  <1>4. QED
    BY <1>3

LEMMA BeginCommentKeeps ==
    ASSUME NEW h \in Handler, NEW c \in Customer, NEW r \in DOMAIN serviceRequest
    PROVE  MailInv /\ BeginComment(h, c, r) => MailInv'
  <1> SUFFICES ASSUME MailInv, BeginComment(h, c, r) PROVE MailInv'
    OBVIOUS
  <1>1. ASSUME NEW t, t = [op |-> "comment", customer |-> c, request |-> r] PROVE MailInv'
    <2>1. at' = [at EXCEPT ![h] = t] /\ UNCHANGED <<talk, inbound, posted>>
      BY <1>1 DEF BeginComment, Enter, mailVars, letters
    <2>2. at'[h] = t
      BY <2>1 DEF MailInv, MailTypeOK
    <2>3. t.op = "comment" /\ t.customer = c /\ t.request = r
      BY <1>1
    <2>4. MailTask(h)'
      BY <2>1, <2>2, <2>3 DEF MailTask, Busy, talk
    <2>5. QED
      BY <2>1, <2>4, MailTaskChanged DEF MailInv, MailTypeOK
  <1>2. QED
    BY <1>1

LEMMA CommentKeeps == ASSUME NEW h \in Handler PROVE MailInv /\ Comment(h) => MailInv'
  <1> SUFFICES ASSUME MailInv, Comment(h) PROVE MailInv'
    OBVIOUS
  <1>1. PICK r, author : r = at[h].request /\ author = at[h].customer
    OBVIOUS
  <1>2. r \in DOMAIN comments /\ author \in Customer
    BY <1>1, CommentsIndexed DEF MailInv, MailTask, Comment
  <1>3. /\ Say(r, None, author) /\ Notify(r) /\ UNCHANGED <<posted, inbound, serviceRequest>>
        /\ at' = [at EXCEPT ![h] = Idle]
    BY <1>1 DEF Comment, Leave, Proceed, letters
  <1>4. QED
    BY <1>2, <1>3, SayKeeps, MailAssumption

LEMMA BeginReplyKeeps ==
    ASSUME NEW h \in Handler, NEW r \in DOMAIN serviceRequest, NEW k \in ReplyKey
    PROVE  MailInv /\ BeginReply(h, r, k) => MailInv'
  <1> SUFFICES ASSUME MailInv, BeginReply(h, r, k) PROVE MailInv'
    OBVIOUS
  <1>1. ASSUME NEW t, t = [op |-> "reply", request |-> r, key |-> k] PROVE MailInv'
    <2>1. at' = [at EXCEPT ![h] = t] /\ UNCHANGED <<talk, inbound, posted>>
      BY <1>1 DEF BeginReply, Enter, mailVars, letters
    <2>2. at'[h] = t
      BY <2>1 DEF MailInv, MailTypeOK
    <2>3. t.op = "reply" /\ t.key = k /\ t.request = r
      BY <1>1
    <2>4. MailTask(h)'
      BY <2>1, <2>2, <2>3 DEF MailTask, Busy, talk
    <2>5. QED
      BY <2>1, <2>4, MailTaskChanged DEF MailInv, MailTypeOK
  <1>2. QED
    BY <1>1

LEMMA ReplyKeeps == ASSUME NEW h \in Handler PROVE MailInv /\ Reply(h) => MailInv'
  <1> SUFFICES ASSUME MailInv, Reply(h) PROVE MailInv'
    OBVIOUS
  <1>1. PICK r, k : r = at[h].request /\ k = at[h].key
    OBVIOUS
  <1>2. r \in DOMAIN comments /\ k \in ReplyKey
    BY <1>1, CommentsIndexed DEF MailInv, MailTask, Reply
  <1>3. UNCHANGED <<posted, inbound>> /\ at' = [at EXCEPT ![h] = Idle]
    BY DEF Reply, Leave, Proceed, letters
  <1>4. CASE Said(r, k)
    BY <1>1, <1>3, <1>4, MailUnchanged DEF Reply
  <1>5. CASE ~Said(r, k)
    <2>1. Say(r, k, None) /\ Notify(r) /\ UNCHANGED serviceRequest
      BY <1>1, <1>5 DEF Reply
    <2>2. QED
      BY <1>2, <1>3, <1>5, <2>1, SayKeeps
  <1>6. QED
    BY <1>4, <1>5

\* Requests are rewritten in place; what they came from stays.
LEMMA RequestsRewritten ==
    ASSUME MailInv, UNCHANGED <<posted, inbound, comments, outbox>>,
           serviceRequest' \in Seq(ServiceRequest), DOMAIN serviceRequest' = DOMAIN serviceRequest,
           \A r \in DOMAIN serviceRequest : serviceRequest'[r].origin = serviceRequest[r].origin,
           UNCHANGED at \/ \E h \in Handler : at' = [at EXCEPT ![h] = Idle]
    PROVE  MailInv'
  <1>1. \A m \in Mail : Became(m)' = Became(m) /\ Answering(m)' = Answering(m)
    BY DEF Became, Answering, SaidAt
  <1>2. RepliedOnce'
    <2>1. RepliedOnce /\ \A r, k : SaidAt(r, k)' = SaidAt(r, k)
      BY DEF MailInv, SaidAt
    <2>2. QED
      BY <2>1 DEF RepliedOnce
  <1>3. Len(serviceRequest') = Len(serviceRequest)
    <2>1. serviceRequest \in Seq(ServiceRequest)
      BY DEF MailInv, MailTypeOK
    <2> HIDE DEF ServiceRequest
    <2>2. QED
      BY <2>1
  <1>4. QED
    BY <1>1, <1>2, <1>3, MailAside DEF MailInv, MailTypeOK, Outgoing

LEMMA RequestReplaced ==
    ASSUME NEW S, NEW f \in Seq(S), NEW i \in DOMAIN f, NEW e \in S, NEW g, g = [f EXCEPT ![i] = e]
    PROVE  g \in Seq(S) /\ DOMAIN g = DOMAIN f /\ \A j \in DOMAIN f : g[j] = IF j = i THEN e ELSE f[j]
  OBVIOUS

LEMMA ShareKeeps ==
    ASSUME NEW c \in Customer, NEW r \in DOMAIN serviceRequest, NEW sharing \in Sharing
    PROVE  MailInv /\ Share(c, r, sharing) => MailInv'
  <1> SUFFICES ASSUME MailInv, Share(c, r, sharing) PROVE MailInv'
    OBVIOUS
  <1>1. serviceRequest \in Seq(ServiceRequest) /\ serviceRequest[r] \in ServiceRequest
    BY CommentsIndexed DEF MailInv, MailTypeOK
  <1>2. ASSUME NEW e, e = [serviceRequest[r] EXCEPT !.sharing = sharing] PROVE MailInv'
    <2>1. e \in ServiceRequest /\ e.origin = serviceRequest[r].origin
      BY <1>1, <1>2 DEF ServiceRequest
    <2>2. serviceRequest' = [serviceRequest EXCEPT ![r] = e]
      BY <1>2 DEF Share
    <2>3. /\ serviceRequest' \in Seq(ServiceRequest) /\ DOMAIN serviceRequest' = DOMAIN serviceRequest
          /\ \A s \in DOMAIN serviceRequest : serviceRequest'[s] = IF s = r THEN e ELSE serviceRequest[s]
      <3> HIDE DEF ServiceRequest
      <3>1. QED
        BY <1>1, <2>1, <2>2, RequestReplaced
    <2>4. UNCHANGED <<posted, inbound, comments, outbox, at>>
      BY DEF Share, InOneStep, letters
    <2>5. QED
      BY <2>1, <2>3, <2>4, RequestsRewritten
  <1>3. QED
    BY <1>2

LEMMA HideKeeps == ASSUME NEW r \in DOMAIN serviceRequest PROVE MailInv /\ Hide(r) => MailInv'
  <1> SUFFICES ASSUME MailInv, Hide(r) PROVE MailInv'
    OBVIOUS
  <1>1. serviceRequest \in Seq(ServiceRequest) /\ serviceRequest[r] \in ServiceRequest
    BY CommentsIndexed DEF MailInv, MailTypeOK
  <1>2. PICK shown \in BOOLEAN : shown = ~serviceRequest[r].shown
    BY <1>1 DEF ServiceRequest
  <1>3. ASSUME NEW e, e = [serviceRequest[r] EXCEPT !.shown = shown] PROVE MailInv'
    <2>1. e \in ServiceRequest /\ e.origin = serviceRequest[r].origin
      BY <1>1, <1>3 DEF ServiceRequest
    <2>2. serviceRequest' = [serviceRequest EXCEPT ![r] = e]
      BY <1>2, <1>3 DEF Hide
    <2>3. /\ serviceRequest' \in Seq(ServiceRequest) /\ DOMAIN serviceRequest' = DOMAIN serviceRequest
          /\ \A s \in DOMAIN serviceRequest : serviceRequest'[s] = IF s = r THEN e ELSE serviceRequest[s]
      <3> HIDE DEF ServiceRequest
      <3>1. QED
        BY <1>1, <2>1, <2>2, RequestReplaced
    <2>4. UNCHANGED <<posted, inbound, comments, outbox, at>>
      BY DEF Hide, InOneStep, letters
    <2>5. QED
      BY <2>1, <2>3, <2>4, RequestsRewritten
  <1>4. QED
    BY <1>3

LEMMA BeginMergeKeeps ==
    ASSUME NEW h \in Handler, NEW source \in Customer, NEW target \in Customer
    PROVE  MailInv /\ BeginMerge(h, source, target) => MailInv'
  <1> SUFFICES ASSUME MailInv, BeginMerge(h, source, target) PROVE MailInv'
    OBVIOUS
  <1>1. PICK d, e, p :
          /\ d = direct /\ e = member
          /\ p = {r \in DOMAIN serviceRequest : source \in serviceRequest[r].participants}
    OBVIOUS
  <1>2. ASSUME NEW t, t = [op |-> "merge", source |-> source, target |-> target,
                           direct |-> d, member |-> e, participates |-> p]
        PROVE  MailInv'
    <2>1. at' = [at EXCEPT ![h] = t] /\ UNCHANGED <<talk, inbound, posted>>
      BY <1>1, <1>2 DEF BeginMerge, Enter, mailVars, letters
    <2>2. at'[h] = t
      BY <2>1 DEF MailInv, MailTypeOK
    <2>3. t.op = "merge" /\ t.source = source /\ t.target = target
      BY <1>2
    <2>4. MailTask(h)'
      BY <2>1, <2>2, <2>3 DEF MailTask, Busy, talk
    <2>5. QED
      BY <2>1, <2>4, MailTaskChanged DEF MailInv, MailTypeOK
  <1>3. QED
    BY <1>2

LEMMA SeqElements ==
    ASSUME NEW S, NEW f \in Seq(S)
    PROVE  Len(f) \in Nat /\ DOMAIN f = 1 .. Len(f) /\ \A i \in DOMAIN f : f[i] \in S
  OBVIOUS

LEMMA SeqMade ==
    ASSUME NEW S, NEW n \in Nat, NEW f, f = [i \in 1 .. n |-> f[i]], \A i \in 1 .. n : f[i] \in S
    PROVE  f \in Seq(S) /\ Len(f) = n
  OBVIOUS

\* Who wrote a comment changes, what it came with does not.
MergedComments(cs, source, target) ==
  [r \in DOMAIN cs |-> [i \in DOMAIN cs[r] |-> [cs[r][i] EXCEPT !.author = Moved(@, source, target)]]]

MergedRequests(rs, source, target, P) ==
  [r \in DOMAIN rs |-> [rs[r] EXCEPT !.reporter = Moved(@, source, target),
                                     !.participants = IF r \in P THEN @ \cup {target} ELSE @]]

LEMMA CommentsMerged ==
    ASSUME NEW cs \in Seq(Conversation), NEW source \in Customer, NEW target \in Customer
    PROVE  LET ds == MergedComments(cs, source, target)
           IN  /\ ds \in Seq(Conversation) /\ Len(ds) = Len(cs) /\ DOMAIN ds = DOMAIN cs
               /\ \A r \in DOMAIN cs : /\ DOMAIN ds[r] = DOMAIN cs[r]
                                     /\ \A i \in DOMAIN cs[r] : ds[r][i].id = cs[r][i].id
  <1> SUFFICES ASSUME NEW ds, ds = MergedComments(cs, source, target)
               PROVE  /\ ds \in Seq(Conversation) /\ Len(ds) = Len(cs) /\ DOMAIN ds = DOMAIN cs
                      /\ \A r \in DOMAIN cs : /\ DOMAIN ds[r] = DOMAIN cs[r]
                                            /\ \A i \in DOMAIN cs[r] : ds[r][i].id = cs[r][i].id
    OBVIOUS
  <1>1. Len(cs) \in Nat /\ DOMAIN cs = 1 .. Len(cs) /\ \A r \in DOMAIN cs : cs[r] \in Conversation
    <2> HIDE DEF Conversation
    <2>1. QED
      OBVIOUS
  <1>2. ASSUME NEW e \in PortalComment
        PROVE  LET f == [e EXCEPT !.author = Moved(@, source, target)]
               IN  f \in PortalComment /\ f.id = e.id
    BY <1>2 DEF PortalComment, Moved
  <1>3. ASSUME NEW r \in DOMAIN cs
        PROVE  /\ ds[r] \in Conversation /\ DOMAIN ds[r] = DOMAIN cs[r]
               /\ \A i \in DOMAIN cs[r] : ds[r][i].id = cs[r][i].id
    <2>1. PICK c : c = cs[r]
      OBVIOUS
    <2>2. c \in Seq(PortalComment)
      BY <1>1, <2>1 DEF Conversation
    <2>3. Len(c) \in Nat /\ DOMAIN c = 1 .. Len(c) /\ \A i \in DOMAIN c : c[i] \in PortalComment
      <3> HIDE DEF PortalComment
      <3>1. QED
        BY <2>2
    <2>4. ds[r] = [i \in DOMAIN c |-> [c[i] EXCEPT !.author = Moved(@, source, target)]]
      BY <2>1 DEF MergedComments
    <2>5. ASSUME NEW i \in DOMAIN c PROVE ds[r][i] \in PortalComment /\ ds[r][i].id = c[i].id
      BY <1>2, <2>3, <2>4
    <2>6. DOMAIN ds[r] = 1 .. Len(c) /\ ds[r] = [i \in 1 .. Len(c) |-> ds[r][i]]
      BY <2>3, <2>4
    <2>7. ds[r] \in Seq(PortalComment)
      <3> HIDE DEF PortalComment
      <3>1. QED
        BY <2>3, <2>5, <2>6
    <2>8. QED
      BY <2>1, <2>3, <2>5, <2>6, <2>7 DEF Conversation
  <1>4. DOMAIN ds = 1 .. Len(cs) /\ ds = [r \in 1 .. Len(cs) |-> ds[r]]
    BY <1>1 DEF MergedComments
  <1>5. ds \in Seq(Conversation) /\ Len(ds) = Len(cs)
    <2> HIDE DEF Conversation
    <2>1. QED
      BY <1>1, <1>3, <1>4
  <1>6. QED
    BY <1>1, <1>3, <1>4, <1>5

LEMMA RequestsMerged ==
    ASSUME NEW rs \in Seq(ServiceRequest), NEW source \in Customer, NEW target \in Customer, NEW P
    PROVE  LET ss == MergedRequests(rs, source, target, P)
           IN  /\ ss \in Seq(ServiceRequest) /\ DOMAIN ss = DOMAIN rs /\ Len(ss) = Len(rs)
               /\ \A r \in DOMAIN rs : ss[r].origin = rs[r].origin
  <1> SUFFICES ASSUME NEW ss, ss = MergedRequests(rs, source, target, P)
               PROVE  /\ ss \in Seq(ServiceRequest) /\ DOMAIN ss = DOMAIN rs /\ Len(ss) = Len(rs)
                      /\ \A r \in DOMAIN rs : ss[r].origin = rs[r].origin
    OBVIOUS
  <1>1. Len(rs) \in Nat /\ DOMAIN rs = 1 .. Len(rs) /\ \A r \in DOMAIN rs : rs[r] \in ServiceRequest
    <2>1. rs \in Seq(ServiceRequest)
      OBVIOUS
    <2>2. QED
      BY ONLY <2>1, SeqElements
  <1>2. ASSUME NEW r \in DOMAIN rs PROVE ss[r] \in ServiceRequest /\ ss[r].origin = rs[r].origin
    <2>1. PICK e, q : e = rs[r] /\ q = Moved(e.reporter, source, target)
      OBVIOUS
    <2>2. PICK p : p = IF r \in P THEN e.participants \cup {target} ELSE e.participants
      OBVIOUS
    <2>3. e \in ServiceRequest /\ q \in Customer /\ p \in SUBSET Customer
      BY <1>1, <2>1, <2>2 DEF ServiceRequest, Moved
    <2>4. ss[r] = [e EXCEPT !.reporter = q, !.participants = p]
      BY <2>1, <2>2, <2>3 DEF ServiceRequest, MergedRequests
    <2>5. QED
      BY <2>1, <2>3, <2>4 DEF ServiceRequest
  <1>3. DOMAIN ss = 1 .. Len(rs) /\ ss = [r \in 1 .. Len(rs) |-> ss[r]]
    BY <1>1 DEF MergedRequests
  <1>4. ss \in Seq(ServiceRequest) /\ Len(ss) = Len(rs)
    <2>1. Len(rs) \in Nat /\ \A r \in 1 .. Len(rs) : ss[r] \in ServiceRequest
      BY <1>1, <1>2
    <2>2. QED
      BY ONLY <2>1, <1>3, SeqMade
  <1>5. QED
    BY <1>1, <1>2, <1>3, <1>4

LEMMA MergeKeeps == ASSUME NEW h \in Handler PROVE MailInv /\ Merge(h) => MailInv'
  <1> SUFFICES ASSUME MailInv, Merge(h) PROVE MailInv'
    OBVIOUS
  <1>1. PICK source, target, P : source = at[h].source /\ target = at[h].target /\ P = at[h].participates
    OBVIOUS
  <1>2. source \in Customer /\ target \in Customer
    BY <1>1 DEF MailInv, MailTask, Merge
  <1>3. serviceRequest \in Seq(ServiceRequest) /\ comments \in Seq(Conversation)
        /\ Len(comments) = Len(serviceRequest)
    BY DEF MailInv, MailTypeOK
  <1>4. /\ comments' \in Seq(Conversation) /\ Len(comments') = Len(comments) /\ DOMAIN comments' = DOMAIN comments
        /\ \A r \in DOMAIN comments :
             /\ DOMAIN comments'[r] = DOMAIN comments[r]
             /\ \A i \in DOMAIN comments[r] : comments'[r][i].id = comments[r][i].id
    <2>1. comments' = MergedComments(comments, source, target)
      BY <1>1, Zenon DEF Merge, MergedComments
    <2>2. QED
      BY ONLY <1>2, <1>3, <2>1, CommentsMerged, SMTT(20)
  <1>5. /\ serviceRequest' \in Seq(ServiceRequest) /\ DOMAIN serviceRequest' = DOMAIN serviceRequest
        /\ Len(serviceRequest') = Len(serviceRequest)
        /\ \A r \in DOMAIN serviceRequest : serviceRequest'[r].origin = serviceRequest[r].origin
    <2>1. serviceRequest' = MergedRequests(serviceRequest, source, target, P)
      BY <1>1, Zenon DEF Merge, MergedRequests
    <2>2. QED
      BY ONLY <1>2, <1>3, <2>1, RequestsMerged, SMTT(20)
  <1>6. \A x : \A r \in DOMAIN comments : SaidAt(r, x)' = SaidAt(r, x)
    BY <1>4 DEF SaidAt
  <1>7. ASSUME NEW m \in Mail PROVE Became(m)' = Became(m) /\ Answering(m)' = Answering(m)
    <2>1. Became(m)' = Became(m)
      BY <1>5 DEF Became
    <2>2. DOMAIN comments' = DOMAIN comments /\ \A r \in DOMAIN comments : SaidAt(r, m)' = SaidAt(r, m)
      BY <1>4, <1>6
    <2>3. Answering(m)' = Answering(m)
      BY <2>2, Zenon DEF Answering
    <2>4. QED
      BY <2>1, <2>3
  <1>8. RepliedOnce'
    <2>1. RepliedOnce
      BY DEF MailInv
    <2>2. SUFFICES ASSUME NEW s \in DOMAIN comments, NEW k \in ReplyKey
                   PROVE  SaidAt(s, k)' = {} \/ \E i : SaidAt(s, k)' = {i}
      BY <1>4 DEF RepliedOnce
    <2>3. SaidAt(s, k)' = SaidAt(s, k) /\ (SaidAt(s, k) = {} \/ \E i : SaidAt(s, k) = {i})
      BY <1>6, <2>1 DEF RepliedOnce
    <2>4. QED
      BY <2>3
  <1>9. /\ UNCHANGED <<posted, inbound, outbox>> /\ at' = [at EXCEPT ![h] = Idle]
    BY DEF Merge, Leave, Proceed, letters
  <1>10. Outgoing'
    BY <1>5, <1>9 DEF MailInv, Outgoing
  <1>11. QED
    BY <1>3, <1>4, <1>5, <1>7, <1>8, <1>9, <1>10, MailAside

(* However a message is handed over, and whatever happens to its sender and  *)
(* to its request meanwhile, an accepted one is one request or one comment   *)
(* in the thread it answers, any other none, and a repeated reply is one     *)
(* comment: service-email.ts, conversation/route.ts, customers/merge.        *)
THEOREM MailHasOneEffect ==
    ASSUME NEW requests
    PROVE  MailSpec(requests) => []EffectMatchesRecord
  <1>1. MailInit /\ HandlersInit(requests) => MailInv
    BY MailInitKeeps
  <1>2. MailInv /\ [MailNext]_mailState => MailInv'
    <2> SUFFICES ASSUME MailInv, [MailNext]_mailState PROVE MailInv'
      OBVIOUS
    <2>1. ASSUME ConfigureMailbox \/ \E c \in Customer : InviteCustomer(c) \/ DeactivateCustomer(c)
                 \/ \E p \in Customer, r \in DOMAIN serviceRequest : Bounce(p, r)
          PROVE  MailInv'
      BY <2>1, MailUnchanged
         DEF ConfigureMailbox, InviteCustomer, DeactivateCustomer, Bounce, InOneStep, letters
    <2>2. ASSUME NEW h \in Handler, AnswerDuplicate(h) \/ FailDelivery(h) PROVE MailInv'
      BY <2>2, MailUnchanged DEF AnswerDuplicate, FailDelivery, Leave, Proceed, mailVars, letters
    <2>3. CASE UNCHANGED mailState
      BY <2>3, MailUnchanged DEF mailState, handlers, mailVars, letters
    <2>4. QED
      BY <2>1, <2>2, <2>3, BeginDeliveryKeeps, LockMailboxKeeps, QuarantineKeeps, AcceptReplyKeeps,
         AcceptRequestKeeps, SubmitPrivatelyKeeps, BeginCommentKeeps, CommentKeeps, BeginReplyKeeps,
         ReplyKeeps, ShareKeeps, HideKeeps, BeginMergeKeeps, MergeKeeps DEF MailNext
  <1>3. QED
    BY <1>1, <1>2, MailInvImplies, PTL DEF MailSpec

-----------------------------------------------------------------------------
(* Goals.                                                                  *)

goalState == <<handlers, goalVars>>

GoalsSpec(requests) == GoalsInit /\ HandlersInit(requests) /\ [][GoalsNext]_goalState

GoalWalk    == [op : {"walk", "edit"}, goal : Aim, read : Nat, parent : Aim \cup {None},
                cursor : Aim \cup {None}, seen : SUBSET Aim, value : Measure]
GoalChecks  == [op : {"check in"}, goal : Aim, read : Nat, value : Measure]
GoalRetires == [op : {"archive"}, goal : Aim, read : Nat]

GoalUpdate == [goal : Aim, version : Nat, value : Measure]

GoalsTypeOK ==
  /\ goal \in [Aim -> GoalRow \cup {None}]
  /\ checkIn \subseteq GoalUpdate
  /\ edits \subseteq Aim \X Nat
  /\ at \in [Handler -> GoalWalk \cup GoalChecks \cup GoalRetires \cup {Idle}]

Walker(h) == at[h].op \in {"walk", "edit"}

\* Rows of goals are never removed.
GoalThere == \A h \in Handler : at[h] # Idle => goal[at[h].goal] # None
ParentsThere ==
  \A a \in Aim : goal[a] # None /\ goal[a].parent # None => goal[goal[a].parent] # None

\* The ancestors that a walk has passed, the goal itself left out.
Path(r) == r.seen \ {r.goal}

\* The parent of each of them is one of them or the next to be looked at.
Walked ==
  \A h \in Handler : Walker(h) =>
    /\ at[h].goal \in at[h].seen /\ \A x \in at[h].seen : goal[x] # None
    /\ at[h].op = "edit" => at[h].cursor = None
    /\ at[h].parent \in Path(at[h]) \cup {at[h].cursor}
    /\ ~twisted => \A x \in Path(at[h]) : goal[x].parent \in Path(at[h]) \cup {at[h].cursor}

OneWalker == ~twisted => \A g, h \in Handler : Walker(g) /\ Walker(h) => g = h

\* What is not there has no history yet.
NoHistory == \A a \in Aim : goal[a] = None => VersionsOf(a) = {}

GoalsInv ==
  /\ GoalsTypeOK /\ GoalThere /\ ParentsThere /\ Walked /\ OneWalker
  /\ NoHistory /\ HistoryKept /\ (twisted \/ NoCircle)

LEMMA WalkerReads ==
    ASSUME GoalsTypeOK, NEW h \in Handler, Walker(h)
    PROVE  at[h] \in GoalWalk
  <1>1. at[h] \in GoalWalk \cup GoalChecks \cup GoalRetires \cup {Idle}
    BY DEF GoalsTypeOK
  <1>2. /\ \A r \in GoalChecks : r.op = "check in"
        /\ \A r \in GoalRetires : r.op = "archive"
        /\ Idle.op = "idle"
    BY DEF GoalChecks, GoalRetires, Idle
  <1>3. QED
    BY <1>1, <1>2 DEF Walker

LEMMA OtherReads ==
    ASSUME GoalsTypeOK, NEW h \in Handler
    PROVE  /\ Busy(h, "check in") => at[h] \in GoalChecks /\ at[h] # Idle
           /\ Busy(h, "archive") => at[h] \in GoalRetires /\ at[h] # Idle
  <1>1. at[h] \in GoalWalk \cup GoalChecks \cup GoalRetires \cup {Idle}
    BY DEF GoalsTypeOK
  <1>2. /\ \A r \in GoalWalk : r.op \in {"walk", "edit"}
        /\ \A r \in GoalChecks : r.op = "check in"
        /\ \A r \in GoalRetires : r.op = "archive"
        /\ Idle.op = "idle"
    BY DEF GoalWalk, GoalChecks, GoalRetires, Idle
  <1>3. QED
    BY <1>1, <1>2 DEF Busy

\* The row that a write makes has the next version.
LEMMA RenewedRow ==
    ASSUME NEW a \in Aim, goal[a] \in GoalRow
    PROVE  /\ Renewed(a) \in GoalRow /\ Renewed(a).version = goal[a].version + 1
           /\ Renewed(a).parent = goal[a].parent
  <1>1. PICK d \in GoalRow : d = goal[a]
    OBVIOUS
  <1>2. Renewed(a) = [d EXCEPT !.version = d.version + 1]
    BY <1>1 DEF Renewed
  <1>3. [d EXCEPT !.version = d.version + 1] \in GoalRow
    BY DEF GoalRow
  <1>4. QED
    BY <1>1, <1>2, <1>3 DEF GoalRow

\* A new row of the history, as a check-in or as an edit, is one more version of its goal.
LEMMA OneMoreVersion ==
    ASSUME GoalsTypeOK, NEW a \in Aim, NEW v \in Nat, NEW value,
           \/ checkIn' = checkIn \cup {[goal |-> a, version |-> v, value |-> value]} /\ edits' = edits
           \/ checkIn' = checkIn /\ edits' = edits \cup {<<a, v>>}
    PROVE  /\ VersionsOf(a)' = VersionsOf(a) \cup {v}
           /\ \A b \in Aim \ {a} : VersionsOf(b)' = VersionsOf(b)
  <1> DEFINE CV(b) == {c.version : c \in {d \in checkIn : d.goal = b}}
             EV(b) == {e[2] : e \in {f \in edits : f[1] = b}}
             CW(b) == {c.version : c \in {d \in checkIn' : d.goal = b}}
             EW(b) == {e[2] : e \in {f \in edits' : f[1] = b}}
  <1>1. \A b : VersionsOf(b) = CV(b) \cup EV(b) /\ VersionsOf(b)' = CW(b) \cup EW(b)
    BY DEF VersionsOf
  <1>2. CASE checkIn' = checkIn \cup {[goal |-> a, version |-> v, value |-> value]} /\ edits' = edits
    <2>1. PICK row : row = [goal |-> a, version |-> v, value |-> value] /\ row.goal = a /\ row.version = v
      <3>1. /\ [goal |-> a, version |-> v, value |-> value].goal = a
            /\ [goal |-> a, version |-> v, value |-> value].version = v
        OBVIOUS
      <3>2. QED
        BY <3>1, Zenon
    <2>2. checkIn' = checkIn \cup {row}
      BY <1>2, <2>1
    <2>3. CW(a) = CV(a) \cup {v}
      BY <2>1, <2>2
    <2>4. \A b \in Aim \ {a} : CW(b) = CV(b)
      BY <2>1, <2>2
    <2>5. \A b : EW(b) = EV(b)
      BY <1>2
    <2> HIDE DEF CV, CW, EV, EW
    <2>6. QED
      BY <1>1, <2>3, <2>4, <2>5
  <1>3. CASE checkIn' = checkIn /\ edits' = edits \cup {<<a, v>>}
    <2>1. PICK row : row = <<a, v>> /\ row[1] = a /\ row[2] = v
      <3>1. <<a, v>>[1] = a /\ <<a, v>>[2] = v
        OBVIOUS
      <3>2. QED
        BY <3>1, Zenon
    <2>2. edits' = edits \cup {row}
      BY <1>3, <2>1
    <2>3. EW(a) = EV(a) \cup {v}
      BY <2>1, <2>2
    <2>4. \A b \in Aim \ {a} : EW(b) = EV(b)
      BY <2>1, <2>2
    <2>5. \A b : CW(b) = CV(b)
      BY <1>3
    <2> HIDE DEF CV, CW, EV, EW
    <2>6. QED
      BY <1>1, <2>3, <2>4, <2>5
  <1>4. QED
    BY <1>2, <1>3

\* A version that is part of the history of a goal was made, and none other.
LEMMA MadeVersions ==
    ASSUME GoalsTypeOK, NEW a \in Aim
    PROVE  /\ \A c \in checkIn : c.goal = a => c.version \in VersionsOf(a)
           /\ \A v \in Nat : <<a, v>> \in edits => v \in VersionsOf(a)
  <1>1. \A v \in Nat : <<a, v>> \in edits => <<a, v>> \in {f \in edits : f[1] = a} /\ <<a, v>>[2] = v
    OBVIOUS
  <1>2. QED
    BY <1>1 DEF VersionsOf

\* The history of a goal goes on with the version after the one it has.
LEMMA HistoryGoesOn ==
    ASSUME GoalsTypeOK, NoHistory, HistoryKept, NEW a \in Aim, NEW v \in Nat, NEW value,
           \/ goal[a] = None /\ v = 1
           \/ goal[a] # None /\ v = goal[a].version + 1,
           \A b \in Aim \ {a} : goal'[b] = goal[b],
           goal'[a] # None, goal'[a].version = v,
           \/ /\ checkIn' = checkIn \cup {[goal |-> a, version |-> v, value |-> value]}
              /\ edits' = edits /\ goal'[a].value = value
           \/ checkIn' = checkIn /\ edits' = edits \cup {<<a, v>>}
    PROVE  NoHistory' /\ HistoryKept'
  <1>1. /\ VersionsOf(a)' = VersionsOf(a) \cup {v}
        /\ \A b \in Aim \ {a} : VersionsOf(b)' = VersionsOf(b)
    BY OneMoreVersion
  <1>2. NoHistory'
    BY <1>1 DEF NoHistory
  <1>3. v \notin VersionsOf(a) /\ VersionsOf(a)' = 1 .. v
    <2>1. CASE goal[a] = None /\ v = 1
      BY <1>1, <2>1 DEF NoHistory
    <2>2. CASE goal[a] # None /\ v = goal[a].version + 1
      <3>1. VersionsOf(a) = 1 .. goal[a].version /\ goal[a].version \in Nat
        BY <2>2 DEF HistoryKept, GoalsTypeOK, GoalRow
      <3>2. QED
        BY <1>1, <2>2, <3>1
    <2>3. QED
      BY <2>1, <2>2
  <1>4. \A c \in checkIn : c.goal = a => c.version # v
    BY <1>3, MadeVersions
  <1>5. <<a, v>> \notin edits
    BY <1>3, MadeVersions
  <1>6. \A c \in checkIn : c.goal = a => <<a, c.version>> \notin edits
    BY MadeVersions DEF HistoryKept, NoHistory
  <1>7. \A c \in checkIn' : c.goal = a =>
            <<a, c.version>> \notin edits' /\ (c.version = goal'[a].version => c.value = goal'[a].value)
    <2> SUFFICES ASSUME NEW c \in checkIn', c.goal = a
                 PROVE  <<a, c.version>> \notin edits' /\ (c.version = v => c.value = goal'[a].value)
      OBVIOUS
    <2>1. CASE c \in checkIn
      BY <1>4, <1>6, <2>1
    <2>2. CASE c \notin checkIn
      BY <1>5, <2>2
    <2>3. QED
      BY <2>1, <2>2
  <1>8. ASSUME NEW b \in Aim \ {a}, goal[b] # None
        PROVE  \A c \in checkIn' : c.goal = b =>
                 <<b, c.version>> \notin edits' /\ (c.version = goal[b].version => c.value = goal[b].value)
    <2> SUFFICES ASSUME NEW c \in checkIn', c.goal = b
                 PROVE  <<b, c.version>> \notin edits' /\ (c.version = goal[b].version => c.value = goal[b].value)
      OBVIOUS
    <2>1. c \in checkIn
      OBVIOUS
    <2>2. <<b, c.version>> \notin edits /\ (c.version = goal[b].version => c.value = goal[b].value)
      BY <1>8, <2>1 DEF HistoryKept
    <2>3. QED
      BY <2>2
  <1>9. HistoryKept'
    <2> SUFFICES ASSUME NEW b \in Aim, goal'[b] # None
                 PROVE  /\ VersionsOf(b)' = 1 .. goal'[b].version
                        /\ \A c \in checkIn' : c.goal = b =>
                             <<b, c.version>> \notin edits' /\ (c.version = goal'[b].version => c.value = goal'[b].value)
      BY DEF HistoryKept
    <2>1. CASE b = a
      BY <1>3, <1>7, <2>1
    <2>2. CASE b # a
      <3>1. goal'[b] = goal[b] /\ goal[b] # None /\ b \in Aim \ {a}
        BY <2>2
      <3>2. VersionsOf(b)' = 1 .. goal[b].version
        BY <1>1, <3>1 DEF HistoryKept
      <3>3. QED
        BY <1>8, <3>1, <3>2
    <2>3. QED
      BY <2>1, <2>2
  <1>10. QED
    BY <1>2, <1>9

\* A handler that goes on without a write.
LEMMA GoalsAside ==
    ASSUME GoalsInv, UNCHANGED <<goal, checkIn, edits>>, twisted => twisted',
           GoalsTypeOK', GoalThere', Walked', OneWalker'
    PROVE  GoalsInv'
  BY DEF GoalsInv, ParentsThere, NoHistory, HistoryKept, VersionsOf, NoCircle

LEMMA GoalsLeave ==
    ASSUME GoalsInv, NEW h \in Handler, Leave(h), UNCHANGED goalVars
    PROVE  GoalsInv'
  <1>1. GoalsTypeOK /\ GoalThere /\ Walked /\ OneWalker
    BY DEF GoalsInv
  <1>2. at'[h] = Idle /\ \A g \in Handler : g # h => at'[g] = at[g]
    BY <1>1 DEF Leave, Proceed, GoalsTypeOK
  <1>3. ~Walker(h)' /\ \A g \in Handler : Walker(g)' => g # h /\ Walker(g) /\ at'[g] = at[g]
    BY <1>2 DEF Walker, Idle
  <1>4. GoalsTypeOK'
    BY <1>1 DEF GoalsTypeOK, Leave, Proceed, goalVars
  <1>5. GoalThere' /\ OneWalker'
    BY <1>1, <1>2, <1>3 DEF GoalThere, OneWalker, goalVars
  <1>6. Walked'
    BY <1>1, <1>3 DEF Walked, Path, goalVars
  <1>7. QED
    BY <1>4, <1>5, <1>6, GoalsAside DEF goalVars

LEMMA GoalsInitKeeps ==
    ASSUME NEW requests, GoalsInit, HandlersInit(requests)
    PROVE  GoalsInv
  <1>1. \A h \in Handler : at[h] = Idle /\ ~Walker(h)
    BY DEF HandlersInit, Walker, Idle
  <1>2. \A a \in Aim : goal[a] = None
    BY DEF GoalsInit
  <1>3. GoalsTypeOK
    BY DEF GoalsInit, HandlersInit, GoalsTypeOK
  <1>4. GoalThere /\ ParentsThere /\ Walked /\ OneWalker
    BY <1>1, <1>2 DEF GoalThere, ParentsThere, Walked, OneWalker
  <1>5. NoHistory
    BY DEF GoalsInit, NoHistory, VersionsOf
  <1>6. HistoryKept
    BY <1>2 DEF HistoryKept
  <1>7. NoCircle
    BY <1>2 DEF NoCircle
  <1>8. QED
    BY <1>3, <1>4, <1>5, <1>6, <1>7 DEF GoalsInv

\* A goal that is created below another is nobody's parent yet.
LEMMA CreateGoalKeeps ==
    ASSUME GoalsInv, NEW a \in Aim, NEW parent \in Aim \cup {None}, NEW value \in Measure,
           CreateGoal(a, parent, value)
    PROVE  GoalsInv'
  <1>1. /\ GoalsTypeOK /\ GoalThere /\ ParentsThere /\ Walked /\ OneWalker
        /\ NoHistory /\ HistoryKept /\ (twisted \/ NoCircle)
    BY DEF GoalsInv
  <1>2. /\ goal[a] = None /\ UNCHANGED <<at, edits, twisted>>
        /\ checkIn' = checkIn \cup {[goal |-> a, version |-> 1, value |-> value]}
        /\ parent # None => goal[parent] # None
    BY DEF CreateGoal, InOneStep, VisibleGoal
  <1>3. PICK row \in GoalRow : row = [parent |-> parent, version |-> 1, value |-> value, archived |-> FALSE]
    BY DEF GoalRow
  <1>4. row # None /\ row.parent = parent /\ row.version = 1 /\ row.value = value
    BY <1>3, GoalsAssumption
  <1>5. goal'[a] = row /\ \A b \in Aim \ {a} : goal'[b] = goal[b]
    BY <1>1, <1>3 DEF CreateGoal, GoalsTypeOK
  <1>6. GoalsTypeOK'
    <2>1. goal' \in [Aim -> GoalRow \cup {None}]
      BY <1>1, <1>3 DEF CreateGoal, GoalsTypeOK
    <2>2. [goal |-> a, version |-> 1, value |-> value] \in GoalUpdate
      BY DEF GoalUpdate
    <2>3. QED
      BY <1>1, <1>2, <2>1, <2>2 DEF GoalsTypeOK
  <1>7. \A b \in Aim : goal[b] # None => goal'[b] = goal[b] /\ goal'[b] # None /\ b # a
    BY <1>2, <1>5
  <1>8. GoalThere'
    <2> SUFFICES ASSUME NEW h \in Handler, at[h] # Idle PROVE goal'[at[h].goal] # None
      BY <1>2 DEF GoalThere
    <2>1. at[h].goal \in Aim
      BY <1>1 DEF GoalsTypeOK, GoalWalk, GoalChecks, GoalRetires
    <2>2. QED
      BY <1>1, <1>7, <2>1 DEF GoalThere
  <1>9. \A b \in Aim : goal[b] # None => goal[b].parent # a
    BY <1>1, <1>2, GoalsAssumption DEF ParentsThere
  <1>10. ParentsThere'
    <2> SUFFICES ASSUME NEW b \in Aim, goal'[b] # None, goal'[b].parent # None
                 PROVE  goal'[goal'[b].parent] # None
      BY DEF ParentsThere
    <2>1. goal'[b].parent \in Aim
      BY <1>6 DEF GoalsTypeOK, GoalRow
    <2>2. CASE b = a
      BY <1>2, <1>4, <1>5, <1>7, <2>1, <2>2
    <2>3. CASE b # a
      BY <1>1, <1>5, <1>7, <2>1, <2>3 DEF ParentsThere
    <2>4. QED
      BY <2>2, <2>3
  <1>11. Walked'
    <2> SUFFICES ASSUME NEW h \in Handler, Walker(h)
                 PROVE  /\ at[h].goal \in at[h].seen /\ \A x \in at[h].seen : goal'[x] # None
                        /\ at[h].op = "edit" => at[h].cursor = None
                        /\ at[h].parent \in Path(at[h]) \cup {at[h].cursor}
                        /\ ~twisted => \A x \in Path(at[h]) : goal'[x].parent \in Path(at[h]) \cup {at[h].cursor}
      BY <1>2 DEF Walked, Walker, Path
    <2>1. at[h].seen \subseteq Aim
      BY <1>1, WalkerReads DEF GoalWalk
    <2>2. \A x \in at[h].seen : goal'[x] # None /\ goal'[x] = goal[x]
      BY <1>1, <1>7, <2>1 DEF Walked
    <2>3. QED
      BY <1>1, <2>2 DEF Walked, Path
  <1>12. OneWalker'
    BY <1>1, <1>2 DEF OneWalker, Walker
  <1>13. NoHistory' /\ HistoryKept'
    BY <1>1, <1>2, <1>4, <1>5, HistoryGoesOn
  <1>14. twisted' \/ NoCircle'
    <2> SUFFICES ASSUME NoCircle, NEW S \in SUBSET Aim, S # {},
                        \A b \in S : goal'[b] # None /\ goal'[b].parent \in S
                 PROVE  FALSE
      BY <1>1, <1>2 DEF NoCircle
    <2>1. \A b \in S \ {a} : goal[b] # None /\ goal[b].parent \in S \ {a}
      BY <1>5, <1>9
    <2>2. S \ {a} # {}
      <3>1. CASE a \in S
        <4>1. parent \in S /\ parent # None
          BY <1>4, <1>5, <3>1, GoalsAssumption
        <4>2. parent # a
          BY <1>2, <4>1
        <4>3. QED
          BY <4>1, <4>2
      <3>2. QED
        BY <3>1
    <2>3. S \ {a} \in SUBSET Aim
      OBVIOUS
    <2>4. QED
      BY <2>1, <2>2, <2>3 DEF NoCircle
  <1>15. QED
    BY <1>6, <1>8, <1>10, <1>11, <1>12, <1>13, <1>14 DEF GoalsInv

LEMMA BeginEditGoalKeeps ==
    ASSUME GoalsInv, NEW h \in Handler, NEW a \in Aim, NEW parent \in Aim \cup {None},
           NEW value \in Measure, BeginEditGoal(h, a, parent, value)
    PROVE  GoalsInv'
  <1>1. GoalsTypeOK /\ GoalThere /\ Walked /\ OneWalker
    BY DEF GoalsInv
  <1>2. goal[a] # None /\ goal[a].version \in Nat
    BY <1>1 DEF BeginEditGoal, BeginOnGoal, VisibleGoal, GoalsTypeOK, GoalRow
  <1>3. PICK r \in GoalWalk : r = [op |-> "walk", goal |-> a, read |-> goal[a].version, parent |-> parent,
                                    cursor |-> parent, seen |-> {a}, value |-> value]
    BY <1>2 DEF GoalWalk
  <1>4. r.op = "walk" /\ r.goal = a /\ r.parent = parent /\ r.cursor = parent /\ r.seen = {a}
    BY <1>3
  <1>5. at'[h] = r /\ (\A g \in Handler : g # h => at'[g] = at[g]) /\ UNCHANGED <<goal, checkIn, edits>>
    BY <1>1, <1>3 DEF BeginEditGoal, BeginOnGoal, Enter, GoalsTypeOK
  <1>6. GoalsTypeOK'
    BY <1>1, <1>3 DEF BeginEditGoal, BeginOnGoal, Enter, GoalsTypeOK
  <1>7. GoalThere'
    BY <1>1, <1>2, <1>4, <1>5 DEF GoalThere
  <1>8. /\ twisted => twisted'
        /\ ~twisted' => \A g \in Handler : g # h => ~Walker(g)'
    <2>1. twisted' = (twisted \/ \E g \in Handler : Walker(g))
      BY DEF BeginEditGoal, Busy, Walker
    <2>2. QED
      BY <1>5, <2>1 DEF Walker
  <1>9. OneWalker'
    BY <1>8 DEF OneWalker
  <1>10. Walked'
    <2> SUFFICES ASSUME NEW g \in Handler, Walker(g)'
                 PROVE  /\ at'[g].goal \in at'[g].seen /\ \A x \in at'[g].seen : goal[x] # None
                        /\ at'[g].op = "edit" => at'[g].cursor = None
                        /\ at'[g].parent \in Path(at'[g]) \cup {at'[g].cursor}
                        /\ ~twisted' => \A x \in Path(at'[g]) : goal[x].parent \in Path(at'[g]) \cup {at'[g].cursor}
      BY <1>5 DEF Walked, Path
    <2>1. CASE g = h
      <3>1. at'[g] = r
        BY <1>5, <2>1
      <3>2. QED
        BY <1>2, <1>4, <3>1 DEF Path
    <2>2. CASE g # h
      BY <1>1, <1>5, <1>8, <2>2 DEF Walked, Walker, Path
    <2>3. QED
      BY <2>1, <2>2
  <1>11. QED
    BY <1>5, <1>6, <1>7, <1>8, <1>9, <1>10, GoalsAside

\* An ancestor that is passed was not seen before, and its parent is the next.
LEMMA WalkUpKeeps ==
    ASSUME GoalsInv, NEW h \in Handler, WalkUp(h)
    PROVE  GoalsInv'
  <1>1. GoalsTypeOK /\ GoalThere /\ Walked /\ OneWalker
    BY DEF GoalsInv
  <1>2. Walker(h) /\ at[h] \in GoalWalk /\ at[h].op = "walk" /\ UNCHANGED goalVars
    <2>1. Walker(h)
      BY DEF WalkUp, Busy, Walker
    <2>2. QED
      BY <1>1, <2>1, WalkerReads DEF WalkUp, Busy
  <1>3. PICK old \in GoalWalk : old = at[h] /\ old.op = "walk"
    BY <1>2
  <1>4. /\ old.goal \in old.seen /\ \A x \in old.seen : goal[x] # None
        /\ old.parent \in Path(old) \cup {old.cursor}
        /\ ~twisted => \A x \in Path(old) : goal[x].parent \in Path(old) \cup {old.cursor}
    BY <1>1, <1>2, <1>3 DEF Walked
  <1>5. ASSUME NEW r \in GoalWalk, Proceed(h, r), r.goal = old.goal,
               r.goal \in r.seen /\ \A x \in r.seen : goal[x] # None,
               r.op = "edit" => r.cursor = None,
               r.parent \in Path(r) \cup {r.cursor},
               ~twisted => \A x \in Path(r) : goal[x].parent \in Path(r) \cup {r.cursor}
        PROVE  GoalsInv'
    <2>1. at'[h] = r /\ \A g \in Handler : g # h => at'[g] = at[g]
      BY <1>1, <1>5 DEF Proceed, GoalsTypeOK
    <2>2. GoalsTypeOK'
      BY <1>1, <1>2, <1>5 DEF Proceed, GoalsTypeOK, goalVars
    <2>3. old # Idle
      BY <1>3 DEF Idle
    <2>4. GoalThere'
      BY <1>1, <1>2, <1>3, <1>5, <2>1, <2>3 DEF GoalThere, goalVars
    <2>5. \A g \in Handler : Walker(g)' => Walker(g)
      BY <1>2, <2>1 DEF Walker
    <2>6. OneWalker'
      BY <1>1, <1>2, <2>5 DEF OneWalker, goalVars
    <2>7. Walked'
      <3> SUFFICES ASSUME NEW g \in Handler, Walker(g)'
                   PROVE  /\ at'[g].goal \in at'[g].seen /\ \A x \in at'[g].seen : goal[x] # None
                          /\ at'[g].op = "edit" => at'[g].cursor = None
                          /\ at'[g].parent \in Path(at'[g]) \cup {at'[g].cursor}
                          /\ ~twisted => \A x \in Path(at'[g]) : goal[x].parent \in Path(at'[g]) \cup {at'[g].cursor}
        BY <1>2 DEF Walked, Path, goalVars
      <3>1. CASE g = h
        BY <1>5, <2>1, <3>1
      <3>2. CASE g # h
        BY <1>1, <2>1, <2>5, <3>2 DEF Walked
      <3>3. QED
        BY <3>1, <3>2
    <2>8. QED
      BY <1>2, <2>2, <2>4, <2>6, <2>7, GoalsAside DEF goalVars
  <1>6. CASE old.cursor = None
    <2>1. PICK r \in GoalWalk : r = [old EXCEPT !.op = "edit"]
      BY DEF GoalWalk
    <2>2. r.goal = old.goal /\ r.seen = old.seen /\ r.parent = old.parent /\ r.cursor = old.cursor
      BY <2>1 DEF GoalWalk
    <2>3. Path(r) = Path(old)
      BY <2>2 DEF Path
    <2>4. Proceed(h, r)
      BY <1>3, <1>6, <2>1 DEF WalkUp
    <2>5. QED
      BY <1>4, <1>5, <1>6, <2>2, <2>3, <2>4
  <1>7. CASE old.cursor # None
    <2> DEFINE refused == old.cursor \in old.seen \/ Cardinality(old.seen) > MaxDepth \/ ~VisibleGoal(old.cursor)
    <2>1. CASE refused
      <3>1. Leave(h)
        BY <1>3, <1>7, <2>1 DEF WalkUp
      <3>2. QED
        BY <1>2, <3>1, GoalsLeave
    <2>2. CASE ~refused
      <3>1. old.cursor \in Aim /\ goal[old.cursor] # None /\ old.cursor \notin old.seen
        BY <1>7, <2>2 DEF GoalWalk, VisibleGoal
      <3>2. PICK up \in Aim \cup {None} : up = goal[old.cursor].parent
        BY <1>1, <3>1 DEF GoalsTypeOK, GoalRow
      <3>3. PICK r \in GoalWalk : r = [old EXCEPT !.cursor = up, !.seen = old.seen \cup {old.cursor}]
        <4>1. old.seen \cup {old.cursor} \in SUBSET Aim
          BY <3>1 DEF GoalWalk
        <4>2. QED
          BY <4>1 DEF GoalWalk
      <3>4. /\ r.goal = old.goal /\ r.seen = old.seen \cup {old.cursor} /\ r.parent = old.parent
            /\ r.cursor = up /\ r.op = "walk"
        BY <1>3, <3>3 DEF GoalWalk
      <3>5. Path(r) = Path(old) \cup {old.cursor}
        BY <1>4, <3>1, <3>4 DEF Path
      <3>6. Proceed(h, r)
        BY <1>3, <1>7, <2>2, <3>2, <3>3 DEF WalkUp
      <3>7. r.parent \in Path(r) \cup {r.cursor}
        BY <1>4, <3>4, <3>5
      <3>8. ~twisted => \A x \in Path(r) : goal[x].parent \in Path(r) \cup {r.cursor}
        BY <1>4, <3>2, <3>4, <3>5
      <3>9. r.goal \in r.seen /\ \A x \in r.seen : goal[x] # None
        BY <1>4, <3>1, <3>4
      <3>10. QED
        BY <1>5, <3>4, <3>6, <3>7, <3>8, <3>9
    <2>3. QED
      BY <2>1, <2>2
  <1>8. QED
    BY <1>6, <1>7

\* A write to a goal that is there, with its row in the history.
GoalWritten(a, row) == goal' = [goal EXCEPT ![a] = row]

NewCheckIn(a, row, value) ==
  /\ checkIn' = checkIn \cup {[goal |-> a, version |-> row.version, value |-> value]}
  /\ edits' = edits /\ value \in Measure /\ row.value = value
NewEdit(a, row) == checkIn' = checkIn /\ edits' = edits \cup {<<a, row.version>>}

StaysBelow(h, a, row) ==
  \/ row.parent = goal[a].parent
  \/ Busy(h, "edit") /\ a = at[h].goal /\ row.parent = at[h].parent

LEMMA GoalWrites ==
    ASSUME GoalsInv, NEW h \in Handler, Leave(h), UNCHANGED twisted,
           NEW a \in Aim, goal[a] # None, NEW row \in GoalRow, NEW value,
           GoalWritten(a, row), row.version = goal[a].version + 1,
           NewCheckIn(a, row, value) \/ NewEdit(a, row),
           StaysBelow(h, a, row)
    PROVE  GoalsInv'
  <1>1. /\ GoalsTypeOK /\ GoalThere /\ ParentsThere /\ Walked /\ OneWalker
        /\ NoHistory /\ HistoryKept /\ (twisted \/ NoCircle)
    BY DEF GoalsInv
  <1>2. at'[h] = Idle /\ \A g \in Handler : g # h => at'[g] = at[g]
    BY <1>1 DEF Leave, Proceed, GoalsTypeOK
  <1>3. ~Walker(h)' /\ \A g \in Handler : Walker(g)' => g # h /\ Walker(g) /\ at'[g] = at[g]
    BY <1>2 DEF Walker, Idle
  <1>4. row # None /\ row.version \in Nat
    BY GoalsAssumption DEF GoalRow
  <1>5. goal'[a] = row /\ \A b \in Aim \ {a} : goal'[b] = goal[b]
    BY <1>1 DEF GoalsTypeOK, GoalWritten
  <1>6. GoalsTypeOK'
    <2>1. goal' \in [Aim -> GoalRow \cup {None}]
      BY <1>1 DEF GoalsTypeOK, GoalWritten
    <2>2. checkIn' \subseteq GoalUpdate /\ edits' \subseteq Aim \X Nat
      BY <1>1, <1>4 DEF GoalsTypeOK, NewCheckIn, NewEdit, GoalUpdate
    <2>3. at' \in [Handler -> GoalWalk \cup GoalChecks \cup GoalRetires \cup {Idle}]
      BY <1>1 DEF Leave, Proceed, GoalsTypeOK
    <2>4. QED
      BY <2>1, <2>2, <2>3 DEF GoalsTypeOK
  <1>7. \A b \in Aim : goal'[b] # None <=> goal[b] # None
    BY <1>4, <1>5
  <1>8. GoalThere'
    <2> SUFFICES ASSUME NEW g \in Handler, at'[g] # Idle PROVE goal'[at'[g].goal] # None
      BY DEF GoalThere
    <2>1. g # h /\ at'[g] = at[g]
      BY <1>2
    <2>2. at[g].goal \in Aim
      BY <1>1, <2>1 DEF GoalsTypeOK, GoalWalk, GoalChecks, GoalRetires
    <2>3. QED
      BY <1>1, <1>7, <2>1, <2>2 DEF GoalThere
  <1>9. OneWalker'
    BY <1>1, <1>3 DEF OneWalker
  <1>10. NoHistory' /\ HistoryKept'
    BY <1>1, <1>4, <1>5, HistoryGoesOn DEF NewCheckIn, NewEdit
  <1>11. CASE row.parent = goal[a].parent
    <2>1. \A b \in Aim : goal[b] # None => goal'[b].parent = goal[b].parent
      BY <1>5, <1>11
    <2>2. ParentsThere'
      <3> SUFFICES ASSUME NEW b \in Aim, goal'[b] # None, goal'[b].parent # None
                   PROVE  goal'[goal'[b].parent] # None
        BY DEF ParentsThere
      <3>1. goal'[b].parent = goal[b].parent /\ goal[b] # None
        BY <1>7, <2>1
      <3>2. goal'[b].parent \in Aim
        BY <1>6 DEF GoalsTypeOK, GoalRow
      <3>3. QED
        BY <1>1, <1>7, <3>1, <3>2 DEF ParentsThere
    <2>3. Walked'
      <3> SUFFICES ASSUME NEW g \in Handler, Walker(g)'
                   PROVE  /\ at[g].goal \in at[g].seen /\ \A x \in at[g].seen : goal'[x] # None
                          /\ at[g].op = "edit" => at[g].cursor = None
                          /\ at[g].parent \in Path(at[g]) \cup {at[g].cursor}
                          /\ ~twisted => \A x \in Path(at[g]) : goal'[x].parent \in Path(at[g]) \cup {at[g].cursor}
        BY <1>3 DEF Walked, Path
      <3>1. Walker(g) /\ at[g].seen \subseteq Aim
        BY <1>1, <1>3, WalkerReads DEF GoalWalk
      <3>2. \A x \in at[g].seen : goal[x] # None
        BY <1>1, <3>1 DEF Walked
      <3>3. \A x \in at[g].seen : goal'[x] # None /\ goal'[x].parent = goal[x].parent
        BY <1>7, <2>1, <3>1, <3>2
      <3>4. QED
        BY <1>1, <3>1, <3>3 DEF Walked, Path
    <2>4. twisted' \/ NoCircle'
      BY <1>1, <1>7, <2>1 DEF NoCircle
    <2>5. QED
      BY <1>6, <1>8, <1>9, <1>10, <2>2, <2>3, <2>4 DEF GoalsInv
  <1>12. CASE Busy(h, "edit") /\ a = at[h].goal /\ row.parent = at[h].parent
    <2>1. Walker(h) /\ at[h] \in GoalWalk
      <3>1. Walker(h)
        BY <1>12 DEF Walker, Busy
      <3>2. QED
        BY <1>1, <3>1, WalkerReads
    <2>2. PICK path : path = Path(at[h])
      OBVIOUS
    <2>3. /\ path \subseteq Aim /\ a \notin path /\ row.parent \in path \cup {None}
          /\ \A x \in path : goal[x] # None
          /\ ~twisted => \A x \in path : goal[x].parent \in path \cup {None}
      BY <1>1, <1>12, <2>1, <2>2 DEF Walked, Busy, Path, GoalWalk
    <2>4. ParentsThere'
      <3> SUFFICES ASSUME NEW b \in Aim, goal'[b] # None, goal'[b].parent # None
                   PROVE  goal'[goal'[b].parent] # None
        BY DEF ParentsThere
      <3>1. goal'[b].parent \in Aim
        BY <1>6 DEF GoalsTypeOK, GoalRow
      <3>2. CASE b = a
        BY <1>5, <1>7, <2>3, <3>1, <3>2
      <3>3. CASE b # a
        BY <1>1, <1>5, <1>7, <3>1, <3>3 DEF ParentsThere
      <3>4. QED
        BY <3>2, <3>3
    <2>5. Walked'
      <3> SUFFICES ASSUME NEW g \in Handler, Walker(g)'
                   PROVE  /\ at[g].goal \in at[g].seen /\ \A x \in at[g].seen : goal'[x] # None
                          /\ at[g].op = "edit" => at[g].cursor = None
                          /\ at[g].parent \in Path(at[g]) \cup {at[g].cursor}
                          /\ twisted
        BY <1>3 DEF Walked, Path
      <3>1. Walker(g) /\ g # h /\ at[g].seen \subseteq Aim
        BY <1>1, <1>3, WalkerReads DEF GoalWalk
      <3>2. twisted
        BY <1>1, <2>1, <3>1 DEF OneWalker
      <3>3. \A x \in at[g].seen : goal'[x] # None
        BY <1>1, <1>7, <3>1 DEF Walked
      <3>4. QED
        BY <1>1, <3>1, <3>2, <3>3 DEF Walked
    <2>6. twisted' \/ NoCircle'
      <3> SUFFICES ASSUME ~twisted, NoCircle, NEW S \in SUBSET Aim, S # {},
                          \A b \in S : goal'[b] # None /\ goal'[b].parent \in S
                   PROVE  FALSE
        BY <1>1 DEF NoCircle
      <3>1. \A b \in S : goal[b] # None
        BY <1>7
      <3>2. \A b \in S \ {a} : goal[b].parent \in S
        BY <1>5
      <3>3. CASE a \notin S
        BY <3>1, <3>2, <3>3 DEF NoCircle
      <3>4. CASE a \in S
        <4>1. row.parent \in S /\ row.parent \in path
          BY <1>5, <2>3, <3>4, GoalsAssumption
        <4>2. \A b \in S \cap path : goal[b] # None /\ goal[b].parent \in S \cap path
          BY <2>3, <3>1, <3>2, GoalsAssumption
        <4>3. S \cap path \in SUBSET Aim /\ S \cap path # {}
          BY <4>1
        <4>4. QED
          BY <4>2, <4>3 DEF NoCircle
      <3>5. QED
        BY <3>3, <3>4
    <2>7. QED
      BY <1>6, <1>8, <1>9, <1>10, <2>4, <2>5, <2>6 DEF GoalsInv
  <1>13. QED
    BY <1>11, <1>12 DEF StaysBelow

LEMMA EditGoalKeeps ==
    ASSUME GoalsInv, NEW h \in Handler, EditGoal(h)
    PROVE  GoalsInv'
  <1>1. GoalsTypeOK /\ GoalThere
    BY DEF GoalsInv
  <1>2. at[h] \in GoalWalk /\ at[h] # Idle
    <2>1. Walker(h)
      BY DEF EditGoal, Busy, Walker
    <2>2. QED
      BY <1>1, <2>1, WalkerReads DEF EditGoal, Busy, Idle
  <1>3. PICK a \in Aim : a = at[h].goal /\ goal[a] # None /\ goal[a] \in GoalRow
    BY <1>1, <1>2 DEF GoalThere, GoalWalk, GoalsTypeOK
  <1>4. PICK row \in GoalRow :
            /\ row = [Renewed(a) EXCEPT !.parent = at[h].parent, !.value = at[h].value]
            /\ row.parent = at[h].parent /\ row.version = goal[a].version + 1
    <2>1. PICK d \in GoalRow : d = Renewed(a) /\ d.version = goal[a].version + 1
      BY <1>3, RenewedRow
    <2>2. PICK r \in GoalWalk : r = at[h]
      BY <1>2
    <2>3. r.parent \in Aim \cup {None} /\ r.value \in Measure
      BY DEF GoalWalk
    <2>4. /\ [d EXCEPT !.parent = r.parent, !.value = r.value] \in GoalRow
          /\ [d EXCEPT !.parent = r.parent, !.value = r.value].parent = r.parent
          /\ [d EXCEPT !.parent = r.parent, !.value = r.value].version = d.version
      BY <2>3 DEF GoalRow
    <2>5. QED
      BY <2>1, <2>2, <2>4
  <1>5. Leave(h) /\ UNCHANGED <<checkIn, twisted>>
    BY DEF EditGoal
  <1>6. CASE UNCHANGED <<goal, edits>>
    BY <1>5, <1>6, GoalsLeave DEF goalVars
  <1>7. CASE GoalWritten(a, row) /\ edits' = edits \cup {<<a, goal'[a].version>>}
    <2>1. goal'[a] = row
      BY <1>1, <1>7 DEF GoalsTypeOK, GoalWritten
    <2>2. NewEdit(a, row)
      BY <1>5, <1>7, <2>1 DEF NewEdit
    <2>3. StaysBelow(h, a, row)
      BY <1>3, <1>4 DEF StaysBelow, EditGoal
    <2>4. QED
      BY <1>3, <1>4, <1>5, <1>7, <2>2, <2>3, GoalWrites
  <1>8. QED
    BY <1>3, <1>4, <1>6, <1>7 DEF EditGoal, GoalWritten

LEMMA BeginOtherKeeps ==
    ASSUME GoalsInv, NEW h \in Handler, NEW a \in Aim, UNCHANGED goalVars,
           (\E value \in Measure : BeginCheckIn(h, a, value)) \/ BeginArchiveGoal(h, a)
    PROVE  GoalsInv'
  <1>1. GoalsTypeOK /\ GoalThere /\ Walked /\ OneWalker
    BY DEF GoalsInv
  <1>2. goal[a] # None /\ goal[a].version \in Nat
    BY <1>1 DEF BeginCheckIn, BeginArchiveGoal, BeginOnGoal, VisibleGoal, GoalsTypeOK, GoalRow
  <1>3. PICK r \in GoalChecks \cup GoalRetires :
            r.goal = a /\ r.op \notin {"walk", "edit"} /\ Enter(h, r)
    <2>1. CASE \E value \in Measure : BeginCheckIn(h, a, value)
      <3>1. PICK value \in Measure : BeginCheckIn(h, a, value)
        BY <2>1
      <3>2. PICK r \in GoalChecks : r = [op |-> "check in", goal |-> a, read |-> goal[a].version, value |-> value]
        BY <1>2 DEF GoalChecks
      <3>3. QED
        BY <3>1, <3>2 DEF BeginCheckIn, BeginOnGoal
    <2>2. CASE BeginArchiveGoal(h, a)
      <3>1. PICK r \in GoalRetires : r = [op |-> "archive", goal |-> a, read |-> goal[a].version]
        BY <1>2 DEF GoalRetires
      <3>2. QED
        BY <2>2, <3>1 DEF BeginArchiveGoal, BeginOnGoal
    <2>3. QED
      BY <2>1, <2>2
  <1>4. at'[h] = r /\ \A g \in Handler : g # h => at'[g] = at[g]
    BY <1>1, <1>3 DEF Enter, GoalsTypeOK
  <1>5. GoalsTypeOK'
    BY <1>1, <1>3 DEF Enter, GoalsTypeOK, goalVars
  <1>6. GoalThere'
    BY <1>1, <1>2, <1>3, <1>4 DEF GoalThere, goalVars
  <1>7. \A g \in Handler : Walker(g)' => g # h /\ Walker(g) /\ at'[g] = at[g]
    BY <1>3, <1>4 DEF Walker
  <1>8. OneWalker' /\ Walked'
    BY <1>1, <1>7 DEF OneWalker, Walked, Path, goalVars
  <1>9. QED
    BY <1>5, <1>6, <1>8, GoalsAside DEF goalVars

LEMMA CheckInKeeps ==
    ASSUME GoalsInv, NEW h \in Handler, CheckIn(h)
    PROVE  GoalsInv'
  <1>1. GoalsTypeOK /\ GoalThere
    BY DEF GoalsInv
  <1>2. at[h] \in GoalChecks /\ at[h] # Idle
    BY <1>1, OtherReads DEF CheckIn
  <1>3. PICK a \in Aim : a = at[h].goal /\ goal[a] # None /\ goal[a] \in GoalRow
    BY <1>1, <1>2 DEF GoalThere, GoalChecks, GoalsTypeOK
  <1>4. PICK value \in Measure : value = at[h].value
    BY <1>2 DEF GoalChecks
  <1>5. PICK row \in GoalRow :
            /\ row = [Renewed(a) EXCEPT !.value = value] /\ row.value = value
            /\ row.parent = goal[a].parent /\ row.version = goal[a].version + 1
    <2>1. PICK d \in GoalRow :
              d = Renewed(a) /\ d.version = goal[a].version + 1 /\ d.parent = goal[a].parent
      BY <1>3, RenewedRow
    <2>2. /\ [d EXCEPT !.value = value] \in GoalRow
          /\ [d EXCEPT !.value = value].value = value
          /\ [d EXCEPT !.value = value].parent = d.parent
          /\ [d EXCEPT !.value = value].version = d.version
      BY DEF GoalRow
    <2>3. QED
      BY <2>1, <2>2
  <1>6. Leave(h) /\ UNCHANGED <<edits, twisted>>
    BY DEF CheckIn
  <1>7. CASE UNCHANGED <<goal, checkIn>>
    BY <1>6, <1>7, GoalsLeave DEF goalVars
  <1>8. CASE /\ SameEdition(at[h]) /\ GoalWritten(a, row)
             /\ checkIn' = checkIn \cup {[goal |-> a, version |-> at[h].read + 1, value |-> value]}
    <2>1. at[h].read + 1 = row.version
      BY <1>3, <1>5, <1>8 DEF SameEdition
    <2>2. NewCheckIn(a, row, value)
      BY <1>5, <1>6, <1>8, <2>1 DEF NewCheckIn
    <2>3. StaysBelow(h, a, row)
      BY <1>5 DEF StaysBelow
    <2>4. QED
      BY <1>3, <1>5, <1>6, <1>8, <2>2, <2>3, GoalWrites
  <1>9. QED
    BY <1>3, <1>4, <1>5, <1>7, <1>8 DEF CheckIn, GoalWritten

LEMMA ArchiveGoalKeeps ==
    ASSUME GoalsInv, NEW h \in Handler, ArchiveGoal(h)
    PROVE  GoalsInv'
  <1>1. GoalsTypeOK /\ GoalThere
    BY DEF GoalsInv
  <1>2. at[h] \in GoalRetires /\ at[h] # Idle
    BY <1>1, OtherReads DEF ArchiveGoal
  <1>3. PICK a \in Aim : a = at[h].goal /\ goal[a] # None /\ goal[a] \in GoalRow
    BY <1>1, <1>2 DEF GoalThere, GoalRetires, GoalsTypeOK
  <1>4. PICK row \in GoalRow :
            /\ row = [Renewed(a) EXCEPT !.archived = TRUE]
            /\ row.parent = goal[a].parent /\ row.version = goal[a].version + 1
    <2>1. PICK d \in GoalRow :
              d = Renewed(a) /\ d.version = goal[a].version + 1 /\ d.parent = goal[a].parent
      BY <1>3, RenewedRow
    <2>2. /\ [d EXCEPT !.archived = TRUE] \in GoalRow
          /\ [d EXCEPT !.archived = TRUE].parent = d.parent
          /\ [d EXCEPT !.archived = TRUE].version = d.version
      BY DEF GoalRow
    <2>3. QED
      BY <2>1, <2>2
  <1>5. GoalWritten(a, row)
    BY <1>3, <1>4 DEF ArchiveGoal, GoalWritten
  <1>6. goal'[a] = row
    BY <1>1, <1>5 DEF GoalsTypeOK, GoalWritten
  <1>7. NewEdit(a, row)
    BY <1>3, <1>6 DEF ArchiveGoal, NewEdit
  <1>8. StaysBelow(h, a, row)
    BY <1>4 DEF StaysBelow
  <1>9. Leave(h) /\ UNCHANGED twisted
    BY DEF ArchiveGoal
  <1>10. QED
    BY <1>3, <1>4, <1>5, <1>7, <1>8, <1>9, GoalWrites

\* For every set of goals and handlers, and every bound on the walk: the versions of a goal
\* were made one after the other, its value is that of the last check-in or edit, and no
\* goal is among its own ancestors unless two changes of a parent met (src/lib/goals.ts,
\* src/app/api/goals).
THEOREM GoalsAreKept ==
    ASSUME NEW requests
    PROVE  GoalsSpec(requests) => []GoalsKept
  <1>1. GoalsInit /\ HandlersInit(requests) => GoalsInv
    BY GoalsInitKeeps
  <1>2. GoalsInv /\ [GoalsNext]_goalState => GoalsInv'
    <2> SUFFICES ASSUME GoalsInv, [GoalsNext]_goalState PROVE GoalsInv'
      OBVIOUS
    <2>1. CASE UNCHANGED goalState
      <3>1. UNCHANGED <<goal, checkIn, edits, twisted, at>>
        BY <2>1 DEF goalState, goalVars, handlers
      <3>2. GoalsTypeOK' /\ GoalThere' /\ Walked' /\ OneWalker'
        BY <3>1 DEF GoalsInv, GoalsTypeOK, GoalThere, Walked, OneWalker, Walker
      <3>3. QED
        BY <3>1, <3>2, GoalsAside
    <2>2. CASE \E h \in Handler, a \in Aim :
                 (\E value \in Measure : BeginCheckIn(h, a, value)) \/ BeginArchiveGoal(h, a)
      BY <2>2, BeginOtherKeeps DEF BeginCheckIn, BeginArchiveGoal
    <2>3. CASE GoalsNext /\ ~ \E h \in Handler, a \in Aim :
                 (\E value \in Measure : BeginCheckIn(h, a, value)) \/ BeginArchiveGoal(h, a)
      BY <2>3, CreateGoalKeeps, BeginEditGoalKeeps, WalkUpKeeps, EditGoalKeeps, CheckInKeeps,
         ArchiveGoalKeeps DEF GoalsNext
    <2>4. QED
      BY <2>1, <2>2, <2>3
  <1>3. GoalsInv => GoalsKept
    BY DEF GoalsInv, GoalsKept
  <1>4. QED
    BY <1>1, <1>2, <1>3, PTL DEF GoalsSpec
-----------------------------------------------------------------------------
(* Links: while creations do not meet and no link is turned into one that  *)
(* blocks, the arrows make no cycle.                                       *)

linksState == <<handlers, dependencyVars>>

LinksSpec(requests) == DependenciesInit /\ HandlersInit(requests) /\ [][DependenciesNext]_linksState

LinkCreates == [op : {"create"}, link : LinkRow]
LinkChanges == [op : {"change"}, row : Nat, term : Terms]
LinkRemoves == [op : {"remove"}, row : Nat]

LinksTypeOK ==
  /\ edge \in Seq(LinkRow \cup {None})
  /\ at \in [Handler -> {Idle} \cup LinkCreates \cup LinkChanges \cup LinkRemoves]

OneCreation == \A g, h \in Creating : g = h

\* What the search found still holds when the link is written.
SearchStands == \A h \in Creating : ~Leads(Arrows, at[h].link.to, at[h].link.from)

LinksInv == LinksTypeOK /\ (crossed \/ (NoWayBack /\ OneCreation /\ SearchStands))

\* A walk along more arrows, but one that nothing leads back to: it takes that one
\* once at most.
LEMMA OneArrowMore ==
    ASSUME NEW A, NEW B \in SUBSET (Node \X Node), NEW f \in Node, NEW t \in Node,
           B \subseteq A \cup {<<f, t>>},
           ~Leads(A, t, f), NEW m \in Node, NEW n \in Node, Leads(B, m, n)
    PROVE  Leads(A, m, n) \/ (Leads(A, m, f) /\ Leads(A, t, n))
  <1> DEFINE From(x) == {y \in Node : Leads(A, x, y)}
             S == From(m) \cup {y \in From(t) : Leads(A, m, f)}
  <1>1. \A x \in Node : x \in From(x)
    BY DEF Leads
  <1>2. \A x \in Node : \A a \in A : a[1] \in From(x) /\ a[2] \in Node => a[2] \in From(x)
    BY DEF Leads
  <1>3. \A x \in Node : \A y : y \in From(x) <=> y \in Node /\ Leads(A, x, y)
    OBVIOUS
  <1>4. /\ S \subseteq Node
        /\ \A y : y \in S <=> y \in From(m) \/ (y \in From(t) /\ Leads(A, m, f))
    OBVIOUS
  <1> HIDE DEF From, S
  <1>5. ASSUME NEW b \in B, b[1] \in S
        PROVE  b[2] \in S
    <2>1. b[2] \in Node
      OBVIOUS
    <2>2. CASE b \in A
      BY <1>2, <1>4, <1>5, <2>1, <2>2
    <2>3. CASE b = <<f, t>>
      <3>1. b[1] = f /\ b[2] = t
        BY <2>3
      <3>2. f \notin From(t)
        BY <1>3
      <3>3. f \in From(m)
        BY <1>4, <1>5, <3>1, <3>2
      <3>4. QED
        BY <1>1, <1>3, <1>4, <3>1, <3>3
    <2>4. QED
      BY <2>2, <2>3
  <1>6. m \in S
    BY <1>1, <1>4
  <1>7. n \in S
    BY <1>4, <1>5, <1>6 DEF Leads
  <1>8. QED
    BY <1>3, <1>4, <1>7

\* One more arrow that nothing leads back to makes no cycle; fewer arrows make none.
LEMMA StillNoWayBack ==
    ASSUME NEW A \in SUBSET (Node \X Node), NEW B \in SUBSET (Node \X Node),
           NEW f \in Node, NEW t \in Node,
           \A a \in A : ~Leads(A, a[2], a[1]),
           B \subseteq A \/ (B \subseteq A \cup {<<f, t>>} /\ ~Leads(A, t, f))
    PROVE  \A b \in B : ~Leads(B, b[2], b[1])
  <1> SUFFICES ASSUME NEW b \in B, Leads(B, b[2], b[1])
               PROVE  FALSE
    OBVIOUS
  <1>1. b[1] \in Node /\ b[2] \in Node
    OBVIOUS
  <1>2. CASE B \subseteq A
    <2>1. Leads(A, b[2], b[1])
      BY <1>2 DEF Leads
    <2>2. QED
      BY <1>2, <2>1
  <1>3. CASE B \subseteq A \cup {<<f, t>>} /\ ~Leads(A, t, f)
    <2>1. \/ Leads(A, b[2], b[1])
          \/ Leads(A, b[2], f) /\ Leads(A, t, b[1])
      BY <1>1, <1>3, OneArrowMore
    <2>2. CASE b \in A
      <3>1. Leads(A, b[2], f) /\ Leads(A, t, b[1])
        BY <2>1, <2>2
      <3>2. Leads(A, t, b[2])
        BY <1>1, <2>2, <3>1 DEF Leads
      <3>3. Leads(A, t, f)
        BY <1>1, <3>1, <3>2 DEF Leads
      <3>4. QED
        BY <1>3, <3>3
    <2>3. CASE b = <<f, t>>
      <3>1. b[1] = f /\ b[2] = t
        BY <2>3
      <3>2. QED
        BY <1>3, <2>1, <3>1
    <2>4. QED
      BY <1>3, <2>2, <2>3
  <1>4. QED
    BY <1>2, <1>3

LEMMA ArrowsOfRows ==
    ASSUME edge \in Seq(LinkRow \cup {None})
    PROVE  Arrows \in SUBSET (Node \X Node)
  BY DEF Arrows, Blocking, LinkRow

\* With fewer arrows nothing leads where nothing led.
LEMMA FewerArrows ==
    ASSUME NEW A, NEW B, B \subseteq A, NEW m, NEW n, Leads(B, m, n)
    PROVE  Leads(A, m, n)
  BY DEF Leads

LEMMA LinkTasks ==
    ASSUME LinksTypeOK, NEW h \in Handler
    PROVE  /\ Busy(h, "create") => at[h] \in LinkCreates
           /\ Busy(h, "change") => at[h] \in LinkChanges
           /\ Busy(h, "remove") => at[h] \in LinkRemoves
  <1>1. at[h] \in {Idle} \cup LinkCreates \cup LinkChanges \cup LinkRemoves
    BY DEF LinksTypeOK
  <1>2. /\ \A r \in LinkCreates : r.op = "create"
        /\ \A r \in LinkChanges : r.op = "change"
        /\ \A r \in LinkRemoves : r.op = "remove"
        /\ Idle.op = "idle"
    BY DEF LinkCreates, LinkChanges, LinkRemoves, Idle
  <1>3. QED
    BY <1>1, <1>2 DEF Busy

\* A step after which no more is created than before, and there is no new arrow.
LEMMA NoNewArrow ==
    ASSUME LinksInv, LinksTypeOK', Arrows' \subseteq Arrows \/ crossed',
           crossed => crossed',
           \A h \in Creating' : h \in Creating /\ at'[h] = at[h]
    PROVE  LinksInv'
  <1> SUFFICES ASSUME ~crossed', Arrows' \subseteq Arrows, NoWayBack, OneCreation, SearchStands
               PROVE  NoWayBack' /\ OneCreation' /\ SearchStands'
    BY DEF LinksInv
  <1>1. PICK A, B : A = Arrows /\ B = Arrows'
    OBVIOUS
  <1>2. A \in SUBSET (Node \X Node) /\ B \subseteq A
    BY <1>1, ArrowsOfRows DEF LinksInv, LinksTypeOK
  <1>3. \A a \in A : ~Leads(A, a[2], a[1])
    BY <1>1 DEF NoWayBack
  <1>4. \A b \in B : ~Leads(B, b[2], b[1])
    BY <1>2, <1>3, FewerArrows
  <1>5. NoWayBack'
    BY <1>1, <1>4 DEF NoWayBack
  <1>6. OneCreation'
    BY DEF OneCreation
  <1>7. SearchStands'
    BY <1>1, <1>2, FewerArrows DEF SearchStands
  <1>8. QED
    BY <1>5, <1>6, <1>7

\* No handler but h writes its record.
LEMMA OtherLinkTasks ==
    ASSUME LinksTypeOK, NEW h \in Handler, NEW r, at' = [at EXCEPT ![h] = r]
    PROVE  at'[h] = r /\ \A g \in Handler \ {h} : at'[g] = at[g]
  BY DEF LinksTypeOK

LEMMA BeginLinkKeeps ==
    ASSUME LinksInv, NEW h \in Handler, NEW from \in Node, NEW to \in Node, NEW term \in Terms,
           BeginLink(h, Link(from, to, term))
    PROVE  LinksInv'
  <1>1. PICK link \in LinkRow : link = Link(from, to, term) /\ link.from = from /\ link.to = to
    <2>1. Link(from, to, term) \in LinkRow
      BY DEF Link, LinkRow, Terms, Lag, Node
    <2>2. QED
      BY <2>1 DEF Link
  <1>2. PICK r \in LinkCreates : r = [op |-> "create", link |-> link] /\ r.op = "create" /\ r.link = link
    <2>1. [op |-> "create", link |-> link] \in LinkCreates
      BY DEF LinkCreates
    <2>2. [op |-> "create", link |-> link].op = "create" /\ [op |-> "create", link |-> link].link = link
      OBVIOUS
    <2>3. QED
      BY <2>1, <2>2, Zenon
  <1>3. at' = [at EXCEPT ![h] = r] /\ edge' = edge /\ at[h] = Idle
    BY <1>1, <1>2 DEF BeginLink, Enter
  <1>4. at'[h] = r /\ \A g \in Handler \ {h} : at'[g] = at[g]
    BY <1>3, OtherLinkTasks DEF LinksInv
  <1>5. LinksTypeOK'
    BY <1>2, <1>3 DEF LinksInv, LinksTypeOK
  <1>6. Arrows' = Arrows
    BY <1>3 DEF Arrows, Blocking
  <1>7. \A g \in Handler \ {h} : g \in Creating' <=> g \in Creating
    BY <1>4 DEF Creating, Busy
  <1>8. crossed => crossed'
    BY DEF BeginLink
  <1>9. CASE link.type # "blocks"
    <2>1. h \notin Creating'
      BY <1>2, <1>4, <1>9 DEF Creating
    <2>2. \A g \in Creating' : g \in Creating /\ at'[g] = at[g]
      BY <1>4, <1>7, <2>1 DEF Creating
    <2>3. QED
      BY <1>5, <1>6, <1>8, <2>2, NoNewArrow
  <1>10. CASE link.type = "blocks"
    <2>1. SUFFICES ASSUME ~crossed'
                   PROVE  NoWayBack' /\ OneCreation' /\ SearchStands'
      BY <1>5 DEF LinksInv
    <2>2. Creating = {} /\ ~crossed /\ ~IntroducesCycle(from, to)
      BY <1>1, <1>10, <2>1 DEF BeginLink
    <2>3. Creating' \subseteq {h}
      BY <1>7, <2>2 DEF Creating
    <2>4. NoWayBack'
      BY <1>6, <2>2 DEF LinksInv, NoWayBack
    <2>5. ~Leads(Arrows, to, from)
      BY <2>2 DEF IntroducesCycle
    <2>6. at'[h].link.to = to /\ at'[h].link.from = from
      BY <1>1, <1>2, <1>4
    <2>7. SearchStands'
      BY <1>6, <2>3, <2>5, <2>6 DEF SearchStands
    <2>8. QED
      BY <2>3, <2>4, <2>7 DEF OneCreation
  <1>11. QED
    BY <1>9, <1>10

LEMMA CreateLinkKeeps ==
    ASSUME LinksInv, NEW h \in Handler, CreateLink(h)
    PROVE  LinksInv'
  <1>1. PICK link \in LinkRow : link = at[h].link
    BY LinkTasks DEF CreateLink, LinkCreates, LinksInv
  <1>2. /\ at' = [at EXCEPT ![h] = Idle] /\ crossed' = crossed
        /\ edge' = edge \/ edge' = Append(edge, link)
    BY <1>1 DEF CreateLink, Leave, Proceed
  <1>3. at'[h] = Idle /\ \A g \in Handler \ {h} : at'[g] = at[g]
    BY <1>2, OtherLinkTasks DEF LinksInv
  <1>4. LinksTypeOK'
    BY <1>2 DEF LinksInv, LinksTypeOK
  <1>5. h \notin Creating'
    BY <1>3 DEF Creating, Busy, Idle
  <1>6. \A g \in Creating' : g \in Creating /\ at'[g] = at[g]
    BY <1>3, <1>5 DEF Creating, Busy
  <1>7. \A j \in Blocking' : \/ j \in Blocking /\ edge'[j] = edge[j]
                             \/ edge'[j] = link /\ link.type = "blocks"
    <2>1. edge \in Seq(LinkRow \cup {None})
      BY DEF LinksInv, LinksTypeOK
    <2>2. \A j \in DOMAIN edge' : (j \in DOMAIN edge /\ edge'[j] = edge[j]) \/ edge'[j] = link
      BY <1>2, <2>1
    <2>3. QED
      BY <2>2 DEF Blocking
  <1>8. Arrows' \subseteq Arrows \cup {<<link.from, link.to>>}
    BY <1>7 DEF Arrows
  <1>9. link.type # "blocks" => Arrows' \subseteq Arrows
    BY <1>7 DEF Arrows
  <1>10. CASE link.type # "blocks"
    BY <1>2, <1>4, <1>6, <1>9, <1>10, NoNewArrow
  <1>11. CASE link.type = "blocks"
    <2>1. SUFFICES ASSUME ~crossed'
                   PROVE  NoWayBack' /\ OneCreation' /\ SearchStands'
      BY <1>4 DEF LinksInv
    <2>2. NoWayBack /\ OneCreation /\ SearchStands
      BY <1>2, <2>1 DEF LinksInv
    <2>3. h \in Creating
      BY <1>1, <1>11 DEF Creating, CreateLink
    <2>4. Creating' = {}
      BY <1>5, <1>6, <2>2, <2>3 DEF OneCreation
    <2>5. PICK A, B : A = Arrows /\ B = Arrows'
      OBVIOUS
    <2>6. A \in SUBSET (Node \X Node) /\ B \in SUBSET (Node \X Node)
      <3>1. A \in SUBSET (Node \X Node)
        BY <2>5, ArrowsOfRows DEF LinksInv, LinksTypeOK
      <3>2. <<link.from, link.to>> \in Node \X Node
        BY DEF LinkRow
      <3>3. QED
        BY <1>8, <2>5, <3>1, <3>2
    <2>7. ~Leads(A, link.to, link.from)
      BY <1>1, <2>2, <2>3, <2>5 DEF SearchStands
    <2>8. \A a \in A : ~Leads(A, a[2], a[1])
      BY <2>2, <2>5 DEF NoWayBack
    <2>9. link.from \in Node /\ link.to \in Node /\ B \subseteq A \cup {<<link.from, link.to>>}
      BY <1>8, <2>5 DEF LinkRow
    <2>10. \A b \in B : ~Leads(B, b[2], b[1])
      BY <2>6, <2>7, <2>8, <2>9, StillNoWayBack
    <2>11. NoWayBack'
      BY <2>5, <2>10 DEF NoWayBack
    <2>12. QED
      BY <2>4, <2>11 DEF OneCreation, SearchStands
  <1>12. QED
    BY <1>10, <1>11

\* A row that is written in place of another has its ends, and blocks only if that did.
LEMMA RowReplaced ==
    ASSUME LinksTypeOK, NEW i \in Nat, NEW row \in LinkRow \cup {None},
           edge' = [edge EXCEPT ![i] = row],
           i \in DOMAIN edge /\ row # None /\ row.type = "blocks" =>
             i \in Blocking /\ row.from = edge[i].from /\ row.to = edge[i].to
    PROVE  Arrows' \subseteq Arrows
  <1>1. edge \in Seq(LinkRow \cup {None}) /\ DOMAIN edge' = DOMAIN edge
    BY DEF LinksTypeOK
  <1>2. \A j \in DOMAIN edge : edge'[j] = IF j = i THEN row ELSE edge[j]
    BY <1>1
  <1>3. \A j \in Blocking' : /\ j \in Blocking
                             /\ edge'[j].from = edge[j].from /\ edge'[j].to = edge[j].to
    BY <1>1, <1>2 DEF Blocking
  <1>4. QED
    BY <1>3 DEF Arrows

LEMMA ReplacedType ==
    ASSUME LinksTypeOK, NEW i \in Nat, NEW row \in LinkRow \cup {None}
    PROVE  [edge EXCEPT ![i] = row] \in Seq(LinkRow \cup {None})
  <1>1. PICK S : S = LinkRow \cup {None}
    OBVIOUS
  <1>2. edge \in Seq(S) /\ row \in S
    BY <1>1 DEF LinksTypeOK
  <1>3. [edge EXCEPT ![i] = row] \in Seq(S)
    <2>1. CASE i \in 1 .. Len(edge)
      BY <1>2, <2>1, ExceptSeq
    <2>2. CASE i \notin 1 .. Len(edge)
      <3>1. [edge EXCEPT ![i] = row] = edge
        BY <1>2, <2>2
      <3>2. QED
        BY <1>2, <3>1
    <2>3. QED
      BY <2>1, <2>2
  <1>4. QED
    BY <1>1, <1>3

LEMMA ChangeLinkKeeps ==
    ASSUME LinksInv, NEW h \in Handler, ChangeLink(h)
    PROVE  LinksInv'
  <1>1. PICK r \in LinkChanges : r = at[h]
    BY LinkTasks DEF ChangeLink, LinksInv
  <1>2. at' = [at EXCEPT ![h] = Idle] /\ (crossed => crossed')
    BY DEF ChangeLink, Leave, Proceed
  <1>3. at'[h] = Idle /\ \A g \in Handler \ {h} : at'[g] = at[g]
    BY <1>2, OtherLinkTasks DEF LinksInv
  <1>4. \A g \in Creating' : g \in Creating /\ at'[g] = at[g]
    BY <1>3 DEF Creating, Busy, Idle
  <1>5. CASE edge' = edge /\ crossed' = crossed
    <2>1. LinksTypeOK' /\ Arrows' = Arrows
      BY <1>2, <1>5 DEF LinksInv, LinksTypeOK, Arrows, Blocking
    <2>2. QED
      BY <1>2, <1>4, <2>1, NoNewArrow
  <1>6. CASE ~(edge' = edge /\ crossed' = crossed)
    <2>1. /\ There(r.row) /\ r.row \in Nat /\ r.term \in Terms
          /\ edge' = [edge EXCEPT ![r.row] = Link(edge[r.row].from, edge[r.row].to, r.term)]
          /\ crossed' = (crossed \/ (r.term.type = "blocks" /\ edge[r.row].type # "blocks"))
      BY <1>1, <1>6 DEF ChangeLink, LinkChanges
    <2>2. PICK old \in LinkRow : old = edge[r.row] /\ r.row \in DOMAIN edge
      BY <2>1 DEF There, LinksInv, LinksTypeOK
    <2>3. PICK row \in LinkRow : /\ row = Link(old.from, old.to, r.term)
                                /\ row.from = old.from /\ row.to = old.to /\ row.type = r.term.type
      <3>1. Link(old.from, old.to, r.term) \in LinkRow
        BY <2>1 DEF Link, LinkRow, Terms, Lag, Node
      <3>2. QED
        BY <3>1 DEF Link
    <2>4. edge' = [edge EXCEPT ![r.row] = row]
      BY <2>1, <2>2, <2>3
    <2>5. LinksTypeOK'
      BY <1>2, <2>1, <2>4, ReplacedType DEF LinksInv, LinksTypeOK
    <2>6. crossed' \/ row.type # "blocks" \/ r.row \in Blocking
      BY <2>1, <2>2, <2>3 DEF Blocking, There
    <2>7. crossed' \/ Arrows' \subseteq Arrows
      <3>1. SUFFICES ASSUME ~crossed'
                     PROVE  Arrows' \subseteq Arrows
        OBVIOUS
      <3>2. row.type = "blocks" =>
              r.row \in Blocking /\ row.from = edge[r.row].from /\ row.to = edge[r.row].to
        BY <2>2, <2>3, <2>6, <3>1
      <3>3. LinksTypeOK /\ r.row \in Nat
        BY <2>1 DEF LinksInv
      <3>4. QED
        BY <2>4, <3>2, <3>3, RowReplaced
    <2>8. QED
      BY <1>2, <1>4, <2>5, <2>7, NoNewArrow
  <1>7. QED
    BY <1>5, <1>6

LEMMA RemoveLinkKeeps ==
    ASSUME LinksInv, NEW h \in Handler, RemoveLink(h)
    PROVE  LinksInv'
  <1>1. PICK r \in LinkRemoves : r = at[h]
    BY LinkTasks DEF RemoveLink, LinksInv
  <1>2. /\ at' = [at EXCEPT ![h] = Idle] /\ crossed' = crossed
        /\ edge' = [edge EXCEPT ![r.row] = None] /\ r.row \in Nat
    BY <1>1 DEF RemoveLink, Leave, Proceed, LinkRemoves
  <1>3. at'[h] = Idle /\ \A g \in Handler \ {h} : at'[g] = at[g]
    BY <1>2, OtherLinkTasks DEF LinksInv
  <1>4. \A g \in Creating' : g \in Creating /\ at'[g] = at[g]
    BY <1>3 DEF Creating, Busy, Idle
  <1>5. LinksTypeOK'
    BY <1>2, ReplacedType DEF LinksInv, LinksTypeOK
  <1>6. Arrows' \subseteq Arrows
    BY <1>2, RowReplaced DEF LinksInv
  <1>7. QED
    BY <1>2, <1>4, <1>5, <1>6, NoNewArrow

LEMMA BeginOnLinkKeeps ==
    ASSUME LinksInv, NEW h \in Handler, NEW r \in LinkChanges \cup LinkRemoves, BeginOnLink(h, r)
    PROVE  LinksInv'
  <1>1. at' = [at EXCEPT ![h] = r] /\ edge' = edge /\ crossed' = crossed
    BY DEF BeginOnLink, Enter, dependencyVars
  <1>2. at'[h] = r /\ \A g \in Handler \ {h} : at'[g] = at[g]
    BY <1>1, OtherLinkTasks DEF LinksInv
  <1>3. r.op # "create"
    BY DEF LinkChanges, LinkRemoves
  <1>4. \A g \in Creating' : g \in Creating /\ at'[g] = at[g]
    BY <1>2, <1>3 DEF Creating, Busy
  <1>5. LinksTypeOK' /\ Arrows' = Arrows
    BY <1>1 DEF LinksInv, LinksTypeOK, Arrows, Blocking
  <1>6. QED
    BY <1>1, <1>4, <1>5, NoNewArrow

LEMMA LinksInvInductive ==
    ASSUME LinksInv, [DependenciesNext]_linksState
    PROVE  LinksInv'
  <1>1. ASSUME NEW h \in Handler, NEW from \in Node, NEW to \in Node, NEW term \in Terms,
               BeginLink(h, Link(from, to, term))
        PROVE  LinksInv'
    BY <1>1, BeginLinkKeeps
  <1>2. ASSUME NEW h \in Handler, NEW i \in DOMAIN edge, NEW term \in Terms,
               BeginOnLink(h, [op |-> "change", row |-> i, term |-> term])
        PROVE  LinksInv'
    <2>1. [op |-> "change", row |-> i, term |-> term] \in LinkChanges
      BY DEF LinksInv, LinksTypeOK, LinkChanges
    <2>2. QED
      BY <1>2, <2>1, BeginOnLinkKeeps
  <1>3. ASSUME NEW h \in Handler, NEW i \in DOMAIN edge, BeginOnLink(h, [op |-> "remove", row |-> i])
        PROVE  LinksInv'
    <2>1. [op |-> "remove", row |-> i] \in LinkRemoves
      BY DEF LinksInv, LinksTypeOK, LinkRemoves
    <2>2. QED
      BY <1>3, <2>1, BeginOnLinkKeeps
  <1>4. ASSUME NEW h \in Handler, CreateLink(h) \/ ChangeLink(h) \/ RemoveLink(h)
        PROVE  LinksInv'
    BY <1>4, CreateLinkKeeps, ChangeLinkKeeps, RemoveLinkKeeps
  <1>5. CASE UNCHANGED linksState
    <2>1. at' = at /\ edge' = edge /\ crossed' = crossed
      BY <1>5 DEF linksState, handlers, dependencyVars
    <2>2. LinksTypeOK' /\ Arrows' = Arrows
      BY <2>1 DEF LinksInv, LinksTypeOK, Arrows, Blocking
    <2>3. \A g \in Creating' : g \in Creating /\ at'[g] = at[g]
      BY <2>1 DEF Creating, Busy
    <2>4. QED
      BY <2>1, <2>2, <2>3, NoNewArrow
  <1>6. QED
    BY <1>1, <1>2, <1>3, <1>4, <1>5 DEF DependenciesNext

\* Links that are created one after the other make no cycle, of whatever length (the
\* search before the transaction), for every number of issues, links and handlers.
THEOREM LinksAreOrdered ==
    ASSUME NEW requests
    PROVE  LinksSpec(requests) => []LinksOrdered
  <1>1. DependenciesInit /\ HandlersInit(requests) => LinksInv
    BY DEF DependenciesInit, HandlersInit, LinksInv, LinksTypeOK, NoWayBack, OneCreation, SearchStands,
           Creating, Busy, Idle, Arrows, Blocking
  <1>2. LinksInv /\ [DependenciesNext]_linksState => LinksInv'
    BY LinksInvInductive
  <1>3. LinksInv => LinksOrdered
    BY DEF LinksInv, LinksOrdered
  <1>4. QED
    BY <1>1, <1>2, <1>3, PTL DEF LinksSpec
-----------------------------------------------------------------------------
(* PlanReport: the pages of a plan at rest hold each of its first issues   *)
(* once, in their order.                                                   *)

reportState == <<handlers, reportVars>>

ReportSpec(requests) == ReportInit /\ HandlersInit(requests) /\ [][ReportNext]_reportState

Reporting == [op : {"report"}, total : Nat, page : Nat, items : Seq(PieceRow), rest : BOOLEAN]

ReportTypeOK ==
  /\ work \in [Piece -> PieceRow]
  /\ at \in [Handler -> {Idle} \cup Reporting]

\* What a handler has read of a plan at rest.
ReadSoFar(r) ==
  /\ r.total = Cardinality(PlanItems) /\ r.page \in 1 .. LastPage(r.total) + 1
  /\ Len(r.items) = IF r.page - 1 <= r.total THEN r.page - 1 ELSE r.total
  /\ \A i \in PlanItems : Preceding(i) < Len(r.items) => r.items[Preceding(i) + 1] = work[i]

ReportInv ==
  /\ ReportTypeOK
  /\ \A h \in Handler : Busy(h, "report") /\ at[h].rest => ReadSoFar(at[h])
  /\ ReportExact

\* The order of the pages is a strict order of all issues.
LEMMA BeforeIsOrder ==
    ASSUME ReportTypeOK, NEW i \in Piece, NEW j \in Piece, NEW k \in Piece
    PROVE  /\ ~Before(i, i)
           /\ Before(i, j) /\ Before(j, k) => Before(i, k)
           /\ i # j => Before(i, j) \/ Before(j, i)
  <1>1. work[i].due \in Int \cup {None} /\ work[j].due \in Int \cup {None} /\ work[k].due \in Int \cup {None}
    BY ReportAssumption DEF ReportTypeOK, PieceRow, Due
  <1>2. QED
    BY <1>1, ReportAssumption DEF Before, Piece

LEMMA PlanIsFinite ==
    /\ IsFiniteSet(PlanItems) /\ Cardinality(PlanItems) \in Nat
    /\ PlanItems \subseteq Piece
    /\ \A i : /\ IsFiniteSet({j \in PlanItems : Before(j, i)}) /\ Preceding(i) \in Nat
              /\ Preceding(i) = Cardinality({j \in PlanItems : Before(j, i)})
  <1>1. PlanItems \in SUBSET Piece
    BY DEF PlanItems
  <1>2. IsFiniteSet(PlanItems)
    <2>1. IsFiniteSet(Piece)
      BY FS_Interval, ReportAssumption DEF Piece
    <2>2. QED
      BY <1>1, <2>1, FS_Subset
  <1>3. ASSUME NEW i
        PROVE  IsFiniteSet({j \in PlanItems : Before(j, i)}) /\ Preceding(i) \in Nat
    <2>1. {j \in PlanItems : Before(j, i)} \in SUBSET PlanItems
      OBVIOUS
    <2>2. QED
      BY <1>2, <2>1, FS_Subset, FS_CardinalityType DEF Preceding
  <1>4. QED
    BY <1>1, <1>2, <1>3, FS_CardinalityType DEF Preceding

LEMMA PrecedingRises ==
    ASSUME ReportTypeOK, NEW i \in PlanItems, NEW j \in PlanItems, Before(i, j)
    PROVE  Preceding(i) < Preceding(j)
  <1> DEFINE S == {k \in PlanItems : Before(k, i)}
             T == {k \in PlanItems : Before(k, j)}
  <1>1. S \in SUBSET T
    BY BeforeIsOrder, PlanIsFinite
  <1>2. i \in T /\ i \notin S
    BY BeforeIsOrder, PlanIsFinite
  <1>3. IsFiniteSet(T) /\ Cardinality(S) \in Nat /\ Cardinality(T) \in Nat
        /\ Preceding(i) = Cardinality(S) /\ Preceding(j) = Cardinality(T)
    BY PlanIsFinite
  <1> HIDE DEF S, T
  <1>4. QED
    BY <1>1, <1>2, <1>3, FS_Subset

\* The number of the issues before an issue is its place in the plan.
LEMMA PlanPlaces ==
    ASSUME ReportTypeOK
    PROVE  /\ \A i \in PlanItems : Preceding(i) \in 0 .. Cardinality(PlanItems) - 1
           /\ \A i, j \in PlanItems : Preceding(i) = Preceding(j) => i = j
           /\ \A k \in 0 .. Cardinality(PlanItems) - 1 : \E i \in PlanItems : Preceding(i) = k
  <1>1. ASSUME NEW i \in PlanItems
        PROVE  Preceding(i) \in 0 .. Cardinality(PlanItems) - 1
    <2> DEFINE S == {k \in PlanItems : Before(k, i)}
    <2>1. S \in SUBSET PlanItems /\ i \notin S
      BY BeforeIsOrder, PlanIsFinite
    <2>2. Preceding(i) = Cardinality(S) /\ Cardinality(S) \in Nat
      BY PlanIsFinite
    <2> HIDE DEF S
    <2>3. Cardinality(S) <= Cardinality(PlanItems) /\ Cardinality(S) # Cardinality(PlanItems)
      BY <2>1, PlanIsFinite, FS_Subset
    <2>4. QED
      BY <2>2, <2>3, PlanIsFinite
  <1>2. ASSUME NEW i \in PlanItems, NEW j \in PlanItems, Preceding(i) = Preceding(j)
        PROVE  i = j
    <2>1. i \in Piece /\ j \in Piece /\ Preceding(i) \in Nat
      BY PlanIsFinite
    <2>2. ~Before(i, j) /\ ~Before(j, i)
      BY <1>2, <2>1, PrecedingRises, PlanIsFinite
    <2>3. QED
      BY <2>1, <2>2, BeforeIsOrder
  <1>3. \A k \in 0 .. Cardinality(PlanItems) - 1 : \E i \in PlanItems : Preceding(i) = k
    <2> DEFINE N == Cardinality(PlanItems)
               place == [i \in PlanItems |-> Preceding(i)]
    <2>1. place \in Injection(PlanItems, 0 .. N - 1)
      BY <1>1, <1>2 DEF Injection, IsInjective
    <2>2. IsFiniteSet(0 .. N - 1) /\ Cardinality(0 .. N - 1) = N
      BY PlanIsFinite, FS_Interval
    <2>3. place \in Surjection(PlanItems, 0 .. N - 1)
      BY <2>1, <2>2, FS_Injection
    <2>4. QED
      BY <2>3 DEF Surjection
  <1>4. QED
    BY <1>1, <1>2, <1>3

\* Issues are counted by their places.
LEMMA CountedByPlace ==
    ASSUME ReportTypeOK, NEW P, NEW Q \in SUBSET PlanItems,
           P \subseteq 1 .. Cardinality(PlanItems),
           \A i \in PlanItems : i \in Q <=> Preceding(i) + 1 \in P
    PROVE  Cardinality(P) = Cardinality(Q)
  <1> DEFINE place == [i \in Q |-> Preceding(i) + 1]
  <1>1. place \in Injection(Q, P)
    <2>1. \A i, j \in Q : Preceding(i) + 1 = Preceding(j) + 1 => i = j
      BY PlanPlaces, PlanIsFinite
    <2>2. QED
      BY <2>1 DEF Injection, IsInjective
  <1>2. place \in Surjection(Q, P)
    <2>1. ASSUME NEW p \in P
          PROVE  \E i \in Q : Preceding(i) + 1 = p
      <3>1. p - 1 \in 0 .. Cardinality(PlanItems) - 1 /\ p \in Nat
        BY PlanIsFinite
      <3>2. PICK i \in PlanItems : Preceding(i) = p - 1
        BY <3>1, PlanPlaces
      <3>3. QED
        BY <3>1, <3>2
    <2>2. QED
      BY <1>1, <2>1 DEF Injection, Surjection
  <1>3. ExistsBijection(Q, P)
    BY <1>1, <1>2 DEF ExistsBijection, Bijection
  <1>4. IsFiniteSet(Q)
    BY PlanIsFinite, FS_Subset
  <1>5. QED
    BY <1>3, <1>4, FS_Bijection

\* What the health of a plan says, number by number.
StillOpen(items) == {k \in DOMAIN items : items[k].state # "done"}
Belated(items)   == {k \in StillOpen(items) : items[k].due # None /\ items[k].due < Today}
Undated(items)   == {k \in StillOpen(items) : items[k].due = None}

LEMMA HealthFields ==
    ASSUME NEW items, NEW total
    PROVE  /\ Health(items, total).total = total
           /\ Health(items, total).bounded = (total > Len(items))
           /\ Health(items, total).completed = Len(items) - Cardinality(StillOpen(items))
           /\ Health(items, total).remaining = Cardinality(StillOpen(items))
           /\ Health(items, total).overdue = Cardinality(Belated(items))
           /\ Health(items, total).unscheduled = Cardinality(Undated(items))
           /\ Health(items, total).lowDays = Ceiling(Points * Cardinality(StillOpen(items)), 8)
           /\ Health(items, total).highDays =
                Ceiling(Points * Cardinality(StillOpen(items)), 3) + 2 * Cardinality(Undated(items))
  BY Zenon DEF Health, StillOpen, Belated, Undated

LEMMA WithheldFields ==
    ASSUME NEW items, NEW total
    PROVE  /\ Withheld(Health(items, total)).total = total
           /\ Withheld(Health(items, total)).completed = 0
           /\ Withheld(Health(items, total)).remaining = 0
           /\ Withheld(Health(items, total)).overdue = 0
           /\ Withheld(Health(items, total)).unscheduled = 0
           /\ Withheld(Health(items, total)).lowDays = 0
           /\ Withheld(Health(items, total)).highDays = 0
  BY DEF Health, Withheld

LEMMA CeilingOrder ==
    ASSUME NEW n \in Nat
    PROVE  Ceiling(Points * n, 8) <= Ceiling(Points * n, 3) /\ Ceiling(Points * n, 3) \in Nat
           /\ Ceiling(Points * n, 8) \in Nat
  <1>1. PICK p \in Nat : p = Points * n
    BY ReportAssumption
  <1>2. (p + 7) \div 8 <= (p + 2) \div 3 /\ (p + 2) \div 3 \in Nat /\ (p + 7) \div 8 \in Nat
    OBVIOUS
  <1>3. QED
    BY <1>1, <1>2 DEF Ceiling

\* Whatever the items are, the numbers agree with each other.
LEMMA HealthAgrees ==
    ASSUME NEW items \in Seq(PieceRow), NEW total
    PROVE  /\ Health(items, total).overdue + Health(items, total).unscheduled
                <= Health(items, total).remaining
           /\ Health(items, total).lowDays <= Health(items, total).highDays
  <1>1. PICK A, B, O : A = Belated(items) /\ B = Undated(items) /\ O = StillOpen(items)
    OBVIOUS
  <1>2. IsFiniteSet(O)
    <2>1. O \in SUBSET (1 .. Len(items)) /\ Len(items) \in Nat
      BY <1>1 DEF StillOpen
    <2>2. IsFiniteSet(1 .. Len(items))
      BY <2>1, FS_Interval
    <2>3. QED
      BY <2>1, <2>2, FS_Subset
  <1>3. A \in SUBSET O /\ B \in SUBSET O /\ A \cup B \in SUBSET O /\ A \cap B = {}
    BY <1>1 DEF Belated, Undated
  <1>4. IsFiniteSet(A) /\ IsFiniteSet(B) /\ Cardinality(A \cup B) <= Cardinality(O)
    BY <1>2, <1>3, FS_Subset
  <1>5. Cardinality(A) \in Nat /\ Cardinality(B) \in Nat /\ Cardinality(O) \in Nat
    BY <1>2, <1>4, FS_CardinalityType
  <1>6. Cardinality(A \cup B) = Cardinality(A) + Cardinality(B) - Cardinality({})
    BY <1>3, <1>4, FS_Union
  <1>7. Cardinality(A) + Cardinality(B) <= Cardinality(O)
    BY <1>4, <1>5, <1>6, FS_EmptySet
  <1>8. Ceiling(Points * Cardinality(O), 8) <= Ceiling(Points * Cardinality(O), 3) + 2 * Cardinality(B)
    <2>1. PICK n, low, high : /\ n = Cardinality(O)
                              /\ low = Ceiling(Points * n, 8) /\ high = Ceiling(Points * n, 3)
      OBVIOUS
    <2>2. low \in Nat /\ high \in Nat /\ low <= high
      BY <1>5, <2>1, CeilingOrder
    <2>3. low <= high + 2 * Cardinality(B)
      BY <1>5, <2>2
    <2>4. QED
      BY <2>1, <2>3
  <1>9. QED
    BY <1>1, <1>7, <1>8, HealthFields

\* A report of a plan at rest that reached its last page says what there is.
LEMMA TruthTold ==
    ASSUME ReportTypeOK, NEW r \in Reporting, ReadSoFar(r), r.page > LastPage(r.total)
    PROVE  \A name \in DOMAIN Truth : Health(r.items, r.total)[name] = Truth[name]
  <1> DEFINE N == Cardinality(PlanItems)
             L == IF N < MaxPages THEN N ELSE MaxPages
             first == {i \in PlanItems : Preceding(i) < MaxPages}
             open == {i \in first : work[i].state = "open"}
             late == {i \in open : work[i].due = Today - 1}
             unplanned == {i \in open : work[i].due = None}
  <1>1. N \in Nat /\ MaxPages \in Nat \ {0} /\ r.items \in Seq(PieceRow)
    BY PlanIsFinite, ReportAssumption DEF Reporting
  <1>2. L \in 0 .. N /\ Len(r.items) = L
    BY <1>1 DEF ReadSoFar, LastPage
  <1>3. \A i \in PlanItems : Preceding(i) \in 0 .. N - 1
    BY PlanPlaces
  <1>4. \A i \in PlanItems : i \in first <=> Preceding(i) + 1 \in 1 .. L
    BY <1>1, <1>3
  <1>5. \A i \in first : r.items[Preceding(i) + 1] = work[i]
    BY <1>1, <1>2, <1>3, <1>4 DEF ReadSoFar
  <1>6. \A i \in PlanItems : work[i] \in PieceRow /\ work[i].state # "archived"
    BY PlanIsFinite DEF PlanItems, ReportTypeOK
  <1>7. \A i \in first : /\ (work[i].state # "done" <=> work[i].state = "open")
                          /\ ((work[i].due # None /\ work[i].due < Today) <=> work[i].due = Today - 1)
    BY <1>6, ReportAssumption DEF PieceRow, Due
  <1>8. first \subseteq PlanItems /\ open \subseteq first /\ late \subseteq open /\ unplanned \subseteq open
    OBVIOUS
  <1>9. \A i \in PlanItems : i \in open <=> Preceding(i) + 1 \in StillOpen(r.items)
    <2> SUFFICES ASSUME NEW i \in PlanItems
                 PROVE  i \in open <=> Preceding(i) + 1 \in StillOpen(r.items)
      OBVIOUS
    <2>1. DOMAIN r.items = 1 .. L
      BY <1>1, <1>2
    <2>2. Preceding(i) + 1 \in StillOpen(r.items) <=>
            Preceding(i) + 1 \in 1 .. L /\ r.items[Preceding(i) + 1].state # "done"
      BY <2>1 DEF StillOpen
    <2>3. i \in open <=> i \in first /\ work[i].state = "open"
      OBVIOUS
    <2> HIDE DEF first, open, L
    <2>4. QED
      BY <1>4, <1>5, <1>7, <2>2, <2>3
  <1>10. \A i \in PlanItems : i \in late <=> Preceding(i) + 1 \in Belated(r.items)
    BY <1>5, <1>7, <1>8, <1>9 DEF Belated, StillOpen
  <1>11. \A i \in PlanItems : i \in unplanned <=> Preceding(i) + 1 \in Undated(r.items)
    BY <1>5, <1>8, <1>9 DEF Undated, StillOpen
  <1>12. Truth = [completed |-> Cardinality(first \ open), remaining |-> Cardinality(open),
                  overdue |-> Cardinality(late), unscheduled |-> Cardinality(unplanned),
                  bounded |-> first # PlanItems]
    BY DEF Truth
  <1>13. StillOpen(r.items) \subseteq 1 .. N /\ Belated(r.items) \subseteq 1 .. N
         /\ Undated(r.items) \subseteq 1 .. N
    BY <1>1, <1>2 DEF StillOpen, Belated, Undated
  <1> HIDE DEF first, open, late, unplanned
  <1>14. /\ Cardinality(open) = Cardinality(StillOpen(r.items))
         /\ Cardinality(late) = Cardinality(Belated(r.items))
         /\ Cardinality(unplanned) = Cardinality(Undated(r.items))
    BY <1>8, <1>9, <1>10, <1>11, <1>13, CountedByPlace
  <1>15. Cardinality(first) = L
    <2> HIDE DEF L, N
    <2>1. 1 .. L \subseteq 1 .. N /\ Cardinality(1 .. L) = L
      BY <1>1, <1>2, FS_Interval
    <2>2. QED
      BY <1>4, <1>8, <2>1, CountedByPlace DEF N
  <1>16. Cardinality(first \ open) = L - Cardinality(open)
    <2>1. IsFiniteSet(first) /\ first \cap open = open
      BY <1>8, PlanIsFinite, FS_Subset
    <2>2. QED
      BY <1>15, <2>1, FS_Difference
  <1>17. first # PlanItems <=> N > L
    BY <1>1, <1>2, <1>8, <1>15, PlanIsFinite, FS_Subset
  <1>18. QED
    <2> DEFINE health == Health(r.items, r.total)
    <2>1. /\ health.completed = Len(r.items) - Cardinality(StillOpen(r.items))
          /\ health.remaining = Cardinality(StillOpen(r.items))
          /\ health.overdue = Cardinality(Belated(r.items))
          /\ health.unscheduled = Cardinality(Undated(r.items))
          /\ health.bounded = (r.total > Len(r.items))
      BY HealthFields
    <2> HIDE DEF health
    <2>2. r.total = N
      BY DEF ReadSoFar
    <2>3. /\ health.completed = Cardinality(first \ open) /\ health.remaining = Cardinality(open)
          /\ health.overdue = Cardinality(late) /\ health.unscheduled = Cardinality(unplanned)
      BY <1>2, <1>14, <1>16, <2>1
    <2>4. health.bounded = (first # PlanItems)
      BY <1>2, <1>17, <2>1, <2>2
    <2>5. \A name \in DOMAIN Truth : health[name] = Truth[name]
      BY <1>12, <2>3, <2>4
    <2>6. QED
      BY <2>5 DEF health

LEMMA ReportTasks ==
    ASSUME ReportTypeOK, NEW h \in Handler
    PROVE  Busy(h, "report") <=> at[h] \in Reporting
  <1>1. at[h] \in {Idle} \cup Reporting
    BY DEF ReportTypeOK
  <1>2. (\A r \in Reporting : r.op = "report") /\ Idle.op = "idle"
    BY DEF Reporting, Idle
  <1>3. QED
    BY <1>1, <1>2 DEF Busy

\* The plan stays as it is, and a handler goes on.
LEMMA ReportProceeds ==
    ASSUME ReportInv, NEW h \in Handler, NEW r \in {Idle} \cup Reporting, at' = [at EXCEPT ![h] = r],
           UNCHANGED <<shared, work>>, ReportExact',
           r \in Reporting /\ r.rest => ReadSoFar(r)
    PROVE  ReportInv'
  <1>1. /\ at'[h] = r /\ \A g \in Handler \ {h} : at'[g] = at[g]
        /\ at' \in [Handler -> {Idle} \cup Reporting]
    BY DEF ReportInv, ReportTypeOK
  <1>2. ReportTypeOK'
    BY <1>1 DEF ReportInv, ReportTypeOK
  <1>3. \A x : ReadSoFar(x) => ReadSoFar(x)'
    BY DEF ReadSoFar, PlanItems, Preceding, Before
  <1>4. (\A x \in Reporting : x.op = "report") /\ Idle.op = "idle"
    BY DEF Reporting, Idle
  <1>5. ASSUME NEW g \in Handler, Busy(g, "report")', at'[g].rest
        PROVE  \A x : x = at'[g] => ReadSoFar(x)
    <2>1. CASE g = h
      <3>1. r \in Reporting /\ r.rest
        BY <1>1, <1>4, <1>5, <2>1 DEF Busy
      <3>2. QED
        BY <1>1, <2>1, <3>1
    <2>2. CASE g # h
      <3>1. Busy(g, "report") /\ at[g].rest /\ at'[g] = at[g]
        BY <1>1, <1>5, <2>2 DEF Busy
      <3>2. QED
        BY <3>1 DEF ReportInv
    <2>3. QED
      BY <2>1, <2>2
  <1>6. \A g \in Handler : Busy(g, "report")' /\ at'[g].rest => ReadSoFar(at[g])'
    <2> SUFFICES ASSUME NEW g \in Handler, Busy(g, "report")', at'[g].rest
                 PROVE  ReadSoFar(at[g])'
      OBVIOUS
    <2>1. PICK x : x = at'[g]
      OBVIOUS
    <2>2. ReadSoFar(x)'
      BY <1>3, <1>5, <2>1
    <2>3. QED
      BY <2>1, <2>2 DEF ReadSoFar
  <1>7. QED
    BY <1>2, <1>6 DEF ReportInv

LEMMA BeginReportKeeps ==
    ASSUME ReportInv, NEW h \in Handler, BeginReport(h)
    PROVE  ReportInv'
  <1>1. PICK total \in Nat : total = Cardinality(PlanItems)
    BY PlanIsFinite
  <1>2. PICK r \in Reporting : /\ r = [op |-> "report", total |-> total, page |-> 1, items |-> <<>>, rest |-> TRUE]
                               /\ r.total = total /\ r.page = 1 /\ r.items = <<>>
    <2> DEFINE x == [op |-> "report", total |-> total, page |-> 1, items |-> <<>>, rest |-> TRUE]
    <2>1. x \in Reporting /\ x.total = total /\ x.page = 1 /\ x.items = <<>>
      BY DEF Reporting
    <2>2. QED
      BY <2>1, Zenon
  <1>3. at' = [at EXCEPT ![h] = r] /\ UNCHANGED <<shared, work, latest>>
    BY <1>1, <1>2 DEF BeginReport, Enter, reportVars
  <1>4. ReadSoFar(r)
    <2>1. LastPage(total) \in Nat \ {0}
      BY ReportAssumption DEF LastPage
    <2>2. Len(r.items) = 0 /\ \A i \in PlanItems : Preceding(i) \in Nat
      BY <1>2, PlanIsFinite
    <2>3. QED
      BY <1>1, <1>2, <2>1, <2>2 DEF ReadSoFar
  <1>5. ReportExact'
    BY <1>3 DEF ReportInv, ReportExact, Suppressed
  <1>6. QED
    BY <1>3, <1>4, <1>5, ReportProceeds

LEMMA ReadPageKeeps ==
    ASSUME ReportInv, NEW h \in Handler, ReadPage(h)
    PROVE  ReportInv'
  <1>1. PICK r \in Reporting : r = at[h] /\ r.page \in Nat /\ r.total \in Nat /\ r.items \in Seq(PieceRow)
    BY ReportTasks DEF ReportInv, ReadPage, Reporting
  <1>2. PICK found, item : found = Page(r.page) /\ item = CHOOSE i \in found : TRUE
    OBVIOUS
  <1>3. PICK items : items = IF found = {} THEN r.items ELSE Append(r.items, work[item])
    OBVIOUS
  <1>4. found # {} => item \in PlanItems /\ Preceding(item) = r.page - 1
    BY <1>2 DEF Page
  <1>5. items \in Seq(PieceRow)
    BY <1>1, <1>3, <1>4, PlanIsFinite DEF ReportInv, ReportTypeOK
  <1>6. PICK s \in Reporting : /\ s = [r EXCEPT !.page = r.page + 1, !.items = items]
                               /\ s.page = r.page + 1 /\ s.items = items
                               /\ s.total = r.total /\ s.rest = r.rest
    <2> DEFINE x == [r EXCEPT !.page = r.page + 1, !.items = items]
    <2>1. PICK y : y = [r EXCEPT !.page = r.page + 1]
      OBVIOUS
    <2>2. y \in Reporting /\ y.page = r.page + 1 /\ y.total = r.total /\ y.rest = r.rest
      BY <1>1, <2>1 DEF Reporting
    <2>3. x = [y EXCEPT !.items = items]
      BY <2>1
    <2>4. [y EXCEPT !.items = items] \in Reporting
      BY <1>5, <2>2 DEF Reporting
    <2>5. x.items = items /\ x.page = y.page /\ x.total = y.total /\ x.rest = y.rest
      BY <2>2, <2>3 DEF Reporting
    <2>6. QED
      BY <2>2, <2>3, <2>4, <2>5, Zenon
  <1>7. at' = [at EXCEPT ![h] = s] /\ UNCHANGED <<shared, work, latest>> /\ r.page <= LastPage(r.total)
    BY <1>1, <1>2, <1>3, <1>6 DEF ReadPage, Proceed, reportVars
  <1>8. ASSUME r.rest
        PROVE  ReadSoFar(s)
    <2>1. ReadSoFar(r)
      BY <1>1, <1>8, ReportTasks DEF ReportInv
    <2>2. /\ r.total = Cardinality(PlanItems) /\ r.page \in 1 .. LastPage(r.total)
          /\ Len(r.items) = (IF r.page - 1 <= r.total THEN r.page - 1 ELSE r.total)
          /\ LastPage(r.total) \in Nat
      BY <1>1, <1>7, <2>1, ReportAssumption DEF ReadSoFar, LastPage
    <2>3. s.page \in 1 .. LastPage(s.total) + 1
      BY <1>6, <2>2
    <2>4. CASE r.page <= r.total
      <3>1. PICK i \in PlanItems : Preceding(i) = r.page - 1
        BY <1>1, <2>2, <2>4, PlanPlaces DEF ReportInv
      <3>2. found # {}
        BY <1>2, <3>1 DEF Page
      <3>3. items = Append(r.items, work[item]) /\ Len(r.items) = r.page - 1
        BY <1>3, <2>2, <2>4, <3>2
      <3>4. /\ Len(items) = r.page /\ items[r.page] = work[item]
            /\ \A k \in 1 .. r.page - 1 : items[k] = r.items[k]
        BY <1>1, <3>3
      <3>5. ASSUME NEW j \in PlanItems, Preceding(j) < r.page
            PROVE  items[Preceding(j) + 1] = work[j]
        <4>1. Preceding(j) \in Nat
          BY PlanIsFinite
        <4>2. CASE Preceding(j) = r.page - 1
          <5>1. j = item
            BY <1>4, <3>2, <4>2, PlanPlaces DEF ReportInv
          <5>2. QED
            BY <1>1, <3>4, <4>2, <5>1
        <4>3. CASE Preceding(j) < r.page - 1
          <5>1. r.items[Preceding(j) + 1] = work[j]
            BY <2>1, <3>3, <4>3 DEF ReadSoFar
          <5>2. Preceding(j) + 1 \in 1 .. r.page - 1
            BY <1>1, <4>1, <4>3
          <5>3. QED
            BY <3>4, <5>1, <5>2
        <4>4. QED
          BY <1>1, <3>5, <4>1, <4>2, <4>3
      <3>6. QED
        BY <1>1, <1>6, <2>2, <2>3, <2>4, <3>4, <3>5 DEF ReadSoFar
    <2>5. CASE r.page > r.total
      <3>1. \A i \in PlanItems : Preceding(i) # r.page - 1
        BY <1>1, <2>2, <2>5, PlanPlaces DEF ReportInv
      <3>2. found = {}
        BY <1>2, <3>1 DEF Page
      <3>3. items = r.items
        BY <1>3, <3>2
      <3>4. Len(items) = r.total
        BY <1>1, <2>2, <2>5, <3>3
      <3>5. QED
        BY <1>1, <1>6, <2>1, <2>2, <2>3, <2>5, <3>3, <3>4 DEF ReadSoFar
    <2>6. QED
      BY <1>1, <2>4, <2>5
  <1>9. ReportExact'
    BY <1>7 DEF ReportInv, ReportExact, Suppressed
  <1>10. QED
    BY <1>6, <1>7, <1>8, <1>9, ReportProceeds

LEMMA AnswerKeeps ==
    ASSUME ReportInv, NEW h \in Handler, Answer(h)
    PROVE  ReportInv'
  <1>1. PICK r \in Reporting : r = at[h] /\ r.page > LastPage(r.total) /\ r.items \in Seq(PieceRow)
    BY ReportTasks DEF ReportInv, Answer, Reporting
  <1>2. PICK all : all = Health(r.items, r.total)
    OBVIOUS
  <1>3. PICK health : health = IF Suppressed(r.total) THEN Withheld(all) ELSE all
    OBVIOUS
  <1>4. PICK truth : truth = Truth
    OBVIOUS
  <1>5. latest' = [health |-> health, truth |-> truth, rest |-> r.rest]
    BY <1>1, <1>2, <1>3, <1>4 DEF Answer
  <1>6. latest'.health = health /\ latest'.truth = truth /\ latest'.rest = r.rest
    BY <1>5
  <1>7. at' = [at EXCEPT ![h] = Idle] /\ UNCHANGED <<shared, work>>
    BY DEF Answer, Leave, Proceed
  <1>8. health.total = r.total
    BY <1>2, <1>3, HealthFields, WithheldFields
  <1>9. health.overdue + health.unscheduled <= health.remaining /\ health.lowDays <= health.highDays
    <2>1. CASE Suppressed(r.total)
      <3>1. /\ health.overdue = 0 /\ health.unscheduled = 0 /\ health.remaining = 0
            /\ health.lowDays = 0 /\ health.highDays = 0
        BY <1>2, <1>3, <2>1, WithheldFields
      <3>2. QED
        BY <3>1
    <2>2. CASE ~Suppressed(r.total)
      BY <1>1, <1>2, <1>3, <2>2, HealthAgrees
    <2>3. QED
      BY <2>1, <2>2
  <1>10. Suppressed(r.total) => health.completed + health.remaining + health.highDays = 0
    <2> SUFFICES ASSUME Suppressed(r.total)
                 PROVE  health.completed + health.remaining + health.highDays = 0
      OBVIOUS
    <2>1. health.completed = 0 /\ health.remaining = 0 /\ health.highDays = 0
      BY <1>2, <1>3, WithheldFields
    <2>2. QED
      BY <2>1
  <1>11. ASSUME r.rest, ~Suppressed(r.total)
         PROVE  \A name \in DOMAIN truth : health[name] = truth[name]
    <2>1. ReadSoFar(r)
      BY <1>1, <1>11, ReportTasks DEF ReportInv
    <2>2. QED
      BY <1>1, <1>2, <1>3, <1>4, <1>11, <2>1, TruthTold DEF ReportInv
  <1>12. ReportExact'
    BY <1>6, <1>7, <1>8, <1>9, <1>10, <1>11 DEF ReportExact, Suppressed
  <1>13. Idle \notin Reporting
    BY DEF Idle, Reporting
  <1>14. QED
    BY <1>7, <1>12, <1>13, ReportProceeds

LEMMA PieceChangesKeeps ==
    ASSUME ReportInv, NEW i \in Piece, NEW piece \in PieceRow, PieceChanges(i, piece)
    PROVE  ReportInv'
  <1>1. /\ work' = [work EXCEPT ![i] = piece] /\ UNCHANGED <<shared, latest>>
        /\ at' = [h \in Handler |-> IF Busy(h, "report") THEN [at[h] EXCEPT !.rest = FALSE] ELSE at[h]]
    BY DEF PieceChanges
  <1>2. ASSUME NEW h \in Handler
        PROVE  /\ at'[h] \in {Idle} \cup Reporting
               /\ at'[h] = Idle \/ ~at'[h].rest
    <2>1. CASE Busy(h, "report")
      <3>1. PICK r \in Reporting : r = at[h]
        BY <2>1, ReportTasks DEF ReportInv
      <3>2. [r EXCEPT !.rest = FALSE] \in Reporting /\ ~[r EXCEPT !.rest = FALSE].rest
        BY DEF Reporting
      <3>3. at'[h] = [r EXCEPT !.rest = FALSE]
        BY <1>1, <2>1, <3>1
      <3>4. QED
        BY <3>2, <3>3
    <2>2. CASE ~Busy(h, "report")
      BY <1>1, <2>2, ReportTasks DEF ReportInv, ReportTypeOK
    <2>3. QED
      BY <2>1, <2>2
  <1>3. ReportTypeOK'
    BY <1>1, <1>2 DEF ReportInv, ReportTypeOK
  <1>4. \A h \in Handler : ~(Busy(h, "report")' /\ at'[h].rest)
    BY <1>2 DEF Busy, Idle
  <1>5. ReportExact'
    BY <1>1 DEF ReportInv, ReportExact, Suppressed
  <1>6. QED
    BY <1>3, <1>4, <1>5 DEF ReportInv

LEMMA ReportInvInductive ==
    ASSUME ReportInv, [ReportNext]_reportState
    PROVE  ReportInv'
  <1>1. ASSUME NEW h \in Handler, BeginReport(h) \/ ReadPage(h) \/ Answer(h)
        PROVE  ReportInv'
    BY <1>1, BeginReportKeeps, ReadPageKeeps, AnswerKeeps
  <1>2. ASSUME NEW i \in Piece
        PROVE  /\ \A state \in {"open", "done", "archived"} : [work[i] EXCEPT !.state = state] \in PieceRow
               /\ [work[i] EXCEPT !.due = None] \in PieceRow
    <2>1. PICK row \in PieceRow : row = work[i]
      BY DEF ReportInv, ReportTypeOK
    <2>2. \A state \in {"open", "done", "archived"} : [row EXCEPT !.state = state] \in PieceRow
      BY DEF PieceRow
    <2>3. [row EXCEPT !.due = None] \in PieceRow
      BY DEF PieceRow, Due
    <2>4. QED
      BY <2>1, <2>2, <2>3
  <1>3. ASSUME NEW i \in Piece, NEW state \in {"open", "done", "archived"},
               PieceChanges(i, [work[i] EXCEPT !.state = state])
        PROVE  ReportInv'
    BY <1>2, <1>3, PieceChangesKeeps
  <1>4. ASSUME NEW i \in Piece, PieceChanges(i, [work[i] EXCEPT !.due = None])
        PROVE  ReportInv'
    BY <1>2, <1>4, PieceChangesKeeps
  <1>5. CASE UNCHANGED reportState
    <2>1. at' = at /\ work' = work /\ UNCHANGED <<shared, latest>>
      BY <1>5 DEF reportState, handlers, reportVars
    <2>2. ReportTypeOK' /\ ReportExact'
      BY <2>1 DEF ReportInv, ReportTypeOK, ReportExact, Suppressed
    <2>3. \A h \in Handler : Busy(h, "report")' /\ at'[h].rest => ReadSoFar(at[h])'
      <3>1. PlanItems' = PlanItems
        BY <2>1 DEF PlanItems
      <3>2. \A i : Preceding(i)' = Preceding(i)
        BY <2>1, <3>1 DEF Preceding, Before
      <3>3. \A h \in Handler : ReadSoFar(at[h]) => ReadSoFar(at[h])'
        BY <2>1, <3>1, <3>2 DEF ReadSoFar
      <3>4. QED
        BY <2>1, <3>3 DEF ReportInv, Busy
    <2>4. QED
      BY <2>2, <2>3 DEF ReportInv
  <1>6. QED
    BY <1>1, <1>3, <1>4, <1>5 DEF ReportNext

\* The report of a plan at rest counts each of its first issues once, though its pages are
\* separate queries, and says exactly when it left issues out; whatever happens between the
\* pages its numbers agree with each other, and a small shared plan gives nothing away.
THEOREM ReportsAreExact ==
    ASSUME NEW requests
    PROVE  ReportSpec(requests) => []ReportExact
  <1>1. ReportInit /\ HandlersInit(requests) => ReportInv
    <2> SUFFICES ASSUME ReportInit, HandlersInit(requests)
                 PROVE  ReportInv
      OBVIOUS
    <2>1. ReportTypeOK
      BY DEF ReportInit, HandlersInit, ReportTypeOK, PieceRow
    <2>2. \A h \in Handler : ~Busy(h, "report")
      BY DEF HandlersInit, Busy, Idle
    <2>3. QED
      BY <2>1, <2>2 DEF ReportInit, ReportInv, ReportExact
  <1>2. ReportInv /\ [ReportNext]_reportState => ReportInv'
    BY ReportInvInductive
  <1>3. ReportInv => ReportExact
    BY DEF ReportInv
  <1>4. QED
    BY <1>1, <1>2, <1>3, PTL DEF ReportSpec
=============================================================================
