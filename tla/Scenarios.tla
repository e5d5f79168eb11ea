------------------------------ MODULE Scenarios ------------------------------
(***************************************************************************)
(* The hierarchy of the issues, changed by editors and by the publication  *)
(* of a planning scenario: changes that are prepared against a version of  *)
(* an issue and applied together, those whose issue has moved on excepted. *)
(* Every write of an issue advances its version, so that an issue is the   *)
(* sequence of the values it has had.                                      *)
(***************************************************************************)
EXTENDS Handlers

CONSTANTS
  Item,      \* issues in the plan
  Rank,      \* positions of the hierarchy levels, the highest level first
  Estimate

ASSUME ScenariosAssumption == Estimate # {}

VARIABLES
  past,      \* values of the issue, one for each version: [parent, rank, estimate]
  hidden,    \* issues that left the plan, or are out of the publisher's reach
  change,    \* ScenarioChange of the issue: {} or {[baseVersion, snapshot, patch, version]}
  published  \* ScenarioPublish: [rollback, conflicts, status]; wrote: the versions it made

scenarioVars == <<past, hidden, change, published>>

Parent == Item \cup {None}

\* What a change may set; one that does not set a field has nothing for it.
Patch == {p \in [parent : SUBSET Parent, estimate : SUBSET Estimate] :
            /\ Cardinality(p.parent) <= 1 /\ Cardinality(p.estimate) <= 1
            /\ p.parent \cup p.estimate # {}}

Planned(value) == [parent |-> value.parent, estimate |-> value.estimate]

ScenariosInit ==
  /\ past \in [Item -> {<<[parent |-> None, rank |-> k, estimate |-> CHOOSE e \in Estimate : TRUE]>> : k \in Rank}]
  /\ hidden = {} /\ published = {}
  /\ change = [i \in Item |-> {}]

VersionOf(i) == Len(past[i])
Live(i) == past[i][VersionOf(i)]

\* A write that leaves the version as it is.
WriteQuietly(i, value) == past' = [past EXCEPT ![i][VersionOf(i)] = value]

\* A write of the issue; version: { increment: 1 }.
Write(i, value) == past' = [past EXCEPT ![i] = Append(@, value)]

\* PATCH of an issue: its estimate, or its level.
EditItem(i) ==
  /\ InOneStep
  /\ \E value \in [parent : {Live(i).parent}, rank : Rank, estimate : Estimate] : Write(i, value)
  /\ UNCHANGED <<hidden, change, published>>

\* External to this module: the issue is archived, or taken from the plan or the reader.
HideItem(i) ==
  /\ InOneStep
  /\ i \notin hidden
  /\ hidden' = hidden \cup {i}
  /\ UNCHANGED <<past, change, published>>

---------------------------------------------------------------------------
(* Hierarchy: both issues are read, the ranks compared, and the ancestors  *)
(* of the new parent read one after the other before the guarded write.    *)

BeginReparent(h, i) ==
  \E parent \in Parent \ {i} :
    /\ parent # None => Live(parent).rank < Live(i).rank
    /\ Enter(h, [op |-> "reparent", item |-> i, parent |-> parent, cursor |-> parent, seen |-> {},
                 version |-> VersionOf(i), old |-> Live(i).parent])
    /\ UNCHANGED scenarioVars

\* The walk that both services do: it fails at the issue itself, and where it has been.
Blocked(h) == at[h].cursor \in {at[h].item} \cup at[h].seen

Walk(h) ==
  /\ at[h].op \in {"reparent", "save"} /\ at[h].cursor # None /\ ~Blocked(h)
  /\ Proceed(h, [at[h] EXCEPT !.seen = @ \cup {at[h].cursor}, !.cursor = Live(@).parent])
  /\ UNCHANGED scenarioVars

SameItem(i, read) == VersionOf(i) = read.version

Reparent(h) == LET i == at[h].item IN
  /\ Busy(h, "reparent") /\ at[h].cursor = None
  /\ SameItem(i, at[h]) /\ Live(i).parent = at[h].old
  /\ Write(i, [Live(i) EXCEPT !.parent = at[h].parent])
  /\ Leave(h)
  /\ UNCHANGED <<hidden, change, published>>

GiveUp(h) ==
  /\ \/ at[h].op \in {"reparent", "save"} /\ Blocked(h)
     \/ Busy(h, "reparent") /\ ~SameItem(at[h].item, at[h])
  /\ Leave(h)
  /\ UNCHANGED scenarioVars

---------------------------------------------------------------------------
(* Preparing a change.  The issue is read first; a new parent is checked   *)
(* against the hierarchy as it is, not as the other changes would make it. *)

BeginSave(h, i) ==
  \E patch \in Patch :
    /\ i \notin hidden /\ patch.parent \cap hidden = {} /\ i \notin patch.parent
    /\ Enter(h, [op |-> "save", item |-> i, patch |-> patch, seen |-> {}, version |-> VersionOf(i),
                 snapshot |-> Planned(Live(i)),
                 cursor |-> IF patch.parent = {} THEN None ELSE CHOOSE p \in patch.parent : TRUE])
    /\ UNCHANGED scenarioVars

\* A change that is there is found before the transaction, by the version the client
\* has of it, and updated whatever became of it meanwhile.
FindChange(h) == LET i == at[h].item IN
  /\ Busy(h, "save") /\ at[h].cursor = None
  /\ Proceed(h, [op |-> "record", item |-> i, existing |-> change[i] # {}, patch |-> at[h].patch,
                 version |-> at[h].version, snapshot |-> at[h].snapshot])
  /\ UNCHANGED scenarioVars

NewChange(read) ==
  [baseVersion |-> read.version, snapshot |-> read.snapshot, patch |-> read.patch, version |-> 1]

\* The base of an update stays: what it was prepared against.
Resaved(old, read) == [old EXCEPT !.patch = read.patch, !.version = @ + 1]

\* The unique index lets one of two new changes of an issue in.
SaveChange(h) == LET i == at[h].item IN
  /\ Busy(h, "record")
  /\ IF ~at[h].existing /\ change[i] # {}
     THEN UNCHANGED change
     ELSE change' = [change EXCEPT ![i] = IF @ = {} THEN {NewChange(at[h])}
                                                   ELSE {Resaved(old, at[h]) : old \in @}]
  /\ Leave(h)
  /\ UNCHANGED <<past, hidden, published>>

---------------------------------------------------------------------------
(* Publishing.  Conflicts are decided from reads before the transaction,   *)
(* which checks every version again, and applies all that is left or none. *)

BeginPublishChanges(h) ==
  \E selected \in SUBSET {i \in Item : change[i] # {}} \ {{}} :
    /\ Enter(h, [op |-> "publish", changes |-> {row \in Item \X UNION {change[i] : i \in selected} :
                                                  row[1] \in selected /\ row[2] \in change[row[1]]}])
    /\ UNCHANGED scenarioVars

Unmoved(c, i) == VersionOf(i) = c.baseVersion

DecideConflicts(h) ==
  /\ Busy(h, "publish")
  /\ LET conflicts == {row \in at[h].changes : row[1] \in hidden \/ ~Unmoved(row[2], row[1])} IN
       Proceed(h, [op |-> "apply", valid |-> at[h].changes \ conflicts, conflicts |-> {row[1] : row \in conflicts}])
  /\ UNCHANGED scenarioVars

\* scenarioIssueUpdate: only the fields of the patch.
Applied(value, patch) ==
  [value EXCEPT !.parent = IF patch.parent = {} THEN @ ELSE CHOOSE p \in patch.parent : TRUE,
                !.estimate = IF patch.estimate = {} THEN @ ELSE CHOOSE e \in patch.estimate : TRUE]

\* The issue is there.
Unguarded(valid) == TRUE

\* WHERE version = baseVersion, for every issue of the transaction.
StillUnmoved(valid) == \A row \in valid : Unmoved(row[2], row[1])

PublishStatus(applied, conflicts) ==
  CASE applied # {} /\ conflicts # {} -> "PARTIAL"
    [] applied # {}                   -> "COMPLETED"
    [] OTHER                          -> "CONFLICTED"

PublishChanges(h) == LET valid == at[h].valid IN
  /\ Busy(h, "apply") /\ StillUnmoved(valid)
  /\ past' = [i \in Item |-> past[i] \o
                (IF \E row \in valid : row[1] = i
                 THEN <<Applied(Live(i), (CHOOSE row \in valid : row[1] = i)[2].patch)>> ELSE <<>>)]
  /\ published' = published \cup
       {[rollback |-> {[item |-> row[1], version |-> row[2].baseVersion, snapshot |-> row[2].snapshot] : row \in valid},
         wrote |-> {<<row[1], VersionOf(row[1]) + 1>> : row \in valid},
         conflicts |-> at[h].conflicts,
         status |-> PublishStatus(valid, at[h].conflicts)]}
  /\ Leave(h)
  /\ UNCHANGED <<hidden, change>>

AbortPublish(h) ==
  /\ Busy(h, "apply") /\ ~StillUnmoved(at[h].valid)
  /\ Leave(h)
  /\ UNCHANGED scenarioVars

ScenariosNext ==
  \/ \E i \in Item : EditItem(i) \/ HideItem(i)
  \/ \E h \in Handler :
       \/ \E i \in Item : BeginReparent(h, i) \/ BeginSave(h, i)
       \/ BeginPublishChanges(h)
       \/ Walk(h) \/ Reparent(h) \/ GiveUp(h) \/ FindChange(h) \/ SaveChange(h)
       \/ DecideConflicts(h) \/ PublishChanges(h) \/ AbortPublish(h)

---------------------------------------------------------------------------
(* What a publication keeps for rolling it back is the version that it     *)
(* replaced, with what the issue had then in every field a change can set, *)
(* however long before the change was prepared; a conflict is not written. *)
RollbackExact ==
  \A p \in published :
    /\ p.wrote = {<<entry.item, entry.version + 1>> : entry \in p.rollback}
    /\ \A entry \in p.rollback : entry.snapshot = Planned(past[entry.item][entry.version])
    /\ p.conflicts \cap {entry.item : entry \in p.rollback} = {}

(* "The service rejects stale writes, cycles, same/lower-level parents":   *)
(* no issue is its own ancestor.                                           *)
HierarchyAcyclic ==
  ~\E loop \in SUBSET Item : loop # {} /\ \A i \in loop : Live(i).parent \in loop
=============================================================================
