------------------------------ MODULE Releases ------------------------------
(***************************************************************************)
(* The releases of a project.  A change compares the version that the      *)
(* client has with the row it reads, decides from that row what is written *)
(* and writes against the same version later.  The date of the release is  *)
(* represented by the version that released it.                            *)
(***************************************************************************)
EXTENDS Handlers

CONSTANTS
  Release,
  Work  \* issues of the project

VARIABLES
  release,    \* Release: [version, released, archived]; version 0: not created
  contents,   \* IssueRelease: the issues of the release
  trail,      \* versions in the audit events "release.released"
  announced   \* version in the webhook "release.released"; 0: none was queued

releaseVars == <<release, contents, trail, announced>>

ReleasesInit ==
  /\ release = [r \in Release |-> [version |-> 0, released |-> 0, archived |-> FALSE]]
  /\ contents = [r \in Release |-> {}]
  /\ trail = [r \in Release |-> <<>>]
  /\ announced = [r \in Release |-> 0]

CreateRelease(r) ==
  /\ InOneStep
  /\ release[r].version = 0
  /\ release' = [release EXCEPT ![r].version = 1]
  /\ UNCHANGED <<contents, trail, announced>>

\* "Released history is immutable."  The guard names the action "update"; any other
\* text that is no action is handled as an update too.
ReleaseRefused(read, action, issues) ==
  \/ read.released # 0 /\ action \in {"update", "release"}
  \/ action = "release" /\ issues # {}

\* issues is empty, or a set with the new contents.
BeginPatchRelease(h, r) ==
  \E action \in {"update", "release", "archive", "restore", "other"},
     issues \in {{}} \cup {{list} : list \in SUBSET Work} :
    /\ release[r].version # 0
    /\ ~ReleaseRefused(release[r], action, issues)
    /\ Enter(h, [op |-> "patch", release |-> r, read |-> release[r], action |-> action, issues |-> issues])
    /\ UNCHANGED releaseVars

\* The release is there, whatever became of it.
ReleaseExists(r, read) == release[r].version # 0

\* WHERE version = the one that was read.
SameRelease(r, read) == release[r].version = read.version

Patched(r, action) ==
  LET next == [release[r] EXCEPT !.version = @ + 1] IN
  CASE action = "release" -> [next EXCEPT !.released = next.version]
    [] action = "archive" -> [next EXCEPT !.archived = TRUE]
    [] action = "restore" -> [next EXCEPT !.archived = FALSE]
    [] OTHER              -> next

\* The delivery of an event id that is queued already is skipped.
PatchRelease(h) == LET r == at[h].release  action == at[h].action IN
  /\ Busy(h, "patch") /\ SameRelease(r, at[h].read)
  /\ release' = [release EXCEPT ![r] = Patched(r, action)]
  /\ contents' = [contents EXCEPT ![r] = IF at[h].issues = {} THEN @ ELSE UNION at[h].issues]
  /\ IF action = "release"
     THEN /\ trail' = [trail EXCEPT ![r] = Append(@, release'[r].version)]
          /\ announced' = [announced EXCEPT ![r] = IF @ = 0 THEN release'[r].version ELSE @]
     ELSE UNCHANGED <<trail, announced>>
  /\ Leave(h)

PatchConflict(h) ==
  /\ Busy(h, "patch") /\ ~SameRelease(at[h].release, at[h].read)
  /\ Leave(h)
  /\ UNCHANGED releaseVars

ReleasesNext ==
  \/ \E r \in Release : CreateRelease(r)
  \/ \E h \in Handler :
       \/ \E r \in Release : BeginPatchRelease(h, r)
       \/ PatchRelease(h) \/ PatchConflict(h)

---------------------------------------------------------------------------
(* A release is released at most once, however many administrators do it   *)
(* at the same time and archive or restore it meanwhile: the date is set   *)
(* once, and the audit log and the webhook tell of that release.           *)
ReleasedOnce ==
  \A r \in Release :
    /\ trail[r] = IF release[r].released = 0 THEN <<>> ELSE <<release[r].released>>
    /\ announced[r] = release[r].released
=============================================================================
