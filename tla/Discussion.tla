----------------------------- MODULE Discussion -----------------------------
(***************************************************************************)
(* What people add to one issue - comments, attachments, subtasks - who is *)
(* told of it, and the panel in which one of them, Viewer, looks at it.    *)
(* The panel has just been opened: what it asked for is not answered yet.  *)
(* An attachment is a row and an object in the store, which fail apart.    *)
(***************************************************************************)
EXTENDS Handlers

CONSTANTS
  Viewer,  \* who has the panel open
  Others   \* the other people of the project

Reader == Others \cup {Viewer}
Kind == {"comment", "attachment", "subtask"}

ASSUME DiscussionAssumption == None \notin Nat \cup [Kind -> Seq(Nat)]

VARIABLES
  topic,      \* the issue: "live", "archived" or "deleted"
  entries,    \* its rows in the order of their creation: [kind, by, object, calls]
  objects,    \* the store: objects[i], whether the i-th object put there is still there
  followers,  \* issueWatcher, and the assignee, who is told of comments like a watcher
  hushed,     \* people no notice reaches: switched off, deactivated or without access
  notices,    \* notifications: [entry, to, type]
  sheet,      \* the panel: [shown: its entries of a kind, own: those that Viewer added here, loaded]
  details,    \* the answer on its way to it: the entries of a kind; None: none
  strays,     \* history: objects that stay in the store and no attachment has
  bared,      \* history: objects that were taken from an attachment which was saved unheard
  blurred     \* history: Viewer added something before the details had arrived

losses == <<strays, bared>>

discussionVars == <<topic, entries, objects, followers, hushed, notices, sheet, details,
                    losses, blurred>>

DiscussionInit ==
  /\ topic = "live"
  /\ entries = <<>> /\ objects = <<>>
  /\ followers = Reader
  /\ hushed = {} /\ notices = {}
  /\ sheet = [shown |-> [k \in Kind |-> <<>>], own |-> {}, loaded |-> FALSE]
  /\ details = None
  /\ strays = {} /\ bared = {} /\ blurred = FALSE

---------------------------------------------------------------------------
(* Adding something.                                                       *)

ByViewer(h) == at[h].op \in {"add", "added"} /\ at[h].by = Viewer

\* The button of a kind is off while Viewer's last one is submitted.
BeginAdd(h, kind, by, watching, mentioned) ==
  /\ topic = "live"
  /\ by = Viewer => \A g \in Handler : ~(ByViewer(g) /\ at[g].kind = kind)
  /\ Enter(h, [op |-> "add", kind |-> kind, by |-> by, object |-> None,
               watching |-> watching, mentioned |-> mentioned])
  /\ blurred' = (blurred \/ (by = Viewer /\ ~sheet.loaded))
  /\ UNCHANGED <<topic, entries, objects, followers, hushed, notices, sheet, details, losses>>

\* The route finds who watches the issue with the issue, and then who is mentioned.
WriteComment(h, by) ==
  \E mentioned \in {{}, {Viewer} \ {by}} : BeginAdd(h, "comment", by, followers, mentioned)

UploadFile(h, by) == BeginAdd(h, "attachment", by, {}, {})

\* The issue of the panel is not a subtask itself, as that has none.
AddSubtask(h, by) == BeginAdd(h, "subtask", by, {}, {})

\* An attachment goes to the store first, under a key of its own.
Unstored(h) == at[h].kind = "attachment" /\ at[h].object = None

PutObject(h) ==
  /\ Busy(h, "add") /\ Unstored(h)
  /\ objects' = Append(objects, TRUE)
  /\ Proceed(h, [at[h] EXCEPT !.object = Len(objects')])
  /\ UNCHANGED <<topic, entries, followers, hushed, notices, sheet, details, losses, blurred>>

\* createIssueNotifications: each recipient once, never the actor, and as people are now.
NoticesOf(h, type, recipients) ==
  {[entry |-> Len(entries) + 1, to |-> p, type |-> type] : p \in (recipients \ {at[h].by}) \ hushed}

\* The transaction does not look whether the issue was archived since.
CreateEntry(h) ==
  /\ Busy(h, "add") /\ ~Unstored(h)
  /\ topic # "deleted"
  /\ entries' = Append(entries, [kind |-> at[h].kind, by |-> at[h].by, object |-> at[h].object,
                                 calls |-> (at[h].watching \cap followers) \ hushed])
  /\ notices' = notices \cup NoticesOf(h, "COMMENTED", at[h].watching)
                        \cup NoticesOf(h, "MENTIONED", at[h].mentioned)
  /\ Proceed(h, [op |-> "added", kind |-> at[h].kind, by |-> at[h].by, entry |-> Len(entries')])
  /\ UNCHANGED <<topic, objects, followers, hushed, sheet, details, losses, blurred>>

\* The store may fail half way; nobody removes what it has of the file.
PutHalf(h) ==
  /\ Busy(h, "add") /\ Unstored(h)
  /\ objects' = Append(objects, TRUE)
  /\ strays' = strays \cup {Len(objects')}
  /\ Leave(h)
  /\ UNCHANGED <<topic, entries, followers, hushed, notices, sheet, details, bared, blurred>>

\* The storage answers nothing when it could not remove an object.
TakeBack(removed) == objects' = [i \in 1..Len(objects) |-> objects[i] /\ i \notin removed]

\* What is stored for an upload, or for an attachment: one object or none.
Stored(of) == {of.object} \ {None}

\* The catch is entered before anything is saved; the panel keeps its draft.
FailAdd(h) ==
  /\ Busy(h, "add")
  /\ \E removed \in SUBSET Stored(at[h]) :
       /\ TakeBack(removed)
       /\ strays' = strays \cup (Stored(at[h]) \ removed)
  /\ Leave(h)
  /\ UNCHANGED <<topic, entries, followers, hushed, notices, sheet, details, bared, blurred>>

\* It is entered, too, when the answer of a commit that went through is lost.
MissCommit(h) ==
  LET stored == Stored(entries[at[h].entry]) IN
  /\ Busy(h, "added") /\ stored # {}
  /\ \E removed \in SUBSET stored : TakeBack(removed) /\ bared' = bared \cup removed
  /\ Leave(h)
  /\ UNCHANGED <<topic, entries, followers, hushed, notices, sheet, details, strays, blurred>>

\* The process dies, in this module only where it matters.
Die(h) ==
  /\ Busy(h, "add") /\ Stored(at[h]) # {}
  /\ strays' = strays \cup Stored(at[h])
  /\ Leave(h)
  /\ UNCHANGED <<topic, entries, objects, followers, hushed, notices, sheet, details, bared, blurred>>

\* The answer puts the entry behind what the panel shows; for a lost one it shows an error.
AnswerAdd(h) ==
  /\ Busy(h, "added")
  /\ \/ UNCHANGED sheet
     \/ /\ at[h].by = Viewer
        /\ sheet' = [sheet EXCEPT !.shown[at[h].kind] = Append(@, at[h].entry), !.own = @ \cup {at[h].entry}]
  /\ Leave(h)
  /\ UNCHANGED <<topic, entries, objects, followers, hushed, notices, details, losses, blurred>>

---------------------------------------------------------------------------
(* What the panel asked for.                                               *)

Listing(kind) ==
  LET found == {i \in 1..Len(entries) : entries[i].kind = kind} IN
  CHOOSE s \in [1..Cardinality(found) -> found] : \A i, j \in DOMAIN s : i < j => s[i] < s[j]

\* The queries, one per kind, are one step: nothing compares what they find.
ReadDetails ==
  /\ ~sheet.loaded /\ topic = "live"
  /\ details = None
  /\ details' = [k \in Kind |-> Listing(k)]
  /\ UNCHANGED <<handlers, topic, entries, objects, followers, hushed, notices, sheet, losses, blurred>>

\* The answer takes the place of everything the panel shows.
ShowDetails ==
  /\ details # None
  /\ sheet' = [sheet EXCEPT !.loaded = TRUE, !.shown = details]
  /\ details' = None
  /\ UNCHANGED <<handlers, topic, entries, objects, followers, hushed, notices, losses, blurred>>

---------------------------------------------------------------------------
(* Other routes.                                                           *)

Follow(p) ==
  /\ InOneStep /\ topic = "live"
  /\ followers' = IF p \in followers THEN followers \ {p} ELSE followers \cup {p}
  /\ UNCHANGED <<topic, entries, objects, hushed, notices, sheet, details, losses, blurred>>

Hush(p) ==
  /\ InOneStep
  /\ hushed' = IF p \in hushed THEN hushed \ {p} ELSE hushed \cup {p}
  /\ UNCHANGED <<topic, entries, objects, followers, notices, sheet, details, losses, blurred>>

\* Archived, or by now deleted by a retention job as well (Deletion).
PutAway ==
  /\ InOneStep
  /\ topic = "live"
  /\ topic' \in {"archived", "deleted"}
  /\ UNCHANGED <<entries, objects, followers, hushed, notices, sheet, details, losses, blurred>>

DiscussionNext ==
  \/ ReadDetails \/ ShowDetails \/ PutAway
  \/ \E p \in Reader : Follow(p)
  \/ \E p \in Others : Hush(p)
  \/ \E h \in Handler :
       \/ \E by \in Reader : WriteComment(h, by) \/ UploadFile(h, by) \/ AddSubtask(h, by)
       \/ PutObject(h) \/ PutHalf(h) \/ CreateEntry(h) \/ FailAdd(h) \/ MissCommit(h)
       \/ Die(h) \/ AnswerAdd(h)

---------------------------------------------------------------------------
Uploading(i) == \E h \in Handler : Busy(h, "add") /\ at[h].object = i

(* An attachment that is listed has its object, unless it was saved and    *)
(* nobody heard of it: then the route has removed the object.  An object   *)
(* that no attachment has is one of an upload that goes on, or was left    *)
(* behind: by a store or a process that failed half way, or by a removal   *)
(* that failed silently.  What is left behind is never listed later.       *)
FilesAgree ==
  \A i \in 1..Len(objects) :
    LET listed == \E e \in 1..Len(entries) : entries[e].object = i
    IN  /\ listed => (objects[i] \/ i \in bared) /\ i \notin strays
        /\ objects[i] => listed \/ Uploading(i) \/ i \in strays

(* Whoever watched the issue from before a comment until it was saved is   *)
(* told of it, but not the author; an attachment or a subtask tells nobody.*)
CommentsAnnounced ==
  \A e \in 1..Len(entries) :
    LET told == {n.to : n \in {m \in notices : m.entry = e /\ m.type = "COMMENTED"}}
    IN  /\ entries[e].calls \ {entries[e].by} \subseteq told
        /\ entries[e].by \notin told
        /\ entries[e].kind # "comment" => told = {}

(* The panel shows an entry once, in order, and does not lose one of       *)
(* Viewer's, unless it was added before the details came.                  *)
PanelTells ==
  ~blurred /\ sheet.loaded =>
    /\ \A k \in Kind : \A i, j \in 1..Len(sheet.shown[k]) : i < j => sheet.shown[k][i] < sheet.shown[k][j]
    /\ \A e \in sheet.own : \E i \in 1..Len(sheet.shown[entries[e].kind]) : sheet.shown[entries[e].kind][i] = e

DiscussionHolds == FilesAgree /\ CommentsAnnounced /\ PanelTells
=============================================================================
