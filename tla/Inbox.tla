-------------------------------- MODULE Inbox --------------------------------
(***************************************************************************)
(* The notification inbox of one person: the rows, newest first and a page *)
(* at a time, and what the inbox shows of them.  It does the marks that    *)
(* were answered once more on what it shows, and counts them by itself.    *)
(***************************************************************************)
EXTENDS Handlers

CONSTANTS
  MaxNotes,   \* notifications there are, a bound of the model
  InboxSize   \* PAGE_SIZE

VARIABLES
  notes,     \* the rows in the order of their creation: [read, visible: its issue is live]
  turned,    \* the page of the inbox that is wanted
  leaf,      \* the answer with it: [items: of each note on it whether it is read, unread];
             \*   None: nothing is being fetched, and a part that was not read yet
  inbox,     \* what is shown, likewise; None: nothing yet
  disturbed  \* history: since the page was asked for others changed the rows, or a mark
             \*   overlapped the asking, failed, or was not answered

\* A notification, and an answer with a page of them.
NoteRow   == [read : BOOLEAN, visible : BOOLEAN]
LeafItems == UNION {[S -> BOOLEAN] : S \in SUBSET (1..MaxNotes)}
InboxLeaf == [items : LeafItems \cup {None}, unread : Nat \cup {None}]

ASSUME InboxAssumption ==
  MaxNotes \in Nat \ {0} /\ InboxSize \in Nat \ {0} /\ None \notin InboxLeaf \cup Nat

inboxVars == <<notes, turned, leaf, inbox, disturbed>>

InboxInit ==
  /\ notes = [i \in 1..MaxNotes - 1 |-> [read |-> FALSE, visible |-> TRUE]]
  /\ turned = 1
  /\ leaf = [items |-> None, unread |-> None]
  /\ inbox = None
  /\ disturbed = FALSE

Marks == {"one", "all", "oneMarked", "allMarked"}
Marking == \E h \in Handler : at[h].op \in Marks

---------------------------------------------------------------------------
(* Fetching a page: the rows and the count are separate queries.           *)

Listed == {i \in 1..Len(notes) : notes[i].visible}
CountUnread == Cardinality({i \in Listed : ~notes[i].read})
OnPage(n) ==
  {i \in Listed : Cardinality({j \in Listed : j > i}) \div InboxSize = n - 1}

ReadItems ==
  /\ leaf # None /\ leaf.items = None
  /\ leaf' = [leaf EXCEPT !.items = [i \in OnPage(turned) |-> notes[i].read]]
  /\ UNCHANGED <<handlers, notes, turned, inbox, disturbed>>

ReadUnread ==
  /\ leaf # None /\ leaf.unread = None
  /\ leaf' = [leaf EXCEPT !.unread = CountUnread]
  /\ UNCHANGED <<handlers, notes, turned, inbox, disturbed>>

ShowLeaf ==
  /\ leaf # None /\ leaf.items # None /\ leaf.unread # None
  /\ inbox' = leaf
  /\ leaf' = None
  /\ UNCHANGED <<handlers, notes, turned, disturbed>>

\* Another page: what is still being fetched is given up, what is shown stays until then.
Turn ==
  /\ InOneStep /\ inbox # None
  /\ turned' = 3 - turned
  /\ leaf' = [items |-> None, unread |-> None]
  /\ disturbed' = Marking
  /\ UNCHANGED <<notes, inbox>>

---------------------------------------------------------------------------
(* Marking.                                                                *)

\* The button for all is off when the count is zero; a note is marked when it is followed.
BeginMark(h, what) ==
  /\ inbox # None
  /\ \/ what.op = "all" /\ inbox.unread > 0
     \/ what.op = "one" /\ what.note \in DOMAIN inbox.items
  /\ Enter(h, what)
  /\ disturbed' = (disturbed \/ leaf # None)
  /\ UNCHANGED <<notes, turned, leaf, inbox>>

\* All means also those whose issue is archived.
MarkAll(h) ==
  /\ Busy(h, "all")
  /\ notes' = [i \in DOMAIN notes |-> [notes[i] EXCEPT !.read = TRUE]]
  /\ Proceed(h, [op |-> "allMarked"])
  /\ UNCHANGED <<turned, leaf, inbox, disturbed>>

\* One that is not visible is not found.
MarkOne(h) ==
  /\ Busy(h, "one")
  /\ \/ /\ at[h].note \in Listed
        /\ notes' = [notes EXCEPT ![at[h].note].read = TRUE]
        /\ UNCHANGED disturbed
     \/ disturbed' = TRUE /\ UNCHANGED notes
  /\ Proceed(h, [at[h] EXCEPT !.op = "oneMarked"])
  /\ UNCHANGED <<turned, leaf, inbox>>

ShowAllRead(h) ==
  /\ Busy(h, "allMarked")
  /\ inbox' = [items |-> [i \in DOMAIN inbox.items |-> TRUE], unread |-> 0]
  /\ Leave(h)
  /\ UNCHANGED <<notes, turned, leaf, disturbed>>

\* A note that is shown as read was counted before; one that is not shown counts.
ToCount(i) == IF i \in DOMAIN inbox.items /\ inbox.items[i] THEN 0 ELSE 1

\* The answer is not looked at.
ShowOneRead(h) ==
  /\ Busy(h, "oneMarked")
  /\ LET fewer == inbox.unread - ToCount(at[h].note)
     IN  inbox' = [items |-> [i \in DOMAIN inbox.items |-> inbox.items[i] \/ i = at[h].note],
                   unread |-> IF fewer < 0 THEN 0 ELSE fewer]
  /\ Leave(h)
  /\ UNCHANGED <<notes, turned, leaf, disturbed>>

\* No answer, or for all of them an error: nothing is shown.
LoseMark(h) ==
  /\ at[h].op \in Marks
  /\ disturbed' = (disturbed \/ at[h].op \in {"oneMarked", "allMarked"})
  /\ Leave(h)
  /\ UNCHANGED <<notes, turned, leaf, inbox>>

---------------------------------------------------------------------------
(* Others.                                                                 *)

NewNote ==
  /\ InOneStep /\ Len(notes) < MaxNotes
  /\ notes' = Append(notes, [read |-> FALSE, visible |-> TRUE])
  /\ disturbed' = TRUE
  /\ UNCHANGED <<turned, leaf, inbox>>

\* The issue of a note is archived or restored.
ArchiveTopic(i) ==
  /\ InOneStep
  /\ notes' = [notes EXCEPT ![i].visible = ~@]
  /\ disturbed' = TRUE
  /\ UNCHANGED <<turned, leaf, inbox>>

InboxNext ==
  \/ ReadItems \/ ReadUnread \/ ShowLeaf \/ Turn \/ NewNote
  \/ \E i \in 1..Len(notes) : ArchiveTopic(i)
  \/ \E h \in Handler :
       \/ BeginMark(h, [op |-> "all"])
       \/ \E i \in 1..Len(notes) : BeginMark(h, [op |-> "one", note |-> i])
       \/ MarkAll(h) \/ MarkOne(h) \/ ShowAllRead(h) \/ ShowOneRead(h) \/ LoseMark(h)

---------------------------------------------------------------------------
(* A note that is shown as read is read; and when nothing is on its way    *)
(* the count and the notes on the page are those of the rows, unless a     *)
(* mark failed or overlapped the asking, or others changed the rows since. *)
InboxTells ==
  inbox # None /\ leaf = None /\ ~disturbed =>
    /\ \A i \in DOMAIN inbox.items : inbox.items[i] => notes[i].read
    /\ ~Marking =>
         /\ inbox.unread = CountUnread
         /\ inbox.items = [i \in OnPage(turned) |-> notes[i].read]
=============================================================================
