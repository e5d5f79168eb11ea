--------------------------- MODULE RealtimeStream ---------------------------
(***************************************************************************)
(* The table of realtime events and its readers: the stream of a browser,  *)
(* which asks for new events every second, and the polls of a portal       *)
(* customer.  A writer draws the id of its event before it commits; an     *)
(* event leaves the window of a day when it is old.  What a browser shows  *)
(* is represented by the number of commits that it has fetched.            *)
(***************************************************************************)
EXTENDS Handlers

CONSTANTS
  Browser,     \* pages with an open EventSource
  MaxEvents,   \* events that are written, the bound of the model
  StreamBatch  \* events of one tick, 100 in the code

ASSUME StreamAssumption == StreamBatch \in Nat

VARIABLES
  log,     \* RealtimeEvent by id: [about, at: place in the order of commits (0: not committed), old]
  access,  \* what each browser's user may read: the project, and in it the issue
  stream,  \* the connection of each browser
  page,    \* Browser: [last, issues, notes, barred, untold]
  portal   \* the customer: [cursor, heard, shared, read, barred]

streamVars == <<log, access, stream, page, portal>>

\* An event of an issue or another one of a project, or a notification.
About == {"issue", "mine", "theirs"}
Closed == [op |-> "closed"]

\* A page is rendered with what is committed by then; its cursor is 0.
\* untold, barred: history for the property below.
StreamInit ==
  /\ log = <<>>
  /\ access = [b \in Browser |-> {"project", "issue"}]
  /\ stream = [b \in Browser |-> Closed]
  /\ page = [b \in Browser |-> [last |-> 0, issues |-> 0, notes |-> 0, barred |-> {}, untold |-> FALSE]]
  /\ portal = [cursor |-> 0, heard |-> {}, shared |-> TRUE, read |-> {}, barred |-> FALSE]

Ids == 1..Len(log)
Commits == Cardinality({e \in Ids : log[e].at # 0})
InWindow(e) == log[e].at # 0 /\ ~log[e].old

---------------------------------------------------------------------------
(* Writers, and the day that passes.                                       *)

DrawId ==
  \E about \in About :
    /\ Len(log) < MaxEvents
    /\ log' = Append(log, [about |-> about, at |-> 0, old |-> FALSE])
    /\ UNCHANGED <<handlers, access, stream, page, portal>>

\* The event is inserted in the transaction of the change that it tells of.
CommitEvent(e) ==
  /\ log[e].at = 0
  /\ log' = [log EXCEPT ![e].at = Commits + 1]
  /\ UNCHANGED <<handlers, access, stream, page, portal>>

\* Events age in the order of their ids.  A stream that is open asks every second,
\* so that nothing becomes old before it has passed by.
AgeEvent(e) ==
  /\ InWindow(e)
  /\ \A d \in Ids : d < e => log[d].old
  /\ \A b \in Browser : stream[b] # Closed => stream[b].current >= e
  /\ log' = [log EXCEPT ![e].old = TRUE]
  /\ UNCHANGED <<handlers, access, stream, page, portal>>

\* Membership, security levels and shares change.
ChangeAccess(b) ==
  /\ InOneStep
  /\ \E what \in {"project", "issue"} :
       /\ access' = [access EXCEPT ![b] = IF what \in @ THEN @ \ {what} ELSE @ \cup {what}]
       /\ page' = [page EXCEPT ![b].barred = @ \cup {what}]
  /\ UNCHANGED <<log, stream, portal>>

ChangeSharing ==
  /\ InOneStep
  /\ portal' = [portal EXCEPT !.shared = ~@, !.barred = TRUE]
  /\ UNCHANGED <<log, access, stream, page>>

---------------------------------------------------------------------------
(* A browser.  Its connection ends with an error, with the client, or      *)
(* after its ticks; EventSource opens another with the last id it got.     *)

Least(ids) == CHOOSE e \in ids : \A d \in ids : e <= d

Behind(cursor, oldest) == cursor > 0 /\ cursor < oldest

\* A reset makes the page fetch everything again, and the stream go on with what is left.
Connect(b) ==
  LET window == {e \in Ids : InWindow(e)}
      cursor == page[b].last
      told   == window # {} /\ Behind(cursor, Least(window)) IN
  /\ stream[b] = Closed
  /\ stream' = [stream EXCEPT ![b] =
       [op |-> "projects", current |-> IF told THEN Least(window) - 1 ELSE cursor]]
  /\ page' = [page EXCEPT ![b] =
       IF told THEN [@ EXCEPT !.issues = Commits, !.notes = Commits, !.untold = FALSE]
               ELSE [@ EXCEPT !.untold = page[b].untold \/ window = {} \/ cursor = 0]]
  /\ UNCHANGED <<handlers, log, access, portal>>

\* A tick asks for the projects of the user, for the events and for their issues.
ReadProjects(b) ==
  /\ stream[b].op = "projects"
  /\ stream' = [stream EXCEPT ![b] =
       [op |-> "events", current |-> @.current, open |-> "project" \in access[b]]]
  /\ UNCHANGED <<handlers, log, access, page, portal>>

\* Notifications belong to no project.
Readable(e, open) == InWindow(e) /\ (open \/ log[e].about # "issue")

\* A batch is the set of its ids.  The newest events, as in a list that is read from its end.
LastOf(ids) == {e \in ids : Cardinality({d \in ids : d >= e}) <= StreamBatch}
FirstOf(ids) == {e \in ids : Cardinality({d \in ids : d <= e}) <= StreamBatch}

ReadEvents(b) ==
  /\ stream[b].op = "events"
  /\ LET new == FirstOf({e \in Ids : e > stream[b].current /\ Readable(e, stream[b].open)}) IN
       stream' = [stream EXCEPT ![b] = [op |-> "send", current |-> @.current, events |-> new]]
  /\ UNCHANGED <<handlers, log, access, page, portal>>

Meant(b, e) ==
  /\ log[e].about # "theirs"
  /\ log[e].about = "issue" => "issue" \in access[b]

\* What passes by is not sent again, sent or not.
Greatest(ids) == CHOOSE e \in ids : \A d \in ids : d <= e

PassedBy(current, events) == IF events = {} THEN current ELSE Greatest(events)

\* The page fetches its issues or its notifications for every event that it gets.
Received(b, got) ==
  [page[b] EXCEPT
    !.last   = PassedBy(@, got),
    !.issues = IF \E e \in got : log[e].about = "issue" THEN Commits ELSE @,
    !.notes  = IF \E e \in got : log[e].about = "mine" THEN Commits ELSE @]

\* A connection that breaks has brought the first of the events.
Send(b) ==
  /\ stream[b].op = "send"
  /\ LET sent == {e \in stream[b].events : Meant(b, e)} IN
       \E end \in {0} \cup sent : LET got == {e \in sent : e <= end} IN
         /\ page' = [page EXCEPT ![b] = Received(b, got)]
         /\ stream' = [stream EXCEPT ![b] =
              IF got # sent THEN Closed
              ELSE [op |-> "projects", current |-> PassedBy(@.current, stream[b].events)]]
  /\ UNCHANGED <<handlers, log, access, portal>>

Disconnect(b) ==
  /\ stream[b] # Closed
  /\ stream' = [stream EXCEPT ![b] = Closed]
  /\ UNCHANGED <<handlers, log, access, page, portal>>

\* Without a stream the page asks for the issues, not the notifications, every 15 seconds.
Fallback(b) ==
  /\ stream[b] = Closed
  /\ page' = [page EXCEPT ![b].issues = Commits]
  /\ UNCHANGED <<handlers, log, access, stream, portal>>

---------------------------------------------------------------------------
(* A customer asks with the cursor of the last answer; how old an event    *)
(* is does not matter.                                                     *)

ReadPortal ==
  /\ portal.read = {}
  /\ LET new == FirstOf({e \in Ids : e > portal.cursor /\ log[e].at # 0 /\ log[e].about = "issue"}) IN
       new # {} /\ portal' = [portal EXCEPT !.read = new]
  /\ UNCHANGED <<handlers, log, access, stream, page>>

\* An answer that is lost changes nothing.
AnswerPortal ==
  /\ portal.read # {}
  /\ \/ portal' = [portal EXCEPT !.read = {}]
     \/ portal' = [portal EXCEPT !.read = {}, !.cursor = PassedBy(@, portal.read),
                     !.heard = IF portal.shared THEN @ \cup portal.read ELSE @]
  /\ UNCHANGED <<handlers, log, access, stream, page>>

WriterNext == DrawId \/ \E e \in Ids : CommitEvent(e) \/ AgeEvent(e)

StreamNext ==
  \/ WriterNext
  \/ \E b \in Browser :
       \/ ChangeAccess(b) \/ Connect(b) \/ ReadProjects(b) \/ ReadEvents(b)
       \/ Send(b) \/ Disconnect(b) \/ Fallback(b)

PortalNext == WriterNext \/ ChangeSharing \/ ReadPortal \/ AnswerPortal

---------------------------------------------------------------------------
\* Its id is smaller than that of an event that was committed before.
Overtaken(e) == \E f \in Ids : f > e /\ log[f].at # 0 /\ log[f].at < log[e].at

\* What the page had to fetch for an event.
Needs(e) == IF log[e].about = "issue" THEN {"project", "issue"} ELSE {}
Shown(b, e) == log[e].at <= IF log[e].about = "mine" THEN page[b].notes ELSE page[b].issues

CaughtUp(b) ==
  /\ stream[b] # Closed /\ stream[b].op = "projects"
  /\ ~\E e \in Ids : e > stream[b].current /\ Readable(e, "project" \in access[b])

(* A browser whose stream has nothing left to read has fetched every       *)
(* change that its user could see all the time, over lost connections,     *)
(* batches and resets; left out are events whose writer committed after    *)
(* that of a later id, and changes that became old while the browser was   *)
(* away and about which a stream could not tell: it tells only a browser   *)
(* with a cursor, and when newer events are there.  A portal customer has  *)
(* heard of every change below the cursor in the same way.                 *)
NothingMissed ==
  /\ \A b \in Browser, e \in Ids :
       CaughtUp(b) /\ log[e].at # 0 /\ log[e].about # "theirs" /\ Needs(e) \cap page[b].barred = {}
         => Shown(b, e) \/ Overtaken(e) \/ (log[e].old /\ page[b].untold)
  /\ ~portal.barred =>
       \A e \in Ids : log[e].at # 0 /\ log[e].about = "issue" /\ e <= portal.cursor
                        => e \in portal.heard \/ Overtaken(e)
=============================================================================
