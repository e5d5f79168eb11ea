------------------------------- MODULE Screen -------------------------------
(***************************************************************************)
(* What a project page shows of an issue: a card in its list and, when it  *)
(* is opened, a panel.  Moves are shown before they are saved; realtime    *)
(* events make the page fetch the list; the answers arrive in any order.   *)
(* The value of a field is the version that wrote it, and the status of a  *)
(* card that was moved but not yet saved is the request that moved it.     *)
(***************************************************************************)
EXTENDS Handlers

VARIABLES
  row,      \* Issue in the database: [version, details, status], archived: None
  news,     \* realtime events on their way to the page
  fetched,  \* answers on their way to it
  list,     \* what the list shows of the issue; None: nothing
  panel,    \* selectedIssue: [issue, base, renewed, saving]; None: closed
  older,    \* history: something older took the place of what the list showed
  unseen    \* history: a draft replaced details that its panel should have shown

screenVars == <<row, news, fetched, list, panel, older, unseen>>

\* What is kept of an issue, and what is shown of it.
IssueRow  == [version : Nat, details : Nat, status : Nat]
IssueCard == [version : Nat, details : Nat, status : Nat \cup Handler]

ASSUME ScreenAssumption == None \notin IssueCard

First == [version |-> 1, details |-> 1, status |-> 1]

\* The page has asked for its list.
ScreenInit ==
  /\ row = First
  /\ list = None
  /\ news = 0
  /\ fetched = <<First>>
  /\ panel = None
  /\ older = FALSE
  /\ unseen = FALSE

Saved(field) == [row EXCEPT !.version = @ + 1, ![field] = row.version + 1]
EventOf(field) == IF field = "status" THEN "issue.transitioned" ELSE "issue.updated"

Listeners == {"issue.created", "issue.updated", "issue.transitioned"}
Told(field) == IF EventOf(field) \in Listeners THEN news + 1 ELSE news

\* setIssues: the record of the issue becomes shown.
Install(shown) ==
  /\ list' = shown
  /\ older' = IF shown = row' THEN FALSE
              ELSE older \/ shown = None \/ (list # None /\ shown.version < list.version)
                         \/ (shown # None /\ shown.status \in Handler)
  /\ panel' = IF panel = None THEN None ELSE [panel EXCEPT !.renewed = @ \/ shown # list]

---------------------------------------------------------------------------
(* Other people.                                                           *)

OtherWrites ==
  \E field \in {"details", "status"} :
    /\ InOneStep /\ row # None
    /\ row' = Saved(field)
    /\ news' = Told(field)
    /\ UNCHANGED <<fetched, list, panel, older, unseen>>

\* Archiving and deleting tell nobody.
OtherArchives ==
  /\ InOneStep /\ row # None
  /\ row' = None
  /\ UNCHANGED <<news, fetched, list, panel, older, unseen>>

---------------------------------------------------------------------------
(* The page.                                                               *)

\* GET finds what is not archived, as it is now.
Served == row

Refresh ==
  /\ news > 0
  /\ news' = news - 1
  /\ fetched' = Append(fetched, Served)
  /\ UNCHANGED <<handlers, row, list, panel, older, unseen>>

WithoutAnswer(i) == [j \in 1..Len(fetched) - 1 |-> fetched[IF j < i THEN j ELSE j + 1]]

\* Whatever was asked for later may have been answered before.
Deliver(i) ==
  /\ fetched' = WithoutAnswer(i)
  /\ UNCHANGED <<handlers, row, news, unseen>>
  /\ Install(fetched[i])

\* An answer that is an error changes nothing.
LoseAnswer(i) ==
  /\ fetched' = WithoutAnswer(i)
  /\ older' = (older \/ list # row)
  /\ UNCHANGED <<handlers, row, news, list, panel, unseen>>

\* The fields of the panel are filled when it opens, and not again.
OpenPanel ==
  /\ panel = None /\ list # None
  /\ panel' = [issue |-> list, base |-> list.details, renewed |-> FALSE, saving |-> None]
  /\ UNCHANGED <<handlers, row, news, fetched, list, older, unseen>>

ClosePanel ==
  /\ panel # None
  /\ panel' = None
  /\ UNCHANGED <<handlers, row, news, fetched, list, older, unseen>>

\* The version that is sent is that of the list, for moves and for the panel.
BeginMove(h) ==
  /\ list # None
  /\ Enter(h, [op |-> "move", previous |-> list])
  /\ list' = [list EXCEPT !.status = h]
  /\ panel' = IF panel = None THEN None ELSE [panel EXCEPT !.issue.status = h]
  /\ UNCHANGED <<row, news, fetched, older, unseen>>

\* The button is off while details are being saved.
BeginSaveDetails(h) ==
  /\ panel # None /\ list # None
  /\ panel.saving = None
  /\ Enter(h, [op |-> "save", previous |-> list, seen |-> IF panel.renewed THEN None ELSE panel.base])
  /\ panel' = [panel EXCEPT !.saving = h]
  /\ UNCHANGED <<row, news, fetched, list, older, unseen>>

FieldOf(h) == IF at[h].op = "move" THEN "status" ELSE "details"

\* Accepted when nothing was written since; refused then, or by a rule.  (IssueMutation has
\* the writes that come between the comparison of the versions and the update.)
Handle(h) ==
  /\ at[h].op \in {"move", "save"}
  /\ \/ /\ row # None /\ row.version = at[h].previous.version
        /\ row' = Saved(FieldOf(h))
        /\ news' = Told(FieldOf(h))
        /\ unseen' = (unseen \/ (Busy(h, "save") /\ at[h].seen \notin {None, row.details}))
        /\ \E lost \in BOOLEAN :
             Proceed(h, [op |-> "answer", field |-> FieldOf(h), previous |-> at[h].previous,
                         issue |-> IF lost THEN None ELSE row'])
     \/ /\ Proceed(h, [op |-> "answer", field |-> FieldOf(h), previous |-> at[h].previous, issue |-> None])
        /\ UNCHANGED <<row, news, unseen>>
  /\ UNCHANGED <<fetched, list, panel, older>>

\* The answer takes the place of the record, here and in the panel; the draft stays.
Confirmed(h) ==
  /\ Busy(h, "answer") /\ at[h].issue # None
  /\ Leave(h)
  /\ UNCHANGED <<row, news, fetched, unseen>>
  /\ IF list = None THEN UNCHANGED <<list, older>>
     ELSE /\ list' = at[h].issue
          /\ older' = IF list' = row THEN FALSE ELSE older \/ list'.version < list.version
  /\ panel' = IF panel = None THEN None
              ELSE IF panel.saving = h
              THEN [issue |-> at[h].issue, base |-> at[h].issue.details, renewed |-> FALSE, saving |-> None]
              ELSE [panel EXCEPT !.issue = at[h].issue, !.renewed = TRUE]

\* A move that failed is undone, on what the page showed before it; a draft is kept.
Failed(h) ==
  /\ Busy(h, "answer") /\ at[h].issue = None
  /\ Leave(h)
  /\ UNCHANGED <<row, news, fetched, unseen>>
  /\ IF at[h].field = "details" \/ list = None
     THEN UNCHANGED <<list, older>>
     ELSE /\ list' = at[h].previous
          /\ older' = IF list' = row THEN FALSE
                      ELSE older \/ list'.version < list.version \/ list'.status \in Handler
  /\ panel' = IF panel = None THEN None
              ELSE IF at[h].field = "status" THEN [panel EXCEPT !.issue = at[h].previous, !.renewed = TRUE]
              ELSE IF panel.saving = h THEN [panel EXCEPT !.saving = None] ELSE panel

ScreenNext ==
  \/ OtherWrites \/ OtherArchives \/ Refresh \/ OpenPanel \/ ClosePanel
  \/ \E i \in 1..Len(fetched) : Deliver(i) \/ LoseAnswer(i)
  \/ \E h \in Handler : BeginMove(h) \/ BeginSaveDetails(h) \/ Handle(h) \/ Confirmed(h) \/ Failed(h)

---------------------------------------------------------------------------
AtRest == news = 0 /\ fetched = <<>> /\ \A h \in Handler : at[h] = Idle

(* When everything has been answered the list shows what is in the         *)
(* database, whatever failed or was lost, unless an answer or the undoing  *)
(* of a move has put something older there, which nothing in the page      *)
(* prevents, or a refresh failed, or the issue was archived.  And a draft  *)
(* replaces only the details that it was begun with, as long as the list   *)
(* is not renewed under the open panel.                                    *)
ScreenSettles ==
  /\ AtRest /\ row # None => list = row \/ older
  /\ ~unseen
=============================================================================
