------------------------------ MODULE Watching ------------------------------
(***************************************************************************)
(* The bell of an issue panel: whether its viewer watches the issue.  It   *)
(* asks when the panel opens, a click sends the opposite of what it shows, *)
(* and nothing keeps a second click from being sent before the first one   *)
(* is answered.                                                            *)
(***************************************************************************)
EXTENDS Handlers

VARIABLES
  issueLive,  \* whether the issue is there and not archived
  watcher,    \* whether the viewer has a row of issueWatcher
  bell,       \* what the bell shows
  opening,    \* the answer to what it asked for when it opened: "sent", "yes", "no" or "shown"
  rattled     \* history: changes overlapped, or something was not answered

watchVars == <<issueLive, watcher, bell, opening, rattled>>

WatchInit ==
  /\ issueLive = TRUE
  /\ watcher \in BOOLEAN
  /\ bell = FALSE /\ opening = "sent"
  /\ rattled = FALSE

Changing == \E h \in Handler : at[h].op \in {"watch", "watched"}

\* An issue that is not found, and a failure, are shown as not watching.
AnswerOpening ==
  /\ opening = "sent"
  /\ \/ /\ issueLive
        /\ opening' = IF watcher THEN "yes" ELSE "no"
        /\ UNCHANGED rattled
     \/ /\ opening' = "no"
        /\ rattled' = (rattled \/ watcher)
  /\ UNCHANGED <<handlers, issueLive, watcher, bell>>

ShowOpening ==
  /\ opening \in {"yes", "no"}
  /\ opening' = "shown"
  /\ bell' = (opening = "yes")
  /\ UNCHANGED <<handlers, issueLive, watcher, rattled>>

\* PUT or DELETE, by what the bell shows when it is clicked.
Click(h) ==
  /\ Enter(h, [op |-> "watch", on |-> ~bell])
  /\ rattled' = (rattled \/ Changing \/ opening # "shown")
  /\ UNCHANGED <<issueLive, watcher, bell, opening>>

\* Both can be repeated without harm: a row that is there is kept, one that is not is not missed.
SetWatcher(h) ==
  /\ Busy(h, "watch") /\ issueLive
  /\ watcher' = at[h].on
  /\ Proceed(h, [op |-> "watched", on |-> at[h].on])
  /\ UNCHANGED <<issueLive, bell, opening, rattled>>

\* The bell shows the answer to the last click, not the opposite of what it showed.
ShowWatcher(h) ==
  /\ Busy(h, "watched")
  /\ bell' = at[h].on
  /\ Leave(h)
  /\ UNCHANGED <<issueLive, watcher, opening, rattled>>

\* Refused, failed or not answered: the bell stays as it is.
Unanswered(h) ==
  /\ Changing /\ at[h].op \in {"watch", "watched"}
  /\ rattled' = (rattled \/ Busy(h, "watched"))
  /\ Leave(h)
  /\ UNCHANGED <<issueLive, watcher, bell, opening>>

ArchiveIssue ==
  /\ InOneStep
  /\ issueLive' = ~issueLive
  /\ UNCHANGED <<watcher, bell, opening, rattled>>

WatchNext ==
  \/ AnswerOpening \/ ShowOpening \/ ArchiveIssue
  \/ \E h \in Handler : Click(h) \/ SetWatcher(h) \/ ShowWatcher(h) \/ Unanswered(h)

---------------------------------------------------------------------------
(* When nothing is on its way the bell shows whether the viewer watches    *)
(* the issue, unless clicks overlapped each other or the opening, or an    *)
(* answer was an error or lost.                                            *)
BellTells == ~rattled /\ ~Changing /\ opening = "shown" => (bell <=> watcher)
=============================================================================
