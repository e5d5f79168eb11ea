---------------------------- MODULE AtomicIssues ----------------------------
(***************************************************************************)
(* What the issue handlers promise when each of them is seen as one        *)
(* indivisible operation on one row: the row is read, the rules are        *)
(* decided and the new row is written in the same instant.  The handlers   *)
(* of IssueMutation spread that over several database statements; the      *)
(* version guarded ones still implement this module.                       *)
(***************************************************************************)
EXTENDS Integers

CONSTANTS
    Issues,
    Statuses,
    Contents,      \* what a request may write into the free fields of a row
    Transitions,   \* enabled workflow transitions, pairs of statuses
    FirstStatus,   \* the status an issue is created in
    NoContent,     \* the free fields of a newly created row
    Direct,        \* TRUE if some writer sets a status past the workflow
    Rules,         \* TRUE if an automation rule may set a field of any row
    Remaps         \* TRUE if a status may be deleted, and its issues moved

VARIABLE issue

AtomicInit ==
    issue = [i \in Issues |-> [version |-> 1, status |-> FirstStatus,
                               content |-> NoContent, archived |-> FALSE]]

\* No configured transition means that every move is allowed.
Reachable(from, to) == Transitions = {} \/ <<from, to>> \in Transitions

\* An edit lands on a live row, on the status the row has at that moment.
Edit(i) ==
    /\ ~issue[i].archived
    /\ \E s \in Statuses, c \in Contents \cup {issue[i].content} :
          /\ s = issue[i].status \/ Direct \/ Reachable(issue[i].status, s)
          /\ issue' = [issue EXCEPT ![i] =
                [version |-> issue[i].version + 1, status |-> s,
                 content |-> c, archived |-> FALSE]]

SetArchived(i, b) ==
    issue' = [issue EXCEPT ![i] =
        [version |-> issue[i].version + 1, status |-> issue[i].status,
         content |-> issue[i].content, archived |-> b]]

\* An automation rule sets a free field of any row, archived or not.
Automate(i) ==
    /\ Rules
    /\ \E c \in Contents :
          issue' = [issue EXCEPT ![i] =
              [version |-> issue[i].version + 1, status |-> issue[i].status,
               content |-> c, archived |-> issue[i].archived]]

\* Deleting a status moves its issues; no version tells.
Remap(from, to) ==
    /\ Remaps
    /\ issue' = [i \in Issues |->
          IF issue[i].status = from THEN [issue[i] EXCEPT !.status = to] ELSE issue[i]]

AtomicNext ==
    \/ \E from, to \in Statuses : Remap(from, to)
    \/ \E i \in Issues :
          \/ Edit(i)
          \/ \E b \in BOOLEAN : SetArchived(i, b)
          \/ Automate(i)

AtomicSpec == AtomicInit /\ [][AtomicNext]_issue
=============================================================================
