---------------------------- MODULE PortalAccess ----------------------------
(***************************************************************************)
(* How a customer enters the portal: invitations and recoveries by links   *)
(* that are mailed, the password they set, and the sessions opened with    *)
(* it.  One customer; the projects and requests a customer may see belong  *)
(* to ServiceMail.  A link works while its row is unused and not expired.  *)
(***************************************************************************)
EXTENDS Handlers

CONSTANT MaxVisits  \* bound on the sessions

VARIABLES
  account,   \* PortalCustomer: [secret, active]; secret counts the passwords, 0 before the first
  link,      \* PortalCustomerToken by id: [purpose, state]
  visit,     \* PortalCustomerSession by id: [secret, live]
  recovered, \* history: the password that the last recovery set
  overtaken, \* history: sessions whose login had checked an earlier password
  doubled,   \* history: a link had its effect twice
  alone      \* history: no two requests for a link met

accessVars == <<account, link, visit, recovered, overtaken, doubled, alone>>

AccessInit ==
  /\ account = [secret |-> 0, active |-> TRUE]
  /\ link = <<>> /\ visit = <<>>
  /\ recovered = 0 /\ overtaken = {} /\ doubled = FALSE /\ alone = TRUE

Verified == account.secret > 0

Outstanding(purpose) == {k \in DOMAIN link : link[k].purpose = purpose /\ link[k].state = "unused"}

---------------------------------------------------------------------------
(* Links. *)

\* An administrator invites, also again; the customer asks for a recovery.  The links
\* of the purpose that are there are deleted first; the new one is not there yet.
BeginIssue(h, purpose) ==
  /\ account.active /\ (purpose = "recovery" => Verified)
  /\ Enter(h, [op |-> "issue", purpose |-> purpose, doomed |-> Outstanding(purpose)])
  /\ alone' = (alone /\ \A g \in Handler : ~Busy(g, "issue"))
  /\ UNCHANGED <<account, link, visit, recovered, overtaken, doubled>>

IssueLink(h) ==
  LET r == at[h] IN
  /\ Busy(h, "issue")
  /\ link' = Append([k \in DOMAIN link |-> IF k \in r.doomed THEN [link[k] EXCEPT !.state = "deleted"] ELSE link[k]],
                    [purpose |-> r.purpose, state |-> "unused"])
  /\ Leave(h)
  /\ UNCHANGED <<account, visit, recovered, overtaken, doubled, alone>>

\* A deleted row is locked until its transaction ends.
LinkHeld(k) == \E h \in Handler : Busy(h, "issue") /\ k \in at[h].doomed

ExpireLink(k) ==
  /\ InOneStep
  /\ link[k].state = "unused" /\ ~LinkHeld(k)
  /\ link' = [link EXCEPT ![k].state = "expired"]
  /\ UNCHANGED <<account, visit, recovered, overtaken, doubled, alone>>

\* consumePortalToken reads the link with its customer, then claims it.
BeginUse(h, k) ==
  /\ link[k].state = "unused" /\ account.active
  /\ Enter(h, [op |-> "use", link |-> k])
  /\ UNCHANGED accessVars

\* A claim that trusted what was read.
AsRead(k) == TRUE

StillUnused(k) == link[k].state \in {"unused", "expired"}

\* The password is set in the transaction of the claim; a recovery ends the sessions
\* there, an activation opens one afterwards.
UseLink(h) ==
  LET k == at[h].link
      recovery == link[k].purpose = "recovery"
      secret == account.secret + 1
  IN
  /\ Busy(h, "use") /\ ~LinkHeld(k)
  /\ \/ /\ ~StillUnused(k)
        /\ Leave(h) /\ UNCHANGED accessVars
     \/ /\ StillUnused(k)
        /\ link' = [link EXCEPT ![k].state = "used"]
        /\ doubled' = (doubled \/ link[k].state = "used")
        /\ account' = [account EXCEPT !.secret = secret]
        /\ visit' = IF recovery THEN [i \in DOMAIN visit |-> [visit[i] EXCEPT !.live = FALSE]] ELSE visit
        /\ recovered' = IF recovery THEN secret ELSE recovered
        /\ IF recovery THEN Leave(h) ELSE Proceed(h, [op |-> "open", secret |-> secret])
        /\ UNCHANGED <<overtaken, alone>>

---------------------------------------------------------------------------
(* Sessions. *)

BeginLogin(h) ==
  /\ Verified /\ account.active
  /\ Enter(h, [op |-> "open", secret |-> account.secret])
  /\ UNCHANGED accessVars

CreatePortalSession(h) ==
  /\ Busy(h, "open") /\ Len(visit) < MaxVisits
  /\ visit' = Append(visit, [secret |-> at[h].secret, live |-> TRUE])
  /\ overtaken' = IF at[h].secret < recovered THEN overtaken \cup {Len(visit) + 1} ELSE overtaken
  /\ Leave(h)
  /\ UNCHANGED <<account, link, recovered, doubled, alone>>

EndVisit(i) ==
  /\ InOneStep
  /\ visit[i].live
  /\ visit' = [visit EXCEPT ![i].live = FALSE]
  /\ UNCHANGED <<account, link, recovered, overtaken, doubled, alone>>

\* Deactivation, and the source of a merge: for good.
CloseAccount ==
  /\ InOneStep
  /\ account.active
  /\ account' = [account EXCEPT !.active = FALSE]
  /\ visit' = [i \in DOMAIN visit |-> [visit[i] EXCEPT !.live = FALSE]]
  /\ UNCHANGED <<link, recovered, overtaken, doubled, alone>>

\* getPortalContext
Entered(i) == visit[i].live /\ account.active /\ Verified

\* The process ends between two statements.
Interrupted(h) == at[h] # Idle /\ Leave(h) /\ UNCHANGED accessVars

AccessNext ==
  \/ \E h \in Handler, purpose \in {"invitation", "recovery"} : BeginIssue(h, purpose)
  \/ \E h \in Handler : IssueLink(h) \/ UseLink(h) \/ BeginLogin(h) \/ CreatePortalSession(h) \/ Interrupted(h)
  \/ \E h \in Handler, k \in DOMAIN link : BeginUse(h, k)
  \/ \E k \in DOMAIN link : ExpireLink(k)
  \/ \E i \in DOMAIN visit : EndVisit(i)
  \/ CloseAccount

---------------------------------------------------------------------------
\* A link sets a password once, however often it is followed; who still enters after a
\* recovery knew the password it set or a later one, but for a login that had checked
\* the old one before; and unless two requests for a link met, the customer holds at
\* most one that works for each purpose.
RecoveryHolds ==
  /\ ~doubled
  /\ \A i \in DOMAIN visit : Entered(i) => visit[i].secret >= recovered \/ i \in overtaken
  /\ alone => \A purpose \in {"invitation", "recovery"} : Cardinality(Outstanding(purpose)) <= 1
=============================================================================
