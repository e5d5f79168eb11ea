------------------------------ MODULE Accounts ------------------------------
(***************************************************************************)
(* Who may enter a workspace: accounts and passwords, invitations, resets, *)
(* members and their roles, the organization with its policy, its domain,  *)
(* its directory (SCIM) and its single sign-on (SAML), and the sessions    *)
(* all of them open and revoke.                                            *)
(*                                                                         *)
(* One workspace that one organization may adopt.  A handler that reads,   *)
(* decides and writes in separate statements is a request with a step for  *)
(* each; the statements of one transaction are one step.  A request may    *)
(* end between any two steps.  Mail addresses, NameIDs and external ids    *)
(* are the user they belong to.                                            *)
(***************************************************************************)
EXTENDS Integers, Sequences, FiniteSets

CONSTANTS
  User,
  Request,      \* handlers at work at the same time
  Assertion,    \* what the identity provider has signed, each for one user
  Subject,      \* Assertion -> User
  None,
  MaxRequests,  \* handlers started
  MaxSessions   \* sessions opened

Role   == {"OWNER", "ADMIN", "MEMBER"}  \* a VIEWER manages nobody either, like a MEMBER
Policy == [enforceSso : BOOLEAN, allowLocalLogin : BOOLEAN, allowJitProvisioning : BOOLEAN]

ASSUME AccountAssumption ==
  /\ Subject \in [Assertion -> User]
  /\ None \notin Nat \cup [role : Role, active : BOOLEAN]
  /\ MaxRequests \in Nat /\ MaxSessions \in Nat

VARIABLES
  password,    \* generation of the user's password; 0 without one, None without account
  member,      \* WorkspaceMember: [role, active], or None
  org,         \* OrganizationMember: "none", "active", "off"
  founder,     \* the member with confirmed break-glass access, None before the adoption
  policy,
  domain,      \* OrganizationDomain: "none", "PENDING", "VERIFIED"
  allowed,     \* how often the domain stands in allowedDomains
  scim,        \* ScimIdentity: "none", "active", "inactive"
  saml,        \* users with a SamlIdentity
  sso,         \* SamlConfiguration: "none", "saved", "tested", "enabled"
  consumed,    \* SamlAssertionReplay
  invitation,  \* WorkspaceInvitation of the user: [row, status]
  reset,       \* PasswordResetToken: [user, row] of those that can be used
  issued,      \* reset tokens issued to the user
  session,     \* Session, in order of creation: [user, password, live]
  request,     \* handlers between two statements
  started,     \* handlers so far
  used,        \* history: one-shot tokens that had their effect
  again,       \* history: some one-shot token had it twice
  excused      \* history: why a property may be off, see each

identity == <<password, member>>
company  == <<org, founder, policy, domain, allowed>>
provider == <<scim, saml, sso, consumed>>
tokens   == <<invitation, reset, issued, used, again>>
vars     == <<identity, company, provider, tokens, session, request, started, excused>>

Idle == [op |-> "idle"]

Active(u)  == member[u] # None /\ member[u].active
Owners     == {u \in User : Active(u) /\ member[u].role = "OWNER"}
Admin(u)   == Active(u) /\ member[u].role \in {"OWNER", "ADMIN"}
Adopted    == founder # None
OrganizationAdmin(u) == Active(u) /\ u = founder /\ org[u] = "active"

\* Sessions that were not revoked.
Live == {i \in DOMAIN session : session[i].live}

\* A session answers while it is not revoked and its member is active.
Answers(i) == session[i].live /\ Active(session[i].user)

CanUseLocalLogin(u) ==
  \/ ~Adopted \/ ~policy.enforceSso \/ policy.allowLocalLogin
  \/ u = founder /\ org[u] = "active"

---------------------------------------------------------------------------
(* The states to start from: nobody yet, or a workspace in use. *)

Init ==
  /\ \/ member = [u \in User |-> None]
     \/ \E first \in User, others \in {None} \cup [role : {"OWNER", "MEMBER"}, active : {TRUE}] :
          member = [u \in User |-> IF u = first THEN [role |-> "OWNER", active |-> TRUE] ELSE others]
  /\ password = [u \in User |-> IF member[u] = None THEN None ELSE 1]
  /\ founder \in {None} \cup Owners
  /\ org = [u \in User |-> IF u = founder THEN "active" ELSE "none"]
  /\ policy = [enforceSso |-> FALSE, allowLocalLogin |-> TRUE, allowJitProvisioning |-> Adopted]
  /\ domain = IF Adopted THEN "PENDING" ELSE "none"
  /\ allowed = 0
  /\ scim = [u \in User |-> "none"] /\ saml = {} /\ consumed = {}
  /\ sso = IF Adopted THEN "saved" ELSE "none"
  /\ invitation = [u \in User |-> [row |-> 0, status |-> "none"]]
  /\ reset = {} /\ issued = [u \in User |-> 0]
  /\ session = <<>>
  /\ request = [p \in Request |-> Idle]
  /\ started = 0
  /\ used = {} /\ again = FALSE
  /\ excused = {}

\* A handler starts; the first form is one step, the second goes on as r.
Start == started < MaxRequests /\ started' = started + 1

Begin(p, r) ==
  /\ Start /\ request[p] = Idle
  /\ request' = [request EXCEPT ![p] = r]

Continue(p, r) ==
  /\ request' = [request EXCEPT ![p] = r]
  /\ UNCHANGED started

End(p) == Continue(p, Idle)

Spend(token) ==
  /\ used' = used \cup {token}
  /\ again' = (again \/ token \in used)

OnlyLatest(u) == [i \in DOMAIN session |->
  [session[i] EXCEPT !.live = @ /\ ~(session[i].user = u /\ i = Len(session))]]

\* Both of UPDATE ... SET revokedAt for the sessions of u.
Revoked(u) == [i \in DOMAIN session |->
                 [session[i] EXCEPT !.live = @ /\ session[i].user # u]]

---------------------------------------------------------------------------
(* Accounts and sessions. *)

\* The slug of the workspace is free until somebody has signed up with it.
SignUp(p, u) ==
  /\ \A v \in User : password[v] = None
  /\ Begin(p, [op |-> "open", user |-> u, password |-> 1])
  /\ password' = [password EXCEPT ![u] = 1]
  /\ member' = [member EXCEPT ![u] = [role |-> "OWNER", active |-> TRUE]]
  /\ UNCHANGED <<company, provider, tokens, session, excused>>

\* The right password of a member; the deactivated ones get a session that does not answer.
Login(p, u) ==
  /\ password[u] # None /\ password[u] # 0 /\ member[u] # None
  /\ CanUseLocalLogin(u)
  /\ Begin(p, [op |-> "open", user |-> u, password |-> password[u]])
  /\ UNCHANGED <<identity, company, provider, tokens, session, excused>>

\* createSession, the end of four handlers; one that came by SAML settles the test.
OpenSession(p) ==
  LET r == request[p] IN
  /\ r.op = "open" /\ Len(session) < MaxSessions
  /\ session' = Append(session, [user |-> r.user, password |-> r.password, live |-> TRUE])
  /\ excused' = IF r.password # None /\ r.password # password[r.user]
                THEN excused \cup {<<"overtaken", Len(session) + 1>>} ELSE excused
  /\ sso' = IF r.password = None /\ sso = "saved" THEN "tested" ELSE sso
  /\ End(p)
  /\ UNCHANGED <<identity, company, scim, saml, consumed, tokens>>

Logout(i) ==
  /\ Start /\ i \in Live
  /\ session' = [session EXCEPT ![i].live = FALSE]
  /\ UNCHANGED <<identity, company, provider, tokens, request, excused>>

---------------------------------------------------------------------------
(* Password resets. *)

\* A new token takes the place of those the user has.
RequestReset(u) ==
  /\ Start /\ password[u] # None
  /\ issued' = [issued EXCEPT ![u] = @ + 1]
  /\ reset' = {k \in reset : k.user # u} \cup {[user |-> u, row |-> issued[u] + 1]}
  /\ UNCHANGED <<identity, company, provider, invitation, used, again, session, request, excused>>

BeginConfirm(p, k) ==
  /\ k \in reset
  /\ Begin(p, [op |-> "confirm", token |-> k])
  /\ UNCHANGED <<identity, company, provider, tokens, session, excused>>

StillThere(k) == k \in reset

\* The token is claimed, its siblings go, the password changes; then the sessions.
ConfirmReset(p) ==
  LET k == request[p].token IN
  /\ request[p].op = "confirm"
  /\ IF StillThere(k)
     THEN /\ Spend(<<"reset", k.user, k.row>>)
          /\ reset' = {j \in reset : j.user # k.user}
          /\ password' = [password EXCEPT ![k.user] = @ + 1]
          /\ Continue(p, [op |-> "revoke", user |-> k.user, of |-> "reset"])
     ELSE /\ UNCHANGED <<used, again, reset, password>>
          /\ End(p)
  /\ UNCHANGED <<member, company, provider, invitation, issued, session, excused>>

RevokeAllSessions(p) ==
  /\ request[p].op = "revoke"
  /\ session' = Revoked(request[p].user)
  /\ End(p)
  /\ UNCHANGED <<identity, company, provider, tokens, excused>>

---------------------------------------------------------------------------
(* Invitations. *)

\* An active member is added to the project at once; a pending invitation is renewed.
Invite(a, u) ==
  /\ Start /\ Admin(a) /\ ~Active(u)
  /\ invitation' = [invitation EXCEPT ![u] =
       IF @.status \in {"PENDING", "EXPIRED"} THEN [@ EXCEPT !.status = "PENDING"]
       ELSE [row |-> @.row + 1, status |-> "PENDING"]]
  /\ UNCHANGED <<identity, company, provider, reset, issued, used, again, session, request, excused>>

\* Resending and revoking go by the id of an invitation that was read as pending.
BeginManage(p, a, u, action) ==
  /\ Admin(a) /\ invitation[u].status \in {"PENDING", "EXPIRED"}
  /\ Begin(p, [op |-> action, user |-> u, row |-> invitation[u].row])
  /\ UNCHANGED <<identity, company, provider, tokens, session, excused>>

\* Neither update looks at the status again.
Manage(p) ==
  LET r == request[p]
      row == invitation[r.user]
      next == IF r.op = "drop" THEN "REVOKED" ELSE IF row.status = "EXPIRED" THEN "PENDING" ELSE row.status
  IN
  /\ r.op \in {"drop", "resend"}
  /\ invitation' = [invitation EXCEPT ![r.user].status = IF row.row = r.row THEN next ELSE @]
  /\ End(p)
  /\ UNCHANGED <<identity, company, provider, reset, issued, used, again, session, excused>>

Expire(u) ==
  /\ Start
  /\ \/ /\ invitation[u].status = "PENDING"
        /\ invitation' = [invitation EXCEPT ![u].status = "EXPIRED"]
        /\ UNCHANGED reset
     \/ /\ \E k \in reset : k.user = u
        /\ reset' = {k \in reset : k.user # u}
        /\ UNCHANGED invitation
  /\ UNCHANGED <<identity, company, provider, issued, used, again, session, request, excused>>

\* The password of an account is checked here; accounts without one cannot accept,
\* who has no account chooses one.
BeginAccept(p, u) ==
  /\ invitation[u].status = "PENDING" /\ password[u] # 0
  /\ Begin(p, [op |-> "accept", user |-> u, row |-> invitation[u].row, password |-> password[u]])
  /\ UNCHANGED <<identity, company, provider, tokens, session, excused>>

AnyStatus(r) == invitation[r.user].row = r.row

Claimable(r) == invitation[r.user] = [row |-> r.row, status |-> "PENDING"]

\* The claim, the account, the membership (with the role of the invitation).
Accept(p) ==
  LET r == request[p]
      u == r.user
      fresh == r.password = None
  IN
  /\ r.op = "accept"
  /\ IF Claimable(r) /\ (fresh => password[u] = None)
     THEN /\ Spend(<<"invitation", u, r.row>>)
          /\ invitation' = [invitation EXCEPT ![u].status = "ACCEPTED"]
          /\ password' = [password EXCEPT ![u] = IF fresh THEN 1 ELSE @]
          /\ member' = [member EXCEPT ![u] = [role |-> "MEMBER", active |-> TRUE]]
          /\ Continue(p, [op |-> "open", user |-> u, password |-> IF fresh THEN 1 ELSE r.password])
     ELSE /\ UNCHANGED <<used, again, invitation, identity>>
          /\ End(p)
  /\ excused' = IF Owners = {u} THEN excused \cup {<<"owner">>} ELSE excused
  /\ UNCHANGED <<company, provider, reset, issued, session>>

---------------------------------------------------------------------------
(* Members and their roles. *)

Reduces(u, change) == member[u].role = "OWNER" /\ change \notin {"OWNER", "reactivate"}

RetainsOwner == Cardinality(Owners) > 1

BeginChange(p, a, u, change) ==
  /\ Admin(a) /\ member[u] # None
  /\ (member[a].role # "OWNER") => (member[u].role # "OWNER" /\ change # "OWNER")
  /\ a = u => change = member[a].role \/ change = "reactivate"
  /\ Reduces(u, change) => RetainsOwner
  /\ Begin(p, [op |-> "change", user |-> u, change |-> change, others |-> Owners \ {u}])
  /\ UNCHANGED <<identity, company, provider, tokens, session, excused>>

AsNewcomer(row, change) ==
  IF change = "deactivate" THEN [row EXCEPT !.active = FALSE]
  ELSE IF change = "reactivate" THEN [row EXCEPT !.active = TRUE, !.role = "MEMBER"]
  ELSE IF change = "remove" THEN None
  ELSE [row EXCEPT !.role = change]

Changed(row, change) ==
  IF change = "deactivate" THEN [row EXCEPT !.active = FALSE]
  ELSE IF change = "reactivate" THEN [row EXCEPT !.active = TRUE]
  ELSE IF change = "remove" THEN None
  ELSE [row EXCEPT !.role = change]

\* Removing a member also revokes the sessions; deactivating one does so afterwards.
Change(p) ==
  LET r == request[p]
      u == r.user
  IN
  /\ r.op = "change"
  /\ IF member[u] = None THEN UNCHANGED <<member, session>> /\ End(p)
     ELSE /\ member' = [member EXCEPT ![u] = Changed(@, r.change)]
          /\ session' = IF r.change = "remove" THEN Revoked(u) ELSE session
          /\ IF r.change = "deactivate"
             THEN Continue(p, [op |-> "revoke", user |-> u, of |-> "member"]) ELSE End(p)
  /\ excused' = IF r.others # {} /\ r.others \cap Owners = {}
                THEN excused \cup {<<"owner">>} ELSE excused
  /\ UNCHANGED <<password, company, provider, tokens>>

---------------------------------------------------------------------------
(* The organization. *)

\* Adoption is compare-and-set on the workspace's organization.
Adopt(a) ==
  /\ Start /\ a \in Owners /\ ~Adopted
  /\ founder' = a
  /\ org' = [org EXCEPT ![a] = "active"]
  /\ UNCHANGED <<identity, policy, domain, allowed, provider, tokens, session, request, excused>>

\* The policy is computed from the row that was read.
BeginPolicy(p, a, new) ==
  /\ OrganizationAdmin(a)
  /\ new.enforceSso /\ ~new.allowLocalLogin => org[founder] = "active"
  /\ Begin(p, [op |-> "policy", policy |-> new])
  /\ UNCHANGED <<identity, company, provider, tokens, session, excused>>

SetPolicy(p) ==
  /\ request[p].op = "policy"
  /\ policy' = request[p].policy
  /\ End(p)
  /\ UNCHANGED <<identity, org, founder, domain, allowed, provider, tokens, session, excused>>

ClaimDomain(a) ==
  /\ Start /\ OrganizationAdmin(a) /\ domain = "none"
  /\ domain' = "PENDING"
  /\ UNCHANGED <<identity, org, founder, policy, allowed, provider, tokens, session, request, excused>>

\* The claim is read, the name servers are asked, the claim is settled if still pending.
BeginVerify(p, a) ==
  /\ OrganizationAdmin(a) /\ domain = "PENDING"
  /\ Begin(p, [op |-> "verify"])
  /\ UNCHANGED <<identity, company, provider, tokens, session, excused>>

StillPending == domain = "PENDING"

VerifyDomain(p) ==
  /\ request[p].op = "verify"
  /\ IF StillPending
     THEN /\ domain' = "VERIFIED" /\ Spend(<<"domain">>)
          /\ Continue(p, [op |-> "allow"])
     ELSE UNCHANGED <<domain, used, again>> /\ End(p)
  /\ UNCHANGED <<identity, org, founder, policy, allowed, provider, invitation, reset, issued, session, excused>>

AllowDomain(p) ==
  /\ request[p].op = "allow"
  /\ allowed' = allowed + 1
  /\ End(p)
  /\ UNCHANGED <<identity, org, founder, policy, domain, provider, tokens, session, excused>>

---------------------------------------------------------------------------
(* The directory. *)

AlwaysIn(active) == "active"

Standing(active) == IF active THEN "active" ELSE "off"

\* An account of somebody outside the organization is a conflict.
Provision(u, active) ==
  /\ Start /\ Adopted /\ scim[u] = "none"
  /\ password[u] # None => org[u] # "none"
  /\ scim' = [scim EXCEPT ![u] = IF active THEN "active" ELSE "inactive"]
  /\ password' = [password EXCEPT ![u] = IF @ = None THEN 0 ELSE @]
  /\ org' = [org EXCEPT ![u] = Standing(active)]
  /\ member' = [member EXCEPT ![u] = IF @ = None THEN [role |-> "MEMBER", active |-> active]
                                     ELSE [@ EXCEPT !.active = active]]
  /\ excused' = IF Owners = {u} /\ ~active THEN excused \cup {<<"owner">>} ELSE excused
  /\ UNCHANGED <<founder, policy, domain, allowed, saml, sso, consumed, tokens, session, request>>

\* One transaction over the identity, both memberships and the sessions.
SetActive(u, active) ==
  /\ scim' = [scim EXCEPT ![u] = IF active THEN "active" ELSE "inactive"]
  /\ org' = [org EXCEPT ![u] = Standing(active)]
  /\ member' = [member EXCEPT ![u] = IF @ = None THEN @ ELSE [@ EXCEPT !.active = active]]
  /\ session' = IF active THEN session ELSE Revoked(u)
  /\ excused' = IF Owners = {u} /\ ~active THEN excused \cup {<<"owner">>} ELSE excused
  /\ UNCHANGED <<password, founder, policy, domain, allowed, saml, sso, consumed, tokens>>

Deprovision(u) ==
  /\ Start /\ scim[u] # "none"
  /\ SetActive(u, FALSE) /\ UNCHANGED request

\* PUT and PATCH write the identity first; whether active changes is decided from
\* the row that was read.
BeginUpdate(p, u, active) ==
  /\ scim[u] # "none"
  /\ Begin(p, [op |-> "update", user |-> u, active |-> active,
               differs |-> active # (scim[u] = "active")])
  /\ UNCHANGED <<identity, company, provider, tokens, session, excused>>

UpdateUser(p) ==
  LET r == request[p] IN
  /\ r.op = "update"
  /\ IF r.differs THEN SetActive(r.user, r.active)
     ELSE UNCHANGED <<identity, company, provider, tokens, session, excused>>
  /\ End(p)

---------------------------------------------------------------------------
(* Single sign-on. *)

\* Enabling needs a login that went well, disabling keeps what was tested.
ConfigureSso(a, enable) ==
  /\ Start /\ OrganizationAdmin(a)
  /\ enable => sso \in {"tested", "enabled"}
  /\ sso' = IF enable THEN "enabled" ELSE IF sso = "enabled" THEN "tested"
            ELSE IF sso = "none" THEN "saved" ELSE sso
  /\ UNCHANGED <<identity, company, scim, saml, consumed, tokens, session, request, excused>>

Unseen(x) == x \notin consumed

\* The answer of the provider is valid; its assertion is taken once.  A test login
\* is served before sign-on is enabled.
Callback(p, x) ==
  /\ Adopted /\ sso # "none"
  /\ IF Unseen(x)
     THEN /\ consumed' = consumed \cup {x} /\ Spend(<<"assertion", x>>)
          /\ Begin(p, [op |-> "identify", user |-> Subject[x]])
     ELSE UNCHANGED <<consumed, used, again, request>> /\ Start
  /\ UNCHANGED <<identity, company, scim, saml, sso, invitation, reset, issued, session, excused>>

Jit(u) == policy.allowJitProvisioning /\ domain = "VERIFIED" /\ password[u] = None

\* A known identity, one of the directory, or a new account; then the membership.
Identify(p) ==
  LET u == request[p].user IN
  /\ request[p].op = "identify"
  /\ \/ /\ u \in saml /\ org[u] = "active"
        /\ UNCHANGED <<saml, identity, org>>
     \/ /\ u \notin saml /\ scim[u] = "active"
        /\ saml' = saml \cup {u}
        /\ UNCHANGED <<identity, org>>
     \/ /\ u \notin saml /\ scim[u] # "active" /\ Jit(u)
        /\ saml' = saml \cup {u}
        /\ password' = [password EXCEPT ![u] = 0]
        /\ org' = [org EXCEPT ![u] = "active"]
        /\ member' = [member EXCEPT ![u] = [role |-> "MEMBER", active |-> TRUE]]
  /\ IF member'[u] # None /\ member'[u].active
     THEN Continue(p, [op |-> "open", user |-> u, password |-> None])
     ELSE End(p)
  /\ UNCHANGED <<founder, policy, domain, allowed, scim, sso, consumed, tokens, session, excused>>

\* The process ends, or the login is refused.
Abandon(p) ==
  /\ request[p] # Idle
  /\ excused' = IF request[p].op = "revoke" THEN excused \cup {<<"unrevoked", request[p].user>>}
                ELSE excused
  /\ End(p)
  /\ UNCHANGED <<identity, company, provider, tokens, session>>

---------------------------------------------------------------------------
Policies ==
  {[policy EXCEPT !.enforceSso = b, !.allowLocalLogin = ~b] : b \in BOOLEAN}
  \cup {[policy EXCEPT !.allowJitProvisioning = ~@]}

Account ==
  \/ \E p \in Request, u \in User : SignUp(p, u) \/ Login(p, u)
  \/ \E p \in Request : OpenSession(p) \/ ConfirmReset(p) \/ RevokeAllSessions(p) \/ Abandon(p)
  \/ \E i \in DOMAIN session : Logout(i)
  \/ \E u \in User : RequestReset(u)
  \/ \E p \in Request, k \in reset : BeginConfirm(p, k)

Membership ==
  \/ \E a, u \in User : Invite(a, u)
  \/ \E p \in Request, a, u \in User, action \in {"drop", "resend"} : BeginManage(p, a, u, action)
  \/ \E p \in Request : Manage(p) \/ Accept(p) \/ Change(p)
  \/ \E u \in User : Expire(u)
  \/ \E p \in Request, u \in User : BeginAccept(p, u)
  \/ \E p \in Request, a, u \in User, change \in Role \cup {"deactivate", "reactivate", "remove"} :
       BeginChange(p, a, u, change)

Organization ==
  \/ \E a \in User : Adopt(a) \/ ClaimDomain(a)
  \/ \E p \in Request, a \in User, new \in Policies : BeginPolicy(p, a, new)
  \/ \E p \in Request : SetPolicy(p) \/ VerifyDomain(p) \/ AllowDomain(p)
  \/ \E p \in Request, a \in User : BeginVerify(p, a)

Directory ==
  \/ \E u \in User, active \in BOOLEAN : Provision(u, active)
  \/ \E u \in User : Deprovision(u)
  \/ \E p \in Request, u \in User, active \in BOOLEAN : BeginUpdate(p, u, active)
  \/ \E p \in Request : UpdateUser(p) \/ Identify(p)
  \/ \E a \in User, enable \in BOOLEAN : ConfigureSso(a, enable)
  \/ \E p \in Request, x \in Assertion : Callback(p, x)

Next == Account \/ Membership \/ Organization \/ Directory

Spec == Init /\ [][Next]_vars

---------------------------------------------------------------------------
\* An invitation, a reset token, a domain challenge and an assertion have their
\* effect at most once, however many requests hold them.
OneShot == ~again

\* A changed password ends the sessions of the old one: what is left was opened by a
\* login or an accepted invitation that had checked the password before the reset and
\* came to its last statement after it, or waits for the second statement of the
\* reset, or that statement was never reached.
ResetEndsSessions ==
  \A i \in Live : LET s == session[i] IN
    s.password \in {None, password[s.user]}
    \/ <<"overtaken", i>> \in excused
    \/ <<"unrevoked", s.user>> \in excused
    \/ \E p \in Request : request[p].op = "revoke" /\ request[p].user = s.user

\* "The workspace must retain an active owner": it does, unless the owners that a
\* change had counted were gone when it was written, or the directory or an accepted
\* invitation, which do not count, took the last one.
OwnerRetained == (\E u \in User : member[u] # None) => Owners # {} \/ <<"owner">> \in excused

\* The directory and the organization agree on who is active, whatever handlers
\* have read before the other's write.
DirectoryAgrees ==
  \A u \in User : scim[u] # "none" => org[u] = IF scim[u] = "active" THEN "active" ELSE "off"
=============================================================================
