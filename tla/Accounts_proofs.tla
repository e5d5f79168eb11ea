--------------------------- MODULE Accounts_proofs ---------------------------
(***************************************************************************)
(* For every set of users, assertions and requests, and any number of      *)
(* them: a token that has its effect once has it once, a changed password  *)
(* ends the sessions of the old one, a workspace keeps an owner as far as  *)
(* the handlers count them, and the directory agrees with the organization.*)
(* The four have one invariant each, over the tables they are about; they  *)
(* share the types and the facts about who has an account.                 *)
(***************************************************************************)
EXTENDS Accounts, FiniteSetTheorems, TLAPS

-----------------------------------------------------------------------------
(* Types.                                                                  *)

Password == Nat \cup {None}
Row      == [role : Role, active : BOOLEAN]
Status   == {"none", "PENDING", "EXPIRED", "ACCEPTED", "REVOKED"}
Token    == [user : User, row : Nat]
Changes  == Role \cup {"deactivate", "reactivate", "remove"}

Opening     == [op : {"open"}, user : User, password : Password]
Confirming  == [op : {"confirm"}, token : Token]
Revoking    == [op : {"revoke"}, user : User, of : {"reset", "member"}]
Managing    == [op : {"drop", "resend"}, user : User, row : Nat]
Accepting   == [op : {"accept"}, user : User, row : Nat, password : Password]
Changing    == [op : {"change"}, user : User, change : Changes, others : SUBSET User]
Deciding    == [op : {"policy"}, policy : Policy]
Verifying   == [op : {"verify", "allow"}]
Updating    == [op : {"update"}, user : User, active : BOOLEAN, differs : BOOLEAN]
Identifying == [op : {"identify"}, user : User]

Operation ==
  {Idle} \cup Opening \cup Confirming \cup Revoking \cup Managing \cup Accepting
  \cup Changing \cup Deciding \cup Verifying \cup Updating \cup Identifying

IdentityTypes ==
  /\ password \in [User -> Password]
  /\ member \in [User -> {None} \cup Row]

CompanyTypes ==
  /\ org \in [User -> {"none", "active", "off"}]
  /\ founder \in {None} \cup User
  /\ policy \in Policy
  /\ domain \in {"none", "PENDING", "VERIFIED"}
  /\ allowed \in Nat

ProviderTypes ==
  /\ scim \in [User -> {"none", "active", "inactive"}]
  /\ saml \subseteq User
  /\ sso \in {"none", "saved", "tested", "enabled"}
  /\ consumed \subseteq Assertion

TokenTypes ==
  /\ invitation \in [User -> [row : Nat, status : Status]]
  /\ reset \subseteq Token
  /\ issued \in [User -> Nat]
  /\ again \in BOOLEAN

SessionTypes == session \in Seq([user : User, password : Password, live : BOOLEAN])

RequestTypes ==
  /\ request \in [Request -> Operation]
  /\ started \in Nat

TypeOK ==
  IdentityTypes /\ CompanyTypes /\ ProviderTypes /\ TokenTypes /\ SessionTypes /\ RequestTypes

-----------------------------------------------------------------------------
(* The inductive invariants.                                               *)

\* Who has an account keeps it: members, the users of the directory, and those whose
\* request or token supposes one.
AccountsKept ==
  /\ \A u \in User : member[u] # None \/ scim[u] # "none" => password[u] # None
  /\ \A k \in reset : password[k.user] # None
  /\ \A p \in Request :
       /\ request[p].op = "accept" /\ request[p].password # None => password[request[p].user] # None
       /\ request[p].op = "update" => scim[request[p].user] # "none"

\* What can still be claimed was not spent.
ResetsKept ==
  /\ \A k \in reset : k.row <= issued[k.user] /\ <<"reset", k.user, k.row>> \notin used
  /\ \A u \in User, n \in Nat : <<"reset", u, n>> \in used => n <= issued[u]

InvitationsKept ==
  \A u \in User, n \in Nat : <<"invitation", u, n>> \in used =>
    /\ n <= invitation[u].row
    /\ n = invitation[u].row => invitation[u].status \notin {"PENDING", "EXPIRED"}

DomainKept == <<"domain">> \in used => domain = "VERIFIED"

AssertionsKept == \A x \in Assertion : <<"assertion", x>> \in used => x \in consumed

TokensKept == ~again /\ ResetsKept /\ InvitationsKept /\ DomainKept /\ AssertionsKept

\* There is something in the workspace, which only an owner can have started.
Settled ==
  \/ \E u \in User : member[u] # None \/ password[u] # None \/ invitation[u].status # "none"
  \/ Adopted
  \/ domain # "none"

Occupied == Settled \/ \E p \in Request : request[p].op \in {"drop", "resend"}

Staffed == Occupied => Owners # {} \/ <<"owner">> \in excused

\* A change that had counted no other owner does not take one away.
Counted(p) ==
  request[p].op = "change" =>
    /\ request[p].user \notin request[p].others
    /\ request[p].others = {} =>
         request[p].change \in {"OWNER", "reactivate"} \/ <<"owner">> \in excused

OwnersKept == Staffed /\ \A p \in Request : Counted(p)

\* Before the adoption there is no directory.
DirectoryKept ==
  /\ DirectoryAgrees
  /\ founder = None => \A u \in User : scim[u] = "none"

-----------------------------------------------------------------------------
(* What a handler goes on with.                                            *)

LEMMA Goes ==
    ASSUME RequestTypes, NEW p, NEW r \in Operation, Begin(p, r) \/ Continue(p, r)
    PROVE  RequestTypes' /\ request' = [request EXCEPT ![p] = r]
  <1>1. request' = [request EXCEPT ![p] = r] /\ started' \in Nat
    BY DEF Begin, Start, Continue, RequestTypes
  <1>2. QED
    BY <1>1 DEF RequestTypes

LEMMA Ends ==
    ASSUME RequestTypes, NEW p, End(p)
    PROVE  RequestTypes' /\ request' = [request EXCEPT ![p] = Idle]
  BY Goes DEF Operation, End

\* A handler that answers in one step.
LEMMA Starts ==
    ASSUME RequestTypes, Start, UNCHANGED request
    PROVE  RequestTypes'
  BY DEF RequestTypes, Start

\* The name of its operation says what a handler has read.
LEMMA Reads ==
    ASSUME RequestTypes, NEW p \in Request
    PROVE  /\ request[p].op = "open" => request[p] \in Opening
           /\ request[p].op = "confirm" => request[p] \in Confirming
           /\ request[p].op = "revoke" => request[p] \in Revoking
           /\ request[p].op \in {"drop", "resend"} => request[p] \in Managing
           /\ request[p].op = "accept" => request[p] \in Accepting
           /\ request[p].op = "change" => request[p] \in Changing
           /\ request[p].op = "policy" => request[p] \in Deciding
           /\ request[p].op \in {"verify", "allow"} => request[p] \in Verifying
           /\ request[p].op = "update" => request[p] \in Updating
           /\ request[p].op = "identify" => request[p] \in Identifying
  <1>1. request[p] \in Operation
    BY DEF RequestTypes
  <1>2. QED
    BY <1>1 DEF Operation, Idle, Opening, Confirming, Revoking, Managing, Accepting, Changing,
                Deciding, Verifying, Updating, Identifying

LEMMA RevokedTypes ==
    ASSUME SessionTypes, NEW u
    PROVE  /\ Revoked(u) \in Seq([user : User, password : Password, live : BOOLEAN])
           /\ DOMAIN Revoked(u) = DOMAIN session
           /\ \A i \in DOMAIN session :
                /\ Revoked(u)[i].user = session[i].user
                /\ Revoked(u)[i].password = session[i].password
                /\ Revoked(u)[i].live = (session[i].live /\ session[i].user # u)
  <1> DEFINE S == [user : User, password : Password, live : BOOLEAN]
  <1>1. session \in Seq(S) /\ Len(session) \in Nat /\ DOMAIN session = 1 .. Len(session)
    BY DEF SessionTypes
  <1>2. \A i \in DOMAIN session : session[i] \in S
    <2> HIDE DEF S
    <2>1. QED
      BY <1>1
  <1>3. DOMAIN Revoked(u) = DOMAIN session
    BY DEF Revoked
  <1>4. ASSUME NEW i \in DOMAIN session
        PROVE  /\ Revoked(u)[i] \in S
               /\ Revoked(u)[i].user = session[i].user
               /\ Revoked(u)[i].password = session[i].password
               /\ Revoked(u)[i].live = (session[i].live /\ session[i].user # u)
    <2>1. session[i] \in S
      BY <1>2, <1>4
    <2>2. Revoked(u)[i] = [session[i] EXCEPT !.live = session[i].live /\ session[i].user # u]
      BY <1>4 DEF Revoked
    <2>3. QED
      BY <2>1, <2>2
  <1>5. Revoked(u) \in [1 .. Len(session) -> S]
    BY <1>1, <1>3, <1>4 DEF Revoked
  <1>6. Revoked(u) \in Seq(S)
    BY <1>1, <1>5
  <1>7. QED
    BY <1>3, <1>4, <1>6

-----------------------------------------------------------------------------
(* Type correctness.                                                       *)

\* A handler that reads and goes on, or ends, with the tables as they were.
LEMMA ReadsOnly ==
    ASSUME TypeOK, RequestTypes', UNCHANGED <<identity, company, provider, tokens, session>>
    PROVE  TypeOK'
  BY DEF TypeOK, IdentityTypes, CompanyTypes, ProviderTypes, TokenTypes, SessionTypes,
         identity, company, provider, tokens

LEMMA AccountTypes ==
    ASSUME TypeOK, AccountsKept, Account
    PROVE  TypeOK'
  <1> USE DEF TypeOK
  <1>1. ASSUME NEW p \in Request, NEW u \in User, SignUp(p, u)
        PROVE  TypeOK'
    <2> DEFINE r == [op |-> "open", user |-> u, password |-> 1]
    <2>1. r \in Operation
      BY DEF Operation, Opening, Password
    <2>2. RequestTypes'
      BY <1>1, <2>1, Goes DEF SignUp
    <2>3. IdentityTypes'
      BY <1>1 DEF SignUp, IdentityTypes, Password, Row, Role
    <2>4. QED
      BY <1>1, <2>2, <2>3 DEF SignUp, CompanyTypes, ProviderTypes, TokenTypes, SessionTypes,
         company, provider, tokens
  <1>2. ASSUME NEW p \in Request, NEW u \in User, Login(p, u)
        PROVE  TypeOK'
    <2> DEFINE r == [op |-> "open", user |-> u, password |-> password[u]]
    <2>1. r \in Operation
      BY DEF Operation, Opening, IdentityTypes
    <2>2. QED
      BY <1>2, <2>1, Goes, ReadsOnly DEF Login
  <1>3. ASSUME NEW p \in Request, OpenSession(p)
        PROVE  TypeOK'
    <2>1. request[p] \in Opening
      BY <1>3, Reads DEF OpenSession
    <2>2. session' \in Seq([user : User, password : Password, live : BOOLEAN])
      BY <1>3, <2>1 DEF OpenSession, Opening, SessionTypes
    <2>3. RequestTypes'
      BY <1>3, Ends DEF OpenSession
    <2>4. ProviderTypes'
      BY <1>3 DEF OpenSession, ProviderTypes
    <2>5. QED
      BY <1>3, <2>2, <2>3, <2>4 DEF OpenSession, IdentityTypes, CompanyTypes, TokenTypes,
         SessionTypes, identity, company, tokens
  <1>4. ASSUME NEW p \in Request, ConfirmReset(p)
        PROVE  TypeOK'
    <2>1. request[p] \in Confirming
      BY <1>4, Reads DEF ConfirmReset
    <2> DEFINE k == request[p].token
               r == [op |-> "revoke", user |-> k.user, of |-> "reset"]
    <2>2. k \in Token /\ k.user \in User
      BY <2>1 DEF Confirming, Token
    <2>3. r \in Operation
      BY <2>2 DEF Operation, Revoking
    <2>4. RequestTypes'
      <3>1. Continue(p, r) \/ End(p)
        BY <1>4 DEF ConfirmReset
      <3>2. QED
        BY <2>3, <3>1, Goes, Ends
    <2>5. IdentityTypes' /\ TokenTypes'
      <3>1. CASE StillThere(k)
        <4>1. password[k.user] \in Nat
          BY <2>2, <3>1 DEF IdentityTypes, Password, AccountsKept, StillThere
        <4>2. /\ password' = [password EXCEPT ![k.user] = password[k.user] + 1]
              /\ again' = (again \/ <<"reset", k.user, k.row>> \in used)
              /\ reset' \subseteq reset
              /\ UNCHANGED <<member, invitation, issued>>
          BY <1>4, <3>1 DEF ConfirmReset, Spend
        <4>3. QED
          BY <2>2, <4>1, <4>2 DEF IdentityTypes, TokenTypes, Password
      <3>2. CASE ~StillThere(k)
        BY <1>4, <3>2 DEF ConfirmReset, IdentityTypes, TokenTypes
      <3>3. QED
        BY <3>1, <3>2
    <2>6. QED
      BY <1>4, <2>4, <2>5 DEF ConfirmReset, CompanyTypes, ProviderTypes, SessionTypes,
         company, provider
  <1>5. ASSUME NEW p \in Request, RevokeAllSessions(p)
        PROVE  TypeOK'
    <2>1. RequestTypes'
      BY <1>5, Ends DEF RevokeAllSessions
    <2>2. SessionTypes'
      BY <1>5, RevokedTypes DEF RevokeAllSessions, SessionTypes
    <2>3. QED
      BY <1>5, <2>1, <2>2 DEF RevokeAllSessions, IdentityTypes, CompanyTypes, ProviderTypes,
         TokenTypes, identity, company, provider, tokens
  <1>6. ASSUME NEW p \in Request, Abandon(p)
        PROVE  TypeOK'
    BY <1>6, Ends, ReadsOnly DEF Abandon
  <1>7. ASSUME NEW i \in DOMAIN session, Logout(i)
        PROVE  TypeOK'
    <2> DEFINE S == [user : User, password : Password, live : BOOLEAN]
    <2>1. session \in Seq(S) /\ Len(session) \in Nat /\ DOMAIN session = 1 .. Len(session)
      BY DEF SessionTypes
    <2>2. [session[i] EXCEPT !.live = FALSE] \in S
      <3>1. session[i] \in S
        <4> HIDE DEF S
        <4>1. QED
          BY <1>7, <2>1
      <3>2. QED
        BY <3>1
    <2>3. session' = [session EXCEPT ![i] = [session[i] EXCEPT !.live = FALSE]]
      BY <1>7 DEF Logout
    <2>4. session' \in Seq(S)
      <3> HIDE DEF S
      <3>1. QED
        BY <1>7, <2>1, <2>2, <2>3
    <2>5. QED
      BY <1>7, <2>4, Starts DEF Logout, IdentityTypes, CompanyTypes, ProviderTypes, TokenTypes,
         SessionTypes, identity, company, provider, tokens
  <1>8. ASSUME NEW u \in User, RequestReset(u)
        PROVE  TypeOK'
    <2>1. TokenTypes'
      BY <1>8 DEF RequestReset, TokenTypes, Token
    <2>2. QED
      BY <1>8, <2>1, Starts DEF RequestReset, IdentityTypes, CompanyTypes, ProviderTypes,
         SessionTypes, identity, company, provider
  <1>9. ASSUME NEW p \in Request, NEW k \in reset, BeginConfirm(p, k)
        PROVE  TypeOK'
    <2> DEFINE r == [op |-> "confirm", token |-> k]
    <2>1. r \in Operation
      BY DEF Operation, Confirming, TokenTypes
    <2>2. QED
      BY <1>9, <2>1, Goes, ReadsOnly DEF BeginConfirm
  <1>10. QED
    BY <1>1, <1>2, <1>3, <1>4, <1>5, <1>6, <1>7, <1>8, <1>9 DEF Account

LEMMA MembershipTypes ==
    ASSUME TypeOK, Membership
    PROVE  TypeOK'
  <1> USE DEF TypeOK
  <1>1. ASSUME NEW a \in User, NEW u \in User, Invite(a, u)
        PROVE  TypeOK'
    <2>1. TokenTypes'
      <3>1. invitation[u] \in [row : Nat, status : Status]
        BY DEF TokenTypes
      <3>2. [row |-> invitation[u].row + 1, status |-> "PENDING"] \in [row : Nat, status : Status]
        BY <3>1 DEF Status
      <3>3. [invitation[u] EXCEPT !.status = "PENDING"] \in [row : Nat, status : Status]
        BY <3>1 DEF Status
      <3>4. QED
        BY <1>1, <3>2, <3>3 DEF Invite, TokenTypes
    <2>2. QED
      BY <1>1, <2>1, Starts DEF Invite, IdentityTypes, CompanyTypes, ProviderTypes, SessionTypes,
         identity, company, provider
  <1>2. ASSUME NEW p \in Request, NEW a \in User, NEW u \in User, NEW action \in {"drop", "resend"},
               BeginManage(p, a, u, action)
        PROVE  TypeOK'
    <2> DEFINE r == [op |-> action, user |-> u, row |-> invitation[u].row]
    <2>1. r \in Operation
      BY DEF Operation, Managing, TokenTypes
    <2>2. QED
      BY <1>2, <2>1, Goes, ReadsOnly DEF BeginManage
  <1>3. ASSUME NEW p \in Request, Manage(p)
        PROVE  TypeOK'
    <2>1. request[p] \in Managing
      BY <1>3, Reads DEF Manage
    <2>2. PICK u \in User : u = request[p].user
      BY <2>1 DEF Managing
    <2>3. PICK status \in Status : invitation' = [invitation EXCEPT ![u].status = status]
      <3>1. invitation[u].status \in Status
        BY DEF TokenTypes
      <3>2. QED
        BY <1>3, <2>2, <3>1 DEF Manage, Status
    <2>4. TokenTypes'
      <3>1. [invitation[u] EXCEPT !.status = status] \in [row : Nat, status : Status]
        BY <2>3 DEF TokenTypes
      <3>2. invitation' \in [User -> [row : Nat, status : Status]]
        BY <2>3, <3>1 DEF TokenTypes
      <3>3. UNCHANGED <<reset, issued, again>>
        BY <1>3 DEF Manage
      <3>4. QED
        BY <3>2, <3>3 DEF TokenTypes
    <2>5. QED
      BY <1>3, <2>4, Ends DEF Manage, IdentityTypes, CompanyTypes, ProviderTypes, SessionTypes,
         identity, company, provider
  <1>4. ASSUME NEW p \in Request, Accept(p)
        PROVE  TypeOK'
    <2>1. request[p] \in Accepting
      BY <1>4, Reads DEF Accept
    <2> DEFINE r == request[p]
               next == [op |-> "open", user |-> r.user, password |-> IF r.password = None THEN 1 ELSE r.password]
               Claims == Claimable(r) /\ (r.password = None => password[r.user] = None)
    <2>2. r.user \in User /\ r.password \in Password
      BY <2>1 DEF Accepting
    <2>3. CASE Claims
      <3>1. /\ password' = [password EXCEPT ![r.user] = IF r.password = None THEN 1 ELSE password[r.user]]
            /\ member' = [member EXCEPT ![r.user] = [role |-> "MEMBER", active |-> TRUE]]
            /\ invitation' = [invitation EXCEPT ![r.user].status = "ACCEPTED"]
            /\ again' = (again \/ <<"invitation", r.user, r.row>> \in used)
            /\ Continue(p, next)
        BY <1>4, <2>3 DEF Accept, Spend
      <3>2. IdentityTypes'
        BY <2>2, <3>1 DEF IdentityTypes, Password, Row, Role
      <3>3. next \in Operation
        BY <2>2 DEF Operation, Opening, Password
      <3>4. RequestTypes'
        <4> HIDE DEF next
        <4>1. QED
          BY <3>1, <3>3, Goes
      <3>5. TokenTypes'
        BY <1>4, <3>1 DEF Accept, TokenTypes, Status
      <3>6. QED
        BY <1>4, <3>2, <3>4, <3>5 DEF Accept, CompanyTypes, ProviderTypes, SessionTypes,
           company, provider
    <2>4. CASE ~Claims
      BY <1>4, <2>4, Ends DEF Accept, IdentityTypes, CompanyTypes, ProviderTypes, TokenTypes,
         SessionTypes, identity, company, provider
    <2>5. QED
      BY <2>3, <2>4
  <1>5. ASSUME NEW p \in Request, Change(p)
        PROVE  TypeOK'
    <2>1. request[p] \in Changing
      BY <1>5, Reads DEF Change
    <2> DEFINE u == request[p].user
               change == request[p].change
               r == [op |-> "revoke", user |-> u, of |-> "member"]
    <2>2. u \in User /\ change \in Changes
      BY <2>1 DEF Changing
    <2>3. member[u] # None => Changed(member[u], change) \in {None} \cup Row
      <3> SUFFICES ASSUME member[u] # None PROVE Changed(member[u], change) \in {None} \cup Row
        OBVIOUS
      <3>1. member[u] \in Row
        BY <2>2 DEF IdentityTypes
      <3>2. QED
        BY <2>2, <3>1 DEF Changed, Row, Changes
    <2>4. IdentityTypes'
      BY <1>5, <2>2, <2>3 DEF Change, IdentityTypes
    <2>5. RequestTypes'
      <3>1. r \in Operation
        BY <2>2 DEF Operation, Revoking
      <3>2. Continue(p, r) \/ End(p)
        BY <1>5 DEF Change
      <3>3. QED
        BY <3>1, <3>2, Goes, Ends
    <2>6. SessionTypes'
      <3>1. session' = Revoked(u) \/ session' = session
        BY <1>5 DEF Change
      <3>2. QED
        BY <3>1, RevokedTypes DEF SessionTypes
    <2>7. QED
      BY <1>5, <2>4, <2>5, <2>6 DEF Change, CompanyTypes, ProviderTypes, TokenTypes,
         company, provider, tokens
  <1>6. ASSUME NEW u \in User, Expire(u)
        PROVE  TypeOK'
    <2>1. TokenTypes'
      BY <1>6 DEF Expire, TokenTypes, Status
    <2>2. QED
      BY <1>6, <2>1, Starts DEF Expire, IdentityTypes, CompanyTypes, ProviderTypes, SessionTypes,
         identity, company, provider
  <1>7. ASSUME NEW p \in Request, NEW u \in User, BeginAccept(p, u)
        PROVE  TypeOK'
    <2> DEFINE r == [op |-> "accept", user |-> u, row |-> invitation[u].row, password |-> password[u]]
    <2>1. r \in Operation
      BY DEF Operation, Accepting, TokenTypes, IdentityTypes
    <2>2. QED
      BY <1>7, <2>1, Goes, ReadsOnly DEF BeginAccept
  <1>8. ASSUME NEW p \in Request, NEW a \in User, NEW u \in User, NEW change \in Changes,
               BeginChange(p, a, u, change)
        PROVE  TypeOK'
    <2> DEFINE r == [op |-> "change", user |-> u, change |-> change, others |-> Owners \ {u}]
    <2>1. r \in Operation
      BY DEF Operation, Changing, Owners
    <2>2. QED
      BY <1>8, <2>1, Goes, ReadsOnly DEF BeginChange
  <1>9. QED
    BY <1>1, <1>2, <1>3, <1>4, <1>5, <1>6, <1>7, <1>8 DEF Membership, Changes

LEMMA OrganizationTypes ==
    ASSUME TypeOK, Organization
    PROVE  TypeOK'
  <1> USE DEF TypeOK
  <1>1. ASSUME NEW a \in User, Adopt(a)
        PROVE  TypeOK'
    BY <1>1, Starts DEF Adopt, IdentityTypes, CompanyTypes, ProviderTypes, TokenTypes,
       SessionTypes, identity, provider, tokens
  <1>2. ASSUME NEW a \in User, ClaimDomain(a)
        PROVE  TypeOK'
    BY <1>2, Starts DEF ClaimDomain, IdentityTypes, CompanyTypes, ProviderTypes, TokenTypes,
       SessionTypes, identity, provider, tokens
  <1>3. ASSUME NEW p \in Request, NEW a \in User, NEW new \in Policies, BeginPolicy(p, a, new)
        PROVE  TypeOK'
    <2> DEFINE r == [op |-> "policy", policy |-> new]
    <2>1. new \in Policy
      BY DEF Policies, Policy, CompanyTypes
    <2>2. r \in Operation
      BY <2>1 DEF Operation, Deciding
    <2>3. QED
      BY <1>3, <2>2, Goes, ReadsOnly DEF BeginPolicy
  <1>4. ASSUME NEW p \in Request, SetPolicy(p)
        PROVE  TypeOK'
    <2>1. request[p] \in Deciding
      BY <1>4, Reads DEF SetPolicy
    <2>2. request[p].policy \in Policy
      BY <2>1 DEF Deciding
    <2>3. CompanyTypes'
      BY <1>4, <2>2 DEF SetPolicy, CompanyTypes
    <2>4. QED
      BY <1>4, <2>3, Ends DEF SetPolicy, IdentityTypes, ProviderTypes, TokenTypes,
         SessionTypes, identity, provider, tokens
  <1>5. ASSUME NEW p \in Request, VerifyDomain(p)
        PROVE  TypeOK'
    <2>1. [op |-> "allow"] \in Operation
      BY DEF Operation, Verifying
    <2>2. RequestTypes'
      BY <1>5, <2>1, Goes, Ends DEF VerifyDomain
    <2>3. CompanyTypes' /\ TokenTypes'
      BY <1>5 DEF VerifyDomain, Spend, CompanyTypes, TokenTypes
    <2>4. QED
      BY <1>5, <2>2, <2>3 DEF VerifyDomain, IdentityTypes, ProviderTypes, SessionTypes,
         identity, provider
  <1>6. ASSUME NEW p \in Request, AllowDomain(p)
        PROVE  TypeOK'
    BY <1>6, Ends DEF AllowDomain, IdentityTypes, CompanyTypes, ProviderTypes, TokenTypes,
       SessionTypes, identity, provider, tokens
  <1>7. ASSUME NEW p \in Request, NEW a \in User, BeginVerify(p, a)
        PROVE  TypeOK'
    <2>1. [op |-> "verify"] \in Operation
      BY DEF Operation, Verifying
    <2>2. QED
      BY <1>7, <2>1, Goes, ReadsOnly DEF BeginVerify
  <1>8. QED
    BY <1>1, <1>2, <1>3, <1>4, <1>5, <1>6, <1>7 DEF Organization

\* The transaction of the directory, without the request it is part of.
LEMMA SetActiveTypes ==
    ASSUME TypeOK, NEW u \in User, NEW active \in BOOLEAN, SetActive(u, active)
    PROVE  IdentityTypes' /\ CompanyTypes' /\ ProviderTypes' /\ TokenTypes' /\ SessionTypes'
  <1> USE DEF TypeOK
  <1>1. IdentityTypes'
    <2>1. member[u] # None => [member[u] EXCEPT !.active = active] \in Row
      BY DEF IdentityTypes, Row
    <2>2. QED
      BY <2>1 DEF SetActive, IdentityTypes
  <1>2. CompanyTypes' /\ ProviderTypes' /\ TokenTypes'
    BY DEF SetActive, Standing, CompanyTypes, ProviderTypes, TokenTypes, tokens
  <1>3. SessionTypes'
    <2>1. session' = Revoked(u) \/ session' = session
      BY DEF SetActive
    <2>2. QED
      BY <2>1, RevokedTypes DEF SessionTypes
  <1>4. QED
    BY <1>1, <1>2, <1>3

LEMMA DirectoryTypes ==
    ASSUME TypeOK, Directory
    PROVE  TypeOK'
  <1> USE DEF TypeOK
  <1>1. ASSUME NEW u \in User, NEW active \in BOOLEAN, Provision(u, active)
        PROVE  TypeOK'
    <2>1. IdentityTypes'
      <3>1. member[u] # None => [member[u] EXCEPT !.active = active] \in Row
        BY DEF IdentityTypes, Row
      <3>2. [role |-> "MEMBER", active |-> active] \in Row
        BY DEF Row, Role
      <3>3. password[u] \in Password /\ 0 \in Password
        BY DEF IdentityTypes, Password
      <3>4. QED
        BY <1>1, <3>1, <3>2, <3>3 DEF Provision, IdentityTypes
    <2>2. CompanyTypes' /\ ProviderTypes'
      BY <1>1 DEF Provision, Standing, CompanyTypes, ProviderTypes
    <2>3. QED
      BY <1>1, <2>1, <2>2, Starts DEF Provision, TokenTypes, SessionTypes, tokens
  <1>2. ASSUME NEW u \in User, Deprovision(u)
        PROVE  TypeOK'
    BY <1>2, SetActiveTypes, Starts DEF Deprovision
  <1>3. ASSUME NEW p \in Request, NEW u \in User, NEW active \in BOOLEAN, BeginUpdate(p, u, active)
        PROVE  TypeOK'
    <2> DEFINE r == [op |-> "update", user |-> u, active |-> active,
                     differs |-> active # (scim[u] = "active")]
    <2>1. r \in Operation
      BY DEF Operation, Updating
    <2>2. QED
      BY <1>3, <2>1, Goes, ReadsOnly DEF BeginUpdate
  <1>4. ASSUME NEW p \in Request, UpdateUser(p)
        PROVE  TypeOK'
    <2>1. request[p] \in Updating
      BY <1>4, Reads DEF UpdateUser
    <2>2. request[p].user \in User /\ request[p].active \in BOOLEAN
      BY <2>1 DEF Updating
    <2>3. RequestTypes'
      BY <1>4, Ends DEF UpdateUser
    <2>4. CASE request[p].differs
      BY <1>4, <2>2, <2>3, <2>4, SetActiveTypes DEF UpdateUser
    <2>5. CASE ~request[p].differs
      BY <1>4, <2>3, <2>5, ReadsOnly DEF UpdateUser
    <2>6. QED
      BY <2>4, <2>5
  <1>5. ASSUME NEW p \in Request, Identify(p)
        PROVE  TypeOK'
    <2>1. request[p] \in Identifying
      BY <1>5, Reads DEF Identify
    <2> DEFINE u == request[p].user
               r == [op |-> "open", user |-> u, password |-> None]
    <2>2. u \in User
      BY <2>1 DEF Identifying
    <2>3. RequestTypes'
      <3>1. r \in Operation
        BY <2>2 DEF Operation, Opening, Password
      <3>2. Continue(p, r) \/ End(p)
        BY <1>5 DEF Identify
      <3>3. QED
        BY <3>1, <3>2, Goes, Ends
    <2>4. saml' \subseteq User
      BY <1>5, <2>2 DEF Identify, ProviderTypes
    <2>5. IdentityTypes' /\ org' \in [User -> {"none", "active", "off"}]
      <3>1. CASE UNCHANGED <<identity, org>>
        BY <3>1 DEF IdentityTypes, CompanyTypes, identity
      <3>2. CASE /\ password' = [password EXCEPT ![u] = 0]
                 /\ org' = [org EXCEPT ![u] = "active"]
                 /\ member' = [member EXCEPT ![u] = [role |-> "MEMBER", active |-> TRUE]]
        <4>1. [role |-> "MEMBER", active |-> TRUE] \in Row /\ 0 \in Password
          BY DEF Row, Role, Password
        <4>2. QED
          BY <2>2, <3>2, <4>1 DEF IdentityTypes, CompanyTypes
      <3>3. QED
        BY <1>5, <3>1, <3>2 DEF Identify
    <2>6. QED
      BY <1>5, <2>3, <2>4, <2>5 DEF Identify, CompanyTypes, ProviderTypes, TokenTypes,
         SessionTypes, tokens
  <1>6. ASSUME NEW a \in User, NEW enable \in BOOLEAN, ConfigureSso(a, enable)
        PROVE  TypeOK'
    BY <1>6, Starts DEF ConfigureSso, IdentityTypes, CompanyTypes, ProviderTypes, TokenTypes,
       SessionTypes, identity, company, tokens
  <1>7. ASSUME NEW p \in Request, NEW x \in Assertion, Callback(p, x)
        PROVE  TypeOK'
    <2> DEFINE r == [op |-> "identify", user |-> Subject[x]]
    <2>1. r \in Operation
      BY AccountAssumption DEF Operation, Identifying
    <2>2. RequestTypes'
      BY <1>7, <2>1, Goes, Starts DEF Callback
    <2>3. ProviderTypes' /\ TokenTypes'
      BY <1>7 DEF Callback, Spend, ProviderTypes, TokenTypes
    <2>4. QED
      BY <1>7, <2>2, <2>3 DEF Callback, IdentityTypes, CompanyTypes, SessionTypes,
         identity, company
  <1>8. QED
    BY <1>1, <1>2, <1>3, <1>4, <1>5, <1>6, <1>7 DEF Directory

LEMMA InitTypes == Init => TypeOK
  <1> SUFFICES ASSUME Init PROVE TypeOK
    OBVIOUS
  <1>1. member \in [User -> {None} \cup Row]
    <2>1. [role |-> "OWNER", active |-> TRUE] \in Row
          /\ [role : {"OWNER", "MEMBER"}, active : {TRUE}] \subseteq Row
      BY DEF Row, Role
    <2>2. CASE member = [u \in User |-> None]
      BY <2>2
    <2>3. ASSUME NEW first \in User,
                 NEW others \in {None} \cup [role : {"OWNER", "MEMBER"}, active : {TRUE}],
                 member = [u \in User |-> IF u = first THEN [role |-> "OWNER", active |-> TRUE] ELSE others]
          PROVE  member \in [User -> {None} \cup Row]
      BY <2>1, <2>3
    <2>4. QED
      BY <2>2, <2>3 DEF Init
  <1>2. password \in [User -> Password] /\ Owners \subseteq User
    BY DEF Init, Password, Owners
  <1>3. CompanyTypes
    BY <1>2 DEF Init, CompanyTypes, Policy, Adopted
  <1>4. ProviderTypes /\ RequestTypes /\ SessionTypes
    BY DEF Init, ProviderTypes, RequestTypes, Operation, SessionTypes
  <1>5. TokenTypes
    <2>1. [row |-> 0, status |-> "none"] \in [row : Nat, status : Status]
      BY DEF Status
    <2>2. QED
      BY <2>1 DEF Init, TokenTypes
  <1>6. QED
    BY <1>1, <1>2, <1>3, <1>4, <1>5 DEF TypeOK, IdentityTypes

LEMMA StepTypes ==
    ASSUME TypeOK, AccountsKept, [Next]_vars
    PROVE  TypeOK'
  <1>1. CASE UNCHANGED vars
    BY <1>1, ReadsOnly DEF vars, TypeOK, RequestTypes
  <1>2. QED
    BY <1>1, AccountTypes, MembershipTypes, OrganizationTypes, DirectoryTypes DEF Next

-----------------------------------------------------------------------------
(* How requests move.                                                      *)

\* A request supposes something only from its first statement on, and sessions that
\* are to be revoked wait until they are, or until the request ends.
Supposing == {"accept", "change", "update", "drop", "resend"}

Moves(q) ==
  /\ \/ request'[q] = request[q]
     \/ request'[q].op \notin Supposing
     \/ \E u \in User : BeginAccept(q, u)
     \/ \E a, u \in User, change \in Changes : BeginChange(q, a, u, change)
     \/ \E u \in User, active \in BOOLEAN : BeginUpdate(q, u, active)
     \/ \E a, u \in User, action \in {"drop", "resend"} : BeginManage(q, a, u, action)
  /\ request[q].op = "revoke" =>
       request'[q] = request[q] \/ RevokeAllSessions(q) \/ Abandon(q)

LEMMA StandsStill ==
    ASSUME UNCHANGED request, NEW q \in Request
    PROVE  Moves(q)
  BY DEF Moves

LEMMA MovesOn ==
    ASSUME RequestTypes, NEW p \in Request, NEW r, Begin(p, r) \/ Continue(p, r),
           r.op \notin Supposing, request[p].op # "revoke", NEW q \in Request
    PROVE  Moves(q)
  <1>1. request' = [request EXCEPT ![p] = r]
    BY DEF Begin, Continue
  <1>2. q = p => request'[q] = r
    BY <1>1 DEF RequestTypes
  <1>3. q # p => request'[q] = request[q]
    BY <1>1 DEF RequestTypes
  <1>4. QED
    BY <1>2, <1>3 DEF Moves

LEMMA MovesOut ==
    ASSUME RequestTypes, NEW p \in Request, End(p),
           request[p].op # "revoke" \/ RevokeAllSessions(p) \/ Abandon(p), NEW q \in Request
    PROVE  Moves(q)
  <1>1. request' = [request EXCEPT ![p] = Idle]
    BY DEF End, Continue
  <1>2. q = p => request'[q] = Idle
    BY <1>1 DEF RequestTypes
  <1>3. q # p => request'[q] = request[q]
    BY <1>1 DEF RequestTypes
  <1>4. Idle.op \notin Supposing
    BY DEF Idle, Supposing
  <1>5. QED
    BY <1>2, <1>3, <1>4 DEF Moves

\* Only an idle handler begins.
LEMMA BeginsIdle ==
    ASSUME NEW p, NEW r, Begin(p, r)
    PROVE  request[p].op # "revoke"
  BY DEF Begin, Idle

LEMMA AccountMoves ==
    ASSUME TypeOK, Account, NEW q \in Request
    PROVE  Moves(q)
  <1> USE DEF TypeOK
  <1>1. ASSUME NEW p \in Request, NEW u \in User, SignUp(p, u)
        PROVE  Moves(q)
    <2> DEFINE r == [op |-> "open", user |-> u, password |-> 1]
    <2>1. r.op = "open" /\ Begin(p, r)
      BY <1>1 DEF SignUp
    <2> HIDE DEF r
    <2>2. QED
      BY <2>1, MovesOn, BeginsIdle DEF Supposing
  <1>2. ASSUME NEW p \in Request, NEW u \in User, Login(p, u)
        PROVE  Moves(q)
    <2> DEFINE r == [op |-> "open", user |-> u, password |-> password[u]]
    <2>1. r.op = "open" /\ Begin(p, r)
      BY <1>2 DEF Login
    <2> HIDE DEF r
    <2>2. QED
      BY <2>1, MovesOn, BeginsIdle DEF Supposing
  <1>3. ASSUME NEW p \in Request, OpenSession(p)
        PROVE  Moves(q)
    BY <1>3, MovesOut DEF OpenSession
  <1>4. ASSUME NEW p \in Request, ConfirmReset(p)
        PROVE  Moves(q)
    <2> DEFINE r == [op |-> "revoke", user |-> request[p].token.user, of |-> "reset"]
    <2>1. r.op = "revoke" /\ (Continue(p, r) \/ End(p)) /\ request[p].op # "revoke"
      BY <1>4 DEF ConfirmReset
    <2> HIDE DEF r
    <2>2. QED
      BY <2>1, MovesOn, MovesOut DEF Supposing
  <1>5. ASSUME NEW p \in Request, RevokeAllSessions(p) \/ Abandon(p)
        PROVE  Moves(q)
    <2>1. End(p)
      BY <1>5 DEF RevokeAllSessions, Abandon
    <2>2. QED
      BY <1>5, <2>1, MovesOut
  <1>6. ASSUME NEW i \in DOMAIN session, Logout(i)
        PROVE  Moves(q)
    BY <1>6, StandsStill DEF Logout
  <1>7. ASSUME NEW u \in User, RequestReset(u)
        PROVE  Moves(q)
    BY <1>7, StandsStill DEF RequestReset
  <1>8. ASSUME NEW p \in Request, NEW k \in reset, BeginConfirm(p, k)
        PROVE  Moves(q)
    <2> DEFINE r == [op |-> "confirm", token |-> k]
    <2>1. r.op = "confirm" /\ Begin(p, r)
      BY <1>8 DEF BeginConfirm
    <2> HIDE DEF r
    <2>2. QED
      BY <2>1, MovesOn, BeginsIdle DEF Supposing
  <1>9. QED
    BY <1>1, <1>2, <1>3, <1>4, <1>5, <1>6, <1>7, <1>8 DEF Account

LEMMA MembershipMoves ==
    ASSUME TypeOK, Membership, NEW q \in Request
    PROVE  Moves(q)
  <1> USE DEF TypeOK
  <1>1. ASSUME NEW a \in User, NEW u \in User, Invite(a, u) \/ Expire(u)
        PROVE  Moves(q)
    BY <1>1, StandsStill DEF Invite, Expire
  <1>2. ASSUME NEW p \in Request, NEW a \in User, NEW u \in User, NEW action \in {"drop", "resend"},
               BeginManage(p, a, u, action)
        PROVE  Moves(q)
    <2>1. q # p => request'[q] = request[q]
      BY <1>2 DEF BeginManage, Begin, RequestTypes
    <2>2. request[p].op # "revoke"
      BY <1>2, BeginsIdle DEF BeginManage
    <2>3. QED
      BY <1>2, <2>1, <2>2 DEF Moves
  <1>3. ASSUME NEW p \in Request, Manage(p)
        PROVE  Moves(q)
    BY <1>3, MovesOut DEF Manage
  <1>4. ASSUME NEW p \in Request, Accept(p)
        PROVE  Moves(q)
    <2> DEFINE r == [op |-> "open", user |-> request[p].user,
                     password |-> IF request[p].password = None THEN 1 ELSE request[p].password]
    <2>1. r.op = "open" /\ (Continue(p, r) \/ End(p)) /\ request[p].op # "revoke"
      BY <1>4 DEF Accept
    <2> HIDE DEF r
    <2>2. QED
      BY <2>1, MovesOn, MovesOut DEF Supposing
  <1>5. ASSUME NEW p \in Request, Change(p)
        PROVE  Moves(q)
    <2> DEFINE r == [op |-> "revoke", user |-> request[p].user, of |-> "member"]
    <2>1. r.op = "revoke" /\ (Continue(p, r) \/ End(p)) /\ request[p].op # "revoke"
      BY <1>5 DEF Change
    <2> HIDE DEF r
    <2>2. QED
      BY <2>1, MovesOn, MovesOut DEF Supposing
  <1>6. ASSUME NEW p \in Request, NEW u \in User, BeginAccept(p, u)
        PROVE  Moves(q)
    <2>1. q # p => request'[q] = request[q]
      BY <1>6 DEF BeginAccept, Begin, RequestTypes
    <2>2. request[p].op # "revoke"
      BY <1>6, BeginsIdle DEF BeginAccept
    <2>3. QED
      BY <1>6, <2>1, <2>2 DEF Moves
  <1>7. ASSUME NEW p \in Request, NEW a \in User, NEW u \in User, NEW change \in Changes,
               BeginChange(p, a, u, change)
        PROVE  Moves(q)
    <2>1. q # p => request'[q] = request[q]
      BY <1>7 DEF BeginChange, Begin, RequestTypes
    <2>2. request[p].op # "revoke"
      BY <1>7, BeginsIdle DEF BeginChange
    <2>3. QED
      BY <1>7, <2>1, <2>2 DEF Moves
  <1>8. QED
    BY <1>1, <1>2, <1>3, <1>4, <1>5, <1>6, <1>7 DEF Membership, Changes

LEMMA OrganizationMoves ==
    ASSUME TypeOK, Organization, NEW q \in Request
    PROVE  Moves(q)
  <1> USE DEF TypeOK
  <1>1. ASSUME NEW a \in User, Adopt(a) \/ ClaimDomain(a)
        PROVE  Moves(q)
    BY <1>1, StandsStill DEF Adopt, ClaimDomain
  <1>2. ASSUME NEW p \in Request, NEW a \in User, NEW new \in Policies, BeginPolicy(p, a, new)
        PROVE  Moves(q)
    <2> DEFINE r == [op |-> "policy", policy |-> new]
    <2>1. r.op = "policy" /\ Begin(p, r)
      BY <1>2 DEF BeginPolicy
    <2> HIDE DEF r
    <2>2. QED
      BY <2>1, MovesOn, BeginsIdle DEF Supposing
  <1>3. ASSUME NEW p \in Request, SetPolicy(p) \/ AllowDomain(p)
        PROVE  Moves(q)
    BY <1>3, MovesOut DEF SetPolicy, AllowDomain
  <1>4. ASSUME NEW p \in Request, VerifyDomain(p)
        PROVE  Moves(q)
    <2> DEFINE r == [op |-> "allow"]
    <2>1. r.op = "allow" /\ (Continue(p, r) \/ End(p)) /\ request[p].op # "revoke"
      BY <1>4 DEF VerifyDomain
    <2> HIDE DEF r
    <2>2. QED
      BY <2>1, MovesOn, MovesOut DEF Supposing
  <1>5. ASSUME NEW p \in Request, NEW a \in User, BeginVerify(p, a)
        PROVE  Moves(q)
    <2> DEFINE r == [op |-> "verify"]
    <2>1. r.op = "verify" /\ Begin(p, r)
      BY <1>5 DEF BeginVerify
    <2> HIDE DEF r
    <2>2. QED
      BY <2>1, MovesOn, BeginsIdle DEF Supposing
  <1>6. QED
    BY <1>1, <1>2, <1>3, <1>4, <1>5 DEF Organization

LEMMA DirectoryMoves ==
    ASSUME TypeOK, Directory, NEW q \in Request
    PROVE  Moves(q)
  <1> USE DEF TypeOK
  <1>1. ASSUME NEW u \in User, NEW active \in BOOLEAN, Provision(u, active)
        PROVE  Moves(q)
    BY <1>1, StandsStill DEF Provision
  <1>2. ASSUME NEW u \in User, Deprovision(u)
        PROVE  Moves(q)
    BY <1>2, StandsStill DEF Deprovision
  <1>3. ASSUME NEW p \in Request, NEW u \in User, NEW active \in BOOLEAN, BeginUpdate(p, u, active)
        PROVE  Moves(q)
    <2>1. q # p => request'[q] = request[q]
      BY <1>3 DEF BeginUpdate, Begin, RequestTypes
    <2>2. request[p].op # "revoke"
      BY <1>3, BeginsIdle DEF BeginUpdate
    <2>3. QED
      BY <1>3, <2>1, <2>2 DEF Moves
  <1>4. ASSUME NEW p \in Request, UpdateUser(p)
        PROVE  Moves(q)
    BY <1>4, MovesOut DEF UpdateUser
  <1>5. ASSUME NEW p \in Request, Identify(p)
        PROVE  Moves(q)
    <2> DEFINE r == [op |-> "open", user |-> request[p].user, password |-> None]
    <2>1. r.op = "open" /\ (Continue(p, r) \/ End(p)) /\ request[p].op # "revoke"
      BY <1>5 DEF Identify
    <2> HIDE DEF r
    <2>2. QED
      BY <2>1, MovesOn, MovesOut DEF Supposing
  <1>6. ASSUME NEW a \in User, NEW enable \in BOOLEAN, ConfigureSso(a, enable)
        PROVE  Moves(q)
    BY <1>6, StandsStill DEF ConfigureSso
  <1>7. ASSUME NEW p \in Request, NEW x \in Assertion, Callback(p, x)
        PROVE  Moves(q)
    <2> DEFINE r == [op |-> "identify", user |-> Subject[x]]
    <2>1. r.op = "identify" /\ (Begin(p, r) \/ UNCHANGED request)
      BY <1>7 DEF Callback
    <2> HIDE DEF r
    <2>2. QED
      BY <2>1, MovesOn, BeginsIdle, StandsStill DEF Supposing
  <1>8. QED
    BY <1>1, <1>2, <1>3, <1>4, <1>5, <1>6, <1>7 DEF Directory

LEMMA AllMove ==
    ASSUME TypeOK, Next, NEW q \in Request
    PROVE  Moves(q)
  BY AccountMoves, MembershipMoves, OrganizationMoves, DirectoryMoves DEF Next

-----------------------------------------------------------------------------
(* The steps that write, by the tables they write.                         *)

tables == <<identity, company, provider, tokens, session, excused>>

People ==
  \/ \E p \in Request, u \in User : SignUp(p, u)
  \/ \E p \in Request : ConfirmReset(p) \/ Accept(p) \/ Change(p) \/ UpdateUser(p) \/ Identify(p)
  \/ \E u \in User, active \in BOOLEAN : Provision(u, active)
  \/ \E u \in User : Deprovision(u)

Sessions ==
  \/ \E p \in Request : OpenSession(p) \/ RevokeAllSessions(p) \/ Abandon(p)
  \/ \E i \in DOMAIN session : Logout(i)

Tokens ==
  \/ \E u \in User : RequestReset(u) \/ Expire(u)
  \/ \E a, u \in User : Invite(a, u)
  \/ \E p \in Request : Manage(p)
  \/ \E p \in Request, x \in Assertion : Callback(p, x)

Company ==
  \/ \E a \in User : Adopt(a) \/ ClaimDomain(a)
  \/ \E p \in Request : SetPolicy(p) \/ VerifyDomain(p) \/ AllowDomain(p)
  \/ \E a \in User, enable \in BOOLEAN : ConfigureSso(a, enable)

LEMMA Writers ==
    ASSUME Next
    PROVE  People \/ Sessions \/ Tokens \/ Company \/ UNCHANGED tables
  <1>1. ASSUME Account PROVE People \/ Sessions \/ Tokens \/ UNCHANGED tables
    <2>1. ASSUME NEW p \in Request, NEW u \in User, Login(p, u) PROVE UNCHANGED tables
      BY <2>1 DEF Login, tables
    <2>2. ASSUME NEW p \in Request, NEW k \in reset, BeginConfirm(p, k) PROVE UNCHANGED tables
      BY <2>2 DEF BeginConfirm, tables
    <2>3. QED
      BY <1>1, <2>1, <2>2 DEF Account, People, Sessions, Tokens
  <1>2. ASSUME Membership PROVE People \/ Tokens \/ UNCHANGED tables
    <2>1. ASSUME NEW p \in Request, NEW a \in User, NEW u \in User, NEW action, BeginManage(p, a, u, action)
          PROVE  UNCHANGED tables
      BY <2>1 DEF BeginManage, tables
    <2>2. ASSUME NEW p \in Request, NEW u \in User, BeginAccept(p, u) PROVE UNCHANGED tables
      BY <2>2 DEF BeginAccept, tables
    <2>3. ASSUME NEW p \in Request, NEW a \in User, NEW u \in User, NEW change, BeginChange(p, a, u, change)
          PROVE  UNCHANGED tables
      BY <2>3 DEF BeginChange, tables
    <2>4. QED
      BY <1>2, <2>1, <2>2, <2>3 DEF Membership, People, Tokens
  <1>3. ASSUME Organization PROVE Company \/ UNCHANGED tables
    <2>1. ASSUME NEW p \in Request, NEW a \in User, NEW new, BeginPolicy(p, a, new) PROVE UNCHANGED tables
      BY <2>1 DEF BeginPolicy, tables
    <2>2. ASSUME NEW p \in Request, NEW a \in User, BeginVerify(p, a) PROVE UNCHANGED tables
      BY <2>2 DEF BeginVerify, tables
    <2>3. QED
      BY <1>3, <2>1, <2>2 DEF Organization, Company
  <1>4. ASSUME Directory PROVE People \/ Tokens \/ Company \/ UNCHANGED tables
    <2>1. ASSUME NEW p \in Request, NEW u \in User, NEW active, BeginUpdate(p, u, active) PROVE UNCHANGED tables
      BY <2>1 DEF BeginUpdate, tables
    <2>2. QED
      BY <1>4, <2>1 DEF Directory, People, Tokens, Company
  <1>5. QED
    BY <1>1, <1>2, <1>3, <1>4 DEF Next

LEMMA SessionsOnly ==
    ASSUME Sessions
    PROVE  UNCHANGED <<identity, company, scim, saml, consumed, tokens>>
  BY DEF Sessions, OpenSession, RevokeAllSessions, Abandon, Logout, provider

LEMMA TokensOnly ==
    ASSUME Tokens
    PROVE  UNCHANGED <<identity, company, scim, saml, sso, session, excused>>
  BY DEF Tokens, RequestReset, Expire, Invite, Manage, Callback, provider

LEMMA CompanyOnly ==
    ASSUME Company
    PROVE  UNCHANGED <<identity, scim, saml, consumed, invitation, reset, issued, session, excused>>
  BY DEF Company, Adopt, ClaimDomain, SetPolicy, VerifyDomain, AllowDomain, ConfigureSso,
         provider, tokens

-----------------------------------------------------------------------------
(* Accounts.                                                               *)

\* An account is never taken away.
LEMMA PasswordsStay ==
    ASSUME TypeOK, AccountsKept, Next, NEW u \in User, password[u] # None
    PROVE  password'[u] # None
  <1> USE DEF TypeOK
  <1>1. 0 # None /\ 1 # None /\ \A n \in Nat : n # None
    BY AccountAssumption
  <1>2. ASSUME NEW p \in Request, NEW v \in User, SignUp(p, v) PROVE password'[u] # None
    BY <1>1, <1>2 DEF SignUp, IdentityTypes
  <1>3. ASSUME NEW p \in Request, ConfirmReset(p) PROVE password'[u] # None
    <2> DEFINE k == request[p].token
    <2>1. CASE k \in reset
      <3>1. password[k.user] \in Nat /\ k.user \in User
        BY <2>1 DEF AccountsKept, IdentityTypes, Password, TokenTypes, Token
      <3>2. password' = [password EXCEPT ![k.user] = password[k.user] + 1]
        BY <1>3, <2>1 DEF ConfirmReset, StillThere
      <3>3. password[k.user] + 1 # None
        BY <1>1, <3>1
      <3>4. QED
        BY <3>1, <3>2, <3>3 DEF IdentityTypes
    <2>2. CASE k \notin reset
      BY <1>3, <2>2 DEF ConfirmReset, StillThere
    <2>3. QED
      BY <2>1, <2>2
  <1>4. ASSUME NEW p \in Request, Accept(p) PROVE password'[u] # None
    BY <1>1, <1>4 DEF Accept, IdentityTypes, identity
  <1>5. ASSUME NEW p \in Request, Change(p) \/ UpdateUser(p) PROVE password'[u] # None
    BY <1>5 DEF Change, UpdateUser, SetActive, identity
  <1>6. ASSUME NEW p \in Request, Identify(p) PROVE password'[u] # None
    BY <1>1, <1>6 DEF Identify, IdentityTypes, identity
  <1>7. ASSUME NEW v \in User, NEW active \in BOOLEAN, Provision(v, active) PROVE password'[u] # None
    BY <1>1, <1>7 DEF Provision, IdentityTypes
  <1>8. ASSUME NEW v \in User, Deprovision(v) PROVE password'[u] # None
    BY <1>8 DEF Deprovision, SetActive
  <1>9. CASE People
    BY <1>9, <1>2, <1>3, <1>4, <1>5, <1>6, <1>7, <1>8 DEF People
  <1>10. CASE UNCHANGED identity
    BY <1>10 DEF identity
  <1>11. QED
    BY <1>9, <1>10, Writers, SessionsOnly, TokensOnly, CompanyOnly DEF tables

\* Nor does the directory forget a user.
LEMMA IdentitiesStay ==
    ASSUME TypeOK, Next, NEW u \in User, scim[u] # "none"
    PROVE  scim'[u] # "none"
  <1> USE DEF TypeOK
  <1>1. ASSUME NEW v, NEW active \in BOOLEAN, SetActive(v, active) PROVE scim'[u] # "none"
    BY <1>1 DEF SetActive, ProviderTypes
  <1>2. ASSUME NEW p \in Request, UpdateUser(p) PROVE scim'[u] # "none"
    <2>1. request[p] \in Updating
      BY <1>2, Reads DEF UpdateUser
    <2>2. request[p].active \in BOOLEAN
      BY <2>1 DEF Updating
    <2>3. QED
      BY <1>1, <1>2, <2>2 DEF UpdateUser, provider
  <1>3. ASSUME NEW v \in User, Deprovision(v) PROVE scim'[u] # "none"
    BY <1>1, <1>3 DEF Deprovision
  <1>4. ASSUME NEW v \in User, NEW active \in BOOLEAN, Provision(v, active) PROVE scim'[u] # "none"
    BY <1>4 DEF Provision, ProviderTypes
  <1>5. ASSUME NEW p \in Request, NEW v \in User, SignUp(p, v) PROVE scim'[u] # "none"
    BY <1>5 DEF SignUp, provider
  <1>6. ASSUME NEW p \in Request, ConfirmReset(p) \/ Accept(p) \/ Change(p) \/ Identify(p)
        PROVE  scim'[u] # "none"
    BY <1>6 DEF ConfirmReset, Accept, Change, Identify, provider
  <1>7. CASE People
    BY <1>7, <1>2, <1>3, <1>4, <1>5, <1>6 DEF People
  <1>8. QED
    BY <1>7, Writers, SessionsOnly, TokensOnly, CompanyOnly DEF tables, provider

LEMMA StepAccounts ==
    ASSUME TypeOK, AccountsKept, [Next]_vars
    PROVE  AccountsKept'
  <1> USE DEF TypeOK
  <1>0. CASE UNCHANGED vars
    BY <1>0 DEF vars, identity, provider, tokens, AccountsKept
  <1> SUFFICES ASSUME Next PROVE AccountsKept'
    BY <1>0
  <1>1. \A u \in User : password[u] # None => password'[u] # None
    BY PasswordsStay
  <1>2. 0 # None /\ 1 # None
    BY AccountAssumption
  <1> DEFINE Known(u) == member'[u] # None \/ scim'[u] # "none" => password'[u] # None
  <1>3. ASSUME NEW u \in User PROVE Known(u)
    <2>1. member[u] # None \/ scim[u] # "none" => password'[u] # None
      BY <1>1 DEF AccountsKept
    <2>2. ASSUME NEW p \in Request, NEW v \in User, SignUp(p, v) PROVE Known(u)
      BY <1>2, <2>1, <2>2 DEF SignUp, IdentityTypes, provider
    <2>3. ASSUME NEW p \in Request, ConfirmReset(p) PROVE Known(u)
      BY <2>1, <2>3 DEF ConfirmReset, provider
    <2>4. ASSUME NEW p \in Request, Accept(p) PROVE Known(u)
      <3>1. request[p] \in Accepting
        BY <2>4, Reads DEF Accept
      <3>2. request[p].password = None \/ password[request[p].user] # None
        BY <2>4 DEF Accept, AccountsKept
      <3>3. QED
        BY <1>2, <2>1, <2>4, <3>1, <3>2 DEF Accept, IdentityTypes, Accepting, provider, identity
    <2>5. ASSUME NEW p \in Request, Change(p) PROVE Known(u)
      <3>1. member'[u] # None => member[u] # None
        BY <2>5 DEF Change, IdentityTypes
      <3>2. QED
        BY <2>1, <2>5, <3>1 DEF Change, provider
    <2>6. ASSUME NEW p \in Request, UpdateUser(p) PROVE Known(u)
      <3>1. request[p] \in Updating /\ scim[request[p].user] # "none"
        BY <2>6, Reads DEF UpdateUser, AccountsKept
      <3>2. scim'[u] # "none" => scim[u] # "none"
        BY <2>6, <3>1 DEF UpdateUser, SetActive, ProviderTypes, Updating, provider
      <3>3. member'[u] # None => member[u] # None
        BY <2>6, <3>1 DEF UpdateUser, SetActive, IdentityTypes, Updating, identity
      <3>4. QED
        BY <2>1, <3>2, <3>3
    <2>7. ASSUME NEW p \in Request, Identify(p) PROVE Known(u)
      BY <1>2, <2>1, <2>7 DEF Identify, IdentityTypes, identity
    <2>8. ASSUME NEW v \in User, NEW active \in BOOLEAN, Provision(v, active) PROVE Known(u)
      BY <1>2, <2>1, <2>8 DEF Provision, IdentityTypes, ProviderTypes
    <2>9. ASSUME NEW v \in User, Deprovision(v) PROVE Known(u)
      BY <2>1, <2>9 DEF Deprovision, SetActive, IdentityTypes, ProviderTypes
    <2>10. CASE People
      BY <2>10, <2>2, <2>3, <2>4, <2>5, <2>6, <2>7, <2>8, <2>9 DEF People
    <2>11. CASE UNCHANGED <<member, scim>>
      BY <2>1, <2>11
    <2>12. QED
      BY <2>10, <2>11, Writers, SessionsOnly, TokensOnly, CompanyOnly DEF tables, identity, provider
  <1>4. ASSUME NEW k \in reset' PROVE password'[k.user] # None
    <2>1. reset' \subseteq reset \/ \E u \in User : RequestReset(u)
      <3>1. ASSUME NEW p \in Request, ConfirmReset(p) \/ Accept(p) \/ Change(p) \/ UpdateUser(p) \/ Identify(p)
            PROVE  reset' \subseteq reset
        BY <3>1 DEF ConfirmReset, Accept, Change, UpdateUser, SetActive, Identify, tokens
      <3>2. ASSUME NEW u \in User, NEW active \in BOOLEAN, Provision(u, active) PROVE reset' \subseteq reset
        BY <3>2 DEF Provision, tokens
      <3>3. ASSUME NEW u \in User, Deprovision(u) PROVE reset' \subseteq reset
        BY <3>3 DEF Deprovision, SetActive, tokens
      <3>4. ASSUME NEW p \in Request, NEW u \in User, SignUp(p, u) PROVE reset' \subseteq reset
        BY <3>4 DEF SignUp, tokens
      <3>5. CASE People
        BY <3>1, <3>2, <3>3, <3>4, <3>5 DEF People
      <3>6. CASE Tokens
        BY <3>6 DEF Tokens, Expire, Invite, Manage, Callback
      <3>7. QED
        BY <3>5, <3>6, Writers, SessionsOnly, CompanyOnly DEF tables, tokens
    <2>2. CASE k \in reset
      <3>1. k.user \in User /\ password[k.user] # None
        BY <2>2 DEF AccountsKept, TokenTypes, Token
      <3>2. QED
        BY <1>1, <3>1
    <2>3. ASSUME NEW u \in User, RequestReset(u), k \notin reset PROVE password'[k.user] # None
      <3>1. k.user = u /\ password[u] # None
        BY <1>4, <2>3 DEF RequestReset
      <3>2. QED
        BY <1>1, <3>1
    <2>4. QED
      BY <1>4, <2>1, <2>2, <2>3
  <1>5. ASSUME NEW q \in Request
        PROVE  /\ request'[q].op = "accept" /\ request'[q].password # None => password'[request'[q].user] # None
               /\ request'[q].op = "update" => scim'[request'[q].user] # "none"
    <2>1. CASE request'[q] = request[q]
      <3>1. request[q].op \in {"accept", "update"} => request[q].user \in User
        BY Reads DEF Accepting, Updating
      <3>2. QED
        BY <1>1, <2>1, <3>1, IdentitiesStay DEF AccountsKept
    <2>2. ASSUME NEW u \in User, BeginAccept(q, u)
          PROVE  request'[q].op = "accept" /\ (request'[q].password # None => password'[request'[q].user] # None)
      <3> DEFINE r == [op |-> "accept", user |-> u, row |-> invitation[u].row, password |-> password[u]]
      <3>1. r.op = "accept" /\ r.user = u /\ (r.password # None => password[u] # None)
        OBVIOUS
      <3>2. request' = [request EXCEPT ![q] = r]
        BY <2>2 DEF BeginAccept, Begin
      <3> HIDE DEF r
      <3>3. request'[q] = r
        BY <3>2 DEF RequestTypes
      <3>4. QED
        BY <1>1, <3>1, <3>3
    <2>3. ASSUME NEW a \in User, NEW u \in User, NEW change \in Changes, BeginChange(q, a, u, change)
          PROVE  request'[q].op = "change"
      BY <2>3 DEF BeginChange, Begin, RequestTypes
    <2>4. ASSUME NEW u \in User, NEW active \in BOOLEAN, BeginUpdate(q, u, active)
          PROVE  request'[q].op = "update" /\ scim'[request'[q].user] # "none"
      <3>1. request'[q] = [op |-> "update", user |-> u, active |-> active,
                           differs |-> active # (scim[u] = "active")]
        BY <2>4 DEF BeginUpdate, Begin, RequestTypes
      <3>2. scim[u] # "none"
        BY <2>4 DEF BeginUpdate
      <3>3. QED
        BY <3>1, <3>2, IdentitiesStay
    <2>5. ASSUME NEW a \in User, NEW u \in User, NEW action \in {"drop", "resend"}, BeginManage(q, a, u, action)
          PROVE  request'[q].op = action
      BY <2>5 DEF BeginManage, Begin, RequestTypes
    <2>6. QED
      BY <2>1, <2>2, <2>3, <2>4, <2>5, AllMove DEF Moves, Supposing
  <1>6. QED
    BY <1>3, <1>4, <1>5 DEF AccountsKept

LEMMA InitAccounts == Init => AccountsKept
  <1> SUFFICES ASSUME Init PROVE AccountsKept
    OBVIOUS
  <1>1. 1 # None
    BY AccountAssumption
  <1>2. \A u \in User : member[u] # None => password[u] # None
    BY <1>1 DEF Init
  <1>3. QED
    BY <1>2 DEF Init, AccountsKept, Idle

\* The rows of the tables and the requests at work have the values the handlers
\* suppose; a password is only incremented where there is one.
THEOREM TypeCorrect == Spec => [](TypeOK /\ AccountsKept)
  <1>1. Init => TypeOK /\ AccountsKept
    BY InitTypes, InitAccounts
  <1>2. TypeOK /\ AccountsKept /\ [Next]_vars => TypeOK' /\ AccountsKept'
    BY StepTypes, StepAccounts
  <1>3. QED
    BY <1>1, <1>2, PTL DEF Spec

-----------------------------------------------------------------------------
(* What can be used once.                                                  *)

\* A token of one kind leaves the others alone.
LEMMA OtherKinds ==
    ASSUME NEW t, used' = used \cup {t}
    PROVE  /\ t[1] # "reset" /\ UNCHANGED <<reset, issued>> /\ ResetsKept => ResetsKept'
           /\ t[1] # "invitation" /\ UNCHANGED invitation /\ InvitationsKept => InvitationsKept'
           /\ t[1] # "domain" /\ UNCHANGED domain /\ DomainKept => DomainKept'
           /\ t[1] # "assertion" /\ UNCHANGED consumed /\ AssertionsKept => AssertionsKept'
  <1>1. ASSUME t[1] # "reset", UNCHANGED <<reset, issued>>, ResetsKept PROVE ResetsKept'
    <2>1. \A u, n : <<"reset", u, n>> # t
      BY <1>1
    <2>2. QED
      BY <1>1, <2>1 DEF ResetsKept
  <1>2. ASSUME t[1] # "invitation", UNCHANGED invitation, InvitationsKept PROVE InvitationsKept'
    <2>1. \A u, n : <<"invitation", u, n>> # t
      BY <1>2
    <2>2. QED
      BY <1>2, <2>1 DEF InvitationsKept
  <1>3. ASSUME t[1] # "domain", UNCHANGED domain, DomainKept PROVE DomainKept'
    <2>1. <<"domain">> # t
      BY <1>3
    <2>2. QED
      BY <1>3, <2>1 DEF DomainKept
  <1>4. ASSUME t[1] # "assertion", UNCHANGED consumed, AssertionsKept PROVE AssertionsKept'
    <2>1. \A x : <<"assertion", x>> # t
      BY <1>4
    <2>2. QED
      BY <1>4, <2>1 DEF AssertionsKept
  <1>5. QED
    BY <1>1, <1>2, <1>3, <1>4

\* Steps that take no token.
LEMMA NothingSpent ==
    ASSUME TokensKept, UNCHANGED <<used, again>>
    PROVE  /\ ~again'
           /\ UNCHANGED <<reset, issued>> => ResetsKept'
           /\ UNCHANGED invitation => InvitationsKept'
           /\ UNCHANGED domain => DomainKept'
           /\ UNCHANGED consumed => AssertionsKept'
  BY DEF TokensKept, ResetsKept, InvitationsKept, DomainKept, AssertionsKept

LEMMA StepTokens ==
    ASSUME TypeOK, TokensKept, [Next]_vars
    PROVE  TokensKept'
  <1> USE DEF TypeOK
  <1>1. CASE UNCHANGED <<reset, issued, invitation, domain, consumed, used, again>>
    BY <1>1, NothingSpent DEF TokensKept
  <1>2. ASSUME NEW u \in User, RequestReset(u) PROVE TokensKept'
    <2>1. UNCHANGED <<invitation, domain, consumed, used, again>>
      BY <1>2 DEF RequestReset, company, provider
    <2>2. issued[u] \in Nat /\ issued'[u] = issued[u] + 1
          /\ \A v \in User : v # u => issued'[v] = issued[v]
      BY <1>2 DEF RequestReset, TokenTypes
    <2>3. ASSUME NEW k \in reset' PROVE k.row <= issued'[k.user] /\ <<"reset", k.user, k.row>> \notin used'
      <3>1. CASE k \in reset /\ k.user # u
        BY <2>1, <2>2, <3>1 DEF TokensKept, ResetsKept, TokenTypes, Token
      <3>2. CASE k = [user |-> u, row |-> issued[u] + 1]
        <4>1. <<"reset", u, issued[u] + 1>> \notin used
          BY <2>2 DEF TokensKept, ResetsKept
        <4>2. k.user = u /\ k.row = issued[u] + 1
          BY <3>2
        <4>3. QED
          BY <2>1, <2>2, <4>1, <4>2
      <3>3. QED
        BY <1>2, <2>3, <3>1, <3>2 DEF RequestReset
    <2>4. ASSUME NEW v \in User, NEW n \in Nat, <<"reset", v, n>> \in used PROVE n <= issued'[v]
      <3>1. n <= issued[v] /\ issued[v] \in Nat
        BY <2>4 DEF TokensKept, ResetsKept, TokenTypes
      <3>2. QED
        BY <2>2, <3>1
    <2>5. ResetsKept'
      BY <2>1, <2>3, <2>4 DEF ResetsKept
    <2>6. QED
      BY <2>1, <2>5, NothingSpent DEF TokensKept
  <1>3. ASSUME NEW p \in Request, ConfirmReset(p) PROVE TokensKept'
    <2> DEFINE k == request[p].token
               t == <<"reset", k.user, k.row>>
    <2>1. UNCHANGED <<invitation, issued, domain, consumed>>
      BY <1>3 DEF ConfirmReset, company, provider
    <2>2. CASE k \in reset
      <3>1. Spend(t) /\ reset' = {j \in reset : j.user # k.user}
        BY <1>3, <2>2 DEF ConfirmReset, StillThere
      <3>2. k.user \in User /\ k.row \in Nat /\ k.row <= issued[k.user] /\ t \notin used
        BY <2>2 DEF TokensKept, ResetsKept, TokenTypes, Token
      <3>3. used' = used \cup {t} /\ ~again'
        BY <3>1, <3>2 DEF Spend, TokensKept
      <3>4. t[1] = "reset"
        OBVIOUS
      <3>5. ASSUME NEW j \in reset' PROVE j.row <= issued'[j.user] /\ <<"reset", j.user, j.row>> \notin used'
        <4>1. j \in reset /\ j.user # k.user
          BY <3>1, <3>5
        <4>2. <<"reset", j.user, j.row>> # t
          BY <4>1
        <4>3. QED
          BY <2>1, <3>3, <4>1, <4>2 DEF TokensKept, ResetsKept
      <3>6. ASSUME NEW u \in User, NEW n \in Nat, <<"reset", u, n>> \in used' PROVE n <= issued'[u]
        <4>1. CASE <<"reset", u, n>> \in used
          BY <2>1, <4>1 DEF TokensKept, ResetsKept
        <4>2. CASE <<"reset", u, n>> = t
          <5>1. u = k.user /\ n = k.row
            BY <4>2
          <5>2. QED
            BY <2>1, <3>2, <5>1
        <4>3. QED
          BY <3>3, <3>6, <4>1, <4>2
      <3>7. ResetsKept'
        BY <3>5, <3>6 DEF ResetsKept
      <3> HIDE DEF t
      <3>8. QED
        BY <2>1, <3>3, <3>4, <3>7, OtherKinds DEF TokensKept
    <2>3. CASE k \notin reset
      BY <1>1, <1>3, <2>1, <2>3 DEF ConfirmReset, StillThere
    <2>4. QED
      BY <2>2, <2>3
  <1>4. ASSUME NEW a \in User, NEW u \in User, Invite(a, u) PROVE TokensKept'
    <2>1. UNCHANGED <<reset, issued, domain, consumed, used, again>>
      BY <1>4 DEF Invite, company, provider
    <2>2. invitation[u].row \in Nat /\ \A v \in User : v # u => invitation'[v] = invitation[v]
      BY <1>4 DEF Invite, TokenTypes
    <2>3. \/ invitation[u].status \in {"PENDING", "EXPIRED"} /\ invitation'[u].row = invitation[u].row
          \/ invitation'[u].row = invitation[u].row + 1
      BY <1>4 DEF Invite, TokenTypes
    <2>4. ASSUME NEW v \in User, NEW n \in Nat, <<"invitation", v, n>> \in used
          PROVE  /\ n <= invitation'[v].row
                 /\ n = invitation'[v].row => invitation'[v].status \notin {"PENDING", "EXPIRED"}
      BY <2>2, <2>3, <2>4 DEF TokensKept, InvitationsKept
    <2>5. InvitationsKept'
      BY <2>1, <2>4 DEF InvitationsKept
    <2>6. QED
      BY <2>1, <2>5, NothingSpent DEF TokensKept
  <1>5. ASSUME NEW p \in Request, Manage(p) PROVE TokensKept'
    <2>1. UNCHANGED <<reset, issued, domain, consumed, used, again>>
      BY <1>5 DEF Manage, company, provider
    <2>2. ASSUME NEW v \in User
          PROVE  /\ invitation'[v].row = invitation[v].row
                 /\ invitation'[v].status \in {"PENDING", "EXPIRED"} => invitation[v].status \in {"PENDING", "EXPIRED"}
      BY <1>5 DEF Manage, TokenTypes
    <2>3. InvitationsKept'
      BY <2>1, <2>2 DEF TokensKept, InvitationsKept
    <2>4. QED
      BY <2>1, <2>3, NothingSpent DEF TokensKept
  <1>6. ASSUME NEW u \in User, Expire(u) PROVE TokensKept'
    <2>1. UNCHANGED <<issued, domain, consumed, used, again>> /\ reset' \subseteq reset
      BY <1>6 DEF Expire, company, provider
    <2>2. ASSUME NEW v \in User
          PROVE  /\ invitation'[v].row = invitation[v].row
                 /\ invitation'[v].status \in {"PENDING", "EXPIRED"} => invitation[v].status \in {"PENDING", "EXPIRED"}
      BY <1>6 DEF Expire, TokenTypes
    <2>3. InvitationsKept'
      BY <2>1, <2>2 DEF TokensKept, InvitationsKept
    <2>4. ResetsKept'
      BY <2>1 DEF TokensKept, ResetsKept
    <2>5. QED
      BY <2>1, <2>3, <2>4, NothingSpent DEF TokensKept
  <1>7. ASSUME NEW p \in Request, Accept(p) PROVE TokensKept'
    <2> DEFINE r == request[p]
               t == <<"invitation", r.user, r.row>>
               Claims == Claimable(r) /\ (r.password = None => password[r.user] = None)
    <2>1. UNCHANGED <<reset, issued, domain, consumed>>
      BY <1>7 DEF Accept, company, provider
    <2>2. CASE Claims
      <3>1. r.user \in User /\ r.row \in Nat
        BY <1>7, Reads DEF Accept, Accepting
      <3>2. invitation[r.user].row = r.row /\ invitation[r.user].status = "PENDING"
        BY <2>2 DEF Claimable
      <3>3. Spend(t) /\ invitation' = [invitation EXCEPT ![r.user].status = "ACCEPTED"]
        BY <1>7, <2>2 DEF Accept
      <3>4. t \notin used
        BY <3>1, <3>2 DEF TokensKept, InvitationsKept
      <3>5. used' = used \cup {t} /\ ~again'
        BY <3>3, <3>4 DEF Spend, TokensKept
      <3>6. /\ invitation'[r.user].row = r.row /\ invitation'[r.user].status = "ACCEPTED"
            /\ \A u \in User : u # r.user => invitation'[u] = invitation[u]
        BY <3>1, <3>2, <3>3 DEF TokenTypes
      <3>7. ASSUME NEW u \in User, NEW n \in Nat, <<"invitation", u, n>> \in used'
            PROVE  /\ n <= invitation'[u].row
                   /\ n = invitation'[u].row => invitation'[u].status \notin {"PENDING", "EXPIRED"}
        <4>1. CASE <<"invitation", u, n>> \in used
          BY <3>2, <3>6, <4>1 DEF TokensKept, InvitationsKept
        <4>2. CASE <<"invitation", u, n>> = t
          <5>1. u = r.user /\ n = r.row
            BY <4>2
          <5>2. QED
            BY <3>1, <3>6, <5>1
        <4>3. QED
          BY <3>5, <3>7, <4>1, <4>2
      <3>8. InvitationsKept'
        BY <3>7 DEF InvitationsKept
      <3>9. t[1] = "invitation"
        OBVIOUS
      <3> HIDE DEF t
      <3>10. QED
        BY <2>1, <3>5, <3>8, <3>9, OtherKinds DEF TokensKept
    <2>3. CASE ~Claims
      BY <1>1, <1>7, <2>1, <2>3 DEF Accept
    <2>4. QED
      BY <2>2, <2>3
  <1>8. ASSUME NEW a \in User, ClaimDomain(a) PROVE TokensKept'
    <2>1. UNCHANGED <<reset, issued, invitation, consumed, used, again>> /\ domain = "none"
      BY <1>8 DEF ClaimDomain, provider, tokens
    <2>2. DomainKept'
      BY <2>1 DEF TokensKept, DomainKept
    <2>3. QED
      BY <2>1, <2>2, NothingSpent DEF TokensKept
  <1>9. ASSUME NEW p \in Request, VerifyDomain(p) PROVE TokensKept'
    <2> DEFINE t == <<"domain">>
    <2>1. UNCHANGED <<reset, issued, invitation, consumed>>
      BY <1>9 DEF VerifyDomain, provider
    <2>2. CASE domain = "PENDING"
      <3>1. Spend(t) /\ domain' = "VERIFIED" /\ t \notin used
        BY <1>9, <2>2 DEF VerifyDomain, StillPending, TokensKept, DomainKept
      <3>2. used' = used \cup {t} /\ ~again' /\ DomainKept' /\ t[1] = "domain"
        BY <3>1 DEF Spend, TokensKept, DomainKept
      <3> HIDE DEF t
      <3>3. QED
        BY <2>1, <3>2, OtherKinds DEF TokensKept
    <2>3. CASE domain # "PENDING"
      BY <1>1, <1>9, <2>1, <2>3 DEF VerifyDomain, StillPending
    <2>4. QED
      BY <2>2, <2>3
  <1>10. ASSUME NEW p \in Request, NEW x \in Assertion, Callback(p, x) PROVE TokensKept'
    <2> DEFINE t == <<"assertion", x>>
    <2>1. UNCHANGED <<reset, issued, invitation, domain>>
      BY <1>10 DEF Callback, company
    <2>2. CASE x \notin consumed
      <3>1. Spend(t) /\ consumed' = consumed \cup {x} /\ t \notin used
        BY <1>10, <2>2 DEF Callback, Unseen, TokensKept, AssertionsKept
      <3>2. used' = used \cup {t} /\ ~again'
        BY <3>1 DEF Spend, TokensKept
      <3>3. ASSUME NEW y \in Assertion, <<"assertion", y>> \in used' PROVE y \in consumed'
        <4>1. <<"assertion", y>> = t => y = x
          OBVIOUS
        <4>2. QED
          BY <3>1, <3>2, <3>3, <4>1 DEF TokensKept, AssertionsKept
      <3>4. AssertionsKept' /\ t[1] = "assertion"
        BY <3>3 DEF AssertionsKept
      <3> HIDE DEF t
      <3>5. QED
        BY <2>1, <3>2, <3>4, OtherKinds DEF TokensKept
    <2>3. CASE x \in consumed
      BY <1>1, <1>10, <2>1, <2>3 DEF Callback, Unseen
    <2>4. QED
      BY <2>2, <2>3
  <1>11. CASE Tokens
    BY <1>2, <1>4, <1>5, <1>6, <1>10, <1>11 DEF Tokens
  <1>12. CASE Company
    <2>1. ASSUME NEW a \in User, NEW enable \in BOOLEAN, Adopt(a) \/ ConfigureSso(a, enable)
          PROVE  TokensKept'
      BY <1>1, <2>1 DEF Adopt, ConfigureSso, company, provider, tokens
    <2>2. ASSUME NEW p \in Request, SetPolicy(p) \/ AllowDomain(p) PROVE TokensKept'
      BY <1>1, <2>2 DEF SetPolicy, AllowDomain, company, provider, tokens
    <2>3. QED
      BY <1>8, <1>9, <1>12, <2>1, <2>2 DEF Company
  <1>13. CASE People
    <2>1. ASSUME NEW p \in Request, NEW u \in User, SignUp(p, u) PROVE TokensKept'
      BY <1>1, <2>1 DEF SignUp, company, provider, tokens
    <2>2. ASSUME NEW p \in Request, Change(p) \/ UpdateUser(p) \/ Identify(p) PROVE TokensKept'
      BY <1>1, <2>2 DEF Change, UpdateUser, SetActive, Identify, company, provider, tokens
    <2>3. ASSUME NEW u \in User, NEW active \in BOOLEAN, Provision(u, active) PROVE TokensKept'
      BY <1>1, <2>3 DEF Provision, tokens
    <2>4. ASSUME NEW u \in User, Deprovision(u) PROVE TokensKept'
      BY <1>1, <2>4 DEF Deprovision, SetActive, tokens
    <2>5. QED
      BY <1>3, <1>7, <1>13, <2>1, <2>2, <2>3, <2>4 DEF People
  <1>14. CASE UNCHANGED tables
    BY <1>1, <1>14 DEF tables, company, provider, tokens
  <1>15. CASE UNCHANGED vars
    BY <1>1, <1>15 DEF vars, company, provider, tokens
  <1>16. CASE Sessions
    BY <1>1, <1>16, SessionsOnly DEF company, tokens
  <1>17. QED
    BY <1>11, <1>12, <1>13, <1>14, <1>15, <1>16, Writers

\* An invitation, a reset link, a domain challenge and an assertion have their effect
\* at most once, whatever requests hold them: every claim is conditional on the row.
THEOREM TokensAreOneShot == Spec => []OneShot
  <1>1. Init => TokensKept
    BY DEF Init, TokensKept, ResetsKept, InvitationsKept, DomainKept, AssertionsKept
  <1>2. TypeOK /\ TokensKept /\ [Next]_vars => TokensKept'
    BY StepTokens
  <1>3. TokensKept => OneShot
    BY DEF TokensKept, OneShot
  <1>4. QED
    BY <1>1, <1>2, <1>3, TypeCorrect, PTL DEF Spec

-----------------------------------------------------------------------------
(* The directory and the organization.                                     *)

LEMMA StepDirectory ==
    ASSUME TypeOK, AccountsKept, DirectoryKept, [Next]_vars
    PROVE  DirectoryKept'
  <1> USE DEF TypeOK
  <1>1. CASE UNCHANGED <<org, scim, founder>>
    BY <1>1 DEF DirectoryKept, DirectoryAgrees
  <1>2. ASSUME NEW u \in User, NEW active \in BOOLEAN,
               scim' = [scim EXCEPT ![u] = IF active THEN "active" ELSE "inactive"],
               org' = [org EXCEPT ![u] = Standing(active)], UNCHANGED founder, founder # None
        PROVE  DirectoryKept'
    BY <1>2 DEF DirectoryKept, DirectoryAgrees, Standing, CompanyTypes, ProviderTypes
  <1>3. ASSUME NEW a \in User, Adopt(a) PROVE DirectoryKept'
    <2>1. UNCHANGED scim /\ \A u \in User : scim[u] = "none"
      BY <1>3 DEF Adopt, Adopted, DirectoryKept, provider
    <2>2. QED
      BY <2>1 DEF DirectoryKept, DirectoryAgrees
  <1>4. ASSUME NEW u \in User, NEW active \in BOOLEAN, Provision(u, active) PROVE DirectoryKept'
    BY <1>2, <1>4 DEF Provision, Adopted
  <1>5. ASSUME NEW u \in User, Deprovision(u) PROVE DirectoryKept'
    <2>1. founder # None
      BY <1>5 DEF Deprovision, DirectoryKept
    <2>2. QED
      BY <1>2, <1>5, <2>1 DEF Deprovision, SetActive
  <1>6. ASSUME NEW p \in Request, UpdateUser(p) PROVE DirectoryKept'
    <2>1. request[p] \in Updating /\ scim[request[p].user] # "none"
      BY <1>6, Reads DEF UpdateUser, AccountsKept
    <2>2. request[p].user \in User /\ request[p].active \in BOOLEAN /\ founder # None
      BY <2>1 DEF Updating, DirectoryKept
    <2>3. QED
      BY <1>1, <1>2, <1>6, <2>2 DEF UpdateUser, SetActive, company, provider
  <1>7. ASSUME NEW p \in Request, Identify(p) PROVE DirectoryKept'
    <2> DEFINE u == request[p].user
    <2>1. u \in User
      BY <1>7, Reads DEF Identify, Identifying
    <2>2. CASE UNCHANGED org
      BY <1>1, <1>7, <2>2 DEF Identify
    <2>3. CASE password[u] = None /\ org' = [org EXCEPT ![u] = "active"]
      <3>1. scim[u] = "none"
        BY <2>1, <2>3 DEF AccountsKept
      <3>2. UNCHANGED <<scim, founder>>
        BY <1>7 DEF Identify
      <3>3. QED
        BY <2>1, <2>3, <3>1, <3>2 DEF DirectoryKept, DirectoryAgrees, CompanyTypes
    <2>4. QED
      BY <1>7, <2>2, <2>3 DEF Identify, Jit
  <1>8. ASSUME NEW p \in Request, ConfirmReset(p) \/ Accept(p) \/ Change(p) PROVE DirectoryKept'
    BY <1>1, <1>8 DEF ConfirmReset, Accept, Change, company, provider
  <1>9. ASSUME NEW p \in Request, NEW u \in User, SignUp(p, u) PROVE DirectoryKept'
    BY <1>1, <1>9 DEF SignUp, company, provider
  <1>10. CASE People
    BY <1>4, <1>5, <1>6, <1>7, <1>8, <1>9, <1>10 DEF People
  <1>11. CASE Company
    <2>1. (\E a \in User : Adopt(a)) \/ UNCHANGED <<org, scim, founder>>
      BY <1>11 DEF Company, ClaimDomain, SetPolicy, VerifyDomain, AllowDomain, ConfigureSso,
         company, provider
    <2>2. QED
      BY <1>1, <1>3, <2>1
  <1>12. CASE Tokens \/ Sessions
    BY <1>1, <1>12, TokensOnly, SessionsOnly DEF company
  <1>13. CASE UNCHANGED tables \/ UNCHANGED vars
    BY <1>1, <1>13 DEF tables, vars, company, provider
  <1>14. QED
    BY <1>10, <1>11, <1>12, <1>13, Writers

\* The directory and the organization agree on who is active: both rows are written in
\* one transaction, and sign-on provisions only who the directory does not know.
THEOREM DirectoriesAgree == Spec => []DirectoryAgrees
  <1>1. Init => DirectoryKept
    BY DEF Init, DirectoryKept, DirectoryAgrees
  <1>2. TypeOK /\ AccountsKept /\ DirectoryKept /\ [Next]_vars => DirectoryKept'
    BY StepDirectory
  <1>3. DirectoryKept => DirectoryAgrees
    BY DEF DirectoryKept
  <1>4. QED
    BY <1>1, <1>2, <1>3, TypeCorrect, PTL DEF Spec

-----------------------------------------------------------------------------
(* Owners.                                                                 *)

LEMMA ExcusesStay ==
    ASSUME Next
    PROVE  excused \subseteq excused'
  <1>1. ASSUME NEW p \in Request, NEW u \in User, SignUp(p, u) PROVE excused \subseteq excused'
    BY <1>1 DEF SignUp
  <1>2. ASSUME NEW p \in Request, ConfirmReset(p) \/ Accept(p) \/ Change(p) \/ Identify(p)
        PROVE  excused \subseteq excused'
    BY <1>2 DEF ConfirmReset, Accept, Change, Identify
  <1>3. ASSUME NEW p \in Request, UpdateUser(p) PROVE excused \subseteq excused'
    BY <1>3 DEF UpdateUser, SetActive
  <1>4. ASSUME NEW u \in User, NEW active \in BOOLEAN, Provision(u, active) PROVE excused \subseteq excused'
    BY <1>4 DEF Provision
  <1>5. ASSUME NEW u \in User, Deprovision(u) PROVE excused \subseteq excused'
    BY <1>5 DEF Deprovision, SetActive
  <1>6. CASE People
    BY <1>1, <1>2, <1>3, <1>4, <1>5, <1>6 DEF People
  <1>7. CASE Sessions
    BY <1>7 DEF Sessions, OpenSession, RevokeAllSessions, Abandon, Logout
  <1>8. QED
    BY <1>6, <1>7, Writers, TokensOnly, CompanyOnly DEF tables

\* A row of somebody else leaves an owner an owner.
LEMMA OwnersBut ==
    ASSUME TypeOK, NEW u \in User, NEW row, member' = [member EXCEPT ![u] = row]
    PROVE  /\ Owners \ {u} \subseteq Owners'
           /\ row # None /\ row.active /\ row.role = "OWNER" => u \in Owners'
  BY DEF TypeOK, IdentityTypes, Owners, Active

\* The owners are those that were, or more; or some other stays; or it is excused.
LEMMA StaysStaffed ==
    ASSUME Staffed, Occupied, excused \subseteq excused',
           Owners \subseteq Owners' \/ <<"owner">> \in excused'
    PROVE  Staffed'
  BY DEF Staffed

LEMMA ManagedBySomebody ==
    ASSUME TypeOK, Next
    PROVE  Occupied' => Settled' \/ Occupied
  <1> SUFFICES ASSUME NEW q \in Request, request'[q].op \in {"drop", "resend"}
               PROVE  Occupied
    BY DEF Occupied
  <1>1. CASE request'[q] = request[q]
    BY <1>1 DEF Occupied
  <1>2. ASSUME NEW a \in User, NEW u \in User, NEW action, BeginManage(q, a, u, action) PROVE Occupied
    BY <1>2 DEF BeginManage, Admin, Active, Occupied, Settled
  <1>3. ASSUME NEW u \in User, BeginAccept(q, u) PROVE FALSE
    BY <1>3 DEF BeginAccept, Begin, TypeOK, RequestTypes
  <1>4. ASSUME NEW a \in User, NEW u \in User, NEW change \in Changes, BeginChange(q, a, u, change) PROVE FALSE
    BY <1>4 DEF BeginChange, Begin, TypeOK, RequestTypes
  <1>5. ASSUME NEW u \in User, NEW active \in BOOLEAN, BeginUpdate(q, u, active) PROVE FALSE
    BY <1>5 DEF BeginUpdate, Begin, TypeOK, RequestTypes
  <1>6. QED
    BY <1>1, <1>2, <1>3, <1>4, <1>5, AllMove DEF Moves, Supposing

LEMMA StepStaffed ==
    ASSUME TypeOK, AccountsKept, OwnersKept, Next
    PROVE  Staffed'
  <1> USE DEF TypeOK
  <1>1. Staffed /\ excused \subseteq excused'
    BY ExcusesStay DEF OwnersKept
  <1>2. ASSUME UNCHANGED member, Settled' => Occupied PROVE Staffed'
    <2>1. CASE Occupied
      BY <1>1, <1>2, <2>1, StaysStaffed DEF Owners, Active
    <2>2. CASE ~Occupied
      BY <1>2, <2>2, ManagedBySomebody DEF Occupied, Staffed
    <2>3. QED
      BY <2>1, <2>2
  <1>3. CASE UNCHANGED <<member, password, invitation, founder, domain>>
    BY <1>2, <1>3 DEF Occupied, Settled, Adopted
  <1>4. ASSUME NEW p \in Request, NEW u \in User, SignUp(p, u) PROVE Staffed'
    <2> DEFINE row == [role |-> "OWNER", active |-> TRUE]
    <2>1. row # None /\ row.active /\ row.role = "OWNER"
      <3>1. row \in [role : Role, active : BOOLEAN]
        BY DEF Role
      <3>2. QED
        BY <3>1, AccountAssumption
    <2>2. member' = [member EXCEPT ![u] = row]
      BY <1>4 DEF SignUp
    <2> HIDE DEF row
    <2>3. u \in Owners'
      BY <2>1, <2>2, OwnersBut
    <2>4. QED
      BY <2>3 DEF Staffed
  <1>5. ASSUME NEW p \in Request, ConfirmReset(p) PROVE Staffed'
    <2>1. UNCHANGED <<member, invitation, founder, domain>>
      BY <1>5 DEF ConfirmReset, company
    <2>2. \A u \in User : password'[u] # None => password[u] # None
      <3> DEFINE k == request[p].token
      <3>1. CASE k \in reset
        <4>1. k.user \in User /\ password[k.user] # None
          BY <3>1 DEF AccountsKept, TokenTypes, Token
        <4>2. QED
          BY <1>5, <3>1, <4>1 DEF ConfirmReset, StillThere, IdentityTypes
      <3>2. CASE k \notin reset
        BY <1>5, <3>2 DEF ConfirmReset, StillThere
      <3>3. QED
        BY <3>1, <3>2
    <2>3. QED
      BY <1>2, <2>1, <2>2 DEF Occupied, Settled, Adopted
  <1>6. ASSUME NEW p \in Request, Accept(p) PROVE Staffed'
    <2> DEFINE r == request[p]
               row == [role |-> "MEMBER", active |-> TRUE]
               Claims == Claimable(r) /\ (r.password = None => password[r.user] = None)
    <2>1. r.user \in User
      BY <1>6, Reads DEF Accept, Accepting
    <2>2. CASE Claims
      <3>1. Occupied
        BY <2>1, <2>2 DEF Claimable, Occupied, Settled
      <3>2. member' = [member EXCEPT ![r.user] = row]
        BY <1>6, <2>2 DEF Accept
      <3>3. Owners \ {r.user} \subseteq Owners'
        <4> HIDE DEF row
        <4>1. QED
          BY <2>1, <3>2, OwnersBut
      <3>4. Owners = {r.user} => <<"owner">> \in excused'
        BY <1>6 DEF Accept
      <3>5. Owners' # {} \/ <<"owner">> \in excused'
        BY <1>1, <3>1, <3>3, <3>4 DEF Staffed
      <3>6. QED
        BY <3>5 DEF Staffed
    <2>3. CASE ~Claims
      BY <1>3, <1>6, <2>3 DEF Accept, identity, company
    <2>4. QED
      BY <2>2, <2>3
  <1>7. ASSUME NEW p \in Request, Change(p) PROVE Staffed'
    <2> DEFINE r == request[p]
               row == Changed(member[r.user], r.change)
    <2>1. r \in Changing
      BY <1>7, Reads DEF Change
    <2>2. r.user \in User /\ r.change \in Changes /\ r.others \subseteq User
      BY <2>1 DEF Changing
    <2>3. CASE member[r.user] = None
      BY <1>3, <1>7, <2>3 DEF Change, company, tokens
    <2>4. CASE member[r.user] # None
      <3>1. Occupied
        BY <2>2, <2>4 DEF Occupied, Settled
      <3>2. member' = [member EXCEPT ![r.user] = row]
        BY <1>7, <2>4 DEF Change
      <3>3. /\ Owners \ {r.user} \subseteq Owners'
            /\ row # None /\ row.active /\ row.role = "OWNER" => r.user \in Owners'
        <4> HIDE DEF row
        <4>1. QED
          BY <2>2, <3>2, OwnersBut
      <3>4. CASE Owners # {r.user}
        BY <1>1, <3>1, <3>3, <3>4 DEF Staffed
      <3>5. CASE Owners = {r.user}
        <4>1. r.user \notin r.others /\ (r.others = {} => r.change \in {"OWNER", "reactivate"} \/ <<"owner">> \in excused)
          BY <1>7 DEF Change, OwnersKept, Counted
        <4>2. CASE r.others # {}
          <5>1. r.others \cap Owners = {}
            BY <3>5, <4>1
          <5>2. <<"owner">> \in excused'
            BY <1>7, <4>2, <5>1 DEF Change
          <5>3. QED
            BY <5>2 DEF Staffed
        <4>3. CASE r.change \in {"OWNER", "reactivate"}
          <5>1. member[r.user] \in Row /\ member[r.user].active /\ member[r.user].role = "OWNER"
            BY <2>2, <3>5 DEF Owners, Active, IdentityTypes
          <5>2. row \in Row /\ row.active /\ row.role = "OWNER"
            BY <4>3, <5>1 DEF Changed, Row, Role
          <5>3. row # None
            BY <5>2, AccountAssumption DEF Row
          <5>4. QED
            BY <3>3, <5>2, <5>3 DEF Staffed
        <4>4. CASE <<"owner">> \in excused
          BY <1>1, <4>4 DEF Staffed
        <4>5. QED
          BY <4>1, <4>2, <4>3, <4>4
      <3>6. QED
        BY <3>4, <3>5
    <2>5. QED
      BY <2>3, <2>4
  <1>8. ASSUME NEW u \in User, NEW active \in BOOLEAN, NEW row, member' = [member EXCEPT ![u] = row],
               Occupied, Owners = {u} /\ ~active => <<"owner">> \in excused',
               u \in Owners /\ active => row # None /\ row.active /\ row.role = "OWNER"
        PROVE  Staffed'
    <2>1. /\ Owners \ {u} \subseteq Owners'
          /\ row # None /\ row.active /\ row.role = "OWNER" => u \in Owners'
      BY <1>8, OwnersBut
    <2>2. CASE active
      BY <1>1, <1>8, <2>1, <2>2, StaysStaffed
    <2>3. CASE ~active
      BY <1>1, <1>8, <2>1, <2>3 DEF Staffed
    <2>4. QED
      BY <2>2, <2>3
  <1>9. ASSUME NEW u \in User, NEW active \in BOOLEAN, u \in Owners, active
        PROVE  LET row == [member[u] EXCEPT !.active = active] IN
               row # None /\ row.active /\ row.role = "OWNER"
    <2> DEFINE row == [member[u] EXCEPT !.active = active]
    <2>1. member[u] \in Row /\ member[u].role = "OWNER"
      BY <1>9 DEF Owners, Active, IdentityTypes
    <2>2. row \in Row /\ row.active /\ row.role = "OWNER"
      BY <1>9, <2>1 DEF Row
    <2>3. row # None
      BY <2>2, AccountAssumption DEF Row
    <2>4. QED
      BY <2>2, <2>3
  <1>10. ASSUME NEW u \in User, NEW active \in BOOLEAN, SetActive(u, active) PROVE Staffed'
    <2>1. UNCHANGED <<password, invitation, founder, domain>>
      BY <1>10 DEF SetActive, tokens
    <2>2. CASE member[u] = None
      <3>1. UNCHANGED member
        BY <1>10, <2>2 DEF SetActive, IdentityTypes
      <3>2. QED
        BY <1>3, <2>1, <3>1
    <2>3. CASE member[u] # None
      <3> DEFINE row == [member[u] EXCEPT !.active = active]
      <3>1. member' = [member EXCEPT ![u] = row]
        BY <1>10, <2>3 DEF SetActive
      <3>2. Occupied
        BY <2>3 DEF Occupied, Settled
      <3>3. Owners = {u} /\ ~active => <<"owner">> \in excused'
        BY <1>10 DEF SetActive
      <3>4. u \in Owners /\ active => row # None /\ row.active /\ row.role = "OWNER"
        BY <1>9
      <3> HIDE DEF row
      <3>5. QED
        BY <1>8, <3>1, <3>2, <3>3, <3>4
    <2>4. QED
      BY <2>2, <2>3
  <1>11. ASSUME NEW p \in Request, UpdateUser(p) PROVE Staffed'
    <2>1. request[p] \in Updating
      BY <1>11, Reads DEF UpdateUser
    <2>2. request[p].user \in User /\ request[p].active \in BOOLEAN
      BY <2>1 DEF Updating
    <2>3. QED
      BY <1>3, <1>10, <1>11, <2>2 DEF UpdateUser, identity, company, tokens
  <1>12. ASSUME NEW u \in User, Deprovision(u) PROVE Staffed'
    BY <1>10, <1>12 DEF Deprovision
  <1>13. ASSUME NEW u \in User, NEW active \in BOOLEAN, Provision(u, active) PROVE Staffed'
    <2> DEFINE row == IF member[u] = None THEN [role |-> "MEMBER", active |-> active]
                      ELSE [member[u] EXCEPT !.active = active]
    <2>1. member' = [member EXCEPT ![u] = row]
      BY <1>13 DEF Provision
    <2>2. Occupied
      BY <1>13 DEF Provision, Occupied, Settled
    <2>3. Owners = {u} /\ ~active => <<"owner">> \in excused'
      BY <1>13 DEF Provision
    <2>4. u \in Owners => member[u] # None
      BY DEF Owners, Active
    <2>5. u \in Owners /\ active => row # None /\ row.active /\ row.role = "OWNER"
      BY <1>9, <2>4
    <2> HIDE DEF row
    <2>6. QED
      BY <1>8, <2>1, <2>2, <2>3, <2>5
  <1>14. ASSUME NEW p \in Request, Identify(p) PROVE Staffed'
    <2> DEFINE u == request[p].user
               row == [role |-> "MEMBER", active |-> TRUE]
    <2>1. u \in User
      BY <1>14, Reads DEF Identify, Identifying
    <2>2. CASE UNCHANGED identity
      BY <1>3, <1>14, <2>2 DEF Identify, identity, tokens
    <2>3. CASE Jit(u) /\ member' = [member EXCEPT ![u] = row]
      <3>1. Occupied /\ u \notin Owners
        BY <2>1, <2>3 DEF Jit, Occupied, Settled, AccountsKept, Owners, Active
      <3> HIDE DEF row
      <3>2. Owners \ {u} \subseteq Owners'
        BY <2>1, <2>3, OwnersBut
      <3>3. QED
        BY <1>1, <3>1, <3>2, StaysStaffed
    <2>4. QED
      BY <1>14, <2>2, <2>3 DEF Identify
  <1>15. CASE People
    BY <1>4, <1>5, <1>6, <1>7, <1>11, <1>12, <1>13, <1>14, <1>15 DEF People
  <1>16. CASE Tokens
    <2>1. UNCHANGED <<identity, company>>
      BY <1>16, TokensOnly
    <2>2. (\E u \in User : invitation'[u].status # "none") => Occupied
      <3>1. ASSUME NEW a \in User, NEW u \in User, Invite(a, u) PROVE Occupied
        BY <3>1 DEF Invite, Admin, Active, Occupied, Settled
      <3>2. ASSUME NEW u \in User, Expire(u), NEW v \in User, invitation'[v].status # "none"
            PROVE  invitation[v].status # "none"
        BY <3>2 DEF Expire, TokenTypes
      <3>3. ASSUME NEW p \in Request, Manage(p) PROVE Occupied
        BY <3>3 DEF Manage, Occupied
      <3>4. (\E u \in User : RequestReset(u)) \/ (\E p \in Request, x \in Assertion : Callback(p, x))
            => UNCHANGED invitation
        BY DEF RequestReset, Callback
      <3>5. (\E u \in User : invitation[u].status # "none") => Occupied
        BY DEF Occupied, Settled
      <3>6. QED
        BY <1>16, <3>1, <3>2, <3>3, <3>4, <3>5 DEF Tokens
    <2>3. QED
      BY <1>2, <2>1, <2>2 DEF Settled, Occupied, Adopted, identity, company
  <1>17. CASE Company
    <2>1. UNCHANGED <<identity, invitation>>
      BY <1>17, CompanyOnly
    <2>2. founder' # None \/ domain' # "none" => Occupied
      <3>1. ASSUME NEW a \in User, Adopt(a) \/ ClaimDomain(a) PROVE Occupied
        BY <3>1 DEF Adopt, ClaimDomain, OrganizationAdmin, Owners, Active, Occupied, Settled
      <3>2. ASSUME NEW p \in Request, VerifyDomain(p), domain = "PENDING" PROVE Occupied
        BY <3>2 DEF Occupied, Settled
      <3>3. ASSUME NEW p \in Request, SetPolicy(p) \/ AllowDomain(p) \/ (VerifyDomain(p) /\ domain # "PENDING")
            PROVE  UNCHANGED <<founder, domain>>
        BY <3>3 DEF SetPolicy, AllowDomain, VerifyDomain, StillPending
      <3>4. ASSUME NEW a \in User, NEW enable \in BOOLEAN, ConfigureSso(a, enable) PROVE UNCHANGED <<founder, domain>>
        BY <3>4 DEF ConfigureSso, company
      <3>5. founder # None \/ domain # "none" => Occupied
        BY DEF Occupied, Settled, Adopted
      <3>6. QED
        BY <1>17, <3>1, <3>2, <3>3, <3>4, <3>5 DEF Company
    <2>3. QED
      BY <1>2, <2>1, <2>2 DEF Settled, Occupied, Adopted, identity
  <1>18. CASE Sessions
    BY <1>3, <1>18, SessionsOnly DEF identity, company, tokens
  <1>19. CASE UNCHANGED tables
    BY <1>3, <1>19 DEF tables, identity, company, tokens
  <1>20. QED
    BY <1>15, <1>16, <1>17, <1>18, <1>19, Writers

LEMMA StepCounted ==
    ASSUME TypeOK, OwnersKept, Next, NEW q \in Request
    PROVE  Counted(q)'
  <1> USE DEF TypeOK
  <1>1. excused \subseteq excused'
    BY ExcusesStay
  <1>2. CASE request'[q] = request[q]
    BY <1>1, <1>2 DEF OwnersKept, Counted
  <1>3. ASSUME NEW a \in User, NEW u \in User, NEW change \in Changes, BeginChange(q, a, u, change)
        PROVE  Counted(q)'
    <2> DEFINE r == [op |-> "change", user |-> u, change |-> change, others |-> Owners \ {u}]
    <2>1. r.user = u /\ r.change = change /\ r.others = Owners \ {u}
      OBVIOUS
    <2>2. request' = [request EXCEPT ![q] = r]
      BY <1>3 DEF BeginChange, Begin
    <2> HIDE DEF r
    <2>3. request'[q] = r
      BY <2>2 DEF RequestTypes
    <2>4. ASSUME Owners \subseteq {u}
          PROVE  change \in {"OWNER", "reactivate"} \/ <<"owner">> \in excused'
      <3>1. CASE Owners = {}
        <4>1. member[u] # None
          BY <1>3 DEF BeginChange
        <4>2. QED
          BY <1>1, <3>1, <4>1 DEF OwnersKept, Staffed, Occupied, Settled
      <3>2. CASE Owners = {u}
        <4>1. Cardinality({u}) = 1
          BY FS_Singleton
        <4>2. ~RetainsOwner
          BY <3>2, <4>1 DEF RetainsOwner
        <4>3. member[u].role = "OWNER"
          BY <3>2 DEF Owners
        <4>4. QED
          BY <1>3, <4>2, <4>3 DEF BeginChange, Reduces
      <3>3. QED
        BY <2>4, <3>1, <3>2
    <2>5. QED
      BY <2>1, <2>3, <2>4 DEF Counted
  <1>4. ASSUME NEW a \in User, NEW u \in User, NEW action \in {"drop", "resend"}, BeginManage(q, a, u, action)
        PROVE  request'[q].op # "change"
    BY <1>4 DEF BeginManage, Begin, RequestTypes
  <1>5. ASSUME NEW u \in User, BeginAccept(q, u) PROVE request'[q].op # "change"
    BY <1>5 DEF BeginAccept, Begin, RequestTypes
  <1>6. ASSUME NEW u \in User, NEW active \in BOOLEAN, BeginUpdate(q, u, active) PROVE request'[q].op # "change"
    BY <1>6 DEF BeginUpdate, Begin, RequestTypes
  <1>7. QED
    BY <1>2, <1>3, <1>4, <1>5, <1>6, AllMove DEF Moves, Supposing, Counted

LEMMA StepOwners ==
    ASSUME TypeOK, AccountsKept, OwnersKept, [Next]_vars
    PROVE  OwnersKept'
  <1>1. CASE Next
    BY <1>1, StepStaffed, StepCounted DEF OwnersKept
  <1>2. CASE UNCHANGED vars
    BY <1>2 DEF vars, identity, company, tokens, OwnersKept, Staffed, Occupied, Settled, Adopted,
       Owners, Active, Counted
  <1>3. QED
    BY <1>1, <1>2

\* "The workspace must retain an active owner", for every set of users: a workspace with
\* members has one, unless the owners a change had counted were gone when it was written,
\* or the directory or an accepted invitation, which do not count, took the last.
THEOREM OwnersAreRetained == Spec => []OwnerRetained
  <1>1. Init => OwnersKept
    <2> SUFFICES ASSUME Init PROVE OwnersKept
      OBVIOUS
    <2>1. \A p \in Request : Counted(p) /\ request[p].op \notin {"drop", "resend"}
      BY DEF Init, Counted, Idle
    <2>2. CASE member = [u \in User |-> None]
      <3>1. Owners = {}
        BY <2>2 DEF Owners, Active
      <3>2. ~Settled
        BY <2>2, <3>1 DEF Init, Settled, Adopted
      <3>3. QED
        BY <2>1, <3>2 DEF OwnersKept, Staffed, Occupied
    <2>3. ASSUME NEW first \in User,
                 NEW others \in {None} \cup [role : {"OWNER", "MEMBER"}, active : {TRUE}],
                 member = [u \in User |-> IF u = first THEN [role |-> "OWNER", active |-> TRUE] ELSE others]
          PROVE  OwnersKept
      <3> DEFINE row == [role |-> "OWNER", active |-> TRUE]
      <3>1. row \in [role : Role, active : BOOLEAN] /\ row.active /\ row.role = "OWNER"
        BY DEF Role
      <3>2. row # None
        BY <3>1, AccountAssumption
      <3>3. member[first] = row
        BY <2>3
      <3> HIDE DEF row
      <3>4. first \in Owners
        BY <3>1, <3>2, <3>3 DEF Owners, Active
      <3>5. QED
        BY <2>1, <3>4 DEF OwnersKept, Staffed
    <2>4. QED
      BY <2>2, <2>3 DEF Init
  <1>2. TypeOK /\ AccountsKept /\ OwnersKept /\ [Next]_vars => OwnersKept'
    BY StepOwners
  <1>3. OwnersKept => OwnerRetained
    BY DEF OwnersKept, Staffed, Occupied, Settled, OwnerRetained
  <1>4. QED
    BY <1>1, <1>2, <1>3, TypeCorrect, PTL DEF Spec

-----------------------------------------------------------------------------
(* Sessions.                                                               *)

\* What ResetEndsSessions says of one session.
Accounted(i) ==
  \/ session[i].password \in {None, password[session[i].user]}
  \/ <<"overtaken", i>> \in excused
  \/ <<"unrevoked", session[i].user>> \in excused
  \/ \E p \in Request : request[p].op = "revoke" /\ request[p].user = session[i].user

\* A session that goes on, of a user whose password is not changed by this step.
LEMMA SessionGoesOn ==
    ASSUME TypeOK, Next, NEW i \in Live, Accounted(i), i \in Live',
           session'[i].user = session[i].user, session'[i].password = session[i].password,
           \/ password'[session[i].user] = password[session[i].user]
           \/ password[session[i].user] = None
    PROVE  Accounted(i)'
  <1> USE DEF TypeOK
  <1> DEFINE u == session[i].user
  <1>1. excused \subseteq excused'
    BY ExcusesStay
  <1>2. CASE session[i].password \in {None, password[u]}
    BY <1>2 DEF Accounted
  <1>3. CASE <<"overtaken", i>> \in excused \/ <<"unrevoked", u>> \in excused
    BY <1>1, <1>3 DEF Accounted
  <1>4. ASSUME NEW p \in Request, request[p].op = "revoke", request[p].user = u
        PROVE  Accounted(i)'
    <2>1. CASE request'[p] = request[p]
      BY <1>4, <2>1 DEF Accounted
    <2>2. CASE RevokeAllSessions(p)
      <3>1. session' = Revoked(u) /\ i \in DOMAIN session
        BY <1>4, <2>2 DEF RevokeAllSessions, Live
      <3>2. ~session'[i].live
        BY <3>1, RevokedTypes
      <3>3. QED
        BY <3>2 DEF Live
    <2>3. CASE Abandon(p)
      BY <1>4, <2>3 DEF Abandon, Accounted
    <2>4. QED
      BY <1>4, <2>1, <2>2, <2>3, AllMove DEF Moves
  <1>5. QED
    BY <1>2, <1>3, <1>4 DEF Accounted

\* Only a reset replaces a password by another.
LEMMA PasswordsReplaced ==
    ASSUME TypeOK, Next, NEW u \in User,
           password'[u] # password[u], password[u] # None
    PROVE  \E p \in Request : /\ ConfirmReset(p)
                              /\ request'[p] = [op |-> "revoke", user |-> u, of |-> "reset"]
  <1> USE DEF TypeOK
  <1>1. ASSUME NEW p \in Request, NEW v \in User, SignUp(p, v) PROVE FALSE
    BY <1>1 DEF SignUp, IdentityTypes
  <1>2. ASSUME NEW p \in Request, ConfirmReset(p)
        PROVE  request'[p] = [op |-> "revoke", user |-> u, of |-> "reset"]
    <2> DEFINE k == request[p].token
    <2>1. StillThere(k) /\ k.user = u
      BY <1>2 DEF ConfirmReset, IdentityTypes
    <2>2. Continue(p, [op |-> "revoke", user |-> k.user, of |-> "reset"])
      BY <1>2, <2>1 DEF ConfirmReset
    <2>3. QED
      BY <2>1, <2>2 DEF Continue, RequestTypes
  <1>3. ASSUME NEW p \in Request, Accept(p) PROVE FALSE
    BY <1>3 DEF Accept, IdentityTypes, identity
  <1>4. ASSUME NEW p \in Request, Change(p) \/ UpdateUser(p) PROVE FALSE
    BY <1>4 DEF Change, UpdateUser, SetActive, identity
  <1>5. ASSUME NEW p \in Request, Identify(p) PROVE FALSE
    BY <1>5 DEF Identify, Jit, IdentityTypes, identity
  <1>6. ASSUME NEW v \in User, NEW active \in BOOLEAN, Provision(v, active) PROVE FALSE
    BY <1>6 DEF Provision, IdentityTypes
  <1>7. ASSUME NEW v \in User, Deprovision(v) PROVE FALSE
    BY <1>7 DEF Deprovision, SetActive
  <1>8. People
    BY Writers, SessionsOnly, TokensOnly, CompanyOnly DEF tables, identity
  <1>9. QED
    BY <1>1, <1>2, <1>3, <1>4, <1>5, <1>6, <1>7, <1>8 DEF People

\* Sessions are appended by one step and only revoked by the others.
Revokes ==
  \A i \in DOMAIN session' :
    /\ i \in DOMAIN session
    /\ session'[i].user = session[i].user /\ session'[i].password = session[i].password
    /\ session'[i].live => session[i].live

LEMMA SessionsRevoked ==
    ASSUME TypeOK, Next
    PROVE  Revokes \/ \E p \in Request : OpenSession(p)
  <1> USE DEF TypeOK
  <1>1. ASSUME NEW u, session' = Revoked(u) PROVE Revokes
    <2>1. /\ DOMAIN Revoked(u) = DOMAIN session
          /\ \A i \in DOMAIN session :
               /\ Revoked(u)[i].user = session[i].user
               /\ Revoked(u)[i].password = session[i].password
               /\ Revoked(u)[i].live => session[i].live
      BY RevokedTypes
    <2>2. QED
      BY <1>1, <2>1 DEF Revokes
  <1>2. ASSUME UNCHANGED session PROVE Revokes
    BY <1>2 DEF Revokes
  <1>3. ASSUME NEW p \in Request, NEW u \in User, SignUp(p, u) PROVE Revokes
    BY <1>2, <1>3 DEF SignUp
  <1>4. ASSUME NEW p \in Request, ConfirmReset(p) \/ Accept(p) \/ Identify(p) PROVE Revokes
    BY <1>2, <1>4 DEF ConfirmReset, Accept, Identify
  <1>5. ASSUME NEW p \in Request, Change(p) PROVE Revokes
    BY <1>1, <1>2, <1>5 DEF Change
  <1>6. ASSUME NEW p \in Request, UpdateUser(p) PROVE Revokes
    BY <1>1, <1>2, <1>6 DEF UpdateUser, SetActive
  <1>7. ASSUME NEW u \in User, NEW active \in BOOLEAN, Provision(u, active) PROVE Revokes
    BY <1>2, <1>7 DEF Provision
  <1>8. ASSUME NEW u \in User, Deprovision(u) PROVE Revokes
    BY <1>1, <1>2, <1>8 DEF Deprovision, SetActive
  <1>9. CASE People
    BY <1>3, <1>4, <1>5, <1>6, <1>7, <1>8, <1>9 DEF People
  <1>10. ASSUME NEW p \in Request, RevokeAllSessions(p) \/ Abandon(p) PROVE Revokes
    BY <1>1, <1>2, <1>10 DEF RevokeAllSessions, Abandon
  <1>11. ASSUME NEW i \in DOMAIN session, Logout(i) PROVE Revokes
    <2> DEFINE row == [session[i] EXCEPT !.live = FALSE]
    <2>1. session' = [session EXCEPT ![i] = row]
      BY <1>11 DEF Logout
    <2>2. session[i] \in [user : User, password : Password, live : BOOLEAN]
      <3> DEFINE S == [user : User, password : Password, live : BOOLEAN]
      <3>1. session \in Seq(S)
        BY DEF SessionTypes
      <3> HIDE DEF S
      <3>2. session[i] \in S
        BY <1>11, <3>1
      <3>3. QED
        BY <3>2 DEF S
    <2>3. row.user = session[i].user /\ row.password = session[i].password /\ row.live = FALSE
      BY <2>2
    <2> HIDE DEF row
    <2>4. QED
      BY <2>1, <2>3 DEF Revokes
  <1>12. CASE Sessions
    BY <1>10, <1>11, <1>12 DEF Sessions
  <1>13. QED
    BY <1>2, <1>9, <1>12, Writers, TokensOnly, CompanyOnly DEF tables

LEMMA StepSessions ==
    ASSUME TypeOK, ResetEndsSessions, [Next]_vars
    PROVE  ResetEndsSessions'
  <1> USE DEF TypeOK
  <1>1. CASE UNCHANGED vars
    BY <1>1 DEF vars, identity, ResetEndsSessions, Live
  <1> SUFFICES ASSUME Next, NEW i \in Live' PROVE Accounted(i)'
    BY <1>1 DEF ResetEndsSessions, Accounted
  <1>2. \A j \in Live : Accounted(j)
    BY DEF ResetEndsSessions, Accounted
  <1>3. \A j \in DOMAIN session : session[j].user \in User
    <2> DEFINE S == [user : User, password : Password, live : BOOLEAN]
    <2>1. session \in Seq(S)
      BY DEF SessionTypes
    <2>2. \A j \in DOMAIN session : session[j] \in S
      <3> HIDE DEF S
      <3>1. QED
        BY <2>1
    <2>3. QED
      BY <2>2
  <1>4. ASSUME i \in Live, session'[i].user = session[i].user, session'[i].password = session[i].password
        PROVE  Accounted(i)'
    <2> DEFINE u == session[i].user
    <2>1. u \in User
      BY <1>3, <1>4 DEF Live
    <2>2. CASE password'[u] = password[u] \/ password[u] = None
      BY <1>2, <1>4, <2>2, SessionGoesOn
    <2>3. CASE password'[u] # password[u] /\ password[u] # None
      <3>1. PICK p \in Request : request'[p] = [op |-> "revoke", user |-> u, of |-> "reset"]
        BY <2>1, <2>3, PasswordsReplaced
      <3>2. request'[p].op = "revoke" /\ request'[p].user = session'[i].user
        BY <1>4, <3>1
      <3>3. QED
        BY <3>2 DEF Accounted
    <2>4. QED
      BY <2>2, <2>3
  <1>5. CASE Revokes
    BY <1>4, <1>5 DEF Revokes, Live
  <1>6. ASSUME NEW p \in Request, OpenSession(p) PROVE Accounted(i)'
    <2> DEFINE r == request[p]
               row == [user |-> r.user, password |-> r.password, live |-> TRUE]
    <2>1. session' = Append(session, row) /\ UNCHANGED password
      BY <1>6 DEF OpenSession, identity
    <2>2. session \in Seq([user : User, password : Password, live : BOOLEAN])
          /\ Len(session) \in Nat /\ DOMAIN session = 1 .. Len(session)
      BY DEF SessionTypes
    <2>3. i \in 1 .. Len(session) + 1 /\ session'[i].live
      <3> HIDE DEF row
      <3>1. QED
        BY <2>1, <2>2 DEF Live
    <2>4. CASE i = Len(session) + 1
      <3>1. session'[i] = row
        <4> HIDE DEF row
        <4>1. QED
          BY <2>1, <2>2, <2>4
      <3>2. session'[i].user = r.user /\ session'[i].password = r.password
        BY <3>1
      <3>3. r.password \in {None, password[r.user]} \/ <<"overtaken", i>> \in excused'
        BY <1>6, <2>4 DEF OpenSession
      <3>4. QED
        BY <2>1, <3>2, <3>3 DEF Accounted
    <2>5. CASE i # Len(session) + 1
      <3>1. i \in 1 .. Len(session)
        BY <2>2, <2>3, <2>5
      <3>2. session'[i] = session[i]
        <4> HIDE DEF row
        <4>1. QED
          BY <2>1, <2>2, <3>1
      <3>3. QED
        BY <1>4, <2>2, <2>3, <3>1, <3>2 DEF Live
    <2>6. QED
      BY <2>4, <2>5
  <1>7. QED
    BY <1>5, <1>6, SessionsRevoked

\* A changed password ends the sessions of the old one, for any number of handlers: what
\* is left was opened by a login or an accepted invitation that had checked the password
\* before the reset and came to its last statement after it, or waits for the second
\* statement of the reset, or that statement was never reached.
THEOREM ResetsEndSessions == Spec => []ResetEndsSessions
  <1>1. Init => ResetEndsSessions
    BY DEF Init, ResetEndsSessions, Live
  <1>2. TypeOK /\ ResetEndsSessions /\ [Next]_vars => ResetEndsSessions'
    BY StepSessions
  <1>3. QED
    BY <1>1, <1>2, TypeCorrect, PTL DEF Spec
=============================================================================
