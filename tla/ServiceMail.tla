---------------------------- MODULE ServiceMail ----------------------------
(***************************************************************************)
(* The conversation of a service project with its customers: mail that an  *)
(* adapter delivers, at least once, to the project's mailbox; comments in  *)
(* the portal; replies of agents; the mail that goes out; and who of the   *)
(* customers may see which request while they are invited, merged and      *)
(* deactivated.  One project, one mailbox, one customer organization that  *)
(* the project has enabled.                                                *)
(***************************************************************************)
EXTENDS Handlers

CONSTANTS
  Customer,
  Mail,           \* messages by their Message-ID
  ReplyKey,       \* idempotency keys of agents
  MaxServiceRequests

VARIABLES
  customer,   \* PortalCustomer: "invited", "verified", "deactivated"
  direct,     \* customers with an enabled PortalProjectCustomer
  member,     \* active members of the organization
  suppressed, \* customers in MailSuppression
  mailbox,    \* ServiceMailbox: [enabled, form]
  posted,     \* what customers have written: a Letter, or None
  inbound,    \* InboundMessage, or None
  serviceRequest, \* ServiceRequest: [reporter, sharing, ofOrganization, participants, shown, origin]
  comments,   \* PortalComment of each request: [id, author]
  outbox,     \* EmailDelivery, PORTAL_CONVERSATION: <<customer, request>>
  returned    \* those of the outbox that a bounce has set DEAD

people   == <<customer, direct, member, suppressed, returned>>
letters  == <<mailbox, posted, inbound>>
talk     == <<serviceRequest, comments, outbox>>
mailVars == <<people, letters, talk>>

\* What a letter answers, if anything: another letter, or our mail about a request.
NoThread == [kind |-> "none"]
Thread == {NoThread} \cup [kind : {"mail"}, of : Mail] \cup [kind : {"sent"}, of : Nat]

Letter == [sender : Customer, answers : Thread, safe : BOOLEAN]
InboundMessage == [status : {"ACCEPTED", "QUARANTINED"}, request : Nat \cup {None}]

\* A comment is told from the others by the message or the key that it came with, if any.
ASSUME MailAssumption ==
  /\ Mail \cap ReplyKey = {}
  /\ None \notin Mail \cup ReplyKey \cup Nat \cup Letter \cup InboundMessage

Sharing == {"PRIVATE", "PARTICIPANTS", "ORGANIZATION"}
FormState == {"open", "consent", "unavailable"}  \* of the mailbox's request type

MailInit ==
  /\ customer = [c \in Customer |-> "verified"]
  /\ direct = Customer /\ member = {}
  /\ suppressed = {} /\ returned = {}
  /\ mailbox = [enabled |-> TRUE, form |-> "open"]
  /\ posted = [m \in Mail |-> None]
  /\ inbound = [m \in Mail |-> None]
  /\ serviceRequest = <<>> /\ comments = <<>> /\ outbox = {}

---------------------------------------------------------------------------
(* Who may see what: mailCustomerContext, getPortalContext,                *)
(* portalProjectWhere, portalRequestWhere.                                 *)

Known(c) == customer[c] = "verified"
InProject(c) == c \in direct \cup member

MayRead(c, request) ==
  /\ InProject(c) /\ request.shown
  /\ \/ request.reporter = c
     \/ request.sharing # "PRIVATE" /\ c \in request.participants
     \/ request.sharing = "ORGANIZATION" /\ request.ofOrganization /\ c \in member

MaySee(c, r) == MayRead(c, serviceRequest[r])

\* queueCustomerEmail: everybody of the request who may see it now.
Notified(r) ==
  {c \in {serviceRequest'[r].reporter} \cup serviceRequest'[r].participants :
     mailbox.enabled /\ Known(c) /\ MayRead(c, serviceRequest'[r]) /\ c \notin suppressed}

Notify(r) == outbox' = outbox \cup (Notified(r) \X {r})

Say(r, id, author) ==
  comments' = [comments EXCEPT ![r] = Append(@, [id |-> id, author |-> author])]

Open(request) ==
  /\ Len(serviceRequest) < MaxServiceRequests
  /\ serviceRequest' = Append(serviceRequest, request)
  /\ comments' = Append(comments, <<>>)

---------------------------------------------------------------------------
(* Mail comes in.                                                          *)

\* External: a customer writes a message, possibly in answer to another one or to
\* one of ours; the adapter hands it over until it is answered, or more often.
Threads == {NoThread} \cup [kind : {"mail"}, of : {m \in Mail : posted[m] # None}]
                      \cup [kind : {"sent"}, of : DOMAIN serviceRequest]

Written(m) ==
  IF posted[m] # None THEN posted' = posted
  ELSE \E letter \in [sender : Customer, answers : Threads, safe : BOOLEAN] :
         posted' = [posted EXCEPT ![m] = letter]

\* The mailbox, with its form, is read before its row is locked.
BeginDelivery(h, m) ==
  /\ mailbox.enabled
  /\ Written(m)
  /\ Enter(h, [op |-> "mail", mail |-> m, form |-> mailbox.form])
  /\ UNCHANGED <<people, mailbox, inbound, talk>>

MailboxFree == \A h \in Handler : ~Busy(h, "mail locked")

\* Under the lock a message that is recorded is answered with its record.
LockMailbox(h) ==
  /\ Busy(h, "mail") /\ MailboxFree
  /\ inbound[at[h].mail] = None
  /\ Proceed(h, [op |-> "mail locked", mail |-> at[h].mail, form |-> at[h].form,
                 known |-> Known(posted[at[h].mail].sender)])
  /\ UNCHANGED mailVars

AnswerDuplicate(h) ==
  /\ Busy(h, "mail") /\ MailboxFree
  /\ inbound[at[h].mail] # None
  /\ Leave(h)
  /\ UNCHANGED mailVars

\* What the message answers: an accepted message, or mail that we sent to this customer.
Answered(m) == LET thread == posted[m].answers IN
  IF thread.kind = "mail" /\ inbound[thread.of] # None THEN inbound[thread.of].request
  ELSE IF thread.kind = "sent" /\ <<posted[m].sender, thread.of>> \in outbox THEN thread.of
  ELSE None

Continued(m) ==
  IF Answered(m) # None /\ MaySee(posted[m].sender, Answered(m)) THEN Answered(m) ELSE None

Refused(m, known, form) ==
  \/ ~known
  \/ posted[m].answers # NoThread /\ Continued(m) = None
  \/ ~posted[m].safe
  \/ Continued(m) = None /\ (form # "open" \/ ~InProject(posted[m].sender))

\* Not recorded for what was accepted.
RecordRefusal(m, status, r) ==
  inbound' = [inbound EXCEPT ![m] = IF status = "QUARANTINED" THEN [status |-> status, request |-> r] ELSE @]

\* The Message-ID is unique in the mailbox.
Record(m, status, r) ==
  /\ inbound[m] = None
  /\ inbound' = [inbound EXCEPT ![m] = [status |-> status, request |-> r]]

Quarantine(h) == LET m == at[h].mail IN
  /\ Busy(h, "mail locked")
  /\ Refused(m, at[h].known, at[h].form)
  /\ Record(m, "QUARANTINED", None)
  /\ Leave(h)
  /\ UNCHANGED <<people, mailbox, posted, talk>>

AcceptReply(h) == LET m == at[h].mail IN
  /\ Busy(h, "mail locked")
  /\ ~Refused(m, at[h].known, at[h].form) /\ Continued(m) # None
  /\ Say(Continued(m), m, posted[m].sender)
  /\ Record(m, "ACCEPTED", Continued(m))
  /\ UNCHANGED serviceRequest
  /\ Notify(Continued(m))
  /\ Leave(h)
  /\ UNCHANGED <<people, mailbox, posted>>

AcceptRequest(h) == LET m == at[h].mail IN
  /\ Busy(h, "mail locked")
  /\ ~Refused(m, at[h].known, at[h].form) /\ Continued(m) = None
  /\ Open([reporter |-> posted[m].sender, sharing |-> "PRIVATE", ofOrganization |-> FALSE,
           participants |-> {}, shown |-> TRUE, origin |-> m])
  /\ Record(m, "ACCEPTED", Len(serviceRequest) + 1)
  /\ Notify(Len(serviceRequest) + 1)
  /\ Leave(h)
  /\ UNCHANGED <<people, mailbox, posted>>

\* The transaction ends with an error; the adapter will try again.
FailDelivery(h) ==
  /\ Busy(h, "mail") \/ Busy(h, "mail locked")
  /\ Leave(h)
  /\ UNCHANGED mailVars

---------------------------------------------------------------------------
(* The portal and the agents *)

SubmitPrivately(c) ==
  /\ InOneStep
  /\ Known(c) /\ InProject(c)
  /\ \E sharing \in Sharing, others \in SUBSET {d \in Customer : Known(d) /\ InProject(d) /\ d # c} :
       /\ sharing = "PRIVATE" => others = {}
       /\ sharing = "ORGANIZATION" => c \in member
       /\ Open([reporter |-> c, sharing |-> sharing, ofOrganization |-> sharing = "ORGANIZATION",
                participants |-> others, shown |-> TRUE, origin |-> None])
  /\ UNCHANGED <<people, letters, outbox>>

BeginComment(h, c, r) ==
  /\ Known(c) /\ MaySee(c, r)
  /\ Enter(h, [op |-> "comment", customer |-> c, request |-> r])
  /\ UNCHANGED mailVars

Comment(h) ==
  /\ Busy(h, "comment")
  /\ Say(at[h].request, None, at[h].customer)
  /\ UNCHANGED serviceRequest
  /\ Notify(at[h].request)
  /\ Leave(h)
  /\ UNCHANGED <<people, letters>>

\* An agent's reply; a retry comes with the same key.
BeginReply(h, r, k) ==
  /\ Enter(h, [op |-> "reply", request |-> r, key |-> k])
  /\ UNCHANGED mailVars

Said(r, id) == \E i \in DOMAIN comments[r] : comments[r][i].id = id

Reply(h) == LET r == at[h].request IN
  /\ Busy(h, "reply")
  /\ IF Said(r, at[h].key)
     THEN UNCHANGED talk
     ELSE /\ Say(r, at[h].key, None)
          /\ UNCHANGED serviceRequest
          /\ Notify(r)
  /\ Leave(h)
  /\ UNCHANGED <<people, letters>>

\* The reporter shares the request differently.
Share(c, r, sharing) ==
  /\ InOneStep
  /\ Known(c) /\ MaySee(c, r) /\ serviceRequest[r].reporter = c
  /\ sharing = "ORGANIZATION" => serviceRequest[r].ofOrganization /\ c \in member
  /\ serviceRequest' = [serviceRequest EXCEPT ![r].sharing = sharing]
  /\ UNCHANGED <<people, letters, comments, outbox>>

\* The issue is archived or gets a security level, or the reverse.
Hide(r) ==
  /\ InOneStep
  /\ serviceRequest' = [serviceRequest EXCEPT ![r].shown = ~@]
  /\ UNCHANGED <<people, letters, comments, outbox>>

---------------------------------------------------------------------------
(* Administration.  The mailbox's row is locked while a message is taken.  *)

ConfigureMailbox ==
  /\ InOneStep /\ MailboxFree
  /\ mailbox' \in [enabled : BOOLEAN, form : FormState]
  /\ UNCHANGED <<people, posted, inbound, talk>>

InviteCustomer(c) ==
  /\ InOneStep
  /\ customer[c] # "deactivated"
  /\ direct' = direct \cup {c}
  /\ member' \in {member, member \cup {c}}
  /\ UNCHANGED <<customer, suppressed, returned, letters, talk>>

DeactivateCustomer(c) ==
  /\ InOneStep
  /\ customer' = [customer EXCEPT ![c] = "deactivated"]
  /\ direct' = direct \ {c} /\ member' = member \ {c}
  /\ UNCHANGED <<suppressed, returned, letters, talk>>

\* Both customers are read before the transaction, with the source's memberships.
BeginMerge(h, source, target) ==
  /\ source # target
  /\ customer[source] # "deactivated" /\ customer[target] # "deactivated"
  /\ Enter(h, [op |-> "merge", source |-> source, target |-> target,
               direct |-> direct, member |-> member,
               participates |-> {r \in DOMAIN serviceRequest :
                                   source \in serviceRequest[r].participants}])
  /\ UNCHANGED mailVars

Moved(c, source, target) == IF c = source THEN target ELSE c

\* What the source was seen to have is given to the target, whatever has become of either.
Merge(h) == LET source == at[h].source  target == at[h].target IN
  /\ Busy(h, "merge")
  /\ direct' = IF source \in at[h].direct THEN direct \cup {target} ELSE direct
  /\ member' = IF source \in at[h].member THEN member \cup {target} ELSE member
  /\ serviceRequest' = [r \in DOMAIN serviceRequest |->
       [serviceRequest[r] EXCEPT
          !.reporter = Moved(@, source, target),
          !.participants = IF r \in at[h].participates THEN @ \cup {target} ELSE @]]
  /\ comments' = [r \in DOMAIN comments |-> [i \in DOMAIN comments[r] |->
       [comments[r][i] EXCEPT !.author = Moved(@, source, target)]]]
  /\ customer' = [customer EXCEPT ![source] = "deactivated"]
  /\ Leave(h)
  /\ UNCHANGED <<suppressed, returned, letters, outbox>>

\* The provider reports that a mail of ours to the customer came back: the row is set
\* DEAD whatever became of it before (DeliveryQueue has its states and the workers).
Bounce(c, r) ==
  /\ InOneStep
  /\ mailbox.enabled /\ <<c, r>> \in outbox
  /\ suppressed' = suppressed \cup {c}
  /\ returned' = returned \cup {<<c, r>>}
  /\ UNCHANGED <<customer, direct, member, letters, talk>>

MailNext ==
  \/ ConfigureMailbox
  \/ \E c \in Customer : SubmitPrivately(c) \/ InviteCustomer(c) \/ DeactivateCustomer(c)
  \/ \E r \in DOMAIN serviceRequest :
       \/ Hide(r)
       \/ \E c \in Customer : Bounce(c, r) \/ \E sharing \in Sharing : Share(c, r, sharing)
  \/ \E h \in Handler :
       \/ \E m \in Mail : BeginDelivery(h, m)
       \/ LockMailbox(h) \/ AnswerDuplicate(h) \/ Quarantine(h)
       \/ AcceptReply(h) \/ AcceptRequest(h) \/ FailDelivery(h)
       \/ \E r \in DOMAIN serviceRequest :
            \/ \E c \in Customer : BeginComment(h, c, r)
            \/ \E k \in ReplyKey : BeginReply(h, r, k)
       \/ Comment(h) \/ Reply(h)
       \/ \E source, target \in Customer : BeginMerge(h, source, target)
       \/ Merge(h)

---------------------------------------------------------------------------
Effects(id) ==
  Cardinality({r \in DOMAIN serviceRequest : serviceRequest[r].origin = id})
  + Cardinality(UNION {{r} \X {i \in DOMAIN comments[r] : comments[r][i].id = id} :
                         r \in DOMAIN comments})

(* However often the adapter hands a message over, and whatever happens to *)
(* its sender and to the request meanwhile, what its record says is what   *)
(* became of it: an accepted message is one request or one comment, of the *)
(* request that its record and the thread it answers are in; a quarantined *)
(* one has no effect and never gets one.  A reply that an agent repeats    *)
(* with the same key is one comment.                                       *)
EffectMatchesRecord ==
  /\ \A m \in Mail :
       /\ Effects(m) = IF inbound[m] # None /\ inbound[m].status = "ACCEPTED" THEN 1 ELSE 0
       /\ inbound[m] # None /\ inbound[m].status = "ACCEPTED" =>
            LET r == inbound[m].request IN
              /\ serviceRequest[r].origin = m \/ Said(r, m)
              /\ posted[m].answers.kind = "mail" => inbound[posted[m].answers.of].request = r
              /\ posted[m].answers.kind = "sent" => posted[m].answers.of = r
  /\ \A r \in DOMAIN comments, k \in ReplyKey :
       Cardinality({i \in DOMAIN comments[r] : comments[r][i].id = k}) <= 1
=============================================================================
