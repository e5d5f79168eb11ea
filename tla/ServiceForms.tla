---------------------------- MODULE ServiceForms ----------------------------
(***************************************************************************)
(* The form of a request type: its draft, the versions published from it,  *)
(* the files uploaded for it, and the requests submitted through it.       *)
(***************************************************************************)
EXTENDS Handlers

CONSTANTS Upload  \* ServiceRequestUpload rows, of one customer

\* What the properties tell apart in a schema: it takes files; it asks for consent.
Schema == [attach : BOOLEAN, consent : BOOLEAN]

VARIABLES
  requestType,  \* ServiceRequestType: [draft, currentVersion, archived]
  versions,     \* ServiceRequestTypeVersion, in the order of their numbers
  upload,       \* [stored, used, expired]
  submitted     \* ServiceRequest, in order of creation

formsVars == <<requestType, versions, upload, submitted>>

FormsInit ==
  /\ requestType \in [draft : Schema, currentVersion : {0}, archived : {FALSE}]
  /\ versions = <<>>
  /\ upload = [f \in Upload |-> [stored |-> FALSE, used |-> FALSE, expired |-> FALSE]]
  /\ submitted = <<>>

\* The form is published; published or archived types are offered accordingly.
Offered == versions # <<>> /\ ~requestType.archived

---------------------------------------------------------------------------
(* The administrator.  An edit is guarded by nothing.  Without a schema in *)
(* its body it writes back the draft it has read, which is again some      *)
(* schema.                                                                 *)

\* The edit reaches what is published.
EditInPlace ==
  /\ InOneStep
  /\ \E draft \in Schema, archived \in BOOLEAN :
       /\ requestType' = [requestType EXCEPT !.draft = draft, !.archived = archived]
       /\ versions' = [n \in DOMAIN versions |-> IF n = Len(versions) THEN draft ELSE versions[n]]
  /\ UNCHANGED <<upload, submitted>>

EditDraft ==
  /\ InOneStep
  /\ \E draft \in Schema, archived \in BOOLEAN :
       requestType' = [requestType EXCEPT !.draft = draft, !.archived = archived]
  /\ UNCHANGED <<versions, upload, submitted>>

BeginPublish(h) ==
  /\ ~requestType.archived
  /\ Enter(h, [op |-> "publish", read |-> requestType])
  /\ UNCHANGED formsVars

\* Numbers are unique, and only the version is guarded: neither the draft nor
\* archivedAt is read again.
Unpublished(read) == requestType.currentVersion = read.currentVersion

Publish(h) ==
  /\ Busy(h, "publish") /\ Unpublished(at[h].read)
  /\ versions' = Append(versions, at[h].read.draft)
  /\ requestType' = [requestType EXCEPT !.currentVersion = at[h].read.currentVersion + 1]
  /\ Leave(h)
  /\ UNCHANGED <<upload, submitted>>

RefusePublish(h) ==
  /\ Busy(h, "publish") /\ ~Unpublished(at[h].read)
  /\ Leave(h)
  /\ UNCHANGED formsVars

---------------------------------------------------------------------------
(* The customer *)

StoreUpload(f) ==
  /\ Offered /\ InOneStep
  /\ ~upload[f].stored
  /\ upload' = [upload EXCEPT ![f].stored = TRUE]
  /\ UNCHANGED <<requestType, versions, submitted>>

\* An hour goes by.
ExpireUpload(f) ==
  /\ upload[f].stored /\ ~upload[f].expired
  /\ upload' = [upload EXCEPT ![f].expired = TRUE]
  /\ UNCHANGED <<requestType, versions, submitted, handlers>>

\* validatePortalSubmission: fields the schema does not have are refused, and
\* consent that it asks for has to be given.
Valid(schema, files, consents) ==
  /\ files # {} => schema.attach
  /\ schema.consent => consents

\* The latest version is read before the transaction and used throughout.
BeginSubmit(h) ==
  /\ Offered
  /\ \E files \in SUBSET Upload, consents \in BOOLEAN :
       /\ Valid(versions[Len(versions)], files, consents)
       /\ Enter(h, [op |-> "submit", version |-> Len(versions),
                    form |-> versions[Len(versions)], files |-> files,
                    consented |-> consents /\ versions[Len(versions)].consent])
  /\ UNCHANGED formsVars

FindUploads(h) ==
  /\ Busy(h, "submit")
  /\ \A f \in at[h].files : upload[f].stored /\ ~upload[f].used /\ ~upload[f].expired
  /\ Proceed(h, [at[h] EXCEPT !.op = "claim"])
  /\ UNCHANGED formsVars

\* The claim counts the rows that nobody has used in between.
Unclaimed(files) == \A f \in files : ~upload[f].used

Submit(h) ==
  /\ Busy(h, "claim") /\ Unclaimed(at[h].files)
  /\ upload' = [f \in Upload |-> [upload[f] EXCEPT !.used = @ \/ f \in at[h].files]]
  /\ submitted' = Append(submitted, [version |-> at[h].version, form |-> at[h].form,
                                     uploads |-> at[h].files, consented |-> at[h].consented])
  /\ Leave(h)
  /\ UNCHANGED <<requestType, versions>>

RefuseSubmit(h) ==
  /\ \/ Busy(h, "submit") /\ \E f \in at[h].files :
          ~upload[f].stored \/ upload[f].used \/ upload[f].expired
     \/ Busy(h, "claim") /\ ~Unclaimed(at[h].files)
  /\ Leave(h)
  /\ UNCHANGED formsVars

FormsNext ==
  \/ EditDraft
  \/ \E f \in Upload : StoreUpload(f) \/ ExpireUpload(f)
  \/ \E h \in Handler :
       \/ BeginPublish(h) \/ Publish(h) \/ RefusePublish(h)
       \/ BeginSubmit(h) \/ FindUploads(h) \/ Submit(h) \/ RefuseSubmit(h)

---------------------------------------------------------------------------
(* A file goes into at most one request, also when two submissions find it *)
(* free, and a file counts as used exactly when it did.                    *)
UploadsOnce ==
  \A f \in Upload :
    Cardinality({i \in DOMAIN submitted : f \in submitted[i].uploads})
      = IF upload[f].used THEN 1 ELSE 0

(* A request can be read by the form it was submitted through, whatever    *)
(* was edited, published or archived since the form was shown: the version *)
(* it names has the content that was rendered, the consent which that      *)
(* version asks for was given, and it has no file the version has no field *)
(* for.                                                                    *)
RequestsHonourTheirForm ==
  /\ requestType.currentVersion = Len(versions)
  /\ \A i \in DOMAIN submitted : LET r == submitted[i] IN
       /\ r.version \in DOMAIN versions
       /\ versions[r.version] = r.form
       /\ r.consented = r.form.consent
       /\ r.uploads # {} => r.form.attach

(* An upload belongs to one request, and a request has what its form       *)
(* asked for.                                                              *)
FormsHold == UploadsOnce /\ RequestsHonourTheirForm
=============================================================================
