----------------------------- MODULE Attachments -----------------------------
(***************************************************************************)
(* The evidence files of one Assignment: the Attachment rows, the objects  *)
(* in the object storage, the server-side draft that selects some of them  *)
(* and the SubmissionVersions that bind them for good.                     *)
(*                                                                         *)
(* Every command locks the rows it reads for its whole transaction, so it  *)
(* is one step; but the storage is no part of the transaction.  Uploading  *)
(* through the API and deleting change the object first and commit after,  *)
(* and in between the process may die or the commit may fail.  With the    *)
(* TOS backend the browser writes the object itself, whenever its signed   *)
(* address is valid, unless there is an object already.                    *)
(***************************************************************************)
EXTENDS Naturals, FiniteSets

CONSTANTS
  Files,         \* ids of attachments
  Backends,      \* among "LOCAL" and "TOS"
  MaxVersions,   \* bound of the model: submissions of the Assignment
  MaxFaults      \* bound of the model: commits that do not follow their storage call

ASSUME BackendAssumption == Backends \subseteq {"LOCAL", "TOS"}
ASSUME FaultAssumption   == MaxVersions \in Nat /\ MaxFaults \in Nat

VARIABLES
  backend,     \* settings.attachment_storage_backend
  attachment,  \* the Attachment rows
  object,      \* what the storage holds under the key of each attachment
  address,     \* whether the signed upload address is valid
  infected,    \* the files whose declared content the scanner rejects
  bound,       \* the version_no each attachment is linked to, 0 if none
  assignment,  \* Assignment.status, of a journey stage
  version,     \* Submission.current_version_no
  draft,       \* SubmissionDraft.attachment_ids, NoDraft without a row
  halfDeleted, \* the files whose object was deleted without the row: history
  faults

work == <<assignment, version, draft, bound>>
attachmentVars == <<backend, attachment, object, address, infected, work, halfDeleted, faults>>

NoDraft == {"none"}

Row == [status : {"NONE", "PENDING_UPLOAD", "UPLOADED", "READY", "REJECTED", "DELETED"},
        scan : {"PENDING", "CLEAN", "INFECTED", "ERROR"}]

AttachmentTypeOK ==
  /\ backend \in Backends
  /\ attachment \in [Files -> Row]
  /\ object \in [Files -> {"NONE", "DECLARED", "OTHER"}]
  /\ address \in [Files -> {"NONE", "VALID", "EXPIRED"}]
  /\ infected \subseteq Files
  /\ bound \in [Files -> 0..MaxVersions]
  /\ assignment \in {"IN_PROGRESS", "SUBMITTED", "NEEDS_REVISION", "COMPLETED"}
  /\ version \in 0..MaxVersions
  /\ draft \in (SUBSET Files) \cup {NoDraft}
  /\ halfDeleted \subseteq Files
  /\ faults \in 0..MaxFaults

\* The learner has started the stage and handed in nothing.
AttachmentInit ==
  /\ backend \in Backends
  /\ attachment = [f \in Files |-> [status |-> "NONE", scan |-> "PENDING"]]
  /\ object = [f \in Files |-> "NONE"]
  /\ address = [f \in Files |-> "NONE"]
  /\ infected \in SUBSET Files
  /\ bound = [f \in Files |-> 0]
  /\ assignment = "IN_PROGRESS"
  /\ version = 0
  /\ draft = NoDraft
  /\ halfDeleted = {}
  /\ faults = 0

-----------------------------------------------------------------------------
(* Uploading. *)

Is(f, statuses) == attachment[f].status \in statuses

\* presign_attachment: a row for a file of a stage that is being worked on.
Presign(f) ==
  /\ Is(f, {"NONE"})
  /\ assignment \in {"IN_PROGRESS", "NEEDS_REVISION"}
  /\ attachment' = [attachment EXCEPT ![f].status = "PENDING_UPLOAD"]
  /\ address' = [address EXCEPT ![f] = "VALID"]
  /\ UNCHANGED <<backend, object, infected, work, halfDeleted, faults>>

\* The same intent again signs the address again, whatever became of the row; the trigger
\* bound_attachments_immutable refuses to touch a bound one.
PresignReplay(f) ==
  /\ ~ Is(f, {"NONE"})
  /\ bound[f] = 0
  /\ address' = [address EXCEPT ![f] = "VALID"]
  /\ UNCHANGED <<backend, attachment, object, infected, work, halfDeleted, faults>>

AddressExpires(f) ==
  /\ address[f] = "VALID"
  /\ address' = [address EXCEPT ![f] = "EXPIRED"]
  /\ UNCHANGED <<backend, attachment, object, infected, work, halfDeleted, faults>>

\* TOS: the browser puts an object.  The address fixes the declared SHA-256 as metadata and
\* forbids overwriting, but the bytes are the browser's.
DirectUpload(f, content) ==
  /\ backend = "TOS"
  /\ address[f] = "VALID"
  /\ object[f] = "NONE"
  /\ object' = [object EXCEPT ![f] = content]
  /\ UNCHANGED <<backend, attachment, address, infected, work, halfDeleted, faults>>

\* upload_attachment_content: anything else is answered or refused without effect.
TakesContent(f) == Is(f, {"PENDING_UPLOAD"})

\* LOCAL: the API checks the bytes against the declaration, stores them and commits, or
\* stores them only.
UploadContent(f, committed) ==
  /\ backend = "LOCAL"
  /\ TakesContent(f)
  /\ object' = [object EXCEPT ![f] = "DECLARED"]
  /\ IF committed
     THEN attachment' = [attachment EXCEPT ![f].status = "UPLOADED"] /\ UNCHANGED faults
     ELSE faults < MaxFaults /\ faults' = faults + 1 /\ UNCHANGED attachment
  /\ UNCHANGED <<backend, address, infected, work, halfDeleted>>

\* Mutant: the metadata of the object are trusted.
StoredAsClaimed(f) == object[f] # "NONE"

\* complete_attachment: size, type and digest of the bytes that are stored.
StoredAsDeclared(f) == object[f] = "DECLARED"

\* complete_attachment: the scanner decides, or fails and leaves the file in quarantine.
CompleteIntent(f, scanned) ==
  /\ Is(f, {"PENDING_UPLOAD", "UPLOADED"})
  /\ Is(f, {"PENDING_UPLOAD"}) => address[f] = "VALID"
  /\ StoredAsDeclared(f)
  /\ attachment' = [attachment EXCEPT ![f] =
       IF ~ scanned THEN [status |-> "UPLOADED", scan |-> "ERROR"]
       ELSE IF f \in infected THEN [status |-> "REJECTED", scan |-> "INFECTED"]
       ELSE [status |-> "READY", scan |-> "CLEAN"]]
  /\ UNCHANGED <<backend, object, address, infected, work, halfDeleted, faults>>

\* Mutant: a draft protects its files, a submission does not.
DeletableUnlessDrafted(f) == draft = NoDraft \/ f \notin draft

\* delete_attachment: only the history of submissions protects a file, a draft does not.
Deletable(f) == bound[f] = 0

\* delete_attachment: the object goes first, the row with the commit.
DeleteAttachment(f, committed) ==
  /\ ~ Is(f, {"NONE"})
  /\ Deletable(f)
  /\ object' = [object EXCEPT ![f] = "NONE"]
  /\ IF committed
     THEN /\ attachment' = [attachment EXCEPT ![f].status = "DELETED"]
          /\ UNCHANGED <<halfDeleted, faults>>
     ELSE /\ faults < MaxFaults
          /\ faults' = faults + 1
          /\ halfDeleted' = halfDeleted \cup {f}
          /\ UNCHANGED attachment
  /\ UNCHANGED <<backend, address, infected, work>>

-----------------------------------------------------------------------------
(* Using the files. *)

\* lock_ready_attachments
LockReadyAttachments(files) == \A f \in files : Is(f, {"READY"}) /\ bound[f] = 0

\* save_submission_draft
SaveDraft(files) ==
  /\ assignment = "IN_PROGRESS"
  /\ LockReadyAttachments(files)
  /\ draft' = files
  /\ UNCHANGED <<backend, attachment, object, address, infected, assignment, version, bound,
                 halfDeleted, faults>>

\* submit_assignment
Submit(files) ==
  /\ assignment = "IN_PROGRESS"
  /\ version < MaxVersions
  /\ LockReadyAttachments(files)
  /\ version' = version + 1
  /\ bound' = [f \in Files |-> IF f \in files THEN version + 1 ELSE bound[f]]
  /\ draft' = NoDraft
  /\ assignment' = "SUBMITTED"
  /\ UNCHANGED <<backend, attachment, object, address, infected, halfDeleted, faults>>

\* finalize_review, of the review of the version submitted last.
FinalizeReview(status) ==
  /\ assignment = "SUBMITTED"
  /\ assignment' = status
  /\ UNCHANGED <<backend, attachment, object, address, infected, version, draft, bound,
                 halfDeleted, faults>>

\* The files of a version.
FilesOf(v) == {f \in Files : bound[f] = v}

\* start_evidence_revision: the draft begins as a copy of the version submitted last.
StartEvidenceRevision ==
  /\ assignment \in {"COMPLETED", "NEEDS_REVISION"}
  /\ version > 0
  /\ draft # NoDraft => assignment = "NEEDS_REVISION"
  /\ draft' = IF draft = NoDraft THEN FilesOf(version) ELSE draft
  /\ assignment' = "IN_PROGRESS"
  /\ UNCHANGED <<backend, attachment, object, address, infected, version, bound, halfDeleted, faults>>

\* cancel_evidence_revision: back to a status with a verdict.
CancelEvidenceRevision(status) ==
  /\ assignment = "IN_PROGRESS"
  /\ version > 0
  /\ draft' = NoDraft
  /\ assignment' = status
  /\ UNCHANGED <<backend, attachment, object, address, infected, version, bound, halfDeleted, faults>>

Verdicts == {"COMPLETED", "NEEDS_REVISION"}

AttachmentNext ==
  \/ \E f \in Files :
       \/ Presign(f)
       \/ PresignReplay(f)
       \/ AddressExpires(f)
       \/ \E content \in {"DECLARED", "OTHER"} : DirectUpload(f, content)
       \/ \E committed \in BOOLEAN : UploadContent(f, committed) \/ DeleteAttachment(f, committed)
       \/ \E scanned \in BOOLEAN : CompleteIntent(f, scanned)
  \/ \E files \in SUBSET Files : SaveDraft(files) \/ Submit(files)
  \/ \E status \in Verdicts : FinalizeReview(status) \/ CancelEvidenceRevision(status)
  \/ StartEvidenceRevision

AttachmentSpec == AttachmentInit /\ [][AttachmentNext]_attachmentVars

-----------------------------------------------------------------------------
(* Properties. *)

\* What a reviewer finds behind a submitted version is, byte for byte, what the scanner
\* passed, whoever wrote the object and in whatever order uploads, retries, expired
\* addresses and deletions came; but for a deletion that stopped half-way.  (All rows are
\* well typed.)
EvidenceWasScanned ==
  /\ AttachmentTypeOK
  /\ \A f \in Files :
       Is(f, {"READY"}) =>
         f \notin infected /\ attachment[f].scan = "CLEAN" /\ (object[f] = "DECLARED" \/ f \in halfDeleted)

\* A file that is bound to a version stays what it is: the link never moves, the row never
\* changes again and its object is never deleted or replaced.
BoundForEver ==
  [][\A f \in Files : bound[f] # 0 =>
       /\ bound'[f] = bound[f]
       /\ attachment'[f] = attachment[f]
       /\ object[f] # "NONE" => object'[f] = object[f]]_attachmentVars
=============================================================================
