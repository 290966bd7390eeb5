------------------------- MODULE LearnerPages_proofs -------------------------
(***************************************************************************)
(* Proofs about the pages of a learner, for any number of files, videos,    *)
(* browser tabs, requests, devices and texts: the evidence of a submission, *)
(* the course of the academy and its cover, the self-check of a document,   *)
(* and the text of an answer.                                               *)
(***************************************************************************)
EXTENDS Academy, Attachments, AiSelfCheck, Workspace, SequenceTheorems, TLAPS

-----------------------------------------------------------------------------
(* Evidence. *)

\* What a version binds was READY when it was bound.
BoundIsReady == \A f \in Files : bound[f] # 0 => Is(f, {"READY"})

\* The inductive invariant of the attachments.
EvidenceInv == EvidenceWasScanned /\ BoundIsReady

\* The first attachment has not been presigned: no row, no object, no link.
LEMMA EvidenceInitially == AttachmentInit => EvidenceInv
<1>1. "READY" # "NONE" /\ 0 \in 0..MaxVersions /\ 0 \in 0..MaxFaults
  BY FaultAssumption
<1>2. ASSUME AttachmentInit PROVE AttachmentTypeOK
  <2>1. attachment \in [Files -> Row] /\ bound \in [Files -> 0..MaxVersions]
    BY <1>1, <1>2 DEF AttachmentInit, Row
  <2> QED
    BY <1>1, <1>2, <2>1 DEF AttachmentInit, AttachmentTypeOK
<1> QED
  BY <1>1, <1>2 DEF AttachmentInit, EvidenceInv, EvidenceWasScanned, BoundIsReady, Is

\* Uploading through the API or the browser, the scan, and deletion keep the rows well
\* typed.
LEMMA EvidenceStaysTyped ==
  ASSUME AttachmentTypeOK, [AttachmentNext]_attachmentVars
  PROVE  AttachmentTypeOK'
<1>1. ASSUME NEW f \in Files, Presign(f) PROVE AttachmentTypeOK'
  BY <1>1 DEF Presign, AttachmentTypeOK, Row, work
<1>2. ASSUME NEW f \in Files, PresignReplay(f) \/ AddressExpires(f) PROVE AttachmentTypeOK'
  BY <1>2 DEF PresignReplay, AddressExpires, AttachmentTypeOK, work
<1>3. ASSUME NEW f \in Files, NEW content \in {"DECLARED", "OTHER"}, DirectUpload(f, content)
      PROVE  AttachmentTypeOK'
  BY <1>3 DEF DirectUpload, AttachmentTypeOK, work
<1>4. ASSUME NEW f \in Files, NEW committed \in BOOLEAN,
             UploadContent(f, committed) \/ DeleteAttachment(f, committed)
      PROVE  AttachmentTypeOK'
  <2>1. /\ attachment' \in [Files -> Row]
        /\ object' \in [Files -> {"NONE", "DECLARED", "OTHER"}]
        /\ halfDeleted' \subseteq Files
    BY <1>4 DEF UploadContent, DeleteAttachment, AttachmentTypeOK, Row
  <2>2. faults' \in 0..MaxFaults
    BY <1>4, FaultAssumption DEF UploadContent, DeleteAttachment, AttachmentTypeOK
  <2> QED
    BY <1>4, <2>1, <2>2 DEF UploadContent, DeleteAttachment, AttachmentTypeOK, work
<1>5. ASSUME NEW f \in Files, NEW scanned \in BOOLEAN, CompleteIntent(f, scanned)
      PROVE  AttachmentTypeOK'
  BY <1>5 DEF CompleteIntent, AttachmentTypeOK, Row, work
<1>6. ASSUME NEW files \in SUBSET Files, SaveDraft(files) \/ Submit(files)
      PROVE  AttachmentTypeOK'
  BY <1>6, FaultAssumption DEF SaveDraft, Submit, AttachmentTypeOK
<1>7. ASSUME NEW status \in Verdicts, FinalizeReview(status) \/ CancelEvidenceRevision(status)
      PROVE  AttachmentTypeOK'
  BY <1>7 DEF FinalizeReview, CancelEvidenceRevision, AttachmentTypeOK, Verdicts
<1>8. ASSUME StartEvidenceRevision PROVE AttachmentTypeOK'
  BY <1>8 DEF StartEvidenceRevision, AttachmentTypeOK, FilesOf
<1>9. ASSUME UNCHANGED attachmentVars PROVE AttachmentTypeOK'
  BY <1>9 DEF attachmentVars, work, AttachmentTypeOK
<1> QED
  BY <1>1, <1>2, <1>3, <1>4, <1>5, <1>6, <1>7, <1>8, <1>9 DEF AttachmentNext

\* A step keeps a file that is READY scanned and one that is bound as it is: every writer
\* of the row or of the object looks for the status or for the link first.
LEMMA FilesKept ==
  ASSUME EvidenceInv, [AttachmentNext]_attachmentVars, NEW f \in Files
  PROVE  /\ attachment'[f].status = "READY" =>
              /\ f \notin infected' /\ attachment'[f].scan = "CLEAN"
              /\ object'[f] = "DECLARED" \/ f \in halfDeleted'
         /\ bound'[f] # 0 => attachment'[f].status = "READY"
         /\ bound[f] # 0 =>
              /\ bound'[f] = bound[f]
              /\ attachment'[f] = attachment[f]
              /\ object[f] # "NONE" => object'[f] = object[f]
<1> DEFINE Kept ==
      /\ attachment'[f].status = "READY" =>
           /\ f \notin infected' /\ attachment'[f].scan = "CLEAN"
           /\ object'[f] = "DECLARED" \/ f \in halfDeleted'
      /\ bound'[f] # 0 => attachment'[f].status = "READY"
      /\ bound[f] # 0 =>
           /\ bound'[f] = bound[f]
           /\ attachment'[f] = attachment[f]
           /\ object[f] # "NONE" => object'[f] = object[f]
<1>1. /\ attachment \in [Files -> Row] /\ object \in [Files -> {"NONE", "DECLARED", "OTHER"}]
      /\ bound \in [Files -> 0..MaxVersions] /\ version \in 0..MaxVersions
  BY DEF EvidenceInv, EvidenceWasScanned, AttachmentTypeOK
<1>2. /\ attachment[f].status = "READY" =>
           /\ f \notin infected /\ attachment[f].scan = "CLEAN"
           /\ object[f] = "DECLARED" \/ f \in halfDeleted
      /\ bound[f] # 0 => attachment[f].status = "READY"
  BY DEF EvidenceInv, EvidenceWasScanned, BoundIsReady, Is
<1>3. ASSUME NEW g \in Files, Presign(g) PROVE Kept
  BY <1>1, <1>2, <1>3 DEF Presign, Is, Row, work
<1>4. ASSUME NEW g \in Files, PresignReplay(g) \/ AddressExpires(g) PROVE Kept
  BY <1>2, <1>4 DEF PresignReplay, AddressExpires, work
<1>5. ASSUME NEW g \in Files, NEW content \in {"DECLARED", "OTHER"}, DirectUpload(g, content)
      PROVE  Kept
  BY <1>1, <1>2, <1>5 DEF DirectUpload, work
<1>6. ASSUME NEW g \in Files, NEW committed \in BOOLEAN, UploadContent(g, committed) PROVE Kept
  BY <1>1, <1>2, <1>6 DEF UploadContent, TakesContent, Is, Row, work
<1>7. ASSUME NEW g \in Files, NEW committed \in BOOLEAN, DeleteAttachment(g, committed)
      PROVE  Kept
  BY <1>1, <1>2, <1>7 DEF DeleteAttachment, Deletable, Is, Row, work
<1>8. ASSUME NEW g \in Files, NEW scanned \in BOOLEAN, CompleteIntent(g, scanned) PROVE Kept
  BY <1>1, <1>2, <1>8 DEF CompleteIntent, StoredAsDeclared, Is, Row, work
<1>9. ASSUME NEW files \in SUBSET Files, SaveDraft(files) PROVE Kept
  BY <1>2, <1>9 DEF SaveDraft
<1>10. ASSUME NEW files \in SUBSET Files, Submit(files) PROVE Kept
  BY <1>1, <1>2, <1>10 DEF Submit, LockReadyAttachments, Is
<1>11. ASSUME NEW status \in Verdicts,
              \/ FinalizeReview(status)
              \/ CancelEvidenceRevision(status)
              \/ StartEvidenceRevision
              \/ UNCHANGED attachmentVars
       PROVE  Kept
  BY <1>2, <1>11 DEF FinalizeReview, CancelEvidenceRevision, StartEvidenceRevision,
                     attachmentVars, work
<1> QED
  BY <1>3, <1>4, <1>5, <1>6, <1>7, <1>8, <1>9, <1>10, <1>11 DEF AttachmentNext, Verdicts

\* EvidenceInv holds of every reachable state.
THEOREM EvidenceInvariant == AttachmentSpec => []EvidenceInv
<1>1. EvidenceInv /\ [AttachmentNext]_attachmentVars => EvidenceInv'
  BY EvidenceStaysTyped, FilesKept
     DEF EvidenceInv, EvidenceWasScanned, BoundIsReady, Is
<1> QED
  BY EvidenceInitially, <1>1, PTL DEF AttachmentSpec

\* What a reviewer finds behind a submitted version is what the scanner passed, whoever
\* wrote the object and in whatever order uploads, retries, expired addresses and
\* deletions came; but for a deletion that stopped half-way.
THEOREM EvidenceIsScanned == AttachmentSpec => []EvidenceWasScanned
<1>1. EvidenceInv => EvidenceWasScanned
  BY DEF EvidenceInv
<1> QED
  BY EvidenceInvariant, <1>1, PTL

\* A file that is bound to a version stays what it is: no command moves its link, changes
\* its row, or deletes or replaces its object.
THEOREM BoundFilesStay == AttachmentSpec => BoundForEver
<1>1. EvidenceInv /\ [AttachmentNext]_attachmentVars =>
        [\A f \in Files : bound[f] # 0 =>
           /\ bound'[f] = bound[f]
           /\ attachment'[f] = attachment[f]
           /\ object[f] # "NONE" => object'[f] = object[f]]_attachmentVars
  BY FilesKept
<1> QED
  BY EvidenceInvariant, <1>1, PTL DEF AttachmentSpec, BoundForEver
-----------------------------------------------------------------------------
(* The course and what a learner has of it. *)

\* What a page shows, and what wrote a share's content, is of no later revision.
RevisionsAreOfThePast == course.text <= course.revision /\ player.revision <= course.revision

\* A page that is still up to date plays what the course shows.
PageIsCurrent ==
  player.revision = course.revision => player.source \in {course.source, NoSource}

\* What need not be reviewed, or passed its review, was read.
ReviewedWasRead ==
  /\ course.kind # "share" => vetted
  /\ course.review = "approved" => vetted

\* A cover that is ready is that of its source and in nobody's claim.
ReadyIsOfItsSource ==
  cover.status = "ready" => cover.data = cover.source /\ cover.claim = NoSource

\* Whatever a request holds is the cover of the source it asked for, or nothing.
RequestsHoldTheirSource == \A r \in Requests : request[r].data \in {request[r].source, NoSource}

\* The inductive invariant of the academy.
AcademyInv ==
  /\ TypeOK
  /\ RevisionsAreOfThePast
  /\ PageIsCurrent
  /\ ReviewedWasRead
  /\ ProgressIsOfThisVideo
  /\ ReadyIsOfItsSource
  /\ RequestsHoldTheirSource

\* The values of the course row, of what is learned of it, and of a request.
CourseRows == [kind : Kinds, source : Sources, text : 1..MaxRevision, visible : BOOLEAN,
               review : {"none", "pending", "approved", "rejected"}, revision : 1..MaxRevision]
Covers == [status : {"none", "new", "processing", "ready", "failed"}, source : SomeSource,
           claim : Requests \cup {NoSource}, data : SomeSource, late : BOOLEAN]
CoverRequests == [step : Steps, public : BOOLEAN, source : SomeSource, data : SomeSource,
                  busy : BOOLEAN]

\* A course is created with content a publisher wrote, or pending; nobody has a page of it.
LEMMA AcademyInitially == Init => AcademyInv
<1> SUFFICES ASSUME Init PROVE AcademyInv
  OBVIOUS
<1>1. /\ 1 \in 1..MaxRevision /\ 0 \in 0..MaxRevision
      /\ NoSource \in SomeSource
  BY BoundAssumption DEF SomeSource
<1>2. PICK kind \in Kinds, source \in Sources :
        /\ course = [kind |-> kind, source |-> source, text |-> 1, visible |-> kind # "share",
                     review |-> IF kind = "share" THEN "pending" ELSE "none", revision |-> 1]
        /\ vetted = (kind # "share")
        /\ video = [v \in Videos |-> IF v = source THEN "complete" ELSE "none"]
  BY DEF Init
<1>3. course \in CourseRows /\ vetted \in BOOLEAN
  BY <1>1, <1>2 DEF CourseRows
<1>4. /\ cover \in Covers /\ request \in [Requests -> CoverRequests]
      /\ \A r \in Requests : request[r].data = NoSource
      /\ cover.status = "none"
  BY <1>1 DEF Init, NoCover, Idle, Covers, CoverRequests, Steps
<1>5. TypeOK
  BY <1>1, <1>2, <1>3, <1>4 DEF Init, TypeOK, CourseRows, Covers, CoverRequests, NoRecord
<1>6. /\ course.text = 1 /\ course.revision = 1 /\ player.revision = 0
      /\ record.source = NoSource
  BY <1>2 DEF Init, NoRecord
<1>7. ReviewedWasRead
  BY <1>2 DEF ReviewedWasRead
<1> QED
  BY <1>4, <1>5, <1>6, <1>7
     DEF AcademyInv, RevisionsAreOfThePast, PageIsCurrent, ProgressIsOfThisVideo,
         ReadyIsOfItsSource, RequestsHoldTheirSource

\* A command writes the row it computed, under the next revision.
LEMMA SavesTheRow ==
  ASSUME NEW new \in CourseRows, course \in CourseRows, Save(new)
  PROVE  /\ course' \in CourseRows
         /\ course'.revision = course.revision + 1
         /\ course'.kind = new.kind /\ course'.source = new.source
         /\ course'.text = new.text /\ course'.review = new.review
<1>1. course.revision + 1 \in 1..MaxRevision
  BY BoundAssumption DEF Save, CourseRows
<1> QED
  BY <1>1 DEF Save, CourseRows

\* The commands on the course keep its new well typed, write the next
\* revision when they write it, and let nothing be public that was not read.
LEMMA CourseKeeps ==
  ASSUME AcademyInv,
         \/ \E source \in Sources : UpdateCourse(source) \/ ResubmitShare(source)
         \/ \E visible \in BOOLEAN : SetVisibility(visible)
         \/ \E t \in Tabs : LoadTab(t) \/ \E decision \in {"approved", "rejected"} : ReviewShare(t, decision)
  PROVE  AcademyInv'
<1> DEFINE CourseOK == course' \in CourseRows /\ vetted' \in BOOLEAN /\ ReviewedWasRead'
           Revised == /\ course'.revision > course.revision
                      /\ course'.text <= course'.revision
                      /\ course'.kind = course.kind
                      /\ \/ record' = record /\ course'.source = course.source
                         \/ record' = record /\ course.kind # "video"
                         \/ record' = NoRecord
           Rest == UNCHANGED <<video, player, cover, request>>
<1>1. /\ course \in CourseRows /\ vetted \in BOOLEAN /\ tab \in [Tabs -> 0..MaxRevision]
      /\ player \in [revision : 0..MaxRevision, source : SomeSource]
      /\ record \in [source : SomeSource, completed : BOOLEAN, unnamed : BOOLEAN]
      /\ course.text <= course.revision /\ player.revision <= course.revision
      /\ ReviewedWasRead /\ ProgressIsOfThisVideo
  BY DEF AcademyInv, TypeOK, RevisionsAreOfThePast, CourseRows
<1>2. ASSUME NEW source \in Sources, UpdateCourse(source)
      PROVE  CourseOK /\ Revised /\ Rest /\ tab' = tab
  <2> DEFINE text == IF course.kind = "share" THEN course.revision + 1 ELSE 1
             new == [course EXCEPT !.source = source, !.text = text]
  <2>1. course.revision < MaxRevision /\ Save(new)
    BY <1>2 DEF UpdateCourse, Save
  <2>6. 1 \in 1..MaxRevision /\ course.revision + 1 \in 1..MaxRevision
    BY <1>1, <2>1, BoundAssumption DEF CourseRows
  <2>2. /\ new \in CourseRows
        /\ new.kind = course.kind /\ new.source = source
        /\ new.text <= course.revision + 1
    <3>1. text \in 1..MaxRevision /\ text <= course.revision + 1
      BY <1>1, <2>6 DEF CourseRows
    <3> HIDE DEF text
    <3> QED
      BY <1>1, <3>1 DEF CourseRows
  <2> HIDE DEF new
  <2>3. course.kind = "video" => source = course.source \/ source \in Videos
    BY <1>2 DEF UpdateCourse, Bindable
  <2>4. \/ record' = record /\ (source = course.source \/ course.kind # "video")
        \/ record' = NoRecord
    BY <1>2, <2>3 DEF UpdateCourse, ResetRecords
  <2>5. /\ course' \in CourseRows /\ course'.revision = course.revision + 1
        /\ course'.kind = course.kind /\ course'.source = source
        /\ course'.text <= course.revision + 1
    BY <1>1, <2>1, <2>2, SavesTheRow
  <2>7. vetted' = TRUE
    BY <1>2 DEF UpdateCourse
  <2>8. course.revision + 1 > course.revision
    BY <1>1 DEF CourseRows
  <2>9. CourseOK /\ Revised
    BY <2>4, <2>5, <2>7, <2>8 DEF ReviewedWasRead
  <2> QED
    BY <1>2, <2>9 DEF UpdateCourse
<1>3. ASSUME NEW source \in Sources, ResubmitShare(source)
      PROVE  CourseOK /\ Revised /\ Rest /\ tab' = tab
  <2> DEFINE new == [course EXCEPT !.source = source, !.text = course.revision + 1,
                       !.review = "pending", !.visible = FALSE]
  <2>1. course.revision < MaxRevision /\ Save(new)
    BY <1>3 DEF ResubmitShare, Save
  <2>6. course.revision + 1 \in 1..MaxRevision
    BY <1>1, <2>1, BoundAssumption DEF CourseRows
  <2>2. /\ new \in CourseRows
        /\ new.kind = course.kind /\ new.review = "pending" /\ new.text = course.revision + 1
    BY <1>1, <2>6 DEF CourseRows
  <2> HIDE DEF new
  <2>3. /\ course' \in CourseRows /\ course'.revision = course.revision + 1
        /\ course'.kind = course.kind /\ course'.review = "pending"
        /\ course'.text = course.revision + 1
    BY <1>1, <2>1, <2>2, SavesTheRow
  <2>4. course.kind = "share" /\ record' = record /\ vetted' \in BOOLEAN
    BY <1>3 DEF ResubmitShare
  <2>5. /\ course.revision + 1 > course.revision
        /\ course.revision + 1 <= course.revision + 1
    BY <1>1 DEF CourseRows
  <2>7. CourseOK /\ Revised
    BY <2>3, <2>4, <2>5 DEF ReviewedWasRead
  <2> QED
    BY <1>3, <2>7 DEF ResubmitShare
<1>4. ASSUME NEW visible \in BOOLEAN, SetVisibility(visible)
      PROVE  CourseOK /\ Revised /\ Rest /\ tab' = tab
  <2> DEFINE new == [course EXCEPT !.visible = visible]
  <2>1. Save(new)
    BY <1>4 DEF SetVisibility
  <2>2. /\ new \in CourseRows
        /\ new.kind = course.kind /\ new.source = course.source /\ new.review = course.review
        /\ new.text = course.text
    BY <1>1 DEF CourseRows
  <2> HIDE DEF new
  <2>3. CourseOK /\ Revised
    BY <1>1, <1>4, <2>1, <2>2, SavesTheRow
       DEF SetVisibility, learning, ReviewedWasRead, CourseRows
  <2> QED
    BY <1>4, <2>3 DEF SetVisibility, learning
<1>5. ASSUME NEW t \in Tabs, NEW decision \in {"approved", "rejected"}, ReviewShare(t, decision)
      PROVE  CourseOK /\ Revised /\ Rest /\ tab' = tab
  <2> DEFINE new == [course EXCEPT !.review = decision, !.visible = (decision = "approved")]
  <2>1. Save(new) /\ tab[t] = course.revision /\ course.kind = "share"
    BY <1>5 DEF ReviewShare, CheckRevision
  <2>2. /\ new \in CourseRows
        /\ new.kind = course.kind /\ new.source = course.source /\ new.review = decision
        /\ new.text = course.text
    BY <1>1 DEF CourseRows
  <2> HIDE DEF new
  <2>3. vetted' = (decision = "approved")
    BY <1>1, <1>5, <2>1 DEF ReviewShare, CourseRows
  <2>4. /\ course' \in CourseRows /\ course'.revision = course.revision + 1
        /\ course'.kind = course.kind /\ course'.source = course.source
        /\ course'.text = course.text /\ course'.review = decision
    BY <1>1, <2>1, <2>2, SavesTheRow
  <2>5. /\ vetted' \in BOOLEAN /\ record' = record
        /\ course.revision + 1 > course.revision /\ course.text <= course.revision + 1
    BY <1>1, <1>5, <2>3 DEF ReviewShare, CourseRows
  <2>6. CourseOK /\ Revised
    BY <2>1, <2>3, <2>4, <2>5 DEF ReviewedWasRead
  <2> QED
    BY <1>5, <2>6 DEF ReviewShare
<1>6. ASSUME NEW t \in Tabs, LoadTab(t)
      PROVE  /\ tab' \in [Tabs -> 0..MaxRevision]
             /\ UNCHANGED <<course, vetted, player, record, video, cover, request>>
  BY <1>1, <1>6, BoundAssumption DEF LoadTab, CourseRows
<1>7. ASSUME CourseOK, Revised, Rest, tab' = tab PROVE AcademyInv'
  <2>1. record' \in [source : SomeSource, completed : BOOLEAN, unnamed : BOOLEAN] /\ ProgressIsOfThisVideo'
    <3>1. CASE record' = record
      BY <1>1, <1>7, <3>1 DEF ProgressIsOfThisVideo, NoRecord
    <3>2. CASE record' = NoRecord
      BY <3>2 DEF ProgressIsOfThisVideo, SomeSource, NoRecord
    <3> QED
      BY <1>7, <3>1, <3>2
  <2>2. RevisionsAreOfThePast' /\ PageIsCurrent'
    BY <1>1, <1>7 DEF RevisionsAreOfThePast, PageIsCurrent, CourseRows
  <2>3. TypeOK'
    BY <1>7, <2>1 DEF AcademyInv, TypeOK, CourseRows
  <2> QED
    BY <1>7, <2>1, <2>2, <2>3 DEF AcademyInv, ReadyIsOfItsSource, RequestsHoldTheirSource
<1>8. ASSUME NEW t \in Tabs, LoadTab(t) PROVE AcademyInv'
  BY <1>6, <1>8 DEF AcademyInv, TypeOK, RevisionsAreOfThePast, PageIsCurrent, ReviewedWasRead,
                    ProgressIsOfThisVideo, ReadyIsOfItsSource, RequestsHoldTheirSource
<1> QED
  BY <1>2, <1>3, <1>4, <1>5, <1>7, <1>8

\* Uploads and the learner's page change neither the course nor the cover, and progress is
\* that of a page of the present revision, or names none.
LEMMA LearningKeeps ==
  ASSUME AcademyInv,
         \/ \E v \in Videos :
              CompleteUpload(v) \/ CancelUpload(v) \/ \E old \in SUBSET Videos : BeginUpload(v, old)
         \/ LoadPage \/ Play
         \/ \E revision \in {player.revision, 0}, completed \in BOOLEAN : Progress(revision, completed)
  PROVE  AcademyInv'
<1> DEFINE Kept == UNCHANGED <<course, vetted, tab, cover, request>>
           Learned == /\ video' \in [Videos -> {"none", "uploading", "complete", "gone"}]
                      /\ player' \in [revision : 0..MaxRevision, source : SomeSource]
                      /\ record' \in [source : SomeSource, completed : BOOLEAN, unnamed : BOOLEAN]
                      /\ player'.revision <= course.revision
                      /\ player'.revision = course.revision =>
                           player'.source \in {course.source, NoSource}
                      /\ course.kind = "video" /\ ~ record'.unnamed =>
                           record'.source \in {course.source, NoSource}
<1>1. /\ course \in CourseRows
      /\ video \in [Videos -> {"none", "uploading", "complete", "gone"}]
      /\ player \in [revision : 0..MaxRevision, source : SomeSource]
      /\ record \in [source : SomeSource, completed : BOOLEAN, unnamed : BOOLEAN]
      /\ player.revision <= course.revision
      /\ player.revision = course.revision => player.source \in {course.source, NoSource}
      /\ course.kind = "video" /\ ~ record.unnamed => record.source \in {course.source, NoSource}
  BY DEF AcademyInv, TypeOK, RevisionsAreOfThePast, PageIsCurrent, ProgressIsOfThisVideo, CourseRows
<1>2. ASSUME NEW v \in Videos,
             CompleteUpload(v) \/ CancelUpload(v) \/ \E old \in SUBSET Videos : BeginUpload(v, old)
      PROVE  Kept /\ Learned
  BY <1>1, <1>2 DEF CompleteUpload, CancelUpload, BeginUpload, learning
<1>3. ASSUME LoadPage PROVE Kept /\ Learned
  BY <1>1, <1>3, BoundAssumption DEF LoadPage, CourseRows, SomeSource
<1>4. ASSUME Play PROVE Kept /\ Learned
  BY <1>1, <1>4 DEF Play, CourseRows, SomeSource
<1>5. ASSUME NEW revision \in {player.revision, 0}, NEW completed \in BOOLEAN,
             Progress(revision, completed)
      PROVE  Kept /\ Learned
  <2>1. record' = [source |-> player.source, completed |-> record.completed \/ completed,
                   unnamed |-> record.unnamed \/ revision = 0]
    BY <1>5 DEF Progress
  <2>2. record' \in [source : SomeSource, completed : BOOLEAN, unnamed : BOOLEAN]
    BY <1>1, <2>1
  <2>3. ~ record'.unnamed => player.revision = course.revision
    <3>1. CASE revision = 0
      BY <2>1, <3>1
    <3>2. CASE revision # 0
      BY <1>5, <3>2 DEF Progress, CheckRevision
    <3> QED
      BY <3>1, <3>2
  <2> QED
    BY <1>1, <1>5, <2>1, <2>2, <2>3 DEF Progress
<1>6. ASSUME Kept, Learned PROVE AcademyInv'
  BY <1>6 DEF AcademyInv, TypeOK, RevisionsAreOfThePast, PageIsCurrent, ReviewedWasRead,
              ProgressIsOfThisVideo, ReadyIsOfItsSource, RequestsHoldTheirSource
<1> QED
  BY <1>2, <1>3, <1>4, <1>5, <1>6

-----------------------------------------------------------------------------
(* Covers. *)

\* A step of a request changes that request and, when it locks the row or completes its
\* own claim, the cover.
CoverNext ==
  \/ \E r \in Requests :
       \/ \E public \in BOOLEAN : LookForCover(r, public)
       \/ ReadCache(r) \/ ClaimReadsCourse(r) \/ ClaimLocksCover(r)
       \/ Extract(r) \/ CompleteCover(r) \/ Answer(r) \/ EndRequest(r)
  \/ PassTime

\* A request holds nothing but the cover of its source; a cover becomes ready only with the
\* data of its source; and one that is ready leaves only to a claim for another source.
LEMMA CoverMoves ==
  ASSUME AcademyInv, CoverNext
  PROVE  /\ UNCHANGED <<course, learning, video>>
         /\ cover' \in Covers
         /\ request' \in [Requests -> CoverRequests]
         /\ ReadyIsOfItsSource'
         /\ RequestsHoldTheirSource'
         /\ cover.status = "ready" /\ cover' # cover =>
              cover'.status = "processing" /\ cover'.source # cover.source
<1> DEFINE Held == /\ request' \in [Requests -> CoverRequests]
                   /\ \A r \in Requests : request'[r].data \in {request'[r].source, NoSource}
           CoverOK == /\ cover' \in Covers
                      /\ cover'.status = "ready" =>
                          cover'.data = cover'.source /\ cover'.claim = NoSource
                      /\ cover.status = "ready" /\ cover' # cover =>
                          cover'.status = "processing" /\ cover'.source # cover.source
           Other == UNCHANGED <<course, learning, video>>
<1>1. /\ course.source \in SomeSource
      /\ cover \in Covers
      /\ request \in [Requests -> CoverRequests]
      /\ NoSource \in SomeSource
  BY DEF AcademyInv, TypeOK, Covers, CoverRequests, SomeSource
<1>2. /\ cover.status = "ready" => cover.data = cover.source /\ cover.claim = NoSource
      /\ \A r \in Requests : request[r].data \in {request[r].source, NoSource}
      /\ \A r \in Requests : r # NoSource
  BY NullAssumption DEF AcademyInv, ReadyIsOfItsSource, RequestsHoldTheirSource
<1>3. Idle \in CoverRequests /\ Idle.data = NoSource
  BY <1>1 DEF Idle, CoverRequests, Steps
<1>4. ASSUME cover' = cover PROVE CoverOK
  BY <1>1, <1>2, <1>4
<1>5. ASSUME NEW r \in Requests, NEW public \in BOOLEAN, LookForCover(r, public)
      PROVE  Held /\ CoverOK /\ Other
  <2>1. Held
    BY <1>1, <1>2, <1>5 DEF LookForCover, CoverRequests, Steps, Idle
  <2> QED
    BY <1>4, <1>5, <2>1 DEF LookForCover
<1>6. ASSUME NEW r \in Requests, ReadCache(r) PROVE Held /\ CoverOK /\ Other
  <2>1. Held
    BY <1>1, <1>2, <1>6 DEF ReadCache, At, CoverRequests, Covers, Steps
  <2> QED
    BY <1>4, <1>6, <2>1 DEF ReadCache
<1>7. ASSUME NEW r \in Requests, ClaimReadsCourse(r) PROVE Held /\ CoverOK /\ Other
  <2>1. Held
    BY <1>1, <1>2, <1>7 DEF ClaimReadsCourse, Goto, CoverRequests, Steps
  <2> QED
    BY <1>4, <1>7, <2>1 DEF ClaimReadsCourse
<1>8. ASSUME NEW r \in Requests, ClaimLocksCover(r) PROVE Held /\ CoverOK /\ Other
  <2>1. Held
    BY <1>1, <1>2, <1>8 DEF ClaimLocksCover, Goto, CoverRequests, Steps
  <2>2. CoverOK
    <3>1. CASE Settled(r)
      BY <1>4, <1>8, <3>1 DEF ClaimLocksCover
    <3>2. CASE ~ Settled(r)
      <4>1. request[r].source \in SomeSource
        BY <1>1 DEF CoverRequests
      <4>2. cover' = [status |-> "processing", source |-> request[r].source, claim |-> r,
                      data |-> NoSource, late |-> FALSE]
        BY <1>8, <3>2 DEF ClaimLocksCover
      <4>3. cover' \in Covers
        BY <1>1, <4>1, <4>2 DEF Covers
      <4>4. cover.status = "ready" => cover'.source # cover.source
        BY <3>2, <4>2 DEF Settled
      <4> QED
        BY <4>2, <4>3, <4>4
    <3> QED
      BY <3>1, <3>2
  <2> QED
    BY <1>8, <2>1, <2>2 DEF ClaimLocksCover
<1>9. ASSUME NEW r \in Requests, Extract(r) PROVE Held /\ CoverOK /\ Other
  <2>1. Held
    BY <1>1, <1>2, <1>9 DEF Extract, Goto, CoverRequests, Steps
  <2> QED
    BY <1>4, <1>9, <2>1 DEF Extract
<1>10. ASSUME NEW r \in Requests, CompleteCover(r) PROVE Held /\ CoverOK /\ Other
  <2>1. Held
    BY <1>1, <1>2, <1>10 DEF CompleteCover, Goto, CoverRequests, Steps
  <2>2. CoverOK
    BY <1>1, <1>2, <1>10 DEF CompleteCover, StillClaimed, CoverRequests, Covers
  <2> QED
    BY <1>10, <2>1, <2>2 DEF CompleteCover
<1>11. ASSUME NEW r \in Requests, Answer(r) \/ EndRequest(r) PROVE Held /\ CoverOK /\ Other
  <2>1. Held
    <3>1. PICK held : /\ request' = [request EXCEPT ![r] = held]
                      /\ held = Idle \/ held = [Idle EXCEPT !.step = "answered"]
      BY <1>11 DEF Answer, EndRequest, End
    <3>2. held \in CoverRequests /\ held.data = NoSource
      <4>1. "answered" \in Steps
        BY DEF Steps
      <4>2. /\ [Idle EXCEPT !.step = "answered"] \in CoverRequests
            /\ [Idle EXCEPT !.step = "answered"].data = Idle.data
        BY <1>3, <4>1 DEF CoverRequests
      <4> QED
        BY <1>3, <3>1, <4>2
    <3> QED
      BY <1>1, <1>2, <3>1, <3>2
  <2> QED
    BY <1>4, <1>11, <2>1 DEF Answer, EndRequest
<1>12. ASSUME PassTime PROVE Held /\ CoverOK /\ Other
  BY <1>1, <1>2, <1>12 DEF PassTime, Covers
<1> QED
  BY <1>5, <1>6, <1>7, <1>8, <1>9, <1>10, <1>11, <1>12
     DEF CoverNext, ReadyIsOfItsSource, RequestsHoldTheirSource

\* The requests for the cover keep the invariant.
LEMMA CoverKeeps ==
  ASSUME AcademyInv, CoverNext
  PROVE  AcademyInv'
BY CoverMoves DEF AcademyInv, TypeOK, RevisionsAreOfThePast, PageIsCurrent, ReviewedWasRead,
                  ProgressIsOfThisVideo, learning, Covers, CoverRequests

\* AcademyInv holds of every reachable state.
THEOREM AcademyInvariant == Spec => []AcademyInv
<1>1. AcademyInv /\ [Next]_vars => AcademyInv'
  <2>1. AcademyInv /\ UNCHANGED vars => AcademyInv'
    BY DEF AcademyInv, TypeOK, RevisionsAreOfThePast, PageIsCurrent, ReviewedWasRead,
           ProgressIsOfThisVideo, ReadyIsOfItsSource, RequestsHoldTheirSource, vars, learning
  <2>2. AcademyInv /\ Next => AcademyInv'
    BY CourseKeeps, LearningKeeps, CoverKeeps DEF Next, CoverNext
  <2> QED
    BY <2>1, <2>2
<1> QED
  BY AcademyInitially, <1>1, PTL DEF Spec

\* What learners see of a share was read by a publisher, word for word, however reviews
\* from several tabs, resubmissions and edits meet.
THEOREM PublicIsVetted == Spec => []PublicWasVetted
<1>1. AcademyInv => PublicWasVetted
  BY DEF AcademyInv, PublicWasVetted, Public, ReviewedWasRead
<1> QED
  BY AcademyInvariant, <1>1, PTL

\* What a learner has of a video course was earned on the video it shows now, also when the
\* video is replaced while a page plays the old one, unless a report named no revision.
THEOREM ProgressIsCurrent == Spec => []ProgressIsOfThisVideo
<1>1. AcademyInv => ProgressIsOfThisVideo
  BY DEF AcademyInv
<1> QED
  BY AcademyInvariant, <1>1, PTL

\* Only an answer after another look at the course shows a cover.
LEMMA OnlyAnswersAnswer ==
  ASSUME AcademyInv, [Next]_vars, NEW r \in Requests, ~ At(r, "answered"), At(r, "answered")'
  PROVE  /\ request[r].data \in {course.source, NoSource}
         /\ request[r].public => Public
<1>1. request \in [Requests -> CoverRequests]
  BY DEF AcademyInv, TypeOK, CoverRequests
<1>2. PICK q \in Requests :
        \/ \E public \in BOOLEAN : LookForCover(q, public)
        \/ ReadCache(q) \/ ClaimReadsCourse(q) \/ ClaimLocksCover(q)
        \/ Extract(q) \/ CompleteCover(q) \/ Answer(q) \/ EndRequest(q)
  <2>1. request' # request
    BY DEF At
  <2> QED
    BY <2>1 DEF Next, vars, UpdateCourse, ResubmitShare, SetVisibility, LoadTab, ReviewShare,
                CompleteUpload, CancelUpload, BeginUpload, LoadPage, Play, Progress, PassTime
<1>3. \A p \in Requests : p # q => request'[p] = request[p]
  BY <1>1, <1>2 DEF LookForCover, ReadCache, ClaimReadsCourse, ClaimLocksCover, Extract,
                    CompleteCover, EndRequest, Answer, Goto, End
<1>4. q = r
  BY <1>3 DEF At
<1>5. ASSUME \/ \E public \in BOOLEAN : LookForCover(r, public)
             \/ ReadCache(r) \/ ClaimReadsCourse(r)
      PROVE  FALSE
  BY <1>1, <1>5 DEF At, LookForCover, ReadCache, ClaimReadsCourse, Goto, Idle, CoverRequests
<1>6. ASSUME ClaimLocksCover(r) \/ Extract(r) PROVE FALSE
  BY <1>1, <1>6 DEF At, ClaimLocksCover, Extract, Goto, CoverRequests
<1>7. ASSUME CompleteCover(r) \/ EndRequest(r) PROVE FALSE
  BY <1>1, <1>7 DEF At, CompleteCover, EndRequest, Goto, End, Idle, CoverRequests
<1>8. Answer(r)
  BY <1>2, <1>4, <1>5, <1>6, <1>7
<1>9. course.source = request[r].source /\ (request[r].public => Public)
  BY <1>1, <1>8 DEF At, Answer, End, Idle, CoverRequests
<1> QED
  BY <1>9 DEF AcademyInv, RequestsHoldTheirSource

\* A cover is shown only while it is that of what the course shows, and to learners while
\* the course is public; and it stays until the row is claimed for another source, whatever
\* requests lost their claim, fail late or are repeated.
THEOREM CoversAreCurrent == Spec => CoverIsCurrent
<1> DEFINE Current ==
      /\ \A r \in Requests : ~ At(r, "answered") /\ At(r, "answered")' =>
           /\ request[r].data \in {course.source, NoSource}
           /\ request[r].public => Public
      /\ cover.status = "ready" /\ cover' # cover =>
           cover'.status = "processing" /\ cover'.source # cover.source
<1>1. AcademyInv /\ [Next]_vars => [Current]_vars
  <2> SUFFICES ASSUME AcademyInv, Next PROVE Current
    OBVIOUS
  <2>1. ASSUME cover' # cover PROVE CoverNext
    BY <2>1 DEF Next, CoverNext, UpdateCourse, ResubmitShare, SetVisibility, LoadTab, ReviewShare,
                CompleteUpload, CancelUpload, BeginUpload, LoadPage, Play, Progress
  <2> QED
    BY <2>1, CoverMoves, OnlyAnswersAnswer
<1> QED
  BY AcademyInvariant, <1>1, PTL DEF Spec, CoverIsCurrent
-----------------------------------------------------------------------------
(* The self-check. *)

\* One request at a time has claimed the row and not let go of it.
OneWorks == \A r, q \in CheckRequests : Working(r) /\ Working(q) => r = q

\* What a request that works knows of the row: up to the fence the row is RUNNING as it was
\* claimed, then SENDING; and the comment is known up to the call, and to the request after it.
OwnsTheRow(r) ==
  LET step == checking[r].step
      held == checking[r].row
  IN
  /\ step \in {"read", "reply", "review", "fence"} => row.status = "RUNNING"
  /\ step \in {"send", "complete"} => row.status = "SENDING"
  /\ step \in {"read", "reply", "review", "fence", "send"} =>
       row.comment = held.comment /\ row.reply = held.reply /\ row.comment = Len(comments)
  /\ step \in {"review", "fence", "send"} => held.comment = 0 \/ held.reply
  /\ step = "send" => row.result = checking[r].id
  /\ step = "complete" => held.comment = 1 /\ Len(comments) = 1 /\ comments[1] = row.result
  /\ step = "fail" =>
       \/ row.status = "RUNNING"
       \/ row.status = "SENDING" /\ (checking[r].answer # "AMBIGUOUS" => row.comment = Len(comments))

WorkersOwnTheRow == \A r \in CheckRequests : Working(r) => OwnsTheRow(r)

\* There is one comment, and unless an attempt ended in the dark the row knows it.
CommentIsKnown ==
  /\ Len(comments) <= 1
  /\ row.status \notin {"SENDING", "UNCERTAIN"} => row.comment = Len(comments)
  /\ row.status = "NONE" => row.comment = 0

\* The text by which an unresolved reply is found outlasts every attempt but the one that
\* resolves it first.
TextIsKept ==
  /\ row.status = "COMPLETED" => Len(comments) = 1 /\ comments[1] = row.result
  /\ row.comment # 0 /\ ~ row.reply /\ row.status \in {"RUNNING", "FAILED"} =>
       comments[1] = Anchor(row)
  /\ row.status = "SENDING" => row.comment = 0 \/ row.reply

\* The inductive invariant of the self-check.
SelfCheckInv ==
  /\ CheckTypeOK
  /\ OneWorks
  /\ WorkersOwnTheRow
  /\ CommentIsKnown
  /\ TextIsKept

\* What a request holds.
HeldChecks == [step : CheckSteps, id : Texts, fresh : BOOLEAN, document : 0..MaxRevisions,
               row : CheckRow, answer : {"NONE", "REJECTED", "AMBIGUOUS"}]

\* A row without an attempt is well typed, as is a request that has not arrived.
LEMMA EmptyRow ==
  /\ NoRow \in CheckRow /\ CheckIdle \in HeldChecks
  /\ 0 \in Texts /\ 1 \in Texts /\ Texts \subseteq Nat /\ 1 \in 1..MaxRevisions
<1>1. /\ 0 \in Texts /\ 1 \in Texts /\ Texts \subseteq Nat
      /\ 0 \in 0..MaxRevisions /\ 1 \in 1..MaxRevisions
  BY CheckBounds DEF Texts
<1>2. NoRow \in CheckRow
  BY <1>1 DEF NoRow, CheckRow, Status
<1> QED
  BY <1>1, <1>2 DEF CheckIdle, HeldChecks, CheckSteps

\* Nothing is there, or a row an administrator's reset left behind with its one comment.
LEMMA SelfCheckInitially == CheckInit => SelfCheckInv
<1> SUFFICES ASSUME CheckInit PROVE SelfCheckInv
  OBVIOUS
<1>1. /\ checking \in [CheckRequests -> HeldChecks]
      /\ \A r \in CheckRequests : ~ Working(r)
  BY EmptyRow DEF CheckInit, Working, CheckIdle
<1>2. InheritedRow \in CheckRow
  BY EmptyRow DEF InheritedRow, CheckRow, Status
<1>3. /\ NoRow.status = "NONE" /\ NoRow.comment = 0
      /\ InheritedRow.status = "RUNNING" /\ InheritedRow.comment = 1 /\ Anchor(InheritedRow) = 1
  BY DEF NoRow, InheritedRow, Anchor
<1>4. /\ row \in CheckRow /\ comments \in Seq(Texts)
      /\ CommentIsKnown /\ TextIsKept
  <2>1. CASE row = NoRow /\ comments = <<>>
    BY <2>1, <1>3, EmptyRow DEF CommentIsKnown, TextIsKept
  <2>2. CASE row = InheritedRow /\ comments = <<1>>
    BY <2>2, <1>2, <1>3, EmptyRow DEF CommentIsKnown, TextIsKept
  <2> QED
    BY <2>1, <2>2 DEF CheckInit
<1>5. /\ clicks \in 0..MaxClicks /\ crashes \in 0..MaxCrashes /\ document \in 1..MaxRevisions
  BY CheckBounds DEF CheckInit
<1>6. overtaken \in BOOLEAN
  BY DEF CheckInit
<1> QED
  BY <1>1, <1>4, <1>5, <1>6
     DEF SelfCheckInv, CheckTypeOK, HeldChecks, OneWorks, WorkersOwnTheRow

\* A step of the only request that works, or of one that works alone from now on, is safe
\* if that request owns the row it leaves.
LEMMA AloneIsSafe ==
  ASSUME CheckTypeOK', CommentIsKnown', TextIsKept', NEW r \in CheckRequests,
         \A q \in CheckRequests : q # r => ~ Working(q) /\ checking'[q] = checking[q],
         Working(r)' => OwnsTheRow(r)'
  PROVE  SelfCheckInv'
<1>1. \A q \in CheckRequests : q # r => ~ Working(q)'
  BY DEF Working
<1> QED
  BY <1>1 DEF SelfCheckInv, OneWorks, WorkersOwnTheRow

\* A step of a request that does not work, and does not from now on, leaves all to the
\* others.
LEMMA AsideIsSafe ==
  ASSUME SelfCheckInv, CheckTypeOK', UNCHANGED <<row, comments>>, NEW r \in CheckRequests,
         \A q \in CheckRequests : q # r => checking'[q] = checking[q],
         ~ Working(r)'
  PROVE  SelfCheckInv'
<1>1. \A q \in CheckRequests : Working(q)' => Working(q) /\ checking'[q] = checking[q]
  BY DEF Working
<1>2. WorkersOwnTheRow'
  BY <1>1 DEF SelfCheckInv, WorkersOwnTheRow, OwnsTheRow
<1> QED
  BY <1>1, <1>2 DEF SelfCheckInv, OneWorks, CommentIsKnown, TextIsKept, Anchor

\* Reading the document, a request keeps the revision it has read, or notes today's.
LEMMA ReadingIsTyped ==
  ASSUME checking \in [CheckRequests -> HeldChecks], document \in 0..MaxRevisions,
         NEW r \in CheckRequests, ReadDocument(r)
  PROVE  /\ checking' \in [CheckRequests -> HeldChecks]
         /\ \A q \in CheckRequests : q # r => checking'[q] = checking[q]
         /\ checking'[r].step = IF CheckAt(r, "reread") THEN "restart" ELSE "reply"
         /\ checking'[r].row = checking[r].row
<1> DEFINE step == IF CheckAt(r, "reread") THEN "restart" ELSE "reply"
           read == IF checking[r].document = 0 THEN document ELSE checking[r].document
           held == [checking[r] EXCEPT !.step = step, !.document = read]
<1>1. checking' = [checking EXCEPT ![r] = held]
  BY DEF ReadDocument
<1>2. step \in CheckSteps /\ read \in 0..MaxRevisions /\ checking[r] \in HeldChecks
  BY DEF HeldChecks, CheckSteps
<1>3. held \in HeldChecks /\ held.step = step /\ held.row = checking[r].row
  <2> HIDE DEF step, read
  <2> QED
    BY <1>2 DEF HeldChecks
<1> HIDE DEF held
<1> QED
  BY <1>1, <1>3

\* A request arrives, is refused, reads a completed row's document or dies before it has
\* claimed anything.
LEMMA ArrivingKeeps ==
  ASSUME SelfCheckInv, NEW r \in CheckRequests,
         \/ \E id \in Texts, fresh, early \in BOOLEAN : Arrive(r, id, fresh, early)
         \/ CheckAt(r, "reread") /\ ReadDocument(r)
         \/ ~ Working(r) /\ Crash(r)
  PROVE  SelfCheckInv'
<1> DEFINE Arrived ==
      /\ checking' \in [CheckRequests -> HeldChecks]
      /\ \A q \in CheckRequests : q # r => checking'[q] = checking[q]
      /\ checking'[r].step \in {"claim", "restart", "idle"}
      /\ UNCHANGED <<row, comments, document, overtaken>>
      /\ clicks' \in 0..MaxClicks /\ crashes' \in 0..MaxCrashes
<1>1. /\ checking \in [CheckRequests -> HeldChecks] /\ document \in 1..MaxRevisions
      /\ clicks \in 0..MaxClicks /\ crashes \in 0..MaxCrashes
  BY DEF SelfCheckInv, CheckTypeOK, HeldChecks
<1>2. 0 \in 0..MaxRevisions /\ document \in 0..MaxRevisions
  BY <1>1, CheckBounds
<1>3. ASSUME NEW id \in Texts, NEW fresh \in BOOLEAN, NEW early \in BOOLEAN,
             Arrive(r, id, fresh, early)
      PROVE  Arrived
  <2> DEFINE held == [checking[r] EXCEPT !.step = "claim", !.id = id, !.fresh = fresh,
                        !.document = IF early THEN document ELSE 0]
  <2>1. checking' \in [CheckRequests -> HeldChecks]
    <3>1. (IF early THEN document ELSE 0) \in 0..MaxRevisions /\ checking[r] \in HeldChecks
      BY <1>1, <1>2
    <3>2. held \in HeldChecks
      BY <3>1 DEF HeldChecks, CheckSteps
    <3>3. checking' = [checking EXCEPT ![r] = held]
      BY <1>1, <1>3 DEF Arrive
    <3> QED
      BY <1>1, <3>2, <3>3
  <2>2. clicks' \in 0..MaxClicks
    BY <1>1, <1>3, CheckBounds DEF Arrive, Texts
  <2> QED
    BY <1>1, <1>3, <2>1, <2>2 DEF Arrive, HeldChecks
<1>4. ASSUME CheckAt(r, "reread"), ReadDocument(r) PROVE Arrived
  BY <1>1, <1>2, <1>4, ReadingIsTyped DEF CheckAt, ReadDocument
<1>5. ASSUME ~ Working(r), Crash(r) PROVE Arrived
  <2>1. checking' \in [CheckRequests -> HeldChecks] /\ CheckIdle.step = "idle"
    BY <1>1, <1>5, EmptyRow DEF Crash, CheckEnd, CheckIdle
  <2>2. crashes' \in 0..MaxCrashes
    BY <1>1, <1>5, CheckBounds DEF Crash
  <2> QED
    BY <1>1, <1>5, <2>1, <2>2 DEF Crash, CheckEnd
<1>6. ASSUME Arrived PROVE SelfCheckInv'
  <2>1. CheckTypeOK'
    BY <1>6 DEF SelfCheckInv, CheckTypeOK, HeldChecks
  <2>2. ~ Working(r)'
    BY <1>6 DEF Working
  <2> QED
    BY <1>6, <2>1, <2>2, AsideIsSafe
<1> QED
  BY <1>3, <1>4, <1>5, <1>6

\* While a request works, the row is neither missing nor failed nor completed.
LEMMA WorkersHoldTheRow ==
  ASSUME SelfCheckInv, row.status \in {"NONE", "COMPLETED", "FAILED"}
  PROVE  \A r \in CheckRequests : ~ Working(r)
<1> SUFFICES ASSUME NEW r \in CheckRequests, Working(r) PROVE FALSE
  OBVIOUS
<1>1. row.status \in {"RUNNING", "SENDING"}
  BY DEF SelfCheckInv, WorkersOwnTheRow, OwnsTheRow, Working, CheckSteps
<1> QED
  BY <1>1

\* A request that takes the row, which nobody works on, starts with what the row keeps.
LEMMA TakingIsSafe ==
  ASSUME SelfCheckInv, NEW r \in CheckRequests, NEW new \in CheckRow,
         Take(r, new), UNCHANGED <<comments, document, clicks, crashes>>,
         overtaken' \in BOOLEAN, row.status \in {"NONE", "COMPLETED"} \/ Abandoned,
         \A q \in CheckRequests : ~ Working(q),
         new.status = "RUNNING", new.lease = "LIVE", new.comment = row.comment,
         new.comment # 0 /\ ~ new.reply => comments[1] = Anchor(new)
  PROVE  SelfCheckInv'
<1>1. /\ row \in CheckRow /\ comments \in Seq(Texts)
      /\ checking \in [CheckRequests -> HeldChecks]
      /\ row.comment = Len(comments) /\ Len(comments) <= 1
  BY DEF SelfCheckInv, CheckTypeOK, HeldChecks, CommentIsKnown, Abandoned
<1>2. /\ row' = new /\ comments' = comments
      /\ \A q \in CheckRequests : q # r => checking'[q] = checking[q]
      /\ checking'[r].step = "read" /\ checking'[r].row = new
      /\ checking' \in [CheckRequests -> HeldChecks]
  <2> DEFINE held == [checking[r] EXCEPT !.step = "read", !.row = new]
  <2>1. held \in HeldChecks /\ held.step = "read" /\ held.row = new
    <3>1. checking[r] \in HeldChecks /\ "read" \in CheckSteps
      BY <1>1 DEF CheckSteps
    <3> QED
      BY <3>1 DEF HeldChecks
  <2>2. checking' = [checking EXCEPT ![r] = held] /\ row' = new
    BY DEF Take
  <2> HIDE DEF held
  <2> QED
    BY <1>1, <2>1, <2>2
<1>3. CheckTypeOK'
  BY <1>2 DEF SelfCheckInv, CheckTypeOK, HeldChecks
<1>4. CommentIsKnown' /\ TextIsKept'
  BY <1>1, <1>2 DEF CommentIsKnown, TextIsKept
<1>5. OwnsTheRow(r)'
  BY <1>1, <1>2 DEF OwnsTheRow
<1> QED
  BY <1>2, <1>3, <1>4, <1>5, AloneIsSafe

\* The claim of a document: a new row, one taken over with the text of its comment, or
\* nothing.  What is taken over is taken from a request that is gone, or this is overtaking.
LEMMA ClaimKeeps ==
  ASSUME SelfCheckInv, NEW r \in CheckRequests, Claim(r)
  PROVE  overtaken' \/ SelfCheckInv'
<1> DEFINE id == checking[r].id
<1>1. /\ row \in CheckRow /\ checking \in [CheckRequests -> HeldChecks] /\ id \in Texts
      /\ UNCHANGED <<comments, document, clicks, crashes>>
  BY DEF SelfCheckInv, CheckTypeOK, HeldChecks, Claim
<1>2. ASSUME row.status = "NONE", Take(r, [NoRow EXCEPT !.status = "RUNNING", !.attempt = id]),
             UNCHANGED overtaken
      PROVE  SelfCheckInv'
  <2> DEFINE new == [NoRow EXCEPT !.status = "RUNNING", !.attempt = id]
  <2>1. new \in CheckRow /\ new.status = "RUNNING" /\ new.lease = "LIVE" /\ new.comment = 0
    BY <1>1, EmptyRow DEF NoRow, CheckRow, Status
  <2>2. row.comment = 0 /\ Take(r, new) /\ overtaken' \in BOOLEAN
    BY <1>2 DEF SelfCheckInv, CommentIsKnown, CheckTypeOK
  <2> HIDE DEF new
  <2> QED
    BY <1>1, <1>2, <2>1, <2>2, WorkersHoldTheRow, TakingIsSafe
<1>3. ASSUME Abandoned, \A q \in CheckRequests : ~ Working(q), overtaken' \in BOOLEAN,
             Take(r, [row EXCEPT !.status = "RUNNING", !.attempt = id, !.lease = "LIVE",
                                 !.result = ResultKept])
      PROVE  SelfCheckInv'
  <2> DEFINE new == [row EXCEPT !.status = "RUNNING", !.attempt = id, !.lease = "LIVE",
                                !.result = ResultKept]
  <2>1. ResultKept \in Texts
    BY <1>1, EmptyRow DEF ResultKept, CheckRow
  <2>2. /\ new \in CheckRow /\ new.status = "RUNNING" /\ new.lease = "LIVE"
        /\ new.comment = row.comment /\ new.reply = row.reply
        /\ new.archived = row.archived /\ new.result = ResultKept
    BY <1>1, <2>1 DEF CheckRow, Status
  <2>4. Take(r, new)
    BY <1>3
  <2> HIDE DEF new
  <2>3. ASSUME new.comment # 0, ~ new.reply PROVE comments[1] = Anchor(new)
    <3>1. comments[1] = Anchor(row)
      BY <1>3, <2>2, <2>3 DEF SelfCheckInv, TextIsKept, Abandoned
    <3>2. new.result = row.result
      BY <2>2, <2>3 DEF ResultKept
    <3> QED
      BY <2>2, <3>1, <3>2 DEF Anchor
  <2> QED
    BY <1>1, <1>3, <2>2, <2>3, <2>4, TakingIsSafe
<1>4. ASSUME row' = row, UNCHANGED overtaken,
             \/ checking' = [checking EXCEPT ![r].step = "reread", ![r].row = row]
             \/ CheckEnd(r)
      PROVE  SelfCheckInv'
  <2>1. /\ checking' \in [CheckRequests -> HeldChecks]
        /\ \A q \in CheckRequests : q # r => checking'[q] = checking[q]
        /\ checking'[r].step \in {"reread", "idle"}
    <3>1. CASE checking' = [checking EXCEPT ![r].step = "reread", ![r].row = row]
      BY <1>1, <3>1 DEF HeldChecks, CheckSteps
    <3>2. CASE CheckEnd(r)
      BY <1>1, <3>2, EmptyRow DEF CheckEnd, CheckIdle
    <3> QED
      BY <1>4, <3>1, <3>2
  <2>2. CheckTypeOK' /\ ~ Working(r)'
    BY <1>1, <1>4, <2>1 DEF SelfCheckInv, CheckTypeOK, HeldChecks, Working
  <2> QED
    BY <1>1, <1>4, <2>1, <2>2, AsideIsSafe
<1>5. ASSUME Abandoned, overtaken' = (overtaken \/ \E q \in CheckRequests : Working(q))
      PROVE  /\ overtaken' \in BOOLEAN
             /\ overtaken' \/ \A q \in CheckRequests : ~ Working(q)
  BY <1>5
<1> QED
  BY <1>2, <1>3, <1>4, <1>5 DEF Claim

\* The restart of a completed self-check puts the text of the comment into the archive.
LEMMA RestartKeeps ==
  ASSUME SelfCheckInv, NEW r \in CheckRequests, Restart(r)
  PROVE  SelfCheckInv'
<1> DEFINE id == checking[r].id
           new == [row EXCEPT !.status = "RUNNING", !.attempt = id, !.lease = "LIVE",
                              !.result = 0, !.archived = Archived]
<1>1. /\ row \in CheckRow /\ checking \in [CheckRequests -> HeldChecks] /\ id \in Texts
      /\ UNCHANGED <<comments, document, clicks, crashes, overtaken>> /\ overtaken \in BOOLEAN
  BY DEF SelfCheckInv, CheckTypeOK, HeldChecks, Restart
<1>2. ASSUME row.status = "COMPLETED", Take(r, new) PROVE SelfCheckInv'
  <2>1. /\ Archived \in Seq(Texts) /\ Archived # <<>> /\ Archived[Len(Archived)] = row.result
    BY <1>1 DEF Archived, CheckRow
  <2>2. /\ new \in CheckRow /\ new.status = "RUNNING" /\ new.lease = "LIVE"
        /\ new.comment = row.comment /\ new.archived = Archived
    BY <1>1, <2>1, EmptyRow DEF CheckRow, Status
  <2> HIDE DEF new
  <2>3. comments[1] = Anchor(new)
    BY <1>2, <2>1, <2>2 DEF Anchor, SelfCheckInv, TextIsKept
  <2> QED
    BY <1>1, <1>2, <2>2, <2>3, WorkersHoldTheRow, TakingIsSafe
<1>3. ASSUME row' = row, CheckEnd(r) PROVE SelfCheckInv'
  <2>1. /\ checking' \in [CheckRequests -> HeldChecks]
        /\ \A q \in CheckRequests : q # r => checking'[q] = checking[q]
        /\ ~ Working(r)'
    BY <1>1, <1>3, EmptyRow DEF CheckEnd, CheckIdle, Working
  <2>2. CheckTypeOK'
    BY <1>1, <1>3, <2>1 DEF SelfCheckInv, CheckTypeOK, HeldChecks
  <2> QED
    BY <1>1, <1>3, <2>1, <2>2, AsideIsSafe
<1> QED
  BY <1>2, <1>3 DEF Restart

\* The steps of a request that has claimed the row.
WorkerStep(r) ==
  \/ CheckAt(r, "read") /\ ReadDocument(r)
  \/ ResolveReply(r) \/ Review(r) \/ FailBeforeSending(r) \/ Fence(r) \/ Send(r)
  \/ Complete(r) \/ CompleteFails(r) \/ Fail(r)
  \/ Working(r) /\ Crash(r)

\* What such a step leaves is well typed.
LEMMA WorkerStaysTyped ==
  ASSUME SelfCheckInv, NEW r \in CheckRequests, WorkerStep(r)
  PROVE  /\ CheckTypeOK'
         /\ \A q \in CheckRequests : q # r => checking'[q] = checking[q]
<1> DEFINE Typed == /\ row' \in CheckRow /\ comments' \in Seq(Texts)
                    /\ checking' \in [CheckRequests -> HeldChecks]
                    /\ \A q \in CheckRequests : q # r => checking'[q] = checking[q]
                    /\ UNCHANGED <<document, clicks, overtaken>> /\ crashes' \in 0..MaxCrashes
<1>1. /\ row \in CheckRow /\ comments \in Seq(Texts)
      /\ checking \in [CheckRequests -> HeldChecks] /\ checking[r] \in HeldChecks
      /\ document \in 1..MaxRevisions /\ document \in 0..MaxRevisions
      /\ clicks \in 0..MaxClicks /\ crashes \in 0..MaxCrashes
  BY CheckBounds DEF SelfCheckInv, CheckTypeOK, HeldChecks
<1>2. ASSUME CheckAt(r, "read"), ReadDocument(r) PROVE Typed
  BY <1>1, <1>2, ReadingIsTyped DEF ReadDocument
<1>3. ASSUME ResolveReply(r) PROVE Typed
  <2>1. /\ [row EXCEPT !.reply = TRUE] \in CheckRow
        /\ [checking[r].row EXCEPT !.reply = TRUE] \in CheckRow
    BY <1>1 DEF HeldChecks, CheckRow
  <2>2. checking' \in [CheckRequests -> HeldChecks]
    <3>1. \/ checking' = [checking EXCEPT ![r] = [checking[r] EXCEPT !.step = "review"]]
          \/ checking' = [checking EXCEPT ![r] = [checking[r] EXCEPT !.step = "review",
                             !.row = [checking[r].row EXCEPT !.reply = TRUE]]]
      BY <1>3 DEF ResolveReply, CheckGoto
    <3>2. "review" \in CheckSteps
      BY DEF CheckSteps
    <3>3. \A new \in CheckRow :
            /\ [checking[r] EXCEPT !.step = "review"] \in HeldChecks
            /\ [checking[r] EXCEPT !.step = "review", !.row = new] \in HeldChecks
      BY <1>1, <3>2 DEF HeldChecks
    <3> QED
      BY <1>1, <2>1, <3>1, <3>3
  <2> QED
    BY <1>1, <1>3, <2>1, <2>2 DEF ResolveReply, CheckGoto
<1>4. ASSUME Review(r) \/ FailBeforeSending(r) \/ CompleteFails(r) PROVE Typed
  <2>1. PICK step \in CheckSteps, answer \in {"NONE", "REJECTED", "AMBIGUOUS"} :
          \/ checking' = [checking EXCEPT ![r] = [checking[r] EXCEPT !.step = step]]
          \/ checking' = [checking EXCEPT
                           ![r] = [checking[r] EXCEPT !.step = step, !.answer = answer]]
    BY <1>4 DEF Review, FailBeforeSending, CompleteFails, CheckGoto, CheckSteps
  <2>2. /\ [checking[r] EXCEPT !.step = step] \in HeldChecks
        /\ [checking[r] EXCEPT !.step = step, !.answer = answer] \in HeldChecks
    BY <1>1 DEF HeldChecks
  <2> QED
    BY <1>1, <1>4, <2>1, <2>2 DEF Review, FailBeforeSending, CompleteFails
<1>5. ASSUME Fence(r) PROVE Typed
  <2>1. [row EXCEPT !.status = "SENDING", !.lease = "LIVE", !.result = checking[r].id,
                    !.hash = checking[r].document] \in CheckRow
    BY <1>1 DEF HeldChecks, CheckRow, Status
  <2>2. checking' \in [CheckRequests -> HeldChecks]
    BY <1>1, <1>5 DEF Fence, CheckGoto, HeldChecks, CheckSteps
  <2> QED
    BY <1>1, <1>5, <2>1, <2>2 DEF Fence, CheckGoto
<1>6. ASSUME Send(r) PROVE Typed
  <2> DEFINE old == checking[r].row
             written == IF old.comment = 0 THEN Append(comments, checking[r].id)
                        ELSE [comments EXCEPT ![old.comment] = checking[r].id]
  <2>1. written \in Seq(Texts)
    <3>1. checking[r].id \in Texts
      BY <1>1 DEF HeldChecks
    <3>2. Append(comments, checking[r].id) \in Seq(Texts)
      BY <1>1, <3>1
    <3>3. [comments EXCEPT ![old.comment] = checking[r].id] \in Seq(Texts)
      <4>1. comments \in [1..Len(comments) -> Texts] /\ Len(comments) \in Nat
        BY <1>1
      <4>2. [comments EXCEPT ![old.comment] = checking[r].id] \in [1..Len(comments) -> Texts]
        BY <3>1, <4>1
      <4> QED
        BY <4>1, <4>2, SeqDef
    <3> QED
      BY <3>2, <3>3
  <2>2. Len(written) \in Nat
    BY <2>1
  <2> HIDE DEF written
  <2>3. /\ comments' \in {comments, written}
        /\ \/ checking' = [checking EXCEPT ![r].step = "complete",
                             ![r].row.comment = IF @ = 0 THEN Len(written) ELSE @]
           \/ checking' = [checking EXCEPT ![r].step = "fail", ![r].answer = "REJECTED"]
           \/ checking' = [checking EXCEPT ![r].step = "fail", ![r].answer = "AMBIGUOUS"]
        /\ UNCHANGED <<row, document, clicks, crashes, overtaken>>
    BY <1>6 DEF Send, written
  <2>4. \A c \in Nat : [checking[r].row EXCEPT !.comment = c] \in CheckRow
    BY <1>1 DEF HeldChecks, CheckRow
  <2>5. checking[r].row.comment \in Nat
    BY <1>1 DEF HeldChecks, CheckRow
  <2>6. checking' \in [CheckRequests -> HeldChecks]
    <3>1. PICK c \in Nat :
            \/ checking' = [checking EXCEPT ![r] = [checking[r] EXCEPT !.step = "complete",
                               !.row = [checking[r].row EXCEPT !.comment = c]]]
            \/ checking' = [checking EXCEPT
                             ![r] = [checking[r] EXCEPT !.step = "fail", !.answer = "REJECTED"]]
            \/ checking' = [checking EXCEPT
                             ![r] = [checking[r] EXCEPT !.step = "fail", !.answer = "AMBIGUOUS"]]
      <4> DEFINE known == IF checking[r].row.comment = 0 THEN Len(written)
                          ELSE checking[r].row.comment
      <4>1. known \in Nat
        BY <2>2, <2>5
      <4>2. \/ checking' = [checking EXCEPT ![r] = [checking[r] EXCEPT !.step = "complete",
                               !.row = [checking[r].row EXCEPT !.comment = known]]]
            \/ checking' = [checking EXCEPT
                             ![r] = [checking[r] EXCEPT !.step = "fail", !.answer = "REJECTED"]]
            \/ checking' = [checking EXCEPT
                             ![r] = [checking[r] EXCEPT !.step = "fail", !.answer = "AMBIGUOUS"]]
        <5>1. ASSUME checking' = [checking EXCEPT ![r].step = "complete",
                             ![r].row.comment = IF @ = 0 THEN Len(written) ELSE @]
              PROVE  checking' = [checking EXCEPT ![r] = [checking[r] EXCEPT !.step = "complete",
                               !.row = [checking[r].row EXCEPT !.comment = known]]]
          <6> DEFINE held == [checking[r] EXCEPT !.step = "complete",
                               !.row = [checking[r].row EXCEPT !.comment = known]]
          <6>1. checking'[r] = held
            BY <1>1, <5>1 DEF HeldChecks
          <6> QED
            BY <1>1, <5>1, <6>1
        <5>2. ASSUME checking' = [checking EXCEPT ![r].step = "fail", ![r].answer = "REJECTED"]
              PROVE  checking' = [checking EXCEPT
                             ![r] = [checking[r] EXCEPT !.step = "fail", !.answer = "REJECTED"]]
          BY <5>2
        <5>3. ASSUME checking' = [checking EXCEPT ![r].step = "fail", ![r].answer = "AMBIGUOUS"]
              PROVE  checking' = [checking EXCEPT
                             ![r] = [checking[r] EXCEPT !.step = "fail", !.answer = "AMBIGUOUS"]]
          BY <5>3
        <5> QED
          BY <2>3, <5>1, <5>2, <5>3
      <4> HIDE DEF known
      <4> QED
        BY <4>1, <4>2
    <3>2. "complete" \in CheckSteps /\ "fail" \in CheckSteps
      BY DEF CheckSteps
    <3>3. \A new \in CheckRow :
            /\ [checking[r] EXCEPT !.step = "complete", !.row = new] \in HeldChecks
            /\ [checking[r] EXCEPT !.step = "fail", !.answer = "REJECTED"] \in HeldChecks
            /\ [checking[r] EXCEPT !.step = "fail", !.answer = "AMBIGUOUS"] \in HeldChecks
      BY <1>1, <3>2 DEF HeldChecks
    <3> QED
      BY <1>1, <2>4, <3>1, <3>3
  <2> QED
    BY <1>1, <2>1, <2>3, <2>6
<1>7. ASSUME Complete(r) PROVE Typed
  <2>1. [row EXCEPT !.status = "COMPLETED", !.lease = "LIVE",
                    !.comment = checking[r].row.comment] \in CheckRow
    BY <1>1 DEF HeldChecks, CheckRow, Status
  <2> QED
    BY <1>1, <1>7, <2>1, EmptyRow DEF Complete, CheckEnd
<1>8. ASSUME Fail(r) PROVE Typed
  <2>1. \A s \in {"UNCERTAIN", "FAILED"} : [row EXCEPT !.status = s, !.lease = "LIVE"] \in CheckRow
    BY <1>1 DEF CheckRow, Status
  <2> QED
    BY <1>1, <1>8, <2>1, EmptyRow DEF Fail, CheckEnd
<1>9. ASSUME Crash(r) PROVE Typed
  <2>1. crashes' \in 0..MaxCrashes
    BY <1>1, <1>9, CheckBounds DEF Crash
  <2> QED
    BY <1>1, <1>9, <2>1, EmptyRow DEF Crash, CheckEnd
<1>10. Typed
  BY <1>2, <1>3, <1>4, <1>5, <1>6, <1>7, <1>8, <1>9 DEF WorkerStep
<1>11. overtaken \in BOOLEAN
  BY DEF SelfCheckInv, CheckTypeOK
<1> QED
  BY <1>1, <1>10, <1>11 DEF CheckTypeOK, HeldChecks
\* There is no comment, or one.
LEMMA NoneOrOne == \A n \in Nat : n <= 1 => n = 0 \/ n = 1
OBVIOUS

\* A request that works leaves the row in order: it is the only one, the row is as it
\* knows it, and the call comes after the reply of a known comment has been resolved.
LEMMA WorkerKeeps ==
  ASSUME SelfCheckInv, NEW r \in CheckRequests, WorkerStep(r)
  PROVE  SelfCheckInv'
<1> DEFINE Kept == CommentIsKnown' /\ TextIsKept' /\ (Working(r)' => OwnsTheRow(r)')
           held == checking[r].row
           step == checking[r].step
<1>1. /\ row \in CheckRow /\ comments \in Seq(Texts)
      /\ checking \in [CheckRequests -> HeldChecks] /\ checking[r] \in HeldChecks
      /\ held \in CheckRow
  BY DEF SelfCheckInv, CheckTypeOK, HeldChecks
<1>2. Working(r)
  BY DEF WorkerStep, Working, CheckAt, CheckSteps, ResolveReply, Review, FailBeforeSending,
         Fence, Send, Complete, CompleteFails, Fail
<1>3. \A q \in CheckRequests : q # r => ~ Working(q)
  BY <1>2 DEF SelfCheckInv, OneWorks
<1>4. /\ OwnsTheRow(r) /\ CommentIsKnown /\ TextIsKept
  BY <1>2 DEF SelfCheckInv, WorkersOwnTheRow
<1>5. ASSUME CheckAt(r, "read"), ReadDocument(r) PROVE Kept
  <2>1. /\ checking'[r].step = "reply" /\ checking'[r].row = held
        /\ UNCHANGED <<row, comments>>
    <3>1. document \in 0..MaxRevisions
      BY CheckBounds DEF SelfCheckInv, CheckTypeOK
    <3> QED
      BY <1>1, <1>5, <3>1, ReadingIsTyped DEF ReadDocument, CheckAt
  <2> QED
    BY <1>4, <1>5, <2>1 DEF OwnsTheRow, CheckAt, CommentIsKnown, TextIsKept, Anchor
<1>6. ASSUME ResolveReply(r) PROVE Kept
  <2>1. /\ step = "reply" /\ comments' = comments
        /\ row.status = "RUNNING" /\ row.comment = held.comment
        /\ row.reply = held.reply /\ row.comment = Len(comments)
    BY <1>4, <1>6 DEF ResolveReply, CheckAt, OwnsTheRow
  <2>2. CASE held.comment = 0 \/ held.reply
    <3>1. /\ row' = row /\ checking'[r].step = "review" /\ checking'[r].row = held
      BY <1>1, <1>6, <2>2 DEF ResolveReply, CheckGoto, HeldChecks
    <3> QED
      BY <1>4, <2>1, <2>2, <3>1 DEF OwnsTheRow, CommentIsKnown, TextIsKept, Anchor
  <2>3. CASE held.comment # 0 /\ ~ held.reply
    <3>1. row' = [row EXCEPT !.reply = TRUE]
      BY <1>6, <2>3 DEF ResolveReply
    <3>2. /\ row'.status = row.status /\ row'.comment = row.comment
          /\ row'.reply = TRUE
      BY <1>1, <3>1 DEF CheckRow
    <3>3. checking' = [checking EXCEPT ![r].step = "review", ![r].row.reply = TRUE]
      BY <1>6, <2>3 DEF ResolveReply
    <3>4. /\ checking'[r].step = "review" /\ checking'[r].row.comment = held.comment
          /\ checking'[r].row.reply = TRUE
      BY <1>1, <3>3 DEF HeldChecks, CheckRow
    <3> QED
      BY <1>4, <2>1, <3>2, <3>4 DEF OwnsTheRow, CommentIsKnown, TextIsKept
  <2> QED
    BY <2>2, <2>3
<1>7. ASSUME Review(r) PROVE Kept
  <2>1. /\ step = "review" /\ UNCHANGED <<row, comments>>
        /\ checking'[r].step = "fence" /\ checking'[r].row = held
    BY <1>1, <1>7 DEF Review, CheckAt, CheckGoto, HeldChecks
  <2> QED
    BY <1>4, <2>1 DEF OwnsTheRow, CommentIsKnown, TextIsKept, Anchor
<1>8. ASSUME FailBeforeSending(r) PROVE Kept
  <2>1. /\ step \in {"read", "reply", "review"} /\ UNCHANGED <<row, comments>>
        /\ checking'[r].step = "fail"
    BY <1>1, <1>8 DEF FailBeforeSending, HeldChecks
  <2> QED
    BY <1>4, <2>1 DEF OwnsTheRow, CommentIsKnown, TextIsKept, Anchor
<1>9. ASSUME Fence(r) PROVE Kept
  <2>1. /\ step = "fence" /\ comments' = comments
        /\ checking'[r].step = "send" /\ checking'[r].row = held
        /\ checking'[r].id = checking[r].id
    BY <1>1, <1>9 DEF Fence, CheckAt, CheckGoto, HeldChecks
  <2>2. row' = [row EXCEPT !.status = "SENDING", !.lease = "LIVE", !.result = checking[r].id,
                           !.hash = checking[r].document]
    BY <1>9 DEF Fence
  <2>3. /\ row'.status = "SENDING" /\ row'.comment = row.comment
        /\ row'.reply = row.reply /\ row'.result = checking[r].id
    BY <1>1, <2>2 DEF CheckRow
  <2> QED
    BY <1>4, <2>1, <2>3 DEF OwnsTheRow, CommentIsKnown, TextIsKept
<1>10. ASSUME Send(r) PROVE Kept
  <2> DEFINE id == checking[r].id
             written == IF held.comment = 0 THEN Append(comments, id)
                        ELSE [comments EXCEPT ![held.comment] = id]
  <2>1. /\ step = "send" /\ row' = row
        /\ row.status = "SENDING" /\ row.comment = held.comment
        /\ row.comment = Len(comments) /\ row.result = id
        /\ held.comment = 0 \/ held.reply
    BY <1>4, <1>10 DEF Send, CheckAt, OwnsTheRow
  <2>2. Len(written) = 1 /\ written[1] = id
    <3>1. id \in Texts /\ Len(comments) \in Nat
      BY <1>1 DEF HeldChecks
    <3>4. Len(comments) = 0 \/ Len(comments) = 1
      BY <1>4, <3>1, NoneOrOne, Zenon DEF CommentIsKnown
    <3>2. CASE Len(comments) = 0
      BY <1>1, <2>1, <3>1, <3>2
    <3>3. CASE Len(comments) = 1
      BY <1>1, <2>1, <3>1, <3>3
    <3> QED
      BY <3>2, <3>3, <3>4
  <2> HIDE DEF written
  <2>3. ASSUME comments' = written,
               checking' = [checking EXCEPT ![r].step = "complete",
                              ![r].row.comment = IF @ = 0 THEN Len(written) ELSE @]
        PROVE  Kept
    <3>1. held.comment = 0 \/ held.comment = 1
      <4>1. Len(comments) \in Nat /\ Len(comments) <= 1 /\ held.comment = Len(comments)
        BY <1>1, <1>4, <2>1 DEF CommentIsKnown
      <4> QED
        BY <4>1, NoneOrOne, Zenon
    <3>2. checking'[r].step = "complete" /\ checking'[r].row.comment = 1
      BY <1>1, <2>2, <2>3, <3>1 DEF HeldChecks, CheckRow
    <3>3. OwnsTheRow(r)'
      BY <2>1, <2>2, <2>3, <3>2 DEF OwnsTheRow
    <3>4. CommentIsKnown' /\ TextIsKept'
      <4>1. /\ row' = row /\ row.status = "SENDING" /\ Len(comments') = 1
            /\ row.comment = 0 \/ row.reply
        BY <1>4, <2>1, <2>2, <2>3 DEF TextIsKept
      <4> QED
        BY <4>1 DEF CommentIsKnown, TextIsKept
    <3> QED
      BY <3>3, <3>4
  <2>4. ASSUME comments' = comments,
               checking' = [checking EXCEPT ![r].step = "fail", ![r].answer = "REJECTED"]
        PROVE  Kept
    <3>1. checking'[r].step = "fail"
      BY <1>1, <2>4 DEF HeldChecks
    <3> QED
      BY <1>4, <2>1, <2>4, <3>1 DEF OwnsTheRow, CommentIsKnown, TextIsKept
  <2>5. ASSUME comments' \in {comments, written},
               checking' = [checking EXCEPT ![r].step = "fail", ![r].answer = "AMBIGUOUS"]
        PROVE  Kept
    <3>1. checking'[r].step = "fail" /\ checking'[r].answer = "AMBIGUOUS"
      BY <1>1, <2>5 DEF HeldChecks
    <3>2. Len(comments') <= 1
      <4>1. Len(comments) <= 1 /\ 1 <= 1
        BY <1>4 DEF CommentIsKnown
      <4> QED
        BY <2>2, <2>5, <4>1
    <3> QED
      BY <1>4, <2>1, <3>1, <3>2 DEF OwnsTheRow, CommentIsKnown, TextIsKept
  <2> QED
    BY <1>10, <2>3, <2>4, <2>5 DEF Send, written
<1>11. ASSUME Complete(r) PROVE Kept
  <2>1. /\ comments' = comments /\ held.comment = 1
        /\ Len(comments) = 1 /\ comments[1] = row.result
    BY <1>4, <1>11 DEF Complete, CheckAt, OwnsTheRow
  <2>2. row' = [row EXCEPT !.status = "COMPLETED", !.lease = "LIVE", !.comment = held.comment]
    BY <1>11 DEF Complete
  <2>3. row'.status = "COMPLETED" /\ row'.comment = 1 /\ row'.result = row.result
    BY <1>1, <2>1, <2>2 DEF CheckRow
  <2>4. ~ Working(r)'
    BY <1>1, <1>11 DEF Complete, CheckEnd, CheckIdle, Working
  <2> QED
    BY <2>1, <2>3, <2>4 DEF CommentIsKnown, TextIsKept
<1>12. ASSUME CompleteFails(r) PROVE Kept
  <2>1. /\ step = "complete" /\ UNCHANGED <<row, comments>>
        /\ checking'[r].step = "fail" /\ checking'[r].answer = "AMBIGUOUS"
    BY <1>1, <1>12 DEF CompleteFails, CheckAt, HeldChecks
  <2> QED
    BY <1>4, <2>1 DEF OwnsTheRow, CommentIsKnown, TextIsKept, Anchor
<1>13. ASSUME Fail(r) PROVE Kept
  <2>1. /\ comments' = comments
        /\ \/ row.status = "RUNNING"
           \/ row.status = "SENDING" /\ (~ Uncertain(r) => row.comment = Len(comments))
    BY <1>4, <1>13 DEF Fail, CheckAt, OwnsTheRow, Uncertain
  <2>2. ~ Working(r)'
    BY <1>1, <1>13 DEF Fail, CheckEnd, CheckIdle, Working
  <2>3. CASE row' = row
    BY <1>4, <2>1, <2>2, <2>3 DEF CommentIsKnown, TextIsKept, Anchor
  <2>4. ASSUME row' = [row EXCEPT !.status = IF Uncertain(r) THEN "UNCERTAIN" ELSE "FAILED",
                                  !.lease = "LIVE"]
        PROVE  Kept
    <3>1. /\ row'.status = IF Uncertain(r) THEN "UNCERTAIN" ELSE "FAILED"
          /\ row'.comment = row.comment /\ row'.reply = row.reply
          /\ row'.archived = row.archived /\ row'.result = row.result
      BY <1>1, <2>4 DEF CheckRow
    <3>2. CommentIsKnown'
      BY <1>4, <2>1, <3>1 DEF CommentIsKnown
    <3>3. TextIsKept'
      BY <1>4, <2>1, <3>1 DEF TextIsKept, Anchor
    <3> QED
      BY <2>2, <3>2, <3>3
  <2> QED
    BY <1>13, <2>3, <2>4 DEF Fail
<1>14. ASSUME Crash(r) PROVE Kept
  <2>1. UNCHANGED <<row, comments>> /\ ~ Working(r)'
    BY <1>1, <1>14 DEF Crash, CheckEnd, CheckIdle, Working
  <2> QED
    BY <1>4, <2>1 DEF CommentIsKnown, TextIsKept, Anchor
<1>15. Kept
  BY <1>5, <1>6, <1>7, <1>8, <1>9, <1>10, <1>11, <1>12, <1>13, <1>14 DEF WorkerStep
<1> QED
  BY <1>3, <1>15, WorkerStaysTyped, AloneIsSafe

\* A lease elapses whether anybody works or not, and the document is nobody's row.
LEMMA SurroundingsKeep ==
  ASSUME SelfCheckInv, LeaseElapses \/ EditDocument \/ UNCHANGED checkVars
  PROVE  SelfCheckInv'
<1>1. ASSUME LeaseElapses PROVE SelfCheckInv'
  <2>1. /\ row' = [row EXCEPT !.lease = "EXPIRED"]
        /\ UNCHANGED <<checking, comments, document, clicks, crashes, overtaken>>
    BY <1>1 DEF LeaseElapses
  <2>2. row \in CheckRow
    BY DEF SelfCheckInv, CheckTypeOK
  <2>3. /\ row' \in CheckRow
        /\ row'.status = row.status /\ row'.comment = row.comment /\ row'.reply = row.reply
        /\ row'.archived = row.archived /\ row'.result = row.result
    BY <2>1, <2>2 DEF CheckRow
  <2>4. CheckTypeOK'
    BY <2>1, <2>3 DEF SelfCheckInv, CheckTypeOK
  <2> QED
    BY <2>1, <2>3, <2>4 DEF SelfCheckInv, OneWorks, Working, WorkersOwnTheRow, OwnsTheRow,
                            CommentIsKnown, TextIsKept, Anchor
<1>2. ASSUME EditDocument \/ UNCHANGED checkVars PROVE SelfCheckInv'
  <2>1. /\ UNCHANGED <<row, checking, comments, clicks, crashes, overtaken>>
        /\ document' \in 1..MaxRevisions
    BY <1>2, CheckBounds DEF EditDocument, checkVars, SelfCheckInv, CheckTypeOK
  <2> QED
    BY <2>1 DEF SelfCheckInv, CheckTypeOK, OneWorks, Working, WorkersOwnTheRow, OwnsTheRow,
                CommentIsKnown, TextIsKept, Anchor
<1> QED
  BY <1>1, <1>2

\* SelfCheckInv holds of every state up to the first attempt that is replaced while its
\* request works: however long requests take, and whenever leases run out.
THEOREM SelfCheckInvariant == CheckSpec => [](overtaken \/ SelfCheckInv)
<1>1. SelfCheckInv /\ [CheckNext]_checkVars => overtaken' \/ SelfCheckInv'
  <2> SUFFICES ASSUME SelfCheckInv, [CheckNext]_checkVars PROVE overtaken' \/ SelfCheckInv'
    OBVIOUS
  <2>1. ASSUME NEW r \in CheckRequests,
               \/ \E id \in Texts, fresh, early \in BOOLEAN : Arrive(r, id, fresh, early)
               \/ Claim(r) \/ ReadDocument(r) \/ Restart(r) \/ ResolveReply(r) \/ Review(r)
               \/ FailBeforeSending(r) \/ Fence(r) \/ Send(r)
               \/ Complete(r) \/ CompleteFails(r) \/ Fail(r) \/ Crash(r)
        PROVE  overtaken' \/ SelfCheckInv'
    BY <2>1, ArrivingKeeps, ClaimKeeps, RestartKeeps, WorkerKeeps DEF WorkerStep, ReadDocument
  <2> QED
    BY <2>1, SurroundingsKeep DEF CheckNext
<1>2. overtaken /\ [CheckNext]_checkVars => overtaken'
  <2> SUFFICES ASSUME overtaken, [CheckNext]_checkVars PROVE overtaken'
    OBVIOUS
  <2>1. ASSUME NEW r \in CheckRequests, Claim(r) PROVE overtaken'
    BY <2>1 DEF Claim
  <2>2. ASSUME NEW r \in CheckRequests, NEW id \in Texts, NEW fresh \in BOOLEAN,
               NEW early \in BOOLEAN, Arrive(r, id, fresh, early)
        PROVE  overtaken'
    BY <2>2 DEF Arrive
  <2>3. ASSUME NEW r \in CheckRequests,
               \/ ReadDocument(r) \/ Restart(r) \/ ResolveReply(r) \/ Review(r)
               \/ FailBeforeSending(r) \/ Fence(r) \/ Send(r)
               \/ Complete(r) \/ CompleteFails(r) \/ Fail(r) \/ Crash(r)
        PROVE  overtaken'
    BY <2>3 DEF ReadDocument, Restart, ResolveReply, Review, FailBeforeSending, Fence, Send,
                Complete, CompleteFails, Fail, Crash
  <2>4. ASSUME LeaseElapses \/ EditDocument \/ UNCHANGED checkVars PROVE overtaken'
    BY <2>4 DEF LeaseElapses, EditDocument, checkVars
  <2> QED
    BY <2>1, <2>2, <2>3, <2>4 DEF CheckNext
<1> QED
  BY SelfCheckInitially, <1>1, <1>2, PTL DEF CheckSpec

\* A document carries one comment of ours at most, a completed self-check says what its
\* comment says, and the text by which an unresolved reply is found is never lost: through
\* crashes, lost answers, repeated clicks, failed attempts, leases that run out under a
\* request that works, and attempts that are taken over from one that is gone.  Only the
\* replacement of an attempt whose request still works can end that.
THEOREM RowsKnowTheirComment == CheckSpec => []RowKnowsItsComment
<1>1. overtaken \/ SelfCheckInv => RowKnowsItsComment
  <2> SUFFICES ASSUME SelfCheckInv PROVE RowKnowsItsComment
    BY DEF RowKnowsItsComment
  <2>1. /\ CheckTypeOK
        /\ row.comment = Len(comments) \/ row.status \in {"SENDING", "UNCERTAIN"}
        /\ comments \in Seq(Texts) /\ Len(comments) <= 1
    BY DEF SelfCheckInv, CommentIsKnown, CheckTypeOK
  <2>2. ASSUME row.comment # 0, row.status \notin {"SENDING", "UNCERTAIN"}
        PROVE  row.comment = 1 /\ 1 \in DOMAIN comments
    BY <2>1, <2>2
  <2> QED
    BY <2>1, <2>2 DEF SelfCheckInv, TextIsKept, RowKnowsItsComment, AtMostOneComment
<1> QED
  BY SelfCheckInvariant, <1>1, PTL
-----------------------------------------------------------------------------
(* The answer of a task: what is on the pages, in the browsers, on the way  *)
(* and on the server.                                                       *)

\* The texts typed so far, in any round.
Written == 0..Len(typing.edition)

\* The rows of the pages, of the commands and of the server, with texts from a set.
DeskRows(texts) == [state : {"closed", "starting", "free", "busy", "asking"},
                    edition : Editions, editable : BOOLEAN, body : texts, saved : texts]
CommandRows(texts) == [kind : {"save", "check", "submit"}, edition : Editions, body : texts,
                       saves : BOOLEAN, from : Pages \cup {NoPage}]
ServerRows(texts) == [stage : BOOLEAN, edition : Editions, editable : BOOLEAN, draft : texts,
                      latest : texts]
TypingRows(texts) == [edition : Seq(Editions), stored : texts,
                      last : [Browsers -> [edition : Editions, body : texts \cup {NoText},
                                           alone : BOOLEAN]]]

\* Everything is well typed, and every text anywhere was typed.
TextsWereTyped ==
  /\ desk \in [Pages -> DeskRows(Written)]
  /\ storage \in [Browsers -> [Editions -> Written \cup {NoText}]]
  /\ server \in ServerRows(Written)
  /\ wire \subseteq CommandRows(Written)
  /\ checks \subseteq Written \ {0}
  /\ typing \in TypingRows(Written)
  /\ Len(typing.edition) <= MaxTexts

\* A text that belongs into the present round of editing: it was typed in it, or handed in
\* before.
Fits(a) == \/ a \in {0, server.latest}
           \/ a \in 1..Len(typing.edition) /\ typing.edition[a] = server.edition

\* The round that is edited now.
Now(e) == e = server.edition /\ server.editable

\* A page is of the present round or an earlier one, and edits as the server does; one that
\* edits an empty text in a browser that holds none is of the first round.
PageFits(p) ==
  /\ desk[p].edition <= server.edition
  /\ desk[p].edition = server.edition => desk[p].editable = server.editable
  /\ Now(desk[p].edition) => Fits(desk[p].body)
  /\ desk[p].editable /\ desk[p].body = 0 /\ Cached(Browser[p], desk[p].edition) = NoText =>
       desk[p].edition = 1

PagesFit == \A p \in Pages : Open(p) => PageFits(p)

\* A command is of the present round or an earlier one, and nothing empty is checked or
\* handed in.
CommandsFit ==
  \A m \in wire :
    /\ m.edition <= server.edition
    /\ Now(m.edition) => Fits(m.body)
    /\ m.kind # "save" => m.body # 0

\* Nothing is stored of rounds to come.
StoragesFit ==
  \A b \in Browsers : \A e \in Editions :
    /\ e > server.edition => storage[b][e] = NoText
    /\ Now(e) => storage[b][e] = NoText \/ Fits(storage[b][e])

\* Only the first round begins with nothing handed in, and only a round has a draft.
ServerFits ==
  /\ server.editable => Fits(server.draft)
  /\ ~ server.editable => server.draft = 0
  /\ server.edition > 1 \/ ~ server.editable => server.latest # 0
  /\ \A a \in 1..Len(typing.edition) : typing.edition[a] <= server.edition

\* The inductive invariant of the rounds.
RoundsInv ==
  /\ TextsWereTyped
  /\ PagesFit
  /\ CommandsFit
  /\ StoragesFit
  /\ ServerFits

\* NoText is none of the texts, nor is a text one that has not been typed.
LEMMA WrittenTexts ==
  ASSUME TextsWereTyped
  PROVE  /\ Len(typing.edition) \in Nat /\ Len(typing.edition) \in Answers
         /\ 0 \in Written /\ Written \subseteq Answers /\ Written \subseteq Nat
         /\ NoText \notin Written /\ NoText # 0
         /\ 1 \in Editions /\ Editions \subseteq Nat
<1>1. typing.edition \in Seq(Editions) /\ MaxTexts \in Nat /\ MaxEdition \in Nat \ {0}
  BY WorkspaceBounds DEF TextsWereTyped, TypingRows
<1>2. Len(typing.edition) \in Nat /\ Len(typing.edition) <= MaxTexts
  BY <1>1 DEF TextsWereTyped
<1> QED
  BY <1>1, <1>2 DEF Written, Answers, NoText, Editions

\* A text that fits still does after another was typed.
LEMMA FittingStays ==
  ASSUME TextsWereTyped, NEW e \in Editions,
         typing'.edition \in {typing.edition, Append(typing.edition, e)},
         server'.edition = server.edition, server'.latest = server.latest
  PROVE  /\ \A a : Fits(a) => Fits(a)'
         /\ Written \subseteq Written'
<1>1. typing.edition \in Seq(Editions)
  BY DEF TextsWereTyped, TypingRows
<1>2. /\ Len(typing'.edition) \in Nat /\ Len(typing.edition) \in Nat
      /\ Len(typing.edition) <= Len(typing'.edition)
      /\ \A a \in 1..Len(typing.edition) : typing'.edition[a] = typing.edition[a]
  BY <1>1
<1> QED
  BY <1>2 DEF Fits, Written

\* What a page opened now shows was typed; in a round of editing, it fits; and it is the
\* empty text for want of any only in the first round.
LEMMA ShownFits ==
  ASSUME RoundsInv, NEW b \in Browsers
  PROVE  /\ Shown(b) \in Written
         /\ server.editable => Fits(Shown(b))
         /\ server.editable /\ Shown(b) = 0 /\ Cached(b, server.edition) = NoText =>
              server.edition = 1
<1>1. /\ server.edition \in Editions /\ server.draft \in Written /\ server.latest \in Written
      /\ storage[b][server.edition] \in Written \cup {NoText}
  BY DEF RoundsInv, TextsWereTyped, ServerRows
<1>2. /\ server.editable => Fits(server.draft) /\ Fits(server.latest)
      /\ server.editable /\ Cached(b, server.edition) # NoText => Fits(Cached(b, server.edition))
  BY <1>1 DEF RoundsInv, ServerFits, StoragesFit, Now, Cached, Key, Fits
<1>3. server.edition \in Nat /\ server.edition >= 1
  BY <1>1, WrittenTexts, WorkspaceBounds DEF RoundsInv, Editions
<1> QED
  BY <1>1, <1>2, <1>3 DEF Shown, Cached, Key, RoundsInv, ServerFits

\* A page writes its text to its browser, under its round, while it edits.
LEMMA PersistWrites ==
  ASSUME TextsWereTyped, NEW p \in Pages, NEW body, Persist(p, body)
  PROVE  /\ \A texts : Written \subseteq texts /\ body \in texts =>
              storage' \in [Browsers -> [Editions -> texts \cup {NoText}]]
         /\ \A b \in Browsers : \A e \in Editions :
              \/ storage'[b][e] = storage[b][e]
              \/ /\ b = Browser[p] /\ e = desk[p].edition /\ Editing(p)
                 /\ storage'[b][e] = body
         /\ Editing(p) => storage'[Browser[p]][desk[p].edition] = body
<1>1. /\ storage \in [Browsers -> [Editions -> Written \cup {NoText}]]
      /\ Browser[p] \in Browsers /\ desk[p].edition \in Editions
  BY BrowserAssumption DEF TextsWereTyped, DeskRows
<1>2. CASE Editing(p)
  <2>1. storage' = [storage EXCEPT ![Browser[p]][desk[p].edition] = body]
    BY <1>2 DEF Persist, Key
  <2> QED
    BY <1>1, <1>2, <2>1
<1>3. CASE ~ Editing(p)
  BY <1>1, <1>3 DEF Persist
<1> QED
  BY <1>2, <1>3

\* A command carries the round and the text of its page.
LEMMA CommandCarries ==
  ASSUME TextsWereTyped, NEW p \in Pages, NEW kind \in {"save", "check", "submit"},
         Command(p, kind)
  PROVE  /\ wire' \subseteq CommandRows(Written)
         /\ \A m \in wire' : \/ m \in wire
                             \/ /\ m.kind = kind /\ m.edition = desk[p].edition
                                /\ m.body = desk[p].body /\ m.saves = desk[p].editable
<1>1. desk[p] \in DeskRows(Written)
  BY DEF TextsWereTyped
<1> QED
  BY <1>1 DEF Command, TextsWereTyped, DeskRows, CommandRows

\* A command nobody waits for is what it was.
LEMMA UnansweredCarries ==
  ASSUME TextsWereTyped, NEW p
  PROVE  /\ Unanswered(p) \subseteq CommandRows(Written)
         /\ \A m \in Unanswered(p) : \E n \in wire :
              m.kind = n.kind /\ m.edition = n.edition /\ m.body = n.body /\ m.saves = n.saves
<1> SUFFICES ASSUME NEW n \in wire
             PROVE  LET m == IF n.from = p THEN [n EXCEPT !.from = NoPage] ELSE n
                    IN  /\ m \in CommandRows(Written)
                        /\ m.kind = n.kind /\ m.edition = n.edition /\ m.body = n.body
                        /\ m.saves = n.saves
  BY DEF Unanswered
<1>1. n \in CommandRows(Written)
  BY DEF TextsWereTyped
<1> QED
  BY <1>1 DEF CommandRows
\* Nothing is typed, stored or on the way at first.
LEMMA RoundsInitially == WorkspaceInit => RoundsInv
<1> SUFFICES ASSUME WorkspaceInit PROVE RoundsInv
  OBVIOUS
<1>1. /\ typing.edition = <<>> /\ typing.stored = 0
      /\ typing.last = [b \in Browsers |-> NothingTyped]
      /\ typing = [edition |-> <<>>, stored |-> 0, last |-> [b \in Browsers |-> NothingTyped]]
      /\ \A p \in Pages : desk[p] = Blank
      /\ desk = [p \in Pages |-> Blank]
      /\ storage = [b \in Browsers |-> [e \in Editions |-> NoText]]
      /\ wire = {} /\ checks = {}
      /\ server \in [stage : BOOLEAN, edition : {1}, editable : {TRUE}, draft : {0}, latest : {0}]
  BY DEF WorkspaceInit
<1>2. /\ Len(typing.edition) = 0 /\ Written = 0..0 /\ 0 \in Written
      /\ 1 \in Editions /\ 0 <= MaxTexts /\ Editions \subseteq Nat
  BY <1>1, WorkspaceBounds DEF Written, Editions
<1>3. Blank \in DeskRows(Written) /\ Blank.state = "closed"
  BY <1>2 DEF Blank, DeskRows
<1>4. /\ server \in ServerRows(Written) /\ server.edition = 1 /\ server.editable = TRUE
      /\ server.draft = 0
  BY <1>1, <1>2 DEF ServerRows
<1>5. typing \in TypingRows(Written)
  <2>1. <<>> \in Seq(Editions)
    OBVIOUS
  <2>2. [b \in Browsers |-> NothingTyped]
          \in [Browsers -> [edition : Editions, body : Written \cup {NoText}, alone : BOOLEAN]]
    BY <1>2 DEF NothingTyped
  <2> QED
    BY <1>1, <1>2, <2>1, <2>2 DEF TypingRows
<1>6. TextsWereTyped
  BY <1>1, <1>2, <1>3, <1>4, <1>5 DEF TextsWereTyped
<1>7. PagesFit /\ CommandsFit
  BY <1>1, <1>3 DEF PagesFit, CommandsFit, Open
<1>8. StoragesFit
  BY <1>1 DEF StoragesFit
<1>9. ServerFits
  BY <1>2, <1>4 DEF ServerFits, Fits
<1> QED
  BY <1>6, <1>7, <1>8, <1>9 DEF RoundsInv

\* A step within a round is safe if what it writes fits: the draft, the text of a page, of
\* a command, and of a storage.
LEMMA WithinTheRound ==
  ASSUME RoundsInv, TextsWereTyped', NEW now \in Editions, now <= server.edition,
         typing'.edition \in {typing.edition, Append(typing.edition, now)},
         server'.edition = server.edition, server'.latest = server.latest,
         server'.editable = server.editable,
         server'.draft = server.draft \/ (server.editable /\ Fits(server'.draft)),
         \A p \in Pages :
           \/ Open(p) /\ desk'[p].edition = desk[p].edition
              /\ desk'[p].editable = desk[p].editable /\ desk'[p].body = desk[p].body
           \/ Open(p)' => PageFits(p)',
         \A m \in wire' :
           \/ \E n \in wire : m.kind = n.kind /\ m.edition = n.edition /\ m.body = n.body
           \/ /\ m.edition <= server.edition
              /\ Now(m.edition) => Fits(m.body)
              /\ m.kind # "save" => m.body # 0,
         \A b \in Browsers : \A e \in Editions :
           \/ storage'[b][e] = storage[b][e]
           \/ storage'[b][e] # NoText /\ e <= server.edition /\ (Now(e) => Fits(storage[b][e])')
  PROVE  RoundsInv'
<1>1. \A a : Fits(a) => Fits(a)'
  BY FittingStays DEF RoundsInv
<1>2. \A e : Now(e)' = Now(e)
  BY DEF Now
<1>3. PagesFit'
  <2> SUFFICES ASSUME NEW p \in Pages, Open(p), PageFits(p),
                      desk'[p].edition = desk[p].edition,
                      desk'[p].editable = desk[p].editable, desk'[p].body = desk[p].body
               PROVE  PageFits(p)'
    BY DEF RoundsInv, PagesFit
  <2>1. /\ Browser[p] \in Browsers /\ desk[p].edition \in Editions
    BY BrowserAssumption DEF RoundsInv, TextsWereTyped, DeskRows
  <2>2. storage'[Browser[p]][desk[p].edition] = NoText =>
          storage[Browser[p]][desk[p].edition] = NoText
    BY <2>1
  <2> QED
    BY <1>1, <1>2, <2>2 DEF PageFits, Cached, Key
<1>4. CommandsFit'
  <2> SUFFICES ASSUME NEW m \in wire'
               PROVE  /\ m.edition <= server.edition
                      /\ Now(m.edition) => Fits(m.body)
                      /\ m.kind # "save" => m.body # 0
    BY <1>1, <1>2 DEF CommandsFit
  <2> QED
    BY DEF RoundsInv, CommandsFit
<1>5. StoragesFit'
  <2> SUFFICES ASSUME NEW b \in Browsers, NEW e \in Editions
               PROVE  /\ e > server.edition => storage'[b][e] = NoText
                      /\ Now(e) => storage'[b][e] = NoText \/ Fits(storage[b][e])'
    BY <1>2 DEF StoragesFit
  <2>1. e \in Nat /\ server.edition \in Nat
    BY WrittenTexts DEF RoundsInv, TextsWereTyped, ServerRows
  <2> QED
    BY <1>1, <2>1 DEF RoundsInv, StoragesFit
<1>6. ServerFits'
  <2>1. \A a \in 1..Len(typing'.edition) : typing'.edition[a] <= server.edition
    <3>1. typing.edition \in Seq(Editions)
      BY DEF RoundsInv, TextsWereTyped, TypingRows
    <3>2. \A a \in 1..Len(typing.edition) : typing.edition[a] <= server.edition
      BY DEF RoundsInv, ServerFits
    <3> QED
      BY <3>1, <3>2
  <2> QED
    BY <1>1, <2>1 DEF RoundsInv, ServerFits
<1> QED
  BY <1>3, <1>4, <1>5, <1>6 DEF RoundsInv
\* A step into the next round is safe: what is on pages, on the way or stored is of rounds
\* before.
LEMMA IntoTheNextRound ==
  ASSUME RoundsInv, TextsWereTyped', server'.edition = server.edition + 1,
         typing'.edition = typing.edition, storage' = storage,
         server'.latest # 0,
         server'.editable => server'.draft \in {0, server'.latest},
         ~ server'.editable => server'.draft = 0,
         \A p \in Pages : desk'[p] = desk[p] \/ ~ Open(p)',
         \A m \in wire' :
           \E n \in wire : m.kind = n.kind /\ m.edition = n.edition /\ m.body = n.body
  PROVE  RoundsInv'
<1>1. /\ server.edition \in Nat /\ server'.edition \in Nat /\ server.edition >= 1
      /\ \A p \in Pages : desk[p].edition \in Nat
      /\ \A m \in wire : m.edition \in Nat
      /\ Editions \subseteq Nat
  BY WrittenTexts DEF RoundsInv, TextsWereTyped, ServerRows, DeskRows, CommandRows, Editions
<1>2. PagesFit'
  BY <1>1 DEF RoundsInv, PagesFit, PageFits, Open, Now, Cached, Key
<1>3. CommandsFit'
  <2> SUFFICES ASSUME NEW m \in wire'
               PROVE  m.edition < server'.edition /\ (m.kind # "save" => m.body # 0)
    BY <1>1 DEF CommandsFit, Now
  <2> QED
    BY <1>1 DEF RoundsInv, CommandsFit
<1>4. StoragesFit'
  <2> SUFFICES ASSUME NEW b \in Browsers, NEW e \in Editions, e >= server'.edition
               PROVE  storage[b][e] = NoText
    BY <1>1 DEF StoragesFit, Now
  <2> QED
    BY <1>1 DEF RoundsInv, StoragesFit
<1>5. ServerFits'
  <2>1. \A a \in 1..Len(typing.edition) :
          typing.edition[a] \in Nat /\ typing.edition[a] <= server.edition
    <3>1. typing.edition \in Seq(Editions)
      BY DEF RoundsInv, TextsWereTyped, TypingRows
    <3>2. \A a \in 1..Len(typing.edition) : typing.edition[a] \in Editions
      BY <3>1
    <3>3. \A a \in 1..Len(typing.edition) : typing.edition[a] <= server.edition
      BY DEF RoundsInv, ServerFits
    <3> QED
      BY <1>1, <3>2, <3>3
  <2> QED
    BY <1>1, <2>1 DEF ServerFits, Fits
<1> QED
  BY <1>2, <1>3, <1>4, <1>5 DEF RoundsInv

\* A page that is opened, refreshed or left.
LEMMA OpeningKeeps ==
  ASSUME RoundsInv, NEW p \in Pages, OpenPage(p) \/ LeavePage(p) \/ Refresh(p)
  PROVE  RoundsInv'
<1> DEFINE b == Browser[p]
<1>1. /\ TextsWereTyped /\ desk \in [Pages -> DeskRows(Written)] /\ desk[p] \in DeskRows(Written)
      /\ server \in ServerRows(Written) /\ b \in Browsers
      /\ UNCHANGED <<storage, server, checks, typing>>
  BY BrowserAssumption DEF RoundsInv, TextsWereTyped, OpenPage, LeavePage, Refresh
<1>2. /\ Shown(b) \in Written /\ (server.editable => Fits(Shown(b)))
      /\ server.editable /\ Shown(b) = 0 /\ Cached(b, server.edition) = NoText =>
           server.edition = 1
  BY <1>1, ShownFits
<1>3. wire' \subseteq CommandRows(Written) /\ \A m \in wire' :
        \E n \in wire : m.kind = n.kind /\ m.edition = n.edition /\ m.body = n.body
  <2>1. CASE wire' = wire
    BY <1>1, <2>1 DEF TextsWereTyped
  <2>2. CASE wire' = Unanswered(p)
    BY <1>1, <2>2, UnansweredCarries
  <2> QED
    BY <2>1, <2>2 DEF OpenPage, LeavePage, Refresh
<1>4. /\ 1 \in Editions /\ 0 \in Written
  BY <1>1, WrittenTexts
<1>5. PICK new \in DeskRows(Written) :
        /\ desk' = [desk EXCEPT ![p] = new]
        /\ \/ new.state = "closed"
           \/ /\ new.edition = server.edition /\ new.editable = server.editable
              /\ new.body = Shown(b)
  <2>1. CASE OpenPage(p)
    <3>1. Fetched(p) \in DeskRows(Written)
      BY <1>1, <1>2 DEF Fetched, DeskRows, ServerRows
    <3>2. /\ Fetched(p).edition = server.edition /\ Fetched(p).editable = server.editable
          /\ Fetched(p).body = Shown(b)
      BY DEF Fetched
    <3> QED
      BY <2>1, <3>1, <3>2 DEF OpenPage
  <2>2. CASE LeavePage(p)
    <3>1. Blank \in DeskRows(Written) /\ Blank.state = "closed"
      BY <1>4 DEF Blank, DeskRows
    <3> QED
      BY <2>2, <3>1 DEF LeavePage
  <2>3. CASE Refresh(p)
    <3> DEFINE new == [Fetched(p) EXCEPT !.state = desk[p].state]
    <3>1. new \in DeskRows(Written)
      BY <1>1, <1>2 DEF Fetched, DeskRows, ServerRows
    <3>2. /\ new.edition = server.edition /\ new.editable = server.editable
          /\ new.body = Shown(b)
      BY DEF Fetched
    <3>3. desk' = [desk EXCEPT ![p] = new]
      BY <2>3 DEF Refresh
    <3> QED
      BY <3>1, <3>2, <3>3
  <2> QED
    BY <2>1, <2>2, <2>3
<1>6. TextsWereTyped'
  BY <1>1, <1>3, <1>5 DEF TextsWereTyped, Written
<1>7. \A q \in Pages :
        \/ Open(q) /\ desk'[q].edition = desk[q].edition
           /\ desk'[q].editable = desk[q].editable /\ desk'[q].body = desk[q].body
        \/ Open(q)' => PageFits(q)'
  <2>1. ASSUME Open(p)' PROVE PageFits(p)'
    <3>1. /\ desk'[p].edition = server.edition /\ desk'[p].editable = server.editable
          /\ desk'[p].body = Shown(b)
      BY <1>1, <1>5, <2>1 DEF Open
    <3>2. Fits(Shown(b)) => Fits(Shown(b))'
      BY <1>1 DEF Fits, Shown, Cached
    <3>3. server.edition <= server.edition
      BY <1>1, WrittenTexts DEF ServerRows
    <3> QED
      BY <1>1, <1>2, <3>1, <3>2, <3>3 DEF PageFits, Now, Cached, Fits
  <2>2. ASSUME NEW q \in Pages, q # p PROVE desk'[q] = desk[q] /\ (Open(q)' => Open(q))
    BY <1>1, <1>5, <2>2 DEF Open
  <2> QED
    BY <2>1, <2>2
<1>8. server.edition \in Editions /\ server.edition <= server.edition
  BY <1>1, WrittenTexts DEF ServerRows
<1> QED
  BY <1>1, <1>3, <1>6, <1>7, <1>8, WithinTheRound

\* The commands of a page that is free.
LEMMA AskingKeeps ==
  ASSUME RoundsInv, NEW p \in Pages,
         Autosave(p) \/ SelfCheck(p) \/ SubmitTask(p) \/ FinishSelfCheck(p)
  PROVE  RoundsInv'
<1>1. /\ TextsWereTyped /\ desk \in [Pages -> DeskRows(Written)] /\ desk[p] \in DeskRows(Written)
      /\ server \in ServerRows(Written) /\ Browser[p] \in Browsers
      /\ UNCHANGED <<server, checks, typing>>
      /\ Open(p) /\ PageFits(p)
  BY BrowserAssumption
     DEF RoundsInv, TextsWereTyped, PagesFit, Autosave, SelfCheck, SubmitTask, FinishSelfCheck,
         Free, Open, Editing
<1>2. PICK state \in {"free", "asking", "busy"} :
        desk' = desk \/ desk' = [desk EXCEPT ![p].state = state]
  BY DEF Autosave, SelfCheck, SubmitTask, FinishSelfCheck
<1>3. /\ desk' \in [Pages -> DeskRows(Written)]
      /\ \A q \in Pages : /\ desk'[q].edition = desk[q].edition
                          /\ desk'[q].editable = desk[q].editable
                          /\ desk'[q].body = desk[q].body
                          /\ Open(q)' => Open(q)
  BY <1>1, <1>2 DEF DeskRows, Open
<1>4. storage' = storage \/ Persist(p, desk[p].body)
  BY DEF Autosave, SelfCheck, SubmitTask, FinishSelfCheck
<1>5. /\ storage' \in [Browsers -> [Editions -> Written \cup {NoText}]]
      /\ \A b \in Browsers : \A e \in Editions :
           \/ storage'[b][e] = storage[b][e]
           \/ e = desk[p].edition /\ storage'[b][e] = desk[p].body
  BY <1>1, <1>4, PersistWrites DEF TextsWereTyped, DeskRows
<1>6. /\ wire' \subseteq CommandRows(Written)
      /\ \A m \in wire' :
           \/ \E n \in wire : m.kind = n.kind /\ m.edition = n.edition /\ m.body = n.body
           \/ /\ m.edition = desk[p].edition /\ m.body = desk[p].body
              /\ m.kind # "save" => m.body # 0
  <2>1. CASE Autosave(p)
    BY <1>1, <2>1, CommandCarries DEF Autosave
  <2>2. CASE SelfCheck(p)
    BY <1>1, <2>2, CommandCarries DEF SelfCheck
  <2>3. CASE SubmitTask(p)
    BY <1>1, <2>3, CommandCarries DEF SubmitTask
  <2>4. CASE FinishSelfCheck(p)
    BY <1>1, <2>4, UnansweredCarries DEF FinishSelfCheck
  <2> QED
    BY <2>1, <2>2, <2>3, <2>4
<1>7. TextsWereTyped'
  BY <1>1, <1>3, <1>5, <1>6 DEF TextsWereTyped, Written
<1>8. desk[p].body # NoText /\ desk[p].edition <= server.edition
  BY <1>1, WrittenTexts DEF PageFits, DeskRows
<1>9. Now(desk[p].edition) => Fits(desk[p].body)
  BY <1>1 DEF PageFits
<1>10. \A b \in Browsers : \A e \in Editions :
         \/ storage'[b][e] = storage[b][e]
         \/ storage'[b][e] # NoText /\ e <= server.edition /\ (Now(e) => Fits(storage[b][e])')
  BY <1>1, <1>5, <1>8, <1>9 DEF Fits
<1>11. server.edition \in Editions /\ server.edition <= server.edition
  BY <1>1, WrittenTexts DEF ServerRows
<1>12. \A q \in Pages :
         \/ Open(q) /\ desk'[q].edition = desk[q].edition
            /\ desk'[q].editable = desk[q].editable /\ desk'[q].body = desk[q].body
         \/ Open(q)' => PageFits(q)'
  BY <1>3
<1>13. \A m \in wire' :
         \/ \E n \in wire : m.kind = n.kind /\ m.edition = n.edition /\ m.body = n.body
         \/ /\ m.edition <= server.edition
            /\ Now(m.edition) => Fits(m.body)
            /\ m.kind # "save" => m.body # 0
  BY <1>6, <1>8, <1>9
<1> QED
  BY <1>1, <1>7, <1>10, <1>11, <1>12, <1>13, WithinTheRound
\* All that is typed stays typed when another text is.
LEMMA RowsGrow ==
  ASSUME NEW small, NEW large, small \subseteq large
  PROVE  /\ DeskRows(small) \subseteq DeskRows(large)
         /\ ServerRows(small) \subseteq ServerRows(large)
         /\ CommandRows(small) \subseteq CommandRows(large)
<1>1. DeskRows(small) \subseteq DeskRows(large)
  BY DEF DeskRows
<1>2. ServerRows(small) \subseteq ServerRows(large)
  BY DEF ServerRows
<1>3. CommandRows(small) \subseteq CommandRows(large)
  BY DEF CommandRows
<1> QED
  BY <1>1, <1>2, <1>3

\* Typing: the text is the next one, of the round of its page.
LEMMA TypingMoves ==
  ASSUME RoundsInv, NEW p \in Pages, NEW body \in Answers, Type(p, body)
  PROVE  /\ TextsWereTyped'
         /\ desk[p].edition \in Editions
         /\ typing'.edition \in {typing.edition, Append(typing.edition, desk[p].edition)}
         /\ body = 0 \/ (body \in 1..Len(typing'.edition) /\ typing'.edition[body] = desk[p].edition)
         /\ typing'.last = [typing.last EXCEPT ![Browser[p]] =
                              [edition |-> desk[p].edition, body |-> body,
                               alone |-> ~ Beside(p)]]
         /\ desk' = [desk EXCEPT ![p].body = body]
<1> DEFINE b == Browser[p]
           e == desk[p].edition
           edition == IF body = 0 THEN typing.edition ELSE Append(typing.edition, e)
           entry == [edition |-> e, body |-> body, alone |-> ~ Beside(p)]
           last == [typing.last EXCEPT ![b] = entry]
<1>1. /\ TextsWereTyped /\ desk \in [Pages -> DeskRows(Written)] /\ desk[p] \in DeskRows(Written)
      /\ typing \in TypingRows(Written) /\ b \in Browsers /\ e \in Editions
      /\ storage \in [Browsers -> [Editions -> Written \cup {NoText}]]
      /\ server \in ServerRows(Written) /\ wire \subseteq CommandRows(Written)
      /\ checks \subseteq Written \ {0} /\ Len(typing.edition) <= MaxTexts
  BY BrowserAssumption DEF RoundsInv, TextsWereTyped, DeskRows
<1>2. /\ UNCHANGED <<server, wire, checks>>
      /\ desk' = [desk EXCEPT ![p].body = body]
      /\ Persist(p, body)
      /\ body \in {0, Len(typing.edition) + 1}
      /\ typing' = [typing EXCEPT !.edition = edition, !.last = last]
  <2>1. typing' = [typing EXCEPT !.edition = edition, !.last[b] = entry]
    BY DEF Type
  <2>2. [typing EXCEPT !.edition = edition, !.last[b] = entry]
          = [typing EXCEPT !.edition = edition, !.last = last]
    OBVIOUS
  <2> QED
    BY <2>1, <2>2 DEF Type
<1>3. edition \in Seq(Editions) /\ typing.edition \in Seq(Editions)
  BY <1>1 DEF TypingRows
<1>4. /\ typing'.edition = edition /\ typing'.last = last /\ typing'.stored = typing.stored
      /\ typing' = [edition |-> edition, stored |-> typing.stored, last |-> last]
  <2> HIDE DEF edition, last
  <2> QED
    BY <1>1, <1>2 DEF TypingRows
<1>5. /\ Len(edition) \in Nat /\ Len(edition) <= MaxTexts /\ body \in 0..Len(edition)
      /\ body = 0 \/ (body \in 1..Len(edition) /\ edition[body] = e)
      /\ Len(typing.edition) <= Len(edition)
  <2>1. Len(typing.edition) \in Nat /\ body <= MaxTexts /\ MaxTexts \in Nat
    BY <1>3, WorkspaceBounds DEF Answers
  <2> QED
    BY <1>1, <1>2, <1>3, <2>1
<1>6. /\ Written' = 0..Len(edition) /\ Written \subseteq Written' /\ body \in Written'
  <2>1. Len(typing.edition) \in Nat
    BY <1>3
  <2>2. Written' = 0..Len(edition)
    BY <1>4 DEF Written
  <2> HIDE DEF edition
  <2> QED
    BY <1>5, <2>1, <2>2 DEF Written
<1>7. typing' \in TypingRows(Written')
  <2>1. last \in [Browsers -> [edition : Editions, body : Written' \cup {NoText},
                               alone : BOOLEAN]]
    <3>1. typing.last \in [Browsers -> [edition : Editions, body : Written' \cup {NoText},
                                        alone : BOOLEAN]]
      BY <1>1, <1>6 DEF TypingRows
    <3>2. entry \in [edition : Editions, body : Written' \cup {NoText}, alone : BOOLEAN]
      BY <1>1, <1>6
    <3> HIDE DEF entry
    <3> QED
      BY <1>1, <3>1, <3>2
  <2>2. typing.stored \in Written'
    BY <1>1, <1>6 DEF TypingRows
  <2> HIDE DEF edition, last
  <2> QED
    BY <1>3, <1>4, <2>1, <2>2 DEF TypingRows
<1>8. desk' \in [Pages -> DeskRows(Written')]
  <2>1. desk \in [Pages -> DeskRows(Written')] /\ desk[p] \in DeskRows(Written')
    BY <1>1, <1>6, RowsGrow
  <2>2. [desk[p] EXCEPT !.body = body] \in DeskRows(Written')
    BY <1>6, <2>1 DEF DeskRows
  <2> QED
    BY <1>2, <2>1, <2>2
<1>9. storage' \in [Browsers -> [Editions -> Written' \cup {NoText}]]
  BY <1>1, <1>2, <1>6, PersistWrites
<1>10. /\ server' \in ServerRows(Written') /\ wire' \subseteq CommandRows(Written')
       /\ checks' \subseteq Written' \ {0}
  BY <1>1, <1>2, <1>6, RowsGrow
<1>11. TextsWereTyped'
  BY <1>4, <1>5, <1>7, <1>8, <1>9, <1>10 DEF TextsWereTyped
<1> QED
  BY <1>1, <1>2, <1>4, <1>5, <1>11

\* A text that is typed fits the round of its page.
LEMMA TypeKeeps ==
  ASSUME RoundsInv, NEW p \in Pages, NEW body \in Answers, Type(p, body)
  PROVE  RoundsInv'
<1> DEFINE e == desk[p].edition
<1>1. /\ TextsWereTyped /\ desk[p] \in DeskRows(Written) /\ server \in ServerRows(Written)
      /\ desk \in [Pages -> DeskRows(Written)] /\ Browser[p] \in Browsers /\ e \in Editions
  BY BrowserAssumption DEF RoundsInv, TextsWereTyped, DeskRows
<1>2. /\ UNCHANGED <<server, wire>> /\ Persist(p, body) /\ Editing(p) /\ Open(p)
      /\ PageFits(p) /\ e <= server.edition
  BY DEF Type, RoundsInv, PagesFit, PageFits, Editing
<1>3. /\ TextsWereTyped'
      /\ typing'.edition \in {typing.edition, Append(typing.edition, e)}
      /\ body = 0 \/ (body \in 1..Len(typing'.edition) /\ typing'.edition[body] = e)
      /\ desk' = [desk EXCEPT ![p].body = body]
  BY TypingMoves
<1>4. Now(e) => Fits(body)'
  BY <1>2, <1>3 DEF Now, Fits
<1>5. /\ \A b \in Browsers : \A n \in Editions :
           \/ storage'[b][n] = storage[b][n]
           \/ n = e /\ storage'[b][n] = body
      /\ storage'[Browser[p]][e] = body
  BY <1>1, <1>2, PersistWrites
<1>6. body # NoText
  BY WorkspaceBounds DEF Answers, NoText
<1>7. PageFits(p)'
  <2>1. /\ desk'[p].edition = e /\ desk'[p].editable = desk[p].editable /\ desk'[p].body = body
    BY <1>1, <1>3 DEF DeskRows
  <2> QED
    BY <1>2, <1>4, <1>5, <1>6, <2>1 DEF PageFits, Now, Fits, Cached, Key
<1> QED
  <2>1. \A q \in Pages : q # p => desk'[q] = desk[q] /\ (Open(q)' => Open(q))
    BY <1>1, <1>3 DEF Open
  <2>2. \A q \in Pages :
          \/ Open(q) /\ desk'[q].edition = desk[q].edition
             /\ desk'[q].editable = desk[q].editable /\ desk'[q].body = desk[q].body
          \/ Open(q)' => PageFits(q)'
    BY <1>7, <2>1
  <2>3. \A b \in Browsers : \A n \in Editions :
          \/ storage'[b][n] = storage[b][n]
          \/ storage'[b][n] # NoText /\ n <= server.edition /\ (Now(n) => Fits(storage[b][n])')
    BY <1>2, <1>4, <1>5, <1>6 DEF Fits
  <2> QED
    BY <1>1, <1>2, <1>3, <2>2, <2>3, WithinTheRound

\* A page without any text is given that of a check only in the first round, of which all
\* texts are.
LEMMA PollKeeps ==
  ASSUME RoundsInv, NEW p \in Pages, NEW body \in Answers, Poll(p, body)
  PROVE  RoundsInv'
<1> DEFINE e == desk[p].edition
<1>1. /\ TextsWereTyped /\ desk[p] \in DeskRows(Written) /\ server \in ServerRows(Written)
      /\ desk \in [Pages -> DeskRows(Written)] /\ Browser[p] \in Browsers /\ e \in Editions
      /\ checks \subseteq Written \ {0} /\ typing.edition \in Seq(Editions)
  BY BrowserAssumption DEF RoundsInv, TextsWereTyped, DeskRows, TypingRows
<1>2. /\ UNCHANGED <<server, wire, checks, typing>> /\ Open(p) /\ PageFits(p)
      /\ e <= server.edition
  BY DEF Poll, RoundsInv, PagesFit, PageFits
<1>3. /\ body \in Written /\ body # NoText
      /\ Now(e) => Fits(body)
      /\ e = 1 \/ body = desk[p].body
  <2>1. CASE body = desk[p].body
    BY <1>1, <1>2, <2>1, WrittenTexts DEF PageFits, DeskRows
  <2>2. CASE body # desk[p].body
    <3>1. /\ body \in checks /\ desk[p].editable /\ desk[p].body = 0
          /\ Cached(Browser[p], e) = NoText
      BY <2>2 DEF Poll, Editing
    <3>2. e = 1
      BY <1>2, <3>1 DEF PageFits
    <3>3. body \in Written /\ body # 0
      BY <1>1, <3>1
    <3>4. body \in 1..Len(typing.edition)
      BY <1>1, <3>3 DEF Written
    <3>5. typing.edition[body] \in Nat /\ typing.edition[body] >= 1
      BY <1>1, <3>4, WorkspaceBounds DEF Editions
    <3>6. typing.edition[body] <= server.edition
      BY <3>4 DEF RoundsInv, ServerFits
    <3>7. Now(e) => Fits(body)
      BY <3>2, <3>4, <3>5, <3>6 DEF Now, Fits
    <3> QED
      BY <1>1, <3>2, <3>3, <3>7, WrittenTexts
  <2> QED
    BY <2>1, <2>2
<1>4. PICK state \in {"free", "busy", "asking"} :
        desk' = [desk EXCEPT ![p].body = body, ![p].state = state]
  <2> DEFINE new == IF ~ (desk[p].state = "asking" \/ checks # {}) THEN "free"
                    ELSE IF desk[p].state = "asking" THEN desk[p].state ELSE "busy"
  <2>1. new \in {"free", "busy", "asking"}
    OBVIOUS
  <2>2. desk' = [desk EXCEPT ![p].body = body, ![p].state = new]
    BY DEF Poll
  <2> HIDE DEF new
  <2> QED
    BY <2>1, <2>2
<1>5. /\ desk' \in [Pages -> DeskRows(Written)]
      /\ desk'[p].edition = e /\ desk'[p].editable = desk[p].editable /\ desk'[p].body = body
      /\ \A q \in Pages : q # p => desk'[q] = desk[q] /\ (Open(q)' => Open(q))
  <2> DEFINE new == [desk[p] EXCEPT !.body = body, !.state = state]
  <2>1. /\ new \in DeskRows(Written) /\ new.edition = e /\ new.editable = desk[p].editable
        /\ new.body = body
    BY <1>1, <1>3 DEF DeskRows
  <2>2. desk' = [desk EXCEPT ![p] = new]
    BY <1>4
  <2> HIDE DEF new
  <2> QED
    BY <1>1, <2>1, <2>2 DEF Open
<1>6. storage' = storage \/ Persist(p, body)
  BY DEF Poll
<1>7. /\ storage' \in [Browsers -> [Editions -> Written \cup {NoText}]]
      /\ \A b \in Browsers : \A n \in Editions :
           \/ storage'[b][n] = storage[b][n]
           \/ n = e /\ storage'[b][n] = body
  BY <1>1, <1>3, <1>6, PersistWrites DEF TextsWereTyped
<1>8. TextsWereTyped'
  BY <1>1, <1>2, <1>5, <1>7 DEF TextsWereTyped, Written
<1>9. Now(e) => Fits(body)'
  BY <1>2, <1>3 DEF Fits
<1>10. PageFits(p)'
  <2>1. storage'[Browser[p]][e] = NoText => storage[Browser[p]][e] = NoText
    BY <1>1, <1>3, <1>7
  <2> QED
    BY <1>2, <1>3, <1>5, <1>9, <2>1 DEF PageFits, Now, Fits, Cached, Key
<1>11. \A q \in Pages :
         \/ Open(q) /\ desk'[q].edition = desk[q].edition
            /\ desk'[q].editable = desk[q].editable /\ desk'[q].body = desk[q].body
         \/ Open(q)' => PageFits(q)'
  BY <1>5, <1>10
<1>12. \A b \in Browsers : \A n \in Editions :
         \/ storage'[b][n] = storage[b][n]
         \/ storage'[b][n] # NoText /\ n <= server.edition /\ (Now(n) => Fits(storage[b][n])')
  BY <1>2, <1>3, <1>7, <1>9 DEF Fits
<1> QED
  BY <1>1, <1>2, <1>8, <1>11, <1>12, WithinTheRound

\* The server takes only what is of the present round.
LEMMA StoringMoves ==
  ASSUME RoundsInv, NEW m \in wire, Accepted(m), Stored(m.body)
  PROVE  /\ server' \in ServerRows(Written) /\ typing' \in TypingRows(Written)
         /\ typing'.edition = typing.edition /\ typing'.last = typing.last
         /\ server'.edition = server.edition /\ server'.latest = server.latest
         /\ server'.editable = server.editable /\ server'.draft = m.body
         /\ server.editable /\ Fits(m.body)
<1>1. /\ m \in CommandRows(Written) /\ server \in ServerRows(Written)
      /\ typing \in TypingRows(Written) /\ m.body \in Written
      /\ server.editable /\ Fits(m.body)
  BY DEF RoundsInv, TextsWereTyped, CommandsFit, Accepted, Now, CommandRows
<1>2. server' = [server EXCEPT !.draft = m.body]
  BY DEF Stored
<1>3. PICK stored \in Written : typing' = [typing EXCEPT !.stored = stored]
  <2> DEFINE new == IF m.body > typing.stored \/ (m.body = 0 /\ Cleared) THEN m.body
                    ELSE typing.stored
  <2>1. new \in Written
    BY <1>1 DEF TypingRows
  <2>2. typing' = [typing EXCEPT !.stored = new]
    BY DEF Stored
  <2> HIDE DEF new
  <2> QED
    BY <2>1, <2>2
<1>4. /\ server' \in ServerRows(Written) /\ server'.edition = server.edition
      /\ server'.latest = server.latest /\ server'.editable = server.editable
      /\ server'.draft = m.body
  BY <1>1, <1>2 DEF ServerRows
<1>5. /\ typing' \in TypingRows(Written)
      /\ typing'.edition = typing.edition /\ typing'.last = typing.last
  BY <1>1, <1>3 DEF TypingRows
<1> QED
  BY <1>1, <1>4, <1>5

\* A save or a check arrives, and the draft is replaced by a text of the round, or refused.
LEMMA SavingKeeps ==
  ASSUME RoundsInv, NEW m \in wire,
         (\E counted \in BOOLEAN : SaveArrives(m, counted)) \/ CheckArrives(m)
  PROVE  RoundsInv'
<1>1. /\ TextsWereTyped /\ desk \in [Pages -> DeskRows(Written)]
      /\ server \in ServerRows(Written) /\ m \in CommandRows(Written) /\ m.body \in Written
      /\ server.edition \in Editions /\ server.edition <= server.edition
  <2>1. server \in ServerRows(Written) /\ m \in CommandRows(Written)
    BY DEF RoundsInv, TextsWereTyped
  <2> QED
    BY <2>1, WrittenTexts DEF RoundsInv, TextsWereTyped, ServerRows, CommandRows
<1>2. /\ storage' = storage /\ wire' = wire \ {m}
      /\ (Accepted(m) /\ Stored(m.body)) \/ UNCHANGED <<server, typing>>
  BY DEF SaveArrives, CheckArrives
<1>3. /\ server' \in ServerRows(Written) /\ typing' \in TypingRows(Written)
      /\ typing'.edition = typing.edition
      /\ server'.edition = server.edition /\ server'.latest = server.latest
      /\ server'.editable = server.editable
      /\ server'.draft = server.draft \/ (server.editable /\ Fits(server'.draft))
  <2>1. CASE Accepted(m) /\ Stored(m.body)
    BY <2>1, StoringMoves
  <2>2. CASE UNCHANGED <<server, typing>>
    BY <2>2 DEF RoundsInv, TextsWereTyped
  <2> QED
    BY <1>2, <2>1, <2>2
<1>4. \/ desk' = desk
      \/ m.from \in Pages /\ desk' = [desk EXCEPT ![m.from].saved = m.body]
      \/ m.from \notin Pages /\ desk' = [desk EXCEPT ![m.from].saved = m.body]
  BY DEF SaveArrives, CheckArrives
<1>5. /\ desk' \in [Pages -> DeskRows(Written)]
      /\ \A q \in Pages : /\ desk'[q].edition = desk[q].edition
                          /\ desk'[q].editable = desk[q].editable
                          /\ desk'[q].body = desk[q].body
                          /\ Open(q)' => Open(q)
  <2>1. CASE m.from \in Pages /\ desk' = [desk EXCEPT ![m.from].saved = m.body]
    <3> DEFINE new == [desk[m.from] EXCEPT !.saved = m.body]
    <3>1. /\ new \in DeskRows(Written) /\ new.edition = desk[m.from].edition
          /\ new.editable = desk[m.from].editable /\ new.body = desk[m.from].body
          /\ new.state = desk[m.from].state
      BY <1>1, <2>1 DEF DeskRows
    <3>2. desk' = [desk EXCEPT ![m.from] = new]
      BY <2>1
    <3> HIDE DEF new
    <3> QED
      BY <1>1, <2>1, <3>1, <3>2 DEF Open
  <2>2. CASE desk' = desk
    BY <1>1, <2>2 DEF Open
  <2>3. CASE m.from \notin Pages /\ desk' = [desk EXCEPT ![m.from].saved = m.body]
    <3>1. desk' = desk
      BY <1>1, <2>3
    <3> QED
      BY <1>1, <3>1 DEF Open
  <2> QED
    BY <1>4, <2>1, <2>2, <2>3
<1>6. checks' \subseteq Written \ {0}
  <2>1. m.kind = "check" => m.body # 0
    BY DEF RoundsInv, CommandsFit
  <2> QED
    BY <1>1, <2>1 DEF SaveArrives, CheckArrives, RoundsInv, TextsWereTyped
<1>7. TextsWereTyped'
  BY <1>1, <1>2, <1>3, <1>5, <1>6 DEF RoundsInv, TextsWereTyped, Written
<1>8. \A q \in Pages :
        \/ Open(q) /\ desk'[q].edition = desk[q].edition
           /\ desk'[q].editable = desk[q].editable /\ desk'[q].body = desk[q].body
        \/ Open(q)' => PageFits(q)'
  BY <1>5
<1>9. \A n \in wire' :
        \E o \in wire : n.kind = o.kind /\ n.edition = o.edition /\ n.body = o.body
  BY <1>2
<1> QED
  BY <1>1, <1>2, <1>3, <1>7, <1>8, <1>9, WithinTheRound

\* The steps that end a round and begin the next one.
LEMMA TurningKeeps ==
  ASSUME RoundsInv,
         \/ \E p \in Pages : StartRevision(p) \/ CancelRevision(p)
         \/ \E m \in wire : Accepted(m) /\ SubmitArrives(m)
         \/ ReturnTask
  PROVE  RoundsInv'
<1> DEFINE Turned ==
      /\ server' \in ServerRows(Written) /\ typing' \in TypingRows(Written)
      /\ desk' \in [Pages -> DeskRows(Written)]
      /\ server'.edition = server.edition + 1
      /\ typing'.edition = typing.edition
      /\ UNCHANGED <<storage, checks>> /\ wire' \subseteq wire
      /\ server'.latest # 0
      /\ server'.editable => server'.draft \in {0, server'.latest}
      /\ ~ server'.editable => server'.draft = 0
      /\ \A p \in Pages : desk'[p] = desk[p] \/ ~ Open(p)'
<1>1. /\ TextsWereTyped /\ desk \in [Pages -> DeskRows(Written)]
      /\ server \in ServerRows(Written) /\ typing \in TypingRows(Written)
      /\ 0 \in Written /\ 1 \in Editions
      /\ server.edition < MaxEdition => server.edition + 1 \in Editions
  <2>1. TextsWereTyped /\ server.edition \in Editions
    BY DEF RoundsInv, TextsWereTyped, ServerRows
  <2> QED
    BY <2>1, WrittenTexts, WorkspaceBounds DEF TextsWereTyped, Editions
<1>2. Blank \in DeskRows(Written) /\ Blank.state = "closed"
  BY <1>1 DEF Blank, DeskRows
<1>3. ~ server.editable => server.draft = 0 /\ server.latest # 0
  BY DEF RoundsInv, ServerFits
<1>4. ASSUME NEW p \in Pages, StartRevision(p) PROVE Turned
  <2>1. /\ server.edition < MaxEdition /\ server.latest # 0
        /\ desk' = [desk EXCEPT ![p] = Blank] /\ UNCHANGED <<storage, wire, checks>>
        /\ server' = [server EXCEPT !.editable = TRUE, !.edition = @ + 1, !.draft = server.latest]
        /\ typing' = [typing EXCEPT !.stored = server.latest]
    BY <1>4 DEF StartRevision, RevisionCommand
  <2>2. /\ server' \in ServerRows(Written) /\ server'.edition = server.edition + 1
        /\ server'.latest = server.latest /\ server'.draft = server.latest
        /\ server'.editable = TRUE
    BY <1>1, <2>1 DEF ServerRows
  <2>3. typing' \in TypingRows(Written) /\ typing'.edition = typing.edition
    BY <1>1, <2>1 DEF TypingRows, ServerRows
  <2> QED
    BY <1>1, <1>2, <2>1, <2>2, <2>3 DEF Open
<1>5. ASSUME NEW p \in Pages, CancelRevision(p) PROVE Turned
  <2>1. /\ server.edition < MaxEdition /\ server.latest # 0
        /\ desk' = [desk EXCEPT ![p] = Blank] /\ UNCHANGED <<storage, wire, checks>>
        /\ server' = [server EXCEPT !.editable = FALSE, !.edition = @ + 1, !.draft = 0]
        /\ typing' = [typing EXCEPT !.stored = 0]
    BY <1>5 DEF CancelRevision, RevisionCommand
  <2>2. /\ server' \in ServerRows(Written) /\ server'.edition = server.edition + 1
        /\ server'.latest = server.latest /\ server'.draft = 0 /\ server'.editable = FALSE
    BY <1>1, <2>1 DEF ServerRows
  <2>3. typing' \in TypingRows(Written) /\ typing'.edition = typing.edition
    BY <1>1, <2>1 DEF TypingRows
  <2> QED
    BY <1>1, <1>2, <2>1, <2>2, <2>3 DEF Open
<1>6. ASSUME NEW m \in wire, Accepted(m), SubmitArrives(m) PROVE Turned
  <2>1. /\ server.edition < MaxEdition /\ UNCHANGED <<storage, checks>> /\ wire' \subseteq wire
        /\ desk' = desk \/ desk' = [desk EXCEPT ![m.from] = Blank]
        /\ server' = [server EXCEPT !.editable = FALSE, !.edition = @ + 1, !.draft = 0,
                                    !.latest = m.body]
        /\ typing' = [typing EXCEPT !.stored = 0]
    BY <1>6 DEF SubmitArrives
  <2>2. m.body \in Written /\ m.body # 0
    BY <1>6 DEF SubmitArrives, RoundsInv, TextsWereTyped, CommandRows, CommandsFit
  <2>3. /\ server' \in ServerRows(Written) /\ server'.edition = server.edition + 1
        /\ server'.latest = m.body /\ server'.draft = 0 /\ server'.editable = FALSE
    BY <1>1, <2>1, <2>2 DEF ServerRows
  <2>4. typing' \in TypingRows(Written) /\ typing'.edition = typing.edition
    BY <1>1, <2>1 DEF TypingRows
  <2>5. /\ desk' \in [Pages -> DeskRows(Written)]
        /\ \A p \in Pages : desk'[p] = desk[p] \/ ~ Open(p)'
    BY <1>1, <1>2, <2>1 DEF Open
  <2> QED
    BY <2>1, <2>2, <2>3, <2>4, <2>5
<1>7. ASSUME ReturnTask PROVE Turned
  <2>1. /\ server.edition < MaxEdition /\ ~ server.editable
        /\ UNCHANGED <<desk, storage, wire, checks, typing>>
        /\ server' = [server EXCEPT !.editable = TRUE, !.edition = @ + 1]
    BY <1>7 DEF ReturnTask
  <2>2. /\ server' \in ServerRows(Written) /\ server'.edition = server.edition + 1
        /\ server'.latest = server.latest /\ server'.draft = server.draft
        /\ server'.editable = TRUE
    BY <1>1, <2>1 DEF ServerRows
  <2> QED
    BY <1>1, <1>3, <2>1, <2>2
<1>8. ASSUME Turned PROVE RoundsInv'
  <2>1. TextsWereTyped'
    BY <1>1, <1>8 DEF TextsWereTyped, Written
  <2>2. \A m \in wire' :
          \E n \in wire : m.kind = n.kind /\ m.edition = n.edition /\ m.body = n.body
    BY <1>8
  <2> QED
    BY <1>8, <2>1, <2>2, IntoTheNextRound
<1> QED
  BY <1>4, <1>5, <1>6, <1>7, <1>8

\* What is lost, refused, or happens to a check touches no text.
LEMMA MishapsKeep ==
  ASSUME RoundsInv,
         \/ \E m \in wire : Lose(m) \/ (~ Accepted(m) /\ SubmitArrives(m))
         \/ \E a \in checks : CheckEnds(a) \/ ProcessDies(a)
         \/ UNCHANGED workspaceVars
  PROVE  RoundsInv'
<1>1. /\ TextsWereTyped /\ server.edition \in Editions /\ server.edition <= server.edition
  <2>1. TextsWereTyped /\ server.edition \in Editions
    BY DEF RoundsInv, TextsWereTyped, ServerRows
  <2> QED
    BY <2>1, WrittenTexts
<1> DEFINE Slight ==
      /\ UNCHANGED <<desk, storage, server, typing>> /\ checks' \subseteq checks
      /\ wire' \subseteq CommandRows(Written)
      /\ \A m \in wire' :
           \E n \in wire : m.kind = n.kind /\ m.edition = n.edition /\ m.body = n.body
<1>2. ASSUME NEW m \in wire, Lose(m) PROVE Slight
  <2>1. UNCHANGED <<desk, storage, server, typing, checks>>
    BY <1>2 DEF Lose
  <2>2. CASE wire' = Unanswered(m.from)
    BY <1>1, <2>1, <2>2, UnansweredCarries
  <2>3. CASE wire' = wire \ {m}
    BY <1>1, <2>1, <2>3 DEF TextsWereTyped
  <2> QED
    BY <1>2, <2>2, <2>3 DEF Lose
<1>3. ASSUME NEW m \in wire, ~ Accepted(m), SubmitArrives(m) PROVE Slight
  BY <1>1, <1>3 DEF SubmitArrives, TextsWereTyped
<1>4. ASSUME NEW a \in checks, CheckEnds(a) \/ ProcessDies(a) PROVE Slight
  BY <1>1, <1>4 DEF CheckEnds, ProcessDies, TextsWereTyped
<1>5. ASSUME UNCHANGED workspaceVars PROVE Slight
  BY <1>1, <1>5 DEF workspaceVars, TextsWereTyped
<1>6. ASSUME Slight PROVE RoundsInv'
  <2>1. TextsWereTyped'
    BY <1>1, <1>6 DEF TextsWereTyped, Written
  <2>2. \A p \in Pages :
          \/ Open(p) /\ desk'[p].edition = desk[p].edition
             /\ desk'[p].editable = desk[p].editable /\ desk'[p].body = desk[p].body
          \/ Open(p)' => PageFits(p)'
    BY <1>6 DEF Open
  <2> QED
    BY <1>1, <1>6, <2>1, <2>2, WithinTheRound
<1> QED
  BY <1>2, <1>3, <1>4, <1>5, <1>6

\* RoundsInv holds of every reachable state.
THEOREM RoundsInvariant == WorkspaceSpec => []RoundsInv
<1>1. RoundsInv /\ [WorkspaceNext]_workspaceVars => RoundsInv'
  BY OpeningKeeps, AskingKeeps, TypeKeeps, PollKeeps, SavingKeeps, TurningKeeps, MishapsKeep
     DEF WorkspaceNext
<1> QED
  BY RoundsInitially, <1>1, PTL DEF WorkspaceSpec

\* What was typed in one round of editing and not handed in does not come back in another:
\* not from the storage of any browser, not by a save that arrives late, and not from a
\* check that still runs; with any number of pages, of one browser or several.
THEOREM RoundsStayApart == WorkspaceSpec => []RoundsDoNotMix
<1>1. RoundsInv => RoundsDoNotMix
  <2> SUFFICES ASSUME RoundsInv, server.editable PROVE RoundsDoNotMix
    BY DEF RoundsDoNotMix
  <2>1. \A p \in Pages : Open(p) /\ desk[p].edition = server.edition => Fits(desk[p].body)
    BY DEF RoundsInv, PagesFit, PageFits, Now
  <2>2. Fits(server.draft) /\ \A b \in Browsers : Fits(Shown(b))
    BY ShownFits DEF RoundsInv, ServerFits
  <2> QED
    BY <2>1, <2>2 DEF RoundsDoNotMix, Fits
<1> QED
  BY RoundsInvariant, <1>1, PTL

\* A text was typed last in the browser, and alone in its round.
TypedAlone(b) == typing.last[b].body # NoText /\ typing.last[b].alone

\* What was typed last in a browser is in its storage, and on every page that edits the
\* round it was typed in: the tabs of the browser that were opened since.
LastIsStored ==
  \A b \in Browsers : TypedAlone(b) =>
    storage[b][typing.last[b].edition] = typing.last[b].body

LastIsShown ==
  \A p \in Pages :
    Editing(p) /\ TypedAlone(Browser[p]) /\ typing.last[Browser[p]].edition = desk[p].edition =>
      desk[p].body = typing.last[Browser[p]].body

\* The inductive invariant of what was typed.
TypedInv == RoundsInv /\ LastIsStored /\ LastIsShown

\* A step that types nothing, stores nothing and gives no page another text to edit.
LEMMA LastStays ==
  ASSUME TypedInv, storage' = storage, typing'.last = typing.last,
         \A p \in Pages : Editing(p)' =>
           /\ Editing(p)
           /\ desk'[p].edition = desk[p].edition /\ desk'[p].body = desk[p].body
  PROVE  LastIsStored' /\ LastIsShown'
BY DEF TypedInv, TypedAlone, LastIsStored, LastIsShown

\* A new text is stored as it is typed, and if it is typed alone, no other tab shows its
\* round.
LEMMA TypeStores ==
  ASSUME TypedInv, NEW p \in Pages, NEW body \in Answers, Type(p, body)
  PROVE  LastIsStored' /\ LastIsShown'
<1>1. /\ Browser \in [Pages -> Browsers] /\ desk \in [Pages -> DeskRows(Written)]
      /\ typing.last \in [Browsers -> [edition : Editions, body : Written \cup {NoText},
                                       alone : BOOLEAN]]
      /\ RoundsInv
  BY BrowserAssumption DEF TypedInv, RoundsInv, TextsWereTyped, TypingRows
<1>2. /\ typing'.last = [typing.last EXCEPT ![Browser[p]] =
                           [edition |-> desk[p].edition, body |-> body, alone |-> ~ Beside(p)]]
      /\ desk' = [desk EXCEPT ![p].body = body]
      /\ desk[p].edition \in Editions
  BY <1>1, TypingMoves
<1>3. /\ \A b \in Browsers : \A e \in Editions :
           storage'[b][e] = storage[b][e] \/ (b = Browser[p] /\ e = desk[p].edition)
      /\ storage'[Browser[p]][desk[p].edition] = body
  BY <1>1, PersistWrites DEF Type, RoundsInv
<1>4. LastIsStored'
  <2> SUFFICES ASSUME NEW b \in Browsers, TypedAlone(b)'
               PROVE  storage'[b][typing'.last[b].edition] = typing'.last[b].body
    BY DEF LastIsStored
  <2>1. CASE b = Browser[p]
    BY <1>1, <1>2, <1>3, <2>1
  <2>2. CASE b # Browser[p]
    <3>1. typing'.last[b] = typing.last[b] /\ typing.last[b].edition \in Editions
      BY <1>1, <1>2, <2>2
    <3> QED
      BY <1>3, <2>2, <3>1 DEF TypedInv, TypedAlone, LastIsStored
  <2> QED
    BY <2>1, <2>2
<1>5. LastIsShown'
  <2> SUFFICES ASSUME NEW q \in Pages, Editing(q)', TypedAlone(Browser[q])',
                      typing'.last[Browser[q]].edition = desk'[q].edition
               PROVE  desk'[q].body = typing'.last[Browser[q]].body
    BY DEF LastIsShown
  <2>1. CASE q = p
    BY <1>1, <1>2, <2>1 DEF DeskRows
  <2>2. CASE q # p
    <3>1. desk'[q] = desk[q] /\ Editing(q) /\ desk'[p].edition = desk[p].edition
      BY <1>1, <1>2, <2>2 DEF Editing, Open, DeskRows
    <3>2. Browser[q] # Browser[p]
      <4> SUFFICES ASSUME Browser[q] = Browser[p] PROVE FALSE
        OBVIOUS
      <4>1. /\ typing'.last[Browser[q]].edition = desk[p].edition
            /\ typing'.last[Browser[q]].alone = ~ Beside(p)
        BY <1>1, <1>2
      <4>2. ~ Beside(p)
        BY <4>1 DEF TypedAlone
      <4> QED
        BY <2>2, <3>1, <4>1, <4>2 DEF Beside
    <3>3. typing'.last[Browser[q]] = typing.last[Browser[q]]
      BY <1>1, <1>2, <3>2
    <3> QED
      BY <3>1, <3>3 DEF TypedInv, TypedAlone, LastIsShown
  <2> QED
    BY <2>1, <2>2
<1> QED
  BY <1>4, <1>5

\* What the browser has stored of this round is what a page opened in it starts with.
LEMMA StoredIsShown ==
  ASSUME TypedInv, server.editable, NEW b \in Browsers,
         typing.last[b].edition = server.edition, TypedAlone(b)
  PROVE  Shown(b) = typing.last[b].body
<1> DEFINE text == typing.last[b].body
           cell == Cached(b, server.edition)
<1>1. cell = text /\ text # NoText
  BY DEF TypedInv, TypedAlone, LastIsStored, Cached, Key
<1>2. server.editable /\ cell # NoText
  BY <1>1
<1> HIDE DEF cell
<1>3. Shown(b) = cell
  BY <1>2 DEF Shown, cell
<1> QED
  BY <1>1, <1>3

\* A page that is opened or refreshed shows what its browser has stored.
LEMMA OpeningShows ==
  ASSUME TypedInv, NEW p \in Pages, OpenPage(p) \/ Refresh(p)
  PROVE  LastIsStored' /\ LastIsShown'
<1>3. /\ desk \in [Pages -> DeskRows(Written)] /\ Browser[p] \in Browsers
      /\ typing.last \in [Browsers -> [edition : Editions, body : Written \cup {NoText},
                                       alone : BOOLEAN]]
  BY BrowserAssumption DEF TypedInv, RoundsInv, TextsWereTyped, TypingRows
<1>1. /\ UNCHANGED <<storage, server, typing>>
      /\ \A q \in Pages : q # p => desk'[q] = desk[q]
  BY <1>3 DEF OpenPage, Refresh
<1>2. LastIsStored'
  BY <1>1 DEF TypedInv, TypedAlone, LastIsStored
<1>4. /\ desk'[p].edition = server.edition /\ desk'[p].editable = server.editable
      /\ desk'[p].body = Shown(Browser[p])
  <2>1. /\ Fetched(p).edition = server.edition /\ Fetched(p).editable = server.editable
        /\ Fetched(p).body = Shown(Browser[p])
        /\ [Fetched(p) EXCEPT !.state = desk[p].state].edition = server.edition
        /\ [Fetched(p) EXCEPT !.state = desk[p].state].editable = server.editable
        /\ [Fetched(p) EXCEPT !.state = desk[p].state].body = Shown(Browser[p])
    BY DEF Fetched
  <2>2. desk'[p] \in {Fetched(p), [Fetched(p) EXCEPT !.state = desk[p].state]}
    BY <1>3 DEF OpenPage, Refresh
  <2> QED
    BY <2>1, <2>2
<1>5. ASSUME server.editable, TypedAlone(Browser[p]),
             typing.last[Browser[p]].edition = server.edition
      PROVE  Shown(Browser[p]) = typing.last[Browser[p]].body
  BY <1>3, <1>5, StoredIsShown
<1>6. LastIsShown'
  <2> SUFFICES ASSUME NEW q \in Pages, Editing(q)', TypedAlone(Browser[q]),
                      typing.last[Browser[q]].edition = desk'[q].edition
               PROVE  desk'[q].body = typing.last[Browser[q]].body
    BY <1>1 DEF LastIsShown, TypedAlone
  <2>1. CASE q = p
    BY <1>4, <1>5, <2>1 DEF Editing
  <2>2. CASE q # p
    BY <1>1, <2>2 DEF TypedInv, LastIsShown, Editing, Open
  <2> QED
    BY <2>1, <2>2
<1> QED
  BY <1>2, <1>6

\* A page that writes its text writes what was typed last, or nothing was.
LEMMA WritingStores ==
  ASSUME TypedInv, NEW p \in Pages, NEW body, body = desk[p].body \/ ~ Editing(p)
           \/ Cached(Browser[p], desk[p].edition) = NoText,
         storage' = storage \/ Persist(p, body),
         typing' = typing,
         \A q \in Pages : q # p => desk'[q] = desk[q],
         desk'[p].edition = desk[p].edition, desk'[p].editable = desk[p].editable,
         desk'[p].body = body, Editing(p)' => Editing(p)
  PROVE  LastIsStored' /\ LastIsShown'
<1>1. /\ Browser[p] \in Browsers /\ desk[p].edition \in Editions /\ RoundsInv
      /\ \A b \in Browsers : typing.last[b].edition \in Editions
  BY BrowserAssumption DEF TypedInv, RoundsInv, TextsWereTyped, TypingRows, DeskRows
<1>2. ASSUME Editing(p), TypedAlone(Browser[p]),
             typing.last[Browser[p]].edition = desk[p].edition
      PROVE  body = typing.last[Browser[p]].body
  BY <1>1, <1>2 DEF TypedInv, TypedAlone, LastIsStored, LastIsShown, Cached, Key
<1>3. \A b \in Browsers : \A e \in Editions :
        \/ storage'[b][e] = storage[b][e]
        \/ b = Browser[p] /\ e = desk[p].edition /\ Editing(p) /\ storage'[b][e] = body
  BY <1>1, PersistWrites DEF RoundsInv
<1>4. LastIsStored'
  <2> SUFFICES ASSUME NEW b \in Browsers, TypedAlone(b)
               PROVE  storage'[b][typing.last[b].edition] = typing.last[b].body
    BY DEF LastIsStored, TypedAlone
  <2> QED
    BY <1>1, <1>2, <1>3 DEF TypedInv, LastIsStored
<1>5. LastIsShown'
  <2> SUFFICES ASSUME NEW q \in Pages, Editing(q)', TypedAlone(Browser[q]),
                      typing.last[Browser[q]].edition = desk'[q].edition
               PROVE  desk'[q].body = typing.last[Browser[q]].body
    BY DEF LastIsShown, TypedAlone
  <2>1. CASE q = p
    BY <1>2, <2>1
  <2>2. CASE q # p
    BY <2>2 DEF TypedInv, LastIsShown, Editing, Open
  <2> QED
    BY <2>1, <2>2
<1> QED
  BY <1>4, <1>5

\* The commands of a page, its checks and its polls.
LEMMA PageStores ==
  ASSUME TypedInv, NEW p \in Pages,
         \/ Autosave(p) \/ SelfCheck(p) \/ SubmitTask(p) \/ FinishSelfCheck(p)
         \/ \E body \in Answers : Poll(p, body)
  PROVE  LastIsStored' /\ LastIsShown'
<1>1. desk \in [Pages -> DeskRows(Written)]
  BY DEF TypedInv, RoundsInv, TextsWereTyped
<1>2. ASSUME Autosave(p) \/ SelfCheck(p) \/ SubmitTask(p) \/ FinishSelfCheck(p)
      PROVE  LastIsStored' /\ LastIsShown'
  <2>1. PICK state \in {"free", "asking", "busy"} :
          desk' = desk \/ desk' = [desk EXCEPT ![p].state = state]
    BY <1>2 DEF Autosave, SelfCheck, SubmitTask, FinishSelfCheck
  <2>2. /\ \A q \in Pages : q # p => desk'[q] = desk[q]
        /\ desk'[p].edition = desk[p].edition /\ desk'[p].editable = desk[p].editable
        /\ desk'[p].body = desk[p].body
    BY <1>1, <2>1 DEF DeskRows
  <2>3. /\ storage' = storage \/ Persist(p, desk[p].body)
        /\ typing' = typing /\ Open(p)
    BY <1>2 DEF Autosave, SelfCheck, SubmitTask, FinishSelfCheck, Editing, Free, Open
  <2>4. Editing(p)' => Editing(p)
    BY <2>2, <2>3 DEF Editing
  <2> QED
    BY <2>2, <2>3, <2>4, WritingStores
<1>3. ASSUME NEW body \in Answers, Poll(p, body) PROVE LastIsStored' /\ LastIsShown'
  <2>1. /\ storage' = storage \/ Persist(p, body)
        /\ typing' = typing /\ Open(p)
        /\ body = desk[p].body \/ Cached(Browser[p], desk[p].edition) = NoText
    BY <1>3 DEF Poll
  <2>2. /\ \A q \in Pages : q # p => desk'[q] = desk[q]
        /\ desk'[p].edition = desk[p].edition /\ desk'[p].editable = desk[p].editable
        /\ desk'[p].body = body
    <3>1. PICK state : desk' = [desk EXCEPT ![p].body = body, ![p].state = state]
      BY <1>3 DEF Poll
    <3> QED
      BY <1>1, <3>1 DEF DeskRows
  <2>3. Editing(p)' => Editing(p)
    BY <2>1, <2>2 DEF Editing
  <2> QED
    BY <2>1, <2>2, <2>3, WritingStores
<1> QED
  BY <1>2, <1>3

\* Neither the server nor what goes wrong touches what is stored or typed in a browser.
LEMMA ServerStoresNothing ==
  ASSUME TypedInv,
         \/ \E p \in Pages : LeavePage(p) \/ StartRevision(p) \/ CancelRevision(p)
         \/ \E m \in wire : \/ \E counted \in BOOLEAN : SaveArrives(m, counted)
                            \/ CheckArrives(m) \/ SubmitArrives(m) \/ Lose(m)
         \/ ReturnTask
         \/ \E a \in checks : CheckEnds(a) \/ ProcessDies(a)
         \/ UNCHANGED workspaceVars
  PROVE  LastIsStored' /\ LastIsShown'
<1>1. /\ desk \in [Pages -> DeskRows(Written)] /\ typing \in TypingRows(Written)
  BY DEF TypedInv, RoundsInv, TextsWereTyped
<1>2. storage' = storage
  BY DEF LeavePage, StartRevision, CancelRevision, RevisionCommand, SaveArrives, CheckArrives,
         SubmitArrives, Lose, ReturnTask, CheckEnds, ProcessDies, workspaceVars
<1>3. typing' = typing \/ \E stored : typing' = [typing EXCEPT !.stored = stored]
  BY DEF LeavePage, StartRevision, CancelRevision, SaveArrives, CheckArrives, SubmitArrives,
         Lose, ReturnTask, CheckEnds, ProcessDies, workspaceVars, Stored
<1>4. typing'.last = typing.last
  BY <1>1, <1>3 DEF TypingRows
<1>5. \/ desk' = desk
      \/ \E p : desk' = [desk EXCEPT ![p] = Blank]
      \/ \E p, body : desk' = [desk EXCEPT ![p].saved = body]
  BY DEF LeavePage, StartRevision, CancelRevision, RevisionCommand, SaveArrives, CheckArrives,
         SubmitArrives, Lose, ReturnTask, CheckEnds, ProcessDies, workspaceVars
<1>6. ASSUME NEW p \in Pages, Editing(p)'
      PROVE  /\ Editing(p)
             /\ desk'[p].edition = desk[p].edition /\ desk'[p].body = desk[p].body
  BY <1>1, <1>5, <1>6 DEF Editing, Open, Blank, DeskRows
<1> QED
  BY <1>2, <1>4, <1>6, LastStays

\* TypedInv holds of every reachable state, with any number of tabs in a browser.
THEOREM TypedInvariant == WorkspaceSpec => []TypedInv
<1>1. WorkspaceInit => TypedInv
  <2> SUFFICES ASSUME WorkspaceInit PROVE LastIsStored /\ LastIsShown
    BY RoundsInitially DEF TypedInv
  <2>1. /\ \A b \in Browsers : typing.last[b].body = NoText
        /\ \A p \in Pages : Browser[p] \in Browsers
    BY BrowserAssumption DEF WorkspaceInit, NothingTyped
  <2> QED
    BY <2>1 DEF TypedAlone, LastIsStored, LastIsShown
<1>2. RoundsInv /\ [WorkspaceNext]_workspaceVars => RoundsInv'
  BY OpeningKeeps, AskingKeeps, TypeKeeps, PollKeeps, SavingKeeps, TurningKeeps, MishapsKeep
     DEF WorkspaceNext
<1>3. TypedInv /\ [WorkspaceNext]_workspaceVars => LastIsStored' /\ LastIsShown'
  <2> SUFFICES ASSUME TypedInv, [WorkspaceNext]_workspaceVars
               PROVE  LastIsStored' /\ LastIsShown'
    OBVIOUS
  <2> QED
    BY TypeStores, OpeningShows, PageStores, ServerStoresNothing DEF WorkspaceNext
<1>4. TypedInv /\ [WorkspaceNext]_workspaceVars => TypedInv'
  BY <1>2, <1>3 DEF TypedInv
<1> QED
  BY <1>1, <1>4, PTL DEF WorkspaceSpec

\* Wherever the page is left, and whatever of its commands is lost, late or refused, the
\* page shows what was last typed in this browser, as long as this round of editing lasts:
\* with any number of tabs, unless it was typed beside another that edits the same round.
THEOREM TypedTextSurvives == WorkspaceSpec => []NothingTypedIsLost
<1>1. TypedInv => NothingTypedIsLost
  <2> SUFFICES ASSUME TypedInv, server.editable, NEW b \in Browsers,
                      typing.last[b].edition = server.edition, TypedAlone(b)
               PROVE  Shown(b) = typing.last[b].body
    BY DEF NothingTypedIsLost, TypedAlone
  <2> QED
    BY StoredIsShown
<1> QED
  BY TypedInvariant, <1>1, PTL
=============================================================================
