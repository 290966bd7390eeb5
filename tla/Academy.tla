------------------------------- MODULE Academy -------------------------------
(***************************************************************************)
(* One course of the AI academy: its publication and, for what learners    *)
(* share, its review; the uploaded videos it may show; one learner's       *)
(* record of it; and the generated cover, cached in one row.               *)
(*                                                                         *)
(* A command on the course locks its row, reads it again and is one step.  *)
(* Covers are made outside of any lock: a request looks at the course,     *)
(* claims the cover row, works for up to minutes and writes the result, in *)
(* transactions of their own, while the course is edited, hidden and       *)
(* reviewed and claims lapse.  A background task after a publication is a   *)
(* request whose answer nobody gets.                                       *)
(*                                                                         *)
(* Courses are independent but for the videos, which one course binds.     *)
(* Videos and courses belong to one publisher here, whose User row each of *)
(* her commands locks.                                                     *)
(***************************************************************************)
EXTENDS Naturals, FiniteSets

CONSTANTS
  Kinds,        \* among "video", "link" and "share"
  Videos,       \* uploads
  Urls,         \* addresses of linked courses
  NoSource,     \* SQL NULL, and what an answer without a cover shows
  Tabs,         \* browser tabs of publishers that review shares
  Requests,     \* request threads that look for the cover
  MaxRevision   \* bound of the model: revisions of the course

ASSUME KindAssumption   == Kinds \subseteq {"video", "link", "share"}
ASSUME SourceAssumption == Videos # {} /\ Urls # {} /\ Videos \cap Urls = {}
ASSUME NullAssumption   == NoSource \notin Videos \cup Urls \cup Requests
ASSUME BoundAssumption  == MaxRevision \in Nat \ {0}

VARIABLES
  course,    \* the AcademyCourse row; text is the revision that wrote a share's content
  vetted,    \* a publisher read the present content: history
  tab,       \* the revision each publisher's tab shows, 0 before it is loaded
  video,     \* the AcademyVideo rows
  player,    \* the learner's page: its revision, and the video it was sent
  record,    \* the AcademyLearningRecord: the source it was earned on, and whether a report
             \* without a revision went into it: history
  cover,     \* the AcademyCourseCover row
  request    \* what each request holds

learning == <<tab, vetted, player, record>>
vars == <<course, learning, video, cover, request>>

Sources == Videos \cup Urls
SomeSource == Sources \cup {NoSource}
Steps == {"idle", "look", "claim", "lock", "extract", "complete", "again", "current", "answered"}

NoCover == [status |-> "none", source |-> NoSource, claim |-> NoSource, data |-> NoSource,
            late |-> FALSE]
NoRecord == [source |-> NoSource, completed |-> FALSE, unnamed |-> FALSE]
Idle == [step |-> "idle", public |-> TRUE, source |-> NoSource, data |-> NoSource, busy |-> FALSE]

TypeOK ==
  /\ course \in [kind : Kinds, source : Sources, text : 1..MaxRevision, visible : BOOLEAN,
                 review : {"none", "pending", "approved", "rejected"}, revision : 1..MaxRevision]
  /\ vetted \in BOOLEAN
  /\ tab \in [Tabs -> 0..MaxRevision]
  /\ video \in [Videos -> {"none", "uploading", "complete", "gone"}]
  /\ player \in [revision : 0..MaxRevision, source : SomeSource]
  /\ record \in [source : SomeSource, completed : BOOLEAN, unnamed : BOOLEAN]
  /\ cover \in [status : {"none", "new", "processing", "ready", "failed"}, source : SomeSource,
                claim : Requests \cup {NoSource}, data : SomeSource, late : BOOLEAN]
  /\ request \in [Requests -> [step : Steps, public : BOOLEAN, source : SomeSource,
                               data : SomeSource, busy : BOOLEAN]]

\* create_course publishes at once; submit_share waits for its review.
Init ==
  /\ \E kind \in Kinds, source \in Sources :
       /\ (source \in Videos) = (kind = "video")
       /\ course = [kind |-> kind, source |-> source, text |-> 1, visible |-> kind # "share",
                    review |-> IF kind = "share" THEN "pending" ELSE "none", revision |-> 1]
       /\ vetted = (kind # "share")
       /\ video = [v \in Videos |-> IF v = source THEN "complete" ELSE "none"]
  /\ tab = [t \in Tabs |-> 0]
  /\ player = [revision |-> 0, source |-> NoSource]
  /\ record = NoRecord
  /\ cover = NoCover
  /\ request = [r \in Requests |-> Idle]

-----------------------------------------------------------------------------
(* The course. *)

\* public_conditions
Public == course.visible /\ (course.kind = "share" => course.review = "approved")

\* Every command writes the next revision.
Save(row) ==
  /\ course.revision < MaxRevision
  /\ course' = [row EXCEPT !.revision = course.revision + 1]

\* Mutant: only the source changes, the records stay.
RecordsKept(source) == UNCHANGED record

\* update_course: another video resets what the learner has of it; another url does not.
ResetRecords(source) ==
  record' = IF source \in Videos \ {course.source}
            THEN NoRecord ELSE record

\* bound_video: complete; other courses of this publisher have no claim on it here.
Bindable(source) == IF course.kind = "video" THEN source \in Videos /\ video[source] = "complete"
                    ELSE source \in Urls

\* update_course: a publisher writes the content.
UpdateCourse(source) ==
  /\ course.kind = "share" => course.review = "approved"
  /\ source = course.source \/ Bindable(source)
  /\ Save([course EXCEPT !.source = source,
                         !.text = IF course.kind = "share" THEN course.revision + 1 ELSE 1])
  /\ ResetRecords(source)
  /\ vetted' = TRUE
  /\ UNCHANGED <<tab, player, video, cover, request>>

SetVisibility(visible) ==
  /\ course.kind = "share" => course.review = "approved"
  /\ Save([course EXCEPT !.visible = visible])
  /\ UNCHANGED <<learning, video, cover, request>>

\* admin_listing: a tab shows the share as it is now.
LoadTab(t) ==
  /\ course.kind = "share"
  /\ tab' = [tab EXCEPT ![t] = course.revision]
  /\ UNCHANGED <<course, vetted, player, record, video, cover, request>>

\* Mutant: the revision is not compared.
Loaded(revision) == revision > 0

\* check_revision
CheckRevision(revision) == revision = course.revision

\* review_share, from a tab; the publisher has read what it shows.
ReviewShare(t, decision) ==
  /\ CheckRevision(tab[t])
  /\ course.kind = "share" /\ course.review = "pending"
  /\ Save([course EXCEPT !.review = decision, !.visible = (decision = "approved")])
  /\ vetted' = (decision = "approved" /\ tab[t] >= course.text)
  /\ UNCHANGED <<tab, player, record, video, cover, request>>

\* resubmit_share: the author writes a rejected share anew.
ResubmitShare(url) ==
  /\ course.kind = "share" /\ course.review = "rejected"
  /\ url \in Urls
  /\ Save([course EXCEPT !.source = url, !.text = course.revision + 1, !.review = "pending",
                         !.visible = FALSE])
  /\ vetted' = FALSE
  /\ UNCHANGED <<tab, player, record, video, cover, request>>

-----------------------------------------------------------------------------
(* Videos: begin_upload, upload_chunk and complete_upload, cancel_upload. *)

Unbound(v) == video[v] \in {"uploading", "complete"} /\ v # course.source

\* begin_upload collects the publisher's unbound uploads that are a day old.
BeginUpload(v, old) ==
  /\ video[v] = "none"
  /\ \A w \in old : Unbound(w)
  /\ video' = [w \in Videos |-> IF w = v THEN "uploading" ELSE IF w \in old THEN "gone" ELSE video[w]]
  /\ UNCHANGED <<course, learning, cover, request>>

CompleteUpload(v) ==
  /\ video[v] = "uploading"
  /\ video' = [video EXCEPT ![v] = "complete"]
  /\ UNCHANGED <<course, learning, cover, request>>

CancelUpload(v) ==
  /\ Unbound(v)
  /\ video' = [video EXCEPT ![v] = "gone"]
  /\ UNCHANGED <<course, learning, cover, request>>

-----------------------------------------------------------------------------
(* The learner. *)

\* The page of the course is loaded, or refreshed: its player starts anew.
LoadPage ==
  /\ Public
  /\ player' = [revision |-> course.revision, source |-> NoSource]
  /\ UNCHANGED <<course, vetted, tab, record, video, cover, request>>

\* video_response: whatever revision the page shows, the bytes are those of today.  (A link
\* is opened from the page.)
Play ==
  /\ Public
  /\ player.revision > 0 /\ player.source = NoSource
  /\ player' = [player EXCEPT !.source = course.source]
  /\ UNCHANGED <<course, vetted, tab, record, video, cover, request>>

\* progress, with the revision of the page, or with none (0): expected_revision may be left
\* out, and then nothing is compared.  Completion stays.
Progress(revision, completed) ==
  /\ Public
  /\ player.source # NoSource
  /\ revision # 0 => CheckRevision(revision)
  /\ record' = [source |-> player.source, completed |-> record.completed \/ completed,
                unnamed |-> record.unnamed \/ revision = 0]
  /\ UNCHANGED <<course, vetted, tab, player, video, cover, request>>

-----------------------------------------------------------------------------
(* Covers: cover_response and ensure_course_cover. *)

At(r, step) == request[r].step = step
Goto(r, step) == request' = [request EXCEPT ![r].step = step]
End(r) == request' = [request EXCEPT ![r] = Idle]

\* cover_response reads the course; a learner's request only a public one.
LookForCover(r, public) ==
  /\ At(r, "idle")
  /\ public => Public
  /\ request' = [request EXCEPT ![r] = [Idle EXCEPT !.step = "look", !.public = public,
                                          !.source = course.source]]
  /\ UNCHANGED <<course, learning, video, cover>>

\* cached_course_cover, before and after the generation.
ReadCache(r) ==
  LET cached == IF cover.source = request[r].source /\ cover.status = "ready"
                THEN cover.data ELSE NoSource
  IN
  /\ At(r, "look") \/ At(r, "again")
  /\ request' = [request EXCEPT ![r].data = cached,
       ![r].step = IF At(r, "look") /\ cached = NoSource THEN "claim" ELSE "current"]
  /\ UNCHANGED <<course, learning, video, cover>>

\* _claim reads the course: still the source that was asked for?
ClaimReadsCourse(r) ==
  /\ At(r, "claim")
  /\ Goto(r, IF course.source = request[r].source THEN "lock" ELSE "again")
  /\ UNCHANGED <<course, learning, video, cover>>

\* The row is there for this source and needs nothing now.
Settled(r) ==
  /\ cover.source = request[r].source
  /\ cover.status = "ready" \/ (cover.status \in {"failed", "processing"} /\ ~ cover.late)

\* _claim locks the row, inserted unless it exists, and takes it.  The course is not
\* looked at again.
ClaimLocksCover(r) ==
  /\ At(r, "lock")
  /\ IF Settled(r)
     THEN Goto(r, "again") /\ UNCHANGED cover
     ELSE /\ cover' = [status |-> "processing", source |-> request[r].source, claim |-> r,
                       data |-> NoSource, late |-> FALSE]
          /\ Goto(r, "extract")
  /\ UNCHANGED <<course, learning, video>>

\* The cover of the source that was claimed, or no cover, or no free decoder.
Extract(r) ==
  LET source == request[r].source IN
  /\ At(r, "extract")
  /\ \/ /\ source \in Videos => video[source] = "complete"
        /\ request' = [request EXCEPT ![r].step = "complete", ![r].data = source]
     \/ Goto(r, "complete")
     \/ request' = [request EXCEPT ![r].step = "complete", ![r].busy = TRUE]
  /\ UNCHANGED <<course, learning, video, cover>>

\* Mutant: the claim is not compared.
SameSource(r) == cover.source = request[r].source /\ course.source = request[r].source

\* _complete: still this claim, on this source, which is still the course's.
StillClaimed(r) ==
  /\ cover.source = request[r].source /\ cover.claim = r
  /\ course.source = request[r].source

CompleteCover(r) ==
  LET data == request[r].data IN
  /\ At(r, "complete")
  /\ cover' = IF StillClaimed(r)
              THEN [cover EXCEPT !.claim = NoSource, !.data = data, !.late = FALSE,
                      !.status = IF request[r].busy THEN "new"
                                 ELSE IF data # NoSource THEN "ready" ELSE "failed"]
              ELSE cover
  /\ Goto(r, "again")
  /\ UNCHANGED <<course, learning, video>>

\* The answer, after another look at the course: "a concurrent edit, unpublish or review
\* must take effect before returning bytes".
Answer(r) ==
  /\ At(r, "current")
  /\ IF (request[r].public => Public) /\ course.source = request[r].source
     THEN request' = [request EXCEPT ![r] = [Idle EXCEPT !.step = "answered"]]
     ELSE End(r)
  /\ UNCHANGED <<course, learning, video, cover>>

\* The request is over, also when the process dies anywhere.
EndRequest(r) ==
  /\ ~ At(r, "idle")
  /\ End(r)
  /\ UNCHANGED <<course, learning, video, cover>>

\* CLAIM_LEASE of a claim or FAILED_RETRY_AFTER of a failure has passed.
PassTime ==
  /\ cover.status \in {"processing", "failed"} /\ ~ cover.late
  /\ cover' = [cover EXCEPT !.late = TRUE]
  /\ UNCHANGED <<course, learning, video, request>>

Next ==
  \/ \E source \in Sources : UpdateCourse(source) \/ ResubmitShare(source)
  \/ \E visible \in BOOLEAN : SetVisibility(visible)
  \/ \E t \in Tabs : LoadTab(t) \/ \E decision \in {"approved", "rejected"} : ReviewShare(t, decision)
  \/ \E v \in Videos :
       CompleteUpload(v) \/ CancelUpload(v) \/ \E old \in SUBSET Videos : BeginUpload(v, old)
  \/ LoadPage \/ Play
  \/ \E revision \in {player.revision, 0}, completed \in BOOLEAN : Progress(revision, completed)
  \/ \E r \in Requests :
       \/ \E public \in BOOLEAN : LookForCover(r, public)
       \/ ReadCache(r) \/ ClaimReadsCourse(r) \/ ClaimLocksCover(r)
       \/ Extract(r) \/ CompleteCover(r) \/ Answer(r) \/ EndRequest(r)
  \/ PassTime

Spec == Init /\ [][Next]_vars

-----------------------------------------------------------------------------
(* Properties. *)

\* What learners see of a share was read by a publisher, word for word, however reviews
\* from several tabs, resubmissions and edits meet.  (All rows are well typed.)
PublicWasVetted == TypeOK /\ (Public => vetted)

\* What a learner has of a video course was earned on the video the course shows now, also
\* when the video is replaced while a page plays the old one, as long as each report names
\* the revision of its page.  The platform's page always does; of a caller that leaves it
\* out, which progress accepts, nothing is promised until the next replacement.
ProgressIsOfThisVideo ==
  course.kind = "video" /\ ~ record.unnamed => record.source \in {course.source, NoSource}

\* A cover is shown only while it is the cover of what the course shows, and to learners
\* while the course is public; and it stays until the row is claimed for another source: no
\* request that lost its claim, fails late or is repeated takes it away.
CoverIsCurrent ==
  [][/\ \A r \in Requests : ~ At(r, "answered") /\ At(r, "answered")' =>
          /\ request[r].data \in {course.source, NoSource}
          /\ request[r].public => Public
     /\ cover.status = "ready" /\ cover' # cover =>
          cover'.status = "processing" /\ cover'.source # cover.source]_vars
=============================================================================
