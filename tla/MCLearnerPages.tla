--------------------------- MODULE MCLearnerPages ---------------------------
(* The pages of a learner for TLC: one course of the academy with two       *)
(* uploads and two requests for its cover; two files of evidence; the task  *)
(* page on two devices; and two requests for the self-check of a document.  *)
(* The four share no row, so that each behaviour here is one of one of them.*)
EXTENDS Academy, Attachments, AiSelfCheck, MCWorkspace

\* Either storage a deployment can be configured with.
MCBackends == {"LOCAL", "TOS"}

VARIABLE page    \* the page that is looked at

\* None need be looked at again for every start of another.
OneCourse == Init /\ course.kind = "link"
OneEvidence == AttachmentInit /\ backend = "LOCAL" /\ infected = {}
OneTask == WorkspaceInit /\ server.stage
OneDocument == CheckInit /\ clicks = 0

MCInit ==
  \/ page = "course" /\ Init /\ OneEvidence /\ OneTask /\ OneDocument
  \/ page = "evidence" /\ OneCourse /\ AttachmentInit /\ OneTask /\ OneDocument
  \/ page = "task" /\ OneCourse /\ OneEvidence /\ WorkspaceInit /\ OneDocument
  \/ page = "document" /\ OneCourse /\ OneEvidence /\ OneTask /\ CheckInit

\* Bound: either the learner opens the course or its cover is asked for.  The two share
\* nothing but the course and the videos and neither writes those, so each side runs
\* through all its states.  A cover is asked for while the course changes twice, there and
\* back, and that of a share, whose address stays, while at most one tab reviews it.  And
\* nothing is uploaded that this course cannot show.
NoCoverAskedFor == cover = NoCover /\ \A r \in Requests : request[r] = Idle

OneSide ==
  /\ player.revision = 0 \/ NoCoverAskedFor
  /\ \/ NoCoverAskedFor
     \/ course.revision <= 3 /\ \E t \in Tabs : \A other \in Tabs \ {t} : tab[other] = 0
  /\ course.kind # "video" => \A v \in Videos : video[v] = "none"

\* Bound: a third click only while the document is what it was and no process has died.
FewClicks == clicks < 3 \/ (document = 1 /\ crashes = 0)

\* Bound: two requests that write one row against each other are not followed further.
NotOvertaken == ~ overtaken

\* The bounds are those of the next state, so that no step goes beyond them.
MCNext ==
  /\ \/ page = "course" /\ Next /\ OneSide' /\ UNCHANGED <<attachmentVars, workspaceVars, checkVars>>
     \/ page = "evidence" /\ AttachmentNext /\ UNCHANGED <<vars, workspaceVars, checkVars>>
     \/ page = "task" /\ WorkspaceNext /\ FewAtATime' /\ UNCHANGED <<vars, attachmentVars, checkVars>>
     \/ page = "document" /\ CheckNext /\ FewClicks' /\ NotOvertaken'
        /\ UNCHANGED <<vars, attachmentVars, workspaceVars>>
  /\ UNCHANGED page
MCSpec == MCInit /\ [][MCNext]_<<vars, attachmentVars, workspaceVars, checkVars, page>>

\* Tabs, files, devices and the requests of the self-check have the same two names: what
\* is renamed on all the pages at once is renamed on each.
MCSymmetry == Permutations(Pages) \cup Permutations(Requests)
==============================================================================
