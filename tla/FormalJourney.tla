--------------------------- MODULE FormalJourney ---------------------------
(***************************************************************************)
(* One Enrollment of the training platform: its Assignments (one per stage *)
(* of the bound JourneyVersion), the immutable SubmissionVersions of each, *)
(* the Review and Evaluation of each version, and the Outcome.             *)
(*                                                                         *)
(* Every command of the API locks the Enrollment row first and everything  *)
(* it reads afterwards belongs to that Enrollment, so a command is one     *)
(* atomic step; its guards are the command's early returns.  A command     *)
(* that carries a stale expected_revision is refused without effect, so    *)
(* the actions below are the commands that carry the current one.          *)
(***************************************************************************)
EXTENDS Naturals, FiniteSets, FormalAssignmentWorkflow

CONSTANTS
  Programs,       \* among "JOURNEY" (stages), "TASK" (one task), "NOVICE" (practice)
  StageCount,     \* the stages of a journey: 8 in a published one
  Assessments,    \* the stages whose stage_kind is ASSESSMENT
  Reviewers,      \* users that hold the REVIEWER role
  FirstReviewer,  \* the reviewer the invite names
  NoReviewer,     \* SQL NULL
  MaxVersions     \* bound of the model: submissions per Assignment

Stages   == 1..StageCount
Versions == 1..MaxVersions

ASSUME ProgramAssumption ==
  /\ Programs \subseteq {"JOURNEY", "TASK", "NOVICE"}
  /\ StageCount \in Nat \ {0}
ASSUME StageAssumption    == Assessments \subseteq Stages
ASSUME ReviewerAssumption == FirstReviewer \in Reviewers /\ NoReviewer \notin Reviewers
ASSUME VersionAssumption  == MaxVersions \in Nat

VARIABLES
  program,       \* what the Enrollment is bound to, for good
  enrollment,    \* Enrollment.status
  reviewer,      \* Enrollment.reviewer_id
  assignment,    \* Assignment.status of each stage, "ABSENT" before the rows exist
  material,      \* every required learning material of the stage is completed
  version,       \* Submission.current_version_no, 0 without a Submission
  draft,         \* a SubmissionDraft row exists
  reviewStatus,  \* Review.status of each SubmissionVersion, "NONE" without a row
  reviewOwner,   \* Review.reviewer_id
  delegate,      \* ReviewDelegation.reviewer_id (one row per review at most)
  evaluation,    \* Evaluation.decision, "NONE" without a row
  outcome        \* the Outcome with its JourneyOutcomeEvidence, or none

learnerVars == <<material, version, draft>>
reviewVars  == <<reviewStatus, reviewOwner, delegate, evaluation>>
vars == <<program, enrollment, reviewer, assignment, learnerVars, reviewVars, outcome>>

\* The stages that get an Assignment: a task and a practice have a single one.
BoundStages == IF program = "JOURNEY" THEN Stages ELSE {1}

NoOutcome == [source |-> <<0, 0>>, evidence |-> {}]
Outcomes  == [source : Stages \X Versions, evidence : SUBSET (Stages \X Versions)]

TypeOK ==
  /\ program \in Programs
  /\ enrollment \in {"PENDING_IDENTITY", "ACTIVE", "COMPLETED", "CANCELLED"}
  /\ reviewer \in Reviewers
  /\ assignment \in [Stages -> AssignmentStatus \cup {"ABSENT"}]
  /\ material \in [Stages -> BOOLEAN]
  /\ version \in [Stages -> 0..MaxVersions]
  /\ draft \in [Stages -> BOOLEAN]
  /\ reviewStatus \in [Stages -> [Versions -> {"NONE", "ASSIGNED", "IN_REVIEW", "FINALIZED"}]]
  /\ reviewOwner \in [Stages -> [Versions -> Reviewers \cup {NoReviewer}]]
  /\ delegate \in [Stages -> [Versions -> Reviewers \cup {NoReviewer}]]
  /\ evaluation \in [Stages -> [Versions -> {"NONE", "PASS", "REVISION_REQUIRED"}]]
  /\ outcome \in Outcomes \cup {NoOutcome}

\* An invited Enrollment waits for the identity; a claimed novice task starts ready.
Init ==
  /\ program \in Programs
  /\ enrollment = IF program = "NOVICE" THEN "ACTIVE" ELSE "PENDING_IDENTITY"
  /\ reviewer = FirstReviewer
  /\ assignment = [s \in Stages |-> IF program = "NOVICE" /\ s \in BoundStages
                                    THEN "IN_PROGRESS" ELSE "ABSENT"]
  /\ material = [s \in Stages |-> FALSE]
  /\ version = [s \in Stages |-> 0]
  /\ draft = [s \in Stages |-> FALSE]
  /\ reviewStatus = [s \in Stages |-> [v \in Versions |-> "NONE"]]
  /\ reviewOwner = [s \in Stages |-> [v \in Versions |-> NoReviewer]]
  /\ delegate = [s \in Stages |-> [v \in Versions |-> NoReviewer]]
  /\ evaluation = [s \in Stages |-> [v \in Versions |-> "NONE"]]
  /\ outcome = NoOutcome

-----------------------------------------------------------------------------
(* What the commands read. *)

HasOutcome == outcome # NoOutcome

\* ensure_formal_assignment_is_current: a stage with a submission stays open to
\* its learner; otherwise it must be the first unfinished one never submitted.
FormalAssignmentIsCurrent(s) ==
  \/ program # "JOURNEY"
  \/ version[s] > 0
  \/ /\ assignment[s] \notin {"COMPLETED", "CANCELLED"}
     /\ \A t \in 1..(s - 1) :
          version[t] > 0 \/ assignment[t] \in {"COMPLETED", "CANCELLED"}

\* lock_active_learner_assignment, the way every writing command calls it.
LockActiveLearnerAssignment(s) ==
  enrollment = "ACTIVE" /\ FormalAssignmentIsCurrent(s)

\* formal_evaluation_evidence: every PASS Evaluation of a completed assessment.
FormalEvaluationEvidence(asg, ev) ==
  {e \in Assessments \X Versions : asg[e[1]] = "COMPLETED" /\ ev[e[1]][e[2]] = "PASS"}

\* Mutant: any number of PASS rows will do.
FormalJourneyIsCompleteAtLeast(asg, ev) ==
  /\ program = "JOURNEY"
  /\ \A s \in Stages : asg[s] = "COMPLETED"
  /\ Cardinality(FormalEvaluationEvidence(asg, ev)) >= Cardinality(Assessments)

\* formal_journey_is_complete: expected == 8, all completed, three evidence rows.
FormalJourneyIsComplete(asg, ev) ==
  /\ program = "JOURNEY"
  /\ \A s \in Stages : asg[s] = "COMPLETED"
  /\ Cardinality(FormalEvaluationEvidence(asg, ev)) = Cardinality(Assessments)

\* Mutant: a retest that was submitted or returned no longer counts as one.
UnderRetestWhileEditing ==
  {s \in Stages : /\ enrollment = "ACTIVE" /\ HasOutcome /\ program = "JOURNEY"
                  /\ assignment[s] = "IN_PROGRESS"}

\* active_post_completion_evidence_retest: the stages reopened after the Outcome.
UnderRetest ==
  {s \in Stages : /\ enrollment = "ACTIVE" /\ HasOutcome /\ program = "JOURNEY"
                  /\ assignment[s] \in {"IN_PROGRESS", "SUBMITTED", "IN_REVIEW", "NEEDS_REVISION"}}

\* The retest the query returns is the one of lowest position.
IsActiveRetest(s) == s \in UnderRetest /\ \A t \in UnderRetest : s <= t

\* open_reviews_for_enrollment
OpenReviews ==
  {r \in Stages \X Versions : reviewStatus[r[1]][r[2]] \in {"ASSIGNED", "IN_REVIEW"}}

\* scoped_review_lineage: a review is reachable through its Enrollment only while
\* the Enrollment's reviewer is the review's own or the one it was handed to.
InLineage(s, v) == reviewer \in {reviewOwner[s][v], delegate[s][v]}

-----------------------------------------------------------------------------
(* Identity and learner commands. *)

\* confirm_identity: the Enrollment becomes ACTIVE and its Assignments are created.
ConfirmIdentity ==
  /\ enrollment = "PENDING_IDENTITY"
  /\ enrollment' = "ACTIVE"
  /\ assignment' = [s \in Stages |-> IF s \in BoundStages THEN "AVAILABLE" ELSE "ABSENT"]
  /\ UNCHANGED <<program, reviewer, learnerVars, reviewVars, outcome>>

\* complete_learning_material: allowed on a completed stage without reopening it.
CompleteLearningMaterial(s) ==
  /\ \/ /\ enrollment \in {"ACTIVE", "COMPLETED"}
        /\ assignment[s] = "COMPLETED"
     \/ /\ LockActiveLearnerAssignment(s)
        /\ assignment[s] \notin {"ABSENT", "CANCELLED"}
  /\ material' = [material EXCEPT ![s] = TRUE]
  /\ UNCHANGED <<program, enrollment, reviewer, assignment, version, draft, reviewVars, outcome>>

StartAssignment(s) ==
  /\ LockActiveLearnerAssignment(s)
  /\ material[s]
  /\ \E to \in AssignmentStatus :
       /\ Transition(assignment[s], "START", "LEARNER", to)
       /\ assignment' = [assignment EXCEPT ![s] = to]
  /\ UNCHANGED <<program, enrollment, reviewer, learnerVars, reviewVars, outcome>>

\* A journey stage that was returned must be reopened explicitly first.
Writable(s) ==
  \/ assignment[s] = "IN_PROGRESS"
  \/ assignment[s] = "NEEDS_REVISION" /\ program # "JOURNEY"

SaveSubmissionDraft(s) ==
  /\ LockActiveLearnerAssignment(s)
  /\ Writable(s)
  /\ material[s]
  /\ draft' = [draft EXCEPT ![s] = TRUE]
  /\ UNCHANGED <<program, enrollment, reviewer, assignment, material, version, reviewVars, outcome>>

\* Mutant: the draft survives.
KeepDraft(s) == UNCHANGED draft

\* delete(SubmissionDraft)
DeleteDraft(s) == draft' = [draft EXCEPT ![s] = FALSE]

\* submit_assignment: a new immutable version, its review for the Enrollment's
\* reviewer, and no draft any more.  The model stops at MaxVersions.
SubmitAssignment(s) ==
  /\ LockActiveLearnerAssignment(s)
  /\ Writable(s)
  /\ version[s] < MaxVersions
  /\ LET event == IF assignment[s] = "NEEDS_REVISION" THEN "RESUBMIT" ELSE "SUBMIT"
         v     == version[s] + 1
     IN  /\ \E to \in AssignmentStatus :
              /\ Transition(assignment[s], event, "LEARNER", to)
              /\ assignment' = [assignment EXCEPT ![s] = to]
         /\ version' = [version EXCEPT ![s] = v]
         /\ reviewStatus' = [reviewStatus EXCEPT ![s][v] = "ASSIGNED"]
         /\ reviewOwner' = [reviewOwner EXCEPT ![s][v] = reviewer]
  /\ DeleteDraft(s)
  /\ UNCHANGED <<program, enrollment, reviewer, material, delegate, evaluation, outcome>>

\* Mutant: a stage whose review is still pending can be reopened too.
HasReviewResultOrPending(s) == assignment[s] \in {"COMPLETED", "NEEDS_REVISION", "SUBMITTED"}

\* The stage has a review result.
HasReviewResult(s) == assignment[s] \in {"COMPLETED", "NEEDS_REVISION"}

\* start_evidence_revision: reopen a judged stage, taking a graduated Enrollment
\* back to ACTIVE; after the Outcome only one stage at a time.
StartEvidenceRevision(s) ==
  /\ enrollment \in {"ACTIVE", "COMPLETED"}
  /\ program = "JOURNEY"
  /\ HasReviewResult(s)
  /\ version[s] > 0
  /\ draft[s] => assignment[s] = "NEEDS_REVISION"
  /\ enrollment = "COMPLETED" =>
       HasOutcome /\ FormalJourneyIsComplete(assignment, evaluation)
  /\ \A t \in Stages : IsActiveRetest(t) => t = s
  /\ enrollment' = "ACTIVE"
  /\ draft' = [draft EXCEPT ![s] = TRUE]
  /\ assignment' = [assignment EXCEPT ![s] = "IN_PROGRESS"]
  /\ UNCHANGED <<program, reviewer, material, version, reviewVars, outcome>>

\* Mutant: cancelling always restores an approval.
LatestResultApproved(s) == "COMPLETED"

\* The status the latest immutable human result stands for.
LatestResult(s) ==
  IF evaluation[s][version[s]] = "REVISION_REQUIRED" THEN "NEEDS_REVISION" ELSE "COMPLETED"

\* cancel_evidence_revision: back to the latest human verdict; a cancelled
\* post-graduation retest completes the Enrollment again, or the command fails
\* (restore_completed_enrollment_after_evidence_retest).
CancelEvidenceRevision(s) ==
  /\ LockActiveLearnerAssignment(s)
  /\ assignment[s] = "IN_PROGRESS"
  /\ program = "JOURNEY"
  /\ version[s] > 0
  /\ \A t \in Stages : IsActiveRetest(t) => t = s
  /\ DeleteDraft(s)
  /\ assignment' = [assignment EXCEPT ![s] = LatestResult(s)]
  /\ IF IsActiveRetest(s) /\ LatestResult(s) = "COMPLETED"
     THEN FormalJourneyIsComplete(assignment', evaluation) /\ enrollment' = "COMPLETED"
     ELSE UNCHANGED enrollment
  /\ UNCHANGED <<program, reviewer, material, version, reviewVars, outcome>>

-----------------------------------------------------------------------------
(* Reviewer commands. *)

\* lock_scoped_context for a review that is still open.
LockScopedContext(s, v) == enrollment = "ACTIVE" /\ InLineage(s, v)

StartReview(s, v) ==
  /\ LockScopedContext(s, v)
  /\ reviewStatus[s][v] = "ASSIGNED"
  /\ \E to \in AssignmentStatus :
       /\ Transition(assignment[s], "START_REVIEW", "ASSIGNED_REVIEWER", to)
       /\ assignment' = [assignment EXCEPT ![s] = to]
  /\ reviewStatus' = [reviewStatus EXCEPT ![s][v] = "IN_REVIEW"]
  /\ UNCHANGED <<program, enrollment, reviewer, learnerVars, reviewOwner, delegate, evaluation, outcome>>

\* finalize_review up to the decision: one Evaluation, the review final.
Finalize(s, v, event, decision) ==
  /\ LockScopedContext(s, v)
  /\ reviewStatus[s][v] = "IN_REVIEW"
  /\ assignment[s] = "IN_REVIEW"
  /\ \E to \in AssignmentStatus :
       /\ Transition(assignment[s], event, "ASSIGNED_REVIEWER", to)
       /\ assignment' = [assignment EXCEPT ![s] = to]
  /\ evaluation' = [evaluation EXCEPT ![s][v] = decision]
  /\ reviewStatus' = [reviewStatus EXCEPT ![s][v] = "FINALIZED"]
  /\ UNCHANGED <<program, reviewer, learnerVars, reviewOwner, delegate>>

FinalizeRequestRevision(s, v) ==
  /\ Finalize(s, v, "REQUEST_REVISION", "REVISION_REQUIRED")
  /\ UNCHANGED <<enrollment, outcome>>

\* create_pass_outcome_bundle: the Outcome names its source and its evidence.
OutcomeBundle(s, v, evidence) == [source |-> <<s, v>>, evidence |-> evidence]

\* A second completion keeps the Outcome that exists (enrollment_has_outcome).
OutcomeOnce(bundle) == IF HasOutcome THEN outcome ELSE bundle

\* Enrollment.novice_task_id is set.
IsPractice == program = "NOVICE"

\* finalize_review, PASS branch: what an approval completes.  A standalone
\* practice result is not a graduation.
FinalizePass(s, v) ==
  /\ Finalize(s, v, "PASS", "PASS")
  /\ \/ /\ IsPractice
        /\ enrollment' = "COMPLETED"
        /\ UNCHANGED outcome
     \/ /\ ~ IsPractice
        /\ program # "JOURNEY"
        /\ enrollment' = "COMPLETED"
        /\ outcome' = OutcomeBundle(s, v, {})
     \/ /\ FormalJourneyIsComplete(assignment', evaluation')
        /\ enrollment' = "COMPLETED"
        /\ outcome' = OutcomeOnce(
             OutcomeBundle(s, v, FormalEvaluationEvidence(assignment', evaluation')))
     \/ /\ program = "JOURNEY"
        /\ ~ FormalJourneyIsComplete(assignment', evaluation')
        /\ UNCHANGED <<enrollment, outcome>>

-----------------------------------------------------------------------------
(* Operator commands. *)

AssignReviewer(r) ==
  /\ UnderRetest = {}
  /\ enrollment \in {"PENDING_IDENTITY", "ACTIVE"}
  /\ reviewer # r
  /\ OpenReviews = {}
  /\ reviewer' = r
  /\ UNCHANGED <<program, enrollment, assignment, learnerVars, reviewVars, outcome>>

\* handoff_assigned_review: the only open review, not yet started and not yet
\* handed over (uq_review_delegations_review), goes to r with the Enrollment.
HandoffAssignedReview(r) ==
  /\ UnderRetest = {}
  /\ \E s \in Stages, v \in Versions :
       /\ OpenReviews = {<<s, v>>}
       /\ reviewStatus[s][v] = "ASSIGNED"
       /\ r \notin {reviewer, reviewOwner[s][v]}
       /\ delegate[s][v] = NoReviewer
       /\ delegate' = [delegate EXCEPT ![s][v] = r]
  /\ reviewer' = r
  /\ UNCHANGED <<program, enrollment, assignment, learnerVars, reviewStatus, reviewOwner, evaluation, outcome>>

\* The statuses the operator may not overwrite by cancelling.
InReviewHistory(s) == assignment[s] \in {"SUBMITTED", "IN_REVIEW", "NEEDS_REVISION"}

\* cancel_enrollment: refused while anything is submitted, in review or returned.
CancelEnrollment ==
  /\ UnderRetest = {}
  /\ enrollment \in {"PENDING_IDENTITY", "ACTIVE"}
  /\ OpenReviews = {}
  /\ \A s \in Stages : ~ InReviewHistory(s)
  /\ assignment' = [s \in Stages |->
                      IF \E to \in AssignmentStatus :
                           Transition(assignment[s], "CANCEL", "MODULE_OPERATOR", to)
                      THEN "CANCELLED" ELSE assignment[s]]
  /\ enrollment' = "CANCELLED"
  /\ UNCHANGED <<program, reviewer, learnerVars, reviewVars, outcome>>

-----------------------------------------------------------------------------
LearnerCommand(s) ==
  \/ CompleteLearningMaterial(s)
  \/ StartAssignment(s)
  \/ SaveSubmissionDraft(s)
  \/ SubmitAssignment(s)
  \/ StartEvidenceRevision(s)
  \/ CancelEvidenceRevision(s)

ReviewerCommand(s, v) ==
  \/ StartReview(s, v)
  \/ FinalizeRequestRevision(s, v)
  \/ FinalizePass(s, v)

OperatorCommand(r) == AssignReviewer(r) \/ HandoffAssignedReview(r)

Next ==
  \/ ConfirmIdentity
  \/ \E s \in Stages : LearnerCommand(s)
  \/ \E s \in Stages, v \in Versions : ReviewerCommand(s, v)
  \/ \E r \in Reviewers : OperatorCommand(r)
  \/ CancelEnrollment

Spec == Init /\ [][Next]_vars

-----------------------------------------------------------------------------
(* Safety. *)

\* One version, its review and its Evaluation against the Assignment.
ReviewAgrees(s, v) ==
  /\ (v <= version[s]) = (reviewStatus[s][v] # "NONE")
  /\ (evaluation[s][v] # "NONE") = (reviewStatus[s][v] = "FINALIZED")
  /\ reviewStatus[s][v] = "ASSIGNED" <=> assignment[s] = "SUBMITTED" /\ v = version[s]
  /\ reviewStatus[s][v] = "IN_REVIEW" <=> assignment[s] = "IN_REVIEW" /\ v = version[s]

\* The reviews of a stage tell the same story as its Assignment: every version
\* has one review, only the latest can be open, the Assignment is SUBMITTED or
\* IN_REVIEW exactly while it is, and a review is final exactly when its
\* Evaluation exists.  submit, start_review, finalize and the evidence-revision
\* commands each keep only one half of this.
ReviewFollowsAssignment ==
  \A s \in Stages :
    /\ \A v \in Versions : ReviewAgrees(s, v)
    /\ assignment[s] \in {"SUBMITTED", "IN_REVIEW"} => version[s] > 0

\* A stage counts as completed only on a human PASS of its latest version, also
\* after any number of reopened and abandoned revisions.
CompletedMeansApproved ==
  \A s \in Stages :
    assignment[s] = "COMPLETED" => version[s] > 0 /\ evaluation[s][version[s]] = "PASS"

\* The Outcome of a journey rests on one PASS of each assessment and on nothing else, and
\* every stage of the journey was approved by then.  A completed Enrollment has its Outcome
\* (a novice practice has none) and no stage left open: a retest reopens it first.
GraduationIsEarned ==
  /\ HasOutcome =>
       /\ evaluation[outcome.source[1]][outcome.source[2]] = "PASS"
       /\ \A e \in outcome.evidence : evaluation[e[1]][e[2]] = "PASS"
       /\ program = "JOURNEY" =>
            /\ \A a \in Assessments : \E v \in Versions :
                 {e \in outcome.evidence : e[1] = a} = {<<a, v>>}
            /\ \A s \in Stages : \E v \in Versions : evaluation[s][v] = "PASS"
  /\ enrollment = "COMPLETED" =>
       /\ HasOutcome = (program # "NOVICE")
       /\ \A s \in BoundStages : assignment[s] = "COMPLETED"

\* No stage is worked on before every earlier one was submitted; and after the Outcome at
\* most one stage is out of its completed state: the retests are exclusive through
\* submission, review, return and cancellation.
StagesOpenInOrder ==
  /\ \A s \in Stages :
       assignment[s] \in {"IN_PROGRESS", "SUBMITTED", "IN_REVIEW", "NEEDS_REVISION", "COMPLETED"} =>
         \A t \in 1..(s - 1) : version[t] > 0
  /\ HasOutcome => \A s, t \in BoundStages :
       assignment[s] # "COMPLETED" /\ assignment[t] # "COMPLETED" => s = t

\* What ends takes its unfinished work with it: a cancelled Enrollment leaves nothing
\* in review or in work, and a draft does not outlive the editing of its stage, where
\* "the stage has an unfinished draft" would refuse every later reopening.  And whatever
\* reviewers the operator installs, an open review can still be reached: otherwise nobody
\* could ever start or finish it and the stage would be stuck.
NothingLeftBehind ==
  /\ enrollment = "CANCELLED" =>
       \A s \in Stages :
         /\ assignment[s] \in {"ABSENT", "COMPLETED", "CANCELLED"}
         /\ \A v \in Versions : reviewStatus[s][v] \in {"NONE", "FINALIZED"}
  /\ \A s \in Stages : draft[s] => Writable(s) \/ assignment[s] = "CANCELLED"
  /\ \A s \in Stages, v \in Versions :
       reviewStatus[s][v] \in {"ASSIGNED", "IN_REVIEW"} => InLineage(s, v)

-----------------------------------------------------------------------------
(* Implementation of the abstract specification. *)

Gate == INSTANCE HumanGate WITH
  Work <- Stages, required <- BoundStages, submitted <- version, verdict <- evaluation, graduated <- HasOutcome

\* The commands together keep the promise of HumanGate: nothing is judged twice
\* or out of turn, nothing is handed in over a pending judgement, and a learner
\* graduates only at an approval that leaves every stage approved.
ImplementsHumanGate == Gate!Spec

-----------------------------------------------------------------------------
(* Statements of the repository that the code does not keep. *)

\* "结营后重测": an ACTIVE Enrollment with an Outcome is one whose stage is being
\* retested, which suspends the operator's commands until the retest ends.
GraduateIsCompletedOrRetesting == enrollment = "ACTIVE" /\ HasOutcome => UnderRetest # {}

\* The last approval graduates: a complete journey has its Outcome.
CompleteJourneyHasGraduated == FormalJourneyIsComplete(assignment, evaluation) => HasOutcome
=============================================================================
