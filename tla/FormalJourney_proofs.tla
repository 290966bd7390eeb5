------------------------ MODULE FormalJourney_proofs ------------------------
(***************************************************************************)
(* Proofs about FormalJourney for every number of stages, reviewers and    *)
(* versions: type correctness, the agreement of reviews, evaluations and   *)
(* assignments, the order in which stages open, that graduation is earned, *)
(* that nothing is left behind, and the implementation of HumanGate.       *)
(***************************************************************************)
EXTENDS FormalJourney, Functions, FiniteSetTheorems, TLAPS

-----------------------------------------------------------------------------
(* What the transition table says. *)

\* Every row of the table leads to a status.
LEMMA TransitionTyped ==
  \A current, event, actor, target :
    Transition(current, event, actor, target) => target \in AssignmentStatus
  BY DEF Transition, Transitions, AssignmentStatus

\* The pairs (status, event) the commands use, read from the table.
LEMMA TransitionTable ==
  ASSUME NEW current, NEW actor, NEW target
  PROVE  /\ Transition(current, "START", actor, target)
              => current = "AVAILABLE" /\ target = "IN_PROGRESS"
         /\ Transition(current, "SUBMIT", actor, target)
              => current = "IN_PROGRESS" /\ target = "SUBMITTED"
         /\ Transition(current, "RESUBMIT", actor, target)
              => current = "NEEDS_REVISION" /\ target = "SUBMITTED"
         /\ Transition(current, "START_REVIEW", actor, target)
              => current = "SUBMITTED" /\ target = "IN_REVIEW"
         /\ Transition(current, "REQUEST_REVISION", actor, target)
              => current = "IN_REVIEW" /\ target = "NEEDS_REVISION"
         /\ Transition(current, "PASS", actor, target)
              => current = "IN_REVIEW" /\ target = "COMPLETED"
         /\ Transition(current, "CANCEL", actor, target)
              => current \in {"AVAILABLE", "IN_PROGRESS"} /\ target = "CANCELLED"
  BY DEF Transition, Transitions

-----------------------------------------------------------------------------
(* Type correctness. *)

\* A bundle is an Outcome, and never the missing one.
LEMMA BundleIsOutcome ==
  ASSUME NEW s \in Stages, NEW v \in Versions
  PROVE  /\ \A evidence \in SUBSET (Stages \X Versions) : OutcomeBundle(s, v, evidence) \in Outcomes
         /\ \A evidence : OutcomeBundle(s, v, evidence) # NoOutcome
  <1>2. s # 0
    BY ProgramAssumption DEF Stages
  <1>3. \A evidence : OutcomeBundle(s, v, evidence).source = <<s, v>>
    BY DEF OutcomeBundle
  <1>4. <<s, v>> # <<0, 0>>
    BY <1>2
  <1>5. NoOutcome.source = <<0, 0>>
    BY DEF NoOutcome
  <1> QED
    BY <1>3, <1>4, <1>5 DEF OutcomeBundle, Outcomes

\* The rows an invite, or a claimed practice, starts from are well typed.
LEMMA InitTyped == Init => TypeOK
  BY ReviewerAssumption, VersionAssumption DEF Init, TypeOK, AssignmentStatus

\* Every command writes well-typed rows.
LEMMA NextTyped == TypeOK /\ [Next]_vars => TypeOK'
<1> SUFFICES ASSUME TypeOK, [Next]_vars PROVE TypeOK'
  OBVIOUS
<1> USE DEF TypeOK
<1>1. CASE ConfirmIdentity
  BY <1>1 DEF ConfirmIdentity, learnerVars, reviewVars, AssignmentStatus
<1>2. ASSUME NEW s \in Stages, LearnerCommand(s) PROVE TypeOK'
  <2>1. CASE CompleteLearningMaterial(s)
    BY <2>1 DEF CompleteLearningMaterial, reviewVars
  <2>2. CASE StartAssignment(s)
    BY <2>2 DEF StartAssignment, learnerVars, reviewVars
  <2>3. CASE SaveSubmissionDraft(s)
    BY <2>3 DEF SaveSubmissionDraft, reviewVars
  <2>4. CASE SubmitAssignment(s)
    <3> DEFINE v == version[s] + 1
    <3>1. v \in Versions /\ v \in 0..MaxVersions
      BY <2>4, VersionAssumption DEF SubmitAssignment, Versions
    <3>2. /\ assignment' \in [Stages -> AssignmentStatus \cup {"ABSENT"}]
          /\ version' \in [Stages -> 0..MaxVersions]
          /\ draft' \in [Stages -> BOOLEAN]
      BY <2>4, <3>1 DEF SubmitAssignment, DeleteDraft
    <3>3. /\ reviewStatus' = [reviewStatus EXCEPT ![s][v] = "ASSIGNED"]
          /\ reviewOwner' = [reviewOwner EXCEPT ![s][v] = reviewer]
      BY <2>4 DEF SubmitAssignment
    <3>4. reviewStatus' \in [Stages -> [Versions -> {"NONE", "ASSIGNED", "IN_REVIEW", "FINALIZED"}]]
      BY <3>1, <3>3
    <3>5. reviewOwner' \in [Stages -> [Versions -> Reviewers \cup {NoReviewer}]]
      BY <3>1, <3>3
    <3> QED
      BY <2>4, <3>2, <3>4, <3>5 DEF SubmitAssignment
  <2>5. CASE StartEvidenceRevision(s)
    BY <2>5 DEF StartEvidenceRevision, reviewVars, AssignmentStatus
  <2>6. CASE CancelEvidenceRevision(s)
    <3>1. LatestResult(s) \in AssignmentStatus
      BY DEF LatestResult, AssignmentStatus
    <3> QED
      BY <2>6, <3>1 DEF CancelEvidenceRevision, DeleteDraft, reviewVars
  <2> QED
    BY <1>2, <2>1, <2>2, <2>3, <2>4, <2>5, <2>6 DEF LearnerCommand
<1>3. ASSUME NEW s \in Stages, NEW v \in Versions, ReviewerCommand(s, v) PROVE TypeOK'
  <2>1. CASE StartReview(s, v)
    BY <2>1 DEF StartReview, learnerVars
  <2>2. ASSUME NEW event, NEW decision \in {"PASS", "REVISION_REQUIRED"}, Finalize(s, v, event, decision)
        PROVE  /\ TypeOK!3' /\ TypeOK!4' /\ TypeOK!5' /\ TypeOK!6' /\ TypeOK!7'
               /\ TypeOK!8' /\ TypeOK!9' /\ TypeOK!10' /\ TypeOK!11' /\ TypeOK!1'
    BY <2>2 DEF Finalize, learnerVars
  <2>3. CASE FinalizeRequestRevision(s, v)
    BY <2>2, <2>3 DEF FinalizeRequestRevision
  <2>4. CASE FinalizePass(s, v)
    <3>1. enrollment' \in {"PENDING_IDENTITY", "ACTIVE", "COMPLETED", "CANCELLED"}
      BY <2>4 DEF FinalizePass
    <3>2. /\ FormalEvaluationEvidence(assignment', evaluation') \in SUBSET (Stages \X Versions)
          /\ {} \in SUBSET (Stages \X Versions)
      BY StageAssumption DEF FormalEvaluationEvidence
    <3>3. outcome' \in {outcome} \cup Outcomes
      BY <2>4, <3>2, BundleIsOutcome DEF FinalizePass, OutcomeOnce
    <3> QED
      BY <2>2, <2>4, <3>1, <3>3 DEF FinalizePass
  <2> QED
    BY <1>3, <2>1, <2>3, <2>4 DEF ReviewerCommand
<1>4. ASSUME NEW r \in Reviewers, OperatorCommand(r) PROVE TypeOK'
  <2>1. CASE AssignReviewer(r)
    BY <2>1 DEF AssignReviewer, learnerVars, reviewVars
  <2>2. CASE HandoffAssignedReview(r)
    BY <2>2 DEF HandoffAssignedReview, learnerVars
  <2> QED
    BY <1>4, <2>1, <2>2 DEF OperatorCommand
<1>5. CASE CancelEnrollment
  BY <1>5 DEF CancelEnrollment, learnerVars, reviewVars, AssignmentStatus
<1>6. CASE UNCHANGED vars
  BY <1>6 DEF vars, learnerVars, reviewVars
<1> QED
  BY <1>1, <1>2, <1>3, <1>4, <1>5, <1>6 DEF Next

\* Every reachable state is well typed, whatever the size of the journey.
THEOREM TypeCorrect == Spec => []TypeOK
<1>1. Init => TypeOK
  BY InitTyped
<1>2. TypeOK /\ [Next]_vars => TypeOK'
  BY NextTyped
<1> QED
  BY <1>1, <1>2, PTL DEF Spec
-----------------------------------------------------------------------------
(* Reviews, evaluations and assignments. *)

\* What the status of a stage says about its latest verdict.  CompletedMeansApproved
\* is not inductive without it: an evidence revision leaves the verdict behind and
\* its cancellation reads it again.
VerdictAgrees(s) ==
  /\ assignment[s] \in {"ABSENT", "AVAILABLE"} => version[s] = 0
  /\ assignment[s] = "COMPLETED" => version[s] > 0 /\ evaluation[s][version[s]] = "PASS"
  /\ assignment[s] = "NEEDS_REVISION" =>
       version[s] > 0 /\ evaluation[s][version[s]] = "REVISION_REQUIRED"
  /\ assignment[s] = "IN_PROGRESS" /\ version[s] > 0 =>
       evaluation[s][version[s]] # "NONE"

StageAgrees(s) ==
  /\ \A v \in Versions : ReviewAgrees(s, v)
  /\ assignment[s] \in {"SUBMITTED", "IN_REVIEW"} => version[s] > 0
  /\ VerdictAgrees(s)

\* The Assignments are created by the confirmation and not before.
NothingBeforeConfirmation ==
  enrollment = "PENDING_IDENTITY" => \A s \in Stages : assignment[s] = "ABSENT"

\* A stage the Enrollment is not bound to never gets an Assignment: the graduation
\* of a task needs its single one only.
UnboundIsAbsent ==
  \A s \in Stages : s \notin BoundStages => assignment[s] = "ABSENT"

IInv ==
  /\ TypeOK
  /\ NothingBeforeConfirmation
  /\ UnboundIsAbsent
  /\ \A s \in Stages : StageAgrees(s)

\* A stage no command touched agrees as before.
LEMMA StageFrame ==
  ASSUME NEW s \in Stages, StageAgrees(s),
         assignment'[s] = assignment[s], version'[s] = version[s],
         reviewStatus'[s] = reviewStatus[s], evaluation'[s] = evaluation[s]
  PROVE  StageAgrees(s)'
  BY DEF StageAgrees, ReviewAgrees, VerdictAgrees

\* Nothing is submitted at the start, so nothing disagrees.
LEMMA InitAgrees == Init => IInv
<1> SUFFICES ASSUME Init PROVE IInv
  OBVIOUS
<1>1. \A s \in Stages : StageAgrees(s)
  BY VersionAssumption DEF Init, StageAgrees, ReviewAgrees, VerdictAgrees, Versions
<1> QED
  BY <1>1, InitTyped DEF IInv, Init, NothingBeforeConfirmation, UnboundIsAbsent

\* Submitting opens exactly the review of the new version.
LEMMA SubmitAgrees ==
  ASSUME NEW s \in Stages, IInv, SubmitAssignment(s)
  PROVE  \A t \in Stages : StageAgrees(t)'
<1> DEFINE v == version[s] + 1
<1> USE DEF IInv
<1>1. /\ assignment[s] \in {"IN_PROGRESS", "NEEDS_REVISION"}
      /\ assignment' = [assignment EXCEPT ![s] = "SUBMITTED"]
  BY TransitionTable DEF SubmitAssignment, Writable
<1>2. /\ v \in Versions
      /\ version[s] \in Nat
      /\ version' = [version EXCEPT ![s] = v]
      /\ reviewStatus' = [reviewStatus EXCEPT ![s][v] = "ASSIGNED"]
      /\ evaluation' = evaluation
  BY VersionAssumption DEF SubmitAssignment, TypeOK, Versions
<1>3. ASSUME NEW t \in Stages, t # s PROVE StageAgrees(t)'
  BY <1>1, <1>2, <1>3, StageFrame DEF TypeOK
<1>4. /\ assignment'[s] = "SUBMITTED"
      /\ version'[s] = v
      /\ reviewStatus'[s] = [reviewStatus[s] EXCEPT ![v] = "ASSIGNED"]
  BY <1>1, <1>2 DEF TypeOK
<1>5. ASSUME NEW u \in Versions PROVE ReviewAgrees(s, u)'
  <2>1. u \in Nat
    BY DEF Versions
  <2>2. ReviewAgrees(s, u)
    BY DEF StageAgrees
  <2>3. CASE u = v
    BY <1>1, <1>2, <1>4, <2>1, <2>2, <2>3 DEF ReviewAgrees, TypeOK
  <2>4. CASE u # v
    <3>1. /\ reviewStatus'[s][u] = reviewStatus[s][u]
          /\ evaluation'[s][u] = evaluation[s][u]
      BY <1>2, <1>4, <2>4 DEF TypeOK
    <3>2. /\ (u <= v) <=> (u <= version[s])
          /\ u <= version[s] <=> reviewStatus[s][u] # "NONE"
          /\ reviewStatus[s][u] \notin {"ASSIGNED", "IN_REVIEW"}
          /\ evaluation[s][u] # "NONE" <=> reviewStatus[s][u] = "FINALIZED"
      BY <1>1, <1>2, <2>1, <2>2, <2>4 DEF ReviewAgrees
    <3> QED
      BY <1>4, <2>4, <3>1, <3>2 DEF ReviewAgrees
  <2> QED
    BY <2>3, <2>4
<1>6. StageAgrees(s)'
  BY <1>2, <1>4, <1>5 DEF StageAgrees, VerdictAgrees
<1> QED
  BY <1>3, <1>6

\* Starting a review moves it and its stage together.
LEMMA StartReviewAgrees ==
  ASSUME NEW s \in Stages, NEW v \in Versions, IInv, StartReview(s, v)
  PROVE  \A t \in Stages : StageAgrees(t)'
<1> USE DEF IInv
<1>1. /\ assignment[s] = "SUBMITTED" /\ v = version[s]
      /\ assignment' = [assignment EXCEPT ![s] = "IN_REVIEW"]
  BY TransitionTable DEF StartReview, StageAgrees, ReviewAgrees
<1>2. /\ reviewStatus' = [reviewStatus EXCEPT ![s][v] = "IN_REVIEW"]
      /\ UNCHANGED <<version, evaluation>>
  BY DEF StartReview, learnerVars
<1>3. ASSUME NEW t \in Stages, t # s PROVE StageAgrees(t)'
  BY <1>1, <1>2, <1>3, StageFrame DEF TypeOK
<1>4. /\ assignment'[s] = "IN_REVIEW"
      /\ reviewStatus'[s] = [reviewStatus[s] EXCEPT ![v] = "IN_REVIEW"]
  BY <1>1, <1>2 DEF TypeOK
<1>5. ASSUME NEW u \in Versions PROVE ReviewAgrees(s, u)'
  <2>1. ReviewAgrees(s, u)
    BY DEF StageAgrees
  <2>2. CASE u = v
    BY <1>1, <1>2, <1>4, <2>1, <2>2 DEF ReviewAgrees, TypeOK
  <2>3. CASE u # v
    BY <1>1, <1>2, <1>4, <2>1, <2>3 DEF ReviewAgrees, TypeOK
  <2> QED
    BY <2>2, <2>3
<1>6. StageAgrees(s)'
  BY <1>1, <1>2, <1>4, <1>5 DEF StageAgrees, VerdictAgrees
<1> QED
  BY <1>3, <1>6

\* What every decision finds and leaves behind.
LEMMA FinalizeFacts ==
  ASSUME NEW s \in Stages, NEW v \in Versions, NEW event, NEW decision, IInv,
         Finalize(s, v, event, decision),
         <<event, decision>> \in {<<"PASS", "PASS">>, <<"REQUEST_REVISION", "REVISION_REQUIRED">>}
  PROVE  /\ v = version[s] /\ version[s] > 0
         /\ evaluation[s][v] = "NONE"
         /\ assignment' = [assignment EXCEPT ![s] =
              IF decision = "PASS" THEN "COMPLETED" ELSE "NEEDS_REVISION"]
         /\ reviewStatus' = [reviewStatus EXCEPT ![s][v] = "FINALIZED"]
         /\ evaluation' = [evaluation EXCEPT ![s][v] = decision]
         /\ version' = version
<1> USE DEF IInv
<1>1. ReviewAgrees(s, v) /\ reviewStatus[s][v] = "IN_REVIEW" /\ assignment[s] = "IN_REVIEW"
  BY DEF StageAgrees, Finalize
<1>2. /\ v = version[s] /\ version[s] > 0
      /\ evaluation[s][v] = "NONE"
  BY <1>1 DEF ReviewAgrees, StageAgrees
<1>3. event \in {"PASS", "REQUEST_REVISION"} /\ (event = "PASS" <=> decision = "PASS")
  OBVIOUS
<1>4. assignment' = [assignment EXCEPT ![s] =
        IF decision = "PASS" THEN "COMPLETED" ELSE "NEEDS_REVISION"]
  <2>1. PICK to \in AssignmentStatus :
          /\ Transition(assignment[s], event, "ASSIGNED_REVIEWER", to)
          /\ assignment' = [assignment EXCEPT ![s] = to]
    BY DEF Finalize
  <2>2. CASE event = "PASS"
    BY <1>3, <2>1, <2>2, TransitionTable
  <2>3. CASE event = "REQUEST_REVISION"
    BY <1>3, <2>1, <2>3, TransitionTable
  <2> QED
    BY <1>3, <2>2, <2>3
<1> QED
  BY <1>2, <1>4 DEF Finalize, learnerVars

\* A decision closes the review, records the verdict and moves the stage together.
LEMMA FinalizeAgrees ==
  ASSUME NEW s \in Stages, NEW v \in Versions, NEW event, NEW decision, IInv,
         Finalize(s, v, event, decision),
         <<event, decision>> \in {<<"PASS", "PASS">>, <<"REQUEST_REVISION", "REVISION_REQUIRED">>}
  PROVE  \A t \in Stages : StageAgrees(t)'
<1> USE DEF IInv
<1> DEFINE target == IF decision = "PASS" THEN "COMPLETED" ELSE "NEEDS_REVISION"
<1>1. /\ v = version[s] /\ version[s] > 0
      /\ evaluation[s][v] = "NONE"
      /\ assignment' = [assignment EXCEPT ![s] = target]
      /\ reviewStatus' = [reviewStatus EXCEPT ![s][v] = "FINALIZED"]
      /\ evaluation' = [evaluation EXCEPT ![s][v] = decision]
      /\ version' = version
  BY FinalizeFacts
<1>2. decision \in {"PASS", "REVISION_REQUIRED"} /\ assignment[s] = "IN_REVIEW"
  BY DEF Finalize
<1>3. ASSUME NEW t \in Stages, t # s PROVE StageAgrees(t)'
  BY <1>1, <1>3, StageFrame DEF TypeOK
<1>4. /\ assignment'[s] = target
      /\ reviewStatus'[s] = [reviewStatus[s] EXCEPT ![v] = "FINALIZED"]
      /\ evaluation'[s] = [evaluation[s] EXCEPT ![v] = decision]
  BY <1>1 DEF TypeOK
<1>5. ASSUME NEW u \in Versions PROVE ReviewAgrees(s, u)'
  <2>1. ReviewAgrees(s, u)
    BY DEF StageAgrees
  <2>2. CASE u = v
    BY <1>1, <1>2, <1>4, <2>1, <2>2 DEF ReviewAgrees, TypeOK
  <2>3. CASE u # v
    BY <1>1, <1>2, <1>4, <2>1, <2>3 DEF ReviewAgrees, TypeOK
  <2> QED
    BY <2>2, <2>3
<1>6. evaluation'[s][v] = decision
  BY <1>4 DEF TypeOK
<1>7. StageAgrees(s)'
  BY <1>1, <1>2, <1>4, <1>5, <1>6 DEF StageAgrees, VerdictAgrees
<1> QED
  BY <1>3, <1>7

\* A command that changes only the statuses of stages outside a review, and
\* leaves each with a status its latest verdict supports, keeps the agreement.
LEMMA RestingAgrees ==
  ASSUME IInv, UNCHANGED <<version, reviewStatus, evaluation>>,
         NEW t \in Stages,
         assignment[t] \notin {"SUBMITTED", "IN_REVIEW"},
         assignment'[t] \notin {"SUBMITTED", "IN_REVIEW"},
         VerdictAgrees(t)'
  PROVE  StageAgrees(t)'
  BY DEF IInv, StageAgrees, ReviewAgrees

\* Every command but the reviewer's assignment needs a confirmed Enrollment.
LEMMA NextUnconfirmed ==
  IInv /\ [Next]_vars => NothingBeforeConfirmation'
<1> SUFFICES ASSUME IInv, [Next]_vars, enrollment' = "PENDING_IDENTITY"
             PROVE  enrollment = "PENDING_IDENTITY" /\ assignment' = assignment
  BY DEF IInv, NothingBeforeConfirmation
<1>1. CASE ConfirmIdentity
  BY <1>1 DEF ConfirmIdentity
<1>2. ASSUME NEW s \in Stages, LearnerCommand(s)
      PROVE  enrollment = "PENDING_IDENTITY" /\ assignment' = assignment
  BY <1>2 DEF IInv, LearnerCommand, CompleteLearningMaterial, StartAssignment, SaveSubmissionDraft,
    SubmitAssignment, StartEvidenceRevision, CancelEvidenceRevision, LockActiveLearnerAssignment
<1>3. ASSUME NEW s \in Stages, NEW v \in Versions, ReviewerCommand(s, v)
      PROVE  enrollment = "PENDING_IDENTITY" /\ assignment' = assignment
  BY <1>3 DEF ReviewerCommand, StartReview, FinalizeRequestRevision, FinalizePass, Finalize,
    LockScopedContext
<1>4. ASSUME NEW r \in Reviewers, OperatorCommand(r)
      PROVE  enrollment = "PENDING_IDENTITY" /\ assignment' = assignment
  BY <1>4 DEF OperatorCommand, AssignReviewer, HandoffAssignedReview
<1>5. CASE CancelEnrollment
  BY <1>5 DEF CancelEnrollment
<1>6. CASE UNCHANGED vars
  BY <1>6 DEF vars
<1> QED
  BY <1>1, <1>2, <1>3, <1>4, <1>5, <1>6 DEF Next

\* No command but the confirmation creates an Assignment, and it creates those of
\* the bound stages.
LEMMA NextUnbound ==
  IInv /\ [Next]_vars => UnboundIsAbsent'
<1> SUFFICES ASSUME IInv, [Next]_vars PROVE UnboundIsAbsent'
  OBVIOUS
<1> USE DEF IInv, TypeOK
<1> DEFINE Kept == \A t \in Stages : assignment[t] = "ABSENT" => assignment'[t] = "ABSENT"
<1>1. CASE ConfirmIdentity
  BY <1>1 DEF ConfirmIdentity, UnboundIsAbsent, BoundStages
<1>2. ASSUME NEW s \in Stages, LearnerCommand(s) PROVE Kept /\ program' = program
  <2>1. CASE CompleteLearningMaterial(s) \/ SaveSubmissionDraft(s)
    BY <2>1 DEF CompleteLearningMaterial, SaveSubmissionDraft
  <2>2. CASE StartAssignment(s)
    BY <2>2, TransitionTable DEF StartAssignment
  <2>3. CASE SubmitAssignment(s)
    BY <2>3 DEF SubmitAssignment, Writable
  <2>4. CASE StartEvidenceRevision(s) \/ CancelEvidenceRevision(s)
    BY <2>4 DEF StartEvidenceRevision, CancelEvidenceRevision, HasReviewResult
  <2> QED
    BY <1>2, <2>1, <2>2, <2>3, <2>4 DEF LearnerCommand
<1>3. ASSUME NEW s \in Stages, NEW v \in Versions, ReviewerCommand(s, v)
      PROVE  Kept /\ program' = program
  <2>1. CASE StartReview(s, v)
    BY <2>1, TransitionTable DEF StartReview
  <2>2. ASSUME NEW event, NEW decision, Finalize(s, v, event, decision)
        PROVE  Kept /\ program' = program
    BY <2>2 DEF Finalize
  <2> QED
    BY <1>3, <2>1, <2>2 DEF ReviewerCommand, FinalizeRequestRevision, FinalizePass
<1>4. ASSUME NEW r \in Reviewers, OperatorCommand(r) PROVE Kept /\ program' = program
  BY <1>4 DEF OperatorCommand, AssignReviewer, HandoffAssignedReview
<1>5. CASE CancelEnrollment
  BY <1>5, TransitionTable DEF CancelEnrollment, UnboundIsAbsent, BoundStages
<1>6. CASE UNCHANGED vars
  BY <1>6 DEF vars, UnboundIsAbsent, BoundStages
<1>7. ASSUME Kept, program' = program PROVE UnboundIsAbsent'
  BY <1>7 DEF UnboundIsAbsent, BoundStages
<1> QED
  BY <1>1, <1>2, <1>3, <1>4, <1>5, <1>6, <1>7 DEF Next

\* Every command of the learner, the reviewer and the operator keeps the agreement.
LEMMA NextAgrees == IInv /\ [Next]_vars => IInv'
<1> SUFFICES ASSUME IInv, [Next]_vars PROVE \A t \in Stages : StageAgrees(t)'
  BY NextTyped, NextUnconfirmed, NextUnbound DEF IInv
<1> USE DEF IInv
<1>1. CASE ConfirmIdentity
  <2>1. /\ \A t \in Stages : assignment[t] = "ABSENT" /\ assignment'[t] \in {"ABSENT", "AVAILABLE"}
        /\ UNCHANGED <<version, reviewStatus, evaluation>>
    BY <1>1 DEF ConfirmIdentity, NothingBeforeConfirmation, TypeOK, learnerVars, reviewVars
  <2>2. ASSUME NEW t \in Stages PROVE VerdictAgrees(t)'
    BY <2>1 DEF StageAgrees, VerdictAgrees
  <2> QED
    BY <2>1, <2>2, RestingAgrees
<1>2. ASSUME NEW s \in Stages, LearnerCommand(s)
      PROVE  \A t \in Stages : StageAgrees(t)'
  <2>1. CASE CompleteLearningMaterial(s) \/ SaveSubmissionDraft(s)
    BY <2>1, StageFrame DEF CompleteLearningMaterial, SaveSubmissionDraft, reviewVars
  <2>2. CASE StartAssignment(s)
    <3>1. /\ assignment[s] = "AVAILABLE"
          /\ assignment' = [assignment EXCEPT ![s] = "IN_PROGRESS"]
          /\ UNCHANGED <<version, reviewStatus, evaluation>>
      BY <2>2, TransitionTable DEF StartAssignment, learnerVars, reviewVars
    <3>2. VerdictAgrees(s)'
      BY <3>1 DEF StageAgrees, VerdictAgrees, TypeOK
    <3> QED
      BY <3>1, <3>2, RestingAgrees, StageFrame DEF TypeOK
  <2>3. CASE SubmitAssignment(s)
    BY <2>3, SubmitAgrees
  <2>4. CASE StartEvidenceRevision(s)
    <3>1. /\ assignment[s] \in {"COMPLETED", "NEEDS_REVISION"}
          /\ assignment' = [assignment EXCEPT ![s] = "IN_PROGRESS"]
          /\ UNCHANGED <<version, reviewStatus, evaluation>>
      BY <2>4 DEF StartEvidenceRevision, HasReviewResult, reviewVars
    <3>2. VerdictAgrees(s)'
      BY <3>1 DEF StageAgrees, VerdictAgrees, TypeOK
    <3> QED
      BY <3>1, <3>2, RestingAgrees, StageFrame DEF TypeOK
  <2>5. CASE CancelEvidenceRevision(s)
    <3>1. /\ assignment[s] = "IN_PROGRESS" /\ version[s] > 0
          /\ assignment' = [assignment EXCEPT ![s] = LatestResult(s)]
          /\ UNCHANGED <<version, reviewStatus, evaluation>>
      BY <2>5 DEF CancelEvidenceRevision, reviewVars
    <3>2. version[s] \in Versions
      BY <3>1, VersionAssumption DEF Versions, TypeOK
    <3>3. evaluation[s][version[s]] \in {"PASS", "REVISION_REQUIRED"}
      BY <3>1, <3>2 DEF StageAgrees, VerdictAgrees, TypeOK
    <3>4. VerdictAgrees(s)' /\ assignment'[s] \in {"COMPLETED", "NEEDS_REVISION"}
      BY <3>1, <3>3 DEF LatestResult, VerdictAgrees, TypeOK
    <3> QED
      BY <3>1, <3>4, RestingAgrees, StageFrame DEF TypeOK
  <2> QED
    BY <1>2, <2>1, <2>2, <2>3, <2>4, <2>5 DEF LearnerCommand
<1>3. ASSUME NEW s \in Stages, NEW v \in Versions, ReviewerCommand(s, v)
      PROVE  \A t \in Stages : StageAgrees(t)'
  <2>1. CASE StartReview(s, v)
    BY <2>1, StartReviewAgrees
  <2>2. CASE FinalizeRequestRevision(s, v)
    BY <2>2, FinalizeAgrees DEF FinalizeRequestRevision
  <2>3. CASE FinalizePass(s, v)
    BY <2>3, FinalizeAgrees DEF FinalizePass
  <2> QED
    BY <1>3, <2>1, <2>2, <2>3 DEF ReviewerCommand
<1>4. ASSUME NEW r \in Reviewers, OperatorCommand(r)
      PROVE  \A t \in Stages : StageAgrees(t)'
  BY <1>4, StageFrame
    DEF OperatorCommand, AssignReviewer, HandoffAssignedReview, learnerVars, reviewVars
<1>5. CASE CancelEnrollment
  <2>1. UNCHANGED <<version, reviewStatus, evaluation>>
    BY <1>5 DEF CancelEnrollment, learnerVars, reviewVars
  <2>2. ASSUME NEW t \in Stages
        PROVE  /\ assignment[t] \notin {"SUBMITTED", "IN_REVIEW"}
               /\ assignment'[t] \in {assignment[t], "CANCELLED"}
    BY <1>5 DEF CancelEnrollment, InReviewHistory
  <2>3. ASSUME NEW t \in Stages PROVE VerdictAgrees(t)'
    BY <2>1, <2>2 DEF StageAgrees, VerdictAgrees
  <2> QED
    BY <2>1, <2>2, <2>3, RestingAgrees
<1>6. CASE UNCHANGED vars
  BY <1>6, StageFrame DEF vars, learnerVars, reviewVars
<1> QED
  BY <1>1, <1>2, <1>3, <1>4, <1>5, <1>6 DEF Next

\* The strengthened invariant: well-typed rows, no work before the identity is
\* confirmed, and on every stage the agreement of its Assignment, its versions, their
\* reviews and their verdicts.
THEOREM InductiveInvariant == Spec => []IInv
<1>1. Init => IInv
  BY InitAgrees
<1>2. IInv /\ [Next]_vars => IInv'
  BY NextAgrees
<1> QED
  BY <1>1, <1>2, PTL DEF Spec

\* Reviews, evaluations and assignments tell one story in every journey.
THEOREM ReviewsFollow == Spec => []ReviewFollowsAssignment
<1>1. IInv => ReviewFollowsAssignment
  BY DEF IInv, StageAgrees, ReviewFollowsAssignment
<1> QED
  BY <1>1, InductiveInvariant, PTL

\* No stage of any journey is completed without a human PASS of its latest version.
THEOREM CompletedIsApproved == Spec => []CompletedMeansApproved
<1>1. IInv => CompletedMeansApproved
  BY DEF IInv, StageAgrees, VerdictAgrees, CompletedMeansApproved
<1> QED
  BY <1>1, InductiveInvariant, PTL

-----------------------------------------------------------------------------
(* Implementation of HumanGate. *)

\* At the start nothing is handed in or judged.
LEMMA InitGate == Init => Gate!Init
  BY ProgramAssumption DEF Init, Gate!Init, HasOutcome, Versions, BoundStages, Stages

\* Work is done on the bound stages only.
LEMMA WorkIsBound ==
  ASSUME NEW s \in Stages, IInv, assignment[s] # "ABSENT"
  PROVE  s \in BoundStages
  BY DEF IInv, UnboundIsAbsent

\* A submission is handed in only when the previous version was judged.
LEMMA SubmitGate ==
  ASSUME NEW s \in Stages, IInv, SubmitAssignment(s)
  PROVE  Gate!Submit(s)
<1>1. assignment[s] \in {"IN_PROGRESS", "NEEDS_REVISION"}
  BY DEF SubmitAssignment, Writable
<1>2. Gate!Judged(s)
  BY <1>1 DEF IInv, StageAgrees, VerdictAgrees, Gate!Judged
<1>3. /\ version[s] < MaxVersions
      /\ version' = [version EXCEPT ![s] = @ + 1]
      /\ UNCHANGED <<program, evaluation, outcome>>
  BY DEF SubmitAssignment
<1> QED
  BY <1>2, <1>3 DEF Gate!Submit, HasOutcome, BoundStages

\* Every decision is the judgement of the latest, unjudged version.
LEMMA FinalizeGate ==
  ASSUME NEW s \in Stages, NEW v \in Versions, NEW event, NEW decision, IInv,
         Finalize(s, v, event, decision),
         <<event, decision>> \in {<<"PASS", "PASS">>, <<"REQUEST_REVISION", "REVISION_REQUIRED">>},
         HasOutcome' \in {HasOutcome, HasOutcome \/ Gate!AllApproved(evaluation')}
  PROVE  Gate!Judge(s, decision)
<1>1. BoundStages' = BoundStages
  BY DEF Finalize, BoundStages
<1>2. /\ v = version[s] /\ version[s] > 0
      /\ evaluation[s][v] = "NONE"
      /\ evaluation' = [evaluation EXCEPT ![s][v] = decision]
      /\ version' = version
  BY FinalizeFacts
<1> QED
  BY <1>1, <1>2 DEF Gate!Judge, Gate!Judged

\* An approval writes the Outcome only if it leaves every stage approved.
LEMMA PassGate ==
  ASSUME NEW s \in Stages, NEW v \in Versions, IInv, FinalizePass(s, v)
  PROVE  HasOutcome' \in {HasOutcome, HasOutcome \/ Gate!AllApproved(evaluation')}
<1>1. IInv' /\ version' = version
  <2>1. Next
    BY DEF Next, ReviewerCommand
  <2> QED
    BY <2>1, NextAgrees DEF FinalizePass, Finalize, learnerVars
<1>2. CASE outcome' = outcome
  BY <1>2 DEF HasOutcome
<1>3. CASE outcome' # outcome
  <2>1. HasOutcome'
    <3>1. \/ outcome' = OutcomeBundle(s, v, {})
          \/ outcome' = OutcomeBundle(s, v, FormalEvaluationEvidence(assignment', evaluation'))
      BY <1>3 DEF FinalizePass, OutcomeOnce
    <3> QED
      BY <3>1, BundleIsOutcome DEF HasOutcome
  <2>2. assignment'[s] = "COMPLETED"
    <3>1. Finalize(s, v, "PASS", "PASS")
      BY DEF FinalizePass
    <3>2. assignment' = [assignment EXCEPT ![s] = "COMPLETED"]
      BY <3>1, FinalizeFacts, Zenon
    <3> QED
      BY <3>2 DEF IInv, TypeOK
  <2>3. \A t \in BoundStages : t \in Stages /\ assignment'[t] = "COMPLETED"
    <3>1. CASE program # "JOURNEY"
      <4>1. s \in BoundStages
        BY WorkIsBound DEF FinalizePass, Finalize
      <4> QED
        BY <2>2, <3>1, <4>1 DEF BoundStages
    <3>2. CASE program = "JOURNEY"
      BY <1>3, <3>2 DEF FinalizePass, IsPractice, FormalJourneyIsComplete, BoundStages
    <3> QED
      BY <3>1, <3>2
  <2>4. Gate!AllApproved(evaluation')
    BY <1>1, <2>3 DEF IInv, StageAgrees, VerdictAgrees, Gate!AllApproved
  <2> QED
    BY <2>1, <2>4 DEF HasOutcome
<1> QED
  BY <1>2, <1>3

\* Every command is a step of HumanGate, or none of its business.
LEMMA NextGate == IInv /\ [Next]_vars => [Gate!Next]_(Gate!vars)
<1> SUFFICES ASSUME IInv, [Next]_vars
             PROVE  Gate!Next \/ UNCHANGED <<program, version, evaluation, outcome>>
  BY DEF Gate!vars, HasOutcome, BoundStages
<1>1. CASE ConfirmIdentity \/ CancelEnrollment \/ UNCHANGED vars
  BY <1>1 DEF ConfirmIdentity, CancelEnrollment, vars, learnerVars, reviewVars
<1>2. ASSUME NEW s \in Stages, LearnerCommand(s)
      PROVE  Gate!Next \/ UNCHANGED <<program, version, evaluation, outcome>>
  <2>1. CASE SubmitAssignment(s)
    BY <2>1, SubmitGate, WorkIsBound DEF Gate!Next, SubmitAssignment, Writable
  <2>2. CASE ~ SubmitAssignment(s)
    BY <1>2, <2>2 DEF LearnerCommand, CompleteLearningMaterial, StartAssignment,
      SaveSubmissionDraft, StartEvidenceRevision, CancelEvidenceRevision, learnerVars, reviewVars
  <2> QED
    BY <2>1, <2>2
<1>3. ASSUME NEW s \in Stages, NEW v \in Versions, ReviewerCommand(s, v)
      PROVE  Gate!Next \/ UNCHANGED <<program, version, evaluation, outcome>>
  <2>1. CASE StartReview(s, v)
    BY <2>1 DEF StartReview, learnerVars
  <2>2. CASE FinalizeRequestRevision(s, v)
    <3>1. HasOutcome' = HasOutcome
      BY <2>2 DEF FinalizeRequestRevision, HasOutcome
    <3>2. Gate!Judge(s, "REVISION_REQUIRED") /\ s \in BoundStages
      BY <2>2, <3>1, FinalizeGate, WorkIsBound DEF FinalizeRequestRevision, Finalize
    <3> QED
      BY <3>2 DEF Gate!Next, Gate!Verdicts
  <2>3. CASE FinalizePass(s, v)
    <3>1. Gate!Judge(s, "PASS") /\ s \in BoundStages
      BY <2>3, PassGate, FinalizeGate, WorkIsBound DEF FinalizePass, Finalize
    <3> QED
      BY <3>1 DEF Gate!Next, Gate!Verdicts
  <2> QED
    BY <1>3, <2>1, <2>2, <2>3 DEF ReviewerCommand
<1>4. ASSUME NEW r \in Reviewers, OperatorCommand(r)
      PROVE  Gate!Next \/ UNCHANGED <<program, version, evaluation, outcome>>
  BY <1>4 DEF OperatorCommand, AssignReviewer, HandoffAssignedReview, learnerVars, reviewVars
<1> QED
  BY <1>1, <1>2, <1>3, <1>4 DEF Next

\* The commands of every journey, task and practice implement HumanGate.
THEOREM HumanGateHolds == Spec => ImplementsHumanGate
<1>1. Init => Gate!Init
  BY InitGate
<1>2. IInv /\ [Next]_vars => [Gate!Next]_(Gate!vars)
  BY NextGate
<1> QED
  BY <1>1, <1>2, InductiveInvariant, PTL DEF Spec, ImplementsHumanGate, Gate!Spec

-----------------------------------------------------------------------------
(* How each command moves the Assignments. *)

\* start_assignment takes an available stage that is current into work.
LEMMA StartMoves ==
  ASSUME NEW s \in Stages, StartAssignment(s)
  PROVE  /\ enrollment = "ACTIVE" /\ FormalAssignmentIsCurrent(s)
         /\ assignment[s] = "AVAILABLE"
         /\ assignment' = [assignment EXCEPT ![s] = "IN_PROGRESS"]
         /\ UNCHANGED <<program, enrollment, reviewer, learnerVars, reviewVars, outcome>>
  BY TransitionTable DEF StartAssignment, LockActiveLearnerAssignment

\* submit_assignment makes the next version, and the review that waits for it.
LEMMA SubmitMoves ==
  ASSUME NEW s \in Stages, TypeOK, SubmitAssignment(s)
  PROVE  /\ enrollment = "ACTIVE" /\ FormalAssignmentIsCurrent(s)
         /\ assignment[s] \in {"IN_PROGRESS", "NEEDS_REVISION"}
         /\ assignment' = [assignment EXCEPT ![s] = "SUBMITTED"]
         /\ version[s] + 1 \in Versions
         /\ version' = [version EXCEPT ![s] = version[s] + 1]
         /\ draft' = [draft EXCEPT ![s] = FALSE]
         /\ reviewStatus' = [reviewStatus EXCEPT ![s][version[s] + 1] = "ASSIGNED"]
         /\ reviewOwner' = [reviewOwner EXCEPT ![s][version[s] + 1] = reviewer]
         /\ UNCHANGED <<program, enrollment, reviewer, delegate, evaluation, outcome>>
<1>1. assignment[s] \in {"IN_PROGRESS", "NEEDS_REVISION"}
  BY DEF SubmitAssignment, Writable
<1>2. assignment' = [assignment EXCEPT ![s] = "SUBMITTED"]
  BY <1>1, TransitionTable DEF SubmitAssignment
<1>3. version[s] + 1 \in Versions
  BY VersionAssumption DEF SubmitAssignment, TypeOK, Versions
<1> QED
  BY <1>1, <1>2, <1>3 DEF SubmitAssignment, LockActiveLearnerAssignment, DeleteDraft

\* start_review takes a submitted stage, and the review of a version of its lineage.
LEMMA StartReviewMoves ==
  ASSUME NEW s \in Stages, NEW v \in Versions, StartReview(s, v)
  PROVE  /\ enrollment = "ACTIVE" /\ InLineage(s, v)
         /\ assignment[s] = "SUBMITTED" /\ reviewStatus[s][v] = "ASSIGNED"
         /\ assignment' = [assignment EXCEPT ![s] = "IN_REVIEW"]
         /\ reviewStatus' = [reviewStatus EXCEPT ![s][v] = "IN_REVIEW"]
         /\ UNCHANGED <<program, enrollment, reviewer, version, draft,
                        reviewOwner, delegate, evaluation, outcome>>
  BY TransitionTable DEF StartReview, LockScopedContext, learnerVars

\* Cancelling the Enrollment cancels what can be cancelled and touches nothing judged.
LEMMA CancelMoves ==
  ASSUME NEW s \in Stages, CancelEnrollment
  PROVE  /\ assignment[s] \notin {"SUBMITTED", "IN_REVIEW", "NEEDS_REVISION"}
         /\ assignment[s] \in {"AVAILABLE", "IN_PROGRESS"} => assignment'[s] = "CANCELLED"
         /\ assignment[s] \notin {"AVAILABLE", "IN_PROGRESS"} => assignment'[s] = assignment[s]
<1>1. assignment[s] \in {"AVAILABLE", "IN_PROGRESS"} =>
        Transition(assignment[s], "CANCEL", "MODULE_OPERATOR", "CANCELLED")
  BY DEF Transition, Transitions
<1>2. "CANCELLED" \in AssignmentStatus
  BY DEF AssignmentStatus
<1> QED
  BY <1>1, <1>2, TransitionTable DEF CancelEnrollment, InReviewHistory

-----------------------------------------------------------------------------
(* Nothing is left behind. *)

\* Only the cancelled Enrollment has cancelled Assignments.
CancelledTogether ==
  \A s \in Stages : assignment[s] = "CANCELLED" => enrollment = "CANCELLED"

CancelledIsAtRest ==
  enrollment = "CANCELLED" =>
    \A s \in Stages : assignment[s] \in {"ABSENT", "COMPLETED", "CANCELLED"}

DraftIsBeingWritten ==
  \A s \in Stages : draft[s] => Writable(s) \/ assignment[s] = "CANCELLED"

OpenReviewIsReachable ==
  \A s \in Stages, v \in Versions :
    reviewStatus[s][v] \in {"ASSIGNED", "IN_REVIEW"} => InLineage(s, v)

\* A cancelled Enrollment accepts no command that moves an Assignment, and no other
\* Enrollment cancels one.
LEMMA CancelledStep ==
  ASSUME IInv, CancelledTogether, CancelledIsAtRest, [Next]_vars
  PROVE  CancelledTogether' /\ CancelledIsAtRest'
<1> USE DEF IInv, TypeOK, CancelledTogether, CancelledIsAtRest
<1>1. CASE ConfirmIdentity
  BY <1>1 DEF ConfirmIdentity
<1>2. ASSUME NEW s \in Stages, LearnerCommand(s)
      PROVE  CancelledTogether' /\ CancelledIsAtRest'
  <2>1. CASE CompleteLearningMaterial(s) \/ SaveSubmissionDraft(s)
    BY <2>1 DEF CompleteLearningMaterial, SaveSubmissionDraft
  <2>2. CASE StartAssignment(s)
    BY <2>2, StartMoves
  <2>3. CASE SubmitAssignment(s)
    <3>1. /\ enrollment = "ACTIVE" /\ enrollment' = enrollment
          /\ assignment' = [assignment EXCEPT ![s] = "SUBMITTED"]
      BY <2>3, SubmitMoves DEF TypeOK
    <3> QED
      BY <3>1
  <2>4. CASE StartEvidenceRevision(s)
    BY <2>4 DEF StartEvidenceRevision
  <2>5. CASE CancelEvidenceRevision(s)
    <3>1. /\ enrollment = "ACTIVE" /\ enrollment' \in {"ACTIVE", "COMPLETED"}
          /\ assignment' = [assignment EXCEPT ![s] = LatestResult(s)]
          /\ LatestResult(s) # "CANCELLED"
      BY <2>5 DEF CancelEvidenceRevision, LockActiveLearnerAssignment, LatestResult
    <3> QED
      BY <3>1
  <2> QED
    BY <1>2, <2>1, <2>2, <2>3, <2>4, <2>5 DEF LearnerCommand
<1>3. ASSUME NEW s \in Stages, NEW v \in Versions, ReviewerCommand(s, v)
      PROVE  CancelledTogether' /\ CancelledIsAtRest'
  <2>1. CASE StartReview(s, v)
    BY <2>1, StartReviewMoves
  <2>2. ASSUME NEW event, NEW decision, Finalize(s, v, event, decision),
               <<event, decision>> \in {<<"PASS", "PASS">>, <<"REQUEST_REVISION", "REVISION_REQUIRED">>},
               enrollment' \in {enrollment, "COMPLETED"}
        PROVE  CancelledTogether' /\ CancelledIsAtRest'
    <3>1. assignment' = [assignment EXCEPT ![s] =
              IF decision = "PASS" THEN "COMPLETED" ELSE "NEEDS_REVISION"]
      BY <2>2, FinalizeFacts DEF IInv
    <3>2. enrollment = "ACTIVE"
      BY <2>2 DEF Finalize, LockScopedContext
    <3> QED
      BY <2>2, <3>1, <3>2
  <2>3. CASE FinalizeRequestRevision(s, v)
    BY <2>2, <2>3 DEF FinalizeRequestRevision
  <2>4. CASE FinalizePass(s, v)
    BY <2>2, <2>4 DEF FinalizePass
  <2> QED
    BY <1>3, <2>1, <2>3, <2>4 DEF ReviewerCommand
<1>4. ASSUME NEW r \in Reviewers, OperatorCommand(r)
      PROVE  CancelledTogether' /\ CancelledIsAtRest'
  BY <1>4 DEF OperatorCommand, AssignReviewer, HandoffAssignedReview
<1>5. CASE CancelEnrollment
  <2>1. enrollment' = "CANCELLED"
    BY <1>5 DEF CancelEnrollment
  <2>2. \A s \in Stages : assignment'[s] \in {"ABSENT", "COMPLETED", "CANCELLED"}
    BY <1>5, CancelMoves DEF AssignmentStatus
  <2> QED
    BY <2>1, <2>2
<1>6. CASE UNCHANGED vars
  BY <1>6 DEF vars
<1> QED
  BY <1>1, <1>2, <1>3, <1>4, <1>5, <1>6 DEF Next

\* A draft appears while its stage is written and is deleted by what ends the writing.
LEMMA DraftStep ==
  ASSUME IInv, DraftIsBeingWritten, [Next]_vars
  PROVE  DraftIsBeingWritten'
<1> USE DEF IInv, TypeOK, DraftIsBeingWritten, Writable
<1>1. CASE ConfirmIdentity
  BY <1>1 DEF ConfirmIdentity, learnerVars, NothingBeforeConfirmation
<1>2. ASSUME NEW s \in Stages, LearnerCommand(s) PROVE DraftIsBeingWritten'
  <2>1. CASE CompleteLearningMaterial(s) \/ SaveSubmissionDraft(s)
    BY <2>1 DEF CompleteLearningMaterial, SaveSubmissionDraft
  <2>2. CASE StartAssignment(s)
    BY <2>2, StartMoves DEF learnerVars
  <2>3. CASE SubmitAssignment(s)
    BY <2>3, SubmitMoves
  <2>4. CASE StartEvidenceRevision(s)
    BY <2>4 DEF StartEvidenceRevision
  <2>5. CASE CancelEvidenceRevision(s)
    BY <2>5 DEF CancelEvidenceRevision, DeleteDraft
  <2> QED
    BY <1>2, <2>1, <2>2, <2>3, <2>4, <2>5 DEF LearnerCommand
<1>3. ASSUME NEW s \in Stages, NEW v \in Versions, ReviewerCommand(s, v) PROVE DraftIsBeingWritten'
  <2>1. CASE StartReview(s, v)
    <3>1. /\ assignment[s] = "SUBMITTED"
          /\ assignment' = [assignment EXCEPT ![s] = "IN_REVIEW"]
          /\ UNCHANGED <<program, draft>>
      BY <2>1, StartReviewMoves
    <3> QED
      BY <3>1
  <2>2. ASSUME NEW event, NEW decision, Finalize(s, v, event, decision)
        PROVE  DraftIsBeingWritten'
    <3>1. /\ assignment[s] = "IN_REVIEW"
          /\ \A t \in Stages \ {s} : assignment'[t] = assignment[t]
          /\ UNCHANGED <<program, draft>>
      BY <2>2 DEF Finalize, learnerVars
    <3> QED
      BY <3>1
  <2> QED
    BY <1>3, <2>1, <2>2 DEF ReviewerCommand, FinalizeRequestRevision, FinalizePass
<1>4. ASSUME NEW r \in Reviewers, OperatorCommand(r) PROVE DraftIsBeingWritten'
  BY <1>4 DEF OperatorCommand, AssignReviewer, HandoffAssignedReview, learnerVars
<1>5. CASE CancelEnrollment
  <2>1. UNCHANGED <<program, draft>>
    BY <1>5 DEF CancelEnrollment, learnerVars
  <2> QED
    BY <1>5, <2>1, CancelMoves
<1>6. CASE UNCHANGED vars
  BY <1>6 DEF vars, learnerVars
<1> QED
  BY <1>1, <1>2, <1>3, <1>4, <1>5, <1>6 DEF Next

\* The operator moves the Enrollment away from a reviewer only without an open review,
\* or together with the only one.
LEMMA ReachableStep ==
  ASSUME IInv, OpenReviewIsReachable, [Next]_vars
  PROVE  OpenReviewIsReachable'
<1> USE DEF IInv, TypeOK, OpenReviewIsReachable, InLineage
<1>1. CASE ConfirmIdentity \/ CancelEnrollment \/ UNCHANGED vars
  BY <1>1 DEF ConfirmIdentity, CancelEnrollment, vars, reviewVars
<1>2. ASSUME NEW s \in Stages, LearnerCommand(s) PROVE OpenReviewIsReachable'
  <2>1. CASE SubmitAssignment(s)
    <3> DEFINE u == version[s] + 1
    <3>1. /\ u \in Versions
          /\ reviewStatus' = [reviewStatus EXCEPT ![s][u] = "ASSIGNED"]
          /\ reviewOwner' = [reviewOwner EXCEPT ![s][u] = reviewer]
          /\ UNCHANGED <<reviewer, delegate>>
      BY <2>1, SubmitMoves
    <3> HIDE DEF u
    <3>2. reviewOwner'[s][u] = reviewer'
      BY <3>1
    <3>3. ASSUME NEW t \in Stages, NEW v \in Versions, <<t, v>> # <<s, u>>
          PROVE  reviewStatus'[t][v] = reviewStatus[t][v] /\ reviewOwner'[t][v] = reviewOwner[t][v]
      BY <3>1, <3>3
    <3> QED
      BY <3>1, <3>2, <3>3
  <2>2. CASE ~ SubmitAssignment(s)
    BY <1>2, <2>2 DEF LearnerCommand, CompleteLearningMaterial, StartAssignment,
      SaveSubmissionDraft, StartEvidenceRevision, CancelEvidenceRevision, reviewVars
  <2> QED
    BY <2>1, <2>2
<1>3. ASSUME NEW s \in Stages, NEW v \in Versions, ReviewerCommand(s, v) PROVE OpenReviewIsReachable'
  <2>1. CASE StartReview(s, v)
    <3>1. /\ reviewStatus[s][v] = "ASSIGNED"
          /\ reviewStatus' = [reviewStatus EXCEPT ![s][v] = "IN_REVIEW"]
          /\ UNCHANGED <<reviewer, reviewOwner, delegate>>
      BY <2>1, StartReviewMoves
    <3> QED
      BY <3>1
  <2>2. ASSUME NEW event, NEW decision, Finalize(s, v, event, decision)
        PROVE  OpenReviewIsReachable'
    <3>1. /\ reviewStatus' = [reviewStatus EXCEPT ![s][v] = "FINALIZED"]
          /\ UNCHANGED <<reviewer, reviewOwner, delegate>>
      BY <2>2 DEF Finalize
    <3> QED
      BY <3>1
  <2> QED
    BY <1>3, <2>1, <2>2 DEF ReviewerCommand, FinalizeRequestRevision, FinalizePass
<1>4. ASSUME NEW r \in Reviewers, OperatorCommand(r) PROVE OpenReviewIsReachable'
  <2>1. CASE AssignReviewer(r)
    <3>1. \A t \in Stages, v \in Versions : <<t, v>> \notin OpenReviews
      BY <2>1 DEF AssignReviewer
    <3> QED
      BY <2>1, <3>1 DEF AssignReviewer, reviewVars, OpenReviews
  <2>2. CASE HandoffAssignedReview(r)
    <3>1. PICK s \in Stages, u \in Versions :
            OpenReviews = {<<s, u>>} /\ delegate' = [delegate EXCEPT ![s][u] = r]
      BY <2>2 DEF HandoffAssignedReview
    <3>2. reviewer' = r /\ UNCHANGED <<reviewStatus, reviewOwner>>
      BY <2>2 DEF HandoffAssignedReview
    <3>3. ASSUME NEW t \in Stages, NEW v \in Versions, reviewStatus[t][v] \in {"ASSIGNED", "IN_REVIEW"}
          PROVE  delegate'[t][v] = r
      <4>1. <<t, v>> \in OpenReviews
        BY <3>3 DEF OpenReviews
      <4>2. t = s /\ v = u
        BY <3>1, <4>1
      <4> QED
        BY <3>1, <4>2
    <3> QED
      BY <3>2, <3>3
  <2> QED
    BY <1>4, <2>1, <2>2 DEF OperatorCommand
<1> QED
  BY <1>1, <1>2, <1>3, <1>4 DEF Next

\* No journey, task or practice leaves work, a draft or a review behind.
THEOREM NothingIsLeft == Spec => []NothingLeftBehind
<1> DEFINE Rest == /\ CancelledTogether /\ CancelledIsAtRest
                   /\ DraftIsBeingWritten /\ OpenReviewIsReachable
<1>1. Init => Rest
  BY DEF Init, CancelledTogether, CancelledIsAtRest, DraftIsBeingWritten, OpenReviewIsReachable
<1>2. IInv /\ Rest /\ [Next]_vars => Rest'
  BY CancelledStep, DraftStep, ReachableStep
<1>3. IInv /\ Rest => NothingLeftBehind
  <2> SUFFICES ASSUME IInv, Rest PROVE NothingLeftBehind
    OBVIOUS
  <2>1. ASSUME enrollment = "CANCELLED", NEW s \in Stages, NEW v \in Versions
        PROVE  reviewStatus[s][v] \in {"NONE", "FINALIZED"}
    <3>1. assignment[s] \notin {"SUBMITTED", "IN_REVIEW"}
      BY <2>1 DEF CancelledIsAtRest
    <3>2. reviewStatus[s][v] \in {"NONE", "ASSIGNED", "IN_REVIEW", "FINALIZED"}
      BY DEF IInv, TypeOK
    <3>3. ReviewAgrees(s, v)
      BY DEF IInv, StageAgrees
    <3> QED
      BY <3>1, <3>2, <3>3 DEF ReviewAgrees
  <2> QED
    BY <2>1 DEF NothingLeftBehind, CancelledIsAtRest, DraftIsBeingWritten, OpenReviewIsReachable
<1> QED
  BY <1>1, <1>2, <1>3, InductiveInvariant, PTL DEF Spec

-----------------------------------------------------------------------------
(* Order and graduation. *)

\* The statuses of a stage on which work was begun.
Begun == {"IN_PROGRESS", "SUBMITTED", "IN_REVIEW", "NEEDS_REVISION", "COMPLETED"}

\* Work on a stage begins with its start and with nothing else, and only an evidence
\* revision takes an approval back.
LEMMA OneWayIn ==
  ASSUME IInv, [Next]_vars, NEW t \in Stages
  PROVE  /\ assignment'[t] \in Begun /\ assignment[t] \notin Begun => StartAssignment(t)
         /\ assignment[t] = "COMPLETED" /\ assignment'[t] # "COMPLETED" => StartEvidenceRevision(t)
<1> DEFINE Ways ==
      /\ assignment'[t] \in Begun /\ assignment[t] \notin Begun => StartAssignment(t)
      /\ assignment[t] = "COMPLETED" /\ assignment'[t] # "COMPLETED" => StartEvidenceRevision(t)
<1> USE DEF IInv, Begun
<1>0. assignment \in [Stages -> AssignmentStatus \cup {"ABSENT"}]
  BY DEF TypeOK
<1>1. CASE ConfirmIdentity
  BY <1>1 DEF ConfirmIdentity, NothingBeforeConfirmation
<1>2. ASSUME NEW s \in Stages, LearnerCommand(s) PROVE Ways
  <2>1. CASE CompleteLearningMaterial(s) \/ SaveSubmissionDraft(s)
    BY <2>1 DEF CompleteLearningMaterial, SaveSubmissionDraft
  <2>2. CASE StartAssignment(s)
    BY <1>0, <2>2, StartMoves
  <2>3. CASE SubmitAssignment(s)
    <3>1. /\ assignment[s] \in {"IN_PROGRESS", "NEEDS_REVISION"}
          /\ assignment' = [assignment EXCEPT ![s] = "SUBMITTED"]
      BY <2>3, SubmitMoves
    <3> QED
      BY <1>0, <3>1
  <2>4. CASE StartEvidenceRevision(s)
    BY <1>0, <2>4 DEF StartEvidenceRevision, HasReviewResult
  <2>5. CASE CancelEvidenceRevision(s)
    BY <1>0, <2>5 DEF CancelEvidenceRevision
  <2> QED
    BY <1>2, <2>1, <2>2, <2>3, <2>4, <2>5 DEF LearnerCommand
<1>3. ASSUME NEW s \in Stages, NEW v \in Versions, ReviewerCommand(s, v) PROVE Ways
  <2>1. CASE StartReview(s, v)
    <3>1. /\ assignment[s] = "SUBMITTED"
          /\ assignment' = [assignment EXCEPT ![s] = "IN_REVIEW"]
      BY <2>1, StartReviewMoves
    <3> QED
      BY <1>0, <3>1
  <2>2. ASSUME NEW event, NEW decision, Finalize(s, v, event, decision) PROVE Ways
    BY <1>0, <2>2 DEF Finalize
  <2> QED
    BY <1>3, <2>1, <2>2 DEF ReviewerCommand, FinalizeRequestRevision, FinalizePass
<1>4. ASSUME NEW r \in Reviewers, OperatorCommand(r) PROVE Ways
  BY <1>4 DEF OperatorCommand, AssignReviewer, HandoffAssignedReview
<1>5. CASE CancelEnrollment
  BY <1>5, CancelMoves
<1>6. CASE UNCHANGED vars
  BY <1>6 DEF vars
<1> QED
  BY <1>1, <1>2, <1>3, <1>4, <1>5, <1>6 DEF Next

\* What no command undoes: the binding, the versions handed in and the verdicts.
LEMMA RecordsStay ==
  ASSUME IInv, [Next]_vars
  PROVE  /\ program' = program
         /\ \A t \in Stages : version'[t] >= version[t]
         /\ \A t \in Stages, u \in Versions :
              evaluation[t][u] # "NONE" => evaluation'[t][u] = evaluation[t][u]
<1> DEFINE Stay == /\ program' = program
                   /\ \A t \in Stages : version'[t] >= version[t]
                   /\ \A t \in Stages, u \in Versions :
                        evaluation[t][u] # "NONE" => evaluation'[t][u] = evaluation[t][u]
<1>0. /\ \A t \in Stages : version[t] \in Nat
      /\ version \in [Stages -> 0..MaxVersions]
      /\ evaluation \in [Stages -> [Versions -> {"NONE", "PASS", "REVISION_REQUIRED"}]]
  BY VersionAssumption DEF IInv, TypeOK
<1>1. CASE UNCHANGED <<program, version, evaluation>>
  BY <1>0, <1>1
<1>2. ASSUME NEW s \in Stages, SubmitAssignment(s) PROVE Stay
  <2>1. /\ version' = [version EXCEPT ![s] = version[s] + 1]
        /\ UNCHANGED <<program, evaluation>>
    BY <1>2, SubmitMoves DEF IInv
  <2> QED
    BY <1>0, <2>1
<1>3. ASSUME NEW s \in Stages, NEW v \in Versions, NEW event, NEW decision,
             Finalize(s, v, event, decision),
             <<event, decision>> \in {<<"PASS", "PASS">>, <<"REQUEST_REVISION", "REVISION_REQUIRED">>}
      PROVE  Stay
  <2>1. /\ evaluation[s][v] = "NONE"
        /\ evaluation' = [evaluation EXCEPT ![s][v] = decision]
        /\ version' = version
    BY <1>3, FinalizeFacts
  <2>2. program' = program
    BY <1>3 DEF Finalize
  <2> QED
    BY <1>0, <2>1, <2>2
<1>4. ASSUME NEW s \in Stages, LearnerCommand(s) PROVE Stay
  BY <1>1, <1>2, <1>4 DEF LearnerCommand, CompleteLearningMaterial, StartAssignment,
    SaveSubmissionDraft, StartEvidenceRevision, CancelEvidenceRevision, learnerVars, reviewVars
<1>5. ASSUME NEW s \in Stages, NEW v \in Versions, ReviewerCommand(s, v) PROVE Stay
  <2>1. CASE StartReview(s, v)
    BY <1>1, <2>1 DEF StartReview, learnerVars
  <2> QED
    BY <1>3, <1>5, <2>1 DEF ReviewerCommand, FinalizeRequestRevision, FinalizePass
<1>6. ASSUME NEW r \in Reviewers, OperatorCommand(r) PROVE Stay
  BY <1>1, <1>6 DEF OperatorCommand, AssignReviewer, HandoffAssignedReview, learnerVars, reviewVars
<1>7. CASE ConfirmIdentity \/ CancelEnrollment \/ UNCHANGED vars
  BY <1>1, <1>7 DEF ConfirmIdentity, CancelEnrollment, vars, learnerVars, reviewVars
<1> QED
  BY <1>4, <1>5, <1>6, <1>7 DEF Next

\* The Outcome is written by an approval, of a task or of the last open stage of a
\* journey, which completes the Enrollment.
LEMMA OutcomeIsWritten ==
  ASSUME IInv, [Next]_vars, outcome' # outcome
  PROVE  /\ enrollment' = "COMPLETED"
         /\ \E s \in Stages, v \in Versions :
              /\ Finalize(s, v, "PASS", "PASS")
              /\ \/ /\ program = "JOURNEY"
                    /\ FormalJourneyIsComplete(assignment', evaluation')
                    /\ outcome' = OutcomeBundle(s, v, FormalEvaluationEvidence(assignment', evaluation'))
                 \/ /\ program \notin {"JOURNEY", "NOVICE"}
                    /\ outcome' = OutcomeBundle(s, v, {})
<1>1. PICK s \in Stages, v \in Versions : FinalizePass(s, v)
  BY DEF Next, vars, LearnerCommand, ReviewerCommand, OperatorCommand, ConfirmIdentity,
    CompleteLearningMaterial, StartAssignment, SaveSubmissionDraft, SubmitAssignment,
    StartEvidenceRevision, CancelEvidenceRevision, StartReview, FinalizeRequestRevision,
    AssignReviewer, HandoffAssignedReview, CancelEnrollment
<1> QED
  BY <1>1 DEF FinalizePass, IsPractice, OutcomeOnce, FormalJourneyIsComplete

\* The Enrollment never waits for its identity again.
LEMMA NeverPendingAgain ==
  ASSUME [Next]_vars, enrollment' = "PENDING_IDENTITY"
  PROVE  enrollment = "PENDING_IDENTITY"
<1>1. ASSUME NEW s \in Stages, LearnerCommand(s) PROVE enrollment = "PENDING_IDENTITY"
  BY <1>1 DEF LearnerCommand, CompleteLearningMaterial, StartAssignment, SaveSubmissionDraft,
    SubmitAssignment, StartEvidenceRevision, CancelEvidenceRevision
<1>2. ASSUME NEW s \in Stages, NEW v \in Versions, ReviewerCommand(s, v)
      PROVE  enrollment = "PENDING_IDENTITY"
  BY <1>2 DEF ReviewerCommand, StartReview, FinalizeRequestRevision, FinalizePass
<1>3. ASSUME NEW r \in Reviewers, OperatorCommand(r) PROVE enrollment = "PENDING_IDENTITY"
  BY <1>3 DEF OperatorCommand, AssignReviewer, HandoffAssignedReview
<1> QED
  BY <1>1, <1>2, <1>3 DEF Next, vars, ConfirmIdentity, CancelEnrollment

\* A complete journey has one PASS of each assessment: the evidence maps onto the
\* assessments and there are as many of the one as of the other.
LEMMA OnePassEach ==
  ASSUME NEW asg, NEW ev, FormalJourneyIsComplete(asg, ev),
         \A a \in Assessments : \E v \in Versions : ev[a][v] = "PASS"
  PROVE  \A a \in Assessments : \E v \in Versions :
           {e \in FormalEvaluationEvidence(asg, ev) : e[1] = a} = {<<a, v>>}
<1> DEFINE E == FormalEvaluationEvidence(asg, ev)
           f == [e \in E |-> e[1]]
<1>1. E \subseteq Assessments \X Versions
  BY DEF FormalEvaluationEvidence
<1>2. \A a \in Assessments, v \in Versions : ev[a][v] = "PASS" => <<a, v>> \in E
  BY StageAssumption DEF FormalJourneyIsComplete, FormalEvaluationEvidence
<1>3. IsFiniteSet(E)
  <2>1. IsFiniteSet(Stages) /\ IsFiniteSet(Versions)
    BY FS_Interval, ProgramAssumption, VersionAssumption DEF Stages, Versions
  <2>2. IsFiniteSet(Assessments)
    BY <2>1, StageAssumption, FS_Subset
  <2>3. IsFiniteSet(Assessments \X Versions)
    BY <2>1, <2>2, FS_Product
  <2> QED
    BY <1>1, <2>3, FS_Subset
<1>4. f \in Surjection(E, Assessments)
  <2>1. f \in [E -> Assessments]
    BY <1>1
  <2>2. ASSUME NEW a \in Assessments PROVE \E e \in E : f[e] = a
    BY <1>2
  <2> QED
    BY <2>1, <2>2 DEF Surjection
<1>5. Cardinality(E) = Cardinality(Assessments)
  BY DEF FormalJourneyIsComplete
<1> HIDE DEF E
<1>6. f \in Injection(E, Assessments)
  BY <1>3, <1>4, <1>5, FS_SurjSameCardinalityImpliesInj
<1>7. ASSUME NEW a \in Assessments
      PROVE  \E v \in Versions : {e \in E : e[1] = a} = {<<a, v>>}
  <2>1. PICK v \in Versions : <<a, v>> \in E
    BY <1>2
  <2>2. ASSUME NEW e \in E, e[1] = a PROVE e = <<a, v>>
    BY <1>6, <2>1, <2>2 DEF Injection, IsInjective
  <2> QED
    BY <2>1, <2>2
<1> QED
  BY <1>7 DEF E

\* An Outcome comes after the confirmation and, in a journey, after every submission.
OutcomeIsLate ==
  HasOutcome =>
    /\ enrollment # "PENDING_IDENTITY"
    /\ program # "NOVICE"
    /\ program = "JOURNEY" => \A s \in Stages : version[s] > 0

\* The parts of StagesOpenInOrder and of GraduationIsEarned.
WorkedInOrder ==
  \A s \in Stages : assignment[s] \in Begun => \A t \in 1..(s - 1) : version[t] > 0

OneRetest ==
  HasOutcome => \A s, t \in BoundStages :
    assignment[s] # "COMPLETED" /\ assignment[t] # "COMPLETED" => s = t

OutcomeRests ==
  HasOutcome =>
    /\ evaluation[outcome.source[1]][outcome.source[2]] = "PASS"
    /\ \A e \in outcome.evidence : evaluation[e[1]][e[2]] = "PASS"
    /\ program = "JOURNEY" =>
         /\ \A a \in Assessments : \E v \in Versions :
              {e \in outcome.evidence : e[1] = a} = {<<a, v>>}
         /\ \A s \in Stages : \E v \in Versions : evaluation[s][v] = "PASS"

CompletedIsEarned ==
  enrollment = "COMPLETED" =>
    /\ HasOutcome = (program # "NOVICE")
    /\ \A s \in BoundStages : assignment[s] = "COMPLETED"

\* A stage is started only when every earlier one was submitted: while the Enrollment
\* is ACTIVE no stage is CANCELLED and a COMPLETED one was submitted.
LEMMA WorkedStep ==
  ASSUME IInv, CancelledTogether, WorkedInOrder, [Next]_vars
  PROVE  WorkedInOrder'
<1> SUFFICES ASSUME NEW s \in Stages, assignment'[s] \in Begun, NEW t \in 1..(s - 1)
             PROVE  version'[t] > 0
  BY DEF WorkedInOrder
<1>1. t \in Stages /\ s \in Nat
  BY ProgramAssumption DEF Stages
<1>2. version[t] > 0 => version'[t] > 0
  <2>1. version[t] \in Nat /\ version'[t] \in Nat
    BY <1>1, NextAgrees DEF IInv, TypeOK
  <2> QED
    BY <1>1, <2>1, RecordsStay
<1>3. CASE assignment[s] \in Begun
  BY <1>2, <1>3 DEF WorkedInOrder
<1>4. CASE assignment[s] \notin Begun
  <2>1. /\ enrollment = "ACTIVE" /\ FormalAssignmentIsCurrent(s)
        /\ assignment[s] = "AVAILABLE"
    BY <1>4, OneWayIn, StartMoves
  <2>2. program = "JOURNEY"
    <3>1. s \in BoundStages
      BY <2>1, WorkIsBound
    <3> QED
      BY <1>1, <3>1 DEF BoundStages
  <2>3. version[s] = 0 /\ (assignment[t] = "COMPLETED" => version[t] > 0)
    BY <1>1, <2>1 DEF IInv, StageAgrees, VerdictAgrees
  <2>4. assignment[t] # "CANCELLED"
    BY <1>1, <2>1 DEF CancelledTogether
  <2> QED
    BY <1>2, <2>1, <2>2, <2>3, <2>4 DEF FormalAssignmentIsCurrent
<1> QED
  BY <1>3, <1>4

\* The Outcome is written when the last stage is approved, and nothing unwrites it.
LEMMA LateStep ==
  ASSUME IInv, OutcomeIsLate, [Next]_vars
  PROVE  OutcomeIsLate'
<1> SUFFICES ASSUME HasOutcome'
             PROVE  /\ enrollment' # "PENDING_IDENTITY"
                    /\ program' # "NOVICE"
                    /\ program' = "JOURNEY" => \A s \in Stages : version'[s] > 0
  BY DEF OutcomeIsLate
<1>0. IInv' /\ program' = program
  BY NextAgrees, RecordsStay
<1>1. CASE outcome' = outcome
  <2>1. HasOutcome
    BY <1>1 DEF HasOutcome
  <2>2. \A s \in Stages : version[s] \in Nat /\ version'[s] \in Nat
    BY <1>0 DEF IInv, TypeOK
  <2> QED
    BY <1>0, <2>1, <2>2, RecordsStay, NeverPendingAgain DEF OutcomeIsLate
<1>2. CASE outcome' # outcome
  <2>1. /\ enrollment' = "COMPLETED" /\ program # "NOVICE"
        /\ program = "JOURNEY" => \A s \in Stages : assignment'[s] = "COMPLETED"
    BY <1>2, OutcomeIsWritten DEF FormalJourneyIsComplete
  <2>2. \A s \in Stages : assignment'[s] = "COMPLETED" => version'[s] > 0
    BY <1>0 DEF IInv, StageAgrees, VerdictAgrees
  <2> QED
    BY <1>0, <2>1, <2>2
<1> QED
  BY <1>1, <1>2

\* After the Outcome a second stage cannot be reopened: the open one is the retest
\* that start_evidence_revision finds.
LEMMA RetestStep ==
  ASSUME IInv, CancelledTogether, OutcomeIsLate, OneRetest, [Next]_vars
  PROVE  OneRetest'
<1> SUFFICES ASSUME HasOutcome', NEW s \in BoundStages', NEW t \in BoundStages',
                    assignment'[s] # "COMPLETED", assignment'[t] # "COMPLETED"
             PROVE  s = t
  BY DEF OneRetest
<1>1. program' = program
  BY RecordsStay
<1>2. CASE program # "JOURNEY"
  BY <1>1, <1>2 DEF BoundStages
<1>3. CASE program = "JOURNEY" /\ outcome' # outcome
  BY <1>1, <1>3, OutcomeIsWritten DEF BoundStages, FormalJourneyIsComplete
<1>4. CASE program = "JOURNEY" /\ outcome' = outcome
  <2>1. HasOutcome /\ BoundStages = Stages /\ s \in Stages /\ t \in Stages
    BY <1>1, <1>4 DEF HasOutcome, BoundStages
  <2>2. ASSUME NEW x \in Stages, NEW y \in Stages, StartEvidenceRevision(x),
               assignment[y] # "COMPLETED"
        PROVE  x = y
    <3>1. CASE enrollment = "COMPLETED"
      BY <2>2, <3>1 DEF StartEvidenceRevision, FormalJourneyIsComplete
    <3>2. CASE enrollment = "ACTIVE"
      <4>1. version[y] > 0 /\ assignment[y] # "CANCELLED"
        BY <1>4, <2>1, <3>2 DEF OutcomeIsLate, CancelledTogether
      <4>2. assignment[y] \in {"IN_PROGRESS", "SUBMITTED", "IN_REVIEW", "NEEDS_REVISION"}
        <5>1. assignment[y] \in AssignmentStatus \cup {"ABSENT"}
          BY DEF IInv, TypeOK
        <5>2. assignment[y] \in {"ABSENT", "AVAILABLE"} => version[y] = 0
          BY DEF IInv, StageAgrees, VerdictAgrees
        <5> QED
          BY <2>2, <4>1, <5>1, <5>2 DEF AssignmentStatus
      <4>3. y \in UnderRetest
        BY <1>4, <2>1, <3>2, <4>2 DEF UnderRetest
      <4>4. \A z \in UnderRetest : y = z
        BY <2>1, <2>2 DEF UnderRetest, OneRetest
      <4>5. IsActiveRetest(y)
        BY <4>3, <4>4, ProgramAssumption DEF IsActiveRetest, Stages
      <4> QED
        BY <2>2, <4>5 DEF StartEvidenceRevision
    <3> QED
      BY <2>2, <3>1, <3>2 DEF StartEvidenceRevision
  <2>3. ASSUME NEW x \in Stages, NEW y \in Stages, x # y, StartEvidenceRevision(x),
               assignment'[y] # "COMPLETED"
        PROVE  assignment[y] # "COMPLETED"
    BY <2>3 DEF StartEvidenceRevision, IInv, TypeOK
  <2>4. CASE assignment[s] = "COMPLETED"
    BY <2>1, <2>2, <2>3, <2>4, OneWayIn
  <2>5. CASE assignment[t] = "COMPLETED"
    BY <2>1, <2>2, <2>3, <2>5, OneWayIn
  <2> QED
    BY <2>1, <2>4, <2>5 DEF OneRetest
<1> QED
  BY <1>2, <1>3, <1>4

\* An Outcome that stands keeps its sources, because no verdict is ever changed; a new
\* one is written with every source approved and one PASS of each assessment.
LEMMA RestsStep ==
  ASSUME IInv, OutcomeRests, [Next]_vars
  PROVE  OutcomeRests'
<1> SUFFICES ASSUME HasOutcome'
             PROVE  /\ evaluation'[outcome'.source[1]][outcome'.source[2]] = "PASS"
                    /\ \A e \in outcome'.evidence : evaluation'[e[1]][e[2]] = "PASS"
                    /\ program' = "JOURNEY" =>
                         /\ \A a \in Assessments : \E v \in Versions :
                              {e \in outcome'.evidence : e[1] = a} = {<<a, v>>}
                         /\ \A s \in Stages : \E v \in Versions : evaluation'[s][v] = "PASS"
  BY DEF OutcomeRests
<1>0. program' = program
  BY RecordsStay
<1>1. CASE outcome' = outcome
  <2>1. HasOutcome
    BY <1>1 DEF HasOutcome
  <2>2. /\ outcome.source \in Stages \X Versions
        /\ outcome.evidence \subseteq Stages \X Versions
    BY <2>1 DEF IInv, TypeOK, HasOutcome, Outcomes
  <2>3. \A x \in Stages, u \in Versions : evaluation[x][u] = "PASS" => evaluation'[x][u] = "PASS"
    BY RecordsStay
  <2> QED
    BY <1>0, <1>1, <2>1, <2>2, <2>3 DEF OutcomeRests
<1>2. CASE outcome' # outcome
  <2>1. PICK s \in Stages, v \in Versions :
          /\ Finalize(s, v, "PASS", "PASS")
          /\ \/ /\ program = "JOURNEY"
                /\ FormalJourneyIsComplete(assignment', evaluation')
                /\ outcome' = OutcomeBundle(s, v, FormalEvaluationEvidence(assignment', evaluation'))
             \/ /\ program \notin {"JOURNEY", "NOVICE"}
                /\ outcome' = OutcomeBundle(s, v, {})
    BY <1>2, OutcomeIsWritten
  <2>2. evaluation'[s][v] = "PASS"
    <3>1. evaluation' = [evaluation EXCEPT ![s][v] = "PASS"]
      BY <2>1, FinalizeFacts
    <3> QED
      BY <3>1 DEF IInv, TypeOK
  <2>3. outcome'.source = <<s, v>>
    BY <2>1 DEF OutcomeBundle
  <2>4. CASE program # "JOURNEY"
    <3>1. outcome'.evidence = {}
      BY <2>1, <2>4 DEF OutcomeBundle
    <3> QED
      BY <1>0, <2>2, <2>3, <2>4, <3>1
  <2>5. CASE program = "JOURNEY"
    <3>1. /\ FormalJourneyIsComplete(assignment', evaluation')
          /\ outcome'.evidence = FormalEvaluationEvidence(assignment', evaluation')
      BY <2>1, <2>5 DEF OutcomeBundle
    <3>2. \A e \in outcome'.evidence : evaluation'[e[1]][e[2]] = "PASS"
      BY <3>1 DEF FormalEvaluationEvidence
    <3>3. IInv' /\ \A x \in Stages : assignment'[x] = "COMPLETED"
      BY <3>1, NextAgrees DEF FormalJourneyIsComplete
    <3>4. \A x \in Stages : \E u \in Versions : evaluation'[x][u] = "PASS"
      <4>1. \A x \in Stages : version'[x] > 0 /\ evaluation'[x][version'[x]] = "PASS"
        BY <3>3 DEF IInv, StageAgrees, VerdictAgrees
      <4>2. \A x \in Stages : version'[x] \in Versions
        BY <3>3, <4>1, VersionAssumption DEF IInv, TypeOK, Versions
      <4> QED
        BY <4>1, <4>2
    <3>5. \A a \in Assessments : \E u \in Versions :
            {e \in outcome'.evidence : e[1] = a} = {<<a, u>>}
      BY <3>1, <3>4, OnePassEach, StageAssumption
    <3> QED
      BY <1>0, <2>2, <2>3, <2>5, <3>2, <3>4, <3>5
  <2> QED
    BY <2>4, <2>5
<1> QED
  BY <1>1, <1>2

\* An Enrollment is completed by its last approval, or again when the retest of a
\* graduate is abandoned.
LEMMA EarnedStep ==
  ASSUME IInv, OutcomeIsLate, CompletedIsEarned, [Next]_vars
  PROVE  CompletedIsEarned'
<1> SUFFICES ASSUME enrollment' = "COMPLETED"
             PROVE  /\ HasOutcome' = (program' # "NOVICE")
                    /\ \A s \in BoundStages' : assignment'[s] = "COMPLETED"
  BY DEF CompletedIsEarned
<1> DEFINE Earned == /\ HasOutcome' = (program' # "NOVICE")
                     /\ \A s \in BoundStages' : assignment'[s] = "COMPLETED"
<1>0. program' = program /\ BoundStages' = BoundStages
  BY RecordsStay DEF BoundStages
<1>1. CASE UNCHANGED <<enrollment, assignment, outcome>>
  BY <1>0, <1>1 DEF CompletedIsEarned, HasOutcome
<1>2. ASSUME NEW s \in Stages, LearnerCommand(s) PROVE Earned
  <2>1. CASE CancelEvidenceRevision(s)
    <3>1. /\ FormalJourneyIsComplete(assignment', evaluation)
          /\ IsActiveRetest(s) /\ outcome' = outcome
      BY <2>1 DEF CancelEvidenceRevision, LockActiveLearnerAssignment
    <3>2. HasOutcome /\ program = "JOURNEY"
      BY <3>1 DEF IsActiveRetest, UnderRetest
    <3> QED
      BY <1>0, <3>1, <3>2 DEF FormalJourneyIsComplete, HasOutcome, BoundStages
  <2>2. CASE CompleteLearningMaterial(s)
    BY <1>1, <2>2 DEF CompleteLearningMaterial
  <2> QED
    BY <1>2, <2>1, <2>2 DEF LearnerCommand, StartAssignment, SaveSubmissionDraft, SubmitAssignment,
      StartEvidenceRevision, LockActiveLearnerAssignment
<1>3. ASSUME NEW s \in Stages, NEW v \in Versions, ReviewerCommand(s, v) PROVE Earned
  <2>1. CASE FinalizePass(s, v)
    <3>1. assignment'[s] = "COMPLETED" /\ s \in BoundStages
      <4>1. Finalize(s, v, "PASS", "PASS") /\ assignment[s] = "IN_REVIEW"
        BY <2>1 DEF FinalizePass, Finalize
      <4>2. assignment' = [assignment EXCEPT ![s] = "COMPLETED"]
        BY <4>1, FinalizeFacts, Zenon
      <4> QED
        BY <4>1, <4>2, WorkIsBound DEF IInv, TypeOK
    <3>2. CASE program # "JOURNEY"
      <4>1. \A t \in BoundStages : assignment'[t] = "COMPLETED"
        BY <3>1, <3>2 DEF BoundStages
      <4>2. HasOutcome' = (program # "NOVICE")
        BY <2>1, <3>2, BundleIsOutcome
          DEF FinalizePass, IsPractice, FormalJourneyIsComplete, HasOutcome, OutcomeIsLate
      <4> QED
        BY <1>0, <4>1, <4>2
    <3>3. CASE program = "JOURNEY"
      <4>1. FormalJourneyIsComplete(assignment', evaluation')
        BY <2>1, <3>3 DEF FinalizePass, IsPractice, Finalize, LockScopedContext
      <4>2. HasOutcome'
        BY <2>1, <3>3, <4>1, BundleIsOutcome DEF FinalizePass, IsPractice, OutcomeOnce, HasOutcome
      <4> QED
        BY <1>0, <3>3, <4>1, <4>2 DEF FormalJourneyIsComplete, BoundStages
    <3> QED
      BY <3>2, <3>3
  <2> QED
    BY <1>3, <2>1 DEF ReviewerCommand, StartReview, FinalizeRequestRevision, Finalize, LockScopedContext
<1>4. ASSUME NEW r \in Reviewers, OperatorCommand(r) PROVE Earned
  BY <1>1, <1>4 DEF OperatorCommand, AssignReviewer, HandoffAssignedReview
<1> QED
  BY <1>1, <1>2, <1>3, <1>4 DEF Next, vars, ConfirmIdentity, CancelEnrollment

\* What the order of the stages and the graduation rest on together.
Progress ==
  /\ CancelledTogether /\ CancelledIsAtRest
  /\ OutcomeIsLate /\ WorkedInOrder /\ OneRetest
  /\ OutcomeRests /\ CompletedIsEarned

\* Progress is kept by every command, given the agreement of the rows.
THEOREM ProgressHolds == Spec => []Progress
<1>1. Init => Progress
  BY DEF Init, Progress, CancelledTogether, CancelledIsAtRest, OutcomeIsLate, WorkedInOrder,
    OneRetest, OutcomeRests, CompletedIsEarned, HasOutcome, Begun, BoundStages
<1>2. IInv /\ Progress /\ [Next]_vars => Progress'
  BY CancelledStep, LateStep, WorkedStep, RetestStep, RestsStep, EarnedStep DEF Progress
<1> QED
  BY <1>1, <1>2, InductiveInvariant, PTL DEF Spec

\* The stages of every journey are worked on in order, and after the Outcome one retest
\* at a time.
THEOREM OpenInOrder == Spec => []StagesOpenInOrder
<1>1. Progress => StagesOpenInOrder
  BY DEF Progress, WorkedInOrder, OneRetest, StagesOpenInOrder, Begun
<1> QED
  BY <1>1, ProgressHolds, PTL

\* Every graduation rests on human approvals: one of each assessment and of every stage.
THEOREM GraduationEarned == Spec => []GraduationIsEarned
<1>1. Progress => GraduationIsEarned
  BY DEF Progress, OutcomeRests, CompletedIsEarned, GraduationIsEarned
<1> QED
  BY <1>1, ProgressHolds, PTL

=============================================================================
