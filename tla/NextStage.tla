------------------------------ MODULE NextStage ------------------------------
(***************************************************************************)
(* From a handed-over result to the next training stage.  A human decides  *)
(* whether the learner is ready; the learner may have an adverse decision  *)
(* reviewed, by someone independent; a review that overturns the decision  *)
(* appends its replacement.  The learner accepts the handoff on a READY    *)
(* decision and an authorization in force, which creates the Enrollment    *)
(* of the next stage.                                                      *)
(*                                                                         *)
(* The tables are append-only, so each is a set of rows that only grows.   *)
(* Every command locks what it decides on before it reads it and commits   *)
(* once: it is one step.  Unique keys are not modelled; they are stated as *)
(* properties.                                                             *)
(***************************************************************************)
EXTENDS ControlledTask

CONSTANTS
  Handoffs,   \* handoffs of formal results
  Person,     \* Person[h]: the learner the result of h belongs to
  Users,
  Reviewers,  \* users with the role REVIEWER
  Operators,  \* users with the role OPERATOR
  Requests    \* bound of the model: ids of review requests

ASSUME PeopleAssumption ==
  Person \in [Handoffs -> Users] /\ Reviewers \subseteq Users /\ Operators \subseteq Users

VARIABLES
  decisions,    \* next_training_stage_decisions
  requests,     \* next_training_stage_review_requests
  assignments,  \* next_training_stage_review_assignments
  resolutions,  \* next_training_stage_review_resolutions
  acceptances   \* handoff_acceptances, each with its Enrollment and Assignment

stageVars == <<decisions, requests, assignments, resolutions, acceptances>>
vars      == <<ctaVars, stageVars>>

Values   == {"READY", "NOT_READY"}  \* DEFER is treated like NOT_READY
Verdicts == {"UPHELD", "OVERTURNED", "RETURNED_FOR_REVIEW"}

Decisions   == [handoff : Handoffs, revision : Nat, value : Values, by : Users]
RequestRows == [id : Requests, decision : Decisions]

TypeOK ==
  /\ CTATypeOK
  /\ decisions \subseteq Decisions
  /\ requests \subseteq RequestRows
  /\ assignments \subseteq [request : RequestRows, reviewer : Reviewers, assigner : Operators]
  /\ resolutions \subseteq [request : RequestRows, reviewer : Reviewers, status : Verdicts]
  /\ acceptances \subseteq [handoff : Handoffs, decision : Decisions,
                            authorization : Authorizations, at : 1..MaxTime]

Init ==
  /\ CTAInit
  /\ decisions = {} /\ requests = {} /\ assignments = {} /\ resolutions = {} /\ acceptances = {}

-----------------------------------------------------------------------------
(* The decision and its review. *)

\* The first decision on a handoff is recorded by no code of the service.
Decide(h, user, value) ==
  /\ ~ \E d \in decisions : d.handoff = h
  /\ user # Person[h]
  /\ decisions' = decisions \cup {[handoff |-> h, revision |-> 1, value |-> value, by |-> user]}
  /\ UNCHANGED <<ctaVars, requests, assignments, resolutions, acceptances>>

\* Mutant: a favourable decision may be reviewed too.
AnyDecision(d) == TRUE

\* A READY decision needs no review.
Reviewable(d) == d.value # "READY"

\* Mutant: every request is taken.
AskAgain(d) == FALSE

\* The learner has asked already, and gets the first request back.
Asked(d) == \E q \in requests : q.decision = d

RequestReview(d, id) ==
  /\ Reviewable(d)
  /\ ~ Asked(d)
  /\ \A q \in requests : q.id # id
  /\ requests' = requests \cup {[id |-> id, decision |-> d]}
  /\ UNCHANGED <<ctaVars, decisions, assignments, resolutions, acceptances>>

\* Neither the learner, nor who signed the decision, nor who assigns.
Independent(q, reviewer, operator) ==
  reviewer \notin {Person[q.decision.handoff], q.decision.by, operator}

AssignIndependentReviewer(q, reviewer, operator) ==
  /\ ~ \E a \in assignments : a.request = q
  /\ Independent(q, reviewer, operator)
  /\ assignments' = assignments \cup {[request |-> q, reviewer |-> reviewer, assigner |-> operator]}
  /\ UNCHANGED <<ctaVars, decisions, requests, resolutions, acceptances>>

\* OVERTURNED comes with the decision that replaces the reviewed one.
Replacement(a, status, value) ==
  IF status = "OVERTURNED"
  THEN {[handoff |-> a.request.decision.handoff, revision |-> a.request.decision.revision + 1,
         value |-> value, by |-> a.reviewer]}
  ELSE {}

ResolveIndependentReview(a, status, value) ==
  /\ ~ \E s \in resolutions : s.request = a.request
  /\ resolutions' = resolutions \cup {[request |-> a.request, reviewer |-> a.reviewer, status |-> status]}
  /\ decisions' = decisions \cup Replacement(a, status, value)
  /\ UNCHANGED <<ctaVars, requests, assignments, acceptances>>

-----------------------------------------------------------------------------
(* The acceptance. *)

\* Mutant: the window alone is looked at.
InItsWindow(c) == InWindow(c)

Effective(c) == cta[c].status = "ACTIVE" /\ InWindow(c)

Accepted(h) == \E x \in acceptances : x.handoff = h

AcceptHandoff(d, c) ==
  /\ ~ Accepted(d.handoff)
  /\ d.value = "READY"
  /\ \A e \in decisions : e.handoff = d.handoff => e.revision <= d.revision
  /\ Effective(c)
  /\ acceptances' = acceptances \cup
       {[handoff |-> d.handoff, decision |-> d, authorization |-> c, at |-> now]}
  /\ UNCHANGED <<ctaVars, decisions, requests, assignments, resolutions>>

StageNext ==
  \/ \E h \in Handoffs, user \in Users, value \in Values : Decide(h, user, value)
  \/ \E d \in decisions, id \in Requests : RequestReview(d, id)
  \/ \E q \in requests, reviewer \in Reviewers, operator \in Operators :
       AssignIndependentReviewer(q, reviewer, operator)
  \/ \E a \in assignments, status \in Verdicts, value \in Values :
       ResolveIndependentReview(a, status, value)
  \/ \E d \in decisions, c \in Authorizations : AcceptHandoff(d, c)

Next == (CTANext /\ UNCHANGED stageVars) \/ StageNext

Spec == Init /\ [][Next]_vars

-----------------------------------------------------------------------------
(* Properties. *)

\* The decisions on a handoff are one chain: two reviews never replace one decision twice
\* (uq_ntsd_handoff_scope_revision is never the one to refuse).
OneDecisionPerRevision ==
  \A d, e \in decisions : d.handoff = e.handoff /\ d.revision = e.revision => d = e

\* Who accepted did so on a READY decision that was, and for ever remains, the last word
\* on the handoff: no review may take the ground from under the next stage.
AcceptanceStands ==
  \A x \in acceptances :
    /\ x.decision.value = "READY"
    /\ x.decision.handoff = x.handoff
    /\ \A d \in decisions : d.handoff = x.handoff => d.revision <= x.decision.revision

\* The authorization was in force at the acceptance, whatever became of it since: activated
\* in its window under the signature of every owner, although the activation decides on a
\* candidate it read before its lock, and neither overdue nor ended.
AcceptedUnderAuthority ==
  \A x \in acceptances :
    LET c == cta[x.authorization] IN
    /\ c.activatedAt # 0 /\ c.validFrom <= c.activatedAt
    /\ c.activatedAt <= x.at /\ x.at < c.expiresAt
    /\ \A role \in OwnerRoles : c.signed[role] = "APPROVE"
    /\ c.endedAt # 0 => x.at <= c.endedAt
=============================================================================
