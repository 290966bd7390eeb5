----------------------------- MODULE MCNextStage -----------------------------
(* NextStage for TLC: a learner who is also a reviewer, two more reviewers,  *)
(* one of whom is an operator, and an operator.                              *)
EXTENDS NextStage, TLC

CONSTANTS learner, r1, r2, operator, c1, c2, q1, q2,
          project, security, a, b

HandoffPerson == [h \in Handoffs |-> learner]
Symmetry      == Permutations(Requests) \cup Permutations(OwnerRoles) \cup Permutations(Sessions)
                   \cup Permutations(Authorizations)
=============================================================================
