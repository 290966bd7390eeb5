SPECIFICATION Spec
CONSTANTS
  learner = learner
  r1 = r1
  r2 = r2
  operator = operator
  c1 = c1
  c2 = c2
  q1 = q1
  q2 = q2
  project = project
  security = security
  a = a
  b = b
  Authorizations = {c1, c2}
  Scopes = {"s1"}
  OwnerRoles = {project, security}
  Sessions = {a, b}
  MaxTime = 2
  Handoffs = {"h"}
  Person <- HandoffPerson
  Users = {learner, r1, r2, operator}
  Reviewers = {learner, r1, r2}
  Operators = {r2, operator}
  Requests = {q1, q2}
SYMMETRY Symmetry
INVARIANTS
  OneActivePerScope
  OneDecisionPerRevision
  AcceptanceStands
  AcceptedUnderAuthority
PROPERTIES
  ActivatedOnce
CHECK_DEADLOCK FALSE
