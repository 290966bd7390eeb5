CONSTANTS
  i1 = i1
  i2 = i2
  Known = known
  NoOne = none
  Invites = {i1, i2}
  Reviewers = {"r1", "r2"}
  LoginReviewer = "r1"
  MaxSessions = 2
  a1 = a1
  a2 = a2
  l1 = l1
  l2 = l2
  l3 = l3
  reviewer = reviewer
  editor = editor
  Staff = {reviewer, editor}
  HomeRole <- MCHomeRole
  Accounts = {a1, a2}
  Links = {1, 2, 3}
  Logins = {l1, l2, l3}
  Nothing = nothing
SPECIFICATION MCSpec
SYMMETRY MCSymmetry
CONSTRAINTS LinksInOrder FewFailures
INVARIANTS TakenBackOpensNothing JoinIsAllOrNothing AccountsAreInvited OneStaffSession
PROPERTIES ReentryPreserves
