SPECIFICATION CheckSpec
CONSTANTS
  CheckRequests = {r1, r2}
  MaxClicks = 2
  MaxRevisions = 1
  MaxCrashes = 1
INVARIANTS
  AtMostOneComment
CHECK_DEADLOCK FALSE
