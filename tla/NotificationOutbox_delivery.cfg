SPECIFICATION Spec
CONSTANTS
  Adapters <- AllAdapters
  Workers = {w1, w2}
  Operator = Operator
  NoOne = NoOne
  MaxAttempts = 2
  MaxRedrives = 2
  MaxFaults = 2
INVARIANTS
  RowsAgree
  SettledIsEarned
  NoCircularWait
PROPERTIES
  ImplementsDelivery
  EventuallySettled
CHECK_DEADLOCK FALSE
