CHECK_DEADLOCK FALSE
CONSTANTS
  MaxRows = 1
  MaxKills = 1
  Strays = {"stray"}
SPECIFICATION UpgradeSpec
INVARIANTS OldNeverMeetsCoaching
