SPECIFICATION Spec
CONSTANTS
  Programs = {"JOURNEY", "TASK", "NOVICE"}
  StageCount = 3
  Assessments <- LastStages
  Reviewers = {r1, r2}
  FirstReviewer = r1
  NoReviewer = NoReviewer
  MaxVersions = 2
CONSTRAINT OthersInOneStage
INVARIANTS
  GraduationIsEarned
  StagesOpenInOrder
  ReviewFollowsAssignment
  CompletedMeansApproved
  NothingLeftBehind
PROPERTIES
  ImplementsHumanGate
CHECK_DEADLOCK FALSE
