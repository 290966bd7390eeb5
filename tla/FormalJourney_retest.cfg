SPECIFICATION Spec
CONSTANTS
  Programs = {"JOURNEY"}
  StageCount = 2
  Assessments <- LastStages
  Reviewers = {r1}
  FirstReviewer = r1
  NoReviewer = NoReviewer
  MaxVersions = 2
INVARIANTS
  GraduateIsCompletedOrRetesting
CHECK_DEADLOCK FALSE
