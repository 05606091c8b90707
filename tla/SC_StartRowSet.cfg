SPECIFICATION Spec
CONSTANTS
  FeatureValues <- MCFeatureValues
  Threshold = 3
  MAXFLOAT = 100
  UserSizes <- MCUserSizes
  DatabaseSizes <- MCDatabaseSizes
  SplitScorings = {TRUE, FALSE}
CHECK_DEADLOCK FALSE
INVARIANTS
  StartRowSet
