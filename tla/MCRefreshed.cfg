SPECIFICATION GraphSpec
CONSTANTS
  PythonBuiltins = {"print"}
  Private = {"_p"}
  Projects <- MCLayouts
  MaxVersions = 3
  MaxUpdates = 1
  MaxChanged = 1
CHECK_DEADLOCK FALSE
INVARIANT RefreshIsRebuild
