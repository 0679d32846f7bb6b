SPECIFICATION BinarySpec
CONSTANTS
  Wrappers = {w1, w2}
  DOWNLOAD_BOUND = 2
  MaxWrapperKills = 1
CHECK_DEADLOCK FALSE
INVARIANT FinalizersSucceed
