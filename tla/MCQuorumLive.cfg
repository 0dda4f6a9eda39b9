SPECIFICATION FairSpec
CONSTANTS
  N = 2
  K = 1
  MaxCalls = 2
  MaxCrashes = 1
  MaxWriteBacks = 0
  Timeouts = TRUE
  ReuseRequest = FALSE
PROPERTIES
  CallReturns
CHECK_DEADLOCK FALSE
