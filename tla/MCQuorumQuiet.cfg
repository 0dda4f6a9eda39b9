SPECIFICATION Spec
CONSTANTS
  N = 4
  K = 2
  MaxCalls = 2
  MaxCrashes = 0
  MaxWriteBacks = 1
  Timeouts = FALSE
  ReuseRequest = TRUE
INVARIANTS
  QuorumExecuted
  FirstToAnswer
  QuorumIsPermutation
  AlwaysDefined
CHECK_DEADLOCK FALSE
