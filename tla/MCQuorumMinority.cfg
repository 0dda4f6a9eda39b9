SPECIFICATION Spec
CONSTANTS
  N = 3
  K = 2
  MaxCalls = 1
  MaxCrashes = 0
  MaxWriteBacks = 0
  Timeouts = TRUE
  ReuseRequest = FALSE
INVARIANTS
  NoMinorityQuorum
CHECK_DEADLOCK FALSE
