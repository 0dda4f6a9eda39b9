SPECIFICATION Spec
CONSTANTS
  N = 5
  K = 3
  MaxCalls = 1
  MaxCrashes = 0
  MaxWriteBacks = 0
  Timeouts = FALSE
  ReuseRequest = FALSE
INVARIANTS
  ServersAtTheFront
CHECK_DEADLOCK FALSE
