SPECIFICATION Spec
CONSTANTS
  N = 3
  K = 2
  MaxCalls = 2
  MaxCrashes = 0
  MaxWriteBacks = 1
  Timeouts = TRUE
  ReuseRequest = FALSE
CONSTRAINT
  UntilFailure
INVARIANTS
  TypeOK
  AnswersMatchCall
  IdsFresh
  DefinedUntilFailure
CHECK_DEADLOCK FALSE
