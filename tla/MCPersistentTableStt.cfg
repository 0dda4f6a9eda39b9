SPECIFICATION Spec
CONSTANTS
  Key = {1, 2}
  Data = {d1}
  NoData = NoData
  NoEntry = NoEntry
  NoFile = NoFile
  Stamp <- MCStamp
  LogSizes = {2}
  MaxRequests = 5
  MaxCrashes = 2
  MaxHits = 2
INVARIANTS
  SttIsCurrent
CHECK_DEADLOCK FALSE
