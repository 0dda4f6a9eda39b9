SPECIFICATION Spec
CONSTANTS
  Key = {1, 2}
  Data = {d1}
  NoData = NoData
  NoEntry = NoEntry
  NoFile = NoFile
  Stamp <- MCStamp
  LogSizes = {2, 9}
  MaxRequests = 5
  MaxCrashes = 3
  MaxHits = 1
INVARIANTS
  TypeOK
  
  

  
  
CHECK_DEADLOCK FALSE
