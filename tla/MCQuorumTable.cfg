SPECIFICATION Spec
CONSTANTS
  key = k
  Key = {k}
  Data = {d1}
  NoData = NoData
  NoEntry = NoEntry
  Stamp <- MCStamp
  Server = {s1, s2, s3}
  Client = {1, 2}
  None = None
  MaxEvents = 4
SYMMETRY Symmetry
INVARIANTS
  TypeOK
  
  NoStaleReads
CHECK_DEADLOCK FALSE
