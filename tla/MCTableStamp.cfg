SPECIFICATION Spec
CONSTANTS
  Key = {k1, k2}
  Data = {d1}
  NoData = NoData
  NoEntry = NoEntry
  Stamp <- MCStamp
  MaxDels = 0
  MaxChanges = 5
PROPERTY
  UpdateKeepsNewest
CHECK_DEADLOCK FALSE
