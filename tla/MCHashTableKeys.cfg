SPECIFICATION Spec
CONSTANTS
  Key = {1, 2, 3, 4}
  Capacity = 2
  Hash <- MCHash
  Data = {d1}
  NoData = NoData
  NoEntry = NoEntry
  Stamp <- MCFewStamps
  MaxDels = 0
  MaxChanges = 5
INVARIANT
  KeysAreLive
CHECK_DEADLOCK FALSE
