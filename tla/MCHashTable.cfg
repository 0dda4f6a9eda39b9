SPECIFICATION Spec
CONSTANTS
  Key = {1, 2, 3, 4}
  Capacity = 2
  Hash <- MCHash
  Data = {d1}
  NoData = NoData
  NoEntry = NoEntry
  Stamp <- MCFewStamps
  MaxDels = 2
  MaxChanges = 5
INVARIANTS
  TypeOK
  ChainsSorted
PROPERTIES
  RefinesTable
CHECK_DEADLOCK FALSE
