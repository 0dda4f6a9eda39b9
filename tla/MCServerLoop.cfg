SPECIFICATION FairLoopSpec
CONSTANTS
  k1 = k1
  d1 = d1
  c1 = c1
  c2 = c2
  Key = {k1}
  Data = {d1}
  NoData = NoData
  NoEntry = NoEntry
  Stamp <- MCStamp
  Strlen <- MCStrlen
  Datasize <- MCDatasize
  Garbage = Garbage
  NoBuffer = NoBuffer
  NoMessage = NoMessage
  Client = {c1, c2}
  Requests <- MCRequests
  Closed = Closed
  Nothing = Nothing
  MAXLIG = 3
  Failed = Failed
  Junk = {"none", "in"}
  MaxCalls = 2
  MaxEvents = 3
  MaxDels = 2
  MaxChanges = 3
INVARIANTS
  TypeOK
  SizeNeverOvercounts
  ConnectionsCounted
  ServedOnce
  AnswersAreOwn

  
CHECK_DEADLOCK FALSE
