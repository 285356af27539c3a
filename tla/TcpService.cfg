SPECIFICATION FairSpec
CONSTANTS
  ChanSize = 3
  PoolSize = 1
  MaxVisitors = 5
  MaxFaults = 1
INVARIANTS
  TypeOK
  Ledger
  NoBlockedSend
PROPERTIES
  ServedInOrder
  KeepsPromise
  SpareChannelsCover
  DropStopsTasks
  RemovalNotBlocked
CHECK_DEADLOCK FALSE
