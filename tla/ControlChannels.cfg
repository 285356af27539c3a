SPECIFICATION FairSpec
CONSTANTS
  Service = {s1}
  Udp = {s1}
  MaxConns = 3
  MaxChanges = 2
INVARIANTS
  TypeOK
  InsertNeverRefused
  MapWellFormed
  HandleOutlivesSend
PROPERTIES
  ReloadSparesNewConfig
  ReloadCompletes
  TakesOverPort
  ShutdownStopsSessions
CHECK_DEADLOCK FALSE
