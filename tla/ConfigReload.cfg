SPECIFICATION FairSpec
CONSTANTS
  s1 = s1
  s2 = s2
  Files <- MCFiles
  ArgMode = "auto"
  UpdateCap = 1
  MaxEdits = 2
  MaxFaults = 1
INVARIANTS
  TypeOK
  NothingLost
  Runnable
PROPERTY
  Converges
CHECK_DEADLOCK FALSE
