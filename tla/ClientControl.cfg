SPECIFICATION FairSpec
CONSTANTS
  MaxHandles = 3
  MaxFaults = 3
INVARIANTS
  TypeOK
  DroppedConnectsOnce
PROPERTIES
  NewestHasSession
  DroppedEnds
CHECK_DEADLOCK FALSE
