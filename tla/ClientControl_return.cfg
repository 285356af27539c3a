SPECIFICATION Spec
CONSTANTS
  MaxHandles = 2
  MaxFaults = 1
PROPERTY
  SuccessorKeepsSession
CHECK_DEADLOCK FALSE
