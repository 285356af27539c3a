SPECIFICATION Spec
CONSTANTS
  s1 = s1
  s2 = s2
  Files <- MCFewFiles
  ArgMode = "auto"
  UpdateCap = 1
  MaxEdits = 2
  MaxFaults = 0
INVARIANT
  GeneralRestarts
CHECK_DEADLOCK FALSE
