SPECIFICATION FairSpec
CONSTANTS
  Service = {s1}
  Udp = {}
  MaxConns = 2
  MaxChanges = 1
PROPERTY
  RemovedServiceStops
CHECK_DEADLOCK FALSE
