SPECIFICATION FairSpec
CONSTANTS
  Service = {s1}
  Udp = {}
  MaxConns = 2
  MaxChanges = 0
PROPERTY
  InstanceOwned
CHECK_DEADLOCK FALSE
