SPECIFICATION FairSpec
CONSTANTS
  Visitor = {v1, v2}
  NoPacket = NoPacket
  Forwarder = {1, 2}
  SendQSize = 1
  BufferSize = 1
PROPERTY
  LoopGetsLock
CHECK_DEADLOCK FALSE
