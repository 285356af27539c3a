SPECIFICATION Spec
CONSTANTS
  Visitor = {v1}
  NoPacket = NoPacket
  Forwarder = {1}
  SendQSize = 1
  BufferSize = 1
INVARIANT
  ForwarderCanReceive
CHECK_DEADLOCK FALSE
