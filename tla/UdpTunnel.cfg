SPECIFICATION TunnelSpec
CONSTANTS
  Visitor = {v1}
  NoPacket = NoPacket
  Forwarder = {1, 2}
  SendQSize = 1
  BufferSize = 1
  FrameRoom = 1
  PoolSize = 2
INVARIANTS
  TunnelTypeOK
  LiveForwarderMapped
PROPERTIES
  ForwardersEnd
  WriteCompletes
  RemovalEndsPool
  FailureRenewsSession
  OneDialIsEnough
CHECK_DEADLOCK FALSE
