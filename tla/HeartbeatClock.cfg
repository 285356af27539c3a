SPECIFICATION Spec
CONSTANTS
  MaxInterval = 3
  MaxTimeout = 6
  Delay = 2
  WriteTimeout = 2
  MaxBackoff = 2
  Horizon = 10
INVARIANTS
  TypeOK
  NoSpuriousTimeout
  ClientNotices
  ServerNotices
CHECK_DEADLOCK FALSE
