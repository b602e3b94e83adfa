CONSTANTS
  MaxSockets = 3
  MaxAttempts = 2
  Sockets = {1, 2, 3}
  Interval = 2
  Timeout = 1
  MaxConnects = 2
  MaxBreaks = 1
SPECIFICATION FairSpec
CHECK_DEADLOCK FALSE
INVARIANTS
  SessionTypeOK
  KeptAlive
  DeadEnded
  OneSocket
PROPERTIES
  NoComeback
  Reconnects
