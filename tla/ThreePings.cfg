CONSTANTS
  MaxSockets = 1
  MaxAttempts = 1
  Sockets = {1}
  Interval = 3
  Timeout = 1
  MaxConnects = 1
  MaxBreaks = 1
SPECIFICATION Spec
CHECK_DEADLOCK FALSE
INVARIANTS
  ThreePingsMissed
