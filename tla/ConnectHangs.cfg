CONSTANTS
  MaxSockets = 1
  MaxAttempts = 1
  Sockets = {1}
  Interval = 2
  Timeout = 1
  MaxConnects = 1
  MaxBreaks = 0
SPECIFICATION FairSpec
CHECK_DEADLOCK FALSE
INVARIANTS
  WelcomeResolves
