CONSTANTS
  Sockets = {a, b, c, d}
  Interval = 2
  Timeout = 1
  Hole = Hole
SPECIFICATION Spec
INVARIANTS
  LoopTypeOK
  EachOnce
PROPERTIES
  LoopsAtomic
