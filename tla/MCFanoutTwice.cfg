SPECIFICATION Spec
CONSTANTS
  Servers = {s1}
  Browsers = {b1, b2}
  Sessions = {x1, x2}
  OpIds = {o1}
  NoSession = NoSession
  SeenLimit = 1
  CatchUpLimit = 0
  MaxLost = 0
  MaxFailures = 0
  MaxClosed = 1
SYMMETRY Symmetric
INVARIANTS
  NotAppliedTwice
CHECK_DEADLOCK FALSE
