SPECIFICATION Spec
CONSTANTS
  Servers = {s1}
  Browsers = {b1}
  Sessions = {x1, x2}
  OpIds = {o1, o2}
  NoSession = NoSession
  SeenLimit = 1
  CatchUpLimit = 1
  MaxLost = 0
  MaxFailures = 0
  MaxClosed = 1
SYMMETRY Symmetric
INVARIANTS
  TypeOK
  OrderlyConverge
CHECK_DEADLOCK FALSE
