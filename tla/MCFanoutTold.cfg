SPECIFICATION Spec
CONSTANTS
  Servers = {s1, s2}
  Browsers = {b1, b2}
  Sessions = {x1, x2}
  OpIds = {o1}
  NoSession = NoSession
  SeenLimit = 1
  CatchUpLimit = 0
  MaxLost = 1
  MaxFailures = 1
  MaxClosed = 2
SYMMETRY Symmetric
INVARIANTS
  EveryoneIsTold
  ToldOnce
  OrderlyConverge
  EditsCommitted
CHECK_DEADLOCK FALSE
