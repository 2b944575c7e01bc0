SPECIFICATION Spec
CONSTANTS
  s1 = s1
  s2 = s2
  t1 = t1
  t2 = t2
  Servers = {s1}
  Sessions = {t1, t2}
  Host <- OneServer
  OpIds = {a, b}
  NoOp = NoOp
  NoAgent = NoAgent
  QueueLimit = 3
  Restarts = {}
  MaxCalls = 2
  MaxRestarts = 0
  MaxDrops = 1
  MaxCrashes = 0
  MaxLost = 0
PROPERTY CommitsAreKept
CHECK_DEADLOCK FALSE
