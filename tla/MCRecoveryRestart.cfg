SPECIFICATION Spec
CONSTANTS
  s1 = s1
  s2 = s2
  t1 = t1
  t2 = t2
  Servers = {s1, s2}
  Sessions = {t1, t2}
  Host <- OneEach
  OpIds = {a, b}
  NoOp = NoOp
  NoAgent = NoAgent
  QueueLimit = 1
  Restarts = {"lost", "kept"}
  MaxCalls = 2
  MaxRestarts = 2
  MaxDrops = 1
  MaxCrashes = 0
  MaxLost = 0
SYMMETRY Symmetric
INVARIANTS TypeOK PersistedSurvives CommitsFindDocument
CHECK_DEADLOCK FALSE
