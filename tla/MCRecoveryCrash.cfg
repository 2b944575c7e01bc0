SPECIFICATION Spec
CONSTANTS
  s1 = s1
  s2 = s2
  t1 = t1
  t2 = t2
  Servers = {s1, s2}
  Sessions = {t1, t2}
  Host <- OneEach
  OpIds = {a, b, c}
  NoOp = NoOp
  NoAgent = NoAgent
  QueueLimit = 3
  Restarts = {}
  MaxCalls = 4
  MaxRestarts = 0
  MaxDrops = 0
  MaxCrashes = 1
  MaxLost = 1
SYMMETRY Symmetric
PROPERTY CommitsAreKept
INVARIANTS PersistedMatches HistoryPersisted
CHECK_DEADLOCK FALSE
