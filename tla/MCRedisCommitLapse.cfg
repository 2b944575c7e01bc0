SPECIFICATION FairSpec
CONSTANTS
  s1 = s1
  s2 = s2
  t1 = t1
  t2 = t2
  t3 = t3
  Servers = {s1, s2}
  Threads = {t1, t3}
  Host <- OneEach
  OpIds = {a, b}
  NoOp = NoOp
  NoThread = NoThread
  LeaseMayLapse = TRUE
  Attempts = 2
  MaxCalls = 3
  MaxFaults = 2
INVARIANTS
  Idempotent
  AtMostOnce
PROPERTIES
  EveryCallReturns
CHECK_DEADLOCK FALSE
