SPECIFICATION Spec
CONSTANTS
  s1 = s1
  s2 = s2
  t1 = t1
  t2 = t2
  t3 = t3
  Servers = {s1, s2}
  Threads = {t1, t2, t3}
  Host <- TwoServers
  OpIds = {a, b}
  NoOp = NoOp
  NoThread = NoThread
  LeaseMayLapse = FALSE
  Attempts = 2
  MaxCalls = 4
  MaxFaults = 2
SYMMETRY Symmetric
INVARIANTS
  TypeOK
  MutualExclusion
  LogIntegrity
  AckedIsCommitted
  LockReleased
PROPERTIES
  ImplementsStore
CHECK_DEADLOCK FALSE
