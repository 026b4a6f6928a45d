CONSTANTS
  p1 = p1
  p2 = p2
  a = a
  b = b
  Callers = {p1, p2}
  Topics = {a, b}
  Conns = {c1, c2, c3}
  None = None
  Heartbeat = Heartbeat
  Owns <- SplitOwns
  Reconnect = TRUE
  MaxCalls = 4
  MaxInbound = 1
SPECIFICATION Spec
SYMMETRY ConnSymmetry
INVARIANTS
  TypeOK
  MutexDiscipline
  OneConnector
  NoOrphanConnection
  SubscribedWhenConnected
PROPERTIES
  OnlyDeferredResurrects
  ImplementsLazySession
CHECK_DEADLOCK FALSE
