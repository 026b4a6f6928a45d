CONSTANTS
  p1 = p1
  p2 = p2
  a = a
  b = b
  Callers = {p1}
  Topics = {a}
  Conns = {c1, c2}
  None = None
  Heartbeat = Heartbeat
  Owns <- SoleOwns
  Reconnect = TRUE
  MaxCalls = 4
  MaxInbound = 1
SPECIFICATION FairSpec
PROPERTIES
  EventuallyInSync
  CallsReturn
  BeginHeartbeatAnswered
CHECK_DEADLOCK FALSE
