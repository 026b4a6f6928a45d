CONSTANTS
  Topics = {a, b}
  Socks = {s1, s2, s3, s4}
  None = None
  Heartbeat = Heartbeat
  Reconnect = TRUE
  MaxBegins = 2
  MaxInbound = 2
SPECIFICATION FairSpec
INVARIANTS
  HubMirrorsCallbacks
  OneConnection
PROPERTIES
  ImplementsSession
  EventuallyOpen
CHECK_DEADLOCK FALSE
