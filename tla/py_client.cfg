CONSTANTS
  Topics = {a, b}
  Conns = {c1, c2}
  None = None
  Heartbeat = Heartbeat
  Garbled = Garbled
  Reconnect = TRUE
  SubscribeFirst = FALSE
  MaxCalls = 4
  MaxFaults = 2
  MaxInbound = 1
SPECIFICATION FairSpec
INVARIANTS
  TypeOK
  OneListener
  HubMirrorsCallbacks
PROPERTIES
  ImplementsSession
  AbandonsForCause
  EventuallyInSync
CHECK_DEADLOCK FALSE
