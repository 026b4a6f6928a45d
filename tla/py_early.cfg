CONSTANTS
  topic = topic
  call = call
  Topics <- MCTopics
  Calls <- MCCalls
  Conns = {c1, c2}
  None = None
  Heartbeat = Heartbeat
  Garbled = Garbled
  Reconnect = TRUE
  SubscribeFirst = TRUE
  MaxCalls = 2
  MaxFaults = 1
  MaxInbound = 1
  MaxAnswers = 2
SPECIFICATION RpcFairSpec
INVARIANTS
  ResponseRoutable
  CleanedUp
  NoAnswerInside
PROPERTIES
  ImplementsRemoteCall
  CallsReturn
  EarlySubscribeHeals
CHECK_DEADLOCK FALSE
