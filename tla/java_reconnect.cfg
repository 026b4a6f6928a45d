CONSTANTS
  Topics = {a}
  Socks = {s1, s2, s3}
  None = None
  Throws = FALSE
  Unsubscribes = FALSE
  MaxCalls = 1
  MaxLosses = 2
  MaxAttempts = 2
  MaxCopies = 2
SPECIFICATION FairSpec
PROPERTIES
  KeepsTrying
CHECK_DEADLOCK FALSE
