CONSTANTS
  Topics = {a}
  Socks = {s1, s2, s3}
  None = None
  Throws = FALSE
  Unsubscribes = FALSE
  MaxCalls = 1
  MaxLosses = 1
  MaxAttempts = 2
  MaxCopies = 2
SPECIFICATION Spec
INVARIANT RegisteredOnce
CHECK_DEADLOCK FALSE
