CONSTANTS
  Topics = {a}
  Socks = {s1, s2, s3}
  None = None
  Throws = TRUE
  Unsubscribes = TRUE
  MaxCalls = 2
  MaxLosses = 2
  MaxAttempts = 2
  MaxCopies = 1
SPECIFICATION FairSpec
INVARIANTS
  TypeOK
  FlagHasOwner
PROPERTIES
  FlagIsCleared
  HubCatchesUp
CHECK_DEADLOCK FALSE
