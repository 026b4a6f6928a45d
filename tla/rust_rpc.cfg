CONSTANTS
  s1 = s1
  s2 = s2
  Calls = {k1}
  Called <- MCCalled
  Servers = {s1, s2}
  Offers <- MCOffers
  Words <- MCWords
  Primitives <- MCPrimitives
  Caller = Caller
  None = None
  MaxLosses = 2
SPECIFICATION FairSpec
INVARIANTS
  ResponseRoutable
  CleanedUp
  RightFunction
PROPERTIES
  ImplementsRemoteCall
  CallsReturn
CHECK_DEADLOCK FALSE
