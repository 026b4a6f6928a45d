CONSTANTS
  x1 = x1
  x2 = x2
  c1 = c1
  Clients = {x1, x2}
  Calls = {c1}
  Caller <- MCCaller
  Asks <- MCAsks
  Offers <- MCOffers
  MaxLosses = 0
SPECIFICATION Spec
INVARIANT AnsweredByServer
CHECK_DEADLOCK FALSE
