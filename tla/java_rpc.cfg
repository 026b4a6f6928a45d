CONSTANTS
  x1 = x1
  x2 = x2
  c1 = c1
  Clients = {x1, x2}
  Calls = {c1}
  Caller <- MCCaller
  Asks <- MCAsks
  Offers <- MCOffers
  MaxLosses = 1
SPECIFICATION FairSpec
INVARIANTS
  ValuesFromServers
  RunsItsOwnCalls
PROPERTIES
  FirstMessageStands
  CallsReturn
CHECK_DEADLOCK FALSE
