CONSTANTS
  Guards = {g1, g2}
  Keys = {ambient, named}
  TTL = 1
  Timeout = 1
  MaxTime = 5
  MaxUpsets = 1
  None = None
SPECIFICATION FairSpec
INVARIANT TypeOK
PROPERTIES
  FreshEnough
  DiscoveryEnds
CHECK_DEADLOCK FALSE
