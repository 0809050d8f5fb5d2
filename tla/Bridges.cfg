SPECIFICATION FairSpec
CONSTANTS
  Clients = {c1, c2}
  c1 = c1
  c2 = c2
  Configurations <- MCConfigurations
  MaxEvents <- MCBound
  MaxConnections <- MCBound
CHECK_DEADLOCK FALSE
INVARIANTS InOrder 
PROPERTIES StopEnds NodeRedBack
