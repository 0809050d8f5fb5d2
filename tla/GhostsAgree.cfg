SPECIFICATION RegistrySpec
CONSTANTS
  MAX_UNACKED = 3
  IdCount = 2
  BurstSize = 1
  Classes = {c1, c2}
  IdleEarly = FALSE
  MaxScopes = 1
  MaxPackets = 4
  NoClass = NoClass
  c1 = c1
  c2 = c2
SYMMETRY Symmetry
CHECK_DEADLOCK FALSE
INVARIANTS  ViewsAgree ListedAreGhosts
