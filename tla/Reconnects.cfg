SPECIFICATION FairSpec
CONSTANTS
  AutoReconnect = TRUE
  HostConfigured = FALSE
  BODY_FAIL_STREAK_LIMIT = 2
  MaxAttempts = 3
  MaxQueue = 2
  MaxUser = 2
CHECK_DEADLOCK FALSE
INVARIANTS NeverStale  AbortIff
PROPERTIES StopFinishes AbortReconnects
