SPECIFICATION Spec
CONSTANTS
  CHALLENGE_RETRY_COUNT = 2
  CONNECT_RETRY_COUNT = 2
  Reorders = TRUE
  MaxQueue = 2
CHECK_DEADLOCK FALSE
PROPERTY Forward
