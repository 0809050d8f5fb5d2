SPECIFICATION Spec
CONSTANTS
  PACKET_WINDOW_SIZE = 4
  MAX_UNACKED = 2
  MAX_ACK_BYTE_COUNT = 2
  ACK_BYTE_BITS = 2
  SEQ_NUMBER_WRAP = 5
  SEQ_WINDOW_SLACK = 3
  Pings = FALSE
  Duplicates = FALSE
  Undecodable = TRUE
  HandlerSends = TRUE
  ClientPackets = 2
  ServerPackets = 4
  MaxInFlight = 2
  MaxSeq <- MCMaxSeq
CHECK_DEADLOCK FALSE
INVARIANT DeliveredMeansDecoded
