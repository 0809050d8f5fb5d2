SPECIFICATION Spec
CONSTANTS
  MAX_UNACKED = 3
  EVENT_SEQ_COUNT = 4
  EVENT_SEQ_HALF = 2
  SERVER_EVENT_WINDOW = 2
  Slots = {s1,s2}
  Texts = {t1,t2}
  Evictions = FALSE
  Overruns = TRUE
  MaxEvents = 5
  MaxPackets = 4
  NoText = NoText
  s1 = s1
  s2 = s2
  t1 = t1
  t2 = t2
CHECK_DEADLOCK FALSE
SYMMETRY Symmetry
INVARIANTS InOrderOnce   
