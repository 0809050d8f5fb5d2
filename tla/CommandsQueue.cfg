SPECIFICATION Spec
CONSTANTS
  MAX_UNACKED = 3
  EVENT_SEQ_COUNT = 4
  ENTRY_COUNT = 2
  Verbs = {v1,v2,v3}
  MaxSpan = 4
  MaxCommands = 4
  MaxPackets = 6
  NoVerb = NoVerb
  v1 = v1
  v2 = v2
  v3 = v3
SYMMETRY Symmetry
CHECK_DEADLOCK FALSE
INVARIANTS ExecutedAsIssued FreedMeansReceived TablesAgree
