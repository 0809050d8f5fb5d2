SPECIFICATION Spec
CONSTANTS
  ByteBits = 2
  LengthBits = 3
  NumberBits <- MCNumberBits
  SlotBits = 2
  Unit = 4
  Tables <- MCTables
  Fields <- MCFields
  MaxFields <- MCMaxFields
  FreeTextVerbs <- MCFreeTextVerbs
  Orders <- MCOrders
  MaxOrders = 3
  MaxFrames = 6
  MoveSpace = 16
  MaxMoveCount = 3
  MaxMoves = 18
  MaxInFlight = 2
  MaxMissed = 4
  MaxUnacked = 8
  Ghosts = {1, 2}
  Names = {"n1", "n2"}
  Room = 2
  MaxObjects = 3
CHECK_DEADLOCK FALSE
INVARIANTS ReadBack LinesAsSent FramesAsSent MovesInOrder ShownAsItWas
