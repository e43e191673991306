CONSTANTS
  Capacity = 2
  MaxStatuses = 2
  MaxPieces = 3
SPECIFICATION ServedSpec
INVARIANTS
  PiecesKept
PROPERTIES
  NoWorkAfterClose
  HangUpEndsTheTurn
  SentinelEndsTheResponse
CHECK_DEADLOCK FALSE
