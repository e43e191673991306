CONSTANTS
  Capacity = 2
  MaxStatuses = 1
  MaxPieces = 2
SPECIFICATION FairSpec
PROPERTIES
  StreamEnds
CHECK_DEADLOCK FALSE
