SPECIFICATION FairSpec
CONSTANTS
  Callers = {c1, c2}
  MaxCalls = 3
  MaxNames = 2
  Pieces = 2
  None = None
INVARIANTS
  OneCacheAtATime
  StreamIsWhole
PROPERTIES
  NothingHangs
CHECK_DEADLOCK FALSE
