SPECIFICATION FairSpec
CONSTANTS
  HeaderLen = 2
  PayloadLen = 2
  Writes = 3
  MaxBufSize = 0
  Window = 2
  MaxDummies = 1
INVARIANTS TypeOK StreamIntact NotConfused ResponsesTaken
PROPERTIES CallsEnd
CHECK_DEADLOCK FALSE
