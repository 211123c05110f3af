SPECIFICATION FairSpec
CONSTANTS
  NumItems = 1
  MaxSize = 1
  MaxChunks = 1
  ConcurrentFilterThreads = 0
  MaxInits = 1
  GetAfterFailedInit = TRUE
PROPERTIES GetChunkReturns
CHECK_DEADLOCK FALSE
