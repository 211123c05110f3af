SPECIFICATION Spec
CONSTANTS
  NumItems = 3
  MaxSize = 1
  MaxChunks = 1
  ConcurrentFilterThreads = 0
  MaxInits = 1
  GetAfterFailedInit = FALSE
INVARIANTS ThreadBound
