SPECIFICATION FairSpec
CONSTANTS
  NumItems = 2
  MaxSize = 1
  MaxChunks = 1
  ConcurrentFilterThreads = 0
  MaxInits = 2
  GetAfterFailedInit = FALSE
INVARIANTS TypeOK NoOrphanGatherer TaskContract AbortCannotBlock NoDataRace EndIsComplete
PROPERTIES ChunksInOrder OutcomeIsFinal ImplementsStream GetChunkReturns AbortReturns
