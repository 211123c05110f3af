SPECIFICATION FairSpec
CONSTANTS
  Size = 4
  MaxBufferSizes = {1, 4}
  FileViewSize = 2
  MaxCount = 3
INVARIANTS TypeOK NoTornRead
PROPERTIES ReadReturnsInTime ImplementsByteStream
