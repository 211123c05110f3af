SPECIFICATION Spec
CONSTANTS
  Half = 3
  Size = 4
  BlockSize = 2
  Counts = {0, 1, 3}
  MaxCount = 2
INVARIANTS TypeOK CopyIsFaithful JumpsAreHidden OneJumpIsForgiven
PROPERTIES SeekIsExact ReadIsComplete ReadReturns
