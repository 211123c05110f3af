SPECIFICATION Spec
CONSTANTS
  SubIds = {0, 1}
  BlockSize = 3
  MaxText = 3
  MaxIds = 5
INVARIANTS TextIsWhole ValueHasOneOwner SourceIsKnown
CHECK_DEADLOCK FALSE
