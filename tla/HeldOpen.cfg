SPECIFICATION TxSpec
CONSTANTS
  Extensions = {zip}
  MaxChanges = 0
  Thrown <- MCThrown
  Shared = {"InprocServer32"}
INVARIANT LeftoversAreNoError
