SPECIFICATION Spec
CONSTANTS
  Extensions = {zip}
  Depth = 3
  MaxChanges = 0
INVARIANTS NestingWithinLimit
