SPECIFICATION Spec
CONSTANTS
  Extensions = {zip}
  Depth = 2
  MaxChanges = 2
INVARIANTS TypeOK AnswersAsDocumented
PROPERTIES SameExtensionSameFilter
