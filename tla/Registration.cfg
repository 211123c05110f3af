SPECIFICATION TxSpec
CONSTANTS
  Extensions = {zip, rar}
  MaxChanges = 3
  Thrown <- MCThrown
  Shared = {"InprocServer32", "PersistentHandler"}
SYMMETRY Symmetric
INVARIANTS TxTypeOK ForeignHandlersKept CanBeRepeated
PROPERTIES SuccessRestores ImplementsRegistrar AnswerIsTrue
