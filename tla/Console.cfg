SPECIFICATION Spec
CONSTANTS
  MaxLines = 4
INVARIANTS
  ConsoleProtected
  EvaluatedInOrder
PROPERTIES
  ConsoleProgress
CHECK_DEADLOCK FALSE
