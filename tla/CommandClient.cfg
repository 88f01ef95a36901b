SPECIFICATION ClientSpec
CONSTANT MaxCommands = 5
INVARIANTS
  RepliesInOrder
PROPERTIES
  SendReturns
CHECK_DEADLOCK FALSE
