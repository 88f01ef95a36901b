SPECIFICATION Spec
CONSTANTS
  Address = {"a1", "a2"}
  MaxContexts = 3
  Requests = {"r1", "r2"}
  MaxEvents = 2
  Quick = {"r2"}
  envValue = TRUE
INVARIANTS
  OnlyRawPointersStray
  PrivateOfLiveContextFound
  TasksInOrder
PROPERTIES
  AnswersDelivered
CHECK_DEADLOCK FALSE
