SPECIFICATION Spec
CONSTANTS
  MaxCreates = 1
  MaxRequests = 3
  Text = {"", "app.js"}
  Empty = ""
  JavaScriptCode = "JavaScriptCode"
  TestFile = "test.js"
INVARIANTS
  TypeOK
  HandledOnceInOrder
  OneContextPerApplication
  RequestsWithinLife
PROPERTIES
  ImplementsService
CHECK_DEADLOCK FALSE
