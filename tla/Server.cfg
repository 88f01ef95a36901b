SPECIFICATION ServerSpec
CONSTANTS
  MaxCreates = 1
  MaxRequests = 4
  Text = {"", "app.html"}
  Empty = ""
  JavaScriptCode = "JavaScriptCode"
  TestFile = "test.js"
  Clients = {c1, c2}
  Threads = {t1}
  ThreadUrl = ""
  Html = {"app.html"}
  MaxMessages = 2
INVARIANTS
  ServerSafe
PROPERTIES
  ListingAgreesWithHistory
  MessagesHandled
  StopEndsProcess
CHECK_DEADLOCK FALSE
