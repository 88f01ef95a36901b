SPECIFICATION Spec
CONSTANTS
  MaxRedirects = 1
  MaxConns = 3
  MaxCalls = 5
INVARIANTS
  RequestTracked
  OneOutcome
PROPERTIES
  TimeoutEndsWait
  RequestEnds
CHECK_DEADLOCK FALSE
