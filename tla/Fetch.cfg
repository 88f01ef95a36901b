CONSTANTS
  Calls <- MCCalls
  Statuses <- MCStatuses
  Locations <- MCLocations
  MaxBodies = 2
SPECIFICATION Spec
CHECK_DEADLOCK FALSE
INVARIANTS
  RedirectsContained
PROPERTIES
  FetchEnds
