SPECIFICATION Spec
CONSTANTS
  OctetBase = 4
  Pieces = 8
  MaxChanges = 2
  Inputs <- AllInputs
  Bases <- AllBases
  Values <- AllValues
  Pairs <- AllPairs
INVARIANTS
  UrlValid
  HrefParsesBack
  FetchAsksForUrl
PROPERTIES
  AssignmentContained
  ClassesAgree
CHECK_DEADLOCK FALSE
