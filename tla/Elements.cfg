SPECIFICATION Spec
CONSTANTS
  Documents <- MCDocuments
  Queries <- MCQueries
  Writable = {1, 2}
  Values <- MCValues
  Tokens <- MCTokens
  Keys <- MCKeys
  KeyValues <- MCKeyValues
  AttrNodes = {1, 2, 3}
  ListIds = {1, 2, 3}
INVARIANTS ViewsAgree SelectorsAgree
CHECK_DEADLOCK FALSE
