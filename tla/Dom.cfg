CONSTANTS
  Elements = {e1, e2}
  Texts = {t1, t2}
  Attributes = {a1}
  Fragments = {f}
  Custom = {e2}
  Observers = {o}
  Watched = {e1}
  Options <- MCOptions
  Lists <- MCLists
  e2 = e2
  Doc = doc
  Null = null
  AnyRange = FALSE
  MaxRecords = 1
  MaxData = 2
SPECIFICATION Spec
SYMMETRY Exchange
INVARIANTS
  ListWhole
  TreeAsBuilt
  ObserversInformed
CHECK_DEADLOCK FALSE
