SPECIFICATION Spec
CONSTANTS
  Slots = {s1, s2}
  Values = {v1, v2}
  NoValue = NoValue
  Stamps = {t1, t2}
  Clients = {c1, c2}
  MaxRows = 4
INVARIANTS
  TypeOK
  ReadsResolve
  RowsResolve
  LogAnnouncesRows
PROPERTIES
  KeepsPromise
  SetSupersedesActive
  MatchesInMemory
SYMMETRY Symmetry
CHECK_DEADLOCK FALSE
