SPECIFICATION Spec
CONSTANTS
  a = a
  b = b
  m1 = m1
  Slots = {a, b}
  Modules = {m1}
  ShardOf <- OneShard
  Values = {v1, v2}
  NoValue = NoValue
  Stamps = {}
  MaxRows = 3
  MaxDay = 2
  MaxFaults = 3
  MaxEdits = 1
INVARIANTS
  TypeOK
  ChainContinuous
  CleanAgrees
  RebuildRestores
  LoggedOnce
SYMMETRY ValueSymmetry
CHECK_DEADLOCK FALSE
