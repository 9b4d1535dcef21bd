CONSTANTS
  Stores = {x, y}
  Slots = {1, 2}
  NoRid = NoRid
  MaxOps = 6
SPECIFICATION Spec
INVARIANTS ChainsSurvive
PROPERTY ConflictsNamed
CHECK_DEADLOCK FALSE
