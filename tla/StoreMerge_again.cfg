CONSTANTS
  Stores = {x, y}
  Slots = {1}
  NoRid = NoRid
  MaxOps = 4
SPECIFICATION Spec
INVARIANT MergeIdempotent
CHECK_DEADLOCK FALSE
