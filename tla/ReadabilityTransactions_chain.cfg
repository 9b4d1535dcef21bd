CONSTANTS
  Procs = {p1}
  Paths = {a}
  Contents = {c1}
  Absent = Absent
  RewritePath = a
  Faithful = c1
  Evidence = {e1}
  MaxTx = 2
  MaxOps = 1
  MaxDay = 3
  MaxEvents = 2
SPECIFICATION Spec
INVARIANT ChainContinuous
CHECK_DEADLOCK FALSE
