CONSTANTS
  Procs = {p1}
  Paths = {a, b}
  Contents = {c1, c2}
  Absent = Absent
  RewritePath = a
  Faithful = c1
  Evidence = {e1}
  MaxTx = 3
  MaxOps = 2
  MaxDay = 3
  MaxEvents = 2
SPECIFICATION Spec
INVARIANTS TypeOK BlobsHeld UndoExact LogTellsTree ChainUnlessOvertaken
PROPERTY NoByteLost
CHECK_DEADLOCK FALSE
