CONSTANTS
  t1 = t1
  t2 = t2
  Servers = {s1, s2}
  Trees <- MCTrees
  NoModules = NoModules
  SizesOf <- MCSizesOf
  Unset = Unset
  Null = Null
  MaxEdits = 1
  MaxStarts = 2
SPECIFICATION FairSpec
INVARIANTS TypeOK OneRun FreshAtStart
PROPERTIES NeverRegresses PollEnds
CHECK_DEADLOCK FALSE
