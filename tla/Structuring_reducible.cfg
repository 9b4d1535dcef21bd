CONSTANTS
  N = 4
  M = 2
  Inputs <- Plain
  LeastBudget = 64
SPECIFICATION Spec
INVARIANTS ReducibleNeverCopied
CHECK_DEADLOCK FALSE
