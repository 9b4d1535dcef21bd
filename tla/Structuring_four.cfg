CONSTANTS
  N = 4
  M = 2
  Inputs <- Functions4
  LeastBudget = 8
SPECIFICATION Spec
INVARIANTS DominatorsExact TreeExact CopiesOnlyLoops
CHECK_DEADLOCK FALSE
