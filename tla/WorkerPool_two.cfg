SPECIFICATION Spec
CONSTANTS
  Jobs = {j1}
  Procs = {p1, p2}
  Concurrency = 1
  Kinds = {"suggest", "readability"}
  MaxCrashes = 1
  MaxThrows = 1
INVARIANTS
  OneOwner
  LandsOnce
SYMMETRY Symmetry
