SPECIFICATION FairSpec
CONSTANTS
  Jobs = {j1, j2}
  Procs = {p1}
  Concurrency = 2
  Kinds = {"suggest", "other"}
  MaxCrashes = 0
  MaxThrows = 0
INVARIANTS
  TypeOK
  FeedTellsStatus
  CancelledLandsNothing
  OnePool
PROPERTIES
  LegalTransitions
  Drains
