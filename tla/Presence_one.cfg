SPECIFICATION FairSpec
CONSTANTS
  Servers = {p1, p2}
  Humans = {h1}
  Targets = {t1}
  Concurrency = 2
  TTL = 2
  MaxUp = 1
INVARIANTS
  TypeOK
  ClosedHoldsNothing
PROPERTIES
  SweepSparesLive
  DeadReaped
