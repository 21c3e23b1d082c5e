SPECIFICATION FairPreciseSpec
CONSTANTS
  Specs = {1, 2}
  Other = other
  NoEntry = noentry
  Changes <- MCChanges
  Threads = {t1, t2}
  MaxCalls = 3
  MaxFaults = 1
CHECK_DEADLOCK FALSE
INVARIANTS
  OnlyFaultsStrand
  NothingIsLost
PROPERTIES
  PreciseWorkSettles
