SPECIFICATION FairSupSpec
CONSTANTS
  Repos = {r1}
  Paths = {p1}
  Debounce = 0
  DebounceMultiplier = 2
  Retry = 1
  ManifestLimit = 1
  SemanticLimit = 1
  Horizon = 2
  Sessions = {s1}
  WatchFails = FALSE
  UnwatchFails = TRUE
  MaxCalls = 3
  MaxMail = 1
CHECK_DEADLOCK FALSE
INVARIANTS
  RunningHasItsWorker
  WritersExclude
  AttachedIsServed
  SweepMissesNone
PROPERTIES
  DrivesScheduler
  CarriesLeases
  SlotsAreFreed
