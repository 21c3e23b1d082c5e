SPECIFICATION HeldSpec
CONSTANTS
  Repos = {r1, r2}
  Paths = {p1}
  Debounce = 1
  DebounceMultiplier = 1
  Retry = 1
  ManifestLimit = 1
  SemanticLimit = 1
  Horizon = 5
CHECK_DEADLOCK FALSE
PROPERTIES
  EveryChangeSettles
  FollowupRuns
