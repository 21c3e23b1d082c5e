SPECIFICATION Spec
CONSTANTS
  Repos = {r1, r2}
  Paths = {p1}
  Debounce = 1
  DebounceMultiplier = 2
  Retry = 1
  ManifestLimit = 1
  SemanticLimit = 1
  Horizon = 4
SYMMETRY BothSymmetries
CHECK_DEADLOCK FALSE
INVARIANTS
  ClassesDoNotCollide
  RerunMatchesHints
  BoundedDelay
PROPERTIES
  FollowupKeepsPaths
  KeepsLedger
