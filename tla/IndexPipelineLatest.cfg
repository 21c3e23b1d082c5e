SPECIFICATION IndexSpec
CONSTANTS
  Paths = {p1}
  Versions = {v1}
  Gone = gone
  NoSnapshot = none
  Indexers = {i1}
  Keep = 2
CHECK_DEADLOCK FALSE
PROPERTIES
  SuccessIsLatest
