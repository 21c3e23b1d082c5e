SPECIFICATION IndexSpec
CONSTANTS
  Paths = {p1, p2}
  Versions = {v1}
  Gone = gone
  NoSnapshot = none
  Indexers = {i1}
  Keep = 1
SYMMETRY PathSymmetry
CHECK_DEADLOCK FALSE
INVARIANTS
  HeadIsStored
  CorpusMatchesHead
  SnapshotsWellFormed
  PlansStillHold
PROPERTIES
  SuccessIsServable
  SuccessIsBounded
