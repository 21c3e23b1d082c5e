SPECIFICATION SessionsSpec
CONSTANTS
  Repos = {r1, r2}
  Startup = {}
  Imported = {r1, r2}
  Sessions = {s1, s2}
  Requests = {q1, q2, q3}
  Calls <- MCCalls
  None = none
  MaxRefusals = 1
SYMMETRY RequestSymmetry
CHECK_DEADLOCK FALSE
INVARIANTS
  CountsMatchSessions
  CatalogHoldsWhatIsUsed
  NothingStaysOfFailed
PROPERTIES
  FailedAttachLeavesNoTrace
