CONSTANTS
  q1 = q1
  Queries <- MCOne
  Calls <- MCCachedAnswers
  FirstTree = 0
  MaxEdits = 1
  MaxFailures = 0
  MaxSessionOps = 1
SPECIFICATION Spec
INVARIANTS
  InvalidationHolds
  OnlySessionsHideChanges
CHECK_DEADLOCK FALSE
