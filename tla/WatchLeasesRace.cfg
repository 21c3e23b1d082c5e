SPECIFICATION LeaseSpec
CONSTANTS
  Repos = {r1}
  Sessions = {s1, s2}
  WatchFails = FALSE
  UnwatchFails = FALSE
  MaxCalls = 3
SYMMETRY SessionSymmetry
CHECK_DEADLOCK FALSE
INVARIANTS
  LeasedIsServed
