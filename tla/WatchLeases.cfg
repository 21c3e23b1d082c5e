SPECIFICATION FairLeaseSpec
CONSTANTS
  Repos = {r1}
  Sessions = {s1, s2, s3}
  WatchFails = FALSE
  UnwatchFails = TRUE
  MaxCalls = 4
CHECK_DEADLOCK FALSE
INVARIANTS
  CountMatchesHolders
  NothingLeaks
PROPERTIES
  UnleasedIsLetGo
