CONSTANTS
  q1 = q1
  Queries <- MCOne
  Calls <- MCCalls
  FirstTree = 1
  MaxEdits = 2
  MaxFailures = 1
  MaxSessionOps = 0
SPECIFICATION FairSpec
INVARIANTS
  TrustedEntryIsCurrent
  AnswersSeeAcceptedChanges
PROPERTY
  DirtyIsRefreshed
CHECK_DEADLOCK FALSE
