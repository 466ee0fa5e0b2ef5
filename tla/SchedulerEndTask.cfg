SPECIFICATION FairSpec
CONSTANTS
  NTasks = 8
  ShellReturns = TRUE
CHECK_DEADLOCK FALSE
INVARIANTS
  TypeOK
  OthersRunnable
  StackFollowsTask
  RingIntact
PROPERTIES
  UnlinkedNeverResumed
  RoundRobinOrder
