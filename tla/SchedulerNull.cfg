SPECIFICATION Spec
CONSTANTS
  NTasks = 5
  ShellReturns = TRUE
CHECK_DEADLOCK FALSE
INVARIANTS
  SchedulerStaysOnList
