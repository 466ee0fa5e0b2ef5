SPECIFICATION Spec
CONSTANTS
  Letters = {"a", "q"}
  Zero = "0"
  Size = 4
  Rows = 12
  Cols = 8
  UintModulus = 256
  Quit <- QuitCommand
  OutputRows = {0, 1, 2, 7}
  TaskAText = 6
  DotRows = {4}
  TimerCols = {0, 3, 4}
CHECK_DEADLOCK FALSE
INVARIANTS
  CommandWasTyped
