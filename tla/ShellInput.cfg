SPECIFICATION InputSpec
CONSTANTS
  Letters = {"q"}
  Zero = "0"
  Size = 3
  Rows = 6
  Cols = 6
  UintModulus = 256
  Quit <- QuitCommand
  OutputRows = {0, 1}
  TaskAText = 4
  DotRows = {3}
  TimerCols = {0, 3}
  QueueMaxItems = 3
  None = None
  Reader = 1
  MaxTyped = 4
CHECK_DEADLOCK FALSE
INVARIANTS
  InputTypeOK
  CursorFollowsLine
  LineOnScreen
  CommandIsTyped
