SPECIFICATION FairSpec
CONSTANTS
  NTasks = 3
  QueueMaxItems = 3
  Reader = 1
  Chars = {zero}
  Zero = zero
  None = none
  Quit = quit
PROPERTIES
  InputEventuallyRead
