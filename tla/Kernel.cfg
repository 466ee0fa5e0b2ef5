SPECIFICATION FairSpec
CONSTANTS
  NTasks = 5
  QueueMaxItems = 4
  Chars = {zero, quit}
  Zero = zero
  None = none
  Quit = quit
  Reader = 1
CHECK_DEADLOCK FALSE
INVARIANTS
  BqTypeOK
  DequeueFindsCharacter
  RegisteredWhileWaiting
  BlockedOnlyInWaitEvent
PROPERTIES
  FifoSpec
  WakeupNotLost
