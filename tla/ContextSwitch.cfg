SPECIFICATION Spec
CONSTANTS
  KernelTasks = {"idle", "shell"}
  UserTasks = {"dots1"}
  Idle = "idle"
  MaxCalls = 1
  Exceptions <- AllExceptions
CHECK_DEADLOCK FALSE
INVARIANTS
  TypeOK
  FrameOnOwnStack
  EntryReturnsToEndTask
  HandlerSeesFrame
PROPERTIES
  ResumesAsLeft
  OwnProcessorSpec
