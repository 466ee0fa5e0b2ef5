---------------------------- MODULE KernelProofs ----------------------------
(***************************************************************************)
(* Theorems about module Kernel.  Each step of the kernel is a step of the *)
(* scheduler, of the keyboard buffer, or of both at once, so what modules  *)
(* SchedulerProofs and BlockingQueueProofs prove of each alone holds of    *)
(* the two together.  BlockedOnlyInWaitEvent is about both: it needs the   *)
(* invariants of the one and of the other, and where exactly the shell can *)
(* be while it is marked BLOCKED (BlockedWhere).                           *)
(***************************************************************************)
EXTENDS Kernel, BlockingQueueProofs

SP == INSTANCE SchedulerProofs WITH ShellReturns <- Quit \in Chars

(* The shell stays BLOCKED only from its own call of set_task_state until  *)
(* the next interrupt: a key makes it READY, and so does schedule(), which *)
(* finds another task to switch to before the shell can go on.             *)
BlockedWhere ==
  state[S!Shell] = "BLOCKED" =>
    /\ ending = "no"
    /\ pc \in {"hlt", "halted"} \/ (pc = "wait" /\ in_schedule)

KernelIInv ==
  /\ BqIInv
  /\ SP!IInv
  /\ BlockedWhere

-----------------------------------------------------------------------------
(* The kernel's steps are steps of its two components                      *)

LEMMA StepOfBoth == [Next]_vars => [BqNext]_bqVars /\ [S!Next]_schedVars
<1> SUFFICES ASSUME [Next]_vars
             PROVE  [BqNext]_bqVars /\ [S!Next]_schedVars
  OBVIOUS
<1>1. CASE Boot
  BY <1>1 DEF Boot, S!Next
<1>2. CASE Shell
  <2>1. CASE ShellReads
    BY <2>1 DEF ShellReads, BqNext, bq_dequeue, wait_event
  <2>2. CASE ShellBlocks
    BY <2>2 DEF ShellBlocks, BqNext, bq_dequeue, wait_event, S!Next
  <2>3. CASE ShellCallsAgain
    BY <2>3 DEF ShellCallsAgain, BqNext, bq_dequeue
  <2>4. CASE ShellEnds
    BY <2>4 DEF ShellEnds, S!Next
  <2> QED
    BY <1>2, <2>1, <2>2, <2>3, <2>4 DEF Shell
<1>3. CASE TimerInterrupt
  BY <1>3 DEF TimerInterrupt, AfterInterrupt, HaltEnds, BqNext, bqVars, queue,
              S!Next
<1>4. CASE Schedule
  BY <1>4 DEF Schedule, S!Next
<1>5. CASE \E c \in Chars : KeyInterrupt(c)
  BY <1>5 DEF KeyInterrupt, BqNext, S!Next
<1>6. CASE UNCHANGED vars
  BY <1>6 DEF vars
<1> QED
  BY <1>1, <1>2, <1>3, <1>4, <1>5, <1>6 DEF Next

(* The scheduler that the kernel composes is the one SchedulerProofs is    *)
(* about, with the assumptions made there.                                 *)
LEMMA SchedulerAssumptions ==
  SP!NTasksAssumption /\ SP!ShellReturnsAssumption
BY StacksAssumption DEF SP!NTasksAssumption, SP!ShellReturnsAssumption,
                        S!MaxStacks, SP!MaxStacks

LEMMA SameScheduler ==
  /\ S!Init => SP!Init
  /\ [S!Next]_schedVars => [SP!Next]_SP!vars
<1> USE DEF S!Tid, SP!Tid, S!Kernel, SP!Kernel, S!User, SP!User, S!NULL,
            SP!NULL, S!BootStack, SP!BootStack, S!Idle, SP!Idle, S!Shell,
            SP!Shell, S!Interruptible, SP!Interruptible, S!ShellExecuting,
            SP!ShellExecuting
<1>1. S!Init => SP!Init
  BY DEF S!Init, SP!Init
<1>2. S!Boot => SP!Boot
  BY DEF S!Boot, SP!Boot, S!create_task, SP!create_task, S!create_user_task,
         SP!create_user_task, S!NewTask, SP!NewTask, S!add_task, SP!add_task,
         S!StartFirstTask, SP!StartFirstTask
<1>3. S!TimerInterrupt => SP!TimerInterrupt
  BY DEF S!TimerInterrupt, SP!TimerInterrupt
<1>4. S!ScheduleStep => SP!ScheduleStep
  BY DEF S!ScheduleStep, SP!ScheduleStep, S!SwitchTo, SP!SwitchTo, S!Runnable,
         SP!Runnable
<1>5. S!BlockSelf \/ S!Wake => SP!BlockSelf \/ SP!Wake
  BY DEF S!BlockSelf, SP!BlockSelf, S!Wake, SP!Wake, S!set_task_state,
         SP!set_task_state
<1>6. S!end_task => SP!end_task
  BY DEF S!end_task, SP!end_task, S!EndTaskMark, SP!EndTaskMark,
         S!EndTaskUnlink, SP!EndTaskUnlink, S!EndTaskClear, SP!EndTaskClear
<1>7. UNCHANGED schedVars => UNCHANGED SP!vars
  BY DEF schedVars, SP!vars
<1> QED
  BY <1>1, <1>2, <1>3, <1>4, <1>5, <1>6, <1>7 DEF S!Next, SP!Next

LEMMA SchedulerStepIInv == SP!IInv /\ [S!Next]_schedVars => SP!IInv'
BY SchedulerAssumptions, SameScheduler, SP!NextIInv

-----------------------------------------------------------------------------
(* BlockedWhere is preserved                                               *)

(* Starting the tasks blocks none.                                         *)
LEMMA BootBlockedWhere ==
  ASSUME KernelIInv, Boot
  PROVE  BlockedWhere'
<1>1. S!Shell \in SP!Tid /\ state \in [SP!Tid -> SP!TaskState]
  BY SchedulerAssumptions
  DEF KernelIInv, SP!IInv, SP!TypeOK, S!Shell, SP!Tid, SP!NTasksAssumption
<1>2. UNCHANGED <<pc, ending, in_schedule>>
  BY DEF Boot, bqVars, S!Boot, S!create_task, S!create_user_task, S!NewTask,
         S!StartFirstTask
<1>3. state'[S!Shell] \in {state[S!Shell], "NEW", "RUNNING"}
  BY <1>1 DEF Boot, S!Boot, S!create_task, S!create_user_task, S!NewTask,
              S!StartFirstTask
<1> QED
  BY <1>2, <1>3 DEF KernelIInv, BlockedWhere

(* The shell blocks itself in wait_event, just before its hlt, and no      *)
(* statement it executes while it can be BLOCKED leads out of wait_event.  *)
LEMMA ShellBlockedWhere ==
  ASSUME KernelIInv, Shell
  PROVE  BlockedWhere'
<1> USE DEF KernelIInv, BlockedWhere, S!ShellExecuting, S!Interruptible
<1>1. CASE ShellReads
  BY <1>1 DEF ShellReads, WaitTest, WaitRegister, WaitHalt, dequeue,
              DequeueRead, DequeueAdvance, TestEmpty, reset_event, ResetState,
              ResetTid, schedVars
<1>2. CASE ShellBlocks
  BY <1>2 DEF ShellBlocks, WaitBlock, S!BlockSelf, S!set_task_state
<1>3. CASE ShellCallsAgain
  BY <1>3 DEF ShellCallsAgain, Return, schedVars
<1>4. CASE ShellEnds
  BY <1>4, SchedulerAssumptions
  DEF ShellEnds, S!end_task, S!EndTaskMark, S!EndTaskUnlink, S!EndTaskClear,
      SP!IInv, SP!TypeOK, S!Shell, SP!Tid, SP!NTasksAssumption
<1> QED
  BY <1>1, <1>2, <1>3, <1>4 DEF Shell

(* The timer ends the hlt and enters schedule().                           *)
LEMMA TimerBlockedWhere ==
  ASSUME KernelIInv, TimerInterrupt
  PROVE  BlockedWhere'
BY DEF KernelIInv, BlockedWhere, TimerInterrupt, S!TimerInterrupt,
       AfterInterrupt

(* schedule() switches away from a BLOCKED shell, and makes it READY.      *)
LEMMA ScheduleBlockedWhere ==
  ASSUME KernelIInv, Schedule
  PROVE  BlockedWhere'
<1> DEFINE t == next[next_task]
<1> USE DEF S!Shell, SP!Shell, S!Idle, SP!Idle, S!NULL, SP!NULL, SP!Tid
<1>1. NTasks \in 2 .. 8
  BY SchedulerAssumptions DEF SP!NTasksAssumption, SP!MaxStacks
<1>2. /\ current_task \in SP!Tid /\ next_task = current_task
      /\ state \in [SP!Tid -> SP!TaskState]
      /\ t \in SP!Tid \cup {-1}
  BY <1>1 DEF KernelIInv, Schedule, S!ScheduleStep, SP!IInv, SP!TypeOK,
              SP!Walk, SP!Started
<1>3. \/ UNCHANGED state
      \/ state' = [state EXCEPT ![current_task] = "READY", ![t] = "RUNNING"]
  BY DEF Schedule, S!ScheduleStep, S!SwitchTo
<1> SUFFICES ASSUME state'[1] = "BLOCKED"
             PROVE  FALSE
  BY DEF BlockedWhere
<1>4. state[1] = "BLOCKED"
  BY <1>1, <1>2, <1>3
<1>5. current_task = 1 /\ ending = "no"
  BY <1>1, <1>4 DEF KernelIInv, BlockedWhere, SP!IInv, SP!OthersRunnable,
                    SP!Runnable
<1>6. t = SP!Following(1) /\ SP!Following(1) \in SP!Tid \ {1}
  BY <1>1, <1>2, <1>5
  DEF KernelIInv, SP!IInv, SP!RingIntact, SP!RingSuccessor, SP!Unlinked,
      SP!Following
<1> HIDE DEF t
<1>7. S!Runnable(state[t])
  BY <1>5, <1>6 DEF KernelIInv, SP!IInv, SP!OthersRunnable, SP!Runnable,
                    S!Runnable
<1>8. state' = [state EXCEPT ![1] = "READY", ![t] = "RUNNING"]
  <2>1. t # -1
    BY <1>6
  <2>2. /\ next[next_task] # -1
        /\ S!Runnable(state[next[next_task]])
    BY <1>7, <2>1 DEF t
  <2>3. S!SwitchTo(next[next_task])
    BY <2>2 DEF Schedule, S!ScheduleStep
  <2>4. S!SwitchTo(t)
    BY <2>3 DEF t
  <2> QED
    BY <1>2, <1>5, <1>6, <2>4 DEF S!SwitchTo
<1> QED
  BY <1>1, <1>2, <1>6, <1>8

(* A key makes a registered shell READY; one that has not registered is    *)
(* not BLOCKED yet.                                                        *)
LEMMA KeyBlockedWhere ==
  ASSUME KernelIInv, NEW c \in Chars, KeyInterrupt(c)
  PROVE  BlockedWhere'
<1> USE DEF KernelIInv, BlockedWhere, KeyInterrupt
<1>1. CASE evt.tid # NoTask
  <2>1. state' = [state EXCEPT ![S!Shell] = "READY"]
    BY <1>1 DEF S!Wake, S!set_task_state
  <2>2. state'[S!Shell] = "READY"
    BY <2>1, SchedulerAssumptions
    DEF SP!IInv, SP!TypeOK, S!Shell, SP!Tid, SP!NTasksAssumption
  <2> QED
    BY <2>2
<1>2. CASE evt.tid = NoTask
  <2>1. UNCHANGED schedVars /\ ~in_schedule
    BY <1>2 DEF S!Interruptible
  <2>2. state[S!Shell] # "BLOCKED"
    BY <1>2, <2>1, ReaderAssumption DEF BqIInv, RegisteredWhileWaiting, NoTask
  <2> QED
    BY <2>1, <2>2 DEF schedVars
<1> QED
  BY <1>1, <1>2

-----------------------------------------------------------------------------
(* The invariant                                                           *)

LEMMA KernelInitIInv == Init => KernelIInv
<1> SUFFICES ASSUME Init
             PROVE  KernelIInv
  OBVIOUS
<1>1. BqIInv
  BY BqInitIInv DEF Init
<1>2. SP!IInv
  BY SchedulerAssumptions, SameScheduler, SP!InitIInv DEF Init
<1>3. state[S!Shell] = "NEW"
  BY SchedulerAssumptions
  DEF Init, S!Init, S!Shell, S!Tid, SP!NTasksAssumption
<1> QED
  BY <1>1, <1>2, <1>3 DEF KernelIInv, BlockedWhere

LEMMA KernelNextIInv == KernelIInv /\ [Next]_vars => KernelIInv'
<1> SUFFICES ASSUME KernelIInv, [Next]_vars
             PROVE  KernelIInv'
  OBVIOUS
<1>1. BqIInv'
  BY StepOfBoth, BqNextIInv DEF KernelIInv
<1>2. SP!IInv'
  BY StepOfBoth, SchedulerStepIInv DEF KernelIInv
<1>3. BlockedWhere'
  <2>1. CASE Boot
    BY <2>1, BootBlockedWhere
  <2>2. CASE Shell
    BY <2>2, ShellBlockedWhere
  <2>3. CASE TimerInterrupt
    BY <2>3, TimerBlockedWhere
  <2>4. CASE Schedule
    BY <2>4, ScheduleBlockedWhere
  <2>5. CASE \E c \in Chars : KeyInterrupt(c)
    BY <2>5, KeyBlockedWhere
  <2>6. CASE UNCHANGED vars
    BY <2>6 DEF vars, schedVars, bqVars, KernelIInv, BlockedWhere
  <2> QED
    BY <2>1, <2>2, <2>3, <2>4, <2>5, <2>6 DEF Next
<1> QED
  BY <1>1, <1>2, <1>3 DEF KernelIInv

LEMMA KernelInvariance == Spec => []KernelIInv
BY KernelInitIInv, KernelNextIInv, PTL DEF Spec

-----------------------------------------------------------------------------
(* What the kernel's behaviours satisfy                                    *)

(* The interrupts and the calls of the running kernel use the buffer only  *)
(* as module BlockingQueue lets a reader and a keyboard interrupt use it.  *)
THEOREM KernelUsesQueue == Spec => BqSpec
<1>1. Init => BqInit
  BY DEF Init
<1> QED
  BY <1>1, StepOfBoth, PTL DEF Spec, BqSpec

(* Its task table is only ever changed as module Scheduler says: the calls *)
(* that module lets happen at any moment are all that event.c makes.       *)
THEOREM KernelUsesScheduler == Spec => S!Spec
<1>1. Init => S!Init
  BY DEF Init
<1>2. [S!Next]_schedVars => [S!Next]_S!vars
  BY DEF schedVars, S!vars
<1> QED
  BY <1>1, <1>2, StepOfBoth, PTL DEF Spec, S!Spec

(* In the running kernel, too, what is typed and accepted comes out of the *)
(* buffer once, in order.                                                  *)
THEOREM KernelFifo == Spec => FifoSpec
BY KernelUsesQueue, ImplementsFifo, PTL

(* No state left over from wait_event marks the shell BLOCKED once it has  *)
(* left the loop: a key or the scheduler has made it READY by then.        *)
THEOREM KernelBlocksOnlyInWait == Spec => []BlockedOnlyInWaitEvent
<1>1. KernelIInv => BlockedOnlyInWaitEvent
  BY DEF KernelIInv, BlockedWhere, BlockedOnlyInWaitEvent, Waiting
<1> QED
  BY <1>1, KernelInvariance, PTL

(* The reader's invariants hold under the kernel's interrupts.             *)
THEOREM KernelReaderSafe ==
  Spec => [](BqTypeOK /\ DequeueFindsCharacter /\ RegisteredWhileWaiting)
<1>1. KernelIInv =>
        BqTypeOK /\ DequeueFindsCharacter /\ RegisteredWhileWaiting
  BY DEF KernelIInv, BqIInv, EventTellsNotEmpty, DequeueFindsCharacter
<1> QED
  BY <1>1, KernelInvariance, PTL

(* With the real event code in place the scheduler still always finds a    *)
(* task, on an intact ring, and keeps the TSS on the running task's stack. *)
THEOREM KernelSchedulerSafe ==
  Spec => [](S!OthersRunnable /\ S!StackFollowsTask /\ S!RingIntact)
<1>1. SP!IInv => S!OthersRunnable /\ S!StackFollowsTask /\ S!RingIntact
  BY DEF SP!IInv, SP!OthersRunnable, S!OthersRunnable, SP!Runnable, S!Runnable,
         SP!StackFollowsTask, S!StackFollowsTask, SP!RingIntact, S!RingIntact,
         SP!RingSuccessor, S!RingSuccessor, SP!Following, S!Following,
         SP!Unlinked, S!Unlinked, SP!Tid, S!Tid, SP!NULL, S!NULL, SP!Shell,
         S!Shell
<1>2. KernelIInv => SP!IInv
  BY DEF KernelIInv
<1> QED
  BY <1>1, <1>2, KernelInvariance, PTL
=============================================================================
