------------------------------- MODULE Kernel -------------------------------
(***************************************************************************)
(* The running kernel: the tasks of module Scheduler, the shell reading    *)
(* its keyboard buffer (module BlockingQueue), and the two interrupts that *)
(* pic.c leaves unmasked, the timer and the keyboard.                      *)
(*                                                                         *)
(* The shell is the active task (set_active_task in kmain) and the only    *)
(* one that reads.  It executes a statement only while it owns the         *)
(* processor; an interrupt arrives in whatever task does, and never during *)
(* another interrupt.                                                      *)
(***************************************************************************)
EXTENDS BlockingQueue

CONSTANTS
  NTasks,         \* tasks created by kmain
  Quit            \* the character on which the shell returns to end_task

VARIABLES
  n_tasks, state, next, privilege, current_task, esp0, in_schedule,
  next_task, ending

S == INSTANCE Scheduler WITH ShellReturns <- Quit \in Chars

ASSUME StacksAssumption == NTasks \in 2 .. S!MaxStacks
ASSUME ReaderIsShell == Reader = S!Shell

schedVars == <<n_tasks, state, next, privilege, current_task, esp0,
               in_schedule, next_task, ending>>
vars == <<schedVars, bqVars>>

Init == S!Init /\ BqInit

-----------------------------------------------------------------------------

Boot == S!Boot /\ UNCHANGED bqVars

(* A statement of bq_dequeue that leaves the task table alone.             *)
ShellReads ==
  /\ S!ShellExecuting
  /\ \/ WaitTest \/ WaitRegister \/ WaitHalt
     \/ dequeue
     \/ TestEmpty
     \/ reset_event
  /\ UNCHANGED schedVars

(* wait_event blocks the task it has just stored in evt->tid; that this is *)
(* the shell is RegisteredWhileWaiting.                                    *)
ShellBlocks == WaitBlock /\ S!BlockSelf

ShellCallsAgain ==
  /\ S!ShellExecuting
  /\ ch # Quit
  /\ Return
  /\ UNCHANGED schedVars

ShellEnds ==
  /\ pc = "return"
  /\ ch = Quit
  /\ S!end_task
  /\ UNCHANGED bqVars

Shell == ShellReads \/ ShellBlocks \/ ShellCallsAgain \/ ShellEnds

(* The timer ends the shell's hlt if the shell is the task it interrupts.  *)
TimerInterrupt ==
  /\ S!TimerInterrupt
  /\ pc' = IF current_task = S!Shell THEN AfterInterrupt ELSE pc
  /\ UNCHANGED <<buf, front, rear, evt, ch>>

Schedule == S!ScheduleStep /\ UNCHANGED bqVars

(* Variant: set_event sets the event and leaves the task BLOCKED.          *)
KeyInterruptWakesNobody(c) ==
  /\ S!Interruptible
  /\ bq_enqueue(c)
  /\ UNCHANGED schedVars

(* handle_key_event, and set_event's call of set_task_state.               *)
KeyInterrupt(c) ==
  /\ S!Interruptible
  /\ bq_enqueue(c)
  /\ IF evt.tid # NoTask THEN S!Wake ELSE UNCHANGED schedVars

Next ==
  \/ Boot
  \/ Shell
  \/ TimerInterrupt
  \/ Schedule
  \/ \E c \in Chars : KeyInterrupt(c)

Spec == Init /\ [][Next]_vars

(* The scheduler's fairness, and the shell's: each time it has its turn it *)
(* can execute a statement, and with a turn of 4 ms (TIMER_HZ in pit.c) it *)
(* does not come away empty-handed every time.  Nobody has to type.        *)
Fairness ==
  /\ WF_vars(Boot)
  /\ WF_vars(TimerInterrupt)
  /\ WF_vars(Schedule)
  /\ SF_vars(Shell)

FairSpec == Spec /\ Fairness

-----------------------------------------------------------------------------
(* Properties                                                              *)

(* A task uses a character only after it has been made READY again: no     *)
(* state left over from wait_event marks the shell BLOCKED while it is in  *)
(* the rest of bq_dequeue.  Either set_event clears it or the scheduler.   *)
BlockedOnlyInWaitEvent ==
  state[S!Shell] = "BLOCKED" => Waiting \/ pc = "wait"

(* No wakeup is lost in wait_event: a reader that has found the event      *)
(* unset leaves the loop once it is set, even if the keyboard interrupt    *)
(* that set it came before the reader had registered, or between its       *)
(* registering and its going to sleep.                                     *)
WakeupNotLost == evt.state = 1 /\ Waiting ~> pc = "dequeue"

(* README.md:11, "Keyboard input via PS/2 interrupt handler", through the  *)
(* event that blocking_queue.h:8 calls not_empty_evt: what has been typed  *)
(* is read, whether or not anything more is typed.                         *)
InputEventuallyRead == rear # front ~> pc = "advance"
=============================================================================
