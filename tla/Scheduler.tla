----------------------------- MODULE Scheduler ------------------------------
(***************************************************************************)
(* The task table and the scheduler: src/src/kernel/task.c, scheduler.c,   *)
(* the start-up sequence of kernel.c and the timer interrupt of pit.c.     *)
(*                                                                         *)
(* kmain creates the tasks with interrupts disabled (they stay disabled    *)
(* from the boot sector's cli until the first iret), so the boot actions   *)
(* are not interleaved with anything.  From then on the only thing that    *)
(* moves the processor from one task to another is schedule(), called in   *)
(* the timer interrupt; its do-while loop is one action per iteration, and *)
(* since interrupt gates clear IF nothing else happens until it returns.   *)
(* Task code, on the other hand, is interrupted between any two statements.*)
(*                                                                         *)
(* The module is open: the event code (event.c) calls set_task_state on    *)
(* behalf of the shell, the only task that ever waits.  BlockSelf and Wake *)
(* are those calls, made at any moment the processor could make them;      *)
(* module Kernel composes them with the real event and keyboard code.      *)
(***************************************************************************)
EXTENDS Integers

CONSTANTS
  NTasks,       (* how many tasks kmain creates; 5 in kernel.c              *)
  ShellReturns  (* whether the shell's entry function ever returns ("quit") *)

(* kstacks and ustacks have 8 rows (task.c:19-20): the bound on NTasks.    *)
MaxStacks == 8

ASSUME NTasksAssumption == NTasks \in 2 .. MaxStacks
ASSUME ShellReturnsAssumption == ShellReturns \in BOOLEAN

Tid == 0 .. NTasks - 1
Idle == 0
Shell == 1

NULL == -1          \* the null task pointer
BootStack == -1     \* tss.esp0 as gdt_init leaves it: no task's stack

Kernel == 0         \* task_t.privilege of create_task ...
User == 3           \* ... and of create_user_task

TaskState == {"NEW", "READY", "RUNNING", "BLOCKED", "TERMINATED"}

VARIABLES
  n_tasks,       \* tasks created so far
  state,         \* tasks[t].state
  next,          \* tasks[t].next, the circular list
  privilege,     \* tasks[t].privilege
  current_task,  \* the task that owns the processor, NULL until kmain ends
  esp0,          \* the task on whose kernel stack ring 3 is interrupted
  in_schedule,   \* the processor is in schedule(), interrupts disabled
  next_task,     \* the local variable of schedule(), NULL outside it
  ending         \* progress of the shell in end_task

vars == <<n_tasks, state, next, privilege, current_task, esp0,
          in_schedule, next_task, ending>>

(* tasks[] is in .bss: all zero, and zero is NEW in the enumeration.       *)
Init ==
  /\ n_tasks = 0
  /\ state = [t \in Tid |-> "NEW"]
  /\ next = [t \in Tid |-> NULL]
  /\ privilege = [t \in Tid |-> Kernel]
  /\ current_task = NULL
  /\ esp0 = BootStack
  /\ in_schedule = FALSE
  /\ next_task = NULL
  /\ ending = "no"

-----------------------------------------------------------------------------
(* Start-up: kmain                                                         *)

(* Variant: the new task links to the one to come, the last to none.       *)
add_task_links_forward(t) ==
  next' = IF t > 0 THEN [next EXCEPT ![t - 1] = t, ![t] = t + 1]
                   ELSE [next EXCEPT ![t] = t]

add_task(t) ==
  next' = IF t > 0 THEN [next EXCEPT ![t - 1] = t, ![t] = 0]
                   ELSE [next EXCEPT ![t] = t]

NewTask(p) ==
  /\ current_task = NULL
  /\ n_tasks < NTasks
  /\ n_tasks' = n_tasks + 1
  /\ state' = [state EXCEPT ![n_tasks] = "NEW"]
  /\ privilege' = [privilege EXCEPT ![n_tasks] = p]
  /\ add_task(n_tasks)
  /\ UNCHANGED <<current_task, esp0, in_schedule, next_task, ending>>

(* kmain creates the idle task and the shell in ring 0, ...                *)
create_task == n_tasks \in {Idle, Shell} /\ NewTask(Kernel)

(* ... then the user tasks.                                                *)
create_user_task == n_tasks \notin {Idle, Shell} /\ NewTask(User)

(* The end of kmain: the idle task is entered as task 0.                   *)
StartFirstTask ==
  /\ current_task = NULL
  /\ n_tasks = NTasks
  /\ current_task' = Idle
  /\ esp0' = Idle
  /\ state' = [state EXCEPT ![Idle] = "RUNNING"]
  /\ UNCHANGED <<n_tasks, next, privilege, in_schedule, next_task, ending>>

-----------------------------------------------------------------------------
(* The timer interrupt and schedule(READY)                                 *)

(* A task is executing and interrupts are enabled.                         *)
Interruptible == current_task # NULL /\ ~in_schedule

TimerInterrupt ==
  /\ Interruptible
  /\ in_schedule' = TRUE
  /\ next_task' = current_task
  /\ UNCHANGED <<n_tasks, state, next, privilege, current_task, esp0, ending>>

Runnable(s) == s \in {"READY", "NEW"}

(* Variant: a BLOCKED or TERMINATED task keeps its state.                  *)
SwitchToKeepsState(t) ==
  /\ in_schedule' = FALSE
  /\ next_task' = NULL
  /\ IF t = current_task
     THEN UNCHANGED <<state, current_task, esp0>>
     ELSE /\ state' = [u \in Tid |->
                         CASE u = t -> "RUNNING"
                           [] u = current_task /\ state[u] = "RUNNING" -> "READY"
                           [] OTHER -> state[u]]
          /\ current_task' = t
          /\ esp0' = t

(* Variant: without tss_set_kernel_stack.                                  *)
SwitchToOldStack(t) ==
  /\ in_schedule' = FALSE
  /\ next_task' = NULL
  /\ IF t = current_task
     THEN UNCHANGED <<state, current_task, esp0>>
     ELSE /\ state' = [state EXCEPT ![current_task] = "READY", ![t] = "RUNNING"]
          /\ current_task' = t
          /\ UNCHANGED esp0

(* The statements of schedule() after the loop, and the return from the    *)
(* interrupt.  The state it was called with, READY, overwrites whatever    *)
(* state the old task is in.                                               *)
SwitchTo(t) ==
  /\ in_schedule' = FALSE
  /\ next_task' = NULL
  /\ IF t = current_task
     THEN UNCHANGED <<state, current_task, esp0>>
     ELSE /\ state' = [state EXCEPT ![current_task] = "READY", ![t] = "RUNNING"]
          /\ current_task' = t
          /\ esp0' = t

(* One iteration of the do-while loop.  After a null link the loop reads   *)
(* low memory as if it were a task: anything may follow, and the model     *)
(* stops there with next_task = NULL.                                      *)
ScheduleStep ==
  /\ in_schedule
  /\ next_task # NULL
  /\ LET t == next[next_task]
     IN IF t # NULL /\ Runnable(state[t])
        THEN SwitchTo(t)
        ELSE /\ next_task' = t
             /\ UNCHANGED <<state, current_task, esp0, in_schedule>>
  /\ UNCHANGED <<n_tasks, next, privilege, ending>>

-----------------------------------------------------------------------------
(* Calls made by, or for, the shell                                        *)

set_task_state(t, s) ==
  /\ state' = [state EXCEPT ![t] = s]
  /\ UNCHANGED <<n_tasks, next, privilege, current_task, esp0,
                 in_schedule, next_task, ending>>

ShellExecuting == Interruptible /\ current_task = Shell

(* wait_event, in the shell.                                               *)
BlockSelf ==
  /\ ShellExecuting
  /\ ending = "no"
  /\ set_task_state(Shell, "BLOCKED")

(* set_event, in an interrupt that arrives in any task.                    *)
Wake == Interruptible /\ set_task_state(Shell, "READY")

(* end_task, where the shell's entry function returns to.                  *)
EndTaskMark ==
  /\ ShellReturns
  /\ ShellExecuting
  /\ ending = "no"
  /\ state' = [state EXCEPT ![Shell] = "TERMINATED"]
  /\ ending' = "marked"
  /\ UNCHANGED <<n_tasks, next, privilege, current_task, esp0,
                 in_schedule, next_task>>

(* Variant: the predecessor is linked back to the head of the list.        *)
EndTaskUnlinkToHead ==
  /\ ShellExecuting
  /\ ending = "marked"
  /\ \E prev \in Tid :
       /\ next[prev] = Shell
       /\ next' = [next EXCEPT ![prev] = Idle]
  /\ ending' = "unlinked"
  /\ UNCHANGED <<n_tasks, state, privilege, current_task, esp0,
                 in_schedule, next_task>>

(* Variant: the predecessor is found and left as it is.                    *)
EndTaskUnlinkNothing ==
  /\ ShellExecuting
  /\ ending = "marked"
  /\ ending' = "unlinked"
  /\ UNCHANGED <<n_tasks, state, next, privilege, current_task, esp0,
                 in_schedule, next_task>>

(* remove_task: the search for the predecessor reads only links, which no  *)
(* other code writes, so it is one step with the store that follows it.    *)
EndTaskUnlink ==
  /\ ShellExecuting
  /\ ending = "marked"
  /\ \E prev \in Tid :
       /\ next[prev] = Shell
       /\ next' = [next EXCEPT ![prev] = next[Shell]]
  /\ ending' = "unlinked"
  /\ UNCHANGED <<n_tasks, state, privilege, current_task, esp0,
                 in_schedule, next_task>>

EndTaskClear ==
  /\ ShellExecuting
  /\ ending = "unlinked"
  /\ next' = [next EXCEPT ![Shell] = NULL]
  /\ ending' = "cleared"
  /\ UNCHANGED <<n_tasks, state, privilege, current_task, esp0,
                 in_schedule, next_task>>

-----------------------------------------------------------------------------

Boot == create_task \/ create_user_task \/ StartFirstTask

end_task == EndTaskMark \/ EndTaskUnlink \/ EndTaskClear

Next ==
  \/ Boot
  \/ TimerInterrupt
  \/ ScheduleStep
  \/ BlockSelf
  \/ Wake
  \/ end_task

Spec == Init /\ [][Next]_vars

(* kmain and schedule() run without interruption, and the PIT raises its   *)
(* interrupt for ever.                                                     *)
Fairness ==
  /\ WF_vars(Boot)
  /\ WF_vars(TimerInterrupt)
  /\ WF_vars(ScheduleStep)

FairSpec == Spec /\ Fairness

-----------------------------------------------------------------------------
(* Properties                                                              *)

TypeOK ==
  /\ n_tasks \in 0 .. NTasks
  /\ state \in [Tid -> TaskState]
  /\ next \in [Tid -> Tid \cup {NULL}]
  /\ privilege \in [Tid -> {Kernel, User}]
  /\ current_task \in Tid \cup {NULL}
  /\ esp0 \in Tid \cup {BootStack}
  /\ in_schedule \in BOOLEAN
  /\ next_task \in Tid \cup {NULL}
  /\ ending \in {"no", "marked", "unlinked", "cleared"}

(* Every task that does not own the processor can be picked by schedule(). *)
(* No task is BLOCKED or TERMINATED once it has been switched away from,   *)
(* and no second task is RUNNING, whatever the event code and end_task did *)
(* in between: the scheduler's loop has something to find.                 *)
OthersRunnable ==
  \A t \in Tid : t # current_task => Runnable(state[t])

(* An interrupt in ring 3 pushes its frame on the kernel stack named by    *)
(* the TSS: it must be the stack of the task that is running, or the frame *)
(* lands on another task's saved registers.                                *)
StackFollowsTask == current_task # NULL => esp0 = current_task

(* The list that schedule() walks is the ring of all the tasks in creation *)
(* order, from which end_task takes out the shell and nothing else.        *)
Unlinked == ending \in {"unlinked", "cleared"}

Following(t) == IF t = NTasks - 1 THEN 0 ELSE t + 1

RingSuccessor(t) ==
  LET s == Following(t)
  IN IF Unlinked /\ s = Shell THEN Following(Shell) ELSE s

RingIntact ==
  current_task # NULL =>
    \A t \in Tid : (Unlinked => t # Shell) => next[t] = RingSuccessor(t)

(* A task that end_task has unlinked is never given the processor again.   *)
UnlinkedNeverResumed ==
  [][Unlinked /\ current_task # Shell => current_task' # Shell]_vars

(* The abstract scheduler, whose turn is the task that owns the processor. *)
RR == INSTANCE RoundRobin
        WITH turn <- IF current_task = NULL THEN Idle ELSE current_task,
             gone <- IF Unlinked THEN {Shell} ELSE {}

(* README.md:10, "Preemptive multitasking with round-robin scheduling": no *)
(* task is passed over or gets two turns in a round, whatever the events   *)
(* do to its state.  It holds across end_task, too: if the shell is        *)
(* preempted in remove_task just before its own link is cleared, it is     *)
(* gone for good and the turn goes round the others for ever.              *)
RoundRobinOrder == RR!Spec

(* task.c:72-73, in end_task: "Yield the CPU forever; the scheduler        *)
(* (called from timer interrupt) will switch to another task."  It cannot  *)
(* if the list leads it to a null pointer.                                 *)
SchedulerStaysOnList == in_schedule => next_task # NULL
=============================================================================
