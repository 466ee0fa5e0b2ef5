--------------------------- MODULE SchedulerProofs --------------------------
(***************************************************************************)
(* Theorems about module Scheduler, for any number of tasks from two up to *)
(* the number of stacks.                                                   *)
(*                                                                         *)
(* Every invariant follows from IInv, which adds four facts to the         *)
(* properties themselves: what the list looks like while kmain is building *)
(* it (BootList), where the link of the shell leads once no other leads to *)
(* the shell (ShellLink), that the scheduler runs only after kmain has     *)
(* finished (Started), and that the loop of schedule() is never further on *)
(* than its first iteration unless the list has led it astray (Walk): the  *)
(* first task it looks at is always runnable, because OthersRunnable holds.*)
(***************************************************************************)
EXTENDS Scheduler, TLAPS

Started ==
  /\ current_task = NULL => ~in_schedule /\ next_task = NULL /\ ending = "no"
  /\ current_task # NULL => n_tasks = NTasks
  /\ ~ShellReturns => ending = "no"

BootList ==
  current_task = NULL =>
    \A t \in 0 .. n_tasks - 1 :
      next[t] = IF t = n_tasks - 1 THEN Idle ELSE t + 1

Walk == in_schedule => next_task \in {current_task, NULL}

(* The link of the shell itself, once nobody links to it.                  *)
ShellLink ==
  /\ ending = "unlinked" => next[Shell] = Following(Shell)
  /\ ending = "cleared" => next[Shell] = NULL

IInv ==
  /\ TypeOK
  /\ OthersRunnable
  /\ StackFollowsTask
  /\ Started
  /\ BootList
  /\ RingIntact
  /\ ShellLink
  /\ Walk

USE NTasksAssumption, ShellReturnsAssumption
    DEF MaxStacks, Tid, Idle, Shell, NULL, BootStack

-----------------------------------------------------------------------------
(* Facts about the ring                                                    *)

(* The ring's successor of a task is another task, and only the idle task  *)
(* has the shell for its successor.                                        *)
LEMMA SuccessorFacts ==
  ASSUME NEW t \in Tid
  PROVE  /\ Following(t) \in Tid
         /\ Following(t) # t
         /\ Following(t) = Shell <=> t = Idle
BY DEF Following

(* With the shell out of the list nobody else's link leads to it.          *)
LEMMA RingSuccessorFacts ==
  ASSUME NEW t \in Tid
  PROVE  /\ RingSuccessor(t) \in Tid
         /\ ~Unlinked => RingSuccessor(t) = Following(t)
         /\ Unlinked => RingSuccessor(t) # Shell
BY SuccessorFacts DEF RingSuccessor

-----------------------------------------------------------------------------
(* IInv is an invariant                                                    *)

LEMMA InitIInv == Init => IInv
<1> SUFFICES ASSUME Init
             PROVE  IInv
  OBVIOUS
<1> USE DEF Init
<1>1. TypeOK
  <2>1. state \in [Tid -> TaskState] /\ ending \in {"no", "marked", "unlinked", "cleared"}
    BY DEF TaskState
  <2>2. next \in [Tid -> Tid \cup {NULL}] /\ privilege \in [Tid -> {Kernel, User}]
    OBVIOUS
  <2>3. n_tasks \in 0 .. NTasks /\ next_task \in Tid \cup {NULL}
    OBVIOUS
  <2>4. current_task \in Tid \cup {NULL} /\ esp0 \in Tid \cup {BootStack}
    OBVIOUS
  <2>5. in_schedule \in BOOLEAN
    OBVIOUS
  <2> QED
    BY <2>1, <2>2, <2>3, <2>4, <2>5 DEF TypeOK
<1>2. OthersRunnable
  BY DEF OthersRunnable, Runnable
<1>3. StackFollowsTask /\ Started /\ BootList /\ RingIntact /\ ShellLink /\ Walk
  BY DEF StackFollowsTask, Started, BootList, RingIntact, ShellLink, Walk
<1> QED
  BY <1>1, <1>2, <1>3 DEF IInv

LEMMA NewTaskIInv ==
  ASSUME IInv, NEW p \in {Kernel, User}, NewTask(p)
  PROVE  IInv'
<1> USE DEF IInv, NewTask
<1>1. n_tasks \in Tid
  BY DEF TypeOK
<1>2. TypeOK'
  BY <1>1, SMTT(60) DEF TypeOK, add_task, TaskState
<1>3. OthersRunnable'
  BY <1>1 DEF TypeOK, OthersRunnable, Runnable
<1>4. BootList'
  BY <1>1 DEF TypeOK, BootList, add_task
<1>5. (StackFollowsTask /\ Started /\ RingIntact /\ ShellLink /\ Walk)'
  BY DEF StackFollowsTask, Started, RingIntact, ShellLink, Walk
<1> QED
  BY <1>2, <1>3, <1>4, <1>5

LEMMA StartFirstTaskIInv ==
  ASSUME IInv, StartFirstTask
  PROVE  IInv'
<1> USE DEF IInv, StartFirstTask
<1>1. TypeOK'
  BY DEF TypeOK, TaskState
<1>2. OthersRunnable'
  BY DEF TypeOK, OthersRunnable, Runnable
<1>3. RingIntact'
  BY DEF RingIntact, Started, BootList, Unlinked, RingSuccessor, Following
<1>4. (StackFollowsTask /\ Started /\ BootList /\ ShellLink /\ Walk)'
  BY DEF StackFollowsTask, Started, BootList, ShellLink, Walk
<1> QED
  BY <1>1, <1>2, <1>3, <1>4

LEMMA TimerInterruptIInv ==
  ASSUME IInv, TimerInterrupt
  PROVE  IInv'
BY DEF IInv, TimerInterrupt, Interruptible, TypeOK, OthersRunnable, Runnable,
       StackFollowsTask, Started, BootList, RingIntact, Unlinked,
       RingSuccessor, ShellLink, Walk

LEMMA ScheduleStepIInv ==
  ASSUME IInv, ScheduleStep
  PROVE  IInv'
<1> DEFINE t == next[next_task]
<1> USE DEF IInv, ScheduleStep
<1>1. current_task \in Tid /\ next_task = current_task /\ in_schedule
  BY DEF TypeOK, Started, Walk
<1>2. t \in Tid \cup {NULL}
  BY <1>1 DEF TypeOK
<1>3. (RingIntact /\ ShellLink /\ BootList)'
  BY <1>1, <1>2
  DEF RingIntact, ShellLink, BootList, Unlinked, RingSuccessor, SwitchTo
<1>4. CASE t # NULL /\ Runnable(state[t]) /\ t # current_task
  <2>1. /\ state' = [state EXCEPT ![current_task] = "READY", ![t] = "RUNNING"]
        /\ current_task' = t
        /\ esp0' = t
        /\ in_schedule' = FALSE
        /\ next_task' = NULL
    BY <1>4 DEF SwitchTo
  <2>2. TypeOK'
    BY <1>1, <1>2, <1>4, <2>1 DEF TypeOK, TaskState
  <2>3. OthersRunnable'
    BY <1>1, <1>2, <1>4, <2>1 DEF TypeOK, OthersRunnable, Runnable
  <2>4. (StackFollowsTask /\ Started /\ Walk)'
    BY <1>1, <1>2, <1>4, <2>1 DEF StackFollowsTask, Started, Walk
  <2> QED
    BY <1>3, <2>2, <2>3, <2>4
<1>5. CASE t # NULL /\ Runnable(state[t]) /\ t = current_task
  BY <1>1, <1>2, <1>3, <1>5
  DEF SwitchTo, TypeOK, OthersRunnable, Runnable, StackFollowsTask, Started, Walk
<1>6. CASE ~(t # NULL /\ Runnable(state[t]))
  <2>1. t \in {current_task, NULL}
    BY <1>1, <1>2, <1>6 DEF OthersRunnable
  <2>2. UNCHANGED <<state, current_task, esp0, in_schedule>> /\ next_task' = t
    BY <1>6
  <2> QED
    BY <1>1, <1>2, <1>3, <2>1, <2>2
    DEF TypeOK, OthersRunnable, Runnable, StackFollowsTask, Started, Walk
<1> QED
  BY <1>4, <1>5, <1>6

(* set_task_state preserves the invariant when it makes a task READY, and  *)
(* whatever it writes when the task is the current one.                    *)
LEMMA SetTaskStateIInv ==
  ASSUME IInv, NEW t \in Tid, NEW s \in TaskState, set_task_state(t, s),
         s = "READY" \/ t = current_task
  PROVE  IInv'
<1> USE DEF IInv, set_task_state
<1>1. (TypeOK /\ OthersRunnable)'
  BY DEF TypeOK, OthersRunnable, Runnable
<1>2. (StackFollowsTask /\ Started /\ BootList /\ RingIntact /\ ShellLink /\ Walk)'
  BY DEF StackFollowsTask, Started, BootList, RingIntact, Unlinked,
         RingSuccessor, ShellLink, Walk
<1> QED
  BY <1>1, <1>2

LEMMA EndTaskIInv ==
  ASSUME IInv, end_task
  PROVE  IInv'
<1> USE DEF IInv, ShellExecuting, Interruptible
<1>1. CASE EndTaskMark
  <2>1. (TypeOK /\ OthersRunnable)'
    BY <1>1 DEF EndTaskMark, TypeOK, TaskState, OthersRunnable, Runnable
  <2>2. (StackFollowsTask /\ Started /\ BootList /\ RingIntact /\ ShellLink /\ Walk)'
    BY <1>1 DEF EndTaskMark, StackFollowsTask, Started, BootList, RingIntact,
                Unlinked, RingSuccessor, ShellLink, Walk
  <2> QED
    BY <2>1, <2>2
<1>2. CASE EndTaskUnlink
  <2> USE <1>2 DEF EndTaskUnlink
  <2>1. PICK prev \in Tid : /\ next[prev] = Shell
                            /\ next' = [next EXCEPT ![prev] = next[Shell]]
    OBVIOUS
  <2>2. \A t \in Tid : next[t] = Following(t)
    BY RingSuccessorFacts DEF RingIntact, Unlinked
  <2>3. prev = Idle /\ next[Shell] = Following(Shell)
    BY <2>1, <2>2, SuccessorFacts
  <2>4. TypeOK'
    BY <2>1 DEF TypeOK
  <2>5. RingIntact'
    <3> SUFFICES ASSUME NEW t \in Tid, t # Shell
                 PROVE  next'[t] = RingSuccessor(t)'
      BY DEF RingIntact, Unlinked
    <3>1. RingSuccessor(t)' = IF Following(t) = Shell
                              THEN Following(Shell) ELSE Following(t)
      BY DEF RingSuccessor, Unlinked, Following
    <3> QED
      BY <2>1, <2>2, <2>3, <3>1, SuccessorFacts DEF TypeOK
  <2>6. ShellLink'
    BY <2>1, <2>3 DEF ShellLink, TypeOK
  <2>7. (OthersRunnable /\ StackFollowsTask /\ Started /\ BootList /\ Walk)'
    BY DEF OthersRunnable, Runnable, StackFollowsTask, Started, BootList, Walk
  <2> QED
    BY <2>4, <2>5, <2>6, <2>7
<1>3. CASE EndTaskClear
  <2> USE <1>3 DEF EndTaskClear
  <2>1. TypeOK'
    BY DEF TypeOK
  <2>2. (RingIntact /\ ShellLink)'
    BY DEF RingIntact, ShellLink, Unlinked, RingSuccessor, TypeOK
  <2>3. (OthersRunnable /\ StackFollowsTask /\ Started /\ BootList /\ Walk)'
    BY DEF OthersRunnable, Runnable, StackFollowsTask, Started, BootList, Walk
  <2> QED
    BY <2>1, <2>2, <2>3
<1> QED
  BY <1>1, <1>2, <1>3 DEF end_task

LEMMA StutterIInv == IInv /\ UNCHANGED vars => IInv'
BY DEF IInv, vars, TypeOK, OthersRunnable, Runnable, StackFollowsTask, Started,
       BootList, RingIntact, Unlinked, RingSuccessor, ShellLink, Walk

LEMMA NextIInv == IInv /\ [Next]_vars => IInv'
<1> SUFFICES ASSUME IInv, [Next]_vars
             PROVE  IInv'
  OBVIOUS
<1>1. CASE create_task
  BY <1>1, NewTaskIInv DEF create_task
<1>2. CASE create_user_task
  BY <1>2, NewTaskIInv DEF create_user_task
<1>3. CASE StartFirstTask
  BY <1>3, StartFirstTaskIInv
<1>4. CASE TimerInterrupt
  BY <1>4, TimerInterruptIInv
<1>5. CASE ScheduleStep
  BY <1>5, ScheduleStepIInv
<1>6. CASE BlockSelf
  BY <1>6, SetTaskStateIInv DEF BlockSelf, ShellExecuting, TaskState
<1>7. CASE Wake
  BY <1>7, SetTaskStateIInv DEF Wake, TaskState
<1>8. CASE end_task
  BY <1>8, EndTaskIInv
<1>9. CASE UNCHANGED vars
  BY <1>9, StutterIInv
<1> QED
  BY <1>1, <1>2, <1>3, <1>4, <1>5, <1>6, <1>7, <1>8, <1>9 DEF Next, Boot

LEMMA Invariance == Spec => []IInv
BY InitIInv, NextIInv, PTL DEF Spec

-----------------------------------------------------------------------------
(* What the invariant says                                                 *)

(* The task table, its links and the scheduler's locals stay well typed.   *)
THEOREM TypeCorrect == Spec => []TypeOK
<1>1. IInv => TypeOK
  BY DEF IInv
<1> QED
  BY <1>1, Invariance, PTL

(* No task that has been switched away from is ever BLOCKED, TERMINATED or *)
(* still RUNNING: schedule() always has a task to pick.                    *)
THEOREM OthersAreRunnable == Spec => []OthersRunnable
<1>1. IInv => OthersRunnable
  BY DEF IInv
<1> QED
  BY <1>1, Invariance, PTL

(* The TSS always names the kernel stack of the task that is running.      *)
THEOREM StackIsCurrent == Spec => []StackFollowsTask
<1>1. IInv => StackFollowsTask
  BY DEF IInv
<1> QED
  BY <1>1, Invariance, PTL

(* The list of tasks is the ring kmain built, less the shell once it has   *)
(* ended.                                                                  *)
THEOREM ListIsRing == Spec => []RingIntact
<1>1. IInv => RingIntact
  BY DEF IInv
<1> QED
  BY <1>1, Invariance, PTL

(* A task that end_task has taken out of the list, and that has lost the   *)
(* processor, never gets it back.                                          *)
THEOREM EndedTaskStaysOut == Spec => UnlinkedNeverResumed
<1>1. IInv /\ [Next]_vars =>
        [Unlinked /\ current_task # Shell => current_task' # Shell]_vars
  <2> SUFFICES ASSUME IInv, Next, Unlinked, current_task # Shell,
                      current_task' # current_task
               PROVE  current_task' # Shell
    BY DEF vars
  <2>1. current_task # NULL
    BY DEF IInv, Started, Unlinked
  <2>2. ScheduleStep
    BY <2>1 DEF Next, Boot, create_task, create_user_task, NewTask,
                StartFirstTask, TimerInterrupt, BlockSelf, Wake, set_task_state,
                end_task, EndTaskMark, EndTaskUnlink, EndTaskClear
  <2>3. /\ next_task = current_task
        /\ current_task \in Tid
        /\ next[current_task] = RingSuccessor(current_task)
    BY <2>1, <2>2 DEF ScheduleStep, IInv, Walk, TypeOK, RingIntact
  <2>4. current_task' = next[current_task]
    BY <2>2, <2>3 DEF ScheduleStep, SwitchTo
  <2> QED
    BY <2>3, <2>4, RingSuccessorFacts
<1> QED
  BY <1>1, Invariance, PTL DEF Spec, UnlinkedNeverResumed

(* schedule() passes the processor from each task to the next one created  *)
(* that has not been unlinked, never skipping a task and never finding the *)
(* end of the list while such a task has the turn; end_task takes a task   *)
(* out of the round.  The detailed scheduler implements the abstract one.  *)
THEOREM ImplementsRoundRobin == Spec => RR!Safety
<1> DEFINE turn == IF current_task = NULL THEN Idle ELSE current_task
           gone == IF Unlinked THEN {Shell} ELSE {}
<1>1. Init => RR!Init
  BY DEF Init, RR!Init, Unlinked
<1>2. IInv /\ [Next]_vars => [RR!Pass \/ RR!Leave]_<<turn, gone>>
  <2> SUFFICES ASSUME IInv, Next, <<turn, gone>>' # <<turn, gone>>
               PROVE  RR!Pass \/ RR!Leave
    BY DEF vars, Unlinked
  <2> HIDE DEF turn, gone
  <2>1. CASE Boot
    BY <2>1 DEF Boot, create_task, create_user_task, NewTask, StartFirstTask,
                Unlinked, turn, gone
  <2>2. CASE TimerInterrupt \/ BlockSelf \/ Wake
    BY <2>2 DEF TimerInterrupt, BlockSelf, Wake, set_task_state, Unlinked,
                turn, gone
  <2>3. CASE end_task
    <3>1. current_task = Shell /\ UNCHANGED current_task
      BY <2>3 DEF end_task, EndTaskMark, EndTaskUnlink, EndTaskClear,
                  ShellExecuting
    <3>2. gone' \in {gone, {Shell}} /\ gone \in {{}, {Shell}}
      BY <2>3 DEF end_task, EndTaskMark, EndTaskUnlink, EndTaskClear,
                  Unlinked, gone
    <3>3. turn = Shell /\ turn' = turn
      BY <3>1 DEF turn
    <3>4. gone' = gone \cup {turn}
      BY <3>2, <3>3
    <3> QED
      BY <3>3, <3>4 DEF RR!Leave, turn, gone
  <2>4. CASE ScheduleStep
    <3>1. /\ current_task \in Tid
          /\ next_task = current_task
      BY <2>4 DEF ScheduleStep, IInv, Walk, TypeOK, Started
    <3>2. Unlinked' = Unlinked
      BY <2>4 DEF ScheduleStep, Unlinked
    <3>3. current_task' # current_task
      BY <3>1, <3>2 DEF turn, gone
    <3>4. /\ current_task' = next[current_task]
          /\ current_task' # NULL
      BY <2>4, <3>1, <3>3 DEF ScheduleStep, SwitchTo
    <3>5. /\ next[current_task] = RingSuccessor(current_task)
          /\ next[current_task] \in RR!Task \ gone
      BY <3>1, <3>4, RingSuccessorFacts
      DEF IInv, Started, RingIntact, ShellLink, TypeOK, Unlinked,
          RingSuccessor, RR!Task, gone
    <3>6. \A t \in RR!Task \ gone :
            RR!Distance(current_task, RingSuccessor(current_task))
              <= RR!Distance(current_task, t)
      BY <3>1 DEF RingSuccessor, Following, RR!Distance, RR!Task, gone
    <3> QED
      BY <3>1, <3>2, <3>4, <3>5, <3>6 DEF RR!Pass, turn, gone
  <2> QED
    BY <2>1, <2>2, <2>3, <2>4 DEF Next
<1> QED
  BY <1>1, <1>2, Invariance, PTL DEF Spec, RR!Safety
=============================================================================
