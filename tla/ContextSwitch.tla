----------------------------- MODULE ContextSwitch --------------------------
(***************************************************************************)
(* How a task is interrupted and resumed: the kernel stacks that           *)
(* create_task and create_user_task (task.c) build, resume_new_task        *)
(* (task_switch.asm), the stubs and isr_common (isr.asm), and the stack    *)
(* that the processor takes from the TSS (gdt.c).                          *)
(*                                                                         *)
(* A stack is the sequence of the words pushed on it.  A word is a tuple:  *)
(* <<name>>, or a stack pointer.  A register of a task that has run holds  *)
(* a value that no other register and no other task has, so that one       *)
(* restored from the wrong word shows.  Which task comes next is left      *)
(* open; module Scheduler says.                                            *)
(***************************************************************************)
EXTENDS Integers, Sequences

CONSTANTS
  KernelTasks,   \* created by create_task, by their names
  UserTasks,     \* created by create_user_task
  Idle,          \* the first to run
  MaxCalls,      \* how deep a task's function calls nest
  Exceptions     \* the exceptions that tasks may run into

Task == KernelTasks \cup UserTasks

ASSUME TasksAssumption ==
  /\ Idle \in KernelTasks
  /\ KernelTasks \cap UserTasks = {}
  /\ MaxCalls \in Nat
  /\ Exceptions \subseteq (0 .. 14 \cup 16 .. 20)

General == <<"eax", "ecx", "edx", "ebx", "esp", "ebp", "esi", "edi">>
Segment == <<"ds", "es", "fs", "gs">>
GeneralRegister == {"eax", "ecx", "edx", "ebx", "ebp", "esi", "edi"}
DataSegment == {"ds", "es", "fs", "gs"}
Register == GeneralRegister \cup DataSegment \cup {"ss", "cs", "eip", "eflags"}

Zero == <<"0">>
KernelCode == <<"kernel code">>
KernelData == <<"kernel data">>
UserCode == <<"user code">>
UserData == <<"user data">>
Enabled == <<"IF set">>
Disabled == <<"IF clear">>
ErrorCode == <<"error code">>
Vector(v) == <<"vector", v>>

Timer == 32
Key == 33

(* A pointer into one of a task's two stacks that has n words on it.       *)
Pointer(kind, t, n) == <<kind, t, n>>
Depth(p) == p[3]
Up(p, n) == [p EXCEPT ![3] = @ + n]

VARIABLES
  mode,          \* "boot", "task", "handler", "return" or "halted"
  regs, esp,     \* of the processor
  stack,         \* the words on each task's kernel stack
  task_esp,      \* esp of each task_t
  current_task,
  esp0,          \* of the TSS
  vector,        \* of the interrupt being handled
  left           \* the context that each task has been left in

vars == <<mode, regs, esp, stack, task_esp, current_task, esp0, vector, left>>

Context == [regs |-> regs, esp |-> esp]

-----------------------------------------------------------------------------
(* The stacks that tasks start with                                        *)

KernelStack(t) == Pointer("kernel", t, 0)
UserStack(t) == Pointer("user", t, 0)

entry_point(t) == <<"entry point", t>>
end_task == <<"end_task">>

(* pusha's and the segments' words of a task that has not run.             *)
FreshRegisters(data) == [n \in 1 .. 8 |-> Zero] \o [n \in 1 .. 4 |-> data]

(* Variant: the argument on top of the return address.                     *)
create_task_swapped(t) ==
  <<end_task, <<t>>, Enabled, KernelCode, entry_point(t), Zero, Zero>>
    \o FreshRegisters(KernelData)

(* The entry point's argument and return address, then a frame as if an    *)
(* interrupt had come at its first instruction.                            *)
create_task(t) ==
  <<<<t>>, end_task, Enabled, KernelCode, entry_point(t), Zero, Zero>>
    \o FreshRegisters(KernelData)

create_user_task(t) ==
  <<UserData, UserStack(t), Enabled, UserCode, entry_point(t), Zero, Zero>>
    \o FreshRegisters(UserData)

(* What a task has to find when it starts.                                 *)
StartContext(t) ==
  LET kernel == t \in KernelTasks
      data == IF kernel THEN KernelData ELSE UserData
  IN [regs |-> [r \in Register |->
                  CASE r = "eip" -> entry_point(t)
                    [] r = "cs" -> IF kernel THEN KernelCode ELSE UserCode
                    [] r = "eflags" -> Enabled
                    [] r \in DataSegment \cup {"ss"} -> data
                    [] r \in GeneralRegister -> Zero],
      esp |-> IF kernel THEN Up(KernelStack(t), 2) ELSE UserStack(t)]

(* kmain has created the tasks and is about to call resume_new_task.       *)
Init ==
  /\ mode = "boot"
  /\ regs = [StartContext(Idle).regs EXCEPT !["eip"] = <<"kmain">>,
                                            !["eflags"] = Disabled]
  /\ esp = Pointer("boot", Idle, 0)
  /\ stack = [t \in Task |-> IF t \in KernelTasks THEN create_task(t)
                                                  ELSE create_user_task(t)]
  /\ task_esp = [t \in Task |-> Up(KernelStack(t), 19)]
  /\ current_task = Idle
  /\ esp0 = KernelStack(Idle)
  /\ vector = Timer
  /\ left = [t \in Task |-> StartContext(t)]

-----------------------------------------------------------------------------
(* The task                                                                *)

InUserMode == regs["cs"] = UserCode

(* A kernel stack cut off at the pointer, with words on top.               *)
Push(p, words) ==
  stack' = [stack EXCEPT ![p[2]] = SubSeq(@, 1, Depth(p)) \o words]

Compute(v) ==
  /\ mode = "task"
  /\ regs' = [r \in Register |->
                IF r \in GeneralRegister THEN <<current_task, r, v>> ELSE regs[r]]
  /\ UNCHANGED <<mode, esp, stack, task_esp, current_task, esp0, vector, left>>

Calls == Depth(esp) - IF InUserMode THEN 0 ELSE 2

(* What a task pushes on its user stack nobody else touches: only the      *)
(* stack pointer is kept.                                                  *)
Call ==
  /\ mode = "task"
  /\ regs["eip"] # end_task
  /\ Calls < MaxCalls
  /\ IF InUserMode THEN UNCHANGED stack ELSE Push(esp, <<regs["eip"]>>)
  /\ esp' = Up(esp, 1)
  /\ UNCHANGED <<mode, regs, task_esp, current_task, esp0, vector, left>>

(* The ret of a called function, or of the entry point of a kernel task.   *)
Ret ==
  /\ mode = "task"
  /\ regs["eip"] # end_task
  /\ Calls > 0 \/ ~InUserMode
  /\ esp' = Up(esp, -1)
  /\ IF InUserMode
     THEN UNCHANGED <<regs, stack>>
     ELSE /\ regs' = [regs EXCEPT !["eip"] = stack[current_task][Depth(esp)]]
          /\ Push(esp', <<>>)
  /\ UNCHANGED <<mode, task_esp, current_task, esp0, vector, left>>

-----------------------------------------------------------------------------
(* The interrupt                                                           *)

(* A change of ring changes the stack, and its pointer is pushed on it.    *)
(* Some exceptions have an error code.                                     *)
HasErrorCode(v) == v \in {8} \cup 10 .. 14 \cup {17}

PushedByProcessor(v) ==
  (IF InUserMode THEN <<regs["ss"], esp>> ELSE <<>>)
    \o <<regs["eflags"], regs["cs"], regs["eip"]>>
    \o (IF HasErrorCode(v) THEN <<ErrorCode>> ELSE <<>>)

(* Variant: the stub of the alignment check pushes a dummy.                *)
PushedByStub_dummy17(v) ==
  IF v \in {8} \cup 10 .. 14 THEN <<Vector(v)>> ELSE <<Zero, Vector(v)>>

(* The vector, and before it a dummy unless there is an error code.        *)
PushedByStub(v) ==
  IF v \in {8} \cup 10 .. 14 \cup {17} THEN <<Vector(v)>> ELSE <<Zero, Vector(v)>>

(* pusha and the data segments.                                            *)
PushedByCommon(before) ==
  [n \in 1 .. 8 |-> IF General[n] = "esp" THEN before ELSE regs[General[n]]]
    \o [n \in 1 .. 4 |-> regs[Segment[n]]]

(* Variant: one word off.                                                  *)
EspSlotAtEbp(top) == Depth(top) - 24 \div 4

(* mov [esp + 28], esp                                                     *)
EspSlot(top) == Depth(top) - 28 \div 4

(* From the interrupted instruction to the call of isr_handler.            *)
Enter(v) ==
  /\ mode = "task"
  /\ LET base == IF InUserMode THEN esp0 ELSE esp
         pushed == PushedByProcessor(v) \o PushedByStub(v)
         before == Up(base, Len(pushed))
         top == Up(before, 12)
         words == SubSeq(stack[base[2]], 1, Depth(base)) \o pushed
                    \o PushedByCommon(before)
     IN /\ stack' = [stack EXCEPT ![base[2]] = [words EXCEPT ![EspSlot(top)] = top]]
        /\ esp' = top
        /\ task_esp' = [task_esp EXCEPT ![current_task] = top]
  /\ regs' = [r \in Register |->
                CASE r \in DataSegment \cup {"ss"} -> KernelData
                  [] r = "cs" -> KernelCode
                  [] r = "eflags" -> Disabled
                  [] OTHER -> <<"handler's">>]
  /\ left' = [left EXCEPT ![current_task] = Context]
  /\ vector' = v
  /\ mode' = "handler"
  /\ UNCHANGED <<current_task, esp0>>

Interrupt(v) == regs["eflags"] = Enabled /\ Enter(v)

Exception(v) == Enter(v)

(* Variant: without tss_set_kernel_stack.                                  *)
SwitchToOldStack(t) == current_task' = t /\ UNCHANGED esp0

(* Variant: names the saved stack pointer, not the stack.                  *)
SwitchToSavedStack(t) == current_task' = t /\ esp0' = task_esp[t]

tss_set_kernel_stack(t) == esp0' = KernelStack(t)

(* schedule                                                                *)
SwitchTo(t) == current_task' = t /\ tss_set_kernel_stack(t)

(* Only the timer's handler calls schedule; handle_exception halts.        *)
isr_handler ==
  /\ mode = "handler"
  /\ mode' = IF vector < 32 THEN "halted" ELSE "return"
  /\ IF vector = Timer THEN \E t \in Task : SwitchTo(t)
                       ELSE UNCHANGED <<current_task, esp0>>
  /\ UNCHANGED <<regs, esp, stack, task_esp, vector, left>>

(* The word k places below the top of a saved stack: interrupt_frame_t has *)
(* the fields in this order.                                               *)
Frame(p, k) == stack[p[2]][Depth(p) - k]

(* popa passes over the word for esp.                                      *)
SegmentPlace == [r \in DataSegment |-> CHOOSE k \in 0 .. 3 : Segment[4 - k] = r]
GeneralPlace == [r \in GeneralRegister |-> 4 + CHOOSE k \in 0 .. 7 : General[8 - k] = r]

(* Pop the registers, drop the vector and the error code, iret; which      *)
(* takes two more words if it changes the ring.                            *)
SavedContext(saved) ==
  LET to_user == Frame(saved, 15) = UserCode
  IN [regs |-> [r \in Register |->
                  CASE r \in GeneralRegister -> Frame(saved, GeneralPlace[r])
                    [] r \in DataSegment -> Frame(saved, SegmentPlace[r])
                    [] r = "eip" -> Frame(saved, 14)
                    [] r = "cs" -> Frame(saved, 15)
                    [] r = "eflags" -> Frame(saved, 16)
                    [] r = "ss" -> IF to_user THEN Frame(saved, 18) ELSE KernelData],
      esp |-> IF to_user THEN Frame(saved, 17) ELSE Up(saved, -17)]

(* Load esp from the task and restore its context.                         *)
Resume ==
  LET saved == task_esp[current_task]
      to_user == Frame(saved, 15) = UserCode
  IN /\ regs' = SavedContext(saved).regs
     /\ esp' = SavedContext(saved).esp
     /\ Push(Up(saved, IF to_user THEN -19 ELSE -17), <<>>)
     /\ mode' = "task"
     /\ UNCHANGED <<task_esp, current_task, esp0, vector, left>>

isr_return == mode = "return" /\ Resume

resume_new_task == mode = "boot" /\ Resume

Next ==
  \/ resume_new_task
  \/ \E v \in {1, 2} : Compute(v)
  \/ Call
  \/ Ret
  \/ \E v \in {Timer, Key} : Interrupt(v)
  \/ \E v \in Exceptions : Exception(v)
  \/ isr_handler
  \/ isr_return

Spec == Init /\ [][Next]_vars

-----------------------------------------------------------------------------
(* Properties                                                              *)

Pointers(depths) ==
  {Pointer(kind, t, n) : kind \in {"boot", "kernel", "user"}, t \in Task, n \in depths}

TypeOK ==
  /\ mode \in {"boot", "task", "handler", "return", "halted"}
  /\ DOMAIN regs = Register
  /\ esp \in Pointers(0 .. MaxCalls + 21)
  /\ \A t \in Task : Len(stack[t]) <= MaxCalls + 21
  /\ task_esp \in [Task -> Pointers(17 .. MaxCalls + 21)]
  /\ current_task \in Task
  /\ esp0 \in Pointers({0})
  /\ vector \in Exceptions \cup {Timer, Key}

(* A task goes on with every register and its stack pointer as they were   *)
(* when it was interrupted, in its own ring with its own segments, however *)
(* many others have run; and starts as create_task meant it to.            *)
ResumesAsLeft ==
  [][mode # "task" /\ mode' = "task" => Context' = left[current_task]]_vars

(* A task's own steps, with the words that it has itself put on its kernel *)
(* stack: a computation, a call and a return.                              *)
OwnStep(t, c, d) ==
  LET kernel == t \in KernelTasks
      calls == Depth(c.esp) - IF kernel THEN 2 ELSE 0
      goes_on == c.regs["eip"] # end_task
  IN \/ \E v \in {1, 2} :
          d = [c EXCEPT !.regs = [r \in Register |->
                 IF r \in GeneralRegister THEN <<t, r, v>> ELSE c.regs[r]]]
     \/ /\ goes_on /\ calls < MaxCalls
        /\ d = [c EXCEPT !.esp = Up(@, 1),
                         !.words = IF kernel THEN Append(@, c.regs["eip"]) ELSE @]
     \/ /\ goes_on /\ (kernel \/ calls > 0)
        /\ d.esp = Up(c.esp, -1)
        /\ c.words = IF kernel THEN Append(d.words, d.regs["eip"]) ELSE d.words
        /\ d.regs = [c.regs EXCEPT !["eip"] = d.regs["eip"]]
        /\ ~kernel => d.regs = c.regs

(* The context of a task is in the processor while it runs and in its      *)
(* saved frame otherwise.                                                  *)
ContextOf(t) ==
  LET c == IF mode = "task" /\ t = current_task THEN Context
                                               ELSE SavedContext(task_esp[t])
  IN [regs |-> c.regs, esp |-> c.esp,
      words |-> IF t \in KernelTasks THEN SubSeq(stack[t], 1, Depth(c.esp))
                                     ELSE <<>>]

StartOf(t) ==
  [regs |-> StartContext(t).regs, esp |-> StartContext(t).esp,
   words |-> IF t \in KernelTasks THEN <<<<t>>, end_task>> ELSE <<>>]

(* The one processor implements OwnProcessors: whatever interrupts a task, *)
(* wherever it does and whoever runs in the meantime, the task's registers *)
(* and its words on the stack change by its own instructions only.         *)
Machines ==
  INSTANCE OwnProcessors
    WITH context <- [t \in Task |-> ContextOf(t)], Start <- StartOf, Step <- OwnStep
OwnProcessorSpec == Machines!Spec

(* The frame of a task that does not run lies on its own kernel stack, on  *)
(* top of nothing but the words it had there itself: no interrupt uses     *)
(* another task's stack, and frames do not pile up.                        *)
FrameOnOwnStack ==
  \A t \in Task :
    mode # "task" \/ t # current_task =>
      /\ task_esp[t] = IF t \in KernelTasks THEN Up(left[t].esp, 17)
                                            ELSE Up(KernelStack(t), 19)
      /\ Len(stack[t]) = Depth(task_esp[t])

(* The handler of an interrupt or an exception finds the vector and the    *)
(* interrupted instruction at their places in interrupt_frame_t, whether   *)
(* the processor has pushed an error code or not.                          *)
HandlerSeesFrame ==
  mode = "handler" =>
    /\ Frame(esp, 12) = Vector(vector)
    /\ Frame(esp, 14) = left[current_task].regs["eip"]

(* A kernel task that returns from its entry point goes to end_task, with  *)
(* the argument it was created with still in place, and from nowhere else. *)
EntryReturnsToEndTask ==
  \A t \in KernelTasks :
    LET now == IF mode = "task" /\ t = current_task THEN Context ELSE left[t]
    IN /\ Depth(now.esp) >= 1 /\ stack[t][1] = <<t>>
       /\ IF Depth(now.esp) = 1 THEN now.regs["eip"] = end_task
                                ELSE stack[t][2] = end_task
=============================================================================
