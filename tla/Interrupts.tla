------------------------------ MODULE Interrupts ----------------------------
(***************************************************************************)
(* From a device's interrupt line to its handler: the segments (gdt.c) and *)
(* gates (idt.c, exceptions.c) that kmain sets up, bit by bit as in module *)
(* Segments, the stubs of isr.asm, the two interrupt controllers as pic.c  *)
(* programs them, and handle_irq.                                          *)
(*                                                                         *)
(* Lines 0..7 belong to the first controller, 8..15 to the second, whose   *)
(* output is line 2 of the first.  The processor acknowledges a line with  *)
(* interrupts enabled; the gate disables them and the iret at the end of   *)
(* the stub restores them, so one interrupt is handled at a time.  Devices *)
(* raise their lines at any moment, before the kernel has set anything up  *)
(* and in the middle of a handler.                                         *)
(***************************************************************************)
EXTENDS Integers, FiniteSets, Segments

CONSTANTS
  Lines,         \* the lines that have a device which uses them
  StubBase,      \* where the linker puts the stubs,
  TssAddress     \* and the TSS

ASSUME LinesAssumption == Lines \subseteq 0 .. 15
ASSUME AddressAssumption == StubBase \in 0 .. 2 ^ 20 /\ TssAddress \in 0 .. 2 ^ 20

Line == 0 .. 15
Cascade == 2
Timer == 0
Keyboard == 1

Vector == 0 .. 47
Stub == 0 .. 14 \cup 16 .. 20 \cup 32 .. 47   \* isr00 to isr47; each pushes
                                             \* its own number
IrqBaseVector == 32

(* A stub pushes three or four numbers and jumps.                          *)
StubAddress(v) == StubBase + 16 * v

(* The selectors in the code: of the gates and of the frames that task.c   *)
(* and isr.asm prepare, and of the task register.                          *)
KernelCodeSelector == 8
KernelDataSelector == 16
UserCodeSelector == 24 + 3
UserDataSelector == 32 + 3
TssSelector == 5 * 8
TssSize == 104

NoGate == -1
NoHandler == "none"
Handler == {NoHandler, "timer", "keyboard"}

VARIABLES
  boot,        \* what kmain does next, "done" when tasks run
  gdt,         \* its descriptors
  idt,
  loaded,      \* what lgdt, lidt and ltr have loaded: two limits, a selector
  ss0,         \* of the TSS
  base,        \* the first vector of each controller
  masked,      \* the mask registers, as the set of lines masked
  requested,   \* lines raised and not yet acknowledged by the processor
  in_service,  \* lines acknowledged and not yet ended by an EOI
  handlers,    \* irq_handlers
  cpu          \* what the processor does: step, and for an interrupt the
               \* line it came from, its int_no and the handler it runs

segments == <<gdt, idt, loaded, ss0>>

vars == <<boot, segments, base, masked, requested, in_service, handlers, cpu>>

pic == <<base, masked, requested, in_service>>

InTask == [step |-> "task", line |-> Timer, int_no |-> 0, handler |-> NoHandler]

(* The firmware's controllers: its own vectors, any mask, any line raised. *)
Init ==
  /\ boot = "gdt_init"
  /\ gdt = [k \in 0 .. 15 |-> NoDescriptor]
  /\ idt = [v \in Vector |-> NoDescriptor]
  /\ loaded = [gdt |-> 0, idt |-> 0, tr |-> 0]
  /\ ss0 = 0
  /\ base = <<8, 112>>
  /\ masked \in {{}, Line}
  /\ requested \in SUBSET Lines
  /\ in_service = {}
  /\ handlers = [n \in Line |-> NoHandler]
  /\ cpu = InTask

-----------------------------------------------------------------------------
(* Start-up, with interrupts disabled                                      *)

(* Static, so zero but for what is assigned.                               *)
Descriptors ==
  [k \in 0 .. 15 |->
     CASE k = 1 -> set_code_seg(0, 2 ^ 20 - 1, 0)
       [] k = 2 -> set_data_seg(0, 2 ^ 20 - 1, 0)
       [] k = 3 -> set_code_seg(0, 2 ^ 20 - 1, 3)
       [] k = 4 -> set_data_seg(0, 2 ^ 20 - 1, 3)
       [] k = 5 -> set_tss_seg(TssAddress, TssSize - 1, 3)
       [] OTHER -> NoDescriptor]

GdtLimit == 8 * 6 - 1

(* The processor takes the task register's selector only if it is within   *)
(* the table and names a TSS that is not in use; otherwise it faults, with *)
(* no handler there yet.                                                   *)
gdt_init ==
  /\ boot = "gdt_init"
  /\ TssSelector + 7 <= GdtLimit
  /\ IsTss(Descriptors[IndexOf(TssSelector)], TssAvailable)
  /\ ss0' = KernelDataSelector
  /\ gdt' = [Descriptors EXCEPT ![IndexOf(TssSelector)][41] = 1]
  /\ loaded' = [loaded EXCEPT !.gdt = GdtLimit, !.tr = TssSelector]
  /\ boot' = "idt_init"
  /\ UNCHANGED <<idt, pic, handlers, cpu>>

idt_init ==
  /\ boot = "idt_init"
  /\ loaded' = [loaded EXCEPT !.idt = 8 * 256 - 1]
  /\ boot' = "exceptions_init"
  /\ UNCHANGED <<gdt, idt, ss0, pic, handlers, cpu>>

(* Variant: a loop over all vectors.                                       *)
StubForAll(v) == v

(* Vector 41 is set twice, and from there on each gate leads to the stub   *)
(* of the vector after it.                                                 *)
StubFor(v) ==
  CASE v \in 0 .. 14 \cup 16 .. 20 \cup 32 .. 40 -> v
    [] v \in 41 .. 46 -> v + 1
    [] OTHER -> NoGate

exceptions_init ==
  /\ boot = "exceptions_init"
  /\ idt' = [v \in Vector |-> IF StubFor(v) = NoGate THEN NoDescriptor
                               ELSE idt_set(StubAddress(StubFor(v)))]
  /\ boot' = "pic_init"
  /\ UNCHANGED <<gdt, loaded, ss0, pic, handlers, cpu>>

(* Variant: unmasks instead.                                               *)
irq_enable_all == masked' = {}

irq_disable_all == masked' = Line

(* remap_pic and irq_disable_all.  The first of the initialization words   *)
(* clears requests and masks.                                              *)
pic_init ==
  /\ boot = "pic_init"
  /\ base' = <<IrqBaseVector, IrqBaseVector + 8>>
  /\ requested' = {}
  /\ in_service' = {}
  /\ irq_disable_all
  /\ boot' = "pit_init"
  /\ UNCHANGED <<segments, handlers, cpu>>

(* Variant: the mask is written without having been read, so the           *)
(* controller's other lines are masked.                                    *)
irq_enable_without_read(n) ==
  masked' = (masked \cup {m \in Line : m < 8 <=> n < 8}) \ {n}

irq_enable(n) == masked' = masked \ {n}

irq_install(n, h) ==
  /\ handlers' = [handlers EXCEPT ![n] = h]
  /\ irq_enable(n)

pit_init ==
  /\ boot = "pit_init"
  /\ irq_install(Timer, "timer")
  /\ boot' = "keyboard_init"
  /\ UNCHANGED <<segments, base, requested, in_service, cpu>>

keyboard_init ==
  /\ boot = "keyboard_init"
  /\ irq_install(Keyboard, "keyboard")
  /\ boot' = "resume_new_task"
  /\ UNCHANGED <<segments, base, requested, in_service, cpu>>

(* The iret into the first task enables interrupts.                        *)
resume_new_task ==
  /\ boot = "resume_new_task"
  /\ boot' = "done"
  /\ UNCHANGED <<segments, pic, handlers, cpu>>

-----------------------------------------------------------------------------
(* The controllers                                                         *)

(* A tick is handled long before the next, 4 ms later (TIMER_HZ in pit.c). *)
Raise(n) ==
  /\ n = Timer => cpu.step = "task" \/ cpu.line # Timer
  /\ requested' = requested \cup {n}
  /\ UNCHANGED <<boot, segments, base, masked, in_service, handlers, cpu>>

(* Priorities: 0, 1, then the second controller's lines, then 3 to 7.      *)
Rank(n) == CASE n \in {0, 1} -> n [] n >= 8 -> n - 6 [] OTHER -> n + 7

(* A line gets through if it is not masked, nor its cascade, and nothing   *)
(* of its own or a higher priority is in service.                          *)
Deliverable(n) ==
  /\ n \in requested
  /\ n \notin masked
  /\ n >= 8 => Cascade \notin masked
  /\ \A m \in in_service : Rank(n) < Rank(m)

(* Where a vector leads: the number of the stub, if there is a gate.       *)
StubThrough(v) ==
  IF v \in Vector /\ 8 * v + 7 <= loaded.idt /\ IsInterruptGate(idt[v])
  THEN CHOOSE n \in Vector : StubAddress(n) = GateOffset(idt[v])
  ELSE NoGate

(* The second controller is told that it is on line 0 of the first (its    *)
(* ICW3 is 0x10, and only three bits count).  One that looks at it does    *)
(* not answer the processor, which then reads an idle bus.                 *)
SlaveIdentity == \h10 % 8
IdleBus == 255

VectorsOf(n) ==
  IF n < 8 THEN {base[1] + n}
  ELSE {base[2] + n - 8} \cup IF SlaveIdentity = Cascade THEN {} ELSE {IdleBus}

-----------------------------------------------------------------------------
(* An interrupt: gate, stub, isr_handler, handle_irq, handler, iret        *)

Acknowledge(n) ==
  /\ boot = "done"
  /\ cpu.step = "task"
  /\ Deliverable(n)
  /\ \A m \in Line : Deliverable(m) => Rank(n) <= Rank(m)
  /\ requested' = requested \ {n}
  /\ in_service' = in_service \cup {n} \cup (IF n >= 8 THEN {Cascade} ELSE {})
  /\ \E v \in VectorsOf(n) :
       LET stub == StubThrough(v)
       IN cpu' = [step |-> IF stub = NoGate THEN "fault" ELSE "isr_handler",
                  line |-> n, int_no |-> stub, handler |-> NoHandler]
  /\ UNCHANGED <<boot, segments, base, masked, handlers>>

(* A non-specific EOI ends the line of the highest priority in service in  *)
(* the controllers that get it; the first one always gets it.              *)
Ended(lines) == {n \in lines : \A m \in lines : Rank(n) <= Rank(m)}

(* Variant: the first controller gets no EOI for a vector of its own.      *)
irq_eoi_second_only(irq_no) ==
  in_service' = in_service
    \ IF irq_no >= 8 THEN Ended(in_service \cap 8 .. 15) ELSE {}

irq_eoi(irq_no) ==
  in_service' = in_service
    \ (Ended(in_service \cap 0 .. 7)
       \cup IF irq_no >= 8 THEN Ended(in_service \cap 8 .. 15) ELSE {})

handle_irq ==
  LET irq_no == cpu.int_no - IrqBaseVector
  IN /\ irq_eoi(irq_no)
     /\ cpu' = IF irq_no < 16 /\ handlers[irq_no] # NoHandler
               THEN [cpu EXCEPT !.step = "handler",
                                !.handler = handlers[irq_no]]
               ELSE [cpu EXCEPT !.step = "iret"]

(* Reports the exception and halts.                                        *)
handle_exception ==
  /\ cpu' = [cpu EXCEPT !.step = "halted"]
  /\ UNCHANGED in_service

isr_handler ==
  /\ cpu.step = "isr_handler"
  /\ IF cpu.int_no < 32 THEN handle_exception ELSE handle_irq
  /\ UNCHANGED <<boot, segments, base, masked, requested, handlers>>

HandlerReturns ==
  /\ cpu.step = "handler"
  /\ cpu' = [cpu EXCEPT !.step = "iret"]
  /\ UNCHANGED <<boot, segments, pic, handlers>>

isr_return ==
  /\ cpu.step = "iret"
  /\ cpu' = InTask
  /\ UNCHANGED <<boot, segments, pic, handlers>>

-----------------------------------------------------------------------------

Boot ==
  \/ gdt_init
  \/ idt_init
  \/ exceptions_init
  \/ pic_init
  \/ pit_init
  \/ keyboard_init
  \/ resume_new_task

Processor == isr_handler \/ HandlerReturns \/ isr_return

Next ==
  \/ Boot
  \/ Processor
  \/ \E n \in Line : Acknowledge(n)
  \/ \E n \in Lines : Raise(n)

Spec == Init /\ [][Next]_vars

(* kmain and the handlers run to completion, and the processor looks for a *)
(* request between any two instructions of a task.                         *)
FairSpec ==
  /\ Spec
  /\ WF_vars(Boot)
  /\ WF_vars(Processor)
  /\ \A n \in Lines : SF_vars(Acknowledge(n))

-----------------------------------------------------------------------------
(* Properties                                                              *)

TypeOK ==
  /\ boot \in {"gdt_init", "idt_init", "exceptions_init", "pic_init",
               "pit_init", "keyboard_init", "resume_new_task", "done"}
  /\ gdt \in [0 .. 15 -> [Bits -> {0, 1}]]
  /\ idt \in [Vector -> {idt_set(StubAddress(n)) : n \in Stub} \cup {NoDescriptor}]
  /\ loaded \in [gdt : Nat, idt : Nat, tr : {0, TssSelector}]
  /\ ss0 \in {0, KernelDataSelector}
  /\ base \in {<<8, 112>>, <<IrqBaseVector, IrqBaseVector + 8>>}
  /\ masked \in SUBSET Line
  /\ requested \in SUBSET Line
  /\ in_service \in SUBSET Line
  /\ handlers \in [Line -> Handler]
  /\ cpu \in [step : {"task", "isr_handler", "handler", "iret", "fault", "halted"},
              line : Line, int_no : Vector \cup {NoGate}, handler : Handler]

(* Every selector that the kernel, its gates and its tasks load names, in  *)
(* the bits as the processor reads them, the segment that it is meant to:  *)
(* all of memory, at the level of the code that uses it, for its purpose;  *)
(* the task register finds the TSS, and the TSS the kernel's stack         *)
(* segment; and a gate disables interrupts and leads to a stub.            *)
SegmentsAsMeant ==
  LET Descriptor(selector) == gdt[IndexOf(selector)]
      Selects(selector) ==
        /\ 8 * IndexOf(selector) + 7 <= loaded.gdt
        /\ IsFlat(Descriptor(selector))
        /\ Level(Descriptor(selector)) = LevelOf(selector)
  IN /\ boot # "gdt_init" =>
          /\ \A s \in {KernelCodeSelector, UserCodeSelector} :
               Selects(s) /\ IsCode(Descriptor(s))
          /\ \A s \in {KernelDataSelector, UserDataSelector, ss0} :
               Selects(s) /\ IsData(Descriptor(s))
          /\ IsTss(Descriptor(loaded.tr), TssBusy)
          /\ Base(Descriptor(loaded.tr)) = TssAddress
          /\ Limit(Descriptor(loaded.tr)) = TssSize - 1
     /\ \A v \in Vector :
          Present(idt[v]) =>
            /\ IsInterruptGate(idt[v])
            /\ GateSelector(idt[v]) = KernelCodeSelector
            /\ GateOffset(idt[v]) \in {StubAddress(n) : n \in Stub}

(* A line's handler runs for that line and for no other, whatever else is  *)
(* raised; a line without a handler, such as the drive's, never interrupts *)
(* and nothing that comes before start-up is over runs into a missing gate.*)
OwnHandler ==
  cpu.step # "task" =>
    /\ cpu.step \notin {"fault", "halted"}
    /\ cpu.line \in {Timer, Keyboard}
    /\ cpu.step = "handler" =>
         cpu.handler = IF cpu.line = Timer THEN "timer" ELSE "keyboard"

(* While task code runs no line is in service: handle_irq has acknowledged *)
(* every interrupt to the controllers before its return, so none of them   *)
(* holds back the next.                                                    *)
NothingLeftInService == cpu.step = "task" => in_service = {}

(* A tick or a key that is raised once the kernel runs is handled.         *)
RaisedIsServed ==
  /\ boot = "done" /\ Timer \in requested ~>
       cpu.step = "handler" /\ cpu.handler = "timer"
  /\ boot = "done" /\ Keyboard \in requested ~>
       cpu.step = "handler" /\ cpu.handler = "keyboard"
=============================================================================
