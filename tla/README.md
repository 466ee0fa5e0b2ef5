# Bitflow in TLA+

Bitflow is a 32-bit x86 kernel of some 3,000 lines of C and assembly: protected
mode, preemptive multitasking driven by the timer interrupt, a keyboard buffer
that a shell reads, a console, and a loader that runs small programs from disk.
It runs on one processor, without paging, compiled without optimisation (the
Makefile passes no -O flag), so each C statement reads and writes memory where
it stands. Interrupt gates clear the interrupt flag: a handler is never
interrupted, a task always can be.

This directory holds its specification. `tlc -config X.cfg M` checks a model,
`tlapm M.tla` checks a module's proofs.

## Inventory

| component | state | operations | hard behaviour |
|---|---|---|---|
| task table (`kernel/task.c`) | `tasks[]`, `n_tasks`, `current_task`, links `next` | `create_task`, `create_user_task`, `add_task`, `end_task`, `remove_task`, `set_task_state` | `end_task` is preempted between its stores; it edits the list the scheduler walks |
| scheduler (`kernel/scheduler.c`) | local `next_task`; `tss.esp0` | `schedule` | loops with interrupts disabled; overwrites the state of the task it leaves |
| events (`kernel/event.c`) | `state`, `tid` of an event | `create_event`, `set_event`, `reset_event`, `wait_event` | test-then-block against a set in an interrupt; a stale `tid` |
| queue, blocking queue (`lib/`) | `front`, `rear`, `buf`; the event `not_empty_evt` | `enqueue`, `dequeue`, `bq_enqueue`, `bq_dequeue` | the writer interrupts the reader at any statement; full buffer; wrap-around |
| interrupt wiring (`arch_x86/gdt.c`, `arch_x86/idt.c`, `device/pic.c`, `kernel/exceptions.c`, `kernel/interrupt.c`) | descriptors, gates, masks, in-service bits, `irq_handlers` | `gdt_init`, `idt_set`, `irq_install`, `handle_irq`, `irq_eoi` | a line without its acknowledgement stays silent; the gate of one line leading to another's stub; a bit-field in the wrong place |
| context switch (`kernel/isr.asm`, `arch_x86/task_switch.asm`, `arch_x86/gdt.c`) | kernel stacks, `task->esp`, TSS | `isr_common`, `resume_new_task` | every task resumes from its own frame, in its own ring |
| timer, keyboard (`device/pit.c`, `device/keyboard.c`) | `ticks`; `shift`, `ctrl`, `alt` | their interrupt handlers | shared modifier flags, extended scan codes |
| line input, shell (`shell/shell.c`) | the line buffer and its index | `shell_read_line`, `dispatch_cmd`, `shell` | backspace at the start, a full line, a stale command |
| console (`device/console.c`) | `current_offset`, video memory | `put_char_at`, `write_str`, `clear_screen` | no scrolling; the timer and the user tasks write to the screen between two of the shell's writes |
| loader, ATA (`kernel/loader.c`, `device/ata.c`), `tools/gen_filetable.c` | `filetable`, `filetable_loaded`, the drive | `exec`, `load_task`, `lookup_task_sector`, `read_sectors` | failed read remembered as loaded; unknown name; preemption in the middle of a transfer |
| font loading (`gui/font.c`, `gui/gui.c`), `tools/parse_fon.c` | `g_res_fonts`, `g_fonts_v3`, the file in `buf` | `font_load`, `parse_resource_table`, `font_get_glyph` | an entry pointer that is not assigned; a short read; more fonts than the array holds |
| boot, utilities, graphics, sample tasks | - | - | straight-line or unused code |

They interact through four pieces of shared state: the task table (written by
tasks, by the timer interrupt and, through `set_event`, by the keyboard
interrupt), the active task's keyboard buffer (interrupt to shell), the current
task pointer (read by every interrupt to save the context) and video memory.

What makes each correct: the list stays a ring and somebody is always runnable
(scheduler); an ended task never runs again and does not disturb the others (task
table); a set event is never slept through (events); characters come out once
and in order (queues); every raised line reaches its own handler and is
acknowledged (wiring); a task never notices that it was interrupted (context
switch); the decoded character is the one of the keys held (keyboard); a line
holds what was typed and edited, inside its buffer (line input); output stays on
the screen (console); a program runs only if it was found and read, and
every command is answered once (loader); a character is drawn as its font file
has it (fonts).

## Modules

| module | models | abstract specification |
|---|---|---|
| `RoundRobin` | the README's "round-robin scheduling": one turn, passed on for ever among those who take part | - |
| `Scheduler` | `task.c`, `scheduler.c`, the start of the tasks in `kmain` | `RoundRobin`, by `turn <- current_task` and `gone <-` the unlinked shell |
| `SchedulerProofs` | theorems about `Scheduler` | |
| `Queue` | `lib/queue.c`, as actions on `buf`, `front`, `rear` | |
| `BoundedFifo` | what a keyboard buffer promises | - |
| `BlockingQueue` | `lib/blocking_queue.c` and `event.c`, one reader and the keyboard interrupt | `BoundedFifo`, by the contents between `front` and `rear` and the character the call has taken |
| `BlockingQueueProofs` | theorems about `BlockingQueue` | |
| `Kernel` | `Scheduler` and `BlockingQueue` joined: the shell, the timer and the keyboard interrupt | `Scheduler`'s and `BlockingQueue`'s properties |
| `KernelProofs` | theorems about `Kernel`, and that its steps are `Scheduler`'s and `BlockingQueue`'s | |
| `OwnProcessors` | what multitasking promises: each task's registers and stack change by its own steps only | - |
| `ContextSwitch` | `isr.asm`, `task_switch.asm`, the TSS of `gdt.c` and the first frames that `task.c` builds | `OwnProcessors`, by the context in the processor or in the saved frame |
| `ContextSwitchProofs` | theorems about `ContextSwitch` | |
| `Segments` | the descriptors of `gdt.c` and `idt.c`, as written and as the processor reads them | - |
| `Interrupts` | `gdt_init`, `exceptions.c`, `idt.c`, `pic.c`, `interrupt.c` and the two 8259 controllers | - |
| `InterruptsProofs` | theorems about `Interrupts` | |
| `Keyboard` | `device/keyboard.c` and a PS/2 keyboard | - |
| `KeyboardProofs` | theorems about `Keyboard` | |
| `Terminal` | the line input and main loop of `shell.c` on `console.c`, and the other writers: `tick` of `pit.c`, the threads of `kernel.c` | - |
| `ShellInput` | `Terminal`'s shell reading from `BlockingQueue`'s buffer: a character from the keyboard interrupt to `dispatch_cmd` | `Terminal`'s and `BlockingQueue`'s properties |
| `TerminalProofs` | theorems about `Terminal` and `ShellInput` | |
| `Ata` | `device/ata.c` and a drive | - |
| `Command` | what the shell expects of `exec`: each command runs its program or is refused, once | - |
| `Loader` | `loader.c` on `Ata`, and the disk that `gen_filetable.c` and the Makefile make | `Command`, by what `exec` has got to |
| `LoaderProofs` | theorems about `Ata` and what is on it, `Loader` and `Fonts` | |
| `Fonts` | `font.c` and `gui_text` on `Ata`; `parse_fon.c` | the tool's reading of the file, as the reference |
| `MCDisk` | `Loader` and `Fonts` on the one driver, with font files laid out | |

**Scheduler.** A task is its index. `state`, `next`, `privilege` are the fields of
`tasks[]`; `current_task` and `esp0` (the TSS) hold the index of the task, or of
the task whose stack it is. `schedule()` is entered by `TimerInterrupt` and its
loop is `ScheduleStep`, one iteration each, so that a list that does not lead to
a runnable task shows as a loop that does not end, and a null link as
`next_task = NULL`, where the model stops (the code reads whatever lies at
address 0). `end_task` is three actions, one per store, because the timer can
interrupt between them. `BlockSelf` and `Wake` are the calls `event.c` makes,
here at any moment the processor could make them.

**BlockingQueue.** `pc` is the reader's next statement in `bq_dequeue`; each
action is one statement that touches shared state. `bq_enqueue` is one action:
it runs in an interrupt handler. The character 0 is one of the characters:
`keyboard.c` passes it on for keys that have none.

**Kernel.** Extends `BlockingQueue`, whose reader is the shell, and instantiates
`Scheduler` as `S`. The shell's statements are enabled while the shell owns the
processor; `WaitBlock` is joined with `Scheduler`'s `BlockSelf`, `bq_enqueue` with
`Wake` when `evt.tid` is set, and an interrupt in the shell ends its `hlt`. The shell returns after the character `Quit`, standing for the
last character of the line `quit`; the power-off it requests first (port 0x604)
works on QEMU only and takes effect later, so `end_task` runs.

**ContextSwitch.** Scheduler says who runs next; this module says that it is
really that task that goes on. A kernel stack is the sequence of its 32-bit
words, each named by what it holds, so `EspSlot` and `Frame` are the code's
offsets divided by four. `Enter` is everything from the interrupted instruction
to `call isr_handler`: interrupts are off, so nothing comes in between.
`left` is a history variable: the registers as a task last had them. The stack
frames that the C handler itself pushes lie above the saved pointer and are
dropped with it; they are left out. So are tasks with more than `MaxCalls` nested
calls: 512 words of stack are enough for the frame and the handlers, and the
model does not bound the stack.

**Interrupts.** `boot` steps through `kmain`'s calls. A device may raise its line
at any moment, `Raise`; the processor takes the highest-ranking line that the
masks and the in-service bits let through, `Acknowledge`. Whether a handler gets
its own line is a question about `idt` (filled by `exceptions_init`), `base`
(programmed by `pic_init`) and `handlers` (filled by `irq_install`) together.
A descriptor is its 64 bits: module `Segments` has the bit-field structures of the
code, with which `gdt_init` and `idt_set` write it, and the processor's definitions
of base, limit, level and type, with which `SegmentsAsMeant` and `StubThrough` read
it. `ltr` is part of `gdt_init`: it needs an available TSS within the limit and makes
it busy. The second controller's identity, 0x10 in the code and 2 in its comment,
makes `VectorsOf` a choice: a controller that looks at it does not answer.

**Keyboard.** `meant` is a history variable: what the keys stood for when they
were pressed. The handler reads one byte per interrupt and may be several
behind. The kernel has no use for caps lock; the extra shift codes that some
keyboards wrap around the arrow keys are left out.

**Terminal.** `line` is a history variable: the line as its typist means it.
`i` is an `int` and `size - 1` a `size_t`, so `MoreFits` compares unsigned. Of
the screen the model keeps the cells of the line being typed, `shown`, which
`put_char_at` writes for the shell and for the others; an interrupt may come
between any two characters, and since the others never touch `current_offset`, its
place within one makes no difference. A `thread` may write any of its cells
again, which is more than the code does. `dispatch_cmd` prints some whole rows, or
what `task_a` prints. The model stops when a line would begin below
the last row: the console does not scroll and writes on behind video memory's
visible part.

**ShellInput.** Extends `Terminal` and instantiates `BlockingQueue` as `Q`. The
statements of `bq_dequeue` are executed inside the loop of `shell_read_line`, while
it wants another character; its return is one step with the echo and the store
(`shell_read_char`), since no interrupt can tell where between them it comes. The
keyboard interrupt comes at any moment, in the middle of the dequeue, between two
lines or while a command is executed. `typed` is a history variable: the characters
that the interrupt has put into the buffer, from the first of the present line on;
what is typed ahead of a newline's execution is carried over to the next line.
`Edited` is what the characters mean as a line, without a buffer, a screen
or a queue. `Kernel` has the same dequeue with the scheduler and a shell that is
nothing else; `ShellInput` has all of the shell and leaves the scheduler out: the
shell goes on whenever it can.

**Ata.** The drive's actions, `DriveEnds` and `SectorTaken`, are modelled from the
commands and status bits the driver uses. Any sector may fail, addresses outside
the drive do. Drive 1, which bit 28 of an address selects, is missing; its
status reads 0. The 400 ns in which a real drive may not yet show BUSY after a
command are left out: `read_sectors` does not wait for them and the emulators
the Makefile starts show BUSY at once. Preemption needs no action of its own:
nobody else touches the drive, and it waits for the driver.

**Loader.** The loader's `pc` advances when `Ata`'s `step` is back at "returned". A
program is one sector, as the loader assumes. A file table is the function from
the positions of its fields to their values: `Table` writes it where the tool's
arithmetic says and `filetable_entry_t` reads it where the loader's structure has its
fields.

**Fonts.** Only a kernel whose `kmain` calls `gui_init` (the call is in a comment)
reads a font, so these behaviours are apart from those with the shell: `gui` is
"off" or goes from "font_load" through "resources" (the walk through the resource
table, one type or one resource a step; `walk` holds the function's local variables)
and "fonts" (each resource taken goes to the list of its version) to "text". A file is
the function from the positions of its fields to their values, and `word` sees as much
of it as the driver has read. `entry` in
`parse_resource_table` is not initialized; the model lets it be what it was for the
resource before, as an unoptimized build does, and notes in `wild` that it pointed
nowhere. The definitions that begin with `tool_` are `parse_fon.c` on the same file:
its loop over the types is a recursive function of the position (`tool_blocks`).
Types with names instead of numbers, which the tool looks up and prints, are not told
apart. `parse_font` leaves out the `bits_pointer` that the code stores in the font's own
header: no code reads it, and it could change a field that is read only where two fonts
of a file overlap; the results are about files whose fonts lie apart.

Definitions named "Variant" are plausible slips (a forgotten store, a missing
test). Nothing uses them in a model; each shows, when it takes the place of the
definition below it, that a property of the runs notices.

## Runs

| run | instance | shows |
|---|---|---|
| `scheduler` | 8 tasks, the shell may end | `OthersRunnable`, `StackFollowsTask`, `RingIntact`, `UnlinkedNeverResumed` hold, and `RoundRobin` is implemented (`RoundRobinOrder`, safety and liveness) |
| `scheduler_null_link` | 5 tasks | violated: `SchedulerStaysOnList`. `remove_task` clears the link of the task that is still current |
| `kernel` | 5 tasks, 4 slots, 2 characters, the shell may end | `DequeueFindsCharacter`, `RegisteredWhileWaiting`, `BlockedOnlyInWaitEvent`, `WakeupNotLost` hold, and `BoundedFifo` is implemented (`FifoSpec`) |
| `kernel_lost_key` | 3 tasks, 3 slots | violated: `InputEventuallyRead`. A key between the emptiness test and `reset_event` is not read until the next key |
| `context_switch` | 2 kernel tasks, 1 user task, all 20 exceptions | `ResumesAsLeft`, `FrameOnOwnStack`, `EntryReturnsToEndTask`, `HandlerSeesFrame` hold for every interleaving of calls, interrupts and switches, and `OwnProcessors` is implemented (`OwnProcessorSpec`) |
| `interrupts` | timer, keyboard, lines 6 and 14 | `SegmentsAsMeant`, `OwnHandler`, `NothingLeftInService`, `RaisedIsServed` |
| `keyboard` | both shift keys, both ctrl keys, a letter, the space bar | `NoStuckModifier`, `DecodedAsTyped` |
| `shell_input` | lines of 2 characters, 6 rows of 6, 3 slots, at most 4 characters typed before a line is done | `CommandIsTyped`, with keys at any moment, and the keys that find the buffer full dropped; `CursorFollowsLine`, `LineOnScreen`, with the timer and a user task writing in the rows of the line |
| `terminal_stale` | lines of 3 characters, 12 rows of 8, no keyboard buffer | violated: `CommandWasTyped`. A backspace at the start of the line runs what the buffer held |
| `loader` (`MCDisk`) | the Makefile's two programs and an unknown name, on a drive of 7 sectors; 39 font files | of the driver, for reads of 1 to 3 sectors anywhere: `StoresWhatItCounts`, `ShortOnlyOnFailure`, `NothingLeftInDrive`, `ReadReturns`; of the loader: `RunsNamedProgram`, and `Command` is implemented (`CommandSpec`, safety and liveness); of the fonts: `KernelGlyphIsTools` |
| `loader_unknown` | the two programs and an unknown name | violated: `ReadsListedSectors`. Sector 0xFFFFFFFF is read for an unknown name |
| `loader_retry` | the same as `loader_unknown` | violated: `KnownIsFound`. A failed read of the file table is remembered as loaded |

**Bounds.** `kmain` creates five tasks; eight is the number of stacks, the most
the program could create. The buffer has 128 slots; three or four are enough to
fill it, to wrap around, and to have the reader and the writer meet at the same
slot, and its contents matter only through their order. The number of keys and
of ticks is not bounded.

Two kernel tasks and a user task are enough for one to be resumed on, or to be
given, the stack of another of the same or of the other kind; one nested call on
a kernel stack tells a frame at its place from one a word off. Line 6 stands for the
lower-ranking lines of the first controller and 14 for those of the second,
which the devices of a PC use and the kernel has no handler for. Four bytes
between keyboard and handler let two extended keys be pending. A line of
three characters, in `terminal_stale`, or of two can be empty, corrected, full, and
full again after a correction. A screen of six rows and columns takes several lines one
after the other, which begin in different columns, and some in the rows that others write to;
what commands print has been none, a row, or the text of `task_a`. 2^32 is 256, above
twice the buffer's size, so -1 is as large as it is there. In `shell_input` four
characters are a line of two with a correction and its newline, or a shorter one and
what is typed ahead of its end, until the two characters that the three slots hold
wait and the next are dropped. `CommandIsLine`, the same of `Terminal` without the
buffer in terms of `line`, has no run of its own: `CommandIsTyped` says more. The drive's addresses have
three or four bits instead of 28, and the integers four more, as in the code.
The loader reads one sector at a time; the longer reads of the run `loader` are
the driver's alone, before the first command.

The stubs lie from 65000 on, so their offsets fall on both sides of 2^16, and the
address of the TSS, like the limits, has bits set in each of the parts it is cut
into but the highest, which no kernel of this size reaches. Of the screen's rows
the user task fills one and the timer writes two cells of the last, on some of
which a line lies. Font files have up to four blocks of resources with up to three
fonts, of both versions, in two sectors instead of ten, and there is room for two
fonts instead of four: fewer fonts than room, as many, and one too many; resources
of another type before and after a font; a table of glyphs on the other side of the
boundary between the sectors; fields beyond the sectors that are read; no font file at
all, and a font of another version. Four characters are two that a
font has, and the ones around them.

**Deadlock** is not checked where the shell may end (after the null link the
model stops), in `Terminal` and `ShellInput` (the shell ends, or the screen is full) and where an
exception may halt the machine. Everywhere else it is.

**Fairness.** The PIT raises its interrupt for ever and handlers run to
completion: weak fairness of the timer interrupt and of the scheduler's loop.
The shell has strong fairness: it is interrupted again and again, but a turn
lasts 4 ms (`TIMER_HZ` is 250), in which it executes many statements. The
keyboard has none: nobody has to type. In `Interrupts` the processor has strong
fairness for each line: it looks for requests between any two instructions of a
task, and a tick is over long before the next (`Raise`), so a key is not shut out
by the timer for ever. In `Ata` and `Loader` the drive completes what it has begun
and the driver's task is scheduled: weak fairness of both, and the programs,
which print a line, return.

**Findings.** The runs that end in a violation show where the code does not do
what its documentation or comments say: (1) the null link in `end_task`; (2) the
lost key in `bq_dequeue`; (3) the backspace at the start of a line: besides the
stale command, the next statement writes `buf[-1]`; (4) the unknown name that is
read from the disk; (5) the failed read of the file table. Of (4) `RunsNamedProgram`
shows the saving grace: the drive that sector number selects is missing. A
machine with a second drive would run whatever that drive returns.

Three more need no run. `wait_event` does not keep a task blocked, as `event.c:29-32`
says: `schedule(READY)` makes it READY again, so it polls once per round. This is
what makes the first half of the race in `wait_event` harmless: with a scheduler
that respected BLOCKED, `WakeupNotLost` fails (the variant `SwitchToKeepsState` shows
it). And the gates 41 to 46 lead to the stub of the next vector, 47 has none
(`exceptions_init`); harmless while nothing installs a handler above line 8:
`OwnHandler` holds. And `load_filetable` reads a sector of 512 bytes into a structure of
508 (`loader.c:49`): the last four are zeros, from the generator's padding, and fall, as
the kernel is compiled, on `filetable_loaded`, which the next statement sets. The model
has no layout of memory and reads the table's fields only.

Of the fonts, `KernelGlyphIsTools` is stated for files with no more fonts and
directories than there is room for, no other resources, fonts of versions 2 and 3
(`font.c` takes every other for 3, the tool for 2), and read to their end, with every
field in the sectors that are read. A
file with another resource (of the repository's fonts `gohufont-14.fon` has one)
overwrites the entry before it; with none before it, anything. `font_load` reads
ten sectors from 92 on, whatever the size of the kernel that comes before the font
in the image; of the font that the Makefile puts there, 14 sectors, the tables are
among them and the glyphs of the characters from 141 on are not.

## Proofs

A module `XProofs` extends the module `X` that it is about, and states its
theorems about `X`'s own specification, for every value of the constants that the
assumptions allow. Each safety theorem is shown from an inductive invariant
(`IInv`; `Init => IInv`, every action keeps it, it implies the property), which is
the property with what the code relies on beside it:

* `SchedulerProofs`, for 2 to 8 tasks: `TypeCorrect`, `OthersAreRunnable`,
  `StackIsCurrent`, `ListIsRing`, `EndedTaskStaysOut`, and `ImplementsRoundRobin`
  (the safety part of `RoundRobin`). `IInv` adds `BootList` (the list while `kmain`
  builds it; `RingIntact` needs it at the moment the first task starts),
  `ShellLink` (the shell's own link after it is unlinked: the turn still passes
  along it to the task after the shell), `Started` (the scheduler runs only when
  `kmain` is over) and `Walk` (the loop looks at `current_task->next` first and
  finds it runnable, because of `OthersRunnable`; so it never gets further).
  `UnlinkedNeverResumed` and the round-robin step are then facts about one link of
  the ring.
* `BlockingQueueProofs`, for any size of buffer from two slots on and any
  characters: `BqTypeCorrect`, `DequeueNeverEmpty`, `WaiterIsRegistered`, and
  `ImplementsFifo` (`BoundedFifo`, step by step). The strengthening is
  `EventTellsNotEmpty`: the event is set only while the buffer holds something,
  except between taking the last character and resetting the event. The converse
  is false: that is the lost key. For the refinement the contents between `front`
  and `rear` are a sequence; what has to be seen is that `enqueue` writes outside
  of it, and that the slot which `dequeue` has read and not yet released, with the
  keyboard enqueueing in between, is still its first.
* `KernelProofs`, for both sets of constants: `KernelUsesQueue` and
  `KernelUsesScheduler` say that every step of the joined kernel is one of
  `BlockingQueue` or none of its variables, and the same of `Scheduler`; so their
  theorems carry over (`KernelFifo`, `KernelReaderSafe`, `KernelSchedulerSafe`).
  `KernelBlocksOnlyInWait` is the kernel's own. Its invariant says where the shell
  may be BLOCKED: that the keyboard wakes the registered task, and that the
  scheduler makes the task it leaves READY, is what it takes.
* `ContextSwitchProofs`, for any kernel and user tasks and any depth of calls:
  `TypeCorrect`, `FramesOnOwnStacks`, `ReturnsToEndTask`, `FrameForHandler`,
  `Resumes`, and `ImplementsOwnProcessors`. `IInv` says for each task where its
  context is: in the processor, with nothing but its own words on its kernel
  stack, or in the frame at `task_esp`, on top of those words, each register at the
  place that `isr_return` takes it from. It needs the ring and the stack
  that each task runs in (`OwnContext`), for they decide on which stack and how
  high a frame is. Most of the module is about the words of a frame: what
  `PushedByProcessor`, `PushedByStub` and `PushedByCommon` push is what `SavedContext`
  pops (`EntryWords`, `CommonWords`, `Places`), the word for `esp` excepted.
* `InterruptsProofs`, for any lines with devices and any addresses:
  `TypeCorrect`, `LineRunsItsHandler`, `AllAcknowledged`, `SegmentsReadAsMeant`. Half
  of the module shows, bit by bit, that what the code cuts into bit-fields is what
  the processor puts together: the address in a gate (`GateReadsBack`), base,
  limit, level and type in a segment (`CodeReadsBack`, `DataReadsBack`,
  `TssReadsBack`, the last after `ltr` has set a bit of it). No two fields assigned
  overlap (`SegmentFieldsApart`), and parts of a number in neighbouring fields are
  the number (`AddressBits`). `IInv` says how far the tables, gates and lines are at
  each stage of `kmain`, and for an interrupt under way that `int_no`, line and
  handler belong together.
* `KeyboardProofs`, for any set of keys and any number of bytes pending:
  `TypeCorrect`, `ModifiersNeverStick`, `EveryCharacterAsMeant`. The handler decodes
  long after the key was pressed, so `IInv` follows each modifier through the
  pending bytes to the value it will have when they are read (`Followed`): that
  value, not the present one, agrees with the keys; and under the value each byte
  meets on the way it decodes to what was meant (`Decoded`).
* `TerminalProofs`, for any size of buffer and screen, any commands and any other
  writers: `TypeCorrect`, `CursorAtEndOfLine`, `SeenIsHeld`, `CommandAsTyped`. `IInv`
  adds where the cursor is before it has come to an edge of the screen and after
  (`Placed`), that there is room for the line (`RoomForLine`), and that the buffer
  begins with the line as meant (`LineHeld`). Of the shell with its keyboard buffer,
  and for any size of that: `InputUsesTerminal` and `InputUsesQueue` (its steps are
  `Terminal`'s and `BlockingQueue`'s, so their theorems hold of it), `InputTypeCorrect`
  and `CommandFromKeyboard`. `InputIInv` joins the invariants of both with `InOrder`
  (what has been typed is what the shell has read, then the character `bq_dequeue` has
  in its variable, then what is in the buffer, slot by slot) and `MadeOfTyped` (the line
  is what the characters read make of it). `InOrder` needs `EventTellsNotEmpty`: a dequeue
  from an empty buffer would read a 0 that nobody typed. `Edited` is a recursive
  function; that it has a value is shown by the least length at which it had none.
* `LoaderProofs`: of the driver, for any caller that asks for 1 to 255 sectors
  (`AtaSpec`; the register for their number has eight bits): `AtaTypeCorrect`,
  `StoredAsCounted`, `ShortReadsAreFailures`, `DriveLeftClean`. `AtaIInv` says how far
  the drive is ahead of the driver: stored, to come and left are together what was
  asked for. Of the loader, for any programs and any disk they fit on:
  `LoaderTypeCorrect`, `RunsWhatWasNamed`, `LoaderUsesDriver` (the loader is such a
  caller) and `LoaderAnswers` (the safety part of `Command`). The lookup's loop is
  proved to find the entry of the name that `Table` wrote. Of the fonts, for any
  font file, any number of sectors and any room: `FontTypeCorrect`, `GlyphsAreTools`,
  and `FontsUseDriver`, so that what was proved of the driver holds of `font_load`'s
  read. `Collected` is the heart of `FontIInv`: what the kernel has collected, followed
  by what it has yet to come to, is what the tool's loop finds, so at the end of the
  walk it has all of it, in the same order, and the first font of version 3 is the
  same (`FirstOfVersion3`). That the tool's loop has a value at all (`ToolTurns`) and
  that the value is a list of positions (`TurnsType`) is shown from the file's last
  position backwards: the least position up to which it is so can only be 0
  (`Smallest`). What is left is arithmetic: a field in the buffer is the field in the
  file (`WordIsField`), and an entry of the table of glyphs is at the same place
  under both layouts (`SameGlyph`).

The invariants were checked by TLC, on the instances of the runs, before they were
proved. Where TLC and a proof state the same property the run is the check on the
statement: it shows, with its mutants, that the property can fail.

Assumptions, all named in the modules and evaluated in the runs: 2 to 8 tasks
(`kmain` creates 5, there are 8 stacks); two slots; characters with 0 among them;
the lines of two controllers; stubs and TSS below 2^20, where the boot sector loads the
kernel; a screen of more than three rows, wider than prompt and line together;
an unsigned integer of more than twice the buffer; sectors within 28 bits of
address, without the last; programs with different names and room for them in
the file table and on the drive; font files whose fields are at natural numbers and
hold natural numbers, up to 255 sectors of them on the drive, and characters of eight
bits; the processor's exceptions without 15, which has no
stub.

Only model-checked: everything about liveness (the fairness of `RoundRobin` and
`Command`, `WakeupNotLost`, `RaisedIsServed`, `ReadReturns`), which this prover does
not reach. Every invariant and every action property of the passing runs is a theorem.

## Not modelled

* Boot sector: straight-line code in real mode before anything runs. That it
  loads 128 sectors from 0x7e00, across the address programs are loaded to, is
  noted as a hazard.
* What commands print, beyond the number of rows; number formats, colours and the
  carriage return, which nothing prints.
* `bga.c` (pixels in a frame buffer) and what `gui_init` draws besides text; `kbd.c`,
  which nothing calls. `versions/16` is an earlier kernel kept for the tutorial.
* PE files and everything else that `parse_fon.c` only prints; the contents of glyphs.
* `set_frequency`: the divisor it sends to the timer chip changes no state of the
  kernel.
* `irq_disable`, `irq_enable_all`: nothing calls them.
* Names of programs of 16 characters and more, and the size field of a file table
  entry, which the loader does not read.

## Plan

Done, in this order: scheduler and task table; queue, event and blocking queue;
the two joined; interrupts, keyboard, terminal, drive and loader; context switch;
the abstract specifications of the context switch and of the loader; fonts on the
same driver as the loader; descriptors; the screen with all its writers; the shell's
line input on the keyboard buffer;
the proofs of the section above. Next:

1. `Keyboard` before `ShellInput`, so that the way begins at the key instead of at
   `handle_key_event`: `Keyboard` needs the keys enter and backspace for it.
2. `ContextSwitch` joined with `Scheduler`, so that `end_task` is reached by the
   return that `EntryReturnsToEndTask` is about.
