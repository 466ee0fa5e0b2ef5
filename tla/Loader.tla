-------------------------------- MODULE Loader ------------------------------
(***************************************************************************)
(* src/src/kernel/loader.c: running a program from the disk by its name,   *)
(* on the driver of module Ata; and what src/tools/gen_filetable.c and the *)
(* Makefile have put on the disk.                                          *)
(*                                                                         *)
(* Only the shell loads programs, one after the other, and a program is a  *)
(* function that the shell calls.  A program is one sector long.           *)
(***************************************************************************)
EXTENDS Ata, FiniteSets, SequencesExt

CONSTANTS
  Programs,        \* the names in the image, in the order of the Makefile
  OtherNames,      \* what else may be typed
  KernelSectors,   \* the size of the kernel
  MaxEntries       \* of the file table, 21

FileTableSector == 1
ProgramSector(k) == 2 + KernelSectors + k - 1

ASSUME ProgramsAssumption ==
  /\ Programs \in Seq(ToSet(Programs)) /\ IsInjective(Programs)
  /\ ToSet(Programs) \cap OtherNames = {}
  /\ KernelSectors \in Nat \ {0}
  /\ 0 .. ProgramSector(Len(Programs)) \subseteq Sectors
  /\ Len(Programs) <= MaxEntries

Names == ToSet(Programs) \cup OtherNames

-----------------------------------------------------------------------------
(* The disk                                                                *)

(* The Makefile's arguments: the programs follow the kernel.               *)
Arguments ==
  [k \in 1 .. Len(Programs) |->
     [name |-> Programs[k], sector |-> ProgramSector(k)]]

(* A file table is the function from the positions of its fields to their  *)
(* values.  The tool writes the number of its arguments and for each one a *)
(* name, a sector and a size.                                              *)
ENTRY_SIZE == 24
Offset(k) == 4 + (k - 1) * ENTRY_SIZE

Positions ==
  {0} \cup {Offset(k) + field : k \in DOMAIN Arguments, field \in {0, 16, 20}}

Table(num_entries) ==
  [p \in Positions |->
     IF p = 0 THEN num_entries
     ELSE LET argument == Arguments[(p - 4) \div ENTRY_SIZE + 1]
          IN CASE (p - 4) % ENTRY_SIZE = 0 -> argument.name
               [] (p - 4) % ENTRY_SIZE = 16 -> argument.sector
               [] (p - 4) % ENTRY_SIZE = 20 -> 1]

(* Variant: counts the output file among the entries.                      *)
gen_filetable_counts_output == Table(Len(Arguments) + 1)

(* There are not too many entries, and the tool's names end before the     *)
(* 16th byte; or it fails and there is no image.                           *)
gen_filetable == Table(Len(Arguments))

(* filetable is static: all zero until it is read.                         *)
EmptyTable == [p \in {0} |-> 0]

(* Where the loader's structure filetable_t has the fields of entry i.     *)
filetable_entry_t(i) ==
  LET entry == 4 + i * (16 + 4 + 4)
  IN [name |-> entry, sector |-> entry + 16, size |-> entry + 20]

Nothing == "nothing that can be run"

(* The program in a sector of the disk.                                    *)
ProgramIn(sector) ==
  LET here == {k \in DOMAIN Programs : ProgramSector(k) = sector}
  IN IF here = {} THEN Nothing ELSE Programs[CHOOSE k \in here : TRUE]

-----------------------------------------------------------------------------

VARIABLES
  pc,                \* what the shell's call of exec does
  name,              \* its argument
  filetable,
  filetable_loaded,
  memory,            \* the program at TASK_LOAD_ADDR
  failed             \* the drive has failed to read one of its sectors for
                     \* this command

loader == <<filetable, filetable_loaded, memory>>
vars == <<pc, name, failed, loader, ataVars>>

Init ==
  /\ AtaInit
  /\ pc = "shell"
  /\ name \in OtherNames
  /\ filetable = EmptyTable
  /\ filetable_loaded = FALSE
  /\ memory = Nothing
  /\ failed = FALSE

(* exec, load_task and lookup_task_sector up to load_filetable's read.     *)
exec(n) ==
  /\ pc = "shell"
  /\ step = "returned"
  /\ name' = n
  /\ failed' = FALSE
  /\ IF filetable_loaded
     THEN pc' = "lookup" /\ UNCHANGED ataVars
     ELSE pc' = "load_filetable" /\ read_sectors(FileTableSector, 1)
  /\ UNCHANGED loader

(* The sector of the first entry with this name, -1 without one, as the    *)
(* uint32_t that load_task assigns it to.                                  *)
lookup_task_sector(n) ==
  LET found == {i \in 0 .. filetable[0] - 1 : filetable[filetable_entry_t(i).name] = n}
  IN IF found = {} THEN UintModulus - 1
     ELSE filetable[filetable_entry_t(Min(found)).sector]

(* The result of the read is not looked at.                                *)
load_filetable_returns ==
  /\ filetable' = IF read_count = 1 THEN gen_filetable ELSE filetable
  /\ filetable_loaded' = TRUE

DriveFailed == failed' = (failed \/ (read_count = 0 /\ start \in Sectors))

FiletableRead ==
  /\ pc = "load_filetable"
  /\ step = "returned"
  /\ load_filetable_returns
  /\ DriveFailed
  /\ pc' = "lookup"
  /\ UNCHANGED <<name, memory, ataVars>>

(* load_task goes on to read: an unsigned sector is never below 0.         *)
Lookup ==
  /\ pc = "lookup"
  /\ read_sectors(lookup_task_sector(name), 1)
  /\ pc' = "load_task"
  /\ UNCHANGED <<name, failed, loader>>

(* Variant: a short read is taken for a program.                           *)
LoadedAnything == TRUE

Loaded == read_count = 1

(* The program runs, or the shell reports an unknown command.              *)
TaskRead ==
  /\ pc = "load_task"
  /\ step = "returned"
  /\ memory' = IF data = <<>> THEN memory ELSE ProgramIn(data[1])
  /\ DriveFailed
  /\ pc' = IF Loaded THEN "running" ELSE "unknown"
  /\ UNCHANGED <<name, filetable, filetable_loaded, ataVars>>

BackToShell ==
  /\ pc \in {"running", "unknown"}
  /\ pc' = "shell"
  /\ UNCHANGED <<name, failed, loader, ataVars>>

LoaderWaits == UNCHANGED <<pc, name, failed, loader>>

Disk == (Driver \/ Poll \/ DriveEnds) /\ LoaderWaits

Loading == FiletableRead \/ Lookup \/ TaskRead \/ BackToShell

LoaderNext ==
  \/ \E n \in Names : exec(n)
  \/ Loading
  \/ Disk

(* The shell is given the processor, the drive completes what it has begun *)
(* and the program, a function of a few lines, returns.                    *)
LoaderFairness ==
  /\ WF_vars(Loading)
  /\ WF_vars(Driver /\ LoaderWaits)
  /\ WF_vars(DriveEnds /\ LoaderWaits)

LoaderSpec == Init /\ [][LoaderNext]_vars /\ LoaderFairness

-----------------------------------------------------------------------------
(* Properties                                                              *)

LoaderTypeOK ==
  /\ pc \in {"shell", "load_filetable", "lookup", "load_task", "running",
             "unknown"}
  /\ name \in Names
  /\ filetable \in {EmptyTable, gen_filetable}
  /\ \A i \in 0 .. filetable[0] - 1 :
       {filetable_entry_t(i).name, filetable_entry_t(i).sector} \subseteq DOMAIN filetable
  /\ filetable_loaded \in BOOLEAN
  /\ memory \in ToSet(Programs) \cup {Nothing}
  /\ failed \in BOOLEAN

(* Whatever fails, what runs is the program that was named and none other: *)
(* not the one loaded before it, and nothing for a name that has none.     *)
RunsNamedProgram == pc = "running" => memory = name

(* The loader implements module Command: between the two reads, the lookup *)
(* and whatever the drive does, each command typed is carried out or       *)
(* reported as unknown in the end, once, and what runs meanwhile is what   *)
(* has been asked for.                                                     *)
Answer ==
  INSTANCE Command
    WITH command <- name,
         ProgramNames <- ToSet(Programs),
         stage <- CASE pc = "shell" -> "none"
                    [] pc = "running" -> "running"
                    [] pc = "unknown" -> "refused"
                    [] OTHER -> "asked",
         program <- IF pc = "running" THEN memory ELSE Nothing
CommandSpec == Answer!Spec

(* README.md:45-46, "The file table maps task names to their disk sectors, *)
(* so the loader can find them at runtime": a program in the table is      *)
(* unknown only if the drive has failed to read it or the table, just now. *)
KnownIsFound == pc = "unknown" /\ name \in ToSet(Programs) => failed

(* The same lines and loader.c:68, "if (sector >= 0)": the loader reads    *)
(* the sectors that the table and its header say, and none for a name that *)
(* is not there.                                                           *)
ReadsListedSectors ==
  step # "returned" =>
    start \in {FileTableSector} \cup {ProgramSector(k) : k \in DOMAIN Programs}
=============================================================================
