--------------------------------- MODULE Ata --------------------------------
(***************************************************************************)
(* src/src/device/ata.c: reading sectors by programmed I/O.                *)
(*                                                                         *)
(* The machine has one drive, drive 0.  The drive works on its own between *)
(* the driver's accesses to its registers, and any sector may fail.  A     *)
(* sector's contents are named by its number.                              *)
(***************************************************************************)
EXTENDS Integers, Sequences

CONSTANTS
  Sectors,       \* the sectors of the drive
  LbaModulus     \* 2^28, what the address registers hold

(* Addresses are uint32_t.                                                 *)
UintModulus == 16 * LbaModulus

ASSUME SectorsAssumption ==
  /\ LbaModulus \in Nat /\ LbaModulus > 0 /\ LbaModulus % 2 = 0
  /\ Sectors \subseteq 0 .. LbaModulus - 2

VARIABLES
  step,        \* where read_sectors is: "returned", "wait_idle", "wait_sector"
  start,       \* its arguments
  count,
  read_count,
  data,        \* the sectors it has stored from dest on
  selected,    \* the drive that the registers select
  at,          \* the sector that the drive has to deliver next
  left,        \* how many it still has to deliver
  status       \* of drive 0: "idle", "busy", "drq" or "err"

driver == <<step, start, count, read_count, data>>
drive == <<selected, at, left, status>>
ataVars == <<driver, drive>>

AtaInit ==
  /\ step = "returned"
  /\ start = 0 /\ count = 0 /\ read_count = 0
  /\ data = <<>>
  /\ selected = 0
  /\ at = 0 /\ left = 0
  /\ status = "idle"

-----------------------------------------------------------------------------
(* The drive                                                               *)

(* What the status register shows; of a drive that is not there, nothing.  *)
Status == IF selected = 0 THEN status ELSE "idle"

DriveEnds ==
  /\ status = "busy"
  /\ status' \in IF at \in Sectors THEN {"drq", "err"} ELSE {"err"}
  /\ UNCHANGED <<driver, selected, at, left>>

(* With the last word read, the drive goes on to the next sector.          *)
SectorTaken ==
  /\ at' = at + 1
  /\ left' = left - 1
  /\ status' = IF left = 1 THEN "idle" ELSE "busy"
  /\ UNCHANGED selected

-----------------------------------------------------------------------------
(* The driver                                                              *)

read_sectors(s, n) ==
  /\ step = "returned"
  /\ step' = "wait_idle"
  /\ start' = s
  /\ count' = n
  /\ read_count' = 0
  /\ data' = <<>>
  /\ UNCHANGED drive

(* Variant: leaves out the most significant of the address registers.      *)
SendCommandThreeBytes ==
  /\ step = "wait_idle"
  /\ Status # "busy"
  /\ selected' = 0
  /\ at' = start % (LbaModulus \div 2)
  /\ left' = count
  /\ status' = "busy"
  /\ step' = "wait_sector"
  /\ UNCHANGED <<start, count, read_count, data>>

(* Variant: takes the top four bits of the address for the drive.          *)
SendCommandUnmasked ==
  /\ step = "wait_idle"
  /\ Status # "busy"
  /\ selected' = start \div LbaModulus
  /\ IF selected' = 0
     THEN at' = start % LbaModulus /\ left' = count /\ status' = "busy"
     ELSE UNCHANGED <<at, left, status>>
  /\ step' = "wait_sector"
  /\ UNCHANGED <<start, count, read_count, data>>

(* The registers take the lower 28 bits of the address; bit 28 falls on    *)
(* the bit that selects the drive.  Nobody answers for the missing drive.  *)
SendCommand ==
  /\ step = "wait_idle"
  /\ Status # "busy"
  /\ selected' = (start \div LbaModulus) % 2
  /\ IF selected' = 0
     THEN at' = start % LbaModulus /\ left' = count /\ status' = "busy"
     ELSE UNCHANGED <<at, left, status>>
  /\ step' = "wait_sector"
  /\ UNCHANGED <<start, count, read_count, data>>

(* Variant: the loop stops one sector short.                               *)
MoreSectorsButOne == read_count < count - 1

MoreSectors == read_count < count

(* Variant: the loop does not wait for the drive.                          *)
DriveAnswersAtOnce == TRUE

(* Variant: waits for data, not for the end of BUSY.                       *)
DriveAnswersWithData == Status = "drq"

DriveAnswers == Status # "busy"

SectorReady == step = "wait_sector" /\ MoreSectors /\ DriveAnswers

(* wait_on_busy pauses and looks again.                                    *)
Poll ==
  /\ step = "wait_sector"
  /\ MoreSectors
  /\ ~DriveAnswers
  /\ UNCHANGED ataVars

ReadSector ==
  /\ SectorReady
  /\ Status = "drq"
  /\ data' = Append(data, at)
  /\ read_count' = read_count + 1
  /\ SectorTaken
  /\ UNCHANGED <<step, start, count>>

(* ERR set or DRQ clear.                                                   *)
Break ==
  /\ SectorReady
  /\ Status # "drq"
  /\ step' = "returned"
  /\ UNCHANGED <<start, count, read_count, data, drive>>

LoopEnds ==
  /\ step = "wait_sector"
  /\ ~MoreSectors
  /\ step' = "returned"
  /\ UNCHANGED <<start, count, read_count, data, drive>>

Driver == SendCommand \/ ReadSector \/ Break \/ LoopEnds

-----------------------------------------------------------------------------
(* Properties                                                              *)

AtaTypeOK ==
  /\ step \in {"returned", "wait_idle", "wait_sector"}
  /\ start \in 0 .. UintModulus - 1
  /\ count \in Nat /\ read_count \in 0 .. count
  /\ data \in Seq(Sectors)
  /\ selected \in {0, 1}
  /\ at \in Nat
  /\ left \in Nat
  /\ status \in {"idle", "busy", "drq", "err"}

(* What read_sectors returns is the number of sectors it has stored, and   *)
(* those are the ones from start on, in order, whatever failed.  (Of an    *)
(* address above 28 bits the drive sees only the lower ones.)              *)
StoresWhatItCounts ==
  step = "returned" /\ start < LbaModulus
    => data = [k \in 1 .. read_count |-> start + k - 1]

(* It gives up early only on a sector that the drive could not read or     *)
(* that does not exist, never because the drive was slow.                  *)
ShortOnlyOnFailure ==
  step = "returned" /\ read_count < count => status = "err" \/ selected # 0

(* When it has returned nothing is left in the drive that the next read    *)
(* could take for its own.                                                 *)
NothingLeftInDrive == step = "returned" => status \notin {"busy", "drq"}

(* Every read ends, with or without the data.                              *)
ReadReturns == step # "returned" ~> step = "returned"
=============================================================================
