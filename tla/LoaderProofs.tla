----------------------------- MODULE LoaderProofs ---------------------------
(***************************************************************************)
(* The ATA driver returns what it has read and leaves nothing behind,      *)
(* whoever calls it, for whatever sectors and however the drive fails; and *)
(* the loader on it never runs another program than the one named, for any *)
(* number of programs and any size of the kernel and of the disk.          *)
(*                                                                         *)
(* The font of the graphics mode is read by the same driver: the kernel's  *)
(* walk through the file's resources collects what the font tool's finds,  *)
(* for any file and any number of sectors, and both show the same glyphs.  *)
(*                                                                         *)
(* The driver's invariant says how far the drive is ahead of it: the       *)
(* sectors stored, the one to come and those left are always the ones      *)
(* asked for.  The loader's says which sector is being read for which      *)
(* name.  The font's says that what the walk has collected and what it has *)
(* yet to come to are, together, what the tool finds.                      *)
(***************************************************************************)
EXTENDS Loader, Fonts, SequenceTheorems, WellFoundedInduction, TLAPS

-----------------------------------------------------------------------------
(* The driver with any caller                                              *)

(* The register for the number of sectors has eight bits, so more than 255 *)
(* cannot be asked for.                                                    *)
AnyCall ==
  \E s \in 0 .. UintModulus - 1, n \in 1 .. 255 : read_sectors(s, n)

(* The driver and the drive without the loader: the caller may be anyone   *)
(* who keeps to the sizes of the arguments.                                *)
AtaSpec == AtaInit /\ [][AnyCall \/ Driver \/ Poll \/ DriveEnds]_ataVars

(* The lower 28 bits of an address, and the bit that selects the drive.    *)
Lower(s) == s % LbaModulus
DriveBit(s) == (s \div LbaModulus) % 2

(* What has been stored is what was asked for,                             *)
Stored ==
  /\ data = [k \in 1 .. read_count |-> Lower(start) + k - 1]
  /\ step # "returned" => count > 0
  /\ step = "wait_idle" => read_count = 0

(* and what is to come is what is missing, if there is a drive to ask.     *)
Outstanding ==
  /\ step = "wait_sector" \/ (step = "returned" /\ count > 0) =>
       /\ selected = DriveBit(start)
       /\ selected # 0 => read_count = 0
  /\ step = "wait_sector" /\ selected = 0 =>
       /\ at = Lower(start) + read_count
       /\ left = count - read_count
       /\ status = "idle" => left = 0
       /\ status \in {"busy", "drq"} => left > 0
  /\ step = "wait_sector" /\ selected # 0 => status \notin {"busy", "drq"}

(* The drive has data only for the driver, and of a sector that exists.    *)
DriveQuiet ==
  /\ step # "wait_sector" => status \notin {"busy", "drq"}
  /\ status = "drq" => at \in Sectors

(* The invariant of the driver and the drive.                              *)
AtaIInv == AtaTypeOK /\ Stored /\ Outstanding /\ DriveQuiet /\ ShortOnlyOnFailure

(* What the address registers hold.                                        *)
LEMMA LowerFacts ==
  ASSUME NEW s \in 0 .. UintModulus - 1
  PROVE  /\ Lower(s) \in Nat
         /\ s < LbaModulus => Lower(s) = s
         /\ DriveBit(s) \in {0, 1}
<1>1. LbaModulus \in Nat \ {0} /\ s \in Nat
  BY SectorsAssumption DEF UintModulus
<1>2. s % LbaModulus \in 0 .. LbaModulus - 1 /\ s \div LbaModulus \in Nat
  BY <1>1
<1>3. s < LbaModulus => s % LbaModulus = s
  BY <1>1
<1>4. (s \div LbaModulus) % 2 \in {0, 1}
  BY <1>2
<1> QED
  BY <1>1, <1>2, <1>3, <1>4 DEF Lower, DriveBit

(* Before the first call nothing is stored and nothing is to come.         *)
LEMMA AtaInitIInv == AtaInit => AtaIInv
<1> SUFFICES ASSUME AtaInit PROVE AtaIInv
  OBVIOUS
<1>1. data \in Seq(Sectors) /\ data = <<>>
  BY EmptySeq DEF AtaInit
<1>2. UintModulus \in Nat \ {0}
  BY SectorsAssumption DEF UintModulus
<1>3. AtaTypeOK
  BY <1>1, <1>2 DEF AtaInit, AtaTypeOK
<1>4. Stored
  BY <1>1 DEF AtaInit, Stored
<1> QED
  BY <1>3, <1>4 DEF AtaInit, AtaIInv, Outstanding, DriveQuiet, ShortOnlyOnFailure

(* A call: only the driver's own variables are set.                        *)
LEMMA CallIInv ==
  ASSUME AtaIInv, NEW s \in 0 .. UintModulus - 1, NEW n \in 1 .. 255,
         read_sectors(s, n)
  PROVE  AtaIInv'
<1>1. data' \in Seq(Sectors) /\ data' = <<>>
  BY EmptySeq DEF read_sectors
<1>2. AtaTypeOK'
  BY <1>1 DEF read_sectors, drive, AtaIInv, AtaTypeOK
<1>3. Stored'
  BY <1>1 DEF read_sectors, Stored
<1> QED
  BY <1>2, <1>3
  DEF read_sectors, drive, AtaIInv, Outstanding, DriveQuiet, ShortOnlyOnFailure

(* The command asks the drive for exactly what is missing, or selects a    *)
(* drive that is not there.                                                *)
LEMMA SendCommandIInv ==
  ASSUME AtaIInv, SendCommand
  PROVE  AtaIInv'
<1>1. start \in 0 .. UintModulus - 1 /\ count \in Nat /\ count > 0 /\ read_count = 0
  BY DEF AtaIInv, AtaTypeOK, Stored, SendCommand
<1>2. Lower(start) \in Nat /\ DriveBit(start) \in {0, 1}
  BY <1>1, LowerFacts
<1>3. /\ step' = "wait_sector" /\ UNCHANGED <<start, count, read_count, data>>
      /\ selected' = DriveBit(start)
      /\ selected' = 0 => at' = Lower(start) /\ left' = count /\ status' = "busy"
      /\ selected' # 0 => UNCHANGED <<at, left, status>>
  BY DEF SendCommand, Lower, DriveBit
<1>4. AtaTypeOK'
  BY <1>1, <1>2, <1>3 DEF AtaIInv, AtaTypeOK
<1>5. Stored'
  BY <1>1, <1>3 DEF AtaIInv, Stored
<1>6. status \notin {"busy", "drq"}
  BY DEF SendCommand, AtaIInv, DriveQuiet
<1> QED
  BY <1>1, <1>2, <1>3, <1>4, <1>5, <1>6
  DEF AtaIInv, Outstanding, DriveQuiet, ShortOnlyOnFailure, Lower

(* One sector more is stored and one less is to come.                      *)
LEMMA ReadSectorIInv ==
  ASSUME AtaIInv, ReadSector
  PROVE  AtaIInv'
<1>1. /\ step = "wait_sector" /\ selected = 0 /\ status = "drq"
      /\ read_count < count
  BY DEF ReadSector, SectorReady, MoreSectors, Status
<1>2. /\ start \in 0 .. UintModulus - 1 /\ count \in Nat /\ read_count \in 0 .. count
      /\ Lower(start) \in Nat /\ data \in Seq(Sectors)
  BY LowerFacts DEF AtaIInv, AtaTypeOK
<1>3. /\ at = Lower(start) + read_count /\ at \in Sectors
      /\ left = count - read_count /\ left > 0
      /\ data = [k \in 1 .. read_count |-> Lower(start) + k - 1]
  BY <1>1 DEF AtaIInv, Outstanding, DriveQuiet, Stored
<1>4. /\ data' = Append(data, at) /\ read_count' = read_count + 1
      /\ at' = at + 1 /\ left' = left - 1
      /\ status' = IF left = 1 THEN "idle" ELSE "busy"
      /\ UNCHANGED <<selected, step, start, count>>
  BY DEF ReadSector, SectorTaken
<1>5. data' \in Seq(Sectors) /\ data' = [k \in 1 .. read_count' |-> Lower(start) + k - 1]
  <2>1. Len(data) = read_count
    BY <1>2, <1>3
  <2>2. /\ data' \in Seq(Sectors) /\ Len(data') = read_count + 1
        /\ \A k \in 1 .. read_count : data'[k] = data[k]
        /\ data'[read_count + 1] = at
    BY <1>2, <1>3, <1>4, <2>1, AppendProperties
  <2>3. data' = [k \in 1 .. read_count + 1 |-> data'[k]]
    BY <2>2, LenProperties
  <2>4. ASSUME NEW k \in 1 .. read_count + 1
        PROVE  data'[k] = Lower(start) + k - 1
    <3>1. CASE k \in 1 .. read_count
      BY <1>3, <2>2, <3>1
    <3>2. CASE k = read_count + 1
      BY <1>2, <1>3, <2>2, <3>2
    <3> QED BY <1>2, <3>1, <3>2
  <2> QED BY <1>4, <2>2, <2>3, <2>4
<1>6. AtaTypeOK'
  BY <1>1, <1>2, <1>3, <1>4, <1>5 DEF AtaIInv, AtaTypeOK
<1>7. Stored'
  BY <1>1, <1>4, <1>5 DEF AtaIInv, Stored
<1>8. Outstanding'
  BY <1>1, <1>2, <1>3, <1>4 DEF AtaIInv, Outstanding
<1> QED
  BY <1>1, <1>4, <1>6, <1>7, <1>8 DEF AtaIInv, DriveQuiet, ShortOnlyOnFailure

(* The driver gives up only when the drive has.                            *)
LEMMA BreakIInv ==
  ASSUME AtaIInv, Break
  PROVE  AtaIInv'
<1>1. /\ step = "wait_sector" /\ read_count < count /\ Status \notin {"busy", "drq"}
      /\ step' = "returned" /\ UNCHANGED <<start, count, read_count, data, drive>>
  BY DEF Break, SectorReady, MoreSectors, DriveAnswers
<1>2. AtaTypeOK'
  BY <1>1 DEF AtaIInv, AtaTypeOK, drive
<1>3. Stored'
  BY <1>1 DEF AtaIInv, Stored
<1>4. selected = 0 => status = "err"
  <2> SUFFICES ASSUME selected = 0 PROVE status = "err"
    OBVIOUS
  <2>1. status \notin {"busy", "drq"}
    BY <1>1 DEF Status
  <2>2. left = count - read_count /\ (status = "idle" => left = 0)
    BY <1>1 DEF AtaIInv, Outstanding
  <2>3. status # "idle"
    BY <1>1, <2>2 DEF AtaIInv, AtaTypeOK
  <2> QED BY <2>1, <2>3 DEF AtaIInv, AtaTypeOK
<1>5. status \notin {"busy", "drq"}
  BY <1>1, <1>4 DEF AtaIInv, Outstanding
<1> QED
  BY <1>1, <1>2, <1>3, <1>4, <1>5
  DEF AtaIInv, Outstanding, DriveQuiet, ShortOnlyOnFailure, drive

(* When all is stored the drive has nothing left.                          *)
LEMMA LoopEndsIInv ==
  ASSUME AtaIInv, LoopEnds
  PROVE  AtaIInv'
<1>1. /\ step = "wait_sector" /\ ~ (read_count < count)
      /\ step' = "returned" /\ UNCHANGED <<start, count, read_count, data, drive>>
  BY DEF LoopEnds, MoreSectors
<1>2. AtaTypeOK'
  BY <1>1 DEF AtaIInv, AtaTypeOK, drive
<1>3. Stored'
  BY <1>1 DEF AtaIInv, Stored
<1>4. read_count = count /\ count \in Nat
  BY <1>1 DEF AtaIInv, AtaTypeOK
<1>5. status \notin {"busy", "drq"}
  BY <1>1, <1>4 DEF AtaIInv, Outstanding
<1> QED
  BY <1>1, <1>2, <1>3, <1>4, <1>5
  DEF AtaIInv, Outstanding, DriveQuiet, ShortOnlyOnFailure, drive

(* The drive gets its sector ready or fails: nothing to the driver.        *)
LEMMA DriveEndsIInv ==
  ASSUME AtaIInv, DriveEnds
  PROVE  AtaIInv'
<1>1. step = "wait_sector" /\ selected = 0
  BY DEF DriveEnds, AtaIInv, DriveQuiet, Outstanding, AtaTypeOK
<1>2. /\ status = "busy" /\ status' \in {"drq", "err"}
      /\ status' = "drq" => at \in Sectors
      /\ UNCHANGED <<driver, selected, at, left>>
  BY DEF DriveEnds
<1>3. AtaTypeOK' /\ Stored'
  BY <1>2 DEF AtaIInv, AtaTypeOK, Stored, driver
<1> QED
  BY <1>1, <1>2, <1>3 DEF AtaIInv, Outstanding, DriveQuiet, ShortOnlyOnFailure, driver

(* Every step of the driver, the drive and the caller keeps the invariant, *)
LEMMA AtaNextIInv ==
  AtaIInv /\ [AnyCall \/ Driver \/ Poll \/ DriveEnds]_ataVars => AtaIInv'
<1> SUFFICES ASSUME AtaIInv, [AnyCall \/ Driver \/ Poll \/ DriveEnds]_ataVars
             PROVE  AtaIInv'
  OBVIOUS
<1>1. CASE UNCHANGED ataVars
  BY <1>1 DEF ataVars, driver, drive, AtaIInv, AtaTypeOK, Stored, Outstanding,
              DriveQuiet, ShortOnlyOnFailure
<1>2. CASE Poll
  BY <1>1, <1>2 DEF Poll
<1>3. CASE Driver
  BY <1>3, SendCommandIInv, ReadSectorIInv, BreakIInv, LoopEndsIInv DEF Driver
<1> QED
  BY <1>1, <1>2, <1>3, CallIInv, DriveEndsIInv DEF AnyCall

(* so it holds in every state.                                             *)
LEMMA AtaInvariance == AtaSpec => []AtaIInv
  BY AtaInitIInv, AtaNextIInv, PTL DEF AtaSpec

(* The variables of read_sectors keep their types: what it returns is no   *)
(* more than it was asked for.                                             *)
THEOREM AtaTypeCorrect == AtaSpec => []AtaTypeOK
<1>1. AtaIInv => AtaTypeOK
  BY DEF AtaIInv
<1> QED
  BY <1>1, AtaInvariance, PTL

(* read_sectors returns the number of sectors that it has stored, and has  *)
(* stored those asked for and in their order.                              *)
THEOREM StoredAsCounted == AtaSpec => []StoresWhatItCounts
<1>1. AtaIInv => StoresWhatItCounts
  <2> SUFFICES ASSUME AtaIInv, start < LbaModulus
               PROVE  data = [k \in 1 .. read_count |-> start + k - 1]
    BY DEF StoresWhatItCounts
  <2>1. Lower(start) = start
    BY LowerFacts DEF AtaIInv, AtaTypeOK
  <2> QED BY <2>1 DEF AtaIInv, Stored
<1> QED
  BY <1>1, AtaInvariance, PTL

(* read_sectors breaks off only when a sector cannot be read or there is   *)
(* no drive to read it from.                                               *)
THEOREM ShortReadsAreFailures == AtaSpec => []ShortOnlyOnFailure
<1>1. AtaIInv => ShortOnlyOnFailure
  BY DEF AtaIInv
<1> QED
  BY <1>1, AtaInvariance, PTL

(* After read_sectors the drive neither works nor has data to deliver, on  *)
(* every way out of its loop.                                              *)
THEOREM DriveLeftClean == AtaSpec => []NothingLeftInDrive
<1>1. AtaIInv => NothingLeftInDrive
  BY DEF AtaIInv, DriveQuiet, NothingLeftInDrive
<1> QED
  BY <1>1, AtaInvariance, PTL

-----------------------------------------------------------------------------
(* The file table                                                          *)

(* Where the programs are: one sector each, within the drive.              *)
LEMMA ProgramSectors ==
  ASSUME NEW k \in DOMAIN Programs
  PROVE  /\ k \in 1 .. Len(Programs) /\ Len(Programs) \in Nat
         /\ ProgramSector(k) \in Sectors
         /\ ProgramSector(k) \in 0 .. LbaModulus - 2
         /\ ProgramIn(ProgramSector(k)) = Programs[k]
<1>1. /\ Programs \in Seq(ToSet(Programs)) /\ KernelSectors \in Nat
      /\ 0 .. ProgramSector(Len(Programs)) \subseteq Sectors
      /\ Sectors \subseteq 0 .. LbaModulus - 2
  BY ProgramsAssumption, SectorsAssumption
<1>2. Len(Programs) \in Nat /\ DOMAIN Programs = 1 .. Len(Programs)
  BY <1>1, LenProperties
<1>3. ProgramSector(k) \in 0 .. ProgramSector(Len(Programs))
  BY <1>1, <1>2 DEF ProgramSector
<1>4. \A j \in DOMAIN Programs : ProgramSector(j) = ProgramSector(k) <=> j = k
  BY <1>1, <1>2 DEF ProgramSector
<1>5. {j \in DOMAIN Programs : ProgramSector(j) = ProgramSector(k)} = {k}
  BY <1>4
<1>6. ProgramIn(ProgramSector(k)) = Programs[k]
  <2>1. {k} # {} /\ (CHOOSE j \in {k} : TRUE) = k
    OBVIOUS
  <2> QED BY <1>5, <2>1 DEF ProgramIn
<1> QED
  BY <1>1, <1>2, <1>3, <1>6

(* Every sector of the disk holds a program or nothing to run.             *)
LEMMA ProgramOrNothing ==
  ASSUME NEW sector
  PROVE  ProgramIn(sector) \in ToSet(Programs) \cup {Nothing}
<1> DEFINE here == {j \in DOMAIN Programs : ProgramSector(j) = sector}
<1>1. \A j \in DOMAIN Programs : Programs[j] \in ToSet(Programs)
  BY ProgramsAssumption, LenProperties DEF ToSet
<1>2. here # {} => (CHOOSE j \in here : TRUE) \in DOMAIN Programs
  OBVIOUS
<1> HIDE DEF here
<1>3. ProgramIn(sector) = IF here = {} THEN Nothing
                          ELSE Programs[CHOOSE j \in here : TRUE]
  BY DEF ProgramIn, here
<1> QED
  BY <1>1, <1>2, <1>3

(* The loader's structure has its fields where the tool has put them.      *)
LEMMA TableFields ==
  /\ gen_filetable[0] = Len(Programs)
  /\ \A k \in 1 .. Len(Programs) :
       LET entry == filetable_entry_t(k - 1)
       IN /\ {entry.name, entry.sector} \subseteq DOMAIN gen_filetable
          /\ gen_filetable[entry.name] = Programs[k]
          /\ gen_filetable[entry.sector] = ProgramSector(k)
<1>1. Len(Programs) \in Nat /\ Programs \in Seq(ToSet(Programs))
  BY ProgramsAssumption, LenProperties
<1>2. /\ DOMAIN Arguments = 1 .. Len(Programs) /\ Len(Arguments) = Len(Programs)
      /\ \A k \in 1 .. Len(Programs) :
           Arguments[k] = [name |-> Programs[k], sector |-> ProgramSector(k)]
  BY <1>1 DEF Arguments
<1>3. DOMAIN gen_filetable = Positions /\ 0 \in Positions
      /\ gen_filetable[0] = Len(Programs)
  BY <1>2 DEF gen_filetable, Table, Positions
<1>4. ASSUME NEW k \in 1 .. Len(Programs)
      PROVE  LET entry == filetable_entry_t(k - 1)
             IN /\ {entry.name, entry.sector} \subseteq DOMAIN gen_filetable
                /\ gen_filetable[entry.name] = Programs[k]
                /\ gen_filetable[entry.sector] = ProgramSector(k)
  <2> DEFINE p == 4 + (k - 1) * 24
  <2>1. filetable_entry_t(k - 1).name = p /\ filetable_entry_t(k - 1).sector = p + 16
    BY <1>1 DEF filetable_entry_t
  <2>2. p \in Nat \ {0} /\ p + 16 \in Nat \ {0}
    BY <1>1
  <2>3. p \in Positions /\ p + 16 \in Positions
    <3>1. Offset(k) = p /\ Offset(k) + 0 = p /\ Offset(k) + 16 = p + 16
      BY <1>1 DEF Offset, ENTRY_SIZE
    <3> QED BY <1>2, <3>1 DEF Positions
  <2>4. /\ (p - 4) \div ENTRY_SIZE + 1 = k /\ (p - 4) % ENTRY_SIZE = 0
        /\ (p + 16 - 4) \div ENTRY_SIZE + 1 = k /\ (p + 16 - 4) % ENTRY_SIZE = 16
    BY <1>1 DEF ENTRY_SIZE
  <2> HIDE DEF p
  <2>5. gen_filetable[p] = Arguments[k].name
    BY <2>2, <2>3, <2>4 DEF gen_filetable, Table
  <2>6. gen_filetable[p + 16] = Arguments[k].sector
    BY <2>2, <2>3, <2>4 DEF gen_filetable, Table
  <2> QED BY <1>2, <1>3, <2>1, <2>3, <2>5, <2>6
<1> QED
  BY <1>3, <1>4

(* A set of numbers has a least one.                                       *)
LEMMA Smallest ==
  ASSUME NEW T \in SUBSET Nat, T # {}
  PROVE  \E x \in T : \A y \in T : x <= y
<1>1. PICK x \in T : \A y \in T : ~ (<<y, x>> \in OpToRel(<, Nat))
  BY NatLessThanWellFounded, WFMin
<1>2. \A y \in T : ~ (y < x)
  BY <1>1 DEF OpToRel
<1> QED
  BY <1>2

(* A table that is either empty or the tool's.                             *)
IsTable == filetable \in {EmptyTable, gen_filetable}

(* A lookup finds the sector of the program of that name, or -1.           *)
LEMMA LookupFacts ==
  ASSUME IsTable, NEW n
  PROVE  \/ lookup_task_sector(n) = UintModulus - 1
         \/ \E k \in DOMAIN Programs :
              Programs[k] = n /\ lookup_task_sector(n) = ProgramSector(k)
<1> DEFINE found == {j \in 0 .. filetable[0] - 1 :
                       filetable[filetable_entry_t(j).name] = n}
<1>1. Len(Programs) \in Nat /\ DOMAIN Programs = 1 .. Len(Programs)
  BY ProgramsAssumption, LenProperties
<1>2. lookup_task_sector(n) = IF found = {} THEN UintModulus - 1
                              ELSE filetable[filetable_entry_t(Min(found)).sector]
  BY DEF lookup_task_sector
<1>3. CASE filetable = EmptyTable
  <2>1. found = {}
    BY <1>3 DEF EmptyTable
  <2> QED BY <1>2, <2>1
<1>4. CASE filetable = gen_filetable /\ found # {}
  <2>1. filetable[0] = Len(Programs) /\ found \in SUBSET Nat
    BY <1>1, <1>4, TableFields
  <2>2. Min(found) \in found
    <3> HIDE DEF found
    <3>1. \E x \in found : \A y \in found : x <= y
      BY <1>4, <2>1, Smallest
    <3> QED BY <3>1 DEF Min
  <2>3. PICK k \in 1 .. Len(Programs) : Min(found) = k - 1
    <3>1. Min(found) + 1 \in 1 .. Len(Programs) /\ Min(found) = (Min(found) + 1) - 1
      BY <1>1, <2>1, <2>2
    <3> QED BY <3>1
  <2>4. filetable[filetable_entry_t(k - 1).name] = n
    BY <2>2, <2>3
  <2>5. filetable[filetable_entry_t(k - 1).name] = Programs[k]
        /\ filetable[filetable_entry_t(k - 1).sector] = ProgramSector(k)
    BY <1>4, TableFields
  <2> HIDE DEF found
  <2> QED BY <1>1, <1>2, <1>4, <2>3, <2>4, <2>5
<1>5. CASE filetable = gen_filetable /\ found = {}
  BY <1>2, <1>5
<1> QED
  BY <1>3, <1>4, <1>5 DEF IsTable

(* It is a uint32_t.                                                       *)
LEMMA LookupInRange ==
  ASSUME IsTable, NEW n
  PROVE  lookup_task_sector(n) \in 0 .. UintModulus - 1
<1>1. LbaModulus \in Nat \ {0} /\ UintModulus = 16 * LbaModulus
  BY SectorsAssumption DEF UintModulus
<1>2. \A k \in DOMAIN Programs : ProgramSector(k) \in 0 .. LbaModulus - 2
  BY ProgramSectors
<1>3. \A m \in 0 .. LbaModulus - 2 : m \in 0 .. UintModulus - 1
  BY <1>1
<1>4. UintModulus - 1 \in 0 .. UintModulus - 1
  BY <1>1
<1> QED
  BY <1>2, <1>3, <1>4, LookupFacts

-----------------------------------------------------------------------------
(* The loader                                                              *)

(* Which sector is being read, and that none is when exec does not read.   *)
Reading ==
  /\ pc \notin {"load_filetable", "load_task"} => step = "returned"
  /\ pc = "load_filetable" => start = FileTableSector /\ count = 1
  /\ pc = "load_task" => start = lookup_task_sector(name) /\ count = 1

(* The invariant of the loader on its driver.                              *)
IInv == AtaIInv /\ LoaderTypeOK /\ Reading /\ RunsNamedProgram

(* Either table has the fields of all the entries it counts.               *)
LEMMA TableType ==
  ASSUME IsTable
  PROVE  \A i \in 0 .. filetable[0] - 1 :
           {filetable_entry_t(i).name, filetable_entry_t(i).sector}
             \subseteq DOMAIN filetable
<1>1. CASE filetable = EmptyTable
  BY <1>1 DEF EmptyTable
<1>2. CASE filetable = gen_filetable
  <2>1. Len(Programs) \in Nat /\ filetable[0] = Len(Programs)
    BY <1>2, ProgramsAssumption, LenProperties, TableFields
  <2> SUFFICES ASSUME NEW i \in 0 .. filetable[0] - 1
               PROVE  {filetable_entry_t(i).name, filetable_entry_t(i).sector}
                        \subseteq DOMAIN filetable
    OBVIOUS
  <2>2. PICK k \in 1 .. Len(Programs) : i = k - 1
    <3>1. i + 1 \in 1 .. Len(Programs) /\ i = (i + 1) - 1
      BY <2>1
    <3> QED BY <3>1
  <2> QED BY <1>2, <2>2, TableFields
<1> QED
  BY <1>1, <1>2 DEF IsTable

(* What is left of the type invariant.                                     *)
LoaderTypes ==
  /\ pc \in {"shell", "load_filetable", "lookup", "load_task", "running",
             "unknown"}
  /\ name \in Names
  /\ IsTable
  /\ filetable_loaded \in BOOLEAN
  /\ memory \in ToSet(Programs) \cup {Nothing}
  /\ failed \in BOOLEAN

(* The type invariant says more only of the table, where it follows.       *)
LEMMA LoaderTypesSuffice == LoaderTypes <=> LoaderTypeOK
  BY TableType DEF LoaderTypes, LoaderTypeOK, IsTable

(* A read that the loader asks for is a call of the driver.                *)
LEMMA ReadIsCall ==
  ASSUME NEW s \in 0 .. UintModulus - 1, read_sectors(s, 1)
  PROVE  AnyCall
<1>1. 1 \in 1 .. 255
  OBVIOUS
<1> QED
  BY <1>1 DEF AnyCall

-----------------------------------------------------------------------------
(* Its invariant                                                           *)

(* -1 as an address selects the drive that is not there.                   *)
LEMMA MinusOneSelectsNothing == DriveBit(UintModulus - 1) = 1
<1>1. LbaModulus \in Nat \ {0} /\ UintModulus = 16 * LbaModulus
  BY SectorsAssumption DEF UintModulus
<1>2. UintModulus - 1 = 15 * LbaModulus + (LbaModulus - 1)
  BY <1>1
<1>3. (15 * LbaModulus + (LbaModulus - 1)) \div LbaModulus = 15
  BY <1>1
<1> QED
  BY <1>2, <1>3 DEF DriveBit

(* At the start no program is known and nothing has been read.             *)
LEMMA InitIInv == Init => IInv
<1> SUFFICES ASSUME Init PROVE IInv
  OBVIOUS
<1>1. LoaderTypes
  BY DEF Init, LoaderTypes, IsTable, Names
<1>2. Reading /\ RunsNamedProgram
  BY DEF Init, AtaInit, Reading, RunsNamedProgram
<1>3. AtaIInv
  BY AtaInitIInv DEF Init
<1> QED
  BY <1>1, <1>2, <1>3, LoaderTypesSuffice DEF IInv

(* What the driver and the drive do is nothing to the loader.              *)
LEMMA DiskKeeps ==
  ASSUME IInv, Disk
  PROVE  LoaderTypes' /\ Reading' /\ RunsNamedProgram'
<1>1. UNCHANGED <<pc, name, failed, filetable, filetable_loaded, memory>>
  BY DEF Disk, LoaderWaits, loader
<1>2. UNCHANGED <<start, count>> /\ (step = "returned" => step' = "returned")
  BY DEF Disk, Driver, SendCommand, ReadSector, SectorReady, Break, LoopEnds, Poll,
         DriveEnds, ataVars, driver
<1>3. LoaderTypes
  BY LoaderTypesSuffice DEF IInv
<1>4. LoaderTypes'
  BY <1>1, <1>3 DEF LoaderTypes, IsTable
<1>5. lookup_task_sector(name)' = lookup_task_sector(name)
  BY <1>1 DEF lookup_task_sector
<1> QED
  BY <1>1, <1>2, <1>4, <1>5 DEF IInv, Reading, RunsNamedProgram

(* exec.                                                                   *)
LEMMA ExecKeeps ==
  ASSUME IInv, NEW n \in Names, exec(n)
  PROVE  LoaderTypes' /\ Reading' /\ RunsNamedProgram'
<1>1. LoaderTypes
  BY LoaderTypesSuffice DEF IInv
<1>2. /\ name' = n /\ failed' = FALSE /\ pc' \in {"lookup", "load_filetable"}
      /\ UNCHANGED <<filetable, filetable_loaded, memory>>
  BY DEF exec, loader
<1>3. LoaderTypes'
  BY <1>1, <1>2 DEF LoaderTypes, IsTable
<1>4. Reading'
  BY DEF exec, read_sectors, ataVars, driver, Reading
<1> QED
  BY <1>2, <1>3, <1>4 DEF RunsNamedProgram

(* The end of load_filetable.                                              *)
LEMMA FiletableReadKeeps ==
  ASSUME IInv, FiletableRead
  PROVE  LoaderTypes' /\ Reading' /\ RunsNamedProgram'
<1>1. LoaderTypes
  BY LoaderTypesSuffice DEF IInv
<1>2. /\ pc' = "lookup" /\ UNCHANGED <<name, memory>> /\ filetable_loaded' = TRUE
      /\ filetable' \in {filetable, gen_filetable} /\ step' = "returned"
  BY DEF FiletableRead, load_filetable_returns, ataVars, driver
<1>3. failed' \in BOOLEAN
  BY <1>1 DEF FiletableRead, DriveFailed, LoaderTypes
<1>4. LoaderTypes'
  <2>1. gen_filetable' = gen_filetable /\ EmptyTable' = EmptyTable
    OBVIOUS
  <2> QED BY <1>1, <1>2, <1>3, <2>1 DEF LoaderTypes, IsTable
<1> QED
  BY <1>2, <1>4 DEF Reading, RunsNamedProgram

(* lookup_task_sector and the call of read_sectors after it.               *)
LEMMA LookupKeeps ==
  ASSUME IInv, Lookup
  PROVE  LoaderTypes' /\ Reading' /\ RunsNamedProgram'
<1>1. LoaderTypes
  BY LoaderTypesSuffice DEF IInv
<1>2. /\ pc' = "load_task" /\ start' = lookup_task_sector(name) /\ count' = 1
      /\ UNCHANGED <<name, failed, filetable, filetable_loaded, memory>>
  BY DEF Lookup, read_sectors, loader
<1>3. lookup_task_sector(name)' = lookup_task_sector(name)
  BY <1>2 DEF lookup_task_sector
<1>4. LoaderTypes'
  BY <1>1, <1>2 DEF LoaderTypes, IsTable
<1> QED
  BY <1>2, <1>3, <1>4 DEF Reading, RunsNamedProgram

(* The end of load_task: a sector that has been read is the program's.     *)
LEMMA LoadedIsNamed ==
  ASSUME IInv, TaskRead, read_count = 1
  PROVE  memory' = name /\ name \in ToSet(Programs)
<1>1. /\ start = lookup_task_sector(name) /\ count = 1 /\ step = "returned"
      /\ IsTable
  BY LoaderTypesSuffice DEF IInv, Reading, TaskRead, LoaderTypes
<1>2. selected = DriveBit(start) /\ selected = 0
  BY <1>1 DEF IInv, AtaIInv, Outstanding
<1>3. start # UintModulus - 1
  <2> SUFFICES ASSUME start = UintModulus - 1 PROVE FALSE
    OBVIOUS
  <2>1. DriveBit(start) = DriveBit(UintModulus - 1)
    OBVIOUS
  <2>2. 0 # 1
    OBVIOUS
  <2> HIDE DEF DriveBit
  <2> QED BY <1>2, <2>1, <2>2, MinusOneSelectsNothing, Zenon
<1>4. PICK k \in DOMAIN Programs : Programs[k] = name /\ start = ProgramSector(k)
  BY <1>1, <1>3, LookupFacts
<1>5. Lower(start) = start /\ start \in Nat
  <2>1. LbaModulus \in Nat \ {0} /\ start \in 0 .. LbaModulus - 2
    BY <1>4, ProgramSectors, SectorsAssumption
  <2>2. start \in 0 .. UintModulus - 1
    BY DEF IInv, AtaIInv, AtaTypeOK
  <2> QED BY <2>1, <2>2, LowerFacts
<1>6. data = [j \in 1 .. 1 |-> start + j - 1]
  BY <1>5 DEF IInv, AtaIInv, Stored
<1>7. data # <<>> /\ data[1] = start
  <2>1. data[1] = start
    BY <1>5, <1>6
  <2>2. Len(data) = 1 /\ Len(<<>>) = 0
    BY <1>6
  <2> QED BY <2>1, <2>2
<1>8. memory' = ProgramIn(start)
  BY <1>7 DEF TaskRead
<1>9. Programs[k] \in ToSet(Programs)
  BY <1>4 DEF ToSet
<1> QED
  BY <1>4, <1>8, <1>9, ProgramSectors

(* The end of load_task keeps the invariant, read or not.                  *)
LEMMA TaskReadKeeps ==
  ASSUME IInv, TaskRead
  PROVE  LoaderTypes' /\ Reading' /\ RunsNamedProgram'
<1>1. LoaderTypes
  BY LoaderTypesSuffice DEF IInv
<1>2. /\ pc' \in {"running", "unknown"} /\ step' = "returned"
      /\ pc' = "running" => read_count = 1
      /\ UNCHANGED <<name, filetable, filetable_loaded>>
  BY DEF TaskRead, Loaded, ataVars, driver
<1>3. failed' \in BOOLEAN
  BY <1>1 DEF TaskRead, DriveFailed, LoaderTypes
<1>4. memory' \in ToSet(Programs) \cup {Nothing}
  BY <1>1, ProgramOrNothing DEF TaskRead, LoaderTypes
<1>5. LoaderTypes'
  BY <1>1, <1>2, <1>3, <1>4 DEF LoaderTypes, IsTable
<1> QED
  BY <1>2, <1>5, LoadedIsNamed DEF Reading, RunsNamedProgram

(* The program returns, or its name is reported as unknown.                *)
LEMMA BackToShellKeeps ==
  ASSUME IInv, BackToShell
  PROVE  LoaderTypes' /\ Reading' /\ RunsNamedProgram'
<1>1. LoaderTypes
  BY LoaderTypesSuffice DEF IInv
<1>2. LoaderTypes'
  BY <1>1 DEF BackToShell, loader, LoaderTypes, IsTable
<1> QED
  BY <1>2 DEF BackToShell, IInv, Reading, RunsNamedProgram, ataVars, driver

(* To the driver the loader is a caller like any other.                    *)
LEMMA LoaderIsCaller ==
  ASSUME IInv, [LoaderNext]_vars
  PROVE  [AnyCall \/ Driver \/ Poll \/ DriveEnds]_ataVars
<1>1. CASE UNCHANGED vars
  BY <1>1 DEF vars
<1>2. ASSUME NEW n \in Names, exec(n)
      PROVE  AnyCall \/ UNCHANGED ataVars
  <2>1. FileTableSector \in 0 .. UintModulus - 1
    BY SectorsAssumption DEF FileTableSector, UintModulus
  <2> QED BY <1>2, <2>1, ReadIsCall DEF exec
<1>3. CASE Lookup
  <2>1. lookup_task_sector(name) \in 0 .. UintModulus - 1
    BY LookupInRange, LoaderTypesSuffice DEF IInv, LoaderTypes
  <2> QED BY <1>3, <2>1, ReadIsCall DEF Lookup
<1>4. CASE FiletableRead \/ TaskRead \/ BackToShell
  BY <1>4 DEF FiletableRead, TaskRead, BackToShell
<1>5. CASE Disk
  BY <1>5 DEF Disk
<1> QED
  BY <1>1, <1>2, <1>3, <1>4, <1>5 DEF LoaderNext, Loading

(* Every step keeps the invariant,                                         *)
LEMMA NextIInv == IInv /\ [LoaderNext]_vars => IInv'
<1> SUFFICES ASSUME IInv, [LoaderNext]_vars PROVE IInv'
  OBVIOUS
<1>1. AtaIInv'
  BY LoaderIsCaller, AtaNextIInv DEF IInv
<1>2. LoaderTypes' /\ Reading' /\ RunsNamedProgram'
  <2>1. CASE UNCHANGED vars
    <3>1. LoaderTypes
      BY LoaderTypesSuffice DEF IInv
    <3>2. lookup_task_sector(name)' = lookup_task_sector(name)
      BY <2>1 DEF vars, loader, lookup_task_sector
    <3> QED BY <2>1, <3>1, <3>2
        DEF vars, loader, ataVars, driver, IInv, LoaderTypes, IsTable, Reading,
            RunsNamedProgram
  <2> QED BY <2>1, DiskKeeps, ExecKeeps, FiletableReadKeeps, LookupKeeps, TaskReadKeeps,
             BackToShellKeeps DEF LoaderNext, Loading
<1>3. LoaderTypeOK'
  <2>1. LoaderTypes' <=> LoaderTypeOK'
    BY LoaderTypesSuffice, PTL
  <2> QED BY <1>2, <2>1
<1> QED
  BY <1>1, <1>2, <1>3 DEF IInv

(* so it holds in every state.                                             *)
LEMMA Invariance == LoaderSpec => []IInv
  BY InitIInv, NextIInv, PTL DEF LoaderSpec

-----------------------------------------------------------------------------
(* What it shows                                                           *)

(* The variables of the loader keep their types; above all the file table  *)
(* has in it every field that lookup_task_sector looks at.                 *)
THEOREM LoaderTypeCorrect == LoaderSpec => []LoaderTypeOK
<1>1. IInv => LoaderTypeOK
  BY DEF IInv
<1> QED
  BY <1>1, Invariance, PTL

(* exec runs the program that was named and no other, whichever reads      *)
(* failed before: not a stale one, and none for an unknown name.           *)
THEOREM RunsWhatWasNamed == LoaderSpec => []RunsNamedProgram
<1>1. IInv => RunsNamedProgram
  BY DEF IInv
<1> QED
  BY <1>1, Invariance, PTL

(* The loader is one of the callers that the driver's theorems are about.  *)
THEOREM LoaderUsesDriver == LoaderSpec => AtaSpec
<1>1. Init => AtaInit
  BY DEF Init
<1>2. IInv /\ [LoaderNext]_vars => [AnyCall \/ Driver \/ Poll \/ DriveEnds]_ataVars
  BY LoaderIsCaller
<1> QED
  BY <1>1, <1>2, Invariance, PTL DEF LoaderSpec, AtaSpec

(* Every step of the loader is one of module Command, or none.             *)
LEMMA StepIsCommand ==
  ASSUME IInv, IInv', [LoaderNext]_vars
  PROVE  [Answer!Next]_(Answer!vars)
<1> USE DEF Answer!vars
<1>1. CASE UNCHANGED vars
  BY <1>1 DEF vars, loader
<1>2. CASE Disk
  BY <1>2 DEF Disk, LoaderWaits, loader
<1>3. ASSUME NEW n \in Names, exec(n)
      PROVE  Answer!Next
  <2>1. pc = "shell" /\ pc' \in {"lookup", "load_filetable"} /\ name' = n
    BY <1>3 DEF exec
  <2>2. Answer!Ask(n)
    BY <2>1 DEF Answer!Ask
  <2> QED BY <2>2 DEF Answer!Next
<1>4. CASE FiletableRead \/ Lookup
  <2>1. /\ pc \in {"load_filetable", "lookup"} /\ pc' \in {"lookup", "load_task"}
        /\ name' = name
    BY <1>4 DEF FiletableRead, Lookup
  <2> QED BY <2>1
<1>5. CASE TaskRead
  <2>1. pc = "load_task" /\ name' = name
    BY <1>5 DEF TaskRead
  <2>2. CASE read_count = 1
    <3>1. pc' = "running" /\ memory' = name /\ name \in ToSet(Programs)
      BY <1>5, <2>2, LoadedIsNamed DEF TaskRead, Loaded
    <3>2. Answer!Run
      BY <2>1, <3>1 DEF Answer!Run
    <3> QED BY <3>2 DEF Answer!Next
  <2>3. CASE read_count # 1
    <3>1. pc' = "unknown"
      BY <1>5, <2>3 DEF TaskRead, Loaded
    <3>2. Answer!Refuse
      BY <2>1, <3>1 DEF Answer!Refuse
    <3> QED BY <3>2 DEF Answer!Next
  <2> QED BY <2>2, <2>3
<1>6. CASE BackToShell
  <2>1. pc \in {"running", "unknown"} /\ pc' = "shell" /\ name' = name
    BY <1>6 DEF BackToShell
  <2>2. Answer!Return
    BY <2>1 DEF Answer!Return
  <2> QED BY <2>2 DEF Answer!Next
<1> QED
  BY <1>1, <1>2, <1>3, <1>4, <1>5, <1>6 DEF LoaderNext, Loading

(* exec in the terms of module Command, from the shell's call to its       *)
(* return: a command runs its program or is refused, once, and the reads   *)
(* and the lookup in between are no steps of it. That every command gets   *)
(* its answer in the end is left to the model checker.                     *)
THEOREM LoaderAnswers == LoaderSpec => Answer!Init /\ [][Answer!Next]_(Answer!vars)
<1>1. Init => Answer!Init
  BY DEF Init, Answer!Init, Names
<1>2. IInv /\ IInv' /\ [LoaderNext]_vars => [Answer!Next]_(Answer!vars)
  BY StepIsCommand
<1> QED
  BY <1>1, <1>2, Invariance, PTL DEF LoaderSpec

-----------------------------------------------------------------------------
(* The tool's loop over the resource table                                 *)

(* A file of which the fields are in the sectors that are read.            *)
Within == file \in FontFiles /\ DOMAIN file \subseteq 0 .. LastPosition - 2

(* The resources from a position on, those of them that are of a type, and *)
(* where the next type is.                                                 *)
Here(p, n, shift_count) ==
  [i \in 1 .. n |-> FileOffset(Field(p + 12 * (i - 1)), shift_count)]
OfType(t, type, found) == IF t = type THEN found ELSE <<>>
Following(p) == p + 8 + 12 * Field(p + 2)

(* One turn of the tool's loop: what it finds from p on, if the later      *)
(* turns find rest.                                                        *)
AtType(rest, p, type, shift_count) ==
  IF Field(p) = 0 THEN <<>>
  ELSE OfType(Field(p), type, Here(p + 8, Field(p + 2), shift_count)) \o rest[Following(p)]

(* A field is a number, and the next type is further on.                   *)
LEMMA FieldFacts ==
  ASSUME file \in FontFiles, NEW p \in Nat
  PROVE  /\ Field(p) \in Nat
         /\ Following(p) \in Nat /\ Following(p) > p
<1>1. \A q \in Nat : Field(q) \in Nat
  BY FontAssumption DEF Field
<1>2. p + 2 \in Nat /\ Field(p) \in Nat
  BY <1>1
<1>3. PICK n : n = Field(p + 2)
  OBVIOUS
<1> QED
  BY <1>1, <1>2, <1>3 DEF Following

(* The resources of a type: so many positions, one after the other.        *)
LEMMA HereFacts ==
  ASSUME file \in FontFiles, NEW p \in Nat, NEW n \in Nat, NEW s \in Nat
  PROVE  /\ Here(p, n, s) \in Seq(Nat) /\ Len(Here(p, n, s)) = n
         /\ n > 0 => Here(p, n, s)
                       = <<FileOffset(Field(p), s)>> \o Here(p + 12, n - 1, s)
<1>1. \A m \in Nat : FileOffset(m, s) \in Nat
  BY DEF FileOffset, Uint16
<1>2. \A q \in Nat, k \in Nat : Here(q, k, s) \in Seq(Nat) /\ Len(Here(q, k, s)) = k
  <2> SUFFICES ASSUME NEW q \in Nat, NEW k \in Nat
               PROVE  Here(q, k, s) \in Seq(Nat) /\ Len(Here(q, k, s)) = k
    OBVIOUS
  <2>1. ASSUME NEW i \in 1 .. k PROVE FileOffset(Field(q + 12 * (i - 1)), s) \in Nat
    <3>1. q + 12 * (i - 1) \in Nat
      OBVIOUS
    <3> QED BY <1>1, <3>1, FieldFacts
  <2> QED BY <2>1 DEF Here
<1>3. ASSUME n > 0
      PROVE  Here(p, n, s) = <<FileOffset(Field(p), s)>> \o Here(p + 12, n - 1, s)
  <2> DEFINE first == <<FileOffset(Field(p), s)>>
             rest == Here(p + 12, n - 1, s)
  <2>1. first \in Seq(Nat) /\ Len(first) = 1 /\ first[1] = FileOffset(Field(p), s)
    BY <1>1, FieldFacts
  <2>2. rest \in Seq(Nat) /\ Len(rest) = n - 1
    BY <1>2, <1>3
  <2>3. first \o rest \in Seq(Nat) /\ Len(first \o rest) = n
    <3> HIDE DEF first, rest
    <3>1. first \o rest \in Seq(Nat) /\ Len(first \o rest) = Len(first) + Len(rest)
      BY <2>1, <2>2, ConcatProperties, Zenon
    <3> QED BY <2>1, <2>2, <3>1
  <2>4. ASSUME NEW i \in 1 .. n PROVE Here(p, n, s)[i] = (first \o rest)[i]
    <3>1. Here(p, n, s)[i] = FileOffset(Field(p + 12 * (i - 1)), s)
      BY DEF Here
    <3>2. CASE i = 1
      <4>1. p + 12 * (i - 1) = p
        BY <3>2
      <4>2. (first \o rest)[i] = first[1]
        <5> HIDE DEF first, rest
        <5> QED BY <2>1, <2>2, <3>2, ConcatProperties
      <4> QED BY <2>1, <3>1, <4>1, <4>2
    <3>3. CASE i # 1
      <4>1. i - 1 \in 1 .. n - 1 /\ (p + 12) + 12 * ((i - 1) - 1) = p + 12 * (i - 1)
        BY <3>3
      <4>2. (first \o rest)[i] = rest[i - 1]
        <5> HIDE DEF first, rest
        <5>1. /\ Len(first \o rest) = Len(first) + Len(rest)
              /\ \A k \in 1 .. Len(first) + Len(rest) :
                   (first \o rest)[k] = IF k <= Len(first) THEN first[k]
                                        ELSE rest[k - Len(first)]
          BY <2>1, <2>2, ConcatProperties, Zenon
        <5> QED BY <2>1, <2>2, <3>3, <5>1
      <4>3. rest[i - 1] = FileOffset(Field((p + 12) + 12 * ((i - 1) - 1)), s)
        BY <4>1 DEF Here
      <4> QED BY <3>1, <4>1, <4>2, <4>3
    <3> QED BY <3>2, <3>3
  <2>5. Here(p, n, s) \in Seq(Nat) /\ Len(Here(p, n, s)) = n
    BY <1>2
  <2> HIDE DEF first, rest
  <2>6. Here(p, n, s) = first \o rest
    BY <2>3, <2>4, <2>5, SeqEqual
  <2> QED BY <2>6 DEF first, rest
<1> QED
  BY <1>2, <1>3

(* What the turns from position q on find, all taken together.             *)
Turns(rest, q, type, shift_count) ==
  /\ rest \in [Nat -> Seq(Nat)]
  /\ \A p \in Nat : p >= q => rest[p] = AtType(rest, p, type, shift_count)

(* A turn finds positions in the file, if the later ones do.               *)
LEMMA TurnType ==
  ASSUME file \in FontFiles, NEW type, NEW s \in Nat, NEW rest, NEW p \in Nat,
         rest[Following(p)] \in Seq(Nat)
  PROVE  AtType(rest, p, type, s) \in Seq(Nat)
<1>1. p + 8 \in Nat /\ p + 2 \in Nat
  OBVIOUS
<1>2. Here(p + 8, Field(p + 2), s) \in Seq(Nat)
  BY <1>1, FieldFacts, HereFacts
<1>4. <<>> \in Seq(Nat)
  BY EmptySeq
<1> DEFINE here == OfType(Field(p), type, Here(p + 8, Field(p + 2), s))
<1>5. here \in Seq(Nat)
  BY <1>2, <1>4 DEF OfType
<1> HIDE DEF here
<1>6. here \o rest[Following(p)] \in Seq(Nat)
  BY <1>5, ConcatProperties, Zenon
<1>3. OfType(Field(p), type, Here(p + 8, Field(p + 2), s)) \o rest[Following(p)] \in Seq(Nat)
  BY <1>6 DEF here
<1> QED
  BY <1>3, <1>4 DEF AtType

(* One more turn, in front of the others.                                  *)
LEMMA TurnBefore ==
  ASSUME file \in FontFiles, NEW type, NEW s \in Nat, NEW q \in Nat, NEW rest,
         Turns(rest, q + 1, type, s)
  PROVE  \E all : Turns(all, q, type, s)
<1> DEFINE all == [p \in Nat |-> IF p = q THEN AtType(rest, q, type, s) ELSE rest[p]]
<1>1. AtType(rest, q, type, s) \in Seq(Nat)
  BY FieldFacts, TurnType DEF Turns
<1>2. all \in [Nat -> Seq(Nat)]
  BY <1>1 DEF Turns
<1>3. ASSUME NEW p \in Nat, p >= q
      PROVE  all[p] = AtType(all, p, type, s)
  <2>1. Following(p) \in Nat /\ Following(p) # q
    BY <1>3, FieldFacts
  <2>2. all[Following(p)] = rest[Following(p)]
    BY <2>1
  <2>3. AtType(all, p, type, s) = AtType(rest, p, type, s)
    <3> HIDE DEF all
    <3> QED BY <2>2 DEF AtType
  <2>4. all[p] = AtType(rest, p, type, s)
    BY <1>3 DEF Turns
  <2> QED BY <2>3, <2>4
<1> HIDE DEF all
<1>4. Turns(all, q, type, s)
  BY <1>2, <1>3 DEF Turns
<1> QED
  BY <1>4

(* Beyond the file every turn is the last.                                 *)
LEMMA LastTurns ==
  ASSUME Within, NEW type, NEW s
  PROVE  \E all : Turns(all, LastPosition, type, s)
<1> DEFINE all == [p \in Nat |-> <<>>]
<1>1. LastPosition \in Nat
  BY FontAssumption DEF LastPosition, SectorBytes
<1>2. all \in [Nat -> Seq(Nat)]
  BY EmptySeq
<1>3. ASSUME NEW p \in Nat, p >= LastPosition
      PROVE  all[p] = AtType(all, p, type, s)
  <2>1. Field(p) = 0
    BY <1>1, <1>3 DEF Within, Field
  <2>2. all[p] = <<>>
    OBVIOUS
  <2>3. AtType(all, p, type, s) = <<>>
    <3> HIDE DEF all
    <3> QED BY <2>1 DEF AtType
  <2> QED BY <2>2, <2>3
<1> HIDE DEF all
<1>4. Turns(all, LastPosition, type, s)
  BY <1>2, <1>3 DEF Turns
<1> QED
  BY <1>4

(* So the loop comes to its end from everywhere in the file.               *)
LEMMA AllTurns ==
  ASSUME Within, NEW type, NEW s \in Nat
  PROVE  \E all : Turns(all, 0, type, s)
<1>1. PICK last \in Nat : last = LastPosition
  BY FontAssumption DEF LastPosition, SectorBytes
<1> DEFINE without == {q \in 0 .. last : \E all : Turns(all, q, type, s)}
<1>2. without \in SUBSET Nat /\ last \in without
  BY <1>1, LastTurns
<1>3. PICK q \in without : \A r \in without : q <= r
  BY <1>2, Smallest
<1>4. q \in 0 .. last /\ \E all : Turns(all, q, type, s)
  BY <1>3
<1>5. q = 0
  <2> SUFFICES ASSUME q # 0 PROVE FALSE
    OBVIOUS
  <2>1. q - 1 \in 0 .. last /\ (q - 1) + 1 = q
    BY <1>1, <1>4
  <2>2. \E all : Turns(all, q - 1, type, s)
    BY <1>4, <2>1, TurnBefore DEF Within
  <2>3. q - 1 \in without
    BY <2>1, <2>2
  <2> QED BY <1>3, <1>4, <2>3
<1> QED
  BY <1>4, <1>5

(* What the loop finds are positions.                                      *)
LEMMA TurnsType ==
  ASSUME Within, NEW type, NEW s \in Nat, NEW all,
         \A p \in Nat : all[p] = AtType(all, p, type, s)
  PROVE  \A p \in Nat : all[p] \in Seq(Nat)
<1>1. PICK last \in Nat : last = LastPosition
  BY FontAssumption DEF LastPosition, SectorBytes
<1>2. ASSUME NEW p \in Nat, p >= last PROVE all[p] \in Seq(Nat)
  <2>1. Field(p) = 0
    BY <1>1, <1>2 DEF Within, Field
  <2>2. AtType(all, p, type, s) = <<>>
    BY <2>1 DEF AtType
  <2> QED BY <2>2, EmptySeq
<1> DEFINE typed == {q \in 0 .. last : \A p \in Nat : p >= q => all[p] \in Seq(Nat)}
<1>3. typed \in SUBSET Nat /\ last \in typed
  BY <1>2
<1>4. PICK q \in typed : \A r \in typed : q <= r
  BY <1>3, Smallest
<1>5. q = 0
  <2> SUFFICES ASSUME q # 0 PROVE FALSE
    OBVIOUS
  <2>1. q - 1 \in 0 .. last /\ q - 1 \in Nat
    BY <1>1, <1>4
  <2>2. Following(q - 1) \in Nat /\ Following(q - 1) > q - 1
    BY <2>1, FieldFacts DEF Within
  <2>3. all[Following(q - 1)] \in Seq(Nat)
    BY <1>4, <2>1, <2>2
  <2>4. all[q - 1] \in Seq(Nat)
    BY <2>1, <2>3, TurnType DEF Within
  <2>5. ASSUME NEW p \in Nat, p >= q - 1 PROVE all[p] \in Seq(Nat)
    <3>1. p = q - 1 \/ p >= q
      BY <2>1, <2>5
    <3> QED BY <1>4, <2>4, <3>1
  <2>6. q - 1 \in typed
    BY <2>1, <2>5
  <2>7. q \in Nat
    BY <1>4
  <2> HIDE DEF typed
  <2>8. q <= q - 1
    BY <1>4, <2>6
  <2> QED BY <2>7, <2>8
<1> QED
  BY <1>4, <1>5

(* The loop of the tool is what each of its turns says.                    *)
LEMMA ToolTurns ==
  ASSUME Within, NEW type, NEW s \in Nat
  PROVE  Turns(tool_blocks(type, s), 0, type, s)
<1> DEFINE Loop(all) == all = [p \in Nat |-> AtType(all, p, type, s)]
<1>1. PICK all : Turns(all, 0, type, s)
  BY AllTurns
<1>2. tool_blocks(type, s) = CHOOSE g : g = [p \in Nat |-> AtType(g, p, type, s)]
  BY DEF tool_blocks, AtType, Here, OfType, Following
<1>3. Loop(all)
  BY <1>1 DEF Turns
<1>4. tool_blocks(type, s) = CHOOSE g : Loop(g)
  BY <1>2
<1> HIDE DEF Loop
<1>5. Loop(CHOOSE g : Loop(g))
  BY <1>3, Zenon
<1>6. Loop(tool_blocks(type, s))
  BY <1>4, <1>5
<1>7. tool_blocks(type, s) = [p \in Nat |-> AtType(tool_blocks(type, s), p, type, s)]
  BY <1>6 DEF Loop
<1>8. \A p \in Nat : tool_blocks(type, s)[p] = AtType(tool_blocks(type, s), p, type, s)
  BY <1>7, Zenon
<1>9. \A p \in Nat : tool_blocks(type, s)[p] \in Seq(Nat)
  BY <1>8, TurnsType
<1>10. \E f : tool_blocks(type, s) = [p \in Nat |-> f[p]]
  BY <1>7, Zenon
<1> QED
  BY <1>8, <1>9, <1>10 DEF Turns

-----------------------------------------------------------------------------
(* font.c                                                                  *)

(* The behaviours with gui_init: whatever the file and wherever the drive  *)
(* fails.                                                                  *)
FontMove == FontNext \/ ((Driver \/ Poll \/ DriveEnds) /\ UNCHANGED fontVars)
FontSpec == AtaInit /\ FontInit /\ [][FontMove]_<<ataVars, fontVars>>

(* Tables with no more entries than there is room for; the last one taken  *)
(* is in one of them, or none has been.                                    *)
IsTables(t) ==
  /\ t = [font_dirs |-> t.font_dirs, fonts |-> t.fonts, entry |-> t.entry, wild |-> t.wild]
  /\ t.font_dirs \in Seq(Nat) /\ Len(t.font_dirs) <= MAX_FONT_DIRS
  /\ t.fonts \in Seq(Nat) /\ Len(t.fonts) <= MAX_FONTS
  /\ t.wild \in BOOLEAN
  /\ \/ t.entry = <<>>
     \/ \E n \in 1 .. Len(t.font_dirs) : t.entry = <<"font_dirs", n>>
     \/ \E n \in 1 .. Len(t.fonts) : t.entry = <<"fonts", n>>

(* The types of the variables, whole.                                      *)
FontTypes ==
  /\ FontTypeOK
  /\ IsTables(tables)
  /\ fonts = [v2 |-> fonts.v2, v3 |-> fonts.v3]

(* What is parsed is what has been asked for, and nothing is filled in     *)
(* before it is there.                                                     *)
Parsing == gui \in {"resources", "fonts", "text"}
ReadFirst ==
  /\ gui = "loading" \/ Parsing => start = FontSector /\ count = FontSectors
  /\ Parsing => step = "returned"
  /\ ~ Parsing => tables = NoTables
  /\ gui \notin {"fonts", "text"} => fonts = NoFonts

(* A font file that fits and has been read to its end.                     *)
Whole == Within /\ FileFits /\ read_count = FontSectors /\ tool_signed

(* Where a walk may be.                                                    *)
Walks == [shift_count : Nat, buf : Nat, res_type_id : Nat, left : Nat]

(* The rest of the type that walk w is at, and all after it.               *)
ToComeOn(w, type) ==
  OfType(w.res_type_id, type, Here(w.buf, w.left, w.shift_count))
    \o tool_blocks(type, w.shift_count)[w.buf + 12 * w.left]

(* The resources of a type that the kernel has not come to yet.            *)
ToCome(type) == ToComeOn(walk, type)

(* Values that would be other types of resources.                          *)
OtherTypes == {file[p] : p \in DOMAIN file} \ {RES_TYPE_FONTDIR, RES_TYPE_FONT}

(* What the kernel has collected and what is to come are what the tool     *)
(* finds.                                                                  *)
Collecting ==
  /\ walk.left > 0 => walk.res_type_id \in {RES_TYPE_FONTDIR, RES_TYPE_FONT}
  /\ tool_resources(RES_TYPE_FONTDIR) = tables.font_dirs \o ToCome(RES_TYPE_FONTDIR)
  /\ tool_fonts = tables.fonts \o ToCome(RES_TYPE_FONT)
  /\ \A type \in OtherTypes : ToCome(type) = <<>>

(* Of a whole file nothing is missed, and no entry goes astray.            *)
Collected ==
  Whole => /\ Parsing => ~ tables.wild
           /\ gui = "resources" => Collecting
           /\ gui \in {"fonts", "text"} => tables.fonts = tool_fonts

(* The font that glyphs are taken from is the first one not of version 2.  *)
FirstOfVersion3 ==
  /\ fonts.v3 = <<>> => \A i \in 1 .. Listed : IsVersion2(tables.fonts[i])
  /\ fonts.v3 # <<>> =>
       \E i \in 1 .. Listed :
         /\ fonts.v3[1] = tables.fonts[i] /\ ~ IsVersion2(tables.fonts[i])
         /\ \A j \in 1 .. i - 1 : IsVersion2(tables.fonts[j])

(* What was drawn would be drawn again.                                    *)
Drawn == glyph # NotDrawn => gui = "text" /\ glyph.at = font_get_glyph(glyph.num)

(* The invariant of font.c.                                                *)
FontIInv == FontTypes /\ ReadFirst /\ Collected /\ FirstOfVersion3 /\ Drawn

(* Every word of the file and of what has been read of it is a number.     *)
LEMMA WordType ==
  ASSUME file \in FontFiles, NEW p
  PROVE  Field(p) \in Nat /\ word(p) \in Nat
<1>1. \A q : Field(q) \in Nat
  BY FontAssumption DEF Field
<1> QED
  BY <1>1 DEF word

(* Of a file read to its end font.c sees all that the tool sees.           *)
LEMMA WordIsField ==
  ASSUME AtaIInv, ReadFirst, gui = "loading" \/ Parsing, Within,
         read_count = FontSectors, NEW p \in Nat
  PROVE  word(p) = Field(p)
<1>1. /\ FontSector \in Nat /\ FontSector \in Sectors
      /\ LastPosition = FontSectors * 512 /\ FontSectors \in Nat
  BY FontAssumption DEF LastPosition, SectorBytes
<1>2. Lower(FontSector) = FontSector
  BY <1>1, SectorsAssumption DEF Lower
<1>3. data = [k \in 1 .. FontSectors |-> FontSector + k - 1]
  BY <1>2 DEF ReadFirst, AtaIInv, Stored
<1> DEFINE k == p \div 512 + 1
<1>4. /\ k \in Nat /\ k >= 1 /\ p = (k - 1) * 512 + (p % 512)
      /\ p % 512 \in 0 .. 511
  OBVIOUS
<1>5. word(p) = IF k \in DOMAIN data
                THEN Field((data[k] - FontSector) * 512 + (p % 512)) ELSE 0
  BY DEF word, SectorBytes
<1>6. CASE k <= FontSectors
  <2>1. k \in 1 .. FontSectors
    BY <1>1, <1>4, <1>6
  <2>2. k \in DOMAIN data /\ data[k] = FontSector + k - 1
    BY <1>3, <2>1
  <2>3. (data[k] - FontSector) * 512 + (p % 512) = p
    <3> HIDE DEF k
    <3>1. data[k] - FontSector = k - 1
      BY <1>1, <1>4, <2>2
    <3> QED BY <1>4, <3>1
  <2> QED BY <1>5, <2>2, <2>3
<1>7. CASE k > FontSectors
  <2>1. k \notin DOMAIN data
    <3>1. DOMAIN data = 1 .. FontSectors
      BY <1>3
    <3> HIDE DEF k
    <3> QED BY <1>1, <1>4, <1>7, <3>1
  <2>2. p >= LastPosition
    <3> HIDE DEF k
    <3> QED BY <1>1, <1>4, <1>7
  <2>3. Field(p) = 0
    BY <1>1, <2>2 DEF Within, Field
  <2> QED BY <1>5, <2>1, <2>3
<1> QED
  BY <1>1, <1>4, <1>6, <1>7

(* The tool reads the file, and nothing else.                              *)
LEMMA ToolKeeps ==
  ASSUME UNCHANGED file
  PROVE  /\ \A type : tool_resources(type)' = tool_resources(type)
         /\ \A type, s : tool_blocks(type, s)' = tool_blocks(type, s)
         /\ tool_fonts' = tool_fonts
         /\ UNCHANGED <<Within, tool_signed, OtherTypes>>
         /\ FileFits' <=> FileFits
<1>1. \A type, s : tool_blocks(type, s)' = tool_blocks(type, s)
  BY DEF tool_blocks, FileOffset, Uint16, Field
<1>2. \A p : Field(p)' = Field(p)
  BY DEF Field
<1>3. tool_signed' = tool_signed
  BY <1>2 DEF tool_signed, Field
<1>4. \A type : tool_resources(type)' = tool_resources(type)
  BY DEF tool_resources, tool_signed, tool_parse_ne, tool_parse_resource_table, tool_blocks,
         FileOffset, Uint16, Field
<1>5. tool_fonts' = tool_fonts
  BY <1>4 DEF tool_fonts
<1>6. UNCHANGED <<Within, OtherTypes>>
  BY DEF Within, OtherTypes
<1>7. FileFits' <=> FileFits
  BY <1>4, <1>5 DEF FileFits, tool_version, fontdir_entry_t, Field
<1> QED
  BY <1>1, <1>3, <1>4, <1>5, <1>6, <1>7

(* Nothing has been collected yet.                                         *)
LEMMA NothingYet ==
  ASSUME gui' \notin {"resources", "fonts", "text"}, fonts' = NoFonts, glyph' = NotDrawn
  PROVE  Collected' /\ FirstOfVersion3' /\ Drawn'
<1>1. Collected'
  BY DEF Collected, Parsing
<1>2. fonts.v3' = <<>> /\ Len(fonts.v2)' = 0 /\ Len(fonts.v3)' = 0
  BY EmptySeq DEF NoFonts
<1>3. Listed' = 0
  BY <1>2 DEF Listed
<1> QED
  BY <1>1, <1>2, <1>3 DEF FirstOfVersion3, Drawn

(* At first nothing is read.                                               *)
LEMMA FontInitIInv == AtaInit /\ FontInit => FontIInv
<1> SUFFICES ASSUME AtaInit, FontInit PROVE FontIInv
  OBVIOUS
<1>1. /\ file \in FontFiles /\ gui \in {"off", "font_load"} /\ walk = NoWalk
      /\ tables = NoTables /\ fonts = NoFonts /\ glyph = NotDrawn
  BY DEF FontInit
<1>2. <<>> \in Seq(Nat) /\ Len(<<>>) = 0
  BY EmptySeq
<1>3. Listed = 0
  BY <1>1, <1>2 DEF Listed, NoFonts
<1>4. FontTypeOK
  BY <1>1, <1>2, <1>3, FontAssumption
     DEF FontTypeOK, NoWalk, NoTables, NoFonts, NotDrawn, Null
<1>5. FontTypes
  <2>1. IsTables(NoTables)
    BY <1>2, FontAssumption DEF IsTables, NoTables
  <2> QED BY <1>1, <1>4, <2>1 DEF FontTypes, NoFonts
<1>6. ReadFirst
  BY <1>1 DEF ReadFirst, Parsing
<1>7. Collected /\ FirstOfVersion3 /\ Drawn
  <2>1. Collected /\ Drawn
    BY <1>1 DEF Collected, Parsing, Drawn
  <2>2. FirstOfVersion3
    BY <1>1, <1>3 DEF FirstOfVersion3, NoFonts
  <2> QED BY <2>1, <2>2
<1> QED
  BY <1>5, <1>6, <1>7 DEF FontIInv

(* Of what has been read the same words are seen.                          *)
LEMMA WordKeeps ==
  ASSUME UNCHANGED <<file, data>>
  PROVE  \A p : word(p)' = word(p)
  BY DEF word, Field

(* What is to come of a walk is in the file.                               *)
LEMMA ToComeKeeps ==
  ASSUME UNCHANGED file, NEW w
  PROVE  \A type : ToComeOn(w, type)' = ToComeOn(w, type)
  BY DEF ToComeOn, OfType, Here, FileOffset, Uint16, Field, tool_blocks

(* What is to come after a step depends on the walk then and on the file.  *)
LEMMA ToComeAfter ==
  ASSUME UNCHANGED file
  PROVE  \A type : ToCome(type)' = ToComeOn(walk', type)
<1>1. PICK w : w = walk'
  OBVIOUS
<1>2. \A type : ToComeOn(w, type)' = ToComeOn(w, type)
  BY ToComeKeeps
<1> SUFFICES ASSUME NEW type PROVE ToCome(type)' = ToComeOn(walk', type)
  OBVIOUS
<1>3. ToCome(type)' = ToComeOn(w, type)'
  BY <1>1 DEF ToCome, ToComeOn, OfType, Here
<1> QED
  BY <1>1, <1>2, <1>3

(* A step that leaves the lists and what has been read as they are keeps   *)
(* what has been found out about them.                                     *)
LEMMA CollectedKeeps ==
  ASSUME Collected, UNCHANGED <<file, gui, walk, tables, read_count>>
  PROVE  Collected'
<1>1. Collecting' <=> Collecting
  <2>1. \A type : ToCome(type)' = ToCome(type)
    BY ToComeAfter DEF ToCome
  <2>2. /\ tool_resources(RES_TYPE_FONTDIR)' = tool_resources(RES_TYPE_FONTDIR)
        /\ tool_fonts' = tool_fonts
        /\ OtherTypes' = OtherTypes
    BY ToolKeeps
  <2>3. /\ ToCome(RES_TYPE_FONTDIR)' = ToCome(RES_TYPE_FONTDIR)
        /\ ToCome(RES_TYPE_FONT)' = ToCome(RES_TYPE_FONT)
    BY <2>1
  <2> QED BY <2>1, <2>2, <2>3 DEF Collecting
<1>2. Whole' <=> Whole
  BY ToolKeeps DEF Whole
<1>3. (Parsing' <=> Parsing) /\ tool_fonts' = tool_fonts
  BY ToolKeeps DEF Parsing
<1> QED
  BY <1>1, <1>2, <1>3 DEF Collected

(* What has been parsed stays so while nothing is read and nothing drawn.  *)
LEMMA ParsedKeeps ==
  ASSUME FontIInv, UNCHANGED <<fontVars, data, read_count>>
  PROVE  Collected' /\ FirstOfVersion3' /\ Drawn'
<1>1. UNCHANGED <<file, gui, walk, tables, fonts, glyph, data, read_count>>
  BY DEF fontVars
<1>2. Collected'
  BY <1>1, CollectedKeeps DEF FontIInv
<1>3. FirstOfVersion3'
  <2>1. \A i : IsVersion2(tables.fonts[i])' <=> IsVersion2(tables.fonts[i])
    BY <1>1 DEF IsVersion2, word, Field
  <2>2. Listed' = Listed
    BY <1>1 DEF Listed
  <2> QED BY <1>1, <2>1, <2>2 DEF FontIInv, FirstOfVersion3
<1>4. Drawn'
  BY <1>1 DEF FontIInv, Drawn, font_get_glyph, word, Field
<1> QED
  BY <1>2, <1>3, <1>4

(* The driver and the drive at work: nothing has been collected, or what   *)
(* has been read stays as it is.                                           *)
LEMMA DriverKeeps ==
  ASSUME FontIInv, Driver \/ Poll \/ DriveEnds, UNCHANGED fontVars
  PROVE  FontIInv'
<1>1. UNCHANGED <<file, gui, walk, tables, fonts, glyph>>
  BY DEF fontVars
<1>2. FontTypes'
  BY <1>1 DEF FontIInv, FontTypes, FontTypeOK, IsTables, Listed
<1>3. UNCHANGED <<start, count>>
  BY DEF Driver, SendCommand, ReadSector, Break, LoopEnds, Poll, DriveEnds, ataVars, driver
<1>4. CASE Parsing
  <2>1. step = "returned"
    BY <1>4 DEF FontIInv, ReadFirst
  <2>2. UNCHANGED driver
    BY <2>1 DEF Driver, SendCommand, ReadSector, Break, LoopEnds, SectorReady, Poll,
                DriveEnds
  <2>3. ReadFirst'
    BY <1>1, <2>2 DEF FontIInv, ReadFirst, Parsing, driver
  <2>4. Collected' /\ FirstOfVersion3' /\ Drawn'
    BY <2>2, ParsedKeeps DEF driver
  <2> QED BY <1>2, <2>3, <2>4 DEF FontIInv
<1>5. CASE ~ Parsing
  <2>1. gui \notin {"resources", "fonts", "text"} /\ fonts = NoFonts /\ glyph = NotDrawn
    BY <1>5 DEF FontIInv, ReadFirst, Parsing, Drawn
  <2>2. ReadFirst'
    BY <1>1, <1>3, <1>5 DEF FontIInv, ReadFirst, Parsing
  <2>3. Collected' /\ FirstOfVersion3' /\ Drawn'
    BY <1>1, <2>1, NothingYet
  <2> QED BY <1>2, <2>2, <2>3 DEF FontIInv
<1> QED
  BY <1>4, <1>5

(* The tool's loop, one turn.                                              *)
LEMMA ToolTurn ==
  ASSUME Within, NEW type, NEW s \in Nat, NEW p \in Nat
  PROVE  /\ tool_blocks(type, s)[p] \in Seq(Nat)
         /\ tool_blocks(type, s)[p] = AtType(tool_blocks(type, s), p, type, s)
<1>1. p >= 0
  OBVIOUS
<1> QED
  BY <1>1, ToolTurns DEF Turns

(* What is to come at the head of the loop is what the tool finds there.   *)
LEMMA ToComeAtHead ==
  ASSUME Within, NEW w \in Walks, w.left = 0, NEW type
  PROVE  ToComeOn(w, type) = tool_blocks(type, w.shift_count)[w.buf]
<1>1. w.buf \in Nat /\ w.shift_count \in Nat /\ w.buf + 12 * w.left = w.buf
  BY DEF Walks
<1>2. Here(w.buf, 0, w.shift_count) \in Seq(Nat) /\ Len(Here(w.buf, 0, w.shift_count)) = 0
  <2>1. 0 \in Nat
    OBVIOUS
  <2> QED BY <1>1, <2>1, HereFacts DEF Within
<1>3. OfType(w.res_type_id, type, Here(w.buf, w.left, w.shift_count)) = <<>>
  BY <1>2 DEF OfType
<1>4. tool_blocks(type, w.shift_count)[w.buf] \in Seq(Nat)
  BY <1>1, ToolTurn
<1> QED
  BY <1>1, <1>3, <1>4, ConcatEmptySeq DEF ToComeOn

(* A walk and the tool take the same turn.                                 *)
LEMMA ToComeNextType ==
  ASSUME Within, NEW w \in Walks, w.left = 0, Field(w.buf) # 0, NEW type,
         NEW v \in Walks, v.shift_count = w.shift_count, v.res_type_id = Field(w.buf),
         v.left = Field(w.buf + 2), v.buf = w.buf + 8
  PROVE  ToComeOn(v, type) = ToComeOn(w, type)
<1>1. w.buf \in Nat /\ w.shift_count \in Nat
  BY DEF Walks
<1>2. tool_blocks(type, w.shift_count)[w.buf]
        = AtType(tool_blocks(type, w.shift_count), w.buf, type, w.shift_count)
  BY <1>1, ToolTurn
<1>3. v.buf + 12 * v.left = Following(w.buf)
  BY DEF Following
<1> QED
  BY <1>2, <1>3, ToComeAtHead DEF AtType, ToComeOn

(* One resource less is to come.                                           *)
LEMMA ToComeNextResource ==
  ASSUME Within, NEW w \in Walks, w.left > 0, NEW type,
         NEW v \in Walks, v.shift_count = w.shift_count, v.res_type_id = w.res_type_id,
         v.left = w.left - 1, v.buf = w.buf + 12
  PROVE  /\ ToComeOn(v, type) \in Seq(Nat)
         /\ FileOffset(Field(w.buf), w.shift_count) \in Nat
         /\ ToComeOn(w, type)
              = IF w.res_type_id = type
                THEN <<FileOffset(Field(w.buf), w.shift_count)>> \o ToComeOn(v, type)
                ELSE ToComeOn(v, type)
<1>1. /\ w.buf \in Nat /\ w.shift_count \in Nat /\ w.left \in Nat
      /\ v.buf \in Nat /\ v.left \in Nat
      /\ v.buf + 12 * v.left = w.buf + 12 * w.left
      /\ w.buf + 12 * w.left \in Nat
  BY DEF Walks
<1> DEFINE rest == tool_blocks(type, w.shift_count)[w.buf + 12 * w.left]
           first == <<FileOffset(Field(w.buf), w.shift_count)>>
           others == Here(v.buf, v.left, w.shift_count)
<1>2. rest \in Seq(Nat)
  BY <1>1, ToolTurn
<1>3. others \in Seq(Nat) /\ Here(w.buf, w.left, w.shift_count) = first \o others
  <2>1. v.left = w.left - 1 /\ v.buf = w.buf + 12 /\ file \in FontFiles
    BY DEF Within
  <2>2. others \in Seq(Nat)
    BY <1>1, <2>1, HereFacts
  <2>3. Here(w.buf, w.left, w.shift_count)
          = <<FileOffset(Field(w.buf), w.shift_count)>>
              \o Here(w.buf + 12, w.left - 1, w.shift_count)
    BY <1>1, <2>1, HereFacts
  <2> QED BY <2>1, <2>2, <2>3
<1>4. FileOffset(Field(w.buf), w.shift_count) \in Nat /\ first \in Seq(Nat)
  <2>1. Field(w.buf) \in Nat
    BY WordType DEF Within
  <2>2. FileOffset(Field(w.buf), w.shift_count) \in Nat
    BY <1>1, <2>1 DEF FileOffset, Uint16
  <2> QED BY <2>2
<1>5. ToComeOn(v, type) = OfType(w.res_type_id, type, others) \o rest
  BY <1>1 DEF ToComeOn
<1>6. ToComeOn(w, type) = OfType(w.res_type_id, type, first \o others) \o rest
  BY <1>3 DEF ToComeOn
<1> HIDE DEF rest, first, others
<1>7. OfType(w.res_type_id, type, others) \in Seq(Nat)
  BY <1>3, EmptySeq DEF OfType
<1>8. ToComeOn(v, type) \in Seq(Nat)
  BY <1>2, <1>5, <1>7, ConcatProperties, Zenon
<1>9. w.res_type_id = type => ToComeOn(w, type) = first \o ToComeOn(v, type)
  <2>1. (first \o others) \o rest = first \o (others \o rest)
    <3>1. first \in Seq(Nat) /\ others \in Seq(Nat) /\ rest \in Seq(Nat)
      BY <1>2, <1>3, <1>4
    <3> QED BY <3>1, ConcatAssociative
  <2> QED BY <1>5, <1>6, <2>1 DEF OfType
<1>10. w.res_type_id # type => ToComeOn(w, type) = ToComeOn(v, type)
  BY <1>5, <1>6 DEF OfType
<1> QED
  BY <1>4, <1>8, <1>9, <1>10 DEF first

(* At the end of the table nothing is to come.                             *)
LEMMA NothingToCome ==
  ASSUME Within, NEW w \in Walks, w.left = 0, Field(w.buf) = 0, NEW type
  PROVE  ToComeOn(w, type) = <<>>
<1>1. w.buf \in Nat /\ w.shift_count \in Nat
  BY DEF Walks
<1>2. tool_blocks(type, w.shift_count)[w.buf]
        = AtType(tool_blocks(type, w.shift_count), w.buf, type, w.shift_count)
  BY <1>1, ToolTurn
<1> QED
  BY <1>2, ToComeAtHead DEF AtType

(* A resource goes where the last entry taken is, and nowhere else.        *)
LEMMA StoreFacts ==
  ASSUME NEW t, IsTables(t), NEW o \in Nat
  PROVE  IsTables(Store(t, o))
<1>1. CASE t.entry = <<>>
  <2>1. Store(t, o) = [font_dirs |-> t.font_dirs, fonts |-> t.fonts, entry |-> t.entry,
                       wild |-> TRUE]
    BY <1>1 DEF Store, IsTables
  <2> QED BY <1>1, <2>1 DEF IsTables
<1>2. ASSUME NEW n \in 1 .. Len(t.font_dirs), t.entry = <<"font_dirs", n>>
      PROVE  IsTables(Store(t, o))
  <2>1. Store(t, o) = [t EXCEPT !["font_dirs"][n] = o]
    BY <1>2 DEF Store
  <2>2. Store(t, o) = [font_dirs |-> [t.font_dirs EXCEPT ![n] = o], fonts |-> t.fonts,
                       entry |-> t.entry, wild |-> t.wild]
    BY <2>1 DEF IsTables
  <2>3. /\ [t.font_dirs EXCEPT ![n] = o] \in Seq(Nat)
        /\ Len([t.font_dirs EXCEPT ![n] = o]) = Len(t.font_dirs)
    BY <1>2, ExceptSeq DEF IsTables
  <2> QED BY <1>2, <2>2, <2>3 DEF IsTables
<1>3. ASSUME NEW n \in 1 .. Len(t.fonts), t.entry = <<"fonts", n>>
      PROVE  IsTables(Store(t, o))
  <2>1. Store(t, o) = [t EXCEPT !["fonts"][n] = o]
    BY <1>3 DEF Store
  <2>2. Store(t, o) = [font_dirs |-> t.font_dirs, fonts |-> [t.fonts EXCEPT ![n] = o],
                       entry |-> t.entry, wild |-> t.wild]
    BY <2>1 DEF IsTables
  <2>3. /\ [t.fonts EXCEPT ![n] = o] \in Seq(Nat)
        /\ Len([t.fonts EXCEPT ![n] = o]) = Len(t.fonts)
    BY <1>3, ExceptSeq DEF IsTables
  <2> QED BY <1>3, <2>2, <2>3 DEF IsTables
<1> QED
  BY <1>1, <1>2, <1>3 DEF IsTables

(* Taking an entry of a list, and storing in it.                           *)
LEMMA AppendStore ==
  ASSUME NEW l \in Seq(Nat), NEW o \in Nat
  PROVE  /\ Append(l, Null) \in Seq(Nat) /\ Len(Append(l, Null)) = Len(l) + 1
         /\ Len(l) + 1 \in 1 .. Len(l) + 1
         /\ [Append(l, Null) EXCEPT ![Len(l) + 1] = o] = Append(l, o)
<1>1. Null \in Nat
  BY DEF Null
<1>2. PICK h \in Nat : h = Len(l)
  BY LenProperties
<1>3. Append(l, Null) \in Seq(Nat) /\ Append(l, o) \in Seq(Nat)
      /\ Len(Append(l, Null)) = h + 1 /\ Len(Append(l, o)) = h + 1
      /\ (\A i \in 1 .. h : Append(l, Null)[i] = l[i] /\ Append(l, o)[i] = l[i])
      /\ Append(l, o)[h + 1] = o
  BY <1>1, <1>2, AppendProperties
<1> DEFINE stored == [Append(l, Null) EXCEPT ![h + 1] = o]
<1>4. h + 1 \in 1 .. Len(Append(l, Null))
  BY <1>3
<1>5. stored \in Seq(Nat) /\ Len(stored) = h + 1
      /\ \A j \in 1 .. h + 1 : stored[j] = IF j = h + 1 THEN o ELSE Append(l, Null)[j]
  <2> HIDE DEF stored
  <2>1. ASSUME NEW s \in Seq(Nat), NEW i \in 1 .. Len(s)
        PROVE  /\ [s EXCEPT ![i] = o] \in Seq(Nat)
               /\ Len([s EXCEPT ![i] = o]) = Len(s)
               /\ \A j \in 1 .. Len(s) : [s EXCEPT ![i] = o][j] = IF j = i THEN o ELSE s[j]
    BY ExceptSeq
  <2>2. PICK a : a = Append(l, Null)
    OBVIOUS
  <2>3. a \in Seq(Nat) /\ Len(a) = h + 1 /\ h + 1 \in 1 .. Len(a)
    BY <1>3, <1>4, <2>2
  <2>4. /\ [a EXCEPT ![h + 1] = o] \in Seq(Nat)
        /\ Len([a EXCEPT ![h + 1] = o]) = Len(a)
        /\ \A j \in 1 .. Len(a) : [a EXCEPT ![h + 1] = o][j] = IF j = h + 1 THEN o ELSE a[j]
    BY <2>1, <2>3
  <2>5. stored = [a EXCEPT ![h + 1] = o]
    BY <2>2 DEF stored
  <2> QED BY <2>2, <2>3, <2>4, <2>5
<1> HIDE DEF stored
<1>6. \A i \in 1 .. h + 1 : stored[i] = Append(l, o)[i]
  BY <1>2, <1>3, <1>5
<1>7. stored = Append(l, o)
  BY <1>3, <1>5, <1>6, SeqEqual
<1> QED
  BY <1>2, <1>3, <1>7 DEF stored

(* The next entry of either list.                                          *)
LEMMA NextInLists ==
  ASSUME NEW t,
         t = [font_dirs |-> t.font_dirs, fonts |-> t.fonts, entry |-> t.entry,
              wild |-> t.wild]
  PROVE  /\ NextIn("font_dirs", t)
              = [font_dirs |-> Append(t.font_dirs, Null), fonts |-> t.fonts,
                 entry |-> <<"font_dirs", Len(t.font_dirs) + 1>>, wild |-> t.wild]
         /\ NextIn("fonts", t)
              = [font_dirs |-> t.font_dirs, fonts |-> Append(t.fonts, Null),
                 entry |-> <<"fonts", Len(t.fonts) + 1>>, wild |-> t.wild]
<1>1. PICK d, f, e, w, dn, fn, dl, fl :
        /\ d = t.font_dirs /\ f = t.fonts /\ e = t.entry /\ w = t.wild
        /\ dn = Append(t.font_dirs, Null) /\ fn = Append(t.fonts, Null)
        /\ dl = <<"font_dirs", Len(t.font_dirs) + 1>>
        /\ fl = <<"fonts", Len(t.fonts) + 1>>
  OBVIOUS
<1>2. t = [font_dirs |-> d, fonts |-> f, entry |-> e, wild |-> w]
  BY <1>1
<1>3. NextIn("font_dirs", t) = [t EXCEPT !["font_dirs"] = dn, !.entry = dl]
  BY <1>1 DEF NextIn
<1>4. NextIn("fonts", t) = [t EXCEPT !["fonts"] = fn, !.entry = fl]
  BY <1>1 DEF NextIn
<1>5. NextIn("font_dirs", t) = [font_dirs |-> dn, fonts |-> f, entry |-> dl, wild |-> w]
  BY <1>2, <1>3
<1>6. NextIn("fonts", t) = [font_dirs |-> d, fonts |-> fn, entry |-> fl, wild |-> w]
  BY <1>2, <1>4
<1> QED
  BY <1>1, <1>5, <1>6

(* What becomes of the tables with a resource of a type.                   *)
LEMMA TakeFacts ==
  ASSUME NEW t, IsTables(t), NEW type, NEW o \in Nat
  PROVE  LET taken == Store(EntryFor(t, type), o)
         IN /\ IsTables(taken)
            /\ type = RES_TYPE_FONTDIR /\ Len(t.font_dirs) < MAX_FONT_DIRS =>
                 /\ taken.font_dirs = Append(t.font_dirs, o)
                 /\ taken.fonts = t.fonts /\ taken.wild = t.wild
            /\ type = RES_TYPE_FONT /\ Len(t.fonts) < MAX_FONTS =>
                 /\ taken.fonts = Append(t.fonts, o)
                 /\ taken.font_dirs = t.font_dirs /\ taken.wild = t.wild
<1> DEFINE taken == Store(EntryFor(t, type), o)
           dir == type = RES_TYPE_FONTDIR /\ Len(t.font_dirs) < MAX_FONT_DIRS
           font == type = RES_TYPE_FONT /\ Len(t.fonts) < MAX_FONTS
<1>1. Len(t.font_dirs) \in Nat /\ Len(t.fonts) \in Nat
      /\ MAX_FONT_DIRS \in Nat /\ MAX_FONTS \in Nat
  BY FontAssumption, LenProperties DEF IsTables
<1>2. ~ (dir /\ font)
  BY DEF RES_TYPE_FONTDIR, RES_TYPE_FONT
<1>3. CASE dir
  <2> DEFINE d == Append(t.font_dirs, Null)
  <2>1. EntryFor(t, type) = NextIn("font_dirs", t)
    BY <1>2, <1>3 DEF EntryFor, RES_TYPE_FONTDIR, RES_TYPE_FONT
  <2>2. NextIn("font_dirs", t)
          = [font_dirs |-> d, fonts |-> t.fonts,
             entry |-> <<"font_dirs", Len(t.font_dirs) + 1>>, wild |-> t.wild]
    BY NextInLists DEF IsTables
  <2>3. /\ d \in Seq(Nat) /\ Len(d) = Len(t.font_dirs) + 1
        /\ Len(t.font_dirs) + 1 \in 1 .. Len(t.font_dirs) + 1
        /\ [d EXCEPT ![Len(t.font_dirs) + 1] = o] = Append(t.font_dirs, o)
    BY AppendStore DEF IsTables
  <2> HIDE DEF d
  <2>4. IsTables(NextIn("font_dirs", t))
    BY <1>1, <1>3, <2>2, <2>3 DEF IsTables
  <2>5. IsTables(taken)
    BY <2>1, <2>4, StoreFacts
  <2>6. taken = [NextIn("font_dirs", t) EXCEPT !["font_dirs"][Len(t.font_dirs) + 1] = o]
    BY <2>1, <2>2 DEF Store
  <2>7. taken = [font_dirs |-> [d EXCEPT ![Len(t.font_dirs) + 1] = o], fonts |-> t.fonts,
                 entry |-> <<"font_dirs", Len(t.font_dirs) + 1>>, wild |-> t.wild]
    BY <2>2, <2>6
  <2> QED BY <1>2, <1>3, <2>3, <2>5, <2>7
<1>4. CASE font
  <2> DEFINE f == Append(t.fonts, Null)
  <2>1. EntryFor(t, type) = NextIn("fonts", t)
    BY <1>2, <1>4 DEF EntryFor, RES_TYPE_FONTDIR, RES_TYPE_FONT
  <2>2. NextIn("fonts", t)
          = [font_dirs |-> t.font_dirs, fonts |-> f,
             entry |-> <<"fonts", Len(t.fonts) + 1>>, wild |-> t.wild]
    BY NextInLists DEF IsTables
  <2>3. /\ f \in Seq(Nat) /\ Len(f) = Len(t.fonts) + 1
        /\ Len(t.fonts) + 1 \in 1 .. Len(t.fonts) + 1
        /\ [f EXCEPT ![Len(t.fonts) + 1] = o] = Append(t.fonts, o)
    BY AppendStore DEF IsTables
  <2> HIDE DEF f
  <2>4. IsTables(NextIn("fonts", t))
    BY <1>1, <1>4, <2>2, <2>3 DEF IsTables
  <2>5. IsTables(taken)
    BY <2>1, <2>4, StoreFacts
  <2>6. taken = [NextIn("fonts", t) EXCEPT !["fonts"][Len(t.fonts) + 1] = o]
    BY <2>1, <2>2 DEF Store
  <2>7. taken = [font_dirs |-> t.font_dirs, fonts |-> [f EXCEPT ![Len(t.fonts) + 1] = o],
                 entry |-> <<"fonts", Len(t.fonts) + 1>>, wild |-> t.wild]
    BY <2>2, <2>6
  <2> QED BY <1>2, <1>4, <2>3, <2>5, <2>7
<1>5. CASE ~ dir /\ ~ font
  <2>1. EntryFor(t, type) = t
    BY <1>5 DEF EntryFor
  <2> QED BY <1>5, <2>1, StoreFacts
<1> QED
  BY <1>3, <1>4, <1>5

(* font_load asks for the sectors of the font.                             *)
LEMMA FontLoadKeeps ==
  ASSUME FontIInv, font_load
  PROVE  FontIInv'
<1>1. /\ gui = "font_load" /\ gui' = "loading" /\ UNCHANGED <<file, walk, tables, fonts, glyph>>
      /\ start' = FontSector /\ count' = FontSectors
  BY DEF font_load, read_sectors
<1>2. fonts = NoFonts /\ glyph = NotDrawn /\ tables = NoTables
  BY <1>1 DEF FontIInv, ReadFirst, Drawn, Parsing
<1>3. FontTypes'
  BY <1>1 DEF FontIInv, FontTypes, FontTypeOK, IsTables, Listed
<1>4. ReadFirst'
  BY <1>1, <1>2 DEF ReadFirst, Parsing
<1>5. Collected' /\ FirstOfVersion3' /\ Drawn'
  BY <1>1, <1>2, NothingYet
<1> QED
  BY <1>3, <1>4, <1>5 DEF FontIInv

(* At the beginning of the table everything is to come.                    *)
LEMMA FontReadKeeps ==
  ASSUME AtaIInv, FontIInv, FontRead
  PROVE  FontIInv'
<1>1. /\ gui = "loading" /\ step = "returned" /\ gui' = "resources"
      /\ UNCHANGED <<file, tables, fonts, glyph, ataVars>>
  BY DEF FontRead
<1>2. fonts = NoFonts /\ glyph = NotDrawn /\ tables = NoTables
  BY <1>1 DEF FontIInv, ReadFirst, Drawn, Parsing
<1>3. file \in FontFiles
  BY DEF FontIInv, FontTypes, FontTypeOK
<1>4. PICK ne, table : /\ ne = word(NE_HEADER_OFFSET)
                       /\ table = ne + word(ne + RES_TABLE_OFFSET)
                       /\ walk' = [NoWalk EXCEPT !.shift_count = word(table),
                                                 !.buf = table + 2]
  BY DEF FontRead
<1>5. ne \in Nat /\ table \in Nat /\ word(table) \in Nat
  BY <1>3, <1>4, WordType
<1>6. walk' = [shift_count |-> word(table), buf |-> table + 2, res_type_id |-> 0, left |-> 0]
  BY <1>4 DEF NoWalk
<1>7. FontTypes'
  <2>1. walk' \in [shift_count : Nat, buf : Nat, res_type_id : Nat, left : Nat]
    BY <1>5, <1>6
  <2> QED BY <1>1, <2>1 DEF FontIInv, FontTypes, FontTypeOK, IsTables, Listed
<1>8. UNCHANGED <<step, start, count, read_count, data>>
  BY <1>1 DEF ataVars, driver
<1>9. ReadFirst'
  BY <1>1, <1>2, <1>8 DEF FontIInv, ReadFirst, Parsing
<1>10. Collected'
  <2> SUFFICES ASSUME Whole' PROVE ~ tables'.wild /\ Collecting'
    BY <1>1 DEF Collected
  <2>1. Whole /\ Within
    BY <1>1, <1>8, ToolKeeps DEF Whole
  <2>2. /\ ne = Field(\h3C)
        /\ table = Field(\h3C) + Field(Field(\h3C) + \h24)
        /\ word(table) = Field(table)
    <3>1. \A p \in Nat : word(p) = Field(p)
      BY <1>1, <2>1, WordIsField DEF FontIInv, Whole
    <3>2. NE_HEADER_OFFSET \in Nat /\ ne + RES_TABLE_OFFSET \in Nat
      BY <1>5 DEF NE_HEADER_OFFSET, RES_TABLE_OFFSET
    <3> QED BY <1>4, <1>5, <3>1, <3>2 DEF NE_HEADER_OFFSET, RES_TABLE_OFFSET
  <2>3. \A type : tool_resources(type) = tool_blocks(type, word(table))[table + 2]
    BY <2>1, <2>2
    DEF Whole, tool_resources, tool_parse_ne, tool_parse_resource_table
  <2>4. walk' \in Walks /\ walk'.left = 0
    BY <1>5, <1>6 DEF Walks
  <2>5. \A type : ToCome(type)' = tool_resources(type)
    <3> SUFFICES ASSUME NEW type PROVE ToCome(type)' = tool_resources(type)
      OBVIOUS
    <3>1. PICK w : w = walk'
      OBVIOUS
    <3>2. ToComeOn(w, type) = tool_blocks(type, w.shift_count)[w.buf]
      BY <2>1, <2>4, <3>1, ToComeAtHead
    <3>3. ToCome(type)' = ToComeOn(w, type)
      BY <1>1, <3>1, ToComeAfter
    <3> QED BY <1>6, <2>3, <3>1, <3>2, <3>3
  <2>6. ToCome(RES_TYPE_FONT)' = tool_resources(RES_TYPE_FONT)
        /\ ToCome(RES_TYPE_FONTDIR)' = tool_resources(RES_TYPE_FONTDIR)
        /\ tool_fonts = tool_resources(RES_TYPE_FONT)
    BY <2>5 DEF tool_fonts, RES_TYPE_FONT
  <2>7. tool_resources(RES_TYPE_FONT) \in Seq(Nat)
        /\ tool_resources(RES_TYPE_FONTDIR) \in Seq(Nat)
    <3>1. table + 2 \in Nat
      BY <1>5
    <3> QED BY <1>5, <2>1, <2>3, <3>1, ToolTurn
  <2>8. /\ tool_fonts' = tool_fonts /\ OtherTypes' = OtherTypes
        /\ tool_resources(RES_TYPE_FONTDIR)' = tool_resources(RES_TYPE_FONTDIR)
    BY <1>1, ToolKeeps
  <2>9. tables' = NoTables
    BY <1>1, <1>2
  <2>10. /\ tool_fonts = <<>> \o tool_fonts
         /\ tool_resources(RES_TYPE_FONTDIR) = <<>> \o tool_resources(RES_TYPE_FONTDIR)
    BY <2>6, <2>7, ConcatEmptySeq
  <2>11. \A type \in OtherTypes : tool_resources(type) = <<>>
    BY <2>1 DEF Whole, FileFits, OtherTypes
  <2>12. \A type \in OtherTypes' : ToCome(type)' = <<>>
    BY <2>5, <2>8, <2>11
  <2>13. ~ tables'.wild /\ tables'.fonts = <<>> /\ tables'.font_dirs = <<>>
    BY <2>9 DEF NoTables
  <2>14. tool_fonts' = tables'.fonts \o ToCome(RES_TYPE_FONT)'
    BY <2>6, <2>8, <2>10, <2>13
  <2>15. tool_resources(RES_TYPE_FONTDIR)'
           = tables'.font_dirs \o ToCome(RES_TYPE_FONTDIR)'
    BY <2>6, <2>8, <2>10, <2>13
  <2>16. ~ (walk'.left > 0)
    BY <2>4
  <2> QED BY <2>12, <2>13, <2>14, <2>15, <2>16 DEF Collecting
<1>11. FirstOfVersion3' /\ Drawn'
  <2>1. fonts'.v3 = <<>> /\ Len(fonts'.v2) = 0 /\ Len(fonts'.v3) = 0 /\ glyph' = NotDrawn
    BY <1>1, <1>2, EmptySeq DEF NoFonts
  <2>2. Listed' = 0
    BY <2>1 DEF Listed
  <2> QED BY <2>1, <2>2 DEF FirstOfVersion3, Drawn
<1> QED
  BY <1>7, <1>9, <1>10, <1>11 DEF FontIInv

(* While the table is walked: nothing further has begun, and of a whole    *)
(* file all of the above holds.                                            *)
LEMMA WhileWalking ==
  ASSUME AtaIInv, FontIInv, gui = "resources"
  PROVE  /\ file \in FontFiles /\ walk \in Walks /\ fonts = NoFonts /\ glyph = NotDrawn
         /\ Whole => /\ Within /\ ~ tables.wild /\ Collecting
                     /\ \A p \in Nat : word(p) = Field(p)
<1>1. file \in FontFiles /\ walk \in Walks
  BY DEF FontIInv, FontTypes, FontTypeOK, Walks
<1>2. fonts = NoFonts /\ glyph = NotDrawn /\ Parsing
  BY DEF FontIInv, ReadFirst, Drawn, Parsing
<1>3. ASSUME Whole
      PROVE  /\ Within /\ ~ tables.wild /\ Collecting
             /\ \A p \in Nat : word(p) = Field(p)
  BY <1>2, <1>3, WordIsField DEF FontIInv, Collected, Whole
<1> QED
  BY <1>1, <1>2, <1>3

(* A step of the walk keeps the rest of the invariant.                     *)
LEMMA WalkKeeps ==
  ASSUME FontIInv, gui = "resources", fonts = NoFonts, glyph = NotDrawn,
         UNCHANGED <<file, fonts, glyph, ataVars>>,
         gui' \in {"resources", "fonts"}, walk' \in Walks, IsTables(tables')
  PROVE  FontTypes' /\ ReadFirst' /\ FirstOfVersion3' /\ Drawn' /\ (Whole' => Whole)
<1>1. UNCHANGED <<file, fonts, glyph, step, start, count, read_count, data>>
  BY DEF ataVars, driver
<1>2. fonts'.v3 = <<>> /\ Len(fonts'.v2) = 0 /\ Len(fonts'.v3) = 0 /\ glyph' = NotDrawn
  BY <1>1, EmptySeq DEF NoFonts
<1>3. Listed' = 0
  BY <1>2 DEF Listed
<1>4. Len(tables'.fonts) \in Nat
  BY LenProperties DEF IsTables
<1>5. FontTypeOK'
  <2>1. file' \in FontFiles /\ fonts'.v2 \in Seq(Nat) /\ fonts'.v3 \in Seq(Nat)
        /\ glyph'.num \in GlyphNumbers \cup {NotDrawn.num}
        /\ glyph'.at \in Nat \cup {Garbage}
    BY <1>1 DEF FontIInv, FontTypes, FontTypeOK
  <2>2. /\ tables'.font_dirs \in Seq(Nat) /\ Len(tables'.font_dirs) <= MAX_FONT_DIRS
        /\ tables'.fonts \in Seq(Nat) /\ Len(tables'.fonts) <= MAX_FONTS
        /\ tables'.wild \in BOOLEAN
    BY DEF IsTables
  <2>3. Listed' <= Len(tables'.fonts) /\ gui' # "text"
    BY <1>3, <1>4
  <2> QED BY <2>1, <2>2, <2>3 DEF FontTypeOK, Walks
<1>6. FontTypes'
  BY <1>1, <1>5 DEF FontIInv, FontTypes, IsTables
<1>7. ReadFirst'
  BY <1>1 DEF FontIInv, ReadFirst, Parsing
<1>8. Whole' => Whole
  BY <1>1, ToolKeeps DEF Whole
<1> QED
  BY <1>2, <1>3, <1>6, <1>7, <1>8 DEF FirstOfVersion3, Drawn

(* The head of the loop: the tool finds the same type there.               *)
LEMMA NextTypeKeeps ==
  ASSUME AtaIInv, FontIInv, NextType
  PROVE  FontIInv'
<1>1. /\ gui = "resources" /\ walk.left = 0 /\ word(walk.buf) # 0
      /\ UNCHANGED <<file, gui, tables, fonts, glyph, ataVars>>
  BY DEF NextType
<1>2. file \in FontFiles /\ walk \in Walks /\ fonts = NoFonts /\ glyph = NotDrawn
  BY <1>1, WhileWalking
<1>3. PICK w : w = walk
  OBVIOUS
<1>4. w \in Walks /\ w.left = 0 /\ w.buf \in Nat /\ w.buf + 2 \in Nat
  BY <1>1, <1>2, <1>3 DEF Walks
<1>5. walk' = [w EXCEPT !.res_type_id = word(w.buf), !.left = word(w.buf + 2), !.buf = @ + 8]
  BY <1>3 DEF NextType
<1>6. word(w.buf) \in Nat /\ word(w.buf + 2) \in Nat
  BY <1>2, WordType
<1>7. PICK v : v = walk'
  OBVIOUS
<1>8. /\ v \in Walks /\ v.shift_count = w.shift_count /\ v.res_type_id = word(w.buf)
      /\ v.left = word(w.buf + 2) /\ v.buf = w.buf + 8
  <2>1. PICK a, b : a = word(w.buf) /\ b = word(w.buf + 2)
    OBVIOUS
  <2>2. v = [w EXCEPT !.res_type_id = a, !.left = b, !.buf = w.buf + 8]
    BY <1>4, <1>5, <1>7, <2>1 DEF Walks
  <2>3. a \in Nat /\ b \in Nat /\ w.buf + 8 \in Nat
    BY <1>4, <1>6, <2>1
  <2>4. /\ v \in Walks /\ v.shift_count = w.shift_count /\ v.res_type_id = a
        /\ v.left = b /\ v.buf = w.buf + 8
    BY <1>4, <2>2, <2>3 DEF Walks
  <2> QED BY <2>1, <2>4
<1>9. FontTypes' /\ ReadFirst' /\ FirstOfVersion3' /\ Drawn' /\ (Whole' => Whole)
  <2>1. walk' \in Walks /\ gui' \in {"resources", "fonts"}
    BY <1>1, <1>7, <1>8
  <2>2. IsTables(tables')
    BY <1>1 DEF FontIInv, FontTypes
  <2> QED BY <1>1, <1>2, <2>1, <2>2, WalkKeeps
<1>10. ASSUME Whole
       PROVE  ~ tables'.wild /\ Collecting'
  <2>1. Within /\ ~ tables.wild /\ Collecting /\ \A p \in Nat : word(p) = Field(p)
    BY <1>1, <1>10, WhileWalking
  <2>2. Field(w.buf) # 0 /\ v.res_type_id = Field(w.buf) /\ v.left = Field(w.buf + 2)
    BY <1>1, <1>3, <1>4, <1>8, <2>1
  <2>3. \A type : ToComeOn(v, type) = ToComeOn(w, type)
    BY <1>4, <1>8, <2>1, <2>2, ToComeNextType
  <2>4. \A type : ToCome(type)' = ToCome(type)
    BY <1>1, <1>3, <1>7, <2>3, ToComeAfter DEF ToCome
  <2>5. /\ tool_fonts' = tool_fonts /\ OtherTypes' = OtherTypes
        /\ tool_resources(RES_TYPE_FONTDIR)' = tool_resources(RES_TYPE_FONTDIR)
    BY <1>1, ToolKeeps
  <2>6. ASSUME v.left > 0 PROVE v.res_type_id \in {RES_TYPE_FONTDIR, RES_TYPE_FONT}
    <3> SUFFICES ASSUME v.res_type_id \notin {RES_TYPE_FONTDIR, RES_TYPE_FONT}
                 PROVE  FALSE
      OBVIOUS
    <3>1. v.res_type_id \in OtherTypes
      BY <2>2 DEF OtherTypes, Field
    <3>2. ToComeOn(v, v.res_type_id) = <<>>
      BY <1>3, <2>1, <2>3, <3>1 DEF Collecting, ToCome
    <3>3. PICK h, r : /\ h = Here(v.buf, v.left, v.shift_count)
                      /\ r = tool_blocks(v.res_type_id, v.shift_count)[v.buf + 12 * v.left]
      OBVIOUS
    <3>4. h \o r = <<>>
      BY <3>2, <3>3 DEF ToComeOn, OfType
    <3>5. v.buf \in Nat /\ v.left \in Nat /\ v.shift_count \in Nat
          /\ v.buf + 12 * v.left \in Nat
      BY <1>8 DEF Walks
    <3>6. h \in Seq(Nat) /\ Len(h) = v.left
      BY <1>2, <3>3, <3>5, HereFacts
    <3>7. r \in Seq(Nat)
      BY <2>1, <3>3, <3>5, ToolTurn
    <3>8. h = <<>>
      BY <3>4, <3>6, <3>7, ConcatEqualIffEmpty
    <3> QED BY <2>6, <3>6, <3>8, EmptySeq
  <2>7. (walk.left > 0)' => walk'.res_type_id \in {RES_TYPE_FONTDIR, RES_TYPE_FONT}
    BY <1>7, <2>6
  <2>8. tool_fonts' = tables'.fonts \o ToCome(RES_TYPE_FONT)'
        /\ tool_resources(RES_TYPE_FONTDIR)'
             = tables'.font_dirs \o ToCome(RES_TYPE_FONTDIR)'
    BY <1>1, <2>1, <2>4, <2>5 DEF Collecting
  <2>9. \A type \in OtherTypes' : ToCome(type)' = <<>>
    BY <2>1, <2>4, <2>5 DEF Collecting
  <2> QED BY <1>1, <2>1, <2>7, <2>8, <2>9 DEF Collecting
<1>11. Collected'
  BY <1>1, <1>9, <1>10 DEF Collected
<1> QED
  BY <1>9, <1>11 DEF FontIInv

(* The end of the table: nothing is to come.                               *)
LEMMA TableEndsKeeps ==
  ASSUME AtaIInv, FontIInv, TableEnds
  PROVE  FontIInv'
<1>1. /\ gui = "resources" /\ walk.left = 0 /\ word(walk.buf) = 0 /\ gui' = "fonts"
      /\ UNCHANGED <<file, walk, tables, fonts, glyph, ataVars>>
  BY DEF TableEnds
<1>2. file \in FontFiles /\ walk \in Walks /\ fonts = NoFonts /\ glyph = NotDrawn
  BY <1>1, WhileWalking
<1>3. FontTypes' /\ ReadFirst' /\ FirstOfVersion3' /\ Drawn' /\ (Whole' => Whole)
  <2>1. IsTables(tables') /\ walk' \in Walks /\ gui' \in {"resources", "fonts"}
    BY <1>1, <1>2 DEF FontIInv, FontTypes
  <2> QED BY <1>1, <1>2, <2>1, WalkKeeps
<1>4. ASSUME Whole
      PROVE  ~ tables'.wild /\ tables'.fonts = tool_fonts'
  <2>1. Within /\ ~ tables.wild /\ Collecting /\ \A p \in Nat : word(p) = Field(p)
    BY <1>1, <1>4, WhileWalking
  <2>2. Field(walk.buf) = 0
    BY <1>1, <1>2, <2>1 DEF Walks
  <2>3. ToCome(RES_TYPE_FONT) = <<>>
    BY <1>1, <1>2, <2>1, <2>2, NothingToCome DEF ToCome
  <2>4. tables.fonts \in Seq(Nat)
    BY DEF FontIInv, FontTypes, FontTypeOK
  <2>5. tables.fonts = tool_fonts
    BY <2>1, <2>3, <2>4, ConcatEmptySeq DEF Collecting
  <2> QED BY <1>1, <2>1, <2>5, ToolKeeps
<1>5. Collected'
  BY <1>1, <1>3, <1>4 DEF Collected
<1> QED
  BY <1>3, <1>5 DEF FontIInv

(* A list that the rest follows takes the first of the rest.               *)
LEMMA TakeFirst ==
  ASSUME NEW l \in Seq(Nat), NEW o \in Nat, NEW r \in Seq(Nat)
  PROVE  /\ l \o (<<o>> \o r) = Append(l, o) \o r
         /\ Len(l) < Len(l \o (<<o>> \o r))
<1>1. <<o>> \in Seq(Nat) /\ Len(<<o>>) = 1
  OBVIOUS
<1>2. Append(l, o) = l \o <<o>>
  BY AppendIsConcat
<1>3. PICK s : s = <<o>>
  OBVIOUS
<1>4. s \in Seq(Nat) /\ Len(s) = 1
  BY <1>1, <1>3
<1>5. (l \o s) \o r = l \o (s \o r)
  BY <1>4, ConcatAssociative
<1>6. s \o r \in Seq(Nat) /\ Len(s \o r) = Len(s) + Len(r)
  BY <1>4, ConcatProperties, Zenon
<1>7. Len(l \o (s \o r)) = Len(l) + Len(s \o r)
  BY <1>6, ConcatProperties, Zenon
<1>8. Len(l) \in Nat /\ Len(r) \in Nat
  BY LenProperties
<1>9. Len(l) < Len(l \o (s \o r))
  BY <1>4, <1>6, <1>7, <1>8
<1> QED
  BY <1>2, <1>3, <1>5, <1>9

(* A resource: the kernel has room for what the tool finds, and takes it.  *)
LEMMA NextResourceKeeps ==
  ASSUME AtaIInv, FontIInv, NextResource
  PROVE  FontIInv'
<1>1. /\ gui = "resources" /\ walk.left > 0
      /\ UNCHANGED <<file, gui, fonts, glyph, ataVars>>
  BY DEF NextResource
<1>2. file \in FontFiles /\ walk \in Walks /\ fonts = NoFonts /\ glyph = NotDrawn
  BY <1>1, WhileWalking
<1>3. PICK w, v, t, o : /\ w = walk /\ v = walk' /\ t = tables
                        /\ o = FileOffset(word(walk.buf), walk.shift_count)
  OBVIOUS
<1>4. /\ w \in Walks /\ w.left > 0 /\ w.left \in Nat /\ w.buf \in Nat /\ w.shift_count \in Nat
      /\ v = [w EXCEPT !.left = @ - 1, !.buf = @ + 12]
  BY <1>1, <1>2, <1>3 DEF NextResource, Walks
<1>5. /\ v \in Walks /\ v.shift_count = w.shift_count /\ v.res_type_id = w.res_type_id
      /\ v.left = w.left - 1 /\ v.buf = w.buf + 12
  <2>1. w.left - 1 \in Nat /\ w.buf + 12 \in Nat
    BY <1>4
  <2>2. v = [w EXCEPT !.left = w.left - 1, !.buf = w.buf + 12]
    BY <1>4 DEF Walks
  <2> QED BY <1>4, <2>1, <2>2 DEF Walks
<1>6. o \in Nat
  <2>1. word(walk.buf) \in Nat
    BY <1>2, WordType
  <2> QED BY <1>3, <1>4, <2>1 DEF FileOffset, Uint16
<1>7. IsTables(t)
  BY <1>3 DEF FontIInv, FontTypes
<1>8. tables' = Store(EntryFor(t, w.res_type_id), o)
  BY <1>3 DEF NextResource
<1>9. /\ IsTables(tables')
      /\ w.res_type_id = RES_TYPE_FONTDIR /\ Len(t.font_dirs) < MAX_FONT_DIRS =>
           /\ tables'.font_dirs = Append(t.font_dirs, o)
           /\ tables'.fonts = t.fonts /\ tables'.wild = t.wild
      /\ w.res_type_id = RES_TYPE_FONT /\ Len(t.fonts) < MAX_FONTS =>
           /\ tables'.fonts = Append(t.fonts, o)
           /\ tables'.font_dirs = t.font_dirs /\ tables'.wild = t.wild
  BY <1>6, <1>7, <1>8, TakeFacts
<1>10. FontTypes' /\ ReadFirst' /\ FirstOfVersion3' /\ Drawn' /\ (Whole' => Whole)
  <2>1. walk' \in Walks /\ gui' \in {"resources", "fonts"}
    BY <1>1, <1>3, <1>5
  <2> QED BY <1>1, <1>2, <1>9, <2>1, WalkKeeps
<1>11. ASSUME Whole
       PROVE  ~ tables'.wild /\ Collecting'
  <2>1. /\ Within /\ ~ t.wild /\ Collecting /\ FileFits
        /\ o = FileOffset(Field(w.buf), w.shift_count)
    BY <1>1, <1>2, <1>3, <1>4, <1>11, WhileWalking DEF Whole
  <2>2. /\ \A type : ToCome(type) = ToComeOn(w, type)
        /\ \A type : ToCome(type)' = ToComeOn(v, type)
    BY <1>1, <1>3, ToComeAfter DEF ToCome
  <2>3. \A type : /\ ToComeOn(v, type) \in Seq(Nat)
                  /\ ToComeOn(w, type) = IF w.res_type_id = type
                                         THEN <<o>> \o ToComeOn(v, type)
                                         ELSE ToComeOn(v, type)
    BY <1>4, <1>5, <2>1, ToComeNextResource
  <2>4. /\ tool_fonts' = tool_fonts /\ OtherTypes' = OtherTypes
        /\ tool_resources(RES_TYPE_FONTDIR)' = tool_resources(RES_TYPE_FONTDIR)
    BY <1>1, ToolKeeps
  <2>5. /\ w.res_type_id \in {RES_TYPE_FONTDIR, RES_TYPE_FONT}
        /\ tool_resources(RES_TYPE_FONTDIR) = t.font_dirs \o ToComeOn(w, RES_TYPE_FONTDIR)
        /\ tool_fonts = t.fonts \o ToComeOn(w, RES_TYPE_FONT)
        /\ \A type \in OtherTypes : ToComeOn(w, type) = <<>>
    BY <1>3, <1>4, <2>1, <2>2 DEF Collecting
  <2>6. /\ t.font_dirs \in Seq(Nat) /\ t.fonts \in Seq(Nat)
        /\ Len(t.font_dirs) \in Nat /\ Len(t.fonts) \in Nat
        /\ MAX_FONT_DIRS \in Nat /\ MAX_FONTS \in Nat
    BY <1>7, FontAssumption, LenProperties DEF IsTables
  <2>7. /\ w.res_type_id # RES_TYPE_FONTDIR \/ w.res_type_id # RES_TYPE_FONT
        /\ Len(tool_resources(RES_TYPE_FONTDIR)) <= MAX_FONT_DIRS
        /\ Len(tool_fonts) <= MAX_FONTS
    BY <2>1 DEF FileFits, RES_TYPE_FONT, RES_TYPE_FONTDIR
  <2>8. /\ ~ tables'.wild
        /\ tool_resources(RES_TYPE_FONTDIR)
             = tables'.font_dirs \o ToComeOn(v, RES_TYPE_FONTDIR)
        /\ tool_fonts = tables'.fonts \o ToComeOn(v, RES_TYPE_FONT)
    <3>1. CASE w.res_type_id = RES_TYPE_FONTDIR
      <4>1. PICK r : r = ToComeOn(v, RES_TYPE_FONTDIR)
        OBVIOUS
      <4>2. r \in Seq(Nat) /\ tool_resources(RES_TYPE_FONTDIR) = t.font_dirs \o (<<o>> \o r)
        BY <2>3, <2>5, <3>1, <4>1
      <4>3. /\ t.font_dirs \o (<<o>> \o r) = Append(t.font_dirs, o) \o r
            /\ Len(t.font_dirs) < Len(tool_resources(RES_TYPE_FONTDIR))
        BY <1>6, <2>6, <4>2, TakeFirst
      <4>4. Len(t.font_dirs) < MAX_FONT_DIRS
        <5>1. Len(tool_resources(RES_TYPE_FONTDIR)) \in Nat
          <6>1. <<o>> \o r \in Seq(Nat)
            BY <1>6, <4>2, ConcatProperties
          <6>2. tool_resources(RES_TYPE_FONTDIR) \in Seq(Nat)
            BY <2>6, <4>2, <6>1, ConcatProperties, Zenon
          <6> QED BY <6>2, LenProperties
        <5> QED BY <2>6, <2>7, <4>3, <5>1
      <4>5. /\ tables'.font_dirs = Append(t.font_dirs, o) /\ tables'.fonts = t.fonts
            /\ tables'.wild = t.wild
        BY <1>9, <3>1, <4>4
      <4>6. ToComeOn(w, RES_TYPE_FONT) = ToComeOn(v, RES_TYPE_FONT)
        BY <2>3, <2>7, <3>1
      <4> QED BY <2>1, <2>5, <4>1, <4>2, <4>3, <4>5, <4>6
    <3>2. CASE w.res_type_id = RES_TYPE_FONT
      <4>1. PICK r : r = ToComeOn(v, RES_TYPE_FONT)
        OBVIOUS
      <4>2. r \in Seq(Nat) /\ tool_fonts = t.fonts \o (<<o>> \o r)
        BY <2>3, <2>5, <3>2, <4>1
      <4>3. /\ t.fonts \o (<<o>> \o r) = Append(t.fonts, o) \o r
            /\ Len(t.fonts) < Len(tool_fonts)
        BY <1>6, <2>6, <4>2, TakeFirst
      <4>4. Len(t.fonts) < MAX_FONTS
        <5>1. Len(tool_fonts) \in Nat
          <6>1. <<o>> \o r \in Seq(Nat)
            BY <1>6, <4>2, ConcatProperties
          <6>2. tool_fonts \in Seq(Nat)
            BY <2>6, <4>2, <6>1, ConcatProperties, Zenon
          <6> QED BY <6>2, LenProperties
        <5> QED BY <2>6, <2>7, <4>3, <5>1
      <4>5. /\ tables'.fonts = Append(t.fonts, o) /\ tables'.font_dirs = t.font_dirs
            /\ tables'.wild = t.wild
        BY <1>9, <3>2, <4>4
      <4>6. ToComeOn(w, RES_TYPE_FONTDIR) = ToComeOn(v, RES_TYPE_FONTDIR)
        BY <2>3, <2>7, <3>2
      <4> QED BY <2>1, <2>5, <4>1, <4>2, <4>3, <4>5, <4>6
    <3> QED BY <2>5, <3>1, <3>2
  <2>9. \A type \in OtherTypes : ToComeOn(v, type) = <<>>
    BY <2>3, <2>5 DEF OtherTypes
  <2>10. /\ tool_fonts' = tables'.fonts \o ToCome(RES_TYPE_FONT)'
         /\ tool_resources(RES_TYPE_FONTDIR)'
              = tables'.font_dirs \o ToCome(RES_TYPE_FONTDIR)'
    BY <2>2, <2>4, <2>8
  <2>11. \A type \in OtherTypes' : ToCome(type)' = <<>>
    BY <2>2, <2>4, <2>9
  <2>12. walk'.res_type_id \in {RES_TYPE_FONTDIR, RES_TYPE_FONT}
    BY <1>3, <1>5, <2>5
  <2> QED BY <2>8, <2>10, <2>11, <2>12 DEF Collecting
<1>12. Collected'
  BY <1>1, <1>10, <1>11 DEF Collected
<1> QED
  BY <1>10, <1>12 DEF FontIInv

(* A step that only lists a font keeps the types.                          *)
LEMMA TypesListed ==
  ASSUME FontTypes, gui = "fonts", UNCHANGED <<file, gui, walk, tables, glyph>>,
         fonts' = [v2 |-> fonts'.v2, v3 |-> fonts'.v3],
         fonts'.v2 \in Seq(Nat), fonts'.v3 \in Seq(Nat), Listed' <= Len(tables.fonts)
  PROVE  FontTypes'
<1>1. FontTypeOK'
  BY DEF FontTypes, FontTypeOK
<1> QED
  BY <1>1 DEF FontTypes, IsTables

(* The next font goes to the list of its version.                          *)
LEMMA ParseFontKeeps ==
  ASSUME FontIInv, parse_font
  PROVE  FontIInv'
<1>1. /\ gui = "fonts" /\ Listed < Len(tables.fonts)
      /\ UNCHANGED <<file, gui, walk, tables, glyph, ataVars>>
  BY DEF parse_font
<1>2. /\ tables.fonts \in Seq(Nat) /\ fonts.v2 \in Seq(Nat) /\ fonts.v3 \in Seq(Nat)
      /\ fonts = [v2 |-> fonts.v2, v3 |-> fonts.v3] /\ FontTypes /\ FirstOfVersion3
  BY DEF FontIInv, FontTypes, FontTypeOK
<1>3. PICK a \in Nat, b \in Nat, m \in Nat :
        a = Len(fonts.v2) /\ b = Len(fonts.v3) /\ m = Len(tables.fonts)
  BY <1>2, LenProperties
<1>4. Listed = a + b /\ a + b + 1 \in 1 .. m
  <2>1. Listed = a + b
    BY <1>3 DEF Listed
  <2>2. a + b < m
    BY <1>1, <1>3, <2>1
  <2> QED BY <2>1, <2>2
<1>5. PICK p : p = tables.fonts[a + b + 1]
  OBVIOUS
<1>6. p \in Nat
  BY <1>2, <1>3, <1>4, <1>5, ElementOfSeq
<1>7. glyph = NotDrawn
  BY <1>1 DEF FontIInv, Drawn
<1>8. UNCHANGED <<file, data, read_count, step, start, count>>
  BY <1>1 DEF ataVars, driver
<1>9. Collected'
  BY <1>1, <1>8, CollectedKeeps DEF FontIInv
<1>10. ReadFirst'
  BY <1>1, <1>8 DEF FontIInv, ReadFirst, Parsing
<1>11. Drawn'
  BY <1>1, <1>7 DEF Drawn
<1>12. \A i : IsVersion2(tables.fonts[i])' <=> IsVersion2(tables.fonts[i])
  BY <1>1, <1>8 DEF IsVersion2, word, Field
<1>13. CASE IsVersion2(p)
  <2>1. fonts' = [v2 |-> Append(fonts.v2, p), v3 |-> fonts.v3]
    BY <1>2, <1>4, <1>5, <1>13 DEF parse_font
  <2>2. Append(fonts.v2, p) \in Seq(Nat) /\ Len(Append(fonts.v2, p)) = a + 1
    BY <1>2, <1>3, <1>6, AppendProperties
  <2>3. Listed' = a + b + 1
    <3>1. Len(fonts'.v2) = a + 1 /\ Len(fonts'.v3) = b
      BY <1>3, <2>1, <2>2
    <3>2. Listed' = (a + 1) + b
      BY <3>1 DEF Listed
    <3> QED BY <3>2
  <2>4. FontTypes'
    BY <1>1, <1>2, <1>3, <1>4, <2>1, <2>2, <2>3, TypesListed
  <2>5. FirstOfVersion3'
    <3>1. ASSUME fonts'.v3 = <<>> PROVE \A i \in 1 .. Listed' : IsVersion2(tables.fonts[i])'
      <4>1. \A i \in 1 .. a + b : IsVersion2(tables.fonts[i])
        BY <1>2, <1>4, <2>1, <3>1 DEF FirstOfVersion3
      <4>2. \A i \in 1 .. a + b + 1 : i \in 1 .. a + b \/ i = a + b + 1
        OBVIOUS
      <4> QED BY <1>5, <1>12, <1>13, <2>3, <4>1, <4>2
    <3>2. ASSUME fonts'.v3 # <<>>
          PROVE  \E i \in 1 .. Listed' :
                   /\ fonts'.v3[1] = tables'.fonts[i] /\ ~ IsVersion2(tables.fonts[i])'
                   /\ \A j \in 1 .. i - 1 : IsVersion2(tables.fonts[j])'
      <4>1. PICK i \in 1 .. a + b :
              /\ fonts.v3[1] = tables.fonts[i] /\ ~ IsVersion2(tables.fonts[i])
              /\ \A j \in 1 .. i - 1 : IsVersion2(tables.fonts[j])
        BY <1>2, <1>4, <2>1, <3>2 DEF FirstOfVersion3
      <4>2. i \in 1 .. Listed'
        BY <2>3
      <4> QED BY <1>1, <1>12, <2>1, <4>1, <4>2
    <3> QED BY <3>1, <3>2 DEF FirstOfVersion3
  <2> QED BY <1>9, <1>10, <1>11, <2>4, <2>5 DEF FontIInv
<1>14. CASE ~ IsVersion2(p)
  <2>1. fonts' = [v2 |-> fonts.v2, v3 |-> Append(fonts.v3, p)]
    BY <1>2, <1>4, <1>5, <1>14 DEF parse_font
  <2>2. /\ Append(fonts.v3, p) \in Seq(Nat) /\ Len(Append(fonts.v3, p)) = b + 1
        /\ \A i \in 1 .. b : Append(fonts.v3, p)[i] = fonts.v3[i]
        /\ Append(fonts.v3, p)[b + 1] = p
    BY <1>2, <1>3, <1>6, AppendProperties
  <2>3. Listed' = a + b + 1
    <3>1. Len(fonts'.v2) = a /\ Len(fonts'.v3) = b + 1
      BY <1>3, <2>1, <2>2
    <3>2. Listed' = a + (b + 1)
      BY <3>1 DEF Listed
    <3> QED BY <3>2
  <2>4. FontTypes'
    BY <1>1, <1>2, <1>3, <1>4, <2>1, <2>2, <2>3, TypesListed
  <2>5. fonts'.v3 # <<>>
    <3>1. b + 1 # 0
      OBVIOUS
    <3> QED BY <2>1, <2>2, <3>1, EmptySeq
  <2>6. \E i \in 1 .. Listed' :
          /\ fonts'.v3[1] = tables'.fonts[i] /\ ~ IsVersion2(tables.fonts[i])'
          /\ \A j \in 1 .. i - 1 : IsVersion2(tables.fonts[j])'
    <3>1. CASE fonts.v3 = <<>>
      <4>1. b = 0
        BY <1>3, <3>1, EmptySeq
      <4>2. \A j \in 1 .. a + b : IsVersion2(tables.fonts[j])
        BY <1>2, <1>4, <3>1 DEF FirstOfVersion3
      <4>3. a + b + 1 \in 1 .. Listed' /\ (a + b + 1) - 1 = a + b
        BY <1>4, <2>3
      <4>4. fonts'.v3[1] = p
        BY <2>1, <2>2, <4>1
      <4>5. ~ IsVersion2(tables.fonts[a + b + 1])'
        BY <1>5, <1>12, <1>14
      <4>6. \A j \in 1 .. (a + b + 1) - 1 : IsVersion2(tables.fonts[j])'
        BY <1>12, <4>2, <4>3
      <4> QED BY <1>1, <1>5, <4>3, <4>4, <4>5, <4>6
    <3>2. CASE fonts.v3 # <<>>
      <4>1. PICK i \in 1 .. a + b :
              /\ fonts.v3[1] = tables.fonts[i] /\ ~ IsVersion2(tables.fonts[i])
              /\ \A j \in 1 .. i - 1 : IsVersion2(tables.fonts[j])
        BY <1>2, <1>4, <3>2 DEF FirstOfVersion3
      <4>2. i \in 1 .. Listed'
        BY <2>3
      <4>3. 1 \in 1 .. b
        <5>1. b # 0
          BY <1>2, <1>3, <3>2, EmptySeq
        <5> QED BY <5>1
      <4>4. fonts'.v3[1] = fonts.v3[1]
        BY <2>1, <2>2, <4>3
      <4> QED BY <1>1, <1>12, <4>1, <4>2, <4>4
    <3> QED BY <3>1, <3>2
  <2>7. FirstOfVersion3'
    BY <2>5, <2>6 DEF FirstOfVersion3
  <2> QED BY <1>9, <1>10, <1>11, <2>4, <2>7 DEF FontIInv
<1> QED
  BY <1>13, <1>14

(* All fonts are in a list.                                                *)
LEMMA FontsListedKeeps ==
  ASSUME FontIInv, FontsListed
  PROVE  FontIInv'
<1>1. /\ gui = "fonts" /\ gui' = "text" /\ Listed = Len(tables.fonts)
      /\ UNCHANGED <<file, walk, tables, fonts, glyph, ataVars>>
  BY DEF FontsListed
<1>2. UNCHANGED <<file, data, read_count, step, start, count>>
  BY <1>1 DEF ataVars, driver
<1>3. Listed' = Listed
  BY <1>1 DEF Listed
<1>4. FontTypes'
  BY <1>1, <1>3 DEF FontIInv, FontTypes, FontTypeOK, IsTables
<1>5. ReadFirst'
  BY <1>1, <1>2 DEF FontIInv, ReadFirst, Parsing
<1>6. Collected'
  <2>1. Whole' => Whole
    BY <1>1, <1>2, ToolKeeps DEF Whole
  <2> QED BY <1>1, <2>1, ToolKeeps DEF FontIInv, Collected, Parsing
<1>7. FirstOfVersion3'
  <2>1. \A i : IsVersion2(tables.fonts[i])' <=> IsVersion2(tables.fonts[i])
    BY <1>1, <1>2 DEF IsVersion2, word, Field
  <2> QED BY <1>1, <1>3, <2>1 DEF FontIInv, FirstOfVersion3
<1>8. Drawn'
  BY <1>1 DEF FontIInv, Drawn
<1> QED
  BY <1>4, <1>5, <1>6, <1>7, <1>8 DEF FontIInv

(* A character is drawn.                                                   *)
LEMMA GuiTextKeeps ==
  ASSUME FontIInv, NEW num \in GlyphNumbers, gui_text(num)
  PROVE  FontIInv'
<1>1. /\ gui = "text" /\ glyph' = [num |-> num, at |-> font_get_glyph(num)]
      /\ UNCHANGED <<file, gui, walk, tables, fonts, ataVars>>
  BY DEF gui_text
<1>2. UNCHANGED <<file, data, read_count, step, start, count>>
  BY <1>1 DEF ataVars, driver
<1>3. font_get_glyph(num) \in Nat \cup {Garbage}
  <2>1. CASE fonts.v3 = <<>> \/ tables.wild
    BY <2>1 DEF font_get_glyph
  <2>2. CASE ~ (fonts.v3 = <<>> \/ tables.wild)
    <3>1. fonts.v3 \in Seq(Nat) /\ fonts.v3 # <<>> /\ file \in FontFiles
      BY <2>2 DEF FontIInv, FontTypes, FontTypeOK
    <3>2. fonts.v3[1] \in Nat
      <4>1. Len(fonts.v3) \in Nat /\ Len(fonts.v3) # 0
        BY <3>1, EmptySeq, LenProperties
      <4>2. 1 \in 1 .. Len(fonts.v3)
        BY <4>1
      <4> QED BY <3>1, <4>2, ElementOfSeq
    <3>3. \A q : word(q) \in Nat
      BY <3>1, WordType
    <3> QED BY <2>2, <3>2, <3>3 DEF font_get_glyph, Null
  <2> QED BY <2>1, <2>2
<1>4. Listed' = Listed
  BY <1>1 DEF Listed
<1>5. FontTypes'
  BY <1>1, <1>3, <1>4 DEF FontIInv, FontTypes, FontTypeOK, IsTables
<1>6. ReadFirst'
  BY <1>1, <1>2 DEF FontIInv, ReadFirst, Parsing
<1>7. Collected'
  BY <1>1, <1>2, CollectedKeeps DEF FontIInv
<1>8. FirstOfVersion3'
  <2>1. \A i : IsVersion2(tables.fonts[i])' <=> IsVersion2(tables.fonts[i])
    BY <1>1, <1>2 DEF IsVersion2, word, Field
  <2> QED BY <1>1, <1>4, <2>1 DEF FontIInv, FirstOfVersion3
<1>9. Drawn'
  <2>1. font_get_glyph(num)' = font_get_glyph(num)
    BY <1>1, <1>2 DEF font_get_glyph, word, Field
  <2>2. glyph'.num = num /\ glyph'.at = font_get_glyph(num)
    BY <1>1
  <2>3. font_get_glyph(glyph.num)' = font_get_glyph(num)'
    BY <2>2 DEF font_get_glyph
  <2> QED BY <1>1, <2>1, <2>2, <2>3 DEF Drawn
<1> QED
  BY <1>5, <1>6, <1>7, <1>8, <1>9 DEF FontIInv

(* For the driver every step is a call, its own or none of its.            *)
LEMMA FontIsCaller ==
  ASSUME [FontMove]_<<ataVars, fontVars>>
  PROVE  [AnyCall \/ Driver \/ Poll \/ DriveEnds]_ataVars
<1>1. CASE font_load
  <2>1. FontSector \in 0 .. UintModulus - 1 /\ FontSectors \in 1 .. 255
    BY FontAssumption, SectorsAssumption DEF UintModulus
  <2> QED BY <1>1, <2>1 DEF font_load, AnyCall
<1>2. CASE FontNext /\ ~ font_load
  BY <1>2 DEF FontNext, FontRead, parse_resource_table, NextType, NextResource, TableEnds,
              parse_font, FontsListed, gui_text
<1> QED
  BY <1>1, <1>2 DEF FontMove

(* Every step keeps the invariant.                                         *)
LEMMA FontNextIInv ==
  AtaIInv /\ FontIInv /\ [FontMove]_<<ataVars, fontVars>> => FontIInv'
<1> SUFFICES ASSUME AtaIInv, FontIInv, [FontMove]_<<ataVars, fontVars>> PROVE FontIInv'
  OBVIOUS
<1>1. CASE font_load
  BY <1>1, FontLoadKeeps
<1>2. CASE FontRead
  BY <1>2, FontReadKeeps
<1>3. CASE parse_resource_table
  BY <1>3, NextTypeKeeps, NextResourceKeeps, TableEndsKeeps DEF parse_resource_table
<1>4. CASE parse_font \/ FontsListed
  BY <1>4, ParseFontKeeps, FontsListedKeeps
<1>5. ASSUME NEW num \in GlyphNumbers, gui_text(num) PROVE FontIInv'
  BY <1>5, GuiTextKeeps
<1>6. CASE (Driver \/ Poll \/ DriveEnds) /\ UNCHANGED fontVars
  BY <1>6, DriverKeeps
<1>7. CASE UNCHANGED <<ataVars, fontVars>>
  <2>1. UNCHANGED <<fontVars, data, read_count, step, start, count>>
    BY <1>7 DEF ataVars, driver
  <2>2. Collected' /\ FirstOfVersion3' /\ Drawn'
    BY <2>1, ParsedKeeps
  <2>3. FontTypes' /\ ReadFirst'
    BY <2>1 DEF fontVars, FontIInv, FontTypes, FontTypeOK, IsTables, Listed, ReadFirst, Parsing
  <2> QED BY <2>2, <2>3 DEF FontIInv
<1> QED
  BY <1>1, <1>2, <1>3, <1>4, <1>5, <1>6, <1>7 DEF FontMove, FontNext

(* Font loading is one of the callers that the driver's theorems are       *)
(* about.                                                                  *)
THEOREM FontsUseDriver == FontSpec => AtaSpec
  BY FontIsCaller, PTL DEF FontSpec, AtaSpec

(* So both invariants always hold, the driver's from its own theorem.      *)
LEMMA FontInvariance == FontSpec => [](AtaIInv /\ FontIInv)
  BY FontInitIInv, FontNextIInv, FontsUseDriver, AtaInvariance, PTL DEF FontSpec

(* The tool's fonts of version 3.                                          *)
Version3 == {i \in DOMAIN tool_fonts : tool_version(tool_fonts[i]) = \h0300}

(* The glyph that it shows of a font.                                      *)
Shown(f, num) ==
  LET shown == tool_parse_font(f)
  IN IF num \in DOMAIN shown THEN shown[num] ELSE Null

(* Of a whole file the kernel has the tool's first font of version 3.      *)
LEMMA SameFont ==
  ASSUME AtaIInv, FontIInv, gui = "text", Whole, Version3 # {}
  PROVE  /\ fonts.v3 # <<>> /\ fonts.v3[1] = tool_fonts[Min(Version3)]
         /\ fonts.v3[1] \in Nat /\ tool_version(fonts.v3[1]) = \h0300
<1> DEFINE v3 == Version3
<1>1. /\ tables.fonts = tool_fonts /\ tool_fonts \in Seq(Nat)
      /\ Listed = Len(tool_fonts) /\ Len(tool_fonts) \in Nat
      /\ DOMAIN tool_fonts = 1 .. Len(tool_fonts)
  <2>1. tables.fonts = tool_fonts /\ tables.fonts \in Seq(Nat) /\ Listed = Len(tables.fonts)
    BY DEF FontIInv, Collected, FontTypes, FontTypeOK
  <2> QED BY <2>1, LenProperties
<1>2. \A p \in Nat : word(p) = Field(p)
  BY WordIsField DEF FontIInv, Whole, Parsing
<1>3. ASSUME NEW i \in 1 .. Len(tool_fonts)
      PROVE  /\ tool_fonts[i] \in Nat
             /\ IsVersion2(tool_fonts[i]) <=> i \notin v3
  <2>1. tool_fonts[i] \in Nat
    BY <1>1, ElementOfSeq
  <2>2. word(tool_fonts[i]) = tool_version(tool_fonts[i])
    BY <1>2, <2>1 DEF tool_version, fontdir_entry_t
  <2>3. tool_version(tool_fonts[i]) \in {\h0200, \h0300}
    BY <1>1 DEF Whole, FileFits
  <2> QED BY <1>1, <2>1, <2>2, <2>3 DEF IsVersion2, Version3
<1>4. v3 \in SUBSET Nat /\ v3 \subseteq 1 .. Len(tool_fonts)
  BY <1>1 DEF Version3
<1> HIDE DEF v3
<1>12. v3 # {} /\ v3 = Version3
  BY DEF v3
<1>5. Min(v3) \in v3 /\ \A i \in v3 : Min(v3) <= i
  <2>1. \E x \in v3 : \A y \in v3 : x <= y
    BY <1>4, <1>12, Smallest
  <2> QED BY <2>1 DEF Min
<1>6. PICK k : k = Min(v3) /\ k \in v3 /\ k \in 1 .. Len(tool_fonts)
  BY <1>4, <1>5
<1>7. fonts.v3 # <<>>
  <2> SUFFICES ASSUME fonts.v3 = <<>> PROVE FALSE
    OBVIOUS
  <2>1. IsVersion2(tool_fonts[k])
    BY <1>1, <1>6 DEF FontIInv, FirstOfVersion3
  <2> QED BY <1>3, <1>6, <2>1
<1>8. PICK i \in 1 .. Len(tool_fonts) :
        /\ fonts.v3[1] = tool_fonts[i] /\ ~ IsVersion2(tool_fonts[i])
        /\ \A j \in 1 .. i - 1 : IsVersion2(tool_fonts[j])
  BY <1>1, <1>7 DEF FontIInv, FirstOfVersion3
<1>9. i \in v3
  BY <1>3, <1>8
<1>10. i = k
  <2>1. k <= i
    BY <1>5, <1>6, <1>9
  <2>2. ~ (k \in 1 .. i - 1)
    BY <1>3, <1>6, <1>8
  <2>3. i \in Nat /\ k \in Nat /\ 1 <= k
    BY <1>1, <1>6, <1>8
  <2> QED BY <2>1, <2>2, <2>3
<1>11. tool_version(tool_fonts[k]) = \h0300 /\ tool_fonts[k] \in Nat
  BY <1>3, <1>6, <1>12 DEF Version3
<1> QED
  BY <1>6, <1>7, <1>8, <1>10, <1>11, <1>12

(* The characters, and none.                                               *)
Numbers == 0 .. 255 \cup {NotDrawn.num}
OfVersion3(f) == tool_version(f) = \h0300

(* Of one font the kernel and the tool show the same glyphs.               *)
LEMMA SameGlyph ==
  ASSUME AtaIInv, FontIInv, gui = "text", Whole, ~ tables.wild,
         NEW num \in Numbers, NEW f \in Nat, fonts.v3 # <<>>, fonts.v3[1] = f, OfVersion3(f)
  PROVE  font_get_glyph(num) = Shown(f, num)
<1>1. \A p \in Nat : word(p) = Field(p) /\ word(p) \in Nat
  BY WordIsField, WordType DEF FontIInv, Whole, Parsing, Within
<1>2. PICK first, last : first = Field(f + 95) /\ last = Field(f + 96)
  OBVIOUS
<1>3. f + 95 \in Nat /\ f + 96 \in Nat
  OBVIOUS
<1>4. first \in Nat /\ last \in Nat /\ first = word(f + 95) /\ last = word(f + 96)
  BY <1>1, <1>2, <1>3
<1>5. tool_parse_font(f)
        = [i \in first .. last |-> f + Field(((f + 109) + 9 + 30) + (i - first) * 6 + 2)]
  BY <1>2 DEF tool_parse_font, fontdir_entry_t, OfVersion3
<1>6. font_get_glyph(num)
        = IF num < first \/ num > last THEN Null
          ELSE f + word(f + 148 + 6 * (num - first) + 2)
  BY <1>4 DEF font_get_glyph, font_v3
<1>7. ASSUME num \in first .. last
      PROVE  word(f + 148 + 6 * (num - first) + 2)
               = Field(((f + 109) + 9 + 30) + (num - first) * 6 + 2)
  <2>1. /\ f + 148 + 6 * (num - first) + 2 \in Nat
        /\ f + 148 + 6 * (num - first) + 2 = ((f + 109) + 9 + 30) + (num - first) * 6 + 2
    BY <1>4, <1>7
  <2> QED BY <1>1, <2>1
<1>8. num \in first .. last <=> ~ (num < first \/ num > last)
  <2>1. num \in Int
    BY DEF Numbers, NotDrawn
  <2>2. first \in Nat /\ last \in Nat
    BY <1>4
  <2> QED BY <2>1, <2>2
<1> QED
  BY <1>5, <1>6, <1>7, <1>8 DEF Shown

(* The variables of font.c keep their types: no list is longer than its    *)
(* array, and every font taken from the table gets into a list.            *)
THEOREM FontTypeCorrect == FontSpec => []FontTypeOK
<1>1. FontIInv => FontTypeOK
  BY DEF FontIInv, FontTypes
<1> QED
  BY <1>1, FontInvariance, PTL

(* The kernel's and the tool's reading of a font file agree: of every file *)
(* that fits and was read to its end, for every character.                 *)
THEOREM GlyphsAreTools == FontSpec => []KernelGlyphIsTools
<1>1. AtaIInv /\ FontIInv => KernelGlyphIsTools
  <2> SUFFICES ASSUME AtaIInv, FontIInv PROVE KernelGlyphIsTools
    OBVIOUS
  <2> SUFFICES ASSUME glyph # NotDrawn, read_count = FontSectors, FileFits, Version3 # {}
               PROVE  glyph.at = Shown(tool_fonts[Min(Version3)], glyph.num)
    BY DEF KernelGlyphIsTools, Version3, Shown
  <2>1. tool_signed
    <3> SUFFICES ASSUME ~ tool_signed PROVE FALSE
      OBVIOUS
    <3>1. tool_fonts = <<>>
      BY DEF tool_fonts, tool_resources
    <3>2. DOMAIN tool_fonts = {}
      BY <3>1
    <3> QED BY <3>2 DEF Version3
  <2>2. Whole
    BY <2>1 DEF Whole, Within, FileFits, FontIInv, FontTypes, FontTypeOK
  <2>3. gui = "text" /\ glyph.at = font_get_glyph(glyph.num) /\ ~ tables.wild
    BY <2>2 DEF FontIInv, Drawn, Collected, Parsing
  <2>4. /\ fonts.v3 # <<>> /\ fonts.v3[1] = tool_fonts[Min(Version3)]
        /\ fonts.v3[1] \in Nat /\ tool_version(fonts.v3[1]) = \h0300
    BY <2>2, <2>3, SameFont
  <2>5. glyph.num \in Numbers
    BY FontAssumption DEF FontIInv, FontTypes, FontTypeOK, Numbers
  <2>6. PICK f, num : f = fonts.v3[1] /\ num = glyph.num
    OBVIOUS
  <2>7. f \in Nat /\ num \in Numbers /\ fonts.v3 # <<>> /\ fonts.v3[1] = f /\ OfVersion3(f)
    BY <2>4, <2>5, <2>6 DEF OfVersion3
  <2>8. font_get_glyph(num) = Shown(f, num)
    BY <2>2, <2>3, <2>7, SameGlyph
  <2> QED BY <2>3, <2>4, <2>6, <2>8
<1> QED
  BY <1>1, FontInvariance, PTL
=============================================================================
