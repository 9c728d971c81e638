------------------------------ MODULE AtaDisk ------------------------------
(***************************************************************************)
(* The kernel's disk driver (libs/core/disk.c): Kernel_DISK_Initialize     *)
(* identifies the drive, Kernel_DISK_ReadSectors reads it with three       *)
(* tries, and both go through the register dialogue of Disk_Read with a    *)
(* drive that works at its own pace.  The hardware is two channels of two  *)
(* drives; a drive shows that it is busy some time after the command, not  *)
(* at once, and the driver does not wait for it.                           *)
(***************************************************************************)
EXTENDS Integers, Sequences

CONSTANTS
  Id,                      \* disk->id without its bit 7: 0 .. 3
  Attached,                \* the drives that are attached
  BYTE,                    \* values of a register (256)
  NIBBLE,                  \* values of the address bits in the device register (16)
  TRIES,                   \* calls of Disk_Read by Kernel_DISK_ReadSectors (3)
  Reads,                   \* the reads the FAT driver asks for: first sector and number
  Capacity,                \* sectors of a drive
  Faults,                  \* what may happen to a block, besides its delivery:
                           \* "flawed": delivered with the error bit, "abort": error, no data
  Geometries,              \* what words 3 and 6 of an identification may say: heads, sectors
  Nothing, Pending, Error  \* of DiskService

Drives == 0 .. 3

ASSUME AtaAssumption ==
  /\ Id \in Drives /\ Attached \subseteq Drives
  /\ {BYTE, NIBBLE, TRIES, Capacity} \subseteq Nat \ {0}
  /\ \A r \in Reads : r.lba \in 0 .. BYTE * BYTE * BYTE * NIBBLE - 1 /\ r.n \in 1 .. BYTE - 1
  /\ Faults \subseteq {"flawed", "abort"}
  /\ \A g \in Geometries : {g.heads, g.sectors} \subseteq Nat

VARIABLES
  reg,       \* per channel, the registers both its drives latch
  drive,     \* per drive: the status bits, and the blocks of its command left
  disk,      \* the geometry of DISK
  ataPc,     \* where the driver is
  req,       \* the arguments of the call
  try,       \* i of Kernel_DISK_ReadSectors
  data,      \* the caller's buffer, by sector, as far as this try has come
  ataResult  \* what the last call has returned

ataVars == <<reg, drive, disk, ataPc, req, try, data, ataResult>>
hardware == <<reg, drive>>

Identity == -1                  \* the block IDENTIFY delivers, as an lba
Flawed == -2                    \* a block delivered with an error
NoRead == [lba |-> 0, n |-> 0, identify |-> FALSE]
IdentifyRead == [lba |-> 0, n |-> 1, identify |-> TRUE]
Request(r) == [lba |-> r.lba, n |-> r.n, identify |-> FALSE]

\* No read is taken for none.
ASSUME NothingAssumption == Nothing \notin {IdentifyRead} \cup {Request(r) : r \in Reads}

\* A block is <<drive, lba>>: a sector of another drive is a wrong sector.
Wanted(r) ==
  IF r.identify THEN <<<<Id, Identity>>>>
  ELSE [k \in 1 .. r.n |-> <<Id, r.lba + k - 1>>]

Channel(id) == IF id < 2 THEN 0 ELSE 1

\* Before the kernel either drive of a channel may be selected.
Channels ==
  [{0, 1} -> [dev : {0, 1}, top : {0}, high : {0}, mid : {0}, low : {0}, count : {0}]]

AtaInit ==
  /\ reg \in Channels
  /\ drive = [d \in Drives |-> [busy |-> FALSE, drq |-> FALSE, err |-> FALSE, todo |-> <<>>]]
  /\ disk = [heads |-> 0, sectors |-> 0]
  /\ ataPc = "initialize"
  /\ req = NoRead /\ try = 0 /\ data = <<>>
  /\ ataResult = Nothing

-----------------------------------------------------------------------------
(***************************************************************************)
(* The drives.                                                             *)
(***************************************************************************)
Selected(c) == 2 * c + reg[c].dev

\* The status register: an empty channel floats, an absent second drive reads 0.
Status(c) ==
  IF Selected(c) \in Attached THEN drive[Selected(c)]
  ELSE LET floats == {2 * c, 2 * c + 1} \cap Attached = {}
       IN [busy |-> floats, drq |-> floats, err |-> floats, todo |-> <<>>]

AddressOf(r) == r.low + BYTE * (r.mid + BYTE * (r.high + BYTE * r.top))

\* A command was written to the channel: its selected drive takes it up.
Accept(c, r, identify) ==
  LET d == 2 * c + r.dev
      blocks == IF identify THEN <<<<d, Identity>>>>
                ELSE [k \in 1 .. r.count |-> <<d, AddressOf(r) + k - 1>>]
  IN drive' = [drive EXCEPT ![d].todo = IF d \in Attached THEN blocks ELSE <<>>]

GoBusy(d) ==
  /\ drive[d].todo # <<>> /\ ~drive[d].busy /\ ~drive[d].drq
  /\ drive' = [drive EXCEPT ![d].busy = TRUE, ![d].err = FALSE]
  /\ UNCHANGED <<reg, disk, ataPc, req, try, data, ataResult>>

Offer(d) ==
  /\ drive[d].busy
  /\ LET block == Head(drive[d].todo)
         there == block[2] < Capacity
     IN \/ there /\ drive' = [drive EXCEPT ![d].busy = FALSE, ![d].drq = TRUE]
        \/ /\ there /\ "flawed" \in Faults
           /\ drive' = [drive EXCEPT ![d] = [busy |-> FALSE, drq |-> TRUE, err |-> TRUE,
                                             todo |-> <<<<d, Flawed>>>>]]
        \/ /\ (~there \/ "abort" \in Faults)
           /\ drive' = [drive EXCEPT ![d] = [busy |-> FALSE, drq |-> FALSE, err |-> TRUE,
                                             todo |-> <<>>]]
  /\ UNCHANGED <<reg, disk, ataPc, req, try, data, ataResult>>

DriveStep == \E d \in Attached : GoBusy(d) \/ Offer(d)

-----------------------------------------------------------------------------
(***************************************************************************)
(* The driver.                                                             *)
(***************************************************************************)
AtaCall(r) == req' = r /\ try' = 0 /\ data' = <<>> /\ ataPc' = "select" /\ ataResult' = Pending

\* Kernel_DISK_Initialize, for a hard disk.
Initialize ==
  /\ ataPc = "initialize"
  /\ AtaCall(IdentifyRead)
  /\ UNCHANGED <<hardware, disk>>

\* Kernel_DISK_ReadSectors converts the address with the drive's geometry first,
\* though only a floppy disk would need the result: with none it divides by zero.
ReadSectors ==
  /\ ataPc = "idle"
  /\ \E r \in Reads : AtaCall(Request(r))
  /\ UNCHANGED <<hardware, disk>>

AtaConvert ==
  /\ ataPc = "select" /\ ~req.identify /\ try = 0
  /\ disk.heads = 0 \/ disk.sectors = 0
  /\ ataPc' = "fault"
  /\ UNCHANGED <<hardware, disk, req, try, data, ataResult>>

CanConvert == req.identify \/ (disk.heads > 0 /\ disk.sectors > 0)

\* Bug: the second drive of a channel is never selected.
BugSelectFirst ==
  /\ ataPc = "select" /\ CanConvert
  /\ reg' = [reg EXCEPT ![Channel(Id)].dev = 0,
                        ![Channel(Id)].top = (req.lba \div (BYTE * BYTE * BYTE)) % NIBBLE]
  /\ data' = <<>>
  /\ ataPc' = "selectWait"
  /\ UNCHANGED <<drive, disk, req, try, ataResult>>

\* Disk_Read selects the drive and the top of the address ...
Select ==
  /\ ataPc = "select" /\ CanConvert
  /\ reg' = [reg EXCEPT ![Channel(Id)].dev = Id % 2,
                        ![Channel(Id)].top = (req.lba \div (BYTE * BYTE * BYTE)) % NIBBLE]
  /\ data' = <<>>
  /\ ataPc' = "selectWait"
  /\ UNCHANGED <<drive, disk, req, try, ataResult>>

Here == Status(Channel(Id))

\* ... waits while it is busy, and writes the rest with the command.
SelectWait ==
  /\ ataPc = "selectWait" /\ ~Here.busy
  /\ ataPc' = "command"
  /\ UNCHANGED <<hardware, disk, req, try, data, ataResult>>

Registers(r, q) ==
  IF q.identify
  THEN [r EXCEPT !.count = 0, !.low = 0, !.mid = 0, !.high = 0]
  ELSE [r EXCEPT !.count = q.n, !.low = q.lba % BYTE, !.mid = (q.lba \div BYTE) % BYTE,
                 !.high = (q.lba \div (BYTE * BYTE)) % BYTE]

Command ==
  /\ ataPc = "command"
  /\ LET c == Channel(Id)
     IN /\ reg' = [reg EXCEPT ![c] = Registers(reg[c], req)]
        /\ Accept(c, reg'[c], req.identify)
  /\ ataPc' = "busyWait"
  /\ UNCHANGED <<disk, req, try, data, ataResult>>

\* i686_ata_wait_bsy: it also passes when the drive is not busy yet.
BusyWait ==
  /\ ataPc = "busyWait" /\ ~Here.busy
  /\ ataPc' = "requestWait"
  /\ UNCHANGED <<hardware, disk, req, try, data, ataResult>>

\* i686_ata_wait_drq: nothing else ends this loop, the error bit least of all.
RequestWait ==
  /\ ataPc = "requestWait" /\ Here.drq
  /\ ataPc' = "transfer"
  /\ UNCHANGED <<hardware, disk, req, try, data, ataResult>>

\* Bug: one block more is taken than was asked for.
BugTransferOneMore ==
  /\ ataPc = "transfer"
  /\ data' = Append(data, <<Id, Flawed>>)
  /\ ataPc' = IF Len(data) < req.n THEN "busyWait" ELSE "status"
  /\ UNCHANGED <<reg, drive, disk, req, try, ataResult>>

\* The 256 words of a block.  Without a request the port reads anything.
Transfer ==
  /\ ataPc = "transfer"
  /\ LET d == Selected(Channel(Id))
         offered == d \in Attached /\ drive[d].drq
     IN /\ data' = Append(data, IF offered THEN Head(drive[d].todo) ELSE <<Id, Flawed>>)
        /\ drive' = IF offered
                    THEN [drive EXCEPT ![d].drq = FALSE, ![d].todo = Tail(@)]
                    ELSE drive
  /\ ataPc' = IF Len(data') < req.n THEN "busyWait" ELSE "status"
  /\ UNCHANGED <<reg, disk, req, try, ataResult>>

Return(r, next) == ataResult' = r /\ ataPc' = next /\ UNCHANGED try

\* Bug: the verdict of the drive is not looked at.
BugStatusIgnored ==
  /\ ataPc = "status"
  /\ Return(data, "idle")
  /\ disk' \in IF req.identify THEN Geometries ELSE {disk}
  /\ UNCHANGED <<hardware, req, data>>

\* Bug: the tries are not counted.
BugTryNotCounted ==
  /\ ataPc = "status"
  /\ \/ ~Here.err /\ Return(data, "idle")
     \/ Here.err /\ ataPc' = "select" /\ UNCHANGED <<ataResult, try>>
  /\ disk' \in IF req.identify THEN Geometries ELSE {disk}
  /\ UNCHANGED <<hardware, req, data>>

\* The error bit decides.  Identification is tried once, and without a drive the
\* kernel stops; a read is tried TRIES times.
StatusRead ==
  /\ ataPc = "status"
  /\ \/ ~Here.err /\ Return(data, "idle")
     \/ Here.err /\ req.identify /\ Return(Error, "end")
     \/ Here.err /\ ~req.identify /\ try + 1 = TRIES /\ Return(Error, "idle")
     \/ /\ Here.err /\ ~req.identify /\ try + 1 < TRIES
        /\ try' = try + 1 /\ ataPc' = "select" /\ UNCHANGED ataResult
  /\ disk' \in IF req.identify /\ ~Here.err THEN Geometries ELSE {disk}
  /\ UNCHANGED <<hardware, req, data>>

DriverStep ==
  \/ Initialize \/ AtaConvert \/ Select \/ SelectWait \/ Command \/ BusyWait
  \/ RequestWait \/ Transfer \/ StatusRead

AtaNext == ReadSectors \/ DriverStep \/ DriveStep

AtaSpec == AtaInit /\ [][AtaNext]_ataVars
FairSpec ==
  /\ AtaSpec /\ WF_ataVars(DriverStep)
  /\ \A d \in Drives : WF_ataVars(GoBusy(d)) /\ WF_ataVars(Offer(d))

-----------------------------------------------------------------------------
AtaTypeOK ==
  /\ \A c \in {0, 1} : reg[c].dev \in {0, 1} /\ reg[c].top < NIBBLE
  /\ \A d \in Drives : {drive[d].busy, drive[d].drq, drive[d].err} \subseteq BOOLEAN
  /\ ataPc \in {"initialize", "idle", "select", "selectWait", "command", "busyWait",
                "requestWait", "transfer", "status", "fault", "end"}
  /\ try \in 0 .. TRIES - 1
  /\ Len(data) <= req.n

InCall == ataPc \notin {"initialize", "idle", "end"}

Service == INSTANCE DiskService
  WITH Requests <- {IdentifyRead} \cup {Request(r) : r \in Reads},
       result <- ataResult,
       request <- IF InCall THEN req ELSE Nothing

\* A read that returns true has put the sectors asked for, of the drive asked,
\* into the caller's buffer, whatever the tries before it met and however late the
\* drive shows that it is busy.
ImplementsDisk == Service!Spec

\* A command is given only to the drive meant, and only while it neither works on
\* another nor holds data of another that nobody took: a retry finds it idle.
CommandsToIdleDrive ==
  [][ataPc = "command" /\ ataPc' = "busyWait" =>
       /\ Selected(Channel(Id)) = Id
       /\ Id \in Attached => (drive[Id].todo = <<>> /\ ~drive[Id].drq)]_ataVars

\* The drive has given up on the command: it is idle with an error, and the driver
\* waits for data of it.
GivenUp == ataPc \in {"busyWait", "requestWait"} /\ drive[Id].todo = <<>> /\ drive[Id].err

\* A call returns unless the drive gives up on a block without delivering one, or
\* has reported no geometry.
ReadEnds == InCall ~> (~InCall \/ GivenUp \/ ataPc = "fault")
=============================================================================
