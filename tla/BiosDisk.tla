------------------------------ MODULE BiosDisk ------------------------------
(***************************************************************************)
(* The boot loader's disk driver (libs/boot/disk.c) with the BIOS calls it *)
(* makes (libs/boot/x86.asm): the geometry unpacked, sector numbers        *)
(* converted to cylinder, head and sector and packed again, and three      *)
(* tries with a reset, which may itself fail, after each that fails.       *)
(***************************************************************************)
EXTENDS Int13

CONSTANTS
  DISK_TRIES,              \* calls of x86_Disk_Read (3)
  Reads,                   \* the reads asked for: first sector and number
  Nothing, Pending, Error  \* of DiskService

ASSUME BiosDiskAssumption ==
  /\ DISK_TRIES \in Nat \ {0}
  \* a sector number beyond the cylinders function 02h can name is read as another
  /\ \A r \in Reads :
       /\ r.lba \in 0 .. BYTE * (BYTE \div SIX) * Geometry.heads * Geometry.sectors - 1
       /\ r.n \in 1 .. BYTE - 1

\* What a call returns tells how it ended.
ASSUME ResultAssumption ==
  /\ Nothing \notin Reads
  /\ Error \notin {Nothing, Pending} \cup {Extent(r.lba, r.n) : r \in Reads}

VARIABLES
  disk,       \* DISK: the geometry as the driver has it
  biosPc,
  req, try,   \* the call of DISK_ReadSectors
  data,       \* the caller's buffer
  biosResult,
  biosReady,  \* is the controller fit to read?
  biosFaults  \* history: tries of this call that something outside has spoilt

biosVars == <<disk, biosPc, req, try, data, biosResult, biosReady, biosFaults>>

NoRead == [lba |-> 0, n |-> 0]
Torn == <<>>

BiosInit ==
  /\ disk = [cylinders |-> 0, heads |-> 0, sectors |-> 0]
  /\ biosPc = "initialize"
  /\ req = NoRead /\ try = 0 /\ data = Torn /\ biosResult = Nothing
  /\ biosReady \in BOOLEAN /\ biosFaults = 0

\* Bug: the number of heads is taken for the last head.
BugHeadsNotCounted(r) ==
  [cylinders |-> r.ch + BYTE * (r.cl \div SIX) + 1, heads |-> r.dh, sectors |-> r.cl % SIX]

\* x86_Disk_GetDriveParams: what it makes of the registers of function 08h.
Unpack(r) ==
  [cylinders |-> r.ch + BYTE * (r.cl \div SIX) + 1,
   heads |-> r.dh + 1,
   sectors |-> r.cl % SIX]

\* DISK_Initialize; with an error stage 2 stops.
DISK_Initialize ==
  /\ biosPc = "initialize"
  /\ \/ disk' = Unpack(DriveParams) /\ biosPc' = "idle"
     \/ biosPc' = "end" /\ UNCHANGED disk
  /\ UNCHANGED <<req, try, data, biosResult, biosReady, biosFaults>>

\* Bug: sectors are counted from 0.
BugSectorFromZero(d, lba) ==
  [sector |-> lba % d.sectors,
   cylinder |-> (lba \div d.sectors) \div d.heads,
   head |-> (lba \div d.sectors) % d.heads]

DISK_LBA2CHS(d, lba) ==
  [sector |-> (lba % d.sectors) + 1,
   cylinder |-> (lba \div d.sectors) \div d.heads,
   head |-> (lba \div d.sectors) % d.heads]

\* x86_Disk_Read: the upper bits of the cylinder go above the sector, those above
\* them are lost.
Pack(chs) ==
  [ch |-> chs.cylinder % BYTE,
   cl |-> ((chs.cylinder \div BYTE) % (BYTE \div SIX)) * SIX + (chs.sector % SIX),
   dh |-> chs.head % BYTE]

DISK_ReadSectors ==
  /\ biosPc = "idle"
  /\ \E r \in Reads : req' = r
  /\ try' = 0 /\ biosFaults' = 0 /\ data' = Torn
  /\ biosResult' = Pending
  /\ biosPc' = "read"
  /\ UNCHANGED <<disk, biosReady>>

\* A try: the BIOS reads, or refuses, or the medium fails and the controller may
\* need a reset.
BiosRead ==
  /\ biosPc = "read"
  /\ LET lba == SectorAt(Pack(DISK_LBA2CHS(disk, req.lba)))
     IN \/ /\ biosReady /\ Readable(lba, req.n)
           /\ data' = Extent(lba, req.n)
           /\ biosResult' = data' /\ biosPc' = "idle"
           /\ UNCHANGED <<biosReady, biosFaults>>
        \/ /\ biosReady /\ Readable(lba, req.n)
           /\ biosFaults' = biosFaults + 1
           /\ biosReady' \in BOOLEAN
           /\ data' = Torn /\ biosPc' = "reset" /\ UNCHANGED biosResult
        \/ /\ ~biosReady \/ ~Readable(lba, req.n)
           /\ biosPc' = "reset" /\ UNCHANGED <<data, biosResult, biosReady, biosFaults>>
  /\ UNCHANGED <<disk, req, try>>

\* A reset that fails spoils the try that follows it, if one does.
Spoilt(ready, next) == IF ready \/ next = DISK_TRIES THEN 0 ELSE 1

\* Bug: the controller is not reset between two tries.
BugNoReset ==
  /\ biosPc = "reset"
  /\ try' = try + 1
  /\ IF try' = DISK_TRIES
     THEN biosResult' = Error /\ biosPc' = "idle"
     ELSE biosPc' = "read" /\ UNCHANGED biosResult
  /\ UNCHANGED <<disk, req, data, biosReady, biosFaults>>

\* Bug: one try too many.
BugTryTooMany ==
  /\ biosPc = "reset"
  /\ biosReady' \in BOOLEAN
  /\ try' = try + 1
  /\ biosFaults' = biosFaults + Spoilt(biosReady', try)
  /\ IF try = DISK_TRIES
     THEN biosResult' = Error /\ biosPc' = "idle"
     ELSE biosPc' = "read" /\ UNCHANGED biosResult
  /\ UNCHANGED <<disk, req, data>>

\* x86_Disk_Reset, which may fail and whose result is not looked at, and the next turn
\* of the loop.
BiosReset ==
  /\ biosPc = "reset"
  /\ biosReady' \in BOOLEAN
  /\ try' = try + 1
  /\ biosFaults' = biosFaults + Spoilt(biosReady', try')
  /\ IF try' = DISK_TRIES
     THEN biosResult' = Error /\ biosPc' = "idle"
     ELSE biosPc' = "read" /\ UNCHANGED biosResult
  /\ UNCHANGED <<disk, req, data>>

BiosNext == DISK_Initialize \/ DISK_ReadSectors \/ BiosRead \/ BiosReset

BiosSpec == BiosInit /\ [][BiosNext]_biosVars

-----------------------------------------------------------------------------
BiosTypeOK ==
  /\ {disk.cylinders, disk.heads, disk.sectors} \subseteq Nat
  /\ biosPc \in {"initialize", "idle", "read", "reset", "end"}
  /\ req \in Reads \cup {NoRead}
  /\ try \in 0 .. DISK_TRIES /\ biosFaults \in 0 .. DISK_TRIES
  /\ biosReady \in BOOLEAN

Service == INSTANCE DiskService
  WITH Requests <- Reads, Wanted <- LAMBDA r : Extent(r.lba, r.n),
       result <- biosResult,
       request <- IF biosPc \in {"read", "reset"} THEN req ELSE Nothing

\* A read that returns true has read the sectors asked for: the way of a sector
\* number through the driver's geometry, the registers and the BIOS is the identity.
ImplementsDisk == Service!Spec

\* A read inside of the drive fails only when every try but the first was spoilt from
\* outside: the medium failed, or the reset before it did.  (The first may also have found
\* a controller that earlier calls left unfit.)  No try is given away on a controller
\* that nobody has tried to reset.
EveryTryCounts ==
  biosResult = Error /\ req.lba + req.n <= Capacity => biosFaults >= DISK_TRIES - 1
=============================================================================
