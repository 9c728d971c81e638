------------------------------- MODULE Stage1 -------------------------------
(***************************************************************************)
(* Stage 1 of the boot loader (bootloader/stage1/boot.asm): it runs from   *)
(* the boot sector and loads stage 2 from the extents that the build       *)
(* writes into stage2_location, with the extended read of the BIOS or the  *)
(* one by cylinder, head and sector, each with three tries, and jumps to   *)
(* it or waits for a key and reboots.  Memory is counted in sectors from   *)
(* STAGE2_LOAD_OFFSET.                                                     *)
(***************************************************************************)
EXTENDS Int13

CONSTANTS
  STAGE1_TRIES,     \* tries of a read (3, in di)
  STAGE1_WORD,      \* values of the register a sector number is divided in (65536)
  stage2_location,  \* extents: first sector and number of sectors
  Bdb               \* geometry the boot sector tells: heads and sectors

ASSUME Stage1Assumption ==
  /\ {STAGE1_TRIES, STAGE1_WORD} \subseteq Nat \ {0}
  /\ stage2_location \in Seq([lba : Nat, n : Nat])
  /\ \A i \in DOMAIN stage2_location :
       LET e == stage2_location[i]
       IN e.lba \in 1 .. STAGE1_WORD - 1 /\ e.n \in 1 .. BYTE - 1 /\ e.lba + e.n <= Capacity
  \* the boot sector is the one of this drive, formatted with its geometry
  /\ Bdb = [heads |-> Geometry.heads, sectors |-> Geometry.sectors]

VARIABLES
  stage1Pc,
  have_extensions,
  entry,        \* si, as the number of the extent in hand
  es,           \* the segment stage 2 is loaded to, in sectors
  stage1Mem,    \* what the memory holds, by sector
  stage1Regs,   \* the call of disk_read: where from, how many
  di,           \* tries left
  stage1Ready,  \* is the controller fit to read?
  stage1Faults  \* history: failures of the medium during this disk_read

stage1Vars ==
  <<stage1Pc, have_extensions, entry, es, stage1Mem, stage1Regs, di, stage1Ready, stage1Faults>>

NoRegs == [lba |-> 0, n |-> 0]
\* Sectors of the first extents of the list.
Sectors[k \in Nat] ==
  IF k = 0 THEN 0
  ELSE Sectors[k - 1] + (IF k \in DOMAIN stage2_location THEN stage2_location[k].n ELSE 0)
Stage2Size == Sectors[Len(stage2_location)]
Slots == 0 .. Stage2Size - 1
Unloaded == -1

Stage1Init ==
  /\ stage1Pc = "start"
  /\ have_extensions = FALSE
  /\ entry = 1 /\ es = 0
  /\ stage1Mem = [s \in Slots |-> Unloaded]
  /\ stage1Regs = NoRegs /\ di = 0
  /\ stage1Ready \in BOOLEAN /\ stage1Faults = 0

\* The check for extensions: the carry flag or a wrong signature say no.
CheckExtensions ==
  /\ stage1Pc = "start"
  /\ have_extensions' \in BOOLEAN
  /\ stage1Pc' = "loop"
  /\ UNCHANGED <<entry, es, stage1Mem, stage1Regs, di, stage1Ready, stage1Faults>>

\* .loop: the next extent is read, sector 0 ends the list.
Loop ==
  /\ stage1Pc = "loop"
  /\ IF entry > Len(stage2_location)
     THEN stage1Pc' = "jumped" /\ UNCHANGED <<entry, stage1Regs, di, stage1Faults>>
     ELSE /\ stage1Regs' = stage2_location[entry]
          /\ entry' = entry + 1
          /\ di' = STAGE1_TRIES /\ stage1Faults' = 0
          /\ stage1Pc' = "read"
  /\ UNCHANGED <<have_extensions, es, stage1Mem, stage1Ready>>

\* Bug: the upper bits of the cylinder are not moved above the sector.
BugCylinderLow(ax) ==
  LET track == (ax % STAGE1_WORD) \div Bdb.sectors
      cylinder == track \div Bdb.heads
  IN [ch |-> cylinder % BYTE, cl |-> ((ax % STAGE1_WORD) % Bdb.sectors) + 1,
      dh |-> (track % Bdb.heads) % BYTE]

\* lba_to_chs, with the geometry of the boot sector.
lba_to_chs(ax) ==
  LET track == (ax % STAGE1_WORD) \div Bdb.sectors
      cylinder == track \div Bdb.heads
  IN [ch |-> cylinder % BYTE,
      cl |-> ((ax % STAGE1_WORD) % Bdb.sectors) + 1
             + ((cylinder \div BYTE) % (BYTE \div SIX)) * SIX,
      dh |-> (track % Bdb.heads) % BYTE]

\* Where the BIOS reads: the address packet holds the sector number itself.
Source ==
  IF have_extensions THEN stage1Regs.lba ELSE SectorAt(lba_to_chs(stage1Regs.lba))

\* What is read goes to es, behind the extents before.
Stage1Load(content) ==
  stage1Mem' = [s \in Slots |-> IF s - es \in 0 .. stage1Regs.n - 1
                                THEN content[s - es + 1] ELSE stage1Mem[s]]

\* Bug: the segment moves on by twice the paragraphs of a sector.
BugSegmentTwice ==
  /\ stage1Pc = "read"
  /\ \/ /\ stage1Ready /\ Readable(Source, stage1Regs.n)
        /\ Stage1Load(Extent(Source, stage1Regs.n))
        /\ es' = es + 2 * stage1Regs.n
        /\ stage1Pc' = "loop"
     \/ stage1Pc' = "reset" /\ UNCHANGED <<es, stage1Mem>>
  /\ UNCHANGED <<have_extensions, entry, stage1Regs, di, stage1Ready, stage1Faults>>

\* .retry, and after a success the advance of es: 32 paragraphs for a sector.
Retry ==
  /\ stage1Pc = "read"
  /\ \/ /\ stage1Ready /\ Readable(Source, stage1Regs.n)
        /\ Stage1Load(Extent(Source, stage1Regs.n))
        /\ es' = es + stage1Regs.n
        /\ stage1Pc' = "loop"
        /\ UNCHANGED <<stage1Ready, stage1Faults>>
     \/ /\ stage1Ready /\ Readable(Source, stage1Regs.n)
        /\ Stage1Load([k \in 1 .. stage1Regs.n |-> Unloaded])
        /\ stage1Faults' = stage1Faults + 1
        /\ stage1Ready' \in BOOLEAN
        /\ stage1Pc' = "reset" /\ UNCHANGED es
     \/ /\ ~stage1Ready \/ ~Readable(Source, stage1Regs.n)
        /\ stage1Pc' = "reset" /\ UNCHANGED <<es, stage1Mem, stage1Ready, stage1Faults>>
  /\ UNCHANGED <<have_extensions, entry, stage1Regs, di>>

\* Bug: a failed read is not tried again.
BugNoRetry ==
  /\ stage1Pc = "reset"
  /\ stage1Ready' = TRUE /\ di' = di - 1
  /\ stage1Pc' = "floppy_error"
  /\ UNCHANGED <<have_extensions, entry, es, stage1Mem, stage1Regs, stage1Faults>>

\* Bug: a retry begins disk_read again, with all its tries.
BugRetryFromStart ==
  /\ stage1Pc = "reset"
  /\ \/ stage1Ready' = TRUE /\ di' = STAGE1_TRIES /\ stage1Faults' = 0 /\ stage1Pc' = "read"
     \/ stage1Ready' = FALSE /\ stage1Pc' = "floppy_error" /\ UNCHANGED <<di, stage1Faults>>
  /\ UNCHANGED <<have_extensions, entry, es, stage1Mem, stage1Regs>>

\* disk_reset, which gives up when it fails, and the count of tries.
Stage1Reset ==
  /\ stage1Pc = "reset"
  /\ \/ /\ stage1Ready' = TRUE /\ di' = di - 1
        /\ stage1Pc' = IF di' # 0 THEN "read" ELSE "floppy_error"
     \/ stage1Ready' = FALSE /\ stage1Pc' = "floppy_error" /\ UNCHANGED di
  /\ UNCHANGED <<have_extensions, entry, es, stage1Mem, stage1Regs, stage1Faults>>

\* floppy_error: a message, a key, a reboot.
Reboot ==
  /\ stage1Pc = "floppy_error"
  /\ stage1Pc' = "rebooted"
  /\ UNCHANGED <<have_extensions, entry, es, stage1Mem, stage1Regs, di, stage1Ready, stage1Faults>>

Stage1Next == CheckExtensions \/ Loop \/ Retry \/ Stage1Reset \/ Reboot

Stage1Spec == Stage1Init /\ [][Stage1Next]_stage1Vars /\ WF_stage1Vars(Stage1Next)

-----------------------------------------------------------------------------
Stage1TypeOK ==
  /\ stage1Pc \in {"start", "loop", "read", "reset", "floppy_error", "rebooted", "jumped"}
  /\ entry \in 1 .. Len(stage2_location) + 1
  /\ es \in 0 .. Stage2Size
  /\ stage1Mem \in [Slots -> Nat \cup {Unloaded}]
  /\ di \in 0 .. STAGE1_TRIES /\ stage1Faults \in 0 .. STAGE1_TRIES
  /\ {stage1Ready, have_extensions} \subseteq BOOLEAN

\* Stage 2 is entered only when every sector of it is in memory, in the order of the
\* list and once, whichever way the BIOS reads and whatever failed before.
JumpsIntoStage2 ==
  stage1Pc = "jumped" =>
    \A i \in DOMAIN stage2_location : \A k \in 0 .. stage2_location[i].n - 1 :
      stage1Mem[Sectors[i - 1] + k] = stage2_location[i].lba + k

\* Loading gives up only when a reset failed, or the medium did at all tries (but for
\* a controller that was unfit before the first): tries restore their registers.
GivesUpAfterTries ==
  [][stage1Pc = "reset" /\ stage1Pc' = "floppy_error"
       => stage1Faults >= STAGE1_TRIES - 1 \/ ~stage1Ready']_stage1Vars

\* The boot ends: in stage 2 or in a reboot.
BootEnds == <>(stage1Pc \in {"jumped", "rebooted"})
=============================================================================
