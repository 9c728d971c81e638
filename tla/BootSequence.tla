---------------------------- MODULE BootSequence ----------------------------
(***************************************************************************)
(* From the entry of stage 2 (bootloader/stage2/main.c) to the kernel's    *)
(* command line (kernel/main.c): what each step leaves in memory for the   *)
(* next ones, over the memory map of libs/util/memdefs.h, the partition    *)
(* table (libs/boot/mbr.c) and the BIOS's memory map (libs/boot/memory.c). *)
(* The steps that modules of their own model (disk, FAT, ELF, VBE) appear  *)
(* with their results only.                                                *)
(***************************************************************************)
EXTENDS Integers, Sequences

CONSTANTS
  FAT_ADDR, ELF_ADDR, LOAD_KERNEL, VESA_INFO, MODE_INFO, KERNEL_ADDR,
  PARTITION_ENTRY_SEGMENT,  \* where stage 1 puts the entry it was started from
  MBR_BUFFER,               \* where the kernel's stack has mbrBuffer
  MAX_REGIONS,              \* regions of g_MemRegions (256)
  Table,                    \* lbaStart of the entries of the partition table
  BootEntries,              \* the entry the MBR may start stage 1 from
  BlockCounts,              \* how many blocks the BIOS's memory map may have
  MbrMayFail                \* may the kernel's read of the partition table fail?

Segment == 65536
Page(address) == address \div Segment
Pages == {Page(a) : a \in {0, PARTITION_ENTRY_SEGMENT * 16, FAT_ADDR, ELF_ADDR, LOAD_KERNEL,
                           VESA_INFO, MODE_INFO, KERNEL_ADDR, MBR_BUFFER}}

ASSUME BootAssumption ==
  /\ {FAT_ADDR, ELF_ADDR, LOAD_KERNEL, VESA_INFO, MODE_INFO, KERNEL_ADDR,
      PARTITION_ENTRY_SEGMENT, MBR_BUFFER} \subseteq Nat
  /\ Table \in [0 .. 3 -> Nat] /\ BootEntries \subseteq 0 .. 3
  /\ BlockCounts \subseteq Nat /\ MAX_REGIONS \in Nat
  /\ MbrMayFail \in BOOLEAN

\* What a step leaves for later ones, no step between them writes over.
ASSUME MemoryMapAssumption ==
  /\ Page(FAT_ADDR) \notin {Page(ELF_ADDR), Page(LOAD_KERNEL), Page(VESA_INFO), Page(MODE_INFO),
                            Page(KERNEL_ADDR), Page(MBR_BUFFER)}
  /\ Page(KERNEL_ADDR) \notin {Page(VESA_INFO), Page(MODE_INFO), Page(MBR_BUFFER)}
  /\ MBR_BUFFER < Segment

VARIABLES
  machine,  \* drive, entry started from, blocks and ending of the memory map
  bootPc,   \* the call that comes next, or where the boot stopped
  bootMem,  \* what the pages of the memory map hold
  offset,   \* part.partitionOffset
  block,    \* the block last returned, 0 if none
  next,     \* continuation
  regions,  \* g_MemRegions
  params    \* g_BootParams

bootVars == <<machine, bootPc, bootMem, offset, block, next, regions, params>>
detection == <<block, next, regions>>

Junk == <<"junk", 0>>
TableEntry(lba) == <<"entry", lba>>
Volume(lba) == <<"volume", lba>>
Kernel(lba) == <<"kernel", lba>>
Floppy == machine.drive < 128
NoParams == [drive |-> -1, regions |-> <<>>]

\* Where the volume stage 1 was loaded from begins.
Home == IF Floppy THEN 0 ELSE Table[machine.entry]
Starts == {0} \cup {Table[e] : e \in 0 .. 3}

Machines == [drive : {0, 128}, entry : BootEntries, blocks : BlockCounts,
             ending : {"zero", "error"}]

\* Stage 1 has moved the entry of the partition table and passes on the drive; a BIOS
\* that boots a floppy passes no entry.
BootInit ==
  /\ machine \in Machines
  /\ bootPc = "DISK_Initialize"
  /\ bootMem = [p \in Pages |-> IF p = Page(PARTITION_ENTRY_SEGMENT * 16) /\ ~Floppy
                                THEN TableEntry(Home) ELSE Junk]
  /\ offset = 0 /\ block = 0 /\ next = 0 /\ regions = <<>> /\ params = NoParams

\* A step that succeeds and leads to the call p, or prints an error and hangs.
Ok(p) == bootPc' = p
OrHalt(p) == bootPc' \in {p, "halt"}

Boot_DISK_Initialize ==
  /\ bootPc = "DISK_Initialize" /\ OrHalt("MBR_DetectPartition")
  /\ UNCHANGED <<machine, bootMem, offset, detection, params>>

\* segoffset_to_linear; a pointer is segment * 65536 + offset.
segoffset_to_linear(pointer) == (pointer \div Segment) * 16 + (pointer % Segment)

\* MBR_DetectPartition: the offset is that of the entry found there, or anything.
DetectPartition(memory, entryAt) ==
  IF Floppy THEN offset' = 0
  ELSE offset' \in IF entryAt \in Pages /\ memory[entryAt][1] = "entry"
                   THEN {memory[entryAt][2]} ELSE Starts \cup {-1}

\* Bug: FAT_Initialize comes first.
BugFatFirst ==
  /\ bootPc = "MBR_DetectPartition"
  /\ bootMem' = [bootMem EXCEPT ![Page(FAT_ADDR)] = Junk]
  /\ DetectPartition(bootMem', Page(segoffset_to_linear(PARTITION_ENTRY_SEGMENT * Segment)))
  /\ Ok("FAT_Initialize")
  /\ UNCHANGED <<machine, detection, params>>

MBR_DetectPartition ==
  /\ bootPc = "MBR_DetectPartition"
  /\ DetectPartition(bootMem, Page(segoffset_to_linear(PARTITION_ENTRY_SEGMENT * Segment)))
  /\ Ok("FAT_Initialize")
  /\ UNCHANGED <<machine, bootMem, detection, params>>

\* FAT_Initialize: the boot sector of the volume, and its root directory, if there is
\* one at the offset; else it may take anything for a volume.
FAT_Initialize ==
  /\ bootPc = "FAT_Initialize" /\ OrHalt("mem_Detect")
  /\ bootMem' = [bootMem EXCEPT ![Page(FAT_ADDR)] = Volume(offset)]
  /\ UNCHANGED <<machine, offset, detection, params>>

\* int 15h, E820: the block at the continuation, with 0 or an error to end the list.
Block(c) ==
  IF c < machine.blocks
  THEN [ret |-> 1, block |-> c + 1,
        next |-> IF c + 1 = machine.blocks /\ machine.ending = "zero" THEN 0 ELSE c + 1]
  ELSE [ret |-> -1, block |-> block, next |-> c]

\* Bug: the loop looks at the length returned only.
BugNoContinuation ==
  /\ bootPc \in {"mem_Detect", "E820"}
  /\ params' = [drive |-> machine.drive, regions |-> regions]
  /\ LET b == Block(next)
         kept == IF bootPc = "mem_Detect" THEN <<>> ELSE regions
     IN IF b.ret > 0 /\ Len(regions) <= MAX_REGIONS
        THEN /\ bootPc' = "E820" /\ block' = b.block /\ next' = b.next
             /\ regions' = Append(kept, b.block)
        ELSE bootPc' = "ELF_Read" /\ UNCHANGED <<block, next, regions>>
  /\ UNCHANGED <<machine, bootMem, offset>>

\* mem_Detect: a block is kept if the call that returned it left a continuation; one
\* more than there is room for is written behind the array.
mem_Detect ==
  /\ bootPc \in {"mem_Detect", "E820"}
  /\ LET b == Block(next)
     IN /\ block' = b.block /\ next' = b.next
        /\ IF b.ret > 0 /\ b.next # 0
           THEN /\ IF Len(regions) < MAX_REGIONS
                   THEN Ok("E820") /\ regions' = Append(regions, b.block)
                   ELSE Ok("wild") /\ UNCHANGED regions
                /\ UNCHANGED params
           ELSE /\ params' = [drive |-> machine.drive, regions |-> regions]
                /\ Ok("ELF_Read") /\ UNCHANGED regions
  /\ UNCHANGED <<machine, bootMem, offset>>

\* The FAT driver works on the volume whose boot sector its memory holds.
Mounted == bootMem[Page(FAT_ADDR)]

\* Bug: what ELF_Read returned is not looked at.
BugElfIgnored ==
  /\ bootPc = "ELF_Read" /\ Ok("FAT_ReadDirectory")
  /\ \E n \in 0 .. 1 :
       bootMem' = [bootMem EXCEPT ![Page(KERNEL_ADDR)] = IF n = 0 THEN Junk ELSE Kernel(offset)]
  /\ UNCHANGED <<machine, offset, detection, params>>

\* ELF_Read: header and file data go through memory of their own.  A file that is not
\* there is read through NULL.
ELF_Read ==
  /\ bootPc = "ELF_Read"
  /\ bootPc' \in {"FAT_ReadDirectory", "halt", "wild"}
  /\ bootMem' = [p \in Pages |->
       IF p = Page(KERNEL_ADDR) /\ Mounted = Volume(offset) /\ bootPc' = "FAT_ReadDirectory"
       THEN Kernel(offset)
       ELSE IF p \in {Page(ELF_ADDR), Page(LOAD_KERNEL), Page(KERNEL_ADDR)} THEN Junk
       ELSE bootMem[p]]
  /\ UNCHANGED <<machine, offset, detection, params>>

\* FAT_ReadDirectory and FAT_ReadFile: their results do not matter, except that a file
\* that cannot be opened is read through NULL.
ReadFiles ==
  /\ bootPc = "FAT_ReadDirectory" /\ bootPc' \in {"VBE_Initialize", "wild"}
  /\ UNCHANGED <<machine, bootMem, offset, detection, params>>

VBE_Initialize ==
  /\ bootPc = "VBE_Initialize" /\ OrHalt("WaitForEnter")
  /\ bootMem' = [bootMem EXCEPT ![Page(VESA_INFO)] = Junk, ![Page(MODE_INFO)] = Junk]
  /\ UNCHANGED <<machine, offset, detection, params>>

\* Enter has been pressed: back to text, and into the kernel with &g_BootParams.
WaitForEnter ==
  /\ bootPc = "WaitForEnter" /\ Ok("kernelEntry")
  /\ UNCHANGED <<machine, bootMem, offset, detection, params>>

-----------------------------------------------------------------------------
\* The kernel: its disk driver is initialized with params.drive.
Kernel_DISK_Initialize ==
  /\ bootPc = "kernelEntry"
  /\ IF Floppy THEN Ok("Kernel_DISK_ReadSectors") ELSE OrHalt("Kernel_DISK_ReadSectors")
  /\ UNCHANGED <<machine, bootMem, offset, detection, params>>

\* The partition table is read into mbrBuffer, if it can be; its first entry is taken
\* in any case.  The driver's floppy read returns true and reads nothing.
Kernel_ReadTable ==
  /\ bootPc = "Kernel_DISK_ReadSectors" /\ Ok("Kernel_MBR_DetectPartition")
  /\ \E read \in {~Floppy} \cup (IF MbrMayFail THEN {FALSE} ELSE {}) :
       bootMem' = [bootMem EXCEPT ![Page(MBR_BUFFER)] = IF read THEN TableEntry(Table[0]) ELSE Junk]
  /\ UNCHANGED <<machine, offset, detection, params>>

\* The address of the entry is linear, and goes through segoffset_to_linear again.
Kernel_MBR_DetectPartition ==
  /\ bootPc = "Kernel_MBR_DetectPartition"
  /\ LET at == segoffset_to_linear(MBR_BUFFER)
     IN DetectPartition(bootMem, IF at = MBR_BUFFER THEN Page(at) ELSE -1)
  /\ Ok("Kernel_FAT_Initialize")
  /\ UNCHANGED <<machine, bootMem, detection, params>>

\* Kernel_FAT_Initialize reads the root directory, at the offset, of the volume whose
\* boot sector the boot loader left behind.
Kernel_FAT_Initialize ==
  /\ bootPc = "Kernel_FAT_Initialize"
  /\ IF Floppy THEN Ok("Command_Line_Interface") ELSE OrHalt("Command_Line_Interface")
  /\ UNCHANGED <<machine, bootMem, offset, detection, params>>

BootNext ==
  \/ Boot_DISK_Initialize \/ MBR_DetectPartition \/ FAT_Initialize \/ mem_Detect \/ ELF_Read
  \/ ReadFiles \/ VBE_Initialize \/ WaitForEnter
  \/ Kernel_DISK_Initialize \/ Kernel_ReadTable \/ Kernel_MBR_DetectPartition
  \/ Kernel_FAT_Initialize

BootSpec == BootInit /\ [][BootNext]_bootVars

-----------------------------------------------------------------------------
InKernel == bootPc \in {"kernelEntry", "Kernel_DISK_ReadSectors", "Kernel_MBR_DetectPartition",
                        "Kernel_FAT_Initialize", "Command_Line_Interface"}

BootTypeOK ==
  /\ machine \in Machines
  /\ InKernel \/ bootPc \in {"DISK_Initialize", "MBR_DetectPartition", "FAT_Initialize",
                             "mem_Detect", "E820", "ELF_Read", "FAT_ReadDirectory",
                             "VBE_Initialize", "WaitForEnter", "halt", "wild"}
  /\ DOMAIN bootMem = Pages /\ offset \in Starts \cup {-1}
  /\ block \in 0 .. machine.blocks /\ next \in 0 .. machine.blocks
  /\ Len(regions) <= MAX_REGIONS

\* The kernel is entered only with all of it in memory, from the volume stage 1 came
\* from, with the boot drive in its parameters: nothing read after it was written
\* over it, and no step went on after an error.
KernelEnteredWhole ==
  InKernel => bootMem[Page(KERNEL_ADDR)] = Kernel(Home) /\ params.drive = machine.drive

\* The command line works on the volume the machine booted from: the offset it adds to
\* every sector is that of the boot sector it takes the geometry from, which the boot
\* loader read, and nothing since has been written over that.
MountsBootVolume ==
  bootPc = "Command_Line_Interface" => offset = Home /\ Mounted = Volume(Home)

\* The kernel is told of the blocks the BIOS reported, each once and in their order, but
\* for the block of the call that says there are no more: of all of them when a further
\* call ends the list with an error, of all but the last when the last one's continuation
\* is 0.  A list that is longer than the table does not get here.
BlocksKept ==
  [i \in 1 .. machine.blocks - (IF machine.ending = "zero" /\ machine.blocks > 0 THEN 1 ELSE 0) |-> i]
RegionsAreBlocks == InKernel => params.regions = BlocksKept
=============================================================================
