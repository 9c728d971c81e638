# A TLA+ development of ArcOS

ArcOS is a small operating system for the i686: a two-stage BIOS boot loader
that reads a kernel from a FAT volume, and a single-tasking kernel with a
keyboard, a text console, a polled disk driver, a FAT driver and a command line.
This directory holds TLA+ models of it, TLC configurations that check them on
small instances, and TLAPS proofs of what matters most for every instance. Paths
below are relative to the repository's `src/`.

Concurrency is of one kind: one processor, the kernel's main line, and interrupt
handlers that run to completion between any two of its instructions; the devices
(interrupt controllers, keyboard controller, drives) work at their own pace beside
it. What fails is the disk and the BIOS. What is hard to test is therefore where a
key falls, what the controllers are left with after boot, which sectors the FAT
driver's one buffer and one cache still hold when the next command uses them, how
slow a device may be, and what a failed step leaves for the next one.

## Inventory

| Component | State | Operations | Used by | Correct when |
|---|---|---|---|---|
| Keyboard ring (`kernel/arch/i686/irq.c`) | `keyBuffer`, `bufferHead`, `bufferTail` | `i686_IRQ_keyboardHandler` (interrupt), `i686_IRQ_ReadChar` (polling) | `fgets` | bounded queue; reader safe at every step; reader returns |
| Line input (`libs/core/stdio.c` `fgets`) | the caller's line buffer | `fgets` | command line | in bounds; lines are what was typed and edited; never empty |
| Interrupt dispatch (`isr.asm`, `isr.c`, `irq.c`) | `g_ISRHandlers`, `g_IRQHandlers`, `g_Driver`, interrupt frames | `i686_ISR_Handler`, `i686_IRQ_Handler`, `i686_IRQ_Initialize` | processor | an interrupt comes only when it can be served |
| 8259 driver (`i8259.c`) | `g_PicMask`, the controllers' registers | probe, configure, mask, end of interrupt | dispatch | every interrupt ended once, for its own line |
| HAL (`hal/hal.c`), descriptor tables (`gdt.c`, `idt.c`) | GDT, IDT | initialize, set and enable gates | kernel start | gates present before interrupts are on |
| FAT driver (`libs/core/fat.c`, and `libs/boot/fat.c`, nearly the same text) | root directory and ten handles, each with a one-sector buffer; FAT cache | open, read, next cluster, close, list | command line, ELF loader | shows what is on the disk; gives handles back |
| ATA driver (`libs/core/disk.c`) | device registers | identify, read, three tries | FAT | ends; reports errors |
| Console (`libs/core/stdio.c`) | screen memory, cursor | `putc`, scroll, `printf` | all, the keyboard handler's echo included | cursor inside the screen in spite of the echo |
| Command line (`libs/core/cli.c`) | line buffer | parse, `help`, `info`, `ls`, `cat`, `clear`, `exit` | kernel start | runs the command typed |
| ELF loader (`libs/boot/elf.c`) | header and load buffers | `ELF_Read` | stage 2 | every byte of every segment in place; other files refused |
| Memory map (`libs/boot/memory.c`) | region table | `mem_Detect` | stage 2, `info` | blocks recorded once, in order |
| Partition table (`libs/boot/mbr.c`) | `Partition` | detect, read | both drivers | offset is the partition's |
| Boot disk (`libs/boot/disk.c`, `x86.asm`) | BIOS | LBA to CHS, read with reset | boot FAT driver | conversion is a bijection; three tries, a reset between them |
| Stage 1 (`bootloader/stage1/boot.asm`) | disk address packet | load stage 2 | BIOS | loads each extent where it belongs |
| Stage 2 (`bootloader/stage2`) | boot parameters | A20, protected mode, start | stage 1 | order of initialization; A20 dialogue |
| VESA (`libs/boot/vbe.c`), font | mode info, frame buffer | pick a mode, draw | stage 2 | the mode picked is one that qualifies |
| Utilities (`libs/util`) | - | strings, UTF, quicksort | all | equal their definitions |

How they interact: stage 1 loads stage 2, which detects disk and partition,
mounts the volume, reads the memory map, loads the kernel and calls it with a
`BootParams`. The kernel sets up tables and controllers (`HAL_Initialize`), then
the disk, partition and volume, and stays in `Command_Line_Interface`. From then
on the main line and the keyboard handler share the ring, the console and the
end-of-interrupt port; everything else is sequential. The hazards, each at its
line and with the properties that would catch it, are in `PROJECT.json`.

## Modules

| Module | Models | State and actions |
|---|---|---|
| `KeyQueue` | what the keyboard driver promises | `queue`; `Put`, `Get` |
| `KeyBuffer` | ring and reader (`irq.c` 110-135) | the three variables by their names; `KeyboardHandler` is one step (interrupt gates do not nest), the reader is four: load head, compare, load the character, store tail |
| `LineInput` | `fgets` and its caller | extends `KeyBuffer`; `TypeKey`, `CallFgets`, `FgetsLoop`, `FgetsRead`, `FgetsChar`, `FgetsReturn` |
| `Pic8259` | one interrupt controller (hardware) | mask, request and service registers, vector base, initialization word expected |
| `Interrupts` | `HAL_Initialize` with devices active, dispatch, handlers statement by statement, over `KeyBuffer` | `BootStep` executes the sequence `HAL_Initialize`, built from the same functions as in the code (`Probe`, `Configure`, `Unmask`); a handler's frame on `stack` has its own `pc` |
| `Console` | `putc`, `scrollback`, `setcursor`, `clrscr` against the echo of the keyboard handler | `con` is the screen, `g_ScreenX`, `g_ScreenY` and the CRT controller; `mpc` walks the main line through its loads, stores and port writes; `Echo` is a whole `putc`; `term`, a history variable, is what a terminal would show |
| `FatVolume` | FAT12/FAT16 layout (`FAT_Initialize`, `FAT_Detect`, `FAT_ClusterToLba`) and, apart from the driver, what a path, a file and a directory of the volume are | constants: boot sector fields, FAT, directory sectors |
| `Fat` | the driver and the commands `cat` and `ls` | `fd` per handle, `cachePos`; one action per loop body or function, `pc` for where the driver is |
| `DiskService` | what both disk drivers promise | `request`, `result`; `Call`, `Return` with the sectors asked for or an error |
| `AtaDisk` | the kernel's disk driver (`libs/core/disk.c`) and two channels of two drives | `reg` and `drive` are the hardware; `ataPc` walks `Disk_Read` from select to status, under `ReadSectors` with its tries; `GoBusy`, `Offer` are the drive's |
| `Int13` | the BIOS disk services | operators only: what cylinder, head and sector name |
| `Stage1` | `bootloader/stage1/boot.asm` | packet, tries (`di`), controller, memory in sectors; one action per label |
| `BiosDisk` | `libs/boot/disk.c` and its calls in `x86.asm` | geometry, request, tries; `BiosRead`, `BiosReset` |
| `ElfLoader` | `libs/boot/elf.c`, with the lengths of `memcpy` and `memset` | file position, handles, `elfMem` by address; one action per call or loop body |
| `RealMode` | each function of `x86.asm` that calls the BIOS, instruction by instruction | registers, stack, mode, interrupt flag; programs are sequences of instructions |
| `A20` | `EnableA20` against the keyboard controller (`entry.asm`) | the controller's two buffers and output port; `Cpu`, `Controller`, `Key` |
| `BootSequence` | `start` of stage 2 and of the kernel, `MBR_DetectPartition`, `mem_Detect` | `bootMem`, what each page of the memory map holds; one action per call |
| `Vbe` | `VBE_Initialize` and its drawing | mode list, mode information, frame buffer in pixels |
| `Descriptors` | GDT, IDT, their loading and what the processor reads in them | `HAL_Initialize` with every store into the IDT a step |
| `Cli` | `Command_Parse`, the path and short names of `FAT_Open` | the parameter, and the component's buffer with what earlier ones left in it |
| `Printf` | `printf` | format state machine, argument words, output |
| `Quicksort`, `Utf` | sorting and conversion of long file names | recursion as a stack of calls; the units and the bytes written |
| `BootParts` | the composition of `Stage1`, `A20`, `BootSequence`, `RealMode`, `BiosDisk`, `ElfLoader`, `Vbe`, `Descriptors` | `part` says which of them a behaviour is of |
| `KernelParts` | that of `AtaDisk`, `Cli`, `Printf`, `Quicksort`, `Utf` | likewise |
| `MC...` | instances for TLC | |
| `KeyBufferProofs`, `LineInputProofs`, `InterruptsProofs`, `FatProofs`, `ConsoleProofs`, `BootPartsProofs`, `KernelPartsProofs` | theorems | |
| `Numbers` | lemmas on division and induction that the proofs share | |

The parts of `BootParts` and of `KernelParts` run one after the other on one
processor and share no variable of their models; what one hands to the next (the
boot drive, the volume, the loaded kernel) is in `BootSequence`, in which a call
that another part models appears with its possible results. A behaviour of the
composition is therefore one of a single part, with the others as they start: its
states are the sum of theirs and not the product, and a property of a part holds
in the composition exactly if it holds of the part.

Abstractions. A character or scan code is a model value. A byte of a port is the
set of its 1 bits. A byte of a file is the place `<<sector, offset>>` it was read
from, so that showing a wrong byte is showing a wrong place, whatever the data.
A FAT cache is the sector it was filled from: an entry is right when the cache
holds that part of the FAT and both bytes of the entry, else it is anything. A
name in a path is equal to an entry's name or not; so the paths modelled are
those whose short name `Kernel_FAT_GetShortName` forms correctly. The memory
past a handle that is `NULL` is not modelled: the driver is then at `pc = "wild"`,
where nothing is claimed (see hazard `libs/core/fat.c:348`). `BootSequence` goes to
"wild" with a memory map of more than `MAX_REGIONS` blocks, `ElfLoader` when the
file is missing or the program headers it reads are not the file's, `Quicksort`
when it reads outside of its array.

A register in `RealMode` holds what the caller left in it, the call's result, a
frame address or something else; the BIOS may change every register it is not
documented to keep. A byte of an ELF file is its position, a pixel its colour. The
bits of an A20 byte, the fields of an ATA address and a `printf` word keep the
proportions of the code at a smaller width; `Descriptors` has the real widths.

In `KeyBuffer` and `LineInput` the handler is atomic. `Interrupts` does not
assume it: there each C statement of the handler is a step, and the refinement
of `KeyQueue` and `NothingLeftInService` (handlers do not nest) show it.

In `Console` the main line executes one load, store or port write at a time, as
the build's compiler emits it (`build_scripts/config.mk` asks for no optimization,
so `g_ScreenX++` is a load and a store). The echo is atomic: it runs in the handler,
and handlers do not nest. Scrolling and clearing go row by row; an echo within a
row is not told apart from one next to it, which no property does either: once an
echo has fallen inside a call the contents of the screen are unspecified
(`term = Mixed`) until `clrscr`. The tab loop computes its bound again on every
turn, so a tab writes fewer blanks than the distance to the next tab stop (two
from column 0); the model does the same, and so does the terminal it is compared
with (`TabBlanks`), since nothing in the repository says where tabs stop.

Operators named `Bug...` are seeded faults: each is a plausible slip in the
definition that follows it, which `PROJECT.json` ("mutants") pairs with the
property that must fail when the slip replaces the definition.

## Runs

| Run | Configuration | Checks |
|---|---|---|
| `ring` | `MCKeyBuffer.cfg` | indices in bounds; the reader never passes an empty ring or holds a reused slot; keys with room are appended; refinement of `KeyQueue`; the reader returns |
| `lines` | `MCLineInput.cfg` | lines handed to the command line are the editor's (`Edited`) over the characters read; bounds; no NULL; a newline delivers |
| `interrupt_delivery` | `MCInterrupts.cfg` | only served interrupts are taken, from the first instruction of `HAL_Initialize`; a scan code is there when it is read; an end of interrupt ends its own line; the ring is still a queue |
| `interrupt_completion` | `MCInterruptsLive.cfg` | nothing stays in service, handlers do not nest, every scan code is read |
| `console` | `MCConsole.cfg` | no character outside of the text memory and the position back on the screen after every call, wherever echoes fall; the screen is the terminal's (`Display`) as long as none falls inside a call, and again after `clrscr`; a call returns |
| `fat_commands` | `MCFat.cfg` of module `MCFatSound` | any sequence of `cat` and `ls` shows what is on the disk, and ends; the volume is one the theorems about them speak of (`SoundVolume`) |
| `fat_errors` | `MCFatErrors.cfg` | the same with every read failing or not: handles are given back, never more than the file's size is shown, and what is shown is, byte for byte, the chain of the file opened until a read fails |
| `boot_parts` | `MCBootParts.cfg` | stage 2 and the kernel are entered only when they are in memory whole, segment by segment (`EntersWholeImages`); the kernel mounts the volume it was booted from and gets the BIOS's memory blocks in order, but for one that comes with continuation 0 (`KernelFindsItsMachine`); BIOS calls disturb no caller and take no interrupt outside real mode (`BiosCallsSound`); the mode picked is the first that fits and the picture lies in its frame buffer (`ShowsPicture`); gates are whole or absent, and segments flat, at every store (`TablesSound`); the boot disk driver refines `DiskService`; a load is given up only after a failure of medium or reset for every try but the first, only the A20 line changes and the controller loses no byte (`DevicesAreHeeded`); loads end, and the gate opens (`BootPartsEnd`) |
| `kernel_parts` | `MCKernelParts.cfg` | the ATA driver refines `DiskService`, disturbs no busy drive and returns (`DrivesAreServed`); `cat` finds the file named or none (`NamesAreFound`); `printf` prints every item with its own argument (`PrintsArguments`); sorting and UTF-8 (`LongNamesComeThrough`); reads and sorting end (`KernelPartsEnd`) |
| `fat_kernel_offset`, `fat_cat_root`, `fat12_straddle` | `MCFatKernel.cfg`, `MCFatNoPath.cfg`, `MCFat12.cfg` | three disagreements with the help text of `cat`, below |

Bounds, and why they are enough.
- Ring: four slots (three in the larger systems) hold zero, one, several and the
  maximum of characters, and wrap; two characters tell order and duplication
  apart; one scan code is unmapped and one is a release code.
- Lines: `MaxKeys` = 6 keys with a line of four bytes give full lines, split
  lines, backspaces at the start and across a wrap of the ring, and a second and
  third line in a used buffer. The keys cover every branch of `fgets`: a letter,
  newline, backspace, an unmapped key (which stores a NUL).
- Interrupts: keyboard, timer (pending at boot or not) and one line of the second
  controller; spurious interrupts at any moment; a controller present or not; one
  exception. One key's code and its release suffice, since keys queue in the
  keyboard.
- Console: a screen of two by two, so that a few characters wrap, fill and scroll
  it, with two rows of the text memory behind it; tab stops every two columns; the
  cursor position in two halves of four values, so that both halves are in use.
  Two rows are what the races need: one the main line has in its registers and one
  the echo has scrolled to.
- FAT: sectors of 8 bytes with 4 directory entries or 4 FAT16 entries each, and a
  cache of one sector, so that chains leave the cached window; two sectors per
  cluster; a fragmented file, a file of exactly one cluster, an empty file, a
  directory of two clusters with the last entry of its last sector in use. `cat`
  reads 5 bytes at a time, so parts straddle sectors. Two handles, of which a
  command needs one. Proportions are the code's, sizes are not.
- `MaxPos` in `fat_errors` stops a chain read from a torn cache, which may be
  endless; sound chains of the volume end before it.
- Boot disk and stage 1: bytes of eight values, of which four lie below the bits of
  the cylinder that share the sector's byte, and 12 cylinders by 3 heads by 2
  sectors, so that cylinders need those bits and heads are no power of two. The
  reads cover every sector and go past the end. Stage 2 has three extents, out of
  order, of more and of one sector and at the end of the drive.
- A20: bytes of four bits, every output port with its reset bit set.
- Boot sequence: floppy and hard disk, a table with two entries, a memory map of
  none, some, exactly `MAX_REGIONS` (3) and more blocks, with both endings.
- ELF: parts of four bytes; segments that are not loaded, start in a later part,
  are shorter in the file than in memory; a file that ends early, one with its
  table away from the header, none; every read may come short.
- VBE: all lists of up to three of five modes; a screen of 6 by 3 pixels with lines
  as long as the screen and longer.
- Tables: 256 gates, at addresses across a boundary of 64 KB.
- ATA: three of four drives attached, the driver's the second of its channel;
  registers of four values and a drive of 80 sectors, so that a sector number needs
  every register; drives that show busy late, fail, or give up.
- Names: short names of three and one characters; paths of none to two components
  whose names begin with each other, so that what an earlier one left shows.
- `printf`: all pairs of 12 items, words of three bits with a small, a large
  positive and a negative value.
- Quicksort: all arrays of up to five keys of four values (equal keys in every
  place, longer parts on both sides). UTF: names of up to three code points, the
  first and last of each form, ASCII and surrogate pairs included.
- Deadlock is checked except in `boot_parts` and `kernel_parts`, whose parts end
  (a jump, a reboot, a halt, a return), and in the FAT runs, where a command can leave the code
  through a NULL handle (`pc = "wild"`) and, in `fat_errors`, stop at `MaxPos`.

Fairness. `ring` and `lines`: weak fairness of the reader's and of `fgets`'s
steps: handlers end, so the main line executes. Nothing is assumed of the
keyboard, and nothing makes the command line ask for a line. `console`: weak
fairness of the main line's step inside a call, for the same reason; echoes may
come for ever. `interrupt_completion`:
weak fairness of boot steps, handler steps and of taking an interrupt that stays
signalled with interrupts on: that is the processor executing. `fat_commands`:
weak fairness of the driver's steps, which run on the main line. `boot_parts`: weak
fairness of stage 1's, of the A20 dialogue's and of the ELF loader's steps, since
nothing else runs then, and of the keyboard controller, which takes the commands it
is given. `kernel_parts`: weak fairness of the disk driver's and of quicksort's
steps, and of a drive that has taken a command: it shows busy, and offers a block or
gives up. A drive that gives up without a block leaves `Disk_Read` waiting, and
`ReadEnds` says so.

## Findings

All three quote `libs/core/cli.c:88`, "cat <filepath> - Display the contents of
the specified file", and hold for undamaged volumes and reads that succeed.
- `libs/core/fat.c:132`: the kernel reads the FAT without adding the partition's
  offset. The boot loader's copy of the driver adds it (`Partition_ReadSectors`),
  and run `fat_commands`, with `FatOffset = PartitionOffset`, shows that nothing
  else is wrong with a fragmented file. On a floppy the offset is 0.
- `libs/core/fat.c:215`: closing the root directory leaves its last sector in the
  buffer. `ls` stops in the first sector, so it takes `cat` without a path (which
  opens and reads the root directory) to show: the next file is not found. The
  same happens after a look-up that ends in a later sector of the root directory.
- `libs/core/fat.c:131`: a FAT12 entry can lie across the end of the cache.

Met while modelling, and kept out of the passing runs by a constant or a chosen
input; changing it makes the property named fail.
- `bootloader/stage2/entry.asm:79`: a scan code already in the keyboard controller
  is taken for the output port and written back (`EarlyKeys = TRUE`, `DevicesAreHeeded`).
- `kernel/main.c:30`: a failed read of the partition table is not noticed
  (`MbrMayFail = TRUE`, `KernelFindsItsMachine`). The kernel also takes the first entry of
  the table, whichever the boot loader was started from (`BootEntries`).
- `libs/boot/vbe.c:31`: the mode is set without bit 14, so that a BIOS that keeps to
  the VESA standard need not enable the linear frame buffer (`LinearAlways = FALSE`,
  `ShowsPicture`).
- `libs/core/stdio.c:117`: `printf` of 0 prints no digit (0 in `MCWords`,
  `PrintsArguments`).
- `libs/boot/elf.c:77`: `memcpy`'s length has 16 bits, so a full part of 65536 bytes
  copies nothing (a segment of 4 bytes in `Sound` of `MCBootParts`, `EntersWholeImages`).

And by a precondition in a property or an input left out:
- `libs/boot/elf.c:25`: the verdict on the header is never used. `elf.c:16`: a
  missing file is read through a NULL handle, and error returns keep the handle.
- `libs/core/disk.c:115`: a drive that is not there never answers, so that "No drive
  found." (line 36) is not reached.
- `libs/core/fat.c:305`: a name without a full extension is compared with a byte that
  an earlier name left, and not found. `fat.c:314`: the test for a directory never
  fires, and a file in the middle of a path is searched as one.
- `libs/util/string.c:100`: the code point of a surrogate pair is overwritten with its
  first unit. `string.c:136`: the byte of a code point below 128 is stored and not passed,
  so that the next one, or the end of the name, takes its place; the comment in lines 110
  and 111 gives it the byte `0xxxxxxx`. The callers are commented out. `LongNamesComeThrough`
  is of names with both: they harm no code point beside them, and `IsWritten` says what is
  written instead.
- `libs/boot/x86.asm`: after the three video calls `ebx` and `edi` are not the
  caller's; `CallerUndisturbed` exempts them.
- `libs/boot/memory.c:57`: a block that comes with continuation 0 is not recorded, and
  the table's size is not looked at (`BlocksKept`; `mem_Detect` goes "wild").
- `libs/core/disk.c:133`: a drive that reports a geometry of 0 makes the read fault, though
  a hard disk's read does not use the result. The request then stays pending, which
  `DrivesAreServed` and `ReadEnds` allow.
- `libs/util/stdlib.c:9`: with the one smallest element first, quicksort reads outside
  of the array (`LeavesForSmallestFirst` says: only then). Its only call is
  commented out.

## Proofs

`KeyBufferProofs` proves, for every `BUFFER_SIZE` of at least 2 and every keymap
(the assumptions named in `KeyBuffer`), that the ring is a bounded queue.
`TypeOK` and `ReaderHoldsOldest` are not inductive alone. `ReaderHoldsOldest`
says that the reader, past its loop, has a character; but it compared `seen`, an
old copy of `bufferHead`. The strengthening relates the two: while the reader
compares, either the ring is not empty or `seen` equals the tail, because the
handler moves the head away from the tail and only the reader moves the tail.
Every action preserves the invariant. For the refinement, the mapping `Unread` is described by the
number of used slots and the slot of each waiting character; the lemmas say how
these change when the head or the tail moves by one with wrap-around: a handler
step appends or stutters, `AdvanceTail` takes the head of the queue, and
everything else leaves `Unread` alone. `NoKeyLostWithRoom` follows from the same
lemmas.

`LineInputProofs` adds the locals of `fgets`: the index stays below `n - 1` while
a character is read, and is at least 1 at the return, for which the invariant
needs `n >= 2` (the code passes 256). It reuses the ring's invariant through
lemmas of `KeyBufferProofs`. `LinesAreTheEditors` is about what the lines are: whatever keys
come between whichever statements, the command line gets exactly what the editor makes of
the characters read. `LinesAreEdited` says so only outside of `fgets`; `EditInv` says at
every statement what the editor has in hand (`EditorAt`: the bytes of `str` below `i` before
a character is read and after it is stored, an edit of them in between, and a line that is
already ended when it is full and the loop has not noticed), and that the ring holds the
last of the characters typed (`RingOfTyped`). `Edits` is a recursive function: that it exists
(`EditsAre`) and that a longer history does not change what was made of a shorter one
(`EditedAppend`) are inductions with `Numbers`. `CStringIs` says that the C string in the
buffer is the line up to its first NUL, so that nothing of an earlier line shows.

`BootPartsProofs` proves of the tables, for every number of gates and wherever the routines lie
in 32 bits (`DescriptorsAssumption`), what `boot_parts` checks of the tables on 256
gates (`TablesAreSound`). `GdtEntryKeepsAll` says that packing with `GDT_ENTRY` and
reading as the processor does gives back every base, limit and access byte, for all
32-bit bases and 20-bit limits; it rests on lemmas about quotients and remainders.
`NeverHalfGate` is not inductive: it says nothing of gates that are not present. The
invariant `DescInv` adds, for the code segment and the others, when they were last
loaded (`SegInv`), and for the gates (`GateInv`) that those below the one in hand are
made, that the fields of that one are stored up to `ifl`, those above are empty, and
that no gate's flags have the present bit before all gates are made. That last part is
what makes a half-stored gate harmless, and a gate whose flags are set at once
(`BugGateField`) breaks it: the upper half of the address is stored after them.

`InterruptsProofs` proves, for every set of active lines and exceptions and every size
of the ring, all that the two interrupt runs check of safety, and the refinement of
`KeyQueue` once more, with the handler executed a statement at a time. None of the
properties is inductive: `NothingLeftInService` says nothing while a handler runs, and
`OnlyServedInterrupts` nothing of an interrupt not yet taken. `SysInv` adds what makes
the order of `HAL_Initialize` right: how many initialization words each controller has
had at each step (`Programming`), that from the first mask on only the keyboard's line
is open, and only at the end (`Masks`), which tables are filled (`Tables`), and that
interrupts stay off until driver and handlers are set and while a frame is on the stack
(`Enabling`). Then a frame can only be an exception's, a spurious line 7's or the
keyboard's, and each of the three says, statement by statement, what is in service
(`Frames`); that a request of line 1 means a scan code in the port (`Requests`) is what
`ScanCodeIsThere` follows from. `Pic8259` computes a byte's value as a sum written out,
and the step of `HAL_Initialize` executed is chosen by disjunction, since the provers
know neither folds nor `CASE`.

`FatProofs` proves of both FAT drivers, for every volume (`LayoutAssumption`,
`TableAssumption` and `EntryAssumption` only give its fields their types), every size of
sector, cluster and cache, every path, and whichever reads fail: handles are given back
(`HandlesReturned`), `cat` shows no more than the size of the file (`NeverBeyondSize`),
and what it shows is the file's chain byte for byte (`CatShowsItsFile`). None is
inductive. `FatInv` adds who called `FAT_Read` and where it returns to (`Callers`), that
the only handle open is the one in use (`OneHandle`), that position and count stay in
the size also inside of `FAT_Read` (`Positions`), and that `cat` has shown no more than
it has read through its handle (`ShownFromHandle`). For `CatShowsItsFile`, `ReadInv`
relates the handle to the chain at every statement of the walk (`OnChain`: the cluster
and the sector in it are those of the position, before, while and after the next entry
is fetched), the sector buffer to the handle (`Fills`) and the FAT cache to the disk
(`CacheRight`). The property has two premises: no read has failed, and `SoundCache`,
that the FAT is read from its volume and no entry of it lies across the end of a sector,
which is what the recorded findings show the kernel's driver to lack. `ChainFrom` is
recursive, and an induction over it is done with sets instead of predicates: `Induct` of module
`Numbers` says that a set of numbers with 0 and the successor of each of its members
has them all, from the library's well-foundedness theorems; `Iterated`, that a function
defined from its predecessor exists.

That the file opened is the right one, `CatDisplaysContents` and `LsListsRoot`, is the
longest argument of the project, of three invariants on top of these two:
- `PathInv` relates what is left of the path to what was typed (`PathParts`), and its
  length to the handle: the driver is in the root directory exactly as long as it has
  looked up no name.
- `RootReadInv` is about the root directory's one handle, which all commands share:
  between uses it is as at the start, with the first sector in the buffer (`RootIdle`),
  and in use the buffer holds the sector of its position (`OnRoot`). The entries done
  with are the first ones of the directory, in order, without gap or repetition
  (`EntriesDone`); none has the name looked for (`Searched`), and all have been shown
  (`Listed`).
- `Found` says that as long as the path leads somewhere and nothing has failed, there is
  a handle, and it was opened from the entry to which the names so far lead (`Opened`,
  `At`), also when the end of its chain has changed the size in it; and that a directory
  is read entry by entry across its clusters (`SectorFound`, `EndOfEntry`).

`RootIsListed` and `ContentsAreDisplayed` follow for every volume, path, geometry, cache
and failing read (after which they claim nothing), under hypotheses about the constants:
the root directory is on the disk (`RootOnDisk`); a name looked up in it is in its first
sector or not in it, no path is empty and `ls` stops in that sector (`FirstSectorDoes`);
`SoundCache`; and on the paths in question no chain is shorter than its file, and the
chain of a directory ends (`PathsUndamaged`). The second is what finding `fat.c:215`
leaves: without it the root directory keeps a later sector in its buffer, and `fat_cat_root`
is the counterexample. `SoundCache` is the findings `fat.c:131` and `fat.c:132`, with
`fat_kernel_offset` and `fat12_straddle`. `MCFatSound` has TLC evaluate all four of the
volume of `fat_commands`, so that they are not empty, and the run checks there what the
theorems conclude.

`ConsoleProofs` proves all that run `console` checks of safety, for every size of the
screen (two rows at least), every distance of tab stops and every characters printed and
echoed. `ScreenAssumption` has it that the cursor's position fits into the two registers,
and `CharAssumption` that the characters `putc` tells apart differ. `InTextMemory` needs
to know of each increment and test where it can find the position after echoes: `ConInv`
says that the column is behind the row only from an increment to the wrap, the row
below the screen only from an increment to the end of scrolling (`Position`; not both
before the wrap, or the column would survive it), and that whatever the main line has
loaded, stale or not, is a position on the screen (`Registers`). For `ScreenShowsText`,
`Left` is the console that the rest of the call would leave if no echo fell into it, from
every statement; no step of the main line changes it (`ShowInv`), so that it is enough
to prove that it shows the terminal when the call begins: that a `putc` done at once does
to the screen what `Write` does to the terminal. Inside a tab `ShowInv` says so of some
terminal to which the loop has given its first `i` blanks, which is where the bound that
is computed anew for every blank matters: screen and terminal have the same column.

`BootPartsProofs` proves what `boot_parts` checks of safety, but for the BIOS calls. A step
of the composition is a step of one part and a stutter of the others (`PartsStep`), so
that the parts' invariants, conjoined in `PartsInv`, are inductive together
(`PartsInvHolds`), and a refinement proved of a part is one of the composition.
- `DiskIsServed`, for every geometry the registers can name, every read and every number
  of tries. `GeometryUnpacked` says that the driver gets the drive's geometry out of the
  registers of function 08h, `SectorParts` and `PackedCylinder` that a sector number taken
  apart and packed names itself again, `SectorAsked` that it does so for every number the
  BIOS can read at all. A number past the end of the drive is never one of a sector on it.
  The result of a reset is not looked at, so a try may also meet the controller a failed
  reset has left: `Counting` says how many tries the medium or such a reset has spoilt:
  all but the first, which may have found a controller unfit.
- Of stage 1 (`Stage1Inv`): the extents before the one in hand are in memory whole, each
  behind the ones before it (`ExtentsLoaded`; `Sectors`, how many these are, is a recursive
  function, taken step by step with `Induct`), and a read that failed may spoil only what
  lies behind. `TriesCount` is `Counting` for the register `di`.
- Of the A20 dialogue (`A20Inv`), for every width of a byte: what is in the input buffer is
  what the instruction before put there (`Given`), the output buffer holds the answer, which
  is the port, until it is read, and nothing else, so that `al` is the port from then on
  (`Answered`), the port changes with the byte written and not before (`PortSaid`), and the
  keyboard is disabled in between (`Heard`).
- Of the sequence (`BootInv`), for every table and memory map: which page of memory holds
  the entry, the volume and the kernel at which step (`VolumeFound`, `VolumeFoundAgain`),
  and that the blocks taken so far are the first ones, in order (`BlocksTaken`). A map
  that ends with an error is taken whole; one whose last block comes with continuation 0
  loses that block, and one longer than the table goes "wild": `MachineIsFound` says the
  former two and nothing of the last.
- Of `ELF_Read` (`ElfInv`), for every file, table and size of the buffer: memory holds, of
  each segment begun, what has been copied and zeros behind it, and nothing else
  (`MemoryHolds`); position, rest and address of the copy agree (`Progress`).
- Of the screen (`VbeInv`), for every list of modes, text and font: no mode before the one
  in hand fits, and pixels lie in the frame buffer at places that differ (`PixelPlace`,
  `PixelsDiffer`), so that drawing one leaves the others.

The theorems have the hypotheses under which the run passes, as formulas about the
constants, and each stands for a finding above that makes the property fail without it:
`SegmentsFit` (`elf.c:77`; and segments do not overlap, or the later one wins), `KeysWait`
(`entry.asm:79`), `FirstEntry` (`main.c:30`) and `LinearAlways` (`vbe.c:31`). Without them
the invariant still holds; only its conclusions about them are guarded.

`KernelPartsProofs` does the same for three of the parts of `kernel_parts`.
- `DrivesServed`, for every drive attached or missing, every geometry, every read, every
  number of tries and every pace of the drive (`AtaAssumption`). The refinement of
  `DiskService` needs that the data is what was asked for when the driver looks at the
  status, although it takes block after block whatever the drive shows in between.
  `AtaInv` says what the drive still has: its blocks continue the data taken
  (`Continues`), until it has none, or one flawed block with the error bit set
  (`OffersFlawed`), or nothing but the error bit; so a read that returns true never saw a
  flawed block. That a drive other than the one meant has nothing to do (`Rests`) gives
  `CommandsToIdleDrive`. A missing drive is one the driver waits for for ever (`Absent`).
- `ArraysAreSorted`, for every array of less than half of a `size_t`
  (`QuicksortAssumption`). The recursion is a stack, so the invariant `SortInv` is about
  all calls left: they lie within the array, apart and in order (`Apart`), and two
  elements out of order are both in one of them (`Ordered`), which leaves nothing out of
  order when none is left. Within a call, before the first exchange the upward scan
  stands at the pivot (`Unswapped`), afterwards what was exchanged stops both scans
  (`Swapped`). The read outside of the array is part of the proof: a call for the front
  of the array is the first call or has its largest element first (`InFront`), so that
  only the first call can end at -1, and only for one smallest element in front
  (`Doomed`). `Permuted` has a function from places to places, since no count is
  recursive.
- `LongNames`, for every list of names of any code points (`UtfAssumption`): the bytes
  written are the first code points', one behind the other (`WrittenUpTo`), those of one
  unit that are not ASCII in their shortest form. What is still to be read is given by a
  function from places in the name to sequences of units (`LeftToRead`), which exists for every
  name (`RestsExist`) and is all the units at the start (`RestIsWhole`, where `FlattenSeq`
  is unfolded step by step with `Induct`). So a pair or a character of ASCII, which
  `string.c:100` and `string.c:136` get wrong, takes its own units and no more
  (`UnitsInFront`), and every other one in the name arrives.

Only model-checked, and why:
- Liveness (`CommandsEnd`, `KernelPartsEnd`, `BootPartsEnd`, that readers, calls and
  initialization end): fairness is out of the prover's reach.
- `BiosCallsSound`: the functions of `RealMode` are eight fixed programs without loops,
  and the run executes all of them completely.
- `NamesAreFound`: what a line names is said with folds over its characters
  (`Components`, `Named`), and the property is one of the lines of `MCKernelParts`; a
  blank inside of a path, which no line there has, would be skipped by `Typed` and not
  by the code.
- `PrintsArguments`: the digits of a number are a recursion over its value.

## Not modelled

Left out, and why:
- FAT32: its branches are in both drivers, but the images the build makes (16 MB and
  floppies) are too small for it; the 3 GB that `build_scripts/config.mk` has in a
  comment would need it, and then `libs/core/fat.c:192`, which takes an end of chain
  to be at least `0xFFFFFFF8` where the table holds 28 bits, is the place to look at.
- The end of long file names in `FAT_FindFile`: commented out. The sorting and the
  conversion it would use are modelled; `FAT_CompareLFNBlocks` has no live caller.
- `VBE_DrawOS` and what only it uses, `print_buffer`, `i8259_Mask`,
  `i8259_ReadIrqRequestRegister` and `i8259_ReadInServiceRegister`: no caller.
- `Floppy_Read`: its body is commented out, it returns true.
- The font (data), colours, the texts of `help` and `info`, the register dump of a
  panic: output without a state.
- What a program does after it has gone through a NULL handle or over the end of a
  table ("wild"): that depends on what lies there.
