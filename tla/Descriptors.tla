---------------------------- MODULE Descriptors ----------------------------
(***************************************************************************)
(* The descriptor tables of the kernel (kernel/arch/i686/gdt.*, idt.*,     *)
(* isr.c, isrs.c) and what the processor makes of them: HAL_Initialize     *)
(* loads its own GDT in place of the boot loader's and fills the IDT field *)
(* by field while it is already loaded.  An exception or a non-maskable    *)
(* interrupt may come between any two of the stores.                       *)
(***************************************************************************)
EXTENDS Integers, Sequences

CONSTANTS
  GATES,             \* gates of the IDT (256)
  UNUSED,            \* the one that is disabled (0x80)
  PIC_REMAP_OFFSET,  \* first vector of the controllers (0x20)
  LINES,             \* their lines (16)
  Isr                \* i686_ISR0 ..: the address of each vector's routine

Vectors == 0 .. GATES - 1
W16 == 65536
DescBits(n, low, count) == (n \div low) % count     \* a shift by low's bits and a mask

ASSUME DescriptorsAssumption ==
  /\ GATES \in Nat \ {0} /\ UNUSED \in Vectors
  /\ PIC_REMAP_OFFSET \in Nat /\ LINES \in Nat \ {0}
  /\ PIC_REMAP_OFFSET + LINES <= GATES
  /\ UNUSED \notin PIC_REMAP_OFFSET .. PIC_REMAP_OFFSET + LINES - 1
  /\ \A v \in Vectors : Isr[v] \in Nat /\ Isr[v] \div W16 < W16     \* 32 bits

-----------------------------------------------------------------------------
\* The Global Descriptor Table.

\* Bug: the limit's upper bits are not masked out of the flags' byte, the flags are.
BugGdtEntry(base, limit, access, flags) ==
  [LimitLow |-> limit % W16, BaseLow |-> base % W16, BaseMiddle |-> DescBits(base, W16, 256),
   Access |-> access, FlagsLimitHi |-> DescBits(limit, W16, 16) + (flags % 16),
   BaseHigh |-> DescBits(base, W16 * 256, 256)]

\* GDT_ENTRY: the flags are the upper half of a byte.
GDT_ENTRY(base, limit, access, flags) ==
  [LimitLow |-> limit % W16, BaseLow |-> base % W16, BaseMiddle |-> DescBits(base, W16, 256),
   Access |-> access, FlagsLimitHi |-> DescBits(limit, W16, 16) + 16 * DescBits(flags, 16, 16),
   BaseHigh |-> DescBits(base, W16 * 256, 256)]

GDT_CODE == 128 + 24 + 2       \* PRESENT, RING0, CODE_SEGMENT, CODE_READABLE
GDT_DATA == 128 + 16 + 2       \* PRESENT, RING0, DATA_SEGMENT, DATA_WRITEABLE
FLAGS_32BIT_4K == 64 + 128
FLAGS_16BIT_1B == 0
i686_GDT_CODE_SEGMENT == 8
i686_GDT_DATA_SEGMENT == 16

g_GDT == << GDT_ENTRY(0, 0, 0, 0),
            GDT_ENTRY(0, 1048575, GDT_CODE, FLAGS_32BIT_4K),
            GDT_ENTRY(0, 1048575, GDT_DATA, FLAGS_32BIT_4K) >>

\* g_GDT of the boot loader's stage 2, written out byte by byte.
Written(access, high) ==
  [LimitLow |-> W16 - 1, BaseLow |-> 0, BaseMiddle |-> 0,
   Access |-> access, FlagsLimitHi |-> high, BaseHigh |-> 0]
Stage2GDT == << GDT_ENTRY(0, 0, 0, 0), Written(154, 207), Written(146, 207),
                Written(154, 15), Written(146, 15) >>

\* What the processor reads in an entry.
Decoded(e) ==
  [base |-> e.BaseLow + W16 * e.BaseMiddle + W16 * 256 * e.BaseHigh,
   limit |-> e.LimitLow + W16 * (e.FlagsLimitHi % 16),
   access |-> e.Access,
   flags |-> 16 * (e.FlagsLimitHi \div 16)]

\* The entry a selector means; a table of n entries ends at 8 * n - 1.
Entry(table, selector) ==
  IF selector + 7 <= 8 * Len(table) - 1 THEN Decoded(table[selector \div 8 + 1])
  ELSE Decoded(GDT_ENTRY(0, 0, 0, 0))

Flat(d, access) ==
  d = [base |-> 0, limit |-> 1048575, access |-> access, flags |-> FLAGS_32BIT_4K]

-----------------------------------------------------------------------------
VARIABLES
  descPc,  \* where HAL_Initialize is
  gdt,     \* the table the processor uses
  seg,     \* what each segment register was loaded with
  loaded,  \* is the IDT the kernel's?
  idt,     \* g_IDT
  descI,   \* the vector in hand
  ifl      \* the field of it that is stored next

descVars == <<descPc, gdt, seg, loaded, idt, descI, ifl>>

SegmentRegisters == {"cs", "ds", "es", "fs", "gs", "ss"}
\* The kernel is entered with the code, data and stack segments of stage 2; the others
\* are as real mode left them, with a limit of 64 KB.
Real == [base |-> 0, limit |-> W16 - 1, access |-> GDT_DATA, flags |-> FLAGS_16BIT_1B]
NoGate == [BaseLow |-> 0, SegmentSelector |-> 0, Reserved |-> 0, Flags |-> 0, BaseHigh |-> 0]

DescInit ==
  /\ descPc = "lgdt" /\ gdt = Stage2GDT
  /\ seg = [r \in SegmentRegisters |->
              CASE r = "cs" -> Entry(Stage2GDT, i686_GDT_CODE_SEGMENT)
                [] r \in {"ds", "ss"} -> Entry(Stage2GDT, i686_GDT_DATA_SEGMENT)
                [] OTHER -> Real]
  /\ loaded = FALSE
  /\ idt = [v \in Vectors |-> NoGate]
  /\ descI = 0 /\ ifl = "BaseLow"

\* i686_GDT_Load: the table, the code segment by a far return, and the others.
Lgdt ==
  /\ descPc = "lgdt" /\ descPc' = "retf"
  /\ gdt' = g_GDT
  /\ UNCHANGED <<seg, loaded, idt, descI, ifl>>

ReloadCode ==
  /\ descPc = "retf" /\ descPc' = "segments"
  /\ seg' = [seg EXCEPT !["cs"] = Entry(gdt, i686_GDT_CODE_SEGMENT)]
  /\ UNCHANGED <<gdt, loaded, idt, descI, ifl>>

ReloadData ==
  /\ descPc = "segments" /\ descPc' = "lidt"
  /\ seg' = [r \in SegmentRegisters |->
               IF r = "cs" THEN seg[r] ELSE Entry(gdt, i686_GDT_DATA_SEGMENT)]
  /\ UNCHANGED <<gdt, loaded, idt, descI, ifl>>

\* i686_IDT_Initialize
Lidt ==
  /\ descPc = "lidt" /\ descPc' = "set"
  /\ loaded' = TRUE
  /\ UNCHANGED <<gdt, seg, idt, descI, ifl>>

-----------------------------------------------------------------------------
\* The gates.
PRESENT == 128
GATE_32BIT_INT == 14

\* Bug: the gate's flags are complete when it is set.
BugGateField(v, field) ==
  CASE field = "BaseLow" -> Isr[v] % W16
    [] field = "SegmentSelector" -> i686_GDT_CODE_SEGMENT
    [] field = "Reserved" -> 0
    [] field = "Flags" -> GATE_32BIT_INT + PRESENT
    [] field = "BaseHigh" -> DescBits(Isr[v], W16, W16)

\* What i686_IDT_SetGate stores, as i686_ISR_InitializeGates calls it.
GateField(v, field) ==
  CASE field = "BaseLow" -> Isr[v] % W16
    [] field = "SegmentSelector" -> i686_GDT_CODE_SEGMENT
    [] field = "Reserved" -> 0
    [] field = "Flags" -> GATE_32BIT_INT
    [] field = "BaseHigh" -> DescBits(Isr[v], W16, W16)

NextField ==
  [BaseLow |-> "SegmentSelector", SegmentSelector |-> "Reserved", Reserved |-> "Flags",
   Flags |-> "BaseHigh", BaseHigh |-> "BaseLow"]

\* The next vector of a loop up to last, or the first of the next loop.
Step(last, here, next, first) ==
  IF descI = last THEN descPc' = next /\ descI' = first ELSE descPc' = here /\ descI' = descI + 1

SetGate ==
  /\ descPc = "set"
  /\ idt' = [idt EXCEPT ![descI][ifl] = GateField(descI, ifl)]
  /\ ifl' = NextField[ifl]
  /\ IF ifl = "BaseHigh" THEN Step(GATES - 1, "set", "enable", 0) ELSE UNCHANGED <<descPc, descI>>
  /\ UNCHANGED <<gdt, seg, loaded>>

\* Bug: the flag is added and not set.
BugFlagSet(x, flag) == x + flag
FLAG_SET(x, flag) == IF DescBits(x, flag, 2) = 1 THEN x ELSE x + flag
FLAG_UNSET(x, flag) == IF DescBits(x, flag, 2) = 1 THEN x - flag ELSE x

\* i686_ISR_Initialize enables every gate
EnableGate ==
  /\ descPc = "enable"
  /\ idt' = [idt EXCEPT ![descI].Flags = FLAG_SET(@, PRESENT)]
  /\ Step(GATES - 1, "enable", "disable", UNUSED)
  /\ UNCHANGED <<gdt, seg, loaded, ifl>>

\* Bug: the next gate is the one that is disabled.
BugDisableGate ==
  /\ descPc = "disable" /\ descPc' = "register"
  /\ idt' = [idt EXCEPT ![(descI + 1) % GATES].Flags = FLAG_UNSET(@, PRESENT)]
  /\ descI' = PIC_REMAP_OFFSET
  /\ UNCHANGED <<gdt, seg, loaded, ifl>>

\* and disables one;
DisableGate ==
  /\ descPc = "disable" /\ descPc' = "register"
  /\ idt' = [idt EXCEPT ![descI].Flags = FLAG_UNSET(@, PRESENT)]
  /\ descI' = PIC_REMAP_OFFSET
  /\ UNCHANGED <<gdt, seg, loaded, ifl>>

\* i686_IRQ_Initialize registers a handler for every line, which enables its gate again.
RegisterHandler ==
  /\ descPc = "register"
  /\ idt' = [idt EXCEPT ![descI].Flags = FLAG_SET(@, PRESENT)]
  /\ Step(PIC_REMAP_OFFSET + LINES - 1, "register", "end", 0)
  /\ UNCHANGED <<gdt, seg, loaded, ifl>>

DescNext ==
  \/ Lgdt \/ ReloadCode \/ ReloadData \/ Lidt
  \/ SetGate \/ EnableGate \/ DisableGate \/ RegisterHandler

DescSpec == DescInit /\ [][DescNext]_descVars

-----------------------------------------------------------------------------
DescriptorsTypeOK ==
  /\ descPc \in {"lgdt", "retf", "segments", "lidt", "set", "enable", "disable", "register", "end"}
  /\ gdt \in {Stage2GDT, g_GDT}
  /\ loaded \in BOOLEAN
  /\ DOMAIN seg = SegmentRegisters
  /\ idt \in [Vectors -> [BaseLow : 0 .. W16 - 1, SegmentSelector : 0 .. W16 - 1,
                          Reserved : 0 .. 255, Flags : 0 .. 255, BaseHigh : 0 .. W16 - 1]]
  /\ descI \in Vectors
  /\ ifl \in DOMAIN NextField

\* What the processor does with a vector: it goes through a gate that is present.
Present(v) == loaded /\ DescBits(idt[v].Flags, PRESENT, 2) = 1
Target(v) == idt[v].BaseLow + W16 * idt[v].BaseHigh

\* Whatever the moment an exception comes: a gate the processor finds present leads to
\* the routine of its own vector, with interrupts off, in ring 0 and through a flat code
\* segment of the table that is loaded; a gate of which only some fields are stored is
\* never present.
NeverHalfGate ==
  \A v \in Vectors : Present(v) =>
    /\ Target(v) = Isr[v]
    /\ idt[v].Flags = PRESENT + GATE_32BIT_INT /\ idt[v].Reserved = 0
    /\ Flat(Entry(gdt, idt[v].SegmentSelector), GDT_CODE)

\* The kernel's code always runs in flat segments, also between the load of its GDT and
\* that of the registers, and the table in use gives its selectors the same meaning;
\* when the gates are made, the segments real mode left are gone too.
FlatSegments ==
  /\ Flat(seg["cs"], GDT_CODE)
  /\ Flat(seg["ds"], GDT_DATA) /\ Flat(seg["ss"], GDT_DATA)
  /\ Flat(Entry(gdt, i686_GDT_CODE_SEGMENT), GDT_CODE)
  /\ Flat(Entry(gdt, i686_GDT_DATA_SEGMENT), GDT_DATA)
  /\ loaded => \A r \in {"es", "fs", "gs"} : Flat(seg[r], GDT_DATA)

\* In the end every vector but the unused one has a gate, those of the controllers
\* included.
AllGatesButOne ==
  descPc = "end" => \A v \in Vectors : Present(v) <=> v # UNUSED

\* The tables at every moment: gates whole or absent, segments flat, and all gates but
\* one in the end.
TablesSound == DescriptorsTypeOK /\ NeverHalfGate /\ FlatSegments /\ AllGatesButOne
=============================================================================
