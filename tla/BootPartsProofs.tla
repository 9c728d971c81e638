-------------------------- MODULE BootPartsProofs --------------------------
EXTENDS BootParts, Numbers

-----------------------------------------------------------------------------
(***************************************************************************)
(* The descriptor tables for every number of gates and wherever the        *)
(* routines lie: packing loses nothing, and the properties of Descriptors. *)
(***************************************************************************)
\* A number of 32 bits is its lower 16 and its upper 16 bits.
LEMMA HalvesMakeWord ==
  ASSUME NEW n \in Nat, n \div W16 < W16
  PROVE  /\ (n % W16) + W16 * DescBits(n, W16, W16) = n
         /\ n % W16 \in 0 .. W16 - 1 /\ DescBits(n, W16, W16) \in 0 .. W16 - 1
<1> DEFINE q == n \div W16
           low == n % W16
<1>1. W16 \in Nat \ {0}
  BY DEF W16
<1>2. n = q * W16 + low /\ q \in Nat /\ low \in 0 .. W16 - 1
  BY <1>1, QuotientRemainder
<1> HIDE DEF low
<1>3. q \in 0 .. W16 - 1
  BY <1>1, <1>2
<1>4. q % W16 = q
  <2> HIDE DEF q
  <2>1. q = 0 * W16 + q
    BY <1>1, <1>2
  <2> QED
    BY <1>1, <1>3, <2>1, QuotientOf
<1>5. low + W16 * q = n
  <2> HIDE DEF q
  <2> QED
    BY <1>1, <1>2
<1> QED
  BY <1>2, <1>3, <1>4, <1>5 DEF DescBits, low

\* And it is its lower 16, its middle 8 and its upper 8 bits.
LEMMA ThirdsMakeWord ==
  ASSUME NEW n \in Nat, n \div W16 < W16
  PROVE  (n % W16) + W16 * DescBits(n, W16, 256) + W16 * 256 * DescBits(n, W16 * 256, 256) = n
  BY SMT DEF DescBits, W16

\* Two halves of a byte come back out of it.
LEMMA HalvesOfByte ==
  ASSUME NEW low \in 0 .. 15, NEW high \in 0 .. 15
  PROVE  (low + 16 * high) % 16 = low /\ (low + 16 * high) \div 16 = high
  BY SMT

\* What the processor reads in an entry that GDT_ENTRY packs is what was packed, for
\* every base of 32 bits and limit of 20, but for the flags' lower half (gdt.h:5-10).
THEOREM GdtEntryKeepsAll ==
  ASSUME NEW base \in Nat, base \div W16 < W16, NEW limit \in Nat, limit \div W16 < 16,
         NEW access \in 0 .. 255, NEW flags \in Nat, flags \div 16 < 16
  PROVE  Decoded(GDT_ENTRY(base, limit, access, flags)) =
           [base |-> base, limit |-> limit, access |-> access, flags |-> 16 * (flags \div 16)]
<1>1. PICK low \in 0 .. 15 : low = limit \div 65536 /\ DescBits(limit, W16, 16) = low
  BY SMT DEF DescBits, W16
<1>2. PICK high \in 0 .. 15 : high = flags \div 16 /\ DescBits(flags, 16, 16) = high
  BY SMT DEF DescBits
<1>3. (limit % W16) + W16 * low = limit
  BY SMT, <1>1 DEF W16
<1>4. PICK e : e = GDT_ENTRY(base, limit, access, flags)
  OBVIOUS
<1>5. /\ e.LimitLow = limit % W16 /\ e.BaseLow = base % W16 /\ e.Access = access
      /\ e.BaseMiddle = DescBits(base, W16, 256) /\ e.BaseHigh = DescBits(base, W16 * 256, 256)
      /\ e.FlagsLimitHi = low + 16 * high
  BY SMT, <1>1, <1>2, <1>4 DEF GDT_ENTRY
<1>6. e.FlagsLimitHi % 16 = low /\ e.FlagsLimitHi \div 16 = high
  BY SMT, <1>5, HalvesOfByte
<1>7. e.BaseLow + W16 * e.BaseMiddle + W16 * 256 * e.BaseHigh = base
  BY SMT, <1>5, ThirdsMakeWord
<1>8. Decoded(e) = [base |-> base, limit |-> limit, access |-> access, flags |-> 16 * high]
  BY SMT, <1>3, <1>5, <1>6, <1>7 DEF Decoded
<1> QED
  BY SMT, <1>2, <1>4, <1>8

LEMMA FlatEntries ==
  \A table \in {Stage2GDT, g_GDT} :
    /\ Flat(Entry(table, i686_GDT_CODE_SEGMENT), GDT_CODE)
    /\ Flat(Entry(table, i686_GDT_DATA_SEGMENT), GDT_DATA)
<1>1. PICK base, limit, flags : base = 0 /\ limit = 1048575 /\ flags = 192
  BY SMT
<1>2. /\ base \in Nat /\ base \div W16 < W16 /\ limit \in Nat /\ limit \div W16 < 16
      /\ flags \in Nat /\ flags \div 16 < 16 /\ 16 * (flags \div 16) = flags
  BY SMT, <1>1 DEF W16
<1>3. ASSUME NEW access \in 0 .. 255
      PROVE  Decoded(GDT_ENTRY(base, limit, access, flags)) =
               [base |-> base, limit |-> limit, access |-> access, flags |-> 16 * (flags \div 16)]
  BY <1>2, GdtEntryKeepsAll, ZenonT(60)
<1>4. \A access \in {154, 146} : Decoded(Written(access, 207)) =
           [base |-> 0, limit |-> 1048575, access |-> access, flags |-> 192]
  BY SMT DEF Decoded, Written, W16
<1>5. /\ Len(g_GDT) = 3 /\ g_GDT[2] = GDT_ENTRY(base, limit, 154, flags)
      /\ g_GDT[3] = GDT_ENTRY(base, limit, 146, flags)
  BY SMT, <1>1 DEF g_GDT, GDT_CODE, GDT_DATA, FLAGS_32BIT_4K
<1>6. Len(Stage2GDT) = 5 /\ Stage2GDT[2] = Written(154, 207) /\ Stage2GDT[3] = Written(146, 207)
  BY SMT DEF Stage2GDT
<1>7. \A table \in {Stage2GDT, g_GDT} :
        Entry(table, 8) = Decoded(table[2]) /\ Entry(table, 16) = Decoded(table[3])
  BY SMT, <1>5, <1>6 DEF Entry
<1>8. \A table \in {Stage2GDT, g_GDT} : \A s \in {2, 3} :
        Decoded(table[s]) = [base |-> base, limit |-> limit,
                             access |-> IF s = 2 THEN 154 ELSE 146, flags |-> flags]
  BY <1>1, <1>2, <1>3, <1>4, <1>5, <1>6, SMTT(60)
<1> QED
  BY SMT, <1>1, <1>7, <1>8 DEF i686_GDT_CODE_SEGMENT, i686_GDT_DATA_SEGMENT, GDT_CODE, GDT_DATA,
     FLAGS_32BIT_4K, Flat

-----------------------------------------------------------------------------
\* Segments: which registers are flat at which point.
SegInv ==
  /\ gdt \in {Stage2GDT, g_GDT} /\ loaded \in BOOLEAN
  /\ DOMAIN seg = SegmentRegisters
  /\ Flat(seg["cs"], GDT_CODE) /\ Flat(seg["ds"], GDT_DATA) /\ Flat(seg["ss"], GDT_DATA)
  /\ descPc \notin {"lgdt", "retf", "segments"} =>
       \A r \in {"es", "fs", "gs"} : Flat(seg[r], GDT_DATA)
  /\ descPc \in {"lgdt", "retf", "segments", "lidt"} <=> ~loaded

\* A gate whose fields but the flags are those of its routine.
Made(v) ==
  /\ idt[v].BaseLow = Isr[v] % W16 /\ idt[v].BaseHigh = DescBits(Isr[v], W16, W16)
  /\ idt[v].SegmentSelector = i686_GDT_CODE_SEGMENT /\ idt[v].Reserved = 0
Raised(v) == idt[v].Flags = PRESENT + GATE_32BIT_INT
Off(v) == idt[v].Flags = GATE_32BIT_INT

\* A gate whose fields before ifl are stored; the flags are the last but one.
Partly(v) ==
  /\ ifl # "BaseLow" => idt[v].BaseLow = Isr[v] % W16
  /\ ifl \notin {"BaseLow", "SegmentSelector"} => idt[v].SegmentSelector = i686_GDT_CODE_SEGMENT
  /\ ifl \in {"Flags", "BaseHigh"} => idt[v].Reserved = 0
  /\ idt[v].Flags = IF ifl = "BaseHigh" THEN GATE_32BIT_INT ELSE 0

\* The gates: none before they are set; then those below i are made and not yet present,
\* that of i up to ifl, and those above not at all; then they are enabled one by one.
GateInv ==
  /\ idt \in [Vectors -> [BaseLow : 0 .. W16 - 1, SegmentSelector : 0 .. W16 - 1,
                          Reserved : 0 .. 255, Flags : 0 .. 255, BaseHigh : 0 .. W16 - 1]]
  /\ descPc \in {"lgdt", "retf", "segments", "lidt", "set", "enable", "disable", "register", "end"}
  /\ descI \in Vectors /\ ifl \in DOMAIN NextField
  /\ descPc \in {"lgdt", "retf", "segments", "lidt"} => descI = 0
  /\ descPc # "set" => ifl = "BaseLow"
  /\ descPc \in {"lgdt", "retf", "segments", "lidt", "set"} =>
       /\ \A v \in Vectors : v < descI => Made(v) /\ Off(v)
       /\ \A v \in Vectors : v > descI => idt[v].Flags = 0
       /\ Partly(descI)
  /\ descPc \in {"enable", "disable", "register", "end"} => \A v \in Vectors : Made(v)
  /\ descPc = "enable" => \A v \in Vectors : (v < descI => Raised(v)) /\ (v >= descI => Off(v))
  /\ descPc = "disable" => descI = UNUSED /\ \A v \in Vectors : Raised(v)
  /\ descPc = "register" => descI \in PIC_REMAP_OFFSET .. PIC_REMAP_OFFSET + LINES - 1
  /\ descPc \in {"register", "end"} => Off(UNUSED) /\ \A v \in Vectors \ {UNUSED} : Raised(v)

DescInv == SegInv /\ GateInv

LEMMA InitDescInv == DescInit => DescInv
<1> SUFFICES ASSUME DescInit PROVE DescInv
  OBVIOUS
<1>1. SegInv
  BY FlatEntries DEF DescInit, SegInv, SegmentRegisters
<1>2. 0 \in Vectors
  BY DescriptorsAssumption DEF Vectors
<1>3. GateInv
  BY <1>2, DescriptorsAssumption DEF DescInit, GateInv, NoGate, NextField, Partly, Vectors, W16
<1> QED
  BY <1>1, <1>3 DEF DescInv

LEMMA SegStep == SegInv /\ [DescNext]_descVars => SegInv'
<1> SUFFICES ASSUME SegInv, [DescNext]_descVars PROVE SegInv'
  OBVIOUS
<1> USE DEF SegInv
<1>1. CASE Lgdt
  BY <1>1 DEF Lgdt
<1>2. CASE ReloadCode
  BY <1>2, FlatEntries DEF ReloadCode, SegmentRegisters
<1>3. CASE ReloadData
  BY <1>3, FlatEntries DEF ReloadData, SegmentRegisters
<1>4. CASE Lidt
  BY <1>4 DEF Lidt
<1>5. CASE SetGate
  BY <1>5 DEF SetGate, Step
<1>6. CASE EnableGate
  BY <1>6 DEF EnableGate, Step
<1>7. CASE DisableGate
  BY <1>7 DEF DisableGate
<1>8. CASE RegisterHandler
  BY <1>8 DEF RegisterHandler, Step
<1>9. CASE UNCHANGED descVars
  BY <1>9 DEF descVars
<1> QED
  BY <1>1, <1>2, <1>3, <1>4, <1>5, <1>6, <1>7, <1>8, <1>9 DEF DescNext

\* The present flag is bit 7 of a byte.
LEMMA FlagBits ==
  /\ FLAG_SET(GATE_32BIT_INT, PRESENT) = PRESENT + GATE_32BIT_INT
  /\ FLAG_SET(PRESENT + GATE_32BIT_INT, PRESENT) = PRESENT + GATE_32BIT_INT
  /\ FLAG_UNSET(PRESENT + GATE_32BIT_INT, PRESENT) = GATE_32BIT_INT
  /\ DescBits(PRESENT + GATE_32BIT_INT, PRESENT, 2) = 1
  /\ DescBits(GATE_32BIT_INT, PRESENT, 2) = 0 /\ DescBits(0, PRESENT, 2) = 0
  BY DEF FLAG_SET, FLAG_UNSET, DescBits, PRESENT, GATE_32BIT_INT

LEMMA IsrHalves ==
  ASSUME NEW v \in Vectors
  PROVE  Isr[v] % W16 \in 0 .. W16 - 1 /\ DescBits(Isr[v], W16, W16) \in 0 .. W16 - 1
  BY DescriptorsAssumption, HalvesMakeWord

GateTypes ==
  [Vectors -> [BaseLow : 0 .. W16 - 1, SegmentSelector : 0 .. W16 - 1,
               Reserved : 0 .. 255, Flags : 0 .. 255, BaseHigh : 0 .. W16 - 1]]

LEMMA SetGateInv == GateInv /\ SetGate => GateInv'
<1> SUFFICES ASSUME GateInv, SetGate PROVE GateInv'
  OBVIOUS
<1> DEFINE low == Isr[descI] % W16
           high == DescBits(Isr[descI], W16, W16)
<1>1. /\ descPc = "set" /\ descI \in Vectors /\ idt \in GateTypes
      /\ \A v \in Vectors : v < descI => Made(v) /\ Off(v)
      /\ \A v \in Vectors : v > descI => idt[v].Flags = 0
      /\ Partly(descI)
  BY DEF GateInv, SetGate, GateTypes
<1>2. low \in 0 .. W16 - 1 /\ high \in 0 .. W16 - 1
  BY <1>1, IsrHalves
<1> HIDE DEF low, high
<1>3. \A v \in Vectors \ {descI} : idt'[v] = idt[v]
  BY <1>1 DEF SetGate, GateTypes
<1>4. descI \in 0 .. GATES - 1 /\ GATES \in Nat \ {0}
  BY <1>1, DescriptorsAssumption DEF Vectors
<1>5. ASSUME ifl # "BaseHigh", idt' \in GateTypes, ifl' \in DOMAIN NextField, Partly(descI)'
      PROVE  GateInv'
  <2>1. descPc' = "set" /\ descI' = descI
    BY <1>1, <1>5 DEF SetGate
  <2>2. \A v \in Vectors : v < descI => Made(v)' /\ Off(v)'
    BY <1>1, <1>3, <1>4, <2>1 DEF Made, Off, Vectors
  <2>3. \A v \in Vectors : v > descI => idt'[v].Flags = 0
    BY <1>1, <1>3, <1>4, <2>1 DEF Vectors
  <2> QED
    BY <1>1, <1>5, <2>1, <2>2, <2>3 DEF GateInv, GateTypes, Partly
<1>6. CASE ifl = "BaseLow"
  <2>1. idt' = [idt EXCEPT ![descI].BaseLow = low] /\ ifl' = "SegmentSelector"
    BY <1>6 DEF SetGate, GateField, NextField, low
  <2>2. idt' \in GateTypes
    BY <1>1, <1>2, <2>1 DEF GateTypes
  <2>3. idt'[descI].BaseLow = low /\ idt'[descI].Flags = 0 /\ descI' = descI
    BY <1>1, <1>6, <2>1 DEF GateTypes, Partly, SetGate
  <2>4. Partly(descI)'
    BY <2>1, <2>3 DEF Partly, low
  <2> QED
    BY <1>5, <1>6, <2>1, <2>2, <2>4 DEF NextField
<1>7. CASE ifl = "SegmentSelector"
  <2>1. idt' = [idt EXCEPT ![descI].SegmentSelector = i686_GDT_CODE_SEGMENT] /\ ifl' = "Reserved"
    BY <1>7 DEF SetGate, GateField, NextField
  <2>2. idt' \in GateTypes
    <3>1. i686_GDT_CODE_SEGMENT \in 0 .. W16 - 1
      BY SMT DEF i686_GDT_CODE_SEGMENT, W16
    <3> QED
      BY <1>1, <2>1, <3>1 DEF GateTypes
  <2>3. /\ idt'[descI].SegmentSelector = i686_GDT_CODE_SEGMENT /\ idt'[descI].Flags = 0
        /\ idt'[descI].BaseLow = low /\ descI' = descI
    BY <1>1, <1>7, <2>1 DEF GateTypes, Partly, SetGate, low
  <2>4. Partly(descI)'
    BY <2>1, <2>3 DEF Partly, low
  <2> QED
    BY <1>5, <1>7, <2>1, <2>2, <2>4 DEF NextField
<1>8. CASE ifl = "Reserved"
  <2>1. idt' = [idt EXCEPT ![descI].Reserved = 0] /\ ifl' = "Flags"
    BY <1>8 DEF SetGate, GateField, NextField
  <2>2. idt' \in GateTypes
    BY <1>1, <2>1 DEF GateTypes
  <2>3. /\ idt'[descI].Reserved = 0 /\ idt'[descI].Flags = 0 /\ descI' = descI
        /\ idt'[descI].BaseLow = low /\ idt'[descI].SegmentSelector = i686_GDT_CODE_SEGMENT
    BY <1>1, <1>8, <2>1 DEF GateTypes, Partly, SetGate, low
  <2>4. Partly(descI)'
    BY <2>1, <2>3 DEF Partly, low
  <2> QED
    BY <1>5, <1>8, <2>1, <2>2, <2>4 DEF NextField
<1>9. CASE ifl = "Flags"
  <2>1. idt' = [idt EXCEPT ![descI].Flags = GATE_32BIT_INT] /\ ifl' = "BaseHigh"
    BY <1>9 DEF SetGate, GateField, NextField
  <2>2. idt' \in GateTypes
    BY <1>1, <2>1 DEF GateTypes, GATE_32BIT_INT
  <2>3. /\ idt'[descI].Reserved = 0 /\ idt'[descI].Flags = GATE_32BIT_INT /\ descI' = descI
        /\ idt'[descI].BaseLow = low /\ idt'[descI].SegmentSelector = i686_GDT_CODE_SEGMENT
    BY <1>1, <1>9, <2>1 DEF GateTypes, Partly, SetGate, low
  <2>4. Partly(descI)'
    BY <2>1, <2>3 DEF Partly, low
  <2> QED
    BY <1>5, <1>9, <2>1, <2>2, <2>4 DEF NextField
<1>10. CASE ifl = "BaseHigh"
  <2>1. idt' = [idt EXCEPT ![descI].BaseHigh = high] /\ ifl' = "BaseLow"
    BY <1>10 DEF SetGate, GateField, NextField, high
  <2>2. idt' \in GateTypes
    BY <1>1, <1>2, <2>1 DEF GateTypes
  <2>3. /\ idt'[descI].BaseHigh = high /\ idt'[descI].Reserved = 0
        /\ idt'[descI].Flags = GATE_32BIT_INT
        /\ idt'[descI].BaseLow = low /\ idt'[descI].SegmentSelector = i686_GDT_CODE_SEGMENT
    BY <1>1, <1>10, <2>1 DEF GateTypes, Partly, low
  <2>5. \A v \in Vectors : v <= descI => Made(v)' /\ Off(v)'
    BY <1>1, <1>3, <1>4, <2>3 DEF Made, Off, Vectors, low, high
  <2>6. \A v \in Vectors : v > descI => idt'[v].Flags = 0
    BY <1>1, <1>3, <1>4 DEF Vectors
  <2>7. CASE descI = GATES - 1
    <3>1. descPc' = "enable" /\ descI' = 0
      BY <1>10, <2>7 DEF SetGate, Step
    <3>2. 0 \in Vectors /\ \A v \in Vectors : v <= descI /\ v >= 0
      BY <1>4, <2>7 DEF Vectors
    <3>3. \A v \in Vectors : Made(v)' /\ Off(v)' /\ ~(v < 0) /\ v >= 0
      BY <2>5, <3>2 DEF Vectors
    <3> QED
      BY <2>1, <2>2, <3>1, <3>2, <3>3 DEF GateInv, GateTypes, NextField
  <2>8. CASE descI # GATES - 1
    <3>1. descPc' = "set" /\ descI' = descI + 1 /\ descI' \in Vectors
      BY <1>1, <1>4, <1>10, <2>8 DEF SetGate, Step, Vectors
    <3>2. \A v \in Vectors : v < descI' => Made(v)' /\ Off(v)'
      BY <1>4, <2>5, <3>1 DEF Vectors
    <3>3. \A v \in Vectors : v >= descI' => idt'[v].Flags = 0
      BY <1>4, <2>6, <3>1 DEF Vectors
    <3>4. Partly(descI)'
      BY <1>4, <2>1, <3>1, <3>3 DEF Partly, Vectors
    <3> QED
      BY <1>4, <2>1, <2>2, <3>1, <3>2, <3>3, <3>4 DEF GateInv, GateTypes, NextField, Vectors
  <2> QED
    BY <2>7, <2>8
<1> QED
  BY <1>6, <1>7, <1>8, <1>9, <1>10 DEF GateInv, NextField

LEMMA FlagsAreBytes ==
  GATE_32BIT_INT \in 0 .. 255 /\ PRESENT + GATE_32BIT_INT \in 0 .. 255
  BY DEF GATE_32BIT_INT, PRESENT

LEMMA EnableGateInv == GateInv /\ EnableGate => GateInv'
<1> SUFFICES ASSUME GateInv, EnableGate PROVE GateInv'
  OBVIOUS
<1>1. /\ descPc = "enable" /\ descI \in Vectors /\ idt \in GateTypes
      /\ ifl = "BaseLow" /\ ifl' = ifl
      /\ \A v \in Vectors : Made(v) /\ (v < descI => Raised(v)) /\ (v >= descI => Off(v))
  BY DEF GateInv, EnableGate, GateTypes
<1>2. descI \in 0 .. GATES - 1 /\ GATES \in Nat \ {0} /\ UNUSED \in Vectors
  BY <1>1, DescriptorsAssumption DEF Vectors
<1>3. idt[descI].Flags = GATE_32BIT_INT
  BY <1>1, <1>2 DEF Off
<1>4. idt' = [idt EXCEPT ![descI].Flags = PRESENT + GATE_32BIT_INT]
  BY <1>3, FlagBits DEF EnableGate
<1>5. idt' \in GateTypes
  BY <1>1, <1>4, FlagsAreBytes DEF GateTypes
<1>6. \A v \in Vectors : Made(v)'
  BY <1>1, <1>4 DEF GateTypes, Made
<1>7. \A v \in Vectors : v <= descI => Raised(v)'
  BY <1>1, <1>2, <1>4 DEF GateTypes, Raised, Vectors
<1>8. \A v \in Vectors : v > descI => Off(v)'
  BY <1>1, <1>2, <1>4 DEF GateTypes, Off, Vectors
<1>9. CASE descI = GATES - 1
  <2>1. descPc' = "disable" /\ descI' = UNUSED /\ \A v \in Vectors : v <= descI
    BY <1>2, <1>9 DEF EnableGate, Step, Vectors
  <2> QED
    BY <1>1, <1>2, <1>5, <1>6, <1>7, <2>1 DEF GateInv, GateTypes
<1>10. CASE descI # GATES - 1
  <2>1. descPc' = "enable" /\ descI' = descI + 1 /\ descI' \in Vectors
    BY <1>2, <1>10 DEF EnableGate, Step, Vectors
  <2>2. \A v \in Vectors : (v < descI' => Raised(v)') /\ (v >= descI' => Off(v)')
    BY <1>2, <1>7, <1>8, <2>1 DEF Vectors
  <2> QED
    BY <1>1, <1>5, <1>6, <2>1, <2>2 DEF GateInv, GateTypes
<1> QED
  BY <1>9, <1>10

LEMMA DisableGateInv == GateInv /\ DisableGate => GateInv'
<1> SUFFICES ASSUME GateInv, DisableGate PROVE GateInv'
  OBVIOUS
<1>1. /\ descPc = "disable" /\ descI = UNUSED /\ descI \in Vectors /\ idt \in GateTypes
      /\ ifl = "BaseLow" /\ ifl' = ifl /\ \A v \in Vectors : Made(v) /\ Raised(v)
  BY DEF GateInv, DisableGate, GateTypes
<1>2. idt' = [idt EXCEPT ![UNUSED].Flags = GATE_32BIT_INT]
  BY <1>1, FlagBits DEF DisableGate, Raised
<1>3. idt' \in GateTypes
  BY <1>1, <1>2, FlagsAreBytes DEF GateTypes
<1>4. (\A v \in Vectors : Made(v)') /\ Off(UNUSED)' /\ \A v \in Vectors \ {UNUSED} : Raised(v)'
  BY <1>1, <1>2 DEF GateTypes, Made, Raised, Off
<1>5. /\ descPc' = "register" /\ descI' = PIC_REMAP_OFFSET /\ descI' \in Vectors
      /\ descI' \in PIC_REMAP_OFFSET .. PIC_REMAP_OFFSET + LINES - 1
  BY DescriptorsAssumption DEF DisableGate, Vectors
<1> QED
  BY <1>1, <1>3, <1>4, <1>5 DEF GateInv, GateTypes

LEMMA RegisterHandlerInv == GateInv /\ RegisterHandler => GateInv'
<1> SUFFICES ASSUME GateInv, RegisterHandler PROVE GateInv'
  OBVIOUS
<1>1. /\ descPc = "register" /\ descI \in Vectors /\ idt \in GateTypes
      /\ descI \in PIC_REMAP_OFFSET .. PIC_REMAP_OFFSET + LINES - 1
      /\ ifl = "BaseLow" /\ ifl' = ifl
      /\ (\A v \in Vectors : Made(v)) /\ Off(UNUSED) /\ \A v \in Vectors \ {UNUSED} : Raised(v)
  BY DEF GateInv, RegisterHandler, GateTypes
<1>2. descI # UNUSED
  BY <1>1, DescriptorsAssumption
<1>3. idt' = [idt EXCEPT ![descI].Flags = PRESENT + GATE_32BIT_INT]
  BY <1>1, <1>2, FlagBits DEF RegisterHandler, Raised
<1>4. idt' \in GateTypes
  BY <1>1, <1>3, FlagsAreBytes DEF GateTypes
<1>5. (\A v \in Vectors : Made(v)') /\ Off(UNUSED)' /\ \A v \in Vectors \ {UNUSED} : Raised(v)'
  BY <1>1, <1>2, <1>3, DescriptorsAssumption DEF GateTypes, Made, Raised, Off
<1>6. CASE descI = PIC_REMAP_OFFSET + LINES - 1
  <2>1. descPc' = "end" /\ descI' \in Vectors
    BY <1>6, DescriptorsAssumption DEF RegisterHandler, Step, Vectors
  <2> QED
    BY <1>1, <1>4, <1>5, <2>1 DEF GateInv, GateTypes
<1>7. CASE descI # PIC_REMAP_OFFSET + LINES - 1
  <2>1. /\ descPc' = "register" /\ descI' \in Vectors
        /\ descI' \in PIC_REMAP_OFFSET .. PIC_REMAP_OFFSET + LINES - 1
    BY <1>1, <1>7, DescriptorsAssumption DEF RegisterHandler, Step, Vectors
  <2> QED
    BY <1>1, <1>4, <1>5, <2>1 DEF GateInv, GateTypes
<1> QED
  BY <1>6, <1>7

LEMMA GateStep == GateInv /\ [DescNext]_descVars => GateInv'
<1> SUFFICES ASSUME GateInv, [DescNext]_descVars PROVE GateInv'
  OBVIOUS
<1>1. CASE Lgdt \/ ReloadCode \/ ReloadData \/ Lidt
  BY <1>1 DEF Lgdt, ReloadCode, ReloadData, Lidt, GateInv, Made, Off, Partly
<1>2. CASE UNCHANGED descVars
  BY <1>2 DEF descVars, GateInv, Made, Raised, Off, Partly
<1> QED
  BY <1>1, <1>2, SetGateInv, EnableGateInv, DisableGateInv, RegisterHandlerInv DEF DescNext

\* The inductive invariant holds in every state of HAL_Initialize.
THEOREM DescInvHolds == DescSpec => []DescInv
<1>1. DescInit => DescInv
  BY InitDescInv
<1>2. DescInv /\ [DescNext]_descVars => DescInv'
  BY SegStep, GateStep DEF DescInv
<1> QED
  BY <1>1, <1>2, PTL DEF DescSpec

\* Every field of a descriptor keeps its width (gdt.c, idt.c).
THEOREM DescriptorsAreTyped == DescSpec => []DescriptorsTypeOK
<1>1. DescInv => DescriptorsTypeOK
  BY DEF DescInv, SegInv, GateInv, DescriptorsTypeOK
<1> QED
  BY <1>1, DescInvHolds, PTL

\* For every number of gates and wherever the routines lie, a gate the processor finds
\* present is whole and its own vector's, at every moment (idt.c:28-42, isr.c:47-53).
THEOREM GatesAreWhole == DescSpec => []NeverHalfGate
<1>1. DescInv => NeverHalfGate
  <2> SUFFICES ASSUME DescInv, NEW v \in Vectors, Present(v)
      PROVE  /\ Target(v) = Isr[v]
             /\ idt[v].Flags = PRESENT + GATE_32BIT_INT /\ idt[v].Reserved = 0
             /\ Flat(Entry(gdt, idt[v].SegmentSelector), GDT_CODE)
    BY DEF NeverHalfGate
  <2>1. idt[v].Flags \notin {0, GATE_32BIT_INT}
    BY FlagBits DEF Present
  <2>2. Made(v) /\ Raised(v)
    <3>1. descI \in Vectors /\ Vectors \subseteq Int
      BY DEF DescInv, GateInv, Vectors
    <3>2. descPc \notin {"lgdt", "retf", "segments", "lidt"}
      BY DEF DescInv, SegInv, Present
    <3>3. CASE descPc = "set"
      BY <2>1, <3>1, <3>3 DEF DescInv, GateInv, Off, Partly
    <3>4. CASE descPc # "set"
      BY <2>1, <3>1, <3>2, <3>4 DEF DescInv, GateInv, Off
    <3> QED
      BY <3>3, <3>4
  <2>3. Target(v) = Isr[v]
    BY <2>2, HalvesMakeWord, DescriptorsAssumption DEF Made, Target
  <2>4. Flat(Entry(gdt, idt[v].SegmentSelector), GDT_CODE)
    BY <2>2, FlatEntries DEF DescInv, SegInv, Made
  <2> QED
    BY <2>2, <2>3, <2>4 DEF Made, Raised
<1> QED
  BY <1>1, DescInvHolds, PTL

\* The kernel never runs in a segment that is not flat (gdt.asm:5-34).
THEOREM SegmentsAreFlat == DescSpec => []FlatSegments
<1>1. DescInv => FlatSegments
  BY FlatEntries DEF DescInv, SegInv, FlatSegments
<1> QED
  BY <1>1, DescInvHolds, PTL

\* All vectors but one have a gate when HAL_Initialize ends (isr.c:47-53, irq.c:97-100).
THEOREM GatesComplete == DescSpec => []AllGatesButOne
<1>1. DescInv => AllGatesButOne
  <2> SUFFICES ASSUME DescInv, descPc = "end", NEW v \in Vectors PROVE Present(v) <=> v # UNUSED
    BY DEF AllGatesButOne
  <2>1. loaded /\ Off(UNUSED) /\ (v # UNUSED => Raised(v))
    BY DEF DescInv, SegInv, GateInv
  <2> QED
    BY <2>1, FlagBits DEF Present, Raised, Off
<1> QED
  BY <1>1, DescInvHolds, PTL

\* What a run checks of the tables on 256 gates, for every number of them: typed, gates
\* whole, segments flat, and complete in the end (gdt.asm, idt.c, isr.c, irq.c).
THEOREM TablesAreSound == DescSpec => []TablesSound
<1>1. DescriptorsTypeOK /\ NeverHalfGate /\ FlatSegments /\ AllGatesButOne => TablesSound
  BY DEF TablesSound
<1> QED
  BY <1>1, DescriptorsAreTyped, GatesAreWhole, SegmentsAreFlat, GatesComplete, PTL

-----------------------------------------------------------------------------
(***************************************************************************)
(* The boot disk: its geometry, the way of a sector number through the     *)
(* registers of the BIOS, and the tries of a call.                         *)
(***************************************************************************)
\* The geometry, and the sizes of the fields of the registers of int 13h.
LEMMA Sizes ==
  /\ BYTE \in Nat \ {0} /\ SIX \in Nat \ {0} /\ BYTE \div SIX \in Nat \ {0}
  /\ Geometry.cylinders \in Nat \ {0} /\ Geometry.heads \in Nat \ {0}
  /\ Geometry.sectors \in Nat \ {0}
  /\ Geometry.cylinders <= BYTE * (BYTE \div SIX)
  /\ Geometry.heads <= BYTE /\ Geometry.sectors < SIX
<1>1. /\ BYTE \in Nat \ {0} /\ SIX \in Nat \ {0} /\ BYTE % SIX = 0
      /\ Geometry.cylinders \in Nat \ {0} /\ Geometry.heads \in Nat \ {0}
      /\ Geometry.sectors \in Nat \ {0}
      /\ Geometry.cylinders <= BYTE * (BYTE \div SIX)
      /\ Geometry.heads <= BYTE /\ Geometry.sectors < SIX
  BY Int13Assumption
<1>2. BYTE = (BYTE \div SIX) * SIX + (BYTE % SIX) /\ BYTE \div SIX \in Nat
  <2>1. SIX \in Nat \ {0} /\ BYTE \in Nat
    BY Int13Assumption
  <2> QED
    BY <2>1, QuotientRemainder
<1>3. BYTE \div SIX # 0
  BY <1>1, <1>2
<1> QED
  BY <1>1, <1>2, <1>3

\* A cylinder of ten bits in the two registers it is split over, with the sector.
LEMMA PackedCylinder ==
  ASSUME NEW c \in Nat, c < BYTE * (BYTE \div SIX), NEW s \in 0 .. SIX - 1
  PROVE  LET cl == (c \div BYTE) * SIX + s
         IN /\ (c \div BYTE) % (BYTE \div SIX) = c \div BYTE
            /\ (c % BYTE) + BYTE * (cl \div SIX) = c
            /\ cl % SIX = s
<1> DEFINE up == c \div BYTE
           low == c % BYTE
<1>1. c = up * BYTE + low /\ up \in Nat /\ low \in 0 .. BYTE - 1
  BY Sizes, QuotientRemainder
<1>2. up < BYTE \div SIX
  <2>1. c < (BYTE \div SIX) * BYTE
    BY Sizes
  <2> QED
    BY <2>1, Sizes, QuotientBelow
<1>3. (up * SIX + s) \div SIX = up /\ (up * SIX + s) % SIX = s
  BY <1>1, Sizes, QuotientOf
<1> HIDE DEF up, low
<1>4. up % (BYTE \div SIX) = up
  <2> DEFINE Q == BYTE \div SIX
  <2>1. Q \in Nat \ {0}
    BY Sizes
  <2>2. up < Q
    BY <1>2
  <2> HIDE DEF Q
  <2>3. up = 0 * Q + up /\ up \in 0 .. Q - 1
    BY <1>1, <2>1, <2>2
  <2>4. up % Q = up
    BY <2>1, <2>3, QuotientOf
  <2> QED
    BY <2>4 DEF Q
<1>5. low + BYTE * up = c
  BY <1>1, Sizes
<1> QED
  BY <1>3, <1>4, <1>5 DEF up, low

\* The driver finds the drive's geometry in the registers of function 08h.
LEMMA GeometryUnpacked ==
  /\ Unpack(DriveParams).cylinders = Geometry.cylinders
  /\ Unpack(DriveParams).heads = Geometry.heads
  /\ Unpack(DriveParams).sectors = Geometry.sectors
<1> DEFINE last == Geometry.cylinders - 1
<1>1. last \in Nat /\ last < BYTE * (BYTE \div SIX) /\ Geometry.sectors \in 0 .. SIX - 1
  BY Sizes
<1>2. /\ (last % BYTE) + BYTE * (((last \div BYTE) * SIX + Geometry.sectors) \div SIX) = last
      /\ ((last \div BYTE) * SIX + Geometry.sectors) % SIX = Geometry.sectors
  BY <1>1, PackedCylinder
<1> QED
  BY <1>1, <1>2, Sizes DEF Unpack, DriveParams

HasGeometry(d) ==
  /\ d.cylinders = Geometry.cylinders /\ d.heads = Geometry.heads
  /\ d.sectors = Geometry.sectors

\* A sector number is its cylinder, head and sector, and inside of the drive exactly
\* if its cylinder is.
LEMMA SectorParts ==
  ASSUME NEW lba \in Nat
  PROVE  LET S == Geometry.sectors
             H == Geometry.heads
             c == (lba \div S) \div H
             h == (lba \div S) % H
         IN /\ c \in Nat /\ h \in 0 .. H - 1 /\ (lba % S) \in 0 .. S - 1
            /\ (c * H + h) * S + (lba % S) = lba
            /\ \A m \in Nat : c < m <=> lba < m * H * S
<1> DEFINE S == Geometry.sectors
           H == Geometry.heads
           track == lba \div S
           c == track \div H
           h == track % H
<1>1. S \in Nat \ {0} /\ H \in Nat \ {0}
  BY Sizes
<1>2. lba = track * S + (lba % S) /\ track \in Nat /\ (lba % S) \in 0 .. S - 1
  <2> HIDE DEF S
  <2> QED
    BY <1>1, QuotientRemainder
<1>3. track = c * H + h /\ c \in Nat /\ h \in 0 .. H - 1
  <2> HIDE DEF track, H
  <2> QED
    BY <1>1, <1>2, QuotientRemainder
<1>4. ASSUME NEW m \in Nat PROVE c < m <=> lba < m * H * S
  <2>1. c < m <=> track < m * H
    <3> HIDE DEF track, H
    <3> QED
      BY <1>1, <1>2, QuotientBelow
  <2>2. track < m * H <=> lba < (m * H) * S
    <3>1. m * H \in Nat
      BY <1>1
    <3> HIDE DEF H, S
    <3> QED
      BY <1>1, <3>1, QuotientBelow DEF track
  <2> QED
    BY <2>1, <2>2
<1> QED
  BY <1>2, <1>3, <1>4

\* The sector that the BIOS is asked for is the one the number names, unless that is
\* beyond the drive: the way through the registers loses nothing.
LEMMA SectorAsked ==
  ASSUME NEW d, HasGeometry(d), NEW lba \in Nat,
         lba < BYTE * (BYTE \div SIX) * Geometry.heads * Geometry.sectors
  PROVE  SectorAt(Pack(DISK_LBA2CHS(d, lba))) = IF lba < Capacity THEN lba ELSE Nowhere
<1> DEFINE S == Geometry.sectors
           H == Geometry.heads
           c == (lba \div S) \div H
           h == (lba \div S) % H
           s == (lba % S) + 1
           cl == (c \div BYTE) * SIX + s
           r == Pack(DISK_LBA2CHS(d, lba))
<1>1. /\ c \in Nat /\ h \in 0 .. H - 1 /\ (lba % S) \in 0 .. S - 1
      /\ (c * H + h) * S + (lba % S) = lba
      /\ \A m \in Nat : c < m <=> lba < m * H * S
  BY SectorParts
<1>2. c < BYTE * (BYTE \div SIX) /\ (c < Geometry.cylinders <=> lba < Capacity)
  <2>1. BYTE * (BYTE \div SIX) \in Nat /\ Geometry.cylinders \in Nat
    BY Sizes
  <2> HIDE DEF c, S, H
  <2>2. c < BYTE * (BYTE \div SIX) <=> lba < BYTE * (BYTE \div SIX) * H * S
    BY <1>1, <2>1
  <2>3. c < Geometry.cylinders <=> lba < Geometry.cylinders * H * S
    BY <1>1, <2>1
  <2> QED
    BY <2>2, <2>3 DEF H, S, Capacity
<1>3. s \in 1 .. S /\ s \in 0 .. SIX - 1
  BY <1>1, Sizes
<1> HIDE DEF c
<1>4. /\ (c \div BYTE) % (BYTE \div SIX) = c \div BYTE
      /\ (c % BYTE) + BYTE * (cl \div SIX) = c /\ cl % SIX = s
  <2> HIDE DEF s
  <2> QED
    BY <1>1, <1>2, <1>3, PackedCylinder
<1>5. s % SIX = s /\ h % BYTE = h
  <2>1. SIX \in Nat \ {0} /\ BYTE \in Nat \ {0} /\ h \in 0 .. BYTE - 1
    BY <1>1, Sizes
  <2> HIDE DEF s, h
  <2>2. s = 0 * SIX + s /\ h = 0 * BYTE + h
    BY <1>3, <2>1
  <2> QED
    BY <1>3, <2>1, <2>2, QuotientOf
<1>6. r.ch = c % BYTE /\ r.cl = cl /\ r.dh = h
  <2>1. DISK_LBA2CHS(d, lba) = [sector |-> s, cylinder |-> c, head |-> h]
    BY DEF DISK_LBA2CHS, HasGeometry, c
  <2> HIDE DEF s, h
  <2> QED
    BY <2>1, <1>4, <1>5 DEF Pack
<1> HIDE DEF r, cl, s, h, S
<1>7. SectorAt(r) = IF c < Geometry.cylinders /\ h < Geometry.heads /\ s \in 1 .. Geometry.sectors
                    THEN (c * Geometry.heads + h) * Geometry.sectors + s - 1 ELSE Nowhere
  BY <1>4, <1>6 DEF SectorAt
<1>8. h < Geometry.heads /\ s \in 1 .. Geometry.sectors
  BY <1>1, <1>3, Sizes DEF S
<1>9. (c * Geometry.heads + h) * Geometry.sectors + s - 1 = lba
  <2> DEFINE track == (c * Geometry.heads + h) * Geometry.sectors
  <2>1. track + (lba % S) = lba /\ (lba % S) \in Nat /\ s = (lba % S) + 1
    BY <1>1, Sizes DEF s, S, H
  <2>2. c * Geometry.heads + h \in Nat
    BY <1>1, Sizes
  <2>3. track \in Nat
    BY <2>2, Sizes
  <2> HIDE DEF track
  <2>4. track + s - 1 = lba
    BY <2>1, <2>3
  <2> QED
    BY <2>4 DEF track
<1> QED
  BY <1>2, <1>7, <1>8, <1>9 DEF r
-----------------------------------------------------------------------------
Ready == biosPc \in {"idle", "read", "reset"}
Calling == biosPc \in {"read", "reset"}

\* The tries of a call that are over or already spoilt: the one in hand is once its read
\* has failed, or before, if the reset that led to it has.
SpoiltTries ==
  IF biosPc = "reset" \/ (try > 0 /\ ~biosReady) THEN try + 1 ELSE try

\* During a call: which of its tries this is, and how many have been spoilt.  In a read
\* inside of the drive these are all but the first, if the controller was unfit before.
Counting ==
  /\ req \in Reads /\ biosResult = Pending
  /\ try \in 0 .. DISK_TRIES - 1 /\ biosFaults \in Nat
  /\ biosFaults <= SpoiltTries
  /\ req.lba + req.n <= Capacity => biosFaults >= SpoiltTries - 1

DiskInv ==
  /\ BiosTypeOK
  /\ Ready => HasGeometry(disk)
  /\ Calling => Counting
  /\ EveryTryCounts

LEMMA InitDiskInv == BiosInit => DiskInv
<1> SUFFICES ASSUME BiosInit PROVE DiskInv
  OBVIOUS
<1> QED
  BY BiosDiskAssumption, ResultAssumption
  DEF BiosInit, DiskInv, BiosTypeOK, Ready, Calling, EveryTryCounts

\* A read of the drive reads where the number says.
LEMMA ReadsAsked ==
  ASSUME DiskInv, biosPc = "read"
  PROVE  LET lba == SectorAt(Pack(DISK_LBA2CHS(disk, req.lba)))
         IN /\ Readable(lba, req.n) => lba = req.lba
            /\ Readable(lba, req.n) <=> req.lba + req.n <= Capacity
<1> DEFINE lba == SectorAt(Pack(DISK_LBA2CHS(disk, req.lba)))
<1>1. /\ HasGeometry(disk) /\ req \in Reads
  BY DEF DiskInv, Ready, Calling, Counting
<1>2. /\ req.lba \in 0 .. BYTE * (BYTE \div SIX) * Geometry.heads * Geometry.sectors - 1
      /\ req.n \in 1 .. BYTE - 1
  BY <1>1, BiosDiskAssumption
<1>3. BYTE * (BYTE \div SIX) * Geometry.heads * Geometry.sectors \in Nat /\ Capacity \in Nat
  BY Sizes DEF Capacity
<1>4. lba = IF req.lba < Capacity THEN req.lba ELSE Nowhere
  BY <1>1, <1>2, <1>3, SectorAsked
<1> HIDE DEF lba
<1> QED
  BY <1>2, <1>3, <1>4, Sizes DEF Readable, Nowhere, lba

LEMMA DiskStep == DiskInv /\ [BiosNext]_biosVars => DiskInv'
<1> SUFFICES ASSUME DiskInv, [BiosNext]_biosVars PROVE DiskInv'
  OBVIOUS
<1> USE DEF DiskInv, BiosTypeOK, Ready, Calling
<1>1. CASE DISK_Initialize
  <2> USE <1>1 DEF DISK_Initialize
  <2>1. CASE disk' = Unpack(DriveParams) /\ biosPc' = "idle"
    <3>1. HasGeometry(disk')
      BY <2>1, GeometryUnpacked DEF HasGeometry
    <3>2. {disk'.cylinders, disk'.heads, disk'.sectors} \subseteq Nat
      BY <3>1, Sizes DEF HasGeometry
    <3> QED
      BY <2>1, <3>1, <3>2 DEF EveryTryCounts
  <2>2. CASE biosPc' = "end" /\ UNCHANGED disk
    BY <2>2 DEF EveryTryCounts
  <2> QED
    BY <2>1, <2>2
<1>2. CASE DISK_ReadSectors
  <2>1. PICK r \in Reads : req' = r
    BY <1>2 DEF DISK_ReadSectors
  <2>2. /\ biosPc = "idle" /\ biosPc' = "read" /\ try' = 0 /\ biosFaults' = 0
        /\ biosResult' = Pending /\ UNCHANGED <<disk, biosReady>>
    BY <1>2 DEF DISK_ReadSectors
  <2>3. Counting'
    BY <2>1, <2>2, BiosDiskAssumption DEF Counting, SpoiltTries
  <2>4. EveryTryCounts'
    BY <2>2, ResultAssumption DEF EveryTryCounts
  <2> QED
    BY <2>1, <2>2, <2>3, <2>4, BiosDiskAssumption DEF HasGeometry
<1>3. CASE BiosRead
  <2> DEFINE lba == SectorAt(Pack(DISK_LBA2CHS(disk, req.lba)))
  <2>1. biosPc = "read" /\ UNCHANGED <<disk, req, try>> /\ Counting
    BY <1>3 DEF BiosRead
  <2>2. /\ Readable(lba, req.n) <=> req.lba + req.n <= Capacity
        /\ Readable(lba, req.n) => lba = req.lba
    BY <2>1, ReadsAsked
  <2>3. \/ /\ Readable(lba, req.n) /\ biosResult' = Extent(lba, req.n) /\ biosPc' = "idle"
           /\ UNCHANGED <<biosReady, biosFaults>>
        \/ /\ biosReady /\ biosFaults' = biosFaults + 1 /\ biosReady' \in BOOLEAN
           /\ biosPc' = "reset" /\ UNCHANGED biosResult
        \/ /\ ~biosReady \/ ~Readable(lba, req.n)
           /\ biosPc' = "reset" /\ UNCHANGED <<biosResult, biosReady, biosFaults>>
    BY <1>3 DEF BiosRead
  <2> HIDE DEF lba
  <2>4. HasGeometry(disk)'
    BY <2>1 DEF HasGeometry
  <2>5. DISK_TRIES \in Nat \ {0}
    BY BiosDiskAssumption
  <2>6. CASE /\ Readable(lba, req.n) /\ biosResult' = Extent(lba, req.n) /\ biosPc' = "idle"
             /\ UNCHANGED <<biosReady, biosFaults>>
    <3>1. biosResult' # Error
      BY <2>1, <2>2, <2>6, ResultAssumption DEF Counting
    <3> QED
      BY <2>1, <2>4, <2>5, <2>6, <3>1 DEF EveryTryCounts, Counting, SpoiltTries
  <2>7. CASE /\ biosReady /\ biosFaults' = biosFaults + 1 /\ biosReady' \in BOOLEAN
             /\ biosPc' = "reset" /\ UNCHANGED biosResult
    <3>1. Counting'
      BY <2>1, <2>5, <2>7 DEF Counting, SpoiltTries
    <3>2. EveryTryCounts'
      BY <2>1, <2>7, ResultAssumption DEF EveryTryCounts, Counting
    <3> QED
      BY <2>1, <2>4, <2>5, <2>7, <3>1, <3>2 DEF Counting, SpoiltTries
  <2>8. CASE /\ ~biosReady \/ ~Readable(lba, req.n)
             /\ biosPc' = "reset" /\ UNCHANGED <<biosResult, biosReady, biosFaults>>
    <3>1. Counting'
      BY <2>1, <2>2, <2>5, <2>8 DEF Counting, SpoiltTries
    <3>2. EveryTryCounts'
      BY <2>1, <2>8, ResultAssumption DEF EveryTryCounts, Counting
    <3> QED
      BY <2>1, <2>4, <2>5, <2>8, <3>1, <3>2 DEF Counting, SpoiltTries
  <2> QED
    BY <2>3, <2>6, <2>7, <2>8
<1>4. CASE BiosReset
  <2>1. /\ biosPc = "reset" /\ UNCHANGED <<disk, req>> /\ Counting
        /\ biosReady' \in BOOLEAN /\ try' = try + 1
        /\ biosFaults' = biosFaults + IF biosReady' \/ try' = DISK_TRIES THEN 0 ELSE 1
    BY <1>4 DEF BiosReset, Spoilt
  <2>2. HasGeometry(disk)'
    BY <2>1 DEF HasGeometry
  <2>3. DISK_TRIES \in Nat \ {0}
    BY BiosDiskAssumption
  <2>4. CASE try' = DISK_TRIES
    <3>1. biosPc' = "idle"
      BY <1>4, <2>4 DEF BiosReset
    <3>2. biosFaults' = biosFaults
      BY <2>1, <2>4 DEF Counting
    <3>3. EveryTryCounts'
      BY <2>1, <2>3, <2>4, <3>2 DEF EveryTryCounts, Counting, SpoiltTries
    <3> QED
      BY <2>1, <2>2, <2>3, <2>4, <3>1, <3>2, <3>3 DEF Counting, SpoiltTries
  <2>5. CASE try' # DISK_TRIES
    <3>1. biosPc' = "read" /\ UNCHANGED biosResult
      BY <1>4, <2>5 DEF BiosReset
    <3>2. Counting'
      BY <2>1, <2>3, <2>5, <3>1 DEF Counting, SpoiltTries
    <3>3. EveryTryCounts'
      BY <3>1, <2>1, ResultAssumption DEF EveryTryCounts, Counting
    <3> QED
      BY <2>1, <2>2, <2>3, <2>5, <3>1, <3>2, <3>3 DEF Counting, SpoiltTries
  <2> QED
    BY <2>4, <2>5
<1>5. CASE UNCHANGED biosVars
  BY <1>5 DEF biosVars, HasGeometry, Counting, SpoiltTries, EveryTryCounts
<1> QED
  BY <1>1, <1>2, <1>3, <1>4, <1>5 DEF BiosNext

\* Each step of the driver is one of the service, or does not show: a try that failed
\* leaves what the caller sees as it was.
LEMMA DiskServes ==
  DiskInv /\ [BiosNext]_biosVars =>
    [Service!Call \/ Service!Return]_<<IF Calling THEN req ELSE Nothing, biosResult>>
<1> SUFFICES ASSUME DiskInv, [BiosNext]_biosVars
    PROVE  [Service!Call \/ Service!Return]_<<IF Calling THEN req ELSE Nothing, biosResult>>
  OBVIOUS
<1>1. CASE DISK_Initialize
  BY <1>1 DEF DISK_Initialize, Calling
<1>2. CASE DISK_ReadSectors
  <2>1. Service!Call
    BY <1>2 DEF DISK_ReadSectors, Service!Call
  <2> QED
    BY <2>1
<1>3. CASE BiosRead
  <2> DEFINE lba == SectorAt(Pack(DISK_LBA2CHS(disk, req.lba)))
  <2>1. biosPc = "read" /\ UNCHANGED req /\ Counting
    BY <1>3 DEF BiosRead, DiskInv, Calling
  <2>2. Readable(lba, req.n) => lba = req.lba
    BY <2>1, ReadsAsked
  <2>3. CASE biosPc' = "idle"
    <3>1. biosResult' = Extent(lba, req.n) /\ Readable(lba, req.n)
      BY <1>3, <2>3 DEF BiosRead
    <3>2. biosResult' = Extent(req.lba, req.n)
      BY <2>2, <3>1
    <3>3. req # Nothing
      BY <2>1, ResultAssumption DEF Counting
    <3>4. Service!Return
      BY <2>1, <2>3, <3>2, <3>3 DEF Service!Return
    <3> QED
      BY <3>4
  <2>4. CASE biosPc' # "idle"
    BY <1>3, <2>1, <2>4 DEF BiosRead, Calling
  <2> QED
    BY <2>3, <2>4
<1>4. CASE BiosReset
  <2>1. biosPc = "reset" /\ UNCHANGED req /\ Counting
    BY <1>4 DEF BiosReset, DiskInv, Calling
  <2>2. req # Nothing
    BY <2>1, ResultAssumption DEF Counting
  <2>3. CASE try' = DISK_TRIES
    <3>1. biosResult' = Error /\ biosPc' = "idle"
      BY <1>4, <2>3 DEF BiosReset
    <3>2. Service!Return
      BY <2>1, <2>2, <3>1 DEF Service!Return
    <3> QED
      BY <3>2
  <2>4. CASE try' # DISK_TRIES
    BY <1>4, <2>1, <2>4 DEF BiosReset, Calling
  <2> QED
    BY <2>3, <2>4
<1>5. CASE UNCHANGED biosVars
  BY <1>5 DEF biosVars, Calling
<1> QED
  BY <1>1, <1>2, <1>3, <1>4, <1>5 DEF BiosNext
-----------------------------------------------------------------------------
(***************************************************************************)
(* Stage 1: the extents of stage 2, one behind the other.                  *)
(***************************************************************************)
LEMMA Extents ==
  /\ STAGE1_TRIES \in Nat \ {0} /\ STAGE1_WORD \in Nat \ {0}
  /\ Len(stage2_location) \in Nat /\ DOMAIN stage2_location = 1 .. Len(stage2_location)
  /\ \A m \in DOMAIN stage2_location :
       /\ stage2_location[m].lba \in Nat /\ stage2_location[m].lba < STAGE1_WORD
       /\ stage2_location[m].n \in Nat \ {0}
       /\ stage2_location[m].lba + stage2_location[m].n <= Capacity
  /\ Bdb.heads = Geometry.heads /\ Bdb.sectors = Geometry.sectors
<1>1. stage2_location \in Seq([lba : Nat, n : Nat])
  BY Stage1Assumption
<1>2. Len(stage2_location) \in Nat /\ DOMAIN stage2_location = 1 .. Len(stage2_location)
  BY <1>1
<1>3. STAGE1_TRIES \in Nat \ {0} /\ STAGE1_WORD \in Nat \ {0}
  BY Stage1Assumption
<1>4. BYTE \in Nat
  BY Sizes
<1> QED
  BY <1>2, <1>3, <1>4, Stage1Assumption

\* The sums of the sizes exist: they iterate the addition of the next size.
SizeAt(m) == IF m \in DOMAIN stage2_location THEN stage2_location[m].n ELSE 0

LEMMA SectorsSum ==
  /\ Sectors \in [Nat -> Nat] /\ Sectors[0] = 0
  /\ \A m \in Nat : Sectors[m + 1] = Sectors[m] + SizeAt(m + 1)
<1>1. \A m \in Nat : SizeAt(m) \in Nat
  BY Extents DEF SizeAt
<1> DEFINE step == [x \in Nat \X Nat |-> x[2] + SizeAt(x[1] + 1)]
<1>2. step \in Steps(Nat)
  BY <1>1 DEF Steps
<1>3. \A a, b \in Nat : step[<<a, b>>] = b + SizeAt(a + 1)
  OBVIOUS
<1> HIDE DEF step
<1>4. PICK g : Iterates(g, Nat, step, 0)
  BY <1>2, Iterated
<1>5. g \in [Nat -> Nat] /\ g[0] = 0 /\ \A m \in Nat : g[m + 1] = g[m] + SizeAt(m + 1)
  BY <1>3, <1>4 DEF Iterates
<1>6. g = [m \in Nat |-> IF m = 0 THEN 0 ELSE g[m - 1] + SizeAt(m)]
  <2>1. \A m \in Nat : g[m] = IF m = 0 THEN 0 ELSE g[m - 1] + SizeAt(m)
    <3> SUFFICES ASSUME NEW m \in Nat PROVE g[m] = IF m = 0 THEN 0 ELSE g[m - 1] + SizeAt(m)
      OBVIOUS
    <3>1. CASE m = 0
      BY <1>5, <3>1
    <3>2. CASE m # 0
      <4>1. m - 1 \in Nat /\ (m - 1) + 1 = m
        BY <3>2
      <4> QED
        BY <1>5, <3>2, <4>1
    <3> QED
      BY <3>1, <3>2
  <2> QED
    BY <1>5, <2>1
<1> DEFINE Sums(f) == f = [m \in Nat |-> IF m = 0 THEN 0 ELSE f[m - 1] + SizeAt(m)]
<1>7. Sums(CHOOSE f : Sums(f))
  <2>1. Sums(g)
    BY <1>6
  <2> HIDE DEF Sums
  <2> QED
    BY <2>1
<1>8. Sectors = CHOOSE f : Sums(f)
  BY DEF Sectors, SizeAt
<1> DEFINE f == CHOOSE h : Sums(h)
<1>9. f = [m \in Nat |-> IF m = 0 THEN 0 ELSE f[m - 1] + SizeAt(m)]
  BY <1>7
<1> HIDE DEF f
<1>10. \A m \in Nat : f[m] = IF m = 0 THEN 0 ELSE f[m - 1] + SizeAt(m)
  BY <1>9
<1> DEFINE S == {m \in Nat : f[m] \in Nat}
<1>11. Nat \subseteq S
  <2>1. 0 \in S
    BY <1>10
  <2>2. ASSUME NEW m \in Nat, m \in S PROVE m + 1 \in S
    <3>1. f[m + 1] = f[m] + SizeAt(m + 1)
      BY <1>10
    <3> QED
      BY <1>1, <2>2, <3>1
  <2> HIDE DEF S
  <2> QED
    BY <2>1, <2>2, Induct
<1>12. f \in [Nat -> Nat]
  BY <1>9, <1>11
<1>13. f[0] = 0 /\ \A m \in Nat : f[m + 1] = f[m] + SizeAt(m + 1)
  BY <1>10
<1> QED
  BY <1>8, <1>12, <1>13 DEF f

\* They grow.
LEMMA SectorsGrow ==
  ASSUME NEW m \in Nat, NEW n \in Nat, m <= n
  PROVE  Sectors[m] <= Sectors[n]
<1> DEFINE S == {k \in Nat : m <= k => Sectors[m] <= Sectors[k]}
<1>1. 0 \in S
  BY SectorsSum
<1>2. ASSUME NEW k \in Nat, k \in S PROVE k + 1 \in S
  <2>1. Sectors[k + 1] = Sectors[k] + SizeAt(k + 1) /\ SizeAt(k + 1) \in Nat
    BY SectorsSum, Extents DEF SizeAt
  <2>2. CASE m <= k
    BY <1>2, <2>1, <2>2, SectorsSum
  <2>3. CASE m = k + 1
    BY <2>3, SectorsSum
  <2>4. CASE m > k + 1
    BY <2>4
  <2> QED
    BY <2>2, <2>3, <2>4
<1> HIDE DEF S
<1>3. Nat \subseteq S
  BY <1>1, <1>2, Induct
<1> QED
  BY <1>3 DEF S

\* The register form of a sector number leads the BIOS back to it.
LEMMA SectorLoaded ==
  ASSUME NEW lba \in Nat, lba < STAGE1_WORD, lba < Capacity
  PROVE  SectorAt(lba_to_chs(lba)) = lba
<1> DEFINE full == BYTE * (BYTE \div SIX) * Geometry.heads * Geometry.sectors
<1>1. lba < full
  <2>1. Geometry.cylinders <= BYTE * (BYTE \div SIX) /\ BYTE * (BYTE \div SIX) \in Nat
    BY Sizes
  <2> DEFINE most == BYTE * (BYTE \div SIX)
             all == Geometry.cylinders
  <2>2. /\ most \in Nat /\ all \in Nat /\ all <= most
        /\ Geometry.heads \in Nat /\ Geometry.sectors \in Nat
    BY <2>1, Sizes
  <2> HIDE DEF most, all
  <2>3. all * Geometry.heads <= most * Geometry.heads
    BY <2>2
  <2>4. (all * Geometry.heads) * Geometry.sectors <= (most * Geometry.heads) * Geometry.sectors
    <3>1. all * Geometry.heads \in Nat /\ most * Geometry.heads \in Nat
      BY <2>2
    <3> QED
      BY <2>2, <2>3, <3>1
  <2>5. Capacity \in Nat /\ Capacity <= full /\ full \in Nat
    BY <2>2, <2>4 DEF Capacity, most, all
  <2> QED
    BY <2>5
<1> DEFINE r == lba_to_chs(lba)
           q == Pack(DISK_LBA2CHS(Geometry, lba))
<1>2. SectorAt(q) = lba
  BY <1>1, SectorAsked DEF HasGeometry
<1>3. r.ch = q.ch /\ r.cl = q.cl /\ r.dh = q.dh
  <2>1. lba % STAGE1_WORD = lba
    <3>1. lba = 0 * STAGE1_WORD + lba /\ lba \in 0 .. STAGE1_WORD - 1 /\ STAGE1_WORD \in Nat \ {0}
      BY Extents
    <3> QED
      BY <3>1, QuotientOf
  <2> DEFINE track == lba \div Geometry.sectors
             c == track \div Geometry.heads
             h == track % Geometry.heads
             s == (lba % Geometry.sectors) + 1
             high == (c \div BYTE) % (BYTE \div SIX)
  <2>2. r = [ch |-> c % BYTE, cl |-> s + high * SIX, dh |-> h % BYTE]
    BY <2>1, Extents DEF lba_to_chs
  <2>3. q = [ch |-> c % BYTE, cl |-> high * SIX + (s % SIX), dh |-> h % BYTE]
    BY DEF Pack, DISK_LBA2CHS
  <2>4. s % SIX = s /\ s \in Nat
    <3>1. (lba % Geometry.sectors) \in 0 .. Geometry.sectors - 1
      BY Sizes, QuotientRemainder
    <3>2. s = 0 * SIX + s /\ s \in 0 .. SIX - 1 /\ SIX \in Nat \ {0}
      BY <3>1, Sizes
    <3> HIDE DEF s
    <3> QED
      BY <3>2, QuotientOf
  <2>5. high * SIX \in Nat
    <3>1. /\ lba \div Geometry.sectors \in Nat /\ Geometry.heads \in Nat \ {0}
          /\ BYTE \in Nat \ {0} /\ BYTE \div SIX \in Nat \ {0} /\ SIX \in Nat
      BY Sizes, QuotientRemainder
    <3>2. c \in Nat
      <4> HIDE DEF track
      <4> QED
        BY <3>1, QuotientRemainder DEF track
    <3>3. c \div BYTE \in Nat
      <4> HIDE DEF c
      <4> QED
        BY <3>1, <3>2, QuotientRemainder
    <3>4. high \in Nat
      <4> DEFINE up == c \div BYTE
                 Q == BYTE \div SIX
      <4>1. up \in Nat /\ Q \in Nat \ {0}
        BY <3>1, <3>3
      <4> HIDE DEF up, Q
      <4>2. up % Q \in Nat
        BY <4>1, QuotientRemainder
      <4> QED
        BY <4>2 DEF up, Q
    <3> HIDE DEF high
    <3> QED
      BY <3>1, <3>4
  <2> HIDE DEF c, h, s, high
  <2> QED
    BY <2>2, <2>3, <2>4, <2>5
<1> HIDE DEF r, q
<1>4. SectorAt(r) = SectorAt(q)
  BY <1>3 DEF SectorAt
<1> QED
  BY <1>2, <1>4 DEF r
-----------------------------------------------------------------------------
\* How many extents are in memory, and which is being read.
Reading1 == stage1Pc \in {"read", "reset"}
Loaded == IF Reading1 THEN entry - 2 ELSE entry - 1

ExtentsLoaded ==
  \A m \in 1 .. Loaded : \A k \in 0 .. stage2_location[m].n - 1 :
    stage1Mem[Sectors[m - 1] + k] = stage2_location[m].lba + k

\* Of a call of disk_read: the tries taken, and those that met a failure of the medium.
TriesCount ==
  /\ di \in 1 .. STAGE1_TRIES
  /\ stage1Pc = "read" =>
       /\ stage1Faults <= STAGE1_TRIES - di /\ stage1Faults >= STAGE1_TRIES - di - 1
       /\ di < STAGE1_TRIES => stage1Ready
  /\ stage1Pc = "reset" =>
       stage1Faults <= STAGE1_TRIES - di + 1 /\ stage1Faults >= STAGE1_TRIES - di

Stage1Inv ==
  /\ Stage1TypeOK
  /\ stage1Pc = "start" => entry = 1
  /\ Reading1 =>
       entry >= 2 /\ stage1Regs = stage2_location[entry - 1] /\ TriesCount
  /\ stage1Pc \in {"start", "loop", "read", "reset", "jumped"} =>
       es = Sectors[Loaded] /\ ExtentsLoaded
  /\ stage1Pc = "jumped" => entry = Len(stage2_location) + 1

LEMMA InitStage1Inv == Stage1Init => Stage1Inv
<1> SUFFICES ASSUME Stage1Init PROVE Stage1Inv
  OBVIOUS
<1>1. /\ stage1Pc = "start" /\ entry = 1 /\ es = 0 /\ stage1Mem = [s \in Slots |-> Unloaded]
      /\ di = 0 /\ stage1Faults = 0
  BY DEF Stage1Init
<1>2. stage1Ready \in BOOLEAN /\ have_extensions \in BOOLEAN
  BY DEF Stage1Init
<1>3. Stage2Size \in Nat /\ Sectors[0] = 0
  BY SectorsSum, Extents DEF Stage2Size
<1>4. Stage1TypeOK
  BY <1>1, <1>2, <1>3, Extents DEF Stage1TypeOK
<1>5. Loaded = 0 /\ ~Reading1
  BY <1>1 DEF Loaded, Reading1
<1> QED
  BY <1>1, <1>3, <1>4, <1>5 DEF Stage1Inv, ExtentsLoaded

\* The call in hand.
LEMMA CallFacts ==
  ASSUME Stage1Inv, Reading1
  PROVE  /\ Stage1TypeOK /\ entry - 1 \in DOMAIN stage2_location /\ entry - 1 \in Nat \ {0}
         /\ Loaded = entry - 2 /\ Loaded \in Nat /\ es = Sectors[Loaded] /\ es \in Nat
         /\ stage1Regs.lba \in Nat /\ stage1Regs.n \in Nat \ {0}
         /\ stage1Regs.lba = stage2_location[entry - 1].lba
         /\ stage1Regs.n = stage2_location[entry - 1].n
         /\ stage1Regs.n = SizeAt(entry - 1)
         /\ Source = stage1Regs.lba /\ Readable(Source, stage1Regs.n)
         /\ Sectors[entry - 1] = es + stage1Regs.n /\ es + stage1Regs.n <= Stage2Size
         /\ ExtentsLoaded /\ TriesCount
<1>1. /\ Stage1TypeOK /\ entry >= 2 /\ stage1Regs = stage2_location[entry - 1] /\ TriesCount
      /\ es = Sectors[Loaded] /\ ExtentsLoaded
  BY DEF Stage1Inv, Reading1
<1>2. entry \in Nat /\ entry - 1 \in DOMAIN stage2_location /\ entry - 1 \in Nat \ {0}
  BY <1>1, Extents DEF Stage1TypeOK
<1>3. /\ stage1Regs.lba \in Nat /\ stage1Regs.lba < STAGE1_WORD /\ stage1Regs.n \in Nat \ {0}
      /\ stage1Regs.lba + stage1Regs.n <= Capacity /\ stage1Regs.n = SizeAt(entry - 1)
  BY <1>1, <1>2, Extents DEF SizeAt
<1>4. Capacity \in Nat
  BY Sizes DEF Capacity
<1>5. stage1Regs.lba < Capacity
  BY <1>3, <1>4
<1>6. Source = stage1Regs.lba
  BY <1>3, <1>5, SectorLoaded DEF Source
<1>7. Readable(Source, stage1Regs.n)
  BY <1>3, <1>6 DEF Readable, Nowhere
<1>8. Loaded = entry - 2 /\ Loaded \in Nat /\ Loaded + 1 = entry - 1
  BY <1>1, <1>2 DEF Loaded
<1>9. Sectors[entry - 1] = es + stage1Regs.n /\ es \in Nat
  BY <1>1, <1>3, <1>8, SectorsSum
<1>10. Sectors[entry - 1] <= Stage2Size
  BY <1>2, Extents, SectorsGrow DEF Stage2Size
<1> QED
  BY <1>1, <1>2, <1>3, <1>6, <1>7, <1>8, <1>9, <1>10

LEMMA ListInv == Stage1Inv /\ (CheckExtensions \/ Loop \/ Reboot) => Stage1Inv'
<1> SUFFICES ASSUME Stage1Inv, CheckExtensions \/ Loop \/ Reboot PROVE Stage1Inv'
  OBVIOUS
<1>1. es' = es /\ stage1Mem' = stage1Mem /\ stage1Ready' = stage1Ready
  BY DEF CheckExtensions, Loop, Reboot
<1>2. /\ Stage1TypeOK /\ entry \in 1 .. Len(stage2_location) + 1
  BY DEF Stage1Inv, Stage1TypeOK
<1>3. CASE CheckExtensions \/ Reboot
  <2>1. /\ entry' = entry /\ di' = di /\ stage1Faults' = stage1Faults
        /\ \/ stage1Pc = "start" /\ stage1Pc' = "loop"
           \/ stage1Pc = "floppy_error" /\ stage1Pc' = "rebooted"
    BY <1>3 DEF CheckExtensions, Reboot
  <2>2. have_extensions' \in BOOLEAN
    BY <1>2, <1>3 DEF CheckExtensions, Reboot, Stage1TypeOK
  <2>3. Stage1TypeOK'
    BY <1>1, <1>2, <2>1, <2>2 DEF Stage1TypeOK
  <2>4. ~Reading1' /\ ~Reading1 /\ Loaded' = Loaded
    BY <2>1 DEF Reading1, Loaded
  <2> QED
    BY <1>1, <2>1, <2>3, <2>4 DEF Stage1Inv, ExtentsLoaded
<1>4. CASE Loop
  <2>1. stage1Pc = "loop" /\ have_extensions' = have_extensions
    BY <1>4 DEF Loop
  <2>2. Loaded = entry - 1 /\ es = Sectors[Loaded] /\ ExtentsLoaded
    BY <2>1 DEF Loaded, Reading1, Stage1Inv
  <2>3. CASE entry > Len(stage2_location)
    <3>1. stage1Pc' = "jumped" /\ entry' = entry /\ di' = di /\ stage1Faults' = stage1Faults
      BY <1>4, <2>3 DEF Loop
    <3>2. Stage1TypeOK'
      BY <1>1, <1>2, <2>1, <3>1 DEF Stage1TypeOK
    <3>3. ~Reading1' /\ Loaded' = Loaded /\ entry = Len(stage2_location) + 1
      BY <1>2, <2>2, <2>3, <3>1, Extents DEF Reading1, Loaded
    <3> QED
      BY <1>1, <2>2, <3>1, <3>2, <3>3 DEF Stage1Inv, ExtentsLoaded
  <2>4. CASE ~(entry > Len(stage2_location))
    <3>1. /\ stage1Pc' = "read" /\ entry' = entry + 1 /\ di' = STAGE1_TRIES
          /\ stage1Faults' = 0 /\ stage1Regs' = stage2_location[entry]
      BY <1>4, <2>4 DEF Loop
    <3>2. Stage1TypeOK'
      BY <1>1, <1>2, <2>1, <2>4, <3>1, Extents DEF Stage1TypeOK
    <3>3. Reading1' /\ Loaded' = Loaded /\ entry' - 1 = entry /\ entry' >= 2
      BY <1>2, <2>2, <3>1, Extents DEF Reading1, Loaded
    <3>4. TriesCount'
      BY <3>1, Extents DEF TriesCount
    <3> QED
      BY <1>1, <2>2, <3>1, <3>2, <3>3, <3>4 DEF Stage1Inv, ExtentsLoaded
  <2> QED
    BY <2>3, <2>4
<1> QED
  BY <1>3, <1>4

\* What is read lies behind the extents that were read before.
LEMMA LoadKeeps ==
  ASSUME Stage1Inv, Reading1, NEW content \in [1 .. stage1Regs.n -> Nat \cup {Unloaded}],
         Stage1Load(content)
  PROVE  /\ stage1Mem' \in [Slots -> Nat \cup {Unloaded}]
         /\ \A s \in Slots : s < es => stage1Mem'[s] = stage1Mem[s]
         /\ \A k \in 0 .. stage1Regs.n - 1 : stage1Mem'[es + k] = content[k + 1]
         /\ \A m \in 1 .. entry - 2 : \A k \in 0 .. stage2_location[m].n - 1 :
              stage1Mem'[Sectors[m - 1] + k] = stage2_location[m].lba + k
<1>1. /\ es \in Nat /\ stage1Regs.n \in Nat \ {0} /\ es + stage1Regs.n <= Stage2Size
      /\ Loaded = entry - 2 /\ Loaded \in Nat /\ es = Sectors[Loaded] /\ ExtentsLoaded
      /\ stage1Mem \in [Slots -> Nat \cup {Unloaded}] /\ Stage2Size \in Nat
      /\ entry - 1 \in DOMAIN stage2_location
  BY CallFacts, SectorsSum, Extents DEF Stage1TypeOK, Stage2Size
<1>0. entry \in Nat
  <2>1. Stage1TypeOK
    BY DEF Stage1Inv
  <2> QED
    BY <2>1, Extents DEF Stage1TypeOK
<1>2. stage1Mem' = [s \in Slots |-> IF s - es \in 0 .. stage1Regs.n - 1
                                    THEN content[s - es + 1] ELSE stage1Mem[s]]
  BY DEF Stage1Load
<1>3. \A s \in Slots : s \in Nat
  BY <1>1 DEF Slots
<1>4. stage1Mem' \in [Slots -> Nat \cup {Unloaded}]
  <2> SUFFICES ASSUME NEW s \in Slots, s - es \in 0 .. stage1Regs.n - 1
      PROVE content[s - es + 1] \in Nat \cup {Unloaded}
    BY <1>1, <1>2
  <2>1. s - es + 1 \in 1 .. stage1Regs.n
    BY <1>1, <1>3, SMTT(60)
  <2> QED
    BY <2>1
<1>5. \A s \in Slots : s < es => stage1Mem'[s] = stage1Mem[s]
  BY <1>1, <1>2, <1>3
<1>6. ASSUME NEW k \in 0 .. stage1Regs.n - 1 PROVE stage1Mem'[es + k] = content[k + 1]
  <2>1. es + k \in Slots /\ (es + k) - es = k
    BY <1>1, SMTT(60) DEF Slots
  <2> QED
    BY <1>2, <2>1
<1>7. ASSUME NEW m \in 1 .. entry - 2, NEW k \in 0 .. stage2_location[m].n - 1
      PROVE  stage1Mem'[Sectors[m - 1] + k] = stage2_location[m].lba + k
  <2>1. stage1Mem[Sectors[m - 1] + k] = stage2_location[m].lba + k
    BY <1>1 DEF ExtentsLoaded
  <2>2. m \in DOMAIN stage2_location /\ m \in Nat /\ m - 1 \in Nat /\ m <= Loaded
    BY <1>0, <1>1, Extents
  <2>3. Sectors[m] = Sectors[m - 1] + stage2_location[m].n /\ Sectors[m - 1] \in Nat
    <3> DEFINE b == m - 1
    <3>1. b \in Nat /\ b + 1 = m
      BY <2>2
    <3> HIDE DEF b
    <3>2. Sectors[b + 1] = Sectors[b] + SizeAt(b + 1) /\ Sectors[b] \in Nat
      BY <3>1, SectorsSum
    <3>3. SizeAt(m) = stage2_location[m].n
      BY <2>2 DEF SizeAt
    <3> QED
      BY <3>1, <3>2, <3>3 DEF b
  <2>4. Sectors[m] <= es
    BY <1>1, <2>2, SectorsGrow
  <2>5. stage2_location[m].n \in Nat
    BY <2>2, Extents
  <2>6. Sectors[m - 1] + k < es /\ Sectors[m - 1] + k \in Nat
    <3> DEFINE from == Sectors[m - 1]
               size == stage2_location[m].n
    <3>1. from \in Nat /\ size \in Nat /\ from + size <= es /\ k \in 0 .. size - 1
      BY <2>3, <2>4, <2>5
    <3> HIDE DEF from, size
    <3>2. from + k < es /\ from + k \in Nat
      BY <1>1, <3>1
    <3> QED
      BY <3>2 DEF from
  <2>7. Sectors[m - 1] + k \in Slots
    BY <1>1, <2>6 DEF Slots
  <2> QED
    BY <1>5, <2>1, <2>6, <2>7
<1> QED
  BY <1>4, <1>5, <1>6, <1>7

LEMMA RetryInv == Stage1Inv /\ Retry => Stage1Inv'
<1> SUFFICES ASSUME Stage1Inv, Retry PROVE Stage1Inv'
  OBVIOUS
<1>1. /\ stage1Pc = "read" /\ entry' = entry /\ di' = di /\ stage1Regs' = stage1Regs
      /\ have_extensions' = have_extensions /\ Reading1
  BY DEF Retry, Reading1
<1>2. /\ Stage1TypeOK /\ entry - 1 \in DOMAIN stage2_location /\ entry - 1 \in Nat \ {0}
      /\ Loaded = entry - 2 /\ Loaded \in Nat /\ es = Sectors[Loaded] /\ es \in Nat
      /\ stage1Regs.lba \in Nat /\ stage1Regs.n \in Nat \ {0}
      /\ stage1Regs.lba = stage2_location[entry - 1].lba
      /\ stage1Regs.n = stage2_location[entry - 1].n
      /\ Source = stage1Regs.lba /\ Readable(Source, stage1Regs.n)
      /\ Sectors[entry - 1] = es + stage1Regs.n /\ es + stage1Regs.n <= Stage2Size
      /\ ExtentsLoaded /\ TriesCount
  BY <1>1, CallFacts
<1>3. /\ entry >= 2 /\ stage1Regs = stage2_location[entry - 1] /\ entry \in Nat
      /\ Stage2Size \in Nat /\ STAGE1_TRIES \in Nat \ {0}
  BY <1>1, <1>2, SectorsSum, Extents DEF Stage1Inv, Stage1TypeOK, Stage2Size
<1>4. CASE /\ Stage1Load(Extent(Source, stage1Regs.n)) /\ es' = es + stage1Regs.n
           /\ stage1Pc' = "loop" /\ UNCHANGED <<stage1Ready, stage1Faults>>
  <2> DEFINE content == Extent(Source, stage1Regs.n)
  <2>1. content \in [1 .. stage1Regs.n -> Nat \cup {Unloaded}]
    BY <1>2 DEF Extent
  <2>2. \A k \in 0 .. stage1Regs.n - 1 : content[k + 1] = stage1Regs.lba + k
    BY <1>2 DEF Extent
  <2>3. Stage1Load(content)
    BY <1>4
  <2> HIDE DEF content
  <2>4. /\ stage1Mem' \in [Slots -> Nat \cup {Unloaded}]
        /\ \A k \in 0 .. stage1Regs.n - 1 : stage1Mem'[es + k] = content[k + 1]
        /\ \A m \in 1 .. entry - 2 : \A k \in 0 .. stage2_location[m].n - 1 :
             stage1Mem'[Sectors[m - 1] + k] = stage2_location[m].lba + k
    BY <1>1, <2>1, <2>3, LoadKeeps
  <2>5. Stage1TypeOK'
    BY <1>1, <1>2, <1>3, <1>4, <2>4 DEF Stage1TypeOK
  <2>6. ~Reading1' /\ Loaded' = entry - 1 /\ es' = Sectors[entry - 1]
    BY <1>1, <1>2, <1>4 DEF Reading1, Loaded
  <2>7. ExtentsLoaded'
    <3> SUFFICES ASSUME NEW m \in 1 .. entry - 1, NEW k \in 0 .. stage2_location[m].n - 1
        PROVE stage1Mem'[Sectors[m - 1] + k] = stage2_location[m].lba + k
      BY <2>6 DEF ExtentsLoaded
    <3>1. CASE m = entry - 1
      <4>1. m - 1 = Loaded /\ Sectors[m - 1] = es
        BY <1>2, <1>3, <3>1
      <4>2. k \in 0 .. stage1Regs.n - 1 /\ stage2_location[m].lba = stage1Regs.lba
        BY <1>2, <3>1
      <4> QED
        BY <2>2, <2>4, <4>1, <4>2
    <3>2. CASE m # entry - 1
      <4>1. m \in 1 .. entry - 2
        BY <1>3, <3>2
      <4> QED
        BY <2>4, <4>1
    <3> QED
      BY <3>1, <3>2
  <2> QED
    BY <1>4, <2>5, <2>6, <2>7 DEF Stage1Inv
<1>5. CASE /\ Stage1Load([k \in 1 .. stage1Regs.n |-> Unloaded])
           /\ stage1Faults' = stage1Faults + 1 /\ stage1Ready' \in BOOLEAN
           /\ stage1Pc' = "reset" /\ UNCHANGED es
  <2> DEFINE content == [k \in 1 .. stage1Regs.n |-> Unloaded]
  <2>1. content \in [1 .. stage1Regs.n -> Nat \cup {Unloaded}] /\ Stage1Load(content)
    BY <1>5
  <2> HIDE DEF content
  <2>2. /\ stage1Mem' \in [Slots -> Nat \cup {Unloaded}]
        /\ \A m \in 1 .. entry - 2 : \A k \in 0 .. stage2_location[m].n - 1 :
             stage1Mem'[Sectors[m - 1] + k] = stage2_location[m].lba + k
    BY <1>1, <2>1, LoadKeeps
  <2>3. TriesCount' /\ stage1Faults' \in 0 .. STAGE1_TRIES
    <3>1. /\ di \in 1 .. STAGE1_TRIES /\ stage1Faults \in Nat
          /\ stage1Faults <= STAGE1_TRIES - di /\ stage1Faults >= STAGE1_TRIES - di - 1
      BY <1>1, <1>2 DEF TriesCount, Stage1TypeOK
    <3>2. stage1Faults' = stage1Faults + 1 /\ stage1Pc' = "reset" /\ di' = di
      BY <1>1, <1>5
    <3> QED
      BY <1>3, <3>1, <3>2 DEF TriesCount
  <2>4. stage1Ready' \in BOOLEAN
    BY <1>5
  <2>5. stage1Pc' = "reset" /\ es' = es
    BY <1>5
  <2>6. Stage1TypeOK'
    BY <1>1, <1>2, <2>2, <2>3, <2>4, <2>5 DEF Stage1TypeOK
  <2>7. Reading1' /\ Loaded' = entry - 2
    BY <1>1, <2>5 DEF Reading1, Loaded
  <2>8. ExtentsLoaded'
    BY <2>2, <2>7 DEF ExtentsLoaded
  <2> QED
    BY <1>1, <1>2, <1>3, <2>3, <2>5, <2>6, <2>7, <2>8 DEF Stage1Inv
<1>6. CASE /\ ~stage1Ready \/ ~Readable(Source, stage1Regs.n)
           /\ stage1Pc' = "reset" /\ UNCHANGED <<es, stage1Mem, stage1Ready, stage1Faults>>
  <2>1. TriesCount'
    <3>1. /\ di \in 1 .. STAGE1_TRIES /\ stage1Faults \in Nat
          /\ stage1Faults <= STAGE1_TRIES - di /\ stage1Faults >= STAGE1_TRIES - di - 1
          /\ di < STAGE1_TRIES => stage1Ready
      BY <1>1, <1>2 DEF TriesCount, Stage1TypeOK
    <3>2. di = STAGE1_TRIES
      BY <1>2, <1>3, <1>6, <3>1
    <3>3. stage1Faults' = stage1Faults /\ stage1Pc' = "reset" /\ di' = di
      BY <1>1, <1>6
    <3> QED
      BY <1>3, <3>1, <3>2, <3>3 DEF TriesCount
  <2>2. /\ stage1Pc' = "reset" /\ es' = es /\ stage1Mem' = stage1Mem
        /\ stage1Ready' = stage1Ready /\ stage1Faults' = stage1Faults
    BY <1>6
  <2>3. Stage1TypeOK'
    BY <1>1, <1>2, <2>2 DEF Stage1TypeOK
  <2>4. Reading1' /\ Loaded' = Loaded
    BY <1>1, <2>2 DEF Reading1, Loaded
  <2>5. ExtentsLoaded'
    BY <1>2, <2>2, <2>4 DEF ExtentsLoaded
  <2> QED
    BY <1>1, <1>2, <1>3, <2>1, <2>2, <2>3, <2>4, <2>5 DEF Stage1Inv
<1> QED
  BY <1>4, <1>5, <1>6 DEF Retry

LEMMA ResetInv == Stage1Inv /\ Stage1Reset => Stage1Inv'
<1> SUFFICES ASSUME Stage1Inv, Stage1Reset PROVE Stage1Inv'
  OBVIOUS
<1>1. /\ stage1Pc = "reset" /\ entry' = entry /\ stage1Regs' = stage1Regs /\ es' = es
      /\ have_extensions' = have_extensions /\ stage1Mem' = stage1Mem
      /\ stage1Faults' = stage1Faults /\ Reading1
  BY DEF Stage1Reset, Reading1
<1>2. /\ Stage1TypeOK /\ TriesCount /\ ExtentsLoaded /\ es = Sectors[Loaded] /\ entry >= 2
      /\ stage1Regs = stage2_location[entry - 1] /\ Loaded = entry - 2
  BY <1>1, CallFacts DEF Stage1Inv
<1>3. /\ di \in 1 .. STAGE1_TRIES /\ stage1Faults \in 0 .. STAGE1_TRIES
      /\ stage1Faults <= STAGE1_TRIES - di + 1 /\ stage1Faults >= STAGE1_TRIES - di
      /\ STAGE1_TRIES \in Nat \ {0}
  BY <1>1, <1>2, Extents DEF TriesCount, Stage1TypeOK
<1>4. /\ stage1Ready' \in BOOLEAN /\ stage1Pc' \in {"read", "floppy_error"}
      /\ di' \in 0 .. STAGE1_TRIES
      /\ stage1Pc' = "read" => stage1Ready' /\ di' = di - 1 /\ di' # 0
  <2>1. CASE /\ stage1Ready' = TRUE /\ di' = di - 1
             /\ stage1Pc' = IF di' # 0 THEN "read" ELSE "floppy_error"
    <3>1. stage1Ready' \in BOOLEAN /\ stage1Ready'
      BY <2>1
    <3>2. di' \in 0 .. STAGE1_TRIES
      BY <1>3, <2>1
    <3>3. stage1Pc' \in {"read", "floppy_error"} /\ (stage1Pc' = "read" => di' # 0)
      BY <2>1
    <3>4. di' = di - 1
      BY <2>1
    <3> QED
      BY <3>1, <3>2, <3>3, <3>4
  <2>2. CASE stage1Ready' = FALSE /\ stage1Pc' = "floppy_error" /\ UNCHANGED di
    <3>1. stage1Ready' \in BOOLEAN
      BY <2>2
    <3> QED
      BY <1>3, <2>2, <3>1
  <2> QED
    BY <2>1, <2>2 DEF Stage1Reset
<1>5. Stage1TypeOK'
  BY <1>1, <1>2, <1>4 DEF Stage1TypeOK
<1>6. CASE stage1Pc' = "read"
  <2>1. TriesCount'
    BY <1>1, <1>3, <1>4, <1>6 DEF TriesCount
  <2>2. Reading1' /\ Loaded' = Loaded
    BY <1>1, <1>6 DEF Reading1, Loaded
  <2> QED
    BY <1>1, <1>2, <1>5, <1>6, <2>1, <2>2 DEF Stage1Inv, ExtentsLoaded
<1>7. CASE stage1Pc' = "floppy_error"
  BY <1>5, <1>7 DEF Stage1Inv, Reading1
<1> QED
  BY <1>4, <1>6, <1>7

LEMMA Stage1Step == Stage1Inv /\ [Stage1Next]_stage1Vars => Stage1Inv'
<1> SUFFICES ASSUME Stage1Inv, [Stage1Next]_stage1Vars PROVE Stage1Inv'
  OBVIOUS
<1>1. CASE UNCHANGED stage1Vars
  BY <1>1 DEF stage1Vars, Stage1Inv, Stage1TypeOK, Reading1, Loaded, ExtentsLoaded, TriesCount
<1> QED
  BY <1>1, ListInv, RetryInv, ResetInv DEF Stage1Next

LEMMA Stage1Facts ==
  ASSUME Stage1Inv
  PROVE  Stage1TypeOK /\ JumpsIntoStage2
<1>1. ASSUME stage1Pc = "jumped" PROVE Loaded = Len(stage2_location) /\ ExtentsLoaded
  BY <1>1, Extents DEF Stage1Inv, Loaded, Reading1
<1> QED
  BY <1>1, Extents DEF Stage1Inv, JumpsIntoStage2, ExtentsLoaded

LEMMA LateSurrender ==
  Stage1Inv /\ [Stage1Next]_stage1Vars =>
    [stage1Pc = "reset" /\ stage1Pc' = "floppy_error"
       => stage1Faults >= STAGE1_TRIES - 1 \/ ~stage1Ready']_stage1Vars
<1> SUFFICES ASSUME Stage1Inv, Stage1Next, stage1Pc = "reset", stage1Pc' = "floppy_error",
                    stage1Ready'
    PROVE  stage1Faults >= STAGE1_TRIES - 1
  OBVIOUS
<1>1. Stage1Reset
  BY DEF Stage1Next, CheckExtensions, Loop, Retry, Reboot
<1>2. TriesCount
  BY DEF Stage1Inv, Reading1
<1>3. di = 1
  BY <1>1, <1>2, Extents DEF Stage1Reset, TriesCount
<1> QED
  BY <1>2, <1>3, Extents DEF TriesCount
-----------------------------------------------------------------------------
(***************************************************************************)
(* The A20 dialogue, by the next instruction of EnableA20.                 *)
(***************************************************************************)
\* A scan code cannot come between the BIOS's last and the first command of the dialogue.
KeysWait == ~EarlyKeys

LEMMA Program ==
  /\ Len(A20Program) = 13
  /\ A20Program[1] = "A20WaitInput" /\ A20Program[2] = "DisableKeyboard"
  /\ A20Program[3] = "A20WaitInput" /\ A20Program[4] = "ReadCtrlOutputPort"
  /\ A20Program[5] = "A20WaitOutput" /\ A20Program[6] = "in"
  /\ A20Program[7] = "A20WaitInput" /\ A20Program[8] = "WriteCtrlOutputPort"
  /\ A20Program[9] = "A20WaitInput" /\ A20Program[10] = "out"
  /\ A20Program[11] = "A20WaitInput" /\ A20Program[12] = "EnableKeyboard"
  /\ A20Program[13] = "A20WaitInput"
BY DEF A20Program

\* Where the program is in terms of its next instruction.
LEMMA Places ==
  ASSUME a20Pc \in 1 .. 14
  PROVE  /\ A20Now = "A20WaitInput" <=> a20Pc \in {1, 3, 7, 9, 11, 13}
         /\ A20Now = "A20WaitOutput" <=> a20Pc = 5
         /\ A20Now = "in" <=> a20Pc = 6
         /\ A20Now = "out" <=> a20Pc = 10
         /\ A20Now \in Commands <=> a20Pc \in {2, 4, 8, 12}
         /\ a20Pc = 2 => A20Now = "DisableKeyboard"
         /\ a20Pc = 4 => A20Now = "ReadCtrlOutputPort"
         /\ a20Pc = 8 => A20Now = "WriteCtrlOutputPort"
         /\ a20Pc = 12 => A20Now = "EnableKeyboard"
         /\ Done <=> a20Pc = 14
<1>1. a20Pc \in 1 .. 13 => A20Now = A20Program[a20Pc]
  BY Program DEF A20Now, Done
<1>2. a20Pc = 14 => A20Now = "ret"
  BY Program DEF A20Now, Done
<1> QED
  BY <1>1, <1>2, Program DEF Done, Commands

\* What the controller has been given and not taken yet, by the instruction that gave it.
Given ==
  /\ a20Pc \notin {3, 5, 6, 7, 9, 11, 13} => input = Empty
  /\ a20Pc = 3 => input \in {Empty, Cmd("DisableKeyboard")}
  /\ a20Pc \in {5, 6, 7} => input \in {Empty, Cmd("ReadCtrlOutputPort")}
  /\ a20Pc = 9 => input \in {Empty, Cmd("WriteCtrlOutputPort")}
  /\ a20Pc = 11 => input \in {Empty, Byte(al \cup {A20Bit})}
  /\ a20Pc = 13 => input \in {Empty, Cmd("EnableKeyboard")}

\* The port is as it was until the byte has been taken, and the controller waits for one
\* exactly from the command to it.
PortSaid ==
  /\ a20Pc < 11 => port = initial
  /\ a20Pc > 11 => port = initial \cup {A20Bit}
  /\ a20Pc = 11 => port = IF input = Empty THEN initial \cup {A20Bit} ELSE initial
  /\ isData <=> (a20Pc = 9 /\ input = Empty) \/ a20Pc = 10 \/ (a20Pc = 11 /\ input # Empty)

\* The answer is the port, and nothing else comes while the dialogue goes on.
Answered ==
  /\ a20Pc < 14 => output = IF a20Pc = 6 \/ (a20Pc = 5 /\ input = Empty)
                            THEN Byte(initial) ELSE Empty
  /\ a20Pc \in {6, 7} => input = Empty
  /\ a20Pc \in 7 .. 11 => al = initial

\* The keyboard is cut off meanwhile, and heard again at the end.
Heard ==
  enabled <=> \/ a20Pc < 3 \/ (a20Pc = 3 /\ input # Empty)
              \/ a20Pc > 13 \/ (a20Pc = 13 /\ input = Empty)

A20Inv ==
  /\ a20Pc \in 1 .. 14 /\ {al, port, output.value, initial} \subseteq SUBSET Bits
  /\ isData \in BOOLEAN /\ enabled \in BOOLEAN
  /\ Given
  /\ KeysWait => PortSaid /\ Answered /\ Heard

LEMMA Kinds ==
  /\ Empty.kind = "empty" /\ Empty.value = {}
  /\ \A name : Cmd(name).kind = name /\ Cmd(name).value = {}
  /\ \A b : Byte(b).kind = "byte" /\ Byte(b).value = b
  /\ \A b : Byte(b) # Empty
  /\ Cmd("DisableKeyboard") # Empty /\ Cmd("ReadCtrlOutputPort") # Empty
  /\ Cmd("WriteCtrlOutputPort") # Empty /\ Cmd("EnableKeyboard") # Empty
BY DEF Empty, Cmd, Byte

LEMMA InitA20Inv == A20Init => A20Inv
<1> SUFFICES ASSUME A20Init PROVE A20Inv
  OBVIOUS
<1> USE Kinds DEF A20Init
<1>1. output = Empty \/ (EarlyKeys /\ \E s \in ScanCodes : output = Byte(s))
  OBVIOUS
<1>2. {al, port, output.value, initial} \subseteq SUBSET Bits
  BY <1>1, A20Assumption
<1>3. KeysWait => PortSaid /\ Answered
  BY <1>1 DEF PortSaid, Answered, KeysWait
<1>4. Given /\ Heard
  BY DEF Given, Heard
<1>5. a20Pc \in 1 .. 14
  OBVIOUS
<1>6. isData \in BOOLEAN /\ enabled \in BOOLEAN
  <2>1. isData = FALSE /\ enabled = TRUE
    BY Zenon DEF A20Init
  <2> HIDE DEF A20Init
  <2> QED
    BY <2>1
<1> HIDE DEF A20Init
<1> QED
  BY <1>2, <1>3, <1>4, <1>5, <1>6 DEF A20Inv

LEMMA CpuInv == A20Inv /\ Cpu => A20Inv'
<1> SUFFICES ASSUME A20Inv, Cpu PROVE A20Inv'
  OBVIOUS
<1>1. a20Pc \in 1 .. 14 /\ {al, port, output.value, initial} \subseteq SUBSET Bits
  BY DEF A20Inv
<1>2. /\ isData' = isData /\ port' = port /\ enabled' = enabled /\ initial' = initial
      /\ a20Pc' = a20Pc + 1
  BY DEF Cpu, A20WaitInput, A20WaitOutput, OutCommand, InData, OutData, controller
<1>3. CASE A20WaitInput
  <2>1. /\ a20Pc \in {1, 3, 7, 9, 11, 13} /\ input = Empty
        /\ al' = al /\ input' = input /\ output' = output
    BY <1>1, <1>3, Places DEF A20WaitInput, controller
  <2> QED
    BY <1>1, <1>2, <2>1, Kinds DEF A20Inv, Given, PortSaid, Answered, Heard, KeysWait
<1>4. CASE A20WaitOutput
  <2>1. a20Pc = 5 /\ output # Empty /\ al' = al /\ input' = input /\ output' = output
    BY <1>1, <1>4, Places DEF A20WaitOutput, controller
  <2> QED
    BY <1>1, <1>2, <2>1, Kinds DEF A20Inv, Given, PortSaid, Answered, Heard, KeysWait
<1>5. CASE OutCommand
  <2>1. /\ a20Pc \in {2, 4, 8, 12} /\ al' = al /\ output' = output
        /\ a20Pc = 2 => input' = Cmd("DisableKeyboard")
        /\ a20Pc = 4 => input' = Cmd("ReadCtrlOutputPort")
        /\ a20Pc = 8 => input' = Cmd("WriteCtrlOutputPort")
        /\ a20Pc = 12 => input' = Cmd("EnableKeyboard")
    BY <1>1, <1>5, Places DEF OutCommand
  <2> QED
    BY <1>1, <1>2, <2>1, Kinds DEF A20Inv, Given, PortSaid, Answered, Heard, KeysWait
<1>6. CASE InData
  <2>1. a20Pc = 6 /\ input' = input /\ al' = output.value /\ output' = Empty
    BY <1>1, <1>6, Places DEF InData
  <2> QED
    BY <1>1, <1>2, <2>1, Kinds DEF A20Inv, Given, PortSaid, Answered, Heard, KeysWait
<1>7. CASE OutData
  <2>1. a20Pc = 10 /\ input' = Byte(al \cup {A20Bit}) /\ al' = al /\ output' = output
    BY <1>1, <1>7, Places DEF OutData
  <2> QED
    BY <1>1, <1>2, <2>1, Kinds DEF A20Inv, Given, PortSaid, Answered, Heard, KeysWait
<1> QED
  BY <1>3, <1>4, <1>5, <1>6, <1>7 DEF Cpu

LEMMA ControllerInv == A20Inv /\ Controller => A20Inv'
<1> SUFFICES ASSUME A20Inv, Controller PROVE A20Inv'
  OBVIOUS
<1> USE Kinds
<1>1. /\ a20Pc' = a20Pc /\ al' = al /\ initial' = initial /\ input # Empty /\ input' = Empty
      /\ a20Pc \in 1 .. 14 /\ {al, port, output.value, initial} \subseteq SUBSET Bits
  BY DEF Controller, A20Inv
<1>2. a20Pc \in {3, 5, 6, 7, 9, 11, 13}
  BY <1>1 DEF A20Inv, Given
<1>3. Given'
  BY <1>1 DEF Given
<1>4. CASE a20Pc = 3
  <2>1. input.kind = "DisableKeyboard"
    BY <1>1, <1>4 DEF A20Inv, Given
  <2>2. output' = output /\ isData' = FALSE /\ port' = port /\ enabled' = FALSE
    BY <2>1 DEF Controller
  <2> QED
    <3>1. {al', port', output'.value, initial'} \subseteq SUBSET Bits
      BY <1>1, <2>2
    <3>2. KeysWait => PortSaid'
      BY <1>1, <1>4, <2>2 DEF A20Inv, PortSaid, Answered
    <3>3. KeysWait => Answered'
      BY <1>1, <1>4, <2>2 DEF A20Inv, PortSaid, Answered
    <3>4. KeysWait => Heard'
      BY <1>1, <1>4, <2>2 DEF A20Inv, Heard
    <3> QED
      BY <1>1, <1>3, <2>2, <3>1, <3>2, <3>3, <3>4 DEF A20Inv
<1>5. CASE a20Pc \in {5, 6, 7}
  <2>1. input.kind = "ReadCtrlOutputPort"
    BY <1>1, <1>5 DEF A20Inv, Given
  <2>2. output' = Byte(port) /\ isData' = FALSE /\ port' = port /\ enabled' = enabled
    BY <2>1 DEF Controller
  <2> QED
    <3>1. {al', port', output'.value, initial'} \subseteq SUBSET Bits
      BY <1>1, <2>2
    <3>2. KeysWait => PortSaid'
      BY <1>1, <1>5, <2>2 DEF A20Inv, PortSaid, Answered
    <3>3. KeysWait => Answered'
      BY <1>1, <1>5, <2>2 DEF A20Inv, PortSaid, Answered
    <3>4. KeysWait => Heard'
      BY <1>1, <1>5, <2>2 DEF A20Inv, Heard
    <3> QED
      BY <1>1, <1>3, <2>2, <3>1, <3>2, <3>3, <3>4 DEF A20Inv
<1>6. CASE a20Pc = 9
  <2>1. input.kind = "WriteCtrlOutputPort"
    BY <1>1, <1>6 DEF A20Inv, Given
  <2>2. output' = output /\ isData' = TRUE /\ port' = port /\ enabled' = enabled
    BY <2>1 DEF Controller
  <2> QED
    BY <1>1, <1>3, <1>6, <2>2 DEF A20Inv, PortSaid, Answered, Heard
<1>7. CASE a20Pc = 11
  <2>1. input.kind = "byte" /\ input.value = al \cup {A20Bit}
    BY <1>1, <1>7 DEF A20Inv, Given
  <2>2. /\ output' = output /\ isData' = FALSE /\ enabled' = enabled
        /\ port' = IF isData THEN al \cup {A20Bit} ELSE port
    BY <2>1 DEF Controller
  <2>3. port' \in SUBSET Bits
    BY <1>1, <2>2, A20Assumption
  <2> QED
    <3>1. {al', port', output'.value, initial'} \subseteq SUBSET Bits
      BY <1>1, <2>2, <2>3
    <3>2. KeysWait => PortSaid'
      BY <1>1, <1>7, <2>2 DEF A20Inv, PortSaid, Answered
    <3>3. KeysWait => Answered'
      BY <1>1, <1>7, <2>2 DEF A20Inv, PortSaid, Answered
    <3>4. KeysWait => Heard'
      BY <1>1, <1>7, <2>2 DEF A20Inv, Heard
    <3> QED
      BY <1>1, <1>3, <2>2, <3>1, <3>2, <3>3, <3>4 DEF A20Inv
<1>8. CASE a20Pc = 13
  <2>1. input.kind = "EnableKeyboard"
    BY <1>1, <1>8 DEF A20Inv, Given
  <2>2. output' = output /\ isData' = FALSE /\ port' = port /\ enabled' = TRUE
    BY <2>1 DEF Controller
  <2> QED
    <3>1. {al', port', output'.value, initial'} \subseteq SUBSET Bits
      BY <1>1, <2>2
    <3>2. KeysWait => PortSaid'
      BY <1>1, <1>8, <2>2 DEF A20Inv, PortSaid, Answered
    <3>3. KeysWait => Answered'
      BY <1>1, <1>8, <2>2 DEF A20Inv, PortSaid, Answered
    <3>4. KeysWait => Heard'
      BY <1>1, <1>8, <2>2 DEF A20Inv, Heard
    <3> QED
      BY <1>1, <1>3, <2>2, <3>1, <3>2, <3>3, <3>4 DEF A20Inv
<1> QED
  BY <1>2, <1>4, <1>5, <1>6, <1>7, <1>8

LEMMA KeyInv == A20Inv /\ Key => A20Inv'
<1> SUFFICES ASSUME A20Inv, Key PROVE A20Inv'
  OBVIOUS
<1> USE Kinds
<1>1. /\ a20Pc' = a20Pc /\ al' = al /\ input' = input /\ isData' = isData /\ port' = port
      /\ enabled' = enabled /\ initial' = initial
      /\ a20Pc \in 1 .. 14 /\ {al, port, output.value, initial} \subseteq SUBSET Bits
  BY DEF Key, A20Inv
<1>2. PICK s \in ScanCodes : output' = Byte(s)
  BY DEF Key
<1>3. output'.value \in SUBSET Bits
  BY <1>2, A20Assumption
<1>4. KeysWait => a20Pc = 14
  BY <1>1, Places, A20Assumption DEF Key, KeysWait
<1> QED
  BY <1>1, <1>3, <1>4 DEF A20Inv, Given, PortSaid, Answered, Heard

LEMMA A20Step == A20Inv /\ [A20Next]_a20Vars => A20Inv'
<1> SUFFICES ASSUME A20Inv, [A20Next]_a20Vars PROVE A20Inv'
  OBVIOUS
<1>1. CASE UNCHANGED a20Vars
  BY <1>1 DEF a20Vars, A20Inv, Given, PortSaid, Answered, Heard
<1> QED
  BY <1>1, CpuInv, ControllerInv, KeyInv DEF A20Next

LEMMA A20Facts ==
  ASSUME A20Inv
  PROVE  A20TypeOK /\ (KeysWait => OnlyA20Changes)
<1> USE Kinds
<1>1. input.value \in SUBSET Bits
  BY A20Assumption DEF A20Inv, Given
<1>2. A20TypeOK
  BY <1>1, Program DEF A20Inv, A20TypeOK
<1> QED
  BY <1>2 DEF A20Inv, PortSaid, OnlyA20Changes

LEMMA NothingLost ==
  A20Inv /\ [A20Next]_a20Vars => [input = Empty \/ input' \in {input, Empty}]_a20Vars
<1> SUFFICES ASSUME A20Inv, A20Next PROVE input = Empty \/ input' \in {input, Empty}
  BY DEF a20Vars
<1>1. a20Pc \in 1 .. 14
  BY DEF A20Inv
<1>2. CASE OutCommand
  BY <1>1, <1>2, Places DEF OutCommand, A20Inv, Given
<1>3. CASE OutData
  BY <1>1, <1>3, Places DEF OutData, A20Inv, Given
<1> QED
  BY <1>2, <1>3
  DEF A20Next, Cpu, A20WaitInput, A20WaitOutput, InData, Controller, Key, controller
-----------------------------------------------------------------------------
(***************************************************************************)
(* The order of the boot: the volume is found twice, and the memory map    *)
(* goes into the parameters.                                               *)
(***************************************************************************)
Contents == {"junk", "entry", "volume", "kernel"} \X (Starts \cup {-1})
Detecting == {"mem_Detect", "E820"}
LoadedPoints == {"FAT_ReadDirectory", "VBE_Initialize", "WaitForEnter"}
Start == {"DISK_Initialize", "MBR_DetectPartition"}
Known == Start \cup {"FAT_Initialize", "ELF_Read", "halt", "wild"} \cup Detecting \cup LoadedPoints

BootTypes ==
  /\ machine \in Machines
  /\ InKernel \/ bootPc \in Known
  /\ bootMem \in [Pages -> Contents] /\ offset \in Starts \cup {-1}
  /\ block \in 0 .. machine.blocks /\ next \in 0 .. machine.blocks
  /\ regions \in Seq(Nat) /\ Len(regions) <= MAX_REGIONS

\* Mounted was read at the offset of the volume stage 1 came from; the kernel computes
\* that offset again.
VolumeFound ==
  /\ bootPc \in Start /\ ~Floppy =>
       bootMem[Page(PARTITION_ENTRY_SEGMENT * 16)] = TableEntry(Home)
  /\ bootPc \in {"FAT_Initialize", "ELF_Read"} \cup Detecting \cup LoadedPoints => offset = Home
  /\ InKernel \/ bootPc \in {"ELF_Read"} \cup Detecting \cup LoadedPoints => Mounted = Volume(Home)
  /\ InKernel \/ bootPc \in LoadedPoints => bootMem[Page(KERNEL_ADDR)] = Kernel(Home)

\* What the kernel takes for the volume's offset, if it can read the table and the
\* machine was booted from its first entry.
FirstEntry == ~MbrMayFail /\ BootEntries \subseteq {0}
VolumeFoundAgain ==
  FirstEntry =>
    /\ bootPc = "Kernel_MBR_DetectPartition" /\ ~Floppy =>
         bootMem[Page(MBR_BUFFER)] = TableEntry(Home)
    /\ bootPc \in {"Kernel_FAT_Initialize", "Command_Line_Interface"} => offset = Home

\* The blocks taken so far, each once and in order; the last one is still to come if it
\* comes with continuation 0.
BlocksTaken ==
  /\ bootPc \in Start \cup {"FAT_Initialize"} => regions = <<>> /\ block = 0 /\ next = 0
  /\ bootPc \in Detecting =>
       /\ block = Len(regions) /\ next = Len(regions)
       /\ machine.ending = "zero" /\ machine.blocks > 0 => next < machine.blocks
       /\ \A k \in DOMAIN regions : regions[k] = k
  /\ InKernel \/ bootPc \in {"ELF_Read"} \cup LoadedPoints =>
       /\ params.drive = machine.drive
       /\ params.regions = BlocksKept

BootInv == BootTypes /\ VolumeFound /\ VolumeFoundAgain /\ BlocksTaken

LEMMA Machine ==
  ASSUME machine \in Machines
  PROVE  /\ machine.drive \in {0, 128} /\ machine.blocks \in Nat
         /\ machine.entry \in BootEntries /\ machine.entry \in 0 .. 3
         /\ machine.ending \in {"zero", "error"}
         /\ Home \in Starts /\ Home \in Int /\ Starts \subseteq Int
<1>1. /\ machine.drive \in {0, 128} /\ machine.blocks \in Nat
      /\ machine.entry \in BootEntries /\ machine.entry \in 0 .. 3
      /\ machine.ending \in {"zero", "error"}
  BY BootAssumption, ZenonT(60) DEF Machines
<1>2. \A e \in 0 .. 3 : Table[e] \in Starts /\ Table[e] \in Int
  BY BootAssumption DEF Starts
<1>3. 0 \in Starts /\ Starts \subseteq Int
  BY <1>2 DEF Starts
<1> QED
  BY <1>1, <1>2, <1>3 DEF Home

LEMMA PagesApart ==
  /\ {Page(FAT_ADDR), Page(ELF_ADDR), Page(LOAD_KERNEL), Page(VESA_INFO), Page(MODE_INFO),
      Page(KERNEL_ADDR), Page(MBR_BUFFER), Page(PARTITION_ENTRY_SEGMENT * 16)} \subseteq Pages
  /\ Page(FAT_ADDR) \notin {Page(ELF_ADDR), Page(LOAD_KERNEL), Page(VESA_INFO), Page(MODE_INFO),
                            Page(KERNEL_ADDR), Page(MBR_BUFFER)}
  /\ Page(KERNEL_ADDR) \notin {Page(VESA_INFO), Page(MODE_INFO), Page(MBR_BUFFER)}
BY MemoryMapAssumption DEF Pages

LEMMA ContentsTypes ==
  /\ Junk \in Contents
  /\ \A lba \in Starts \cup {-1} :
       TableEntry(lba) \in Contents /\ Volume(lba) \in Contents /\ Kernel(lba) \in Contents
BY DEF Contents, Junk, TableEntry, Volume, Kernel, Starts

LEMMA InitBootInv == BootInit => BootInv
<1> SUFFICES ASSUME BootInit PROVE BootInv
  OBVIOUS
<1>1. machine \in Machines /\ bootPc = "DISK_Initialize" /\ offset = 0 /\ block = 0 /\ next = 0
      /\ regions = <<>>
      /\ bootMem = [p \in Pages |-> IF p = Page(PARTITION_ENTRY_SEGMENT * 16) /\ ~Floppy
                                THEN TableEntry(Home) ELSE Junk]
  BY DEF BootInit
<1>2. bootMem \in [Pages -> Contents]
  BY <1>1, ContentsTypes, Machine
<1>3. BootTypes
  BY <1>1, <1>2, Machine, BootAssumption DEF BootTypes, Known, Start, Starts
<1>4. VolumeFound
  BY <1>1, PagesApart DEF VolumeFound, Start, Detecting, LoadedPoints, InKernel
<1> QED
  BY <1>1, <1>3, <1>4
  DEF BootInv, VolumeFoundAgain, BlocksTaken, InKernel, Start, Detecting, LoadedPoints

\* DetectPartition finds the entry where one is.
LEMMA Detected ==
  ASSUME NEW memory \in [Pages -> Contents], NEW at, DetectPartition(memory, at),
         machine \in Machines
  PROVE  /\ offset' \in Starts \cup {-1}
         /\ Floppy => offset' = Home
         /\ at \in Pages /\ memory[at] = TableEntry(Home) => offset' = Home
<1>1. CASE Floppy
  BY <1>1, Machine DEF DetectPartition, Home
<1>2. CASE ~Floppy
  <2>1. offset' \in IF at \in Pages /\ memory[at][1] = "entry"
                    THEN {memory[at][2]} ELSE Starts \cup {-1}
    BY <1>2 DEF DetectPartition
  <2>2. at \in Pages => memory[at][2] \in Starts \cup {-1}
    BY DEF Contents
  <2>3. memory[at] = TableEntry(Home) => memory[at][1] = "entry" /\ memory[at][2] = Home
    BY DEF TableEntry
  <2> QED
    BY <1>2, <2>1, <2>2, <2>3
<1> QED
  BY <1>1, <1>2

LEMMA SameMachine ==
  ASSUME machine' = machine
  PROVE  Home' = Home /\ (Floppy' <=> Floppy) /\ BlocksKept' = BlocksKept
BY DEF Home, Floppy, BlocksKept

\* The steps of which only the place they lead to matters here.
Moves == [from : {"DISK_Initialize"}, to : {"MBR_DetectPartition", "halt"}]
         \cup [from : {"FAT_ReadDirectory"}, to : {"VBE_Initialize", "wild"}]
         \cup [from : {"WaitForEnter"}, to : {"kernelEntry"}]
         \cup [from : {"kernelEntry"}, to : {"Kernel_DISK_ReadSectors", "halt"}]
         \cup [from : {"Kernel_FAT_Initialize"}, to : {"Command_Line_Interface", "halt"}]

LEMMA MoveInv ==
  ASSUME BootInv, NEW move \in Moves, bootPc = move.from, bootPc' = move.to,
         UNCHANGED <<machine, bootMem, offset, detection, params>>
  PROVE  BootInv'
<1> USE DEF BootInv
<1>1. /\ machine' = machine /\ bootMem' = bootMem /\ offset' = offset /\ block' = block
      /\ next' = next /\ regions' = regions /\ params' = params
  BY DEF detection
<1>2. BootTypes'
  BY <1>1 DEF Moves, BootTypes, Known, Start, LoadedPoints, InKernel
<1>3. VolumeFound'
  BY <1>1, SameMachine DEF Moves, VolumeFound, Mounted, Start, Detecting, LoadedPoints, InKernel
<1>4. VolumeFoundAgain'
  BY <1>1, SameMachine DEF Moves, VolumeFoundAgain
<1>5. BlocksTaken'
  BY <1>1, SameMachine DEF Moves, BlocksTaken, Start, Detecting, LoadedPoints, InKernel
<1> QED
  BY <1>2, <1>3, <1>4, <1>5

LEMMA MovesInv ==
  ASSUME BootInv,
         Boot_DISK_Initialize \/ ReadFiles \/ WaitForEnter \/ Kernel_DISK_Initialize
         \/ Kernel_FAT_Initialize
  PROVE  BootInv'
<1>1. [from |-> bootPc, to |-> bootPc'] \in Moves
  BY DEF Moves, Boot_DISK_Initialize, ReadFiles, WaitForEnter, Kernel_DISK_Initialize,
         Kernel_FAT_Initialize, Ok, OrHalt
<1>2. UNCHANGED <<machine, bootMem, offset, detection, params>>
  BY DEF Boot_DISK_Initialize, ReadFiles, WaitForEnter, Kernel_DISK_Initialize,
         Kernel_FAT_Initialize
<1> QED
  BY <1>1, <1>2, MoveInv

LEMMA DetectInv == BootInv /\ MBR_DetectPartition => BootInv'
<1> SUFFICES ASSUME BootInv, MBR_DetectPartition PROVE BootInv'
  OBVIOUS
<1> USE DEF BootInv
<1> DEFINE at == Page(segoffset_to_linear(PARTITION_ENTRY_SEGMENT * Segment))
<1>1. /\ machine' = machine /\ bootMem' = bootMem /\ block' = block
      /\ next' = next /\ regions' = regions /\ params' = params
      /\ bootPc = "MBR_DetectPartition" /\ bootPc' = "FAT_Initialize"
      /\ DetectPartition(bootMem, at)
  BY DEF MBR_DetectPartition, Ok, detection
<1>2. at = Page(PARTITION_ENTRY_SEGMENT * 16)
  <2>1. PARTITION_ENTRY_SEGMENT \in Nat
    BY BootAssumption
  <2>2. segoffset_to_linear(PARTITION_ENTRY_SEGMENT * Segment) = PARTITION_ENTRY_SEGMENT * 16
    BY <2>1 DEF segoffset_to_linear, Segment
  <2> QED
    BY <2>2
<1> HIDE DEF at
<1>3. /\ offset' \in Starts \cup {-1} /\ (Floppy => offset' = Home)
      /\ at \in Pages /\ bootMem[at] = TableEntry(Home) => offset' = Home
  <2>1. bootMem \in [Pages -> Contents] /\ machine \in Machines
    BY DEF BootTypes
  <2> QED
    BY <1>1, <2>1, Detected
<1>4. offset' = Home
  BY <1>1, <1>2, <1>3, PagesApart DEF VolumeFound, Start
<1>5. BootTypes'
  BY <1>1, <1>3 DEF BootTypes, Known, Start, InKernel
<1>6. VolumeFound'
  BY <1>1, <1>4, SameMachine DEF VolumeFound, Start, Detecting, LoadedPoints, InKernel
<1>7. VolumeFoundAgain'
  BY <1>1 DEF VolumeFoundAgain
<1>8. BlocksTaken'
  BY <1>1, SameMachine DEF BlocksTaken, Start, Detecting, LoadedPoints, InKernel
<1> QED
  BY <1>5, <1>6, <1>7, <1>8

LEMMA MountInv == BootInv /\ FAT_Initialize => BootInv'
<1> SUFFICES ASSUME BootInv, FAT_Initialize PROVE BootInv'
  OBVIOUS
<1> USE DEF BootInv
<1>1. /\ machine' = machine /\ offset' = offset /\ block' = block
      /\ next' = next /\ regions' = regions /\ params' = params
      /\ bootPc = "FAT_Initialize" /\ bootPc' \in {"mem_Detect", "halt"}
      /\ bootMem' = [bootMem EXCEPT ![Page(FAT_ADDR)] = Volume(offset)]
  BY DEF FAT_Initialize, OrHalt, detection
<1>2. bootMem' \in [Pages -> Contents] /\ bootMem'[Page(FAT_ADDR)] = Volume(offset)
  BY <1>1, PagesApart, ContentsTypes DEF BootTypes
<1>3. BootTypes'
  BY <1>1, <1>2 DEF BootTypes, Known, Detecting, InKernel
<1>4. VolumeFound'
  BY <1>1, <1>2, SameMachine DEF VolumeFound, Mounted, Start, Detecting, LoadedPoints, InKernel
<1>5. VolumeFoundAgain'
  BY <1>1 DEF VolumeFoundAgain
<1>6. BlocksTaken'
  BY <1>1, SameMachine DEF BlocksTaken, Start, Detecting, LoadedPoints, InKernel
<1> QED
  BY <1>3, <1>4, <1>5, <1>6

\* A call for the next block of the memory map.
LEMMA BlockInv == BootInv /\ mem_Detect => BootInv'
<1> SUFFICES ASSUME BootInv, mem_Detect PROVE BootInv'
  OBVIOUS
<1> USE DEF BootInv
<1> DEFINE b == Block(next)
           taken == b.ret > 0 /\ b.next # 0
<1>1. /\ machine' = machine /\ bootMem' = bootMem /\ offset' = offset
      /\ bootPc \in Detecting /\ block' = b.block /\ next' = b.next
      /\ taken => /\ params' = params
                  /\ IF Len(regions) < MAX_REGIONS
                     THEN bootPc' = "E820" /\ regions' = Append(regions, b.block)
                     ELSE bootPc' = "wild" /\ regions' = regions
      /\ ~taken => /\ params' = [drive |-> machine.drive, regions |-> regions]
                   /\ bootPc' = "ELF_Read" /\ regions' = regions
  BY DEF mem_Detect, Ok, Detecting
<1>2. /\ block = Len(regions) /\ next = Len(regions) /\ \A k \in DOMAIN regions : regions[k] = k
      /\ regions \in Seq(Nat) /\ Len(regions) \in Nat /\ Len(regions) <= machine.blocks
      /\ Len(regions) <= MAX_REGIONS
      /\ machine.blocks \in Nat /\ MAX_REGIONS \in Nat /\ machine.ending \in {"zero", "error"}
      /\ machine.ending = "zero" /\ machine.blocks > 0 => next < machine.blocks
  BY <1>1, Machine, BootAssumption, SMTT(60) DEF BlocksTaken, BootTypes, Detecting, Start
<1>3. b = IF next < machine.blocks
          THEN [ret |-> 1, block |-> next + 1,
                next |-> IF next + 1 = machine.blocks /\ machine.ending = "zero"
                         THEN 0 ELSE next + 1]
          ELSE [ret |-> -1, block |-> block, next |-> next]
  BY DEF Block
<1> HIDE DEF b
<1>4. /\ taken => b.block = next + 1 /\ b.next = next + 1 /\ next < machine.blocks
      /\ taken /\ machine.ending = "zero" => next + 1 < machine.blocks
      /\ ~taken => next = machine.blocks
                      - (IF machine.ending = "zero" /\ machine.blocks > 0 THEN 1 ELSE 0)
      /\ b.block \in 0 .. machine.blocks /\ b.next \in 0 .. machine.blocks
  <2>1. CASE next < machine.blocks
    <3>1. /\ b.ret = 1 /\ b.block = next + 1
          /\ b.next = IF next + 1 = machine.blocks /\ machine.ending = "zero" THEN 0 ELSE next + 1
      BY <1>3, <2>1
    <3> QED
      BY <1>2, <2>1, <3>1
  <2>2. CASE ~(next < machine.blocks)
    <3>1. b.ret = -1 /\ b.block = block /\ b.next = next
      BY <1>3, <2>2
    <3>2. next = machine.blocks /\ (machine.ending = "zero" => machine.blocks = 0)
      BY <1>2, <2>2
    <3> QED
      BY <1>2, <2>2, <3>1, <3>2
  <2> QED
    BY <2>1, <2>2
<1> HIDE DEF taken
<1>5. CASE taken /\ Len(regions) < MAX_REGIONS
  <2>1. /\ regions' = Append(regions, next + 1) /\ bootPc' = "E820"
        /\ block' = next + 1 /\ next' = next + 1 /\ params' = params
    BY <1>1, <1>4, <1>5
  <2>2. /\ regions' \in Seq(Nat) /\ Len(regions') = Len(regions) + 1
        /\ \A k \in DOMAIN regions' : regions'[k] = k
    BY <1>2, <2>1
  <2>3. BootTypes'
    BY <1>1, <1>2, <1>4, <1>5, <2>1, <2>2 DEF BootTypes, Known, Detecting, InKernel
  <2>4. VolumeFound'
    BY <1>1, <2>1, SameMachine
    DEF VolumeFound, Mounted, Start, Detecting, LoadedPoints, InKernel
  <2>5. VolumeFoundAgain'
    BY <2>1 DEF VolumeFoundAgain
  <2>6. BlocksTaken'
    BY <1>1, <1>2, <1>4, <1>5, <2>1, <2>2 DEF BlocksTaken, Start, Detecting, LoadedPoints, InKernel
  <2> QED
    BY <2>3, <2>4, <2>5, <2>6
<1>6. CASE taken /\ ~(Len(regions) < MAX_REGIONS)
  <2>1. bootPc' = "wild" /\ regions' = regions
    BY <1>1, <1>6
  <2>2. BootTypes'
    BY <1>1, <1>4, <2>1 DEF BootTypes, Known, InKernel
  <2> QED
    BY <2>1, <2>2
    DEF VolumeFound, VolumeFoundAgain, BlocksTaken, Start, Detecting, LoadedPoints, InKernel
<1>7. CASE ~taken
  <2>1. /\ params' = [drive |-> machine.drive, regions |-> regions]
        /\ bootPc' = "ELF_Read" /\ regions' = regions
    BY <1>1, <1>7
  <2>2. BootTypes'
    BY <1>1, <1>4, <2>1 DEF BootTypes, Known, InKernel
  <2>3. VolumeFound'
    BY <1>1, <2>1, SameMachine
    DEF VolumeFound, Mounted, Start, Detecting, LoadedPoints, InKernel
  <2>4. VolumeFoundAgain'
    BY <2>1 DEF VolumeFoundAgain
  <2>5. params'.drive = machine.drive /\ params'.regions = regions
    BY <2>1
  <2>6. regions = BlocksKept
    BY <1>2, <1>4, <1>7 DEF BlocksKept
  <2>7. BlocksTaken'
    BY <1>1, <2>1, <2>5, <2>6, SameMachine
    DEF BlocksTaken, Start, Detecting, LoadedPoints, InKernel
  <2> QED
    BY <2>2, <2>3, <2>4, <2>7
<1> QED
  BY <1>5, <1>6, <1>7

LEMMA ElfReadInv == BootInv /\ ELF_Read => BootInv'
<1> SUFFICES ASSUME BootInv, ELF_Read PROVE BootInv'
  OBVIOUS
<1> USE DEF BootInv
<1>1. /\ machine' = machine /\ offset' = offset /\ block' = block
      /\ next' = next /\ regions' = regions /\ params' = params
      /\ bootPc = "ELF_Read" /\ bootPc' \in {"FAT_ReadDirectory", "halt", "wild"}
      /\ bootMem' = [p \in Pages |->
           IF p = Page(KERNEL_ADDR) /\ Mounted = Volume(offset) /\ bootPc' = "FAT_ReadDirectory"
           THEN Kernel(offset)
           ELSE IF p \in {Page(ELF_ADDR), Page(LOAD_KERNEL), Page(KERNEL_ADDR)} THEN Junk
           ELSE bootMem[p]]
  BY DEF ELF_Read, detection
<1>2. offset = Home /\ Mounted = Volume(Home) /\ offset \in Starts \cup {-1}
      /\ bootMem \in [Pages -> Contents]
  BY <1>1 DEF VolumeFound, BootTypes
<1>3. bootMem' \in [Pages -> Contents]
  BY <1>1, <1>2, ContentsTypes
<1>4. bootMem'[Page(FAT_ADDR)] = bootMem[Page(FAT_ADDR)]
  BY <1>1, PagesApart
<1>5. bootPc' = "FAT_ReadDirectory" => bootMem'[Page(KERNEL_ADDR)] = Kernel(Home)
  BY <1>1, <1>2, PagesApart
<1>6. BootTypes'
  BY <1>1, <1>3 DEF BootTypes, Known, LoadedPoints, InKernel
<1>7. VolumeFound'
  BY <1>1, <1>2, <1>4, <1>5, SameMachine
  DEF VolumeFound, Mounted, Start, Detecting, LoadedPoints, InKernel
<1>8. VolumeFoundAgain'
  BY <1>1 DEF VolumeFoundAgain
<1>9. BlocksTaken'
  BY <1>1, SameMachine DEF BlocksTaken, Start, Detecting, LoadedPoints, InKernel
<1> QED
  BY <1>6, <1>7, <1>8, <1>9

LEMMA VideoInv == BootInv /\ VBE_Initialize => BootInv'
<1> SUFFICES ASSUME BootInv, VBE_Initialize PROVE BootInv'
  OBVIOUS
<1> USE DEF BootInv
<1>1. /\ machine' = machine /\ offset' = offset /\ block' = block
      /\ next' = next /\ regions' = regions /\ params' = params
      /\ bootPc = "VBE_Initialize" /\ bootPc' \in {"WaitForEnter", "halt"}
      /\ bootMem' = [bootMem EXCEPT ![Page(VESA_INFO)] = Junk, ![Page(MODE_INFO)] = Junk]
  BY DEF VBE_Initialize, OrHalt, detection
<1>2. /\ bootMem' \in [Pages -> Contents]
      /\ bootMem'[Page(FAT_ADDR)] = bootMem[Page(FAT_ADDR)]
      /\ bootMem'[Page(KERNEL_ADDR)] = bootMem[Page(KERNEL_ADDR)]
  BY <1>1, PagesApart, ContentsTypes DEF BootTypes
<1>3. BootTypes'
  BY <1>1, <1>2 DEF BootTypes, Known, LoadedPoints, InKernel
<1>4. VolumeFound'
  BY <1>1, <1>2, SameMachine DEF VolumeFound, Mounted, Start, Detecting, LoadedPoints, InKernel
<1>5. VolumeFoundAgain'
  BY <1>1 DEF VolumeFoundAgain
<1>6. BlocksTaken'
  BY <1>1, SameMachine DEF BlocksTaken, Start, Detecting, LoadedPoints, InKernel
<1> QED
  BY <1>3, <1>4, <1>5, <1>6

LEMMA TableInv == BootInv /\ Kernel_ReadTable => BootInv'
<1> SUFFICES ASSUME BootInv, Kernel_ReadTable PROVE BootInv'
  OBVIOUS
<1> USE DEF BootInv
<1>1. /\ machine' = machine /\ offset' = offset /\ block' = block
      /\ next' = next /\ regions' = regions /\ params' = params
      /\ bootPc = "Kernel_DISK_ReadSectors" /\ bootPc' = "Kernel_MBR_DetectPartition"
  BY DEF Kernel_ReadTable, Ok, detection
<1>2. PICK read \in {~Floppy} \cup (IF MbrMayFail THEN {FALSE} ELSE {}) :
        bootMem' =
          [bootMem EXCEPT ![Page(MBR_BUFFER)] = IF read THEN TableEntry(Table[0]) ELSE Junk]
  BY DEF Kernel_ReadTable
<1>3. Table[0] \in Starts
  BY DEF Starts
<1>4. /\ bootMem' \in [Pages -> Contents]
      /\ bootMem'[Page(FAT_ADDR)] = bootMem[Page(FAT_ADDR)]
      /\ bootMem'[Page(KERNEL_ADDR)] = bootMem[Page(KERNEL_ADDR)]
      /\ bootMem'[Page(MBR_BUFFER)] = IF read THEN TableEntry(Table[0]) ELSE Junk
  BY <1>2, <1>3, PagesApart, ContentsTypes DEF BootTypes
<1>5. FirstEntry /\ ~Floppy => bootMem'[Page(MBR_BUFFER)] = TableEntry(Home)
  <2>1. FirstEntry /\ ~Floppy => read /\ machine.entry = 0
    BY <1>2, Machine DEF FirstEntry, BootTypes
  <2> QED
    BY <1>4, <2>1 DEF Home
<1>6. BootTypes'
  BY <1>1, <1>4 DEF BootTypes, InKernel
<1>7. VolumeFound'
  BY <1>1, <1>4, SameMachine DEF VolumeFound, Mounted, Start, Detecting, LoadedPoints, InKernel
<1>8. VolumeFoundAgain'
  BY <1>1, <1>5, SameMachine DEF VolumeFoundAgain
<1>9. BlocksTaken'
  BY <1>1, SameMachine DEF BlocksTaken, Start, Detecting, LoadedPoints, InKernel
<1> QED
  BY <1>6, <1>7, <1>8, <1>9

LEMMA KernelDetectInv == BootInv /\ Kernel_MBR_DetectPartition => BootInv'
<1> SUFFICES ASSUME BootInv, Kernel_MBR_DetectPartition PROVE BootInv'
  OBVIOUS
<1> USE DEF BootInv
<1>1. /\ machine' = machine /\ bootMem' = bootMem /\ block' = block
      /\ next' = next /\ regions' = regions /\ params' = params
      /\ bootPc = "Kernel_MBR_DetectPartition" /\ bootPc' = "Kernel_FAT_Initialize"
  BY DEF Kernel_MBR_DetectPartition, Ok, detection
<1>2. DetectPartition(bootMem, Page(MBR_BUFFER))
  <2>1. segoffset_to_linear(MBR_BUFFER) = MBR_BUFFER
    <3>1. MBR_BUFFER \in Nat
      BY BootAssumption
    <3>2. MBR_BUFFER < 65536
      BY MemoryMapAssumption DEF Segment
    <3>3. MBR_BUFFER \div 65536 = 0 /\ MBR_BUFFER % 65536 = MBR_BUFFER
      BY SMT, <3>1, <3>2
    <3> QED
      BY <3>1, <3>3 DEF segoffset_to_linear, Segment
  <2> QED
    BY <2>1 DEF Kernel_MBR_DetectPartition
<1>3. /\ offset' \in Starts \cup {-1} /\ (Floppy => offset' = Home)
      /\ bootMem[Page(MBR_BUFFER)] = TableEntry(Home) => offset' = Home
  <2>1. bootMem \in [Pages -> Contents] /\ machine \in Machines /\ Page(MBR_BUFFER) \in Pages
    BY PagesApart DEF BootTypes
  <2> QED
    BY <1>2, <2>1, Detected
<1>4. BootTypes'
  BY <1>1, <1>3 DEF BootTypes, InKernel
<1>5. VolumeFound'
  BY <1>1, SameMachine DEF VolumeFound, Mounted, Start, Detecting, LoadedPoints, InKernel
<1>6. VolumeFoundAgain'
  BY <1>1, <1>3, SameMachine DEF VolumeFoundAgain
<1>7. BlocksTaken'
  BY <1>1, SameMachine DEF BlocksTaken, Start, Detecting, LoadedPoints, InKernel
<1> QED
  BY <1>4, <1>5, <1>6, <1>7

LEMMA BootStep == BootInv /\ [BootNext]_bootVars => BootInv'
<1> SUFFICES ASSUME BootInv, [BootNext]_bootVars PROVE BootInv'
  OBVIOUS
<1>1. CASE UNCHANGED bootVars
  <2>1. /\ machine' = machine /\ bootMem' = bootMem /\ offset' = offset /\ block' = block
        /\ next' = next /\ regions' = regions /\ params' = params /\ bootPc' = bootPc
    BY <1>1 DEF bootVars
  <2> QED
    BY <2>1, SameMachine
    DEF BootInv, BootTypes, VolumeFound, VolumeFoundAgain, BlocksTaken, Mounted, InKernel
<1> QED
  BY <1>1, MovesInv, DetectInv, MountInv, BlockInv, ElfReadInv, VideoInv, TableInv,
     KernelDetectInv DEF BootNext

LEMMA BootFacts ==
  ASSUME BootInv
  PROVE  /\ BootTypeOK /\ KernelEnteredWhole /\ RegionsAreBlocks
         /\ FirstEntry => MountsBootVolume
<1> USE DEF BootInv
<1>1. BootTypeOK
  BY DEF BootTypes, BootTypeOK, Known, Start, Detecting, LoadedPoints
<1>2. KernelEnteredWhole
  BY DEF VolumeFound, BlocksTaken, KernelEnteredWhole
<1>3. RegionsAreBlocks
  BY DEF BlocksTaken, RegionsAreBlocks
<1>4. FirstEntry => MountsBootVolume
  BY DEF VolumeFound, VolumeFoundAgain, MountsBootVolume, InKernel
<1> QED
  BY <1>1, <1>2, <1>3, <1>4
-----------------------------------------------------------------------------
(***************************************************************************)
(* ELF_Read: of each segment memory holds what has been copied, and zeros. *)
(***************************************************************************)
\* The kernel's loadable segments have lengths of 16 bits and places of their own.
SegmentsFit ==
  \A f \in Files : \A m, n \in DOMAIN f.segments :
    /\ f.segments[m].load => f.segments[m].memSize < ELF_WORD
    /\ f.segments[m].load /\ f.segments[n].load /\ m # n =>
         \A a \in Addresses : ~(/\ a - f.segments[m].addr \in 0 .. f.segments[m].memSize - 1
                                /\ a - f.segments[n].addr \in 0 .. f.segments[n].memSize - 1)

Place(n) == {a \in Addresses : a - file.segments[n].addr \in 0 .. file.segments[n].memSize - 1}

LEMMA ElfSizes ==
  /\ HEADER_SIZE \in Nat /\ ENTRY_SIZE \in Nat
  /\ LOAD_SIZE \in Nat \ {0} /\ ELF_WORD \in Nat \ {0} /\ Addresses \subseteq Nat
BY ElfAssumption

LEMMA FileSizes ==
  ASSUME file \in Files
  PROVE  /\ file # NoFile /\ file.size \in Nat /\ file.tableAt \in Nat
         /\ file.tableAt - HEADER_SIZE \in Nat
         /\ Len(file.segments) \in Nat /\ DOMAIN file.segments = 1 .. Len(file.segments)
         /\ TableSize \in Nat
         /\ \A n \in DOMAIN file.segments :
              /\ file.segments[n].load \in BOOLEAN
              /\ file.segments[n].offset \in Nat /\ file.segments[n].addr \in Nat
               /\ file.segments[n].fileSize \in Nat
              /\ file.segments[n].memSize \in Nat
              /\ file.segments[n].fileSize <= file.segments[n].memSize
<1>1. FileOK(file) /\ file # NoFile
  BY ElfAssumption
<1>2. Len(file.segments) \in Nat /\ file.tableAt \in Nat /\ file.tableAt >= HEADER_SIZE
  BY <1>1 DEF FileOK
<1>3. TableSize \in Nat
  BY <1>2, ElfSizes DEF TableSize
<1>4. file.tableAt - HEADER_SIZE \in Nat
  BY <1>2, ElfSizes
<1> QED
  BY <1>1, <1>2, <1>3, <1>4 DEF FileOK

\* What a read does to the handle: it moves on within the file, and what did not come
\* short tore nothing.
LEMMA ReadMoves ==
  ASSUME file \in Files, pos \in 0 .. file.size, torn \in BOOLEAN,
         NEW n \in Nat, NEW r \in Int, FatRead(n, r)
  PROVE  /\ r \in 0 .. n /\ pos' = pos + r /\ pos' \in 0 .. file.size /\ torn' \in BOOLEAN
         /\ r = n => torn' = torn
<1> DEFINE available == Lower(n, file.size - pos)
<1>1. available \in 0 .. n /\ available \in 0 .. file.size - pos
  BY FileSizes DEF Lower
<1>2. r \in 0 .. available /\ pos' = pos + r /\ torn' = (torn \/ r < available)
  BY <1>1 DEF FatRead
<1> HIDE DEF available
<1> QED
  BY <1>1, <1>2, FileSizes
-----------------------------------------------------------------------------
\* The segments whose memory has been cleared, and how much of one has been copied.
InHand == elfPc \in {"openSegment", "seek", "copy"}
Begun == {n \in Loadable : n < ph \/ (n = ph /\ InHand)}
CopiedOf(n) ==
  IF n < ph THEN file.segments[n].fileSize
  ELSE IF elfPc = "copy" THEN file.segments[n].fileSize - left ELSE 0

\* What a segment's place in memory holds when that much of it has been copied.
Holds(n, much, a) ==
  LET s == file.segments[n]
  IN IF a - s.addr < much THEN s.offset + (a - s.addr) ELSE ElfZero

MemoryHolds ==
  \A a \in Addresses :
    /\ \A n \in Begun : a \in Place(n) => elfMem[a] = Holds(n, CopiedOf(n), a)
    /\ (\A n \in Begun : a \notin Place(n)) => elfMem[a] = Old

\* The handle of the segment in hand stands where the rest of it is.
Progress ==
  /\ elfPc \in {"segment", "openSegment", "seek", "copy", "true"} => ~torn
  /\ InHand => ph \in Loadable
  /\ InHand => addr = ElfSegment.addr + CopiedOf(ph)
  /\ elfPc = "seek" => pos + left = ElfSegment.offset
  /\ elfPc = "copy" => left <= ElfSegment.fileSize /\ pos = ElfSegment.offset + CopiedOf(ph)
  /\ elfPc = "true" => ph = Len(file.segments) + 1

HandleOpen == elfPc \in {"header", "seekTable", "table", "seek", "copy"}
OneHeld ==
  /\ held \in {0, 1}
  /\ HandleOpen => held = 1
  /\ elfPc \in {"open", "segment", "openSegment", "true"} => held = 0

ElfInv ==
  /\ ElfTypeOK /\ OneHeld
  /\ file \in Files \cup {NoFile}
  /\ elfPc \notin {"open", "wild"} => file \in Files
  /\ elfPc \in {"open", "header", "seekTable", "table"} => ph = 1
  /\ elfPc \in {"segment", "openSegment", "seek", "copy", "true"} => Progress
  /\ SegmentsFit /\ file \in Files /\ elfPc \notin {"false", "wild"} => MemoryHolds

LEMMA InitElfInv == ElfInit => ElfInv
<1> SUFFICES ASSUME ElfInit PROVE ElfInv
  OBVIOUS
<1>1. /\ file \in Files \cup {NoFile} /\ elfPc = "open" /\ held = 0 /\ pos = 0
      /\ ph = 1 /\ left = 0 /\ addr = 0 /\ elfMem = [a \in Addresses |-> Old]
  BY DEF ElfInit
<1>2. torn \in BOOLEAN
  BY DEF ElfInit
<1>3. file = NoFile \/ (pos <= file.size /\ ph <= Len(file.segments) + 1)
  BY <1>1, FileSizes
<1>4. ElfTypeOK
  BY <1>1, <1>2, <1>3 DEF ElfTypeOK
<1>5. file \in Files => MemoryHolds
  <2>1. file \in Files => Begun = {}
    BY <1>1, FileSizes DEF Begun, InHand, Loadable
  <2> QED
    BY <1>1, <2>1 DEF MemoryHolds
<1> QED
  BY <1>1, <1>4, <1>5 DEF ElfInv, OneHeld, HandleOpen

\* Before the table is read nothing is written.
LEMMA HeaderInv ==
  ElfInv /\ (OpenHeader \/ ReadHeader \/ SeekTable \/ ReadTable) => ElfInv'
<1> SUFFICES ASSUME ElfInv, OpenHeader \/ ReadHeader \/ SeekTable \/ ReadTable PROVE ElfInv'
  OBVIOUS
<1>1. /\ file' = file /\ ph' = ph /\ left' = left /\ addr' = addr /\ elfMem' = elfMem
      /\ elfPc \in {"open", "header", "seekTable", "table"} /\ ph = 1
  BY DEF ElfInv, OpenHeader, ReadHeader, SeekTable, ReadTable
<1>2. /\ ElfTypeOK /\ OneHeld /\ file \in Files \cup {NoFile}
      /\ elfPc # "open" => file \in Files
      /\ SegmentsFit /\ file \in Files => MemoryHolds
  BY <1>1 DEF ElfInv
<1>3. /\ held' \in {0, 1} /\ torn' \in BOOLEAN /\ pos' \in Nat
      /\ file' \in Files => pos' \in 0 .. file.size
      /\ elfPc' \in {"header", "seekTable", "table", "segment", "false", "wild"}
      /\ elfPc' # "wild" => file' \in Files
      /\ elfPc' \in {"header", "seekTable", "table"} => held' = 1
      /\ elfPc' = "segment" => held' = 0 /\ ~torn'
  <2>1. CASE OpenHeader
    <3>1. /\ elfPc = "open" /\ held = 0
      BY <2>1, <1>2 DEF OpenHeader, OneHeld
    <3>2. CASE /\ file # NoFile
               /\ held' = held + 1 /\ pos' = 0 /\ torn' = FALSE /\ elfPc' = "header"
      <4>1. file \in Files /\ file.size \in Nat
        BY <1>2, <3>2, FileSizes
      <4>2. held' = 1 /\ pos' \in 0 .. file.size /\ elfPc' = "header"
        BY <3>1, <3>2, <4>1
      <4>3. torn' \in BOOLEAN
        BY <3>2
      <4> QED
        BY <1>1, <4>1, <4>2, <4>3
    <3>3. CASE elfPc' = "wild" /\ UNCHANGED <<held, pos, torn>>
      BY <1>1, <1>2, <3>1, <3>3, FileSizes DEF ElfTypeOK
    <3> QED
      BY <2>1, <3>2, <3>3 DEF OpenHeader, Open
  <2> DEFINE here == file \in Files /\ held = 1 /\ pos \in 0 .. file.size /\ torn \in BOOLEAN
  <2>2. elfPc # "open" => here
    BY <1>1, <1>2, FileSizes DEF ElfTypeOK, OneHeld, HandleOpen
  <2>3. CASE ReadHeader
    <3>1. PICK r \in 0 .. HEADER_SIZE : FatRead(HEADER_SIZE, r)
      BY <2>3 DEF ReadHeader
    <3>2. elfPc = "header" /\ elfPc' \in {"seekTable", "false"} /\ held' = held
      BY <2>3 DEF ReadHeader
    <3>3. pos' \in 0 .. file.size /\ torn' \in BOOLEAN
      BY <2>2, <3>1, <3>2, ReadMoves, ElfSizes
    <3> QED
      BY <1>1, <2>2, <3>2, <3>3, FileSizes
  <2>4. CASE SeekTable
    <3>1. PICK r \in 0 .. file.tableAt - HEADER_SIZE : FatRead(file.tableAt - HEADER_SIZE, r)
      BY <2>4 DEF SeekTable
    <3>2. elfPc = "seekTable" /\ elfPc' = "table" /\ held' = held
      BY <2>4 DEF SeekTable
    <3>3. pos' \in 0 .. file.size /\ torn' \in BOOLEAN
      BY <2>2, <3>1, <3>2, ReadMoves, FileSizes
    <3> QED
      BY <1>1, <2>2, <3>2, <3>3, FileSizes
  <2>5. CASE ReadTable
    <3>1. PICK r \in 0 .. TableSize :
            /\ FatRead(TableSize, r)
            /\ IF r # TableSize THEN elfPc' = "false" /\ UNCHANGED held
               ELSE /\ elfPc' = IF torn \/ pos # file.tableAt THEN "wild" ELSE "segment"
                    /\ held' = held - 1
      BY <2>5 DEF ReadTable
    <3>2. elfPc = "table"
      BY <2>5 DEF ReadTable
    <3>3. pos' \in 0 .. file.size /\ torn' \in BOOLEAN /\ (r = TableSize => torn' = torn)
      BY <2>2, <3>1, <3>2, ReadMoves, FileSizes
    <3>4. CASE r # TableSize
      BY <1>1, <2>2, <3>1, <3>2, <3>3, <3>4, FileSizes
    <3>5. CASE r = TableSize
      <4>1. held' = 0 /\ elfPc' \in {"wild", "segment"} /\ (elfPc' = "segment" => ~torn)
        BY <2>2, <3>1, <3>2, <3>5
      <4> QED
        BY <1>1, <2>2, <3>2, <3>3, <3>5, <4>1, FileSizes
    <3> QED
      BY <3>4, <3>5
  <2> QED
    BY <2>1, <2>3, <2>4, <2>5
<1>4. ElfTypeOK'
  BY <1>1, <1>2, <1>3, FileSizes DEF ElfTypeOK
<1>5. ASSUME SegmentsFit, file \in Files, elfPc' # "wild" PROVE MemoryHolds'
  <2>1. Begun = {}
    BY <1>1, <1>5, FileSizes DEF Begun, InHand, Loadable
  <2>2. Begun' = {}
    BY <1>1, <1>3, <1>5, FileSizes DEF Begun, InHand, Loadable
  <2>3. \A a \in Addresses : elfMem[a] = Old
    BY <1>2, <1>5, <2>1 DEF MemoryHolds
  <2> QED
    BY <1>1, <2>2, <2>3 DEF MemoryHolds
<1>6. OneHeld'
  BY <1>3 DEF OneHeld, HandleOpen
<1>7. elfPc' = "segment" => Progress'
  BY <1>1, <1>3 DEF Progress, InHand
<1> QED
  BY <1>1, <1>2, <1>3, <1>4, <1>5, <1>6, <1>7 DEF ElfInv
-----------------------------------------------------------------------------
LEMMA ShortLength ==
  ASSUME NEW n \in Nat, n < ELF_WORD
  PROVE  n % ELF_WORD = n
<1>1. n = 0 * ELF_WORD + n /\ ELF_WORD \in Nat \ {0} /\ n \in 0 .. ELF_WORD - 1
  BY ElfSizes
<1> QED
  BY <1>1, QuotientOf

\* What filling memory from an address on, by so many bytes, does.
LEMMA Filled ==
  ASSUME NEW from, NEW m, NEW b, DOMAIN b = 0 .. m - 1, Fill(from, b)
  PROVE  \A a \in Addresses :
           elfMem'[a] = IF a - from \in 0 .. m - 1 THEN b[a - from] ELSE elfMem[a]
BY DEF Fill

\* Between two segments, and at the entries that are not loaded.
LEMMA NextSegmentInv == ElfInv /\ NextSegment => ElfInv'
<1> SUFFICES ASSUME ElfInv, NextSegment PROVE ElfInv'
  OBVIOUS
<1>1. /\ elfPc = "segment" /\ file' = file /\ held' = held /\ pos' = pos /\ torn' = torn
      /\ left' = left
  BY DEF NextSegment
<1>2. /\ ElfTypeOK /\ held = 0 /\ file \in Files /\ ~torn /\ Progress
      /\ SegmentsFit => MemoryHolds
  BY <1>1 DEF ElfInv, OneHeld, Progress
<1>3. /\ ph \in Nat \ {0} /\ ph <= Len(file.segments) + 1 /\ Len(file.segments) \in Nat
      /\ DOMAIN file.segments = 1 .. Len(file.segments)
  BY <1>2, FileSizes, ElfAssumption DEF ElfTypeOK
<1>4. CASE ph > Len(file.segments)
  <2>1. elfPc' = "true" /\ ph' = ph /\ addr' = addr /\ elfMem' = elfMem
    BY <1>4 DEF NextSegment
  <2>2. ElfTypeOK'
    BY <1>1, <1>2, <2>1 DEF ElfTypeOK
  <2>3. Progress'
    BY <1>1, <1>2, <1>3, <1>4, <2>1 DEF Progress, InHand
  <2>4. ASSUME SegmentsFit PROVE MemoryHolds'
    BY <1>1, <1>2, <2>1, <2>4 DEF MemoryHolds, Begun, InHand, Loadable, CopiedOf, Holds, Place
  <2> QED
    BY <1>1, <1>2, <2>1, <2>2, <2>3, <2>4 DEF ElfInv, OneHeld, HandleOpen
<1>5. CASE ph <= Len(file.segments) /\ ~ElfSegment.load
  <2>1. elfPc' = elfPc /\ ph' = ph + 1 /\ addr' = addr /\ elfMem' = elfMem
    BY <1>3, <1>5 DEF NextSegment
  <2>2. ElfTypeOK'
    BY <1>1, <1>2, <1>3, <1>5, <2>1 DEF ElfTypeOK
  <2>3. Progress'
    BY <1>1, <1>2, <1>3, <1>5, <2>1 DEF Progress, InHand
  <2>4. ASSUME SegmentsFit PROVE MemoryHolds'
    <3>1. Begun' = Begun
      BY <1>1, <1>3, <1>5, <2>1 DEF Begun, InHand, Loadable, ElfSegment
    <3>2. \A n \in Begun : CopiedOf(n)' = CopiedOf(n)
      BY <1>1, <1>3, <1>5, <2>1 DEF Begun, InHand, Loadable, CopiedOf
    <3> QED
      BY <1>1, <1>2, <2>1, <2>4, <3>1, <3>2 DEF MemoryHolds, Holds, Place
  <2> QED
    BY <1>1, <1>2, <2>1, <2>2, <2>3, <2>4 DEF ElfInv, OneHeld, HandleOpen
<1>6. CASE ph <= Len(file.segments) /\ ElfSegment.load
  <2> DEFINE s == ElfSegment
             m == s.memSize % ELF_WORD
             zeros == [k \in 0 .. m - 1 |-> ElfZero]
  <2>1. /\ elfPc' = "openSegment" /\ ph' = ph /\ addr' = s.addr /\ Fill(s.addr, zeros)
    BY <1>3, <1>6 DEF NextSegment
  <2>2. ph \in Loadable /\ s.addr \in Nat /\ s.memSize \in Nat
    BY <1>2, <1>3, <1>6, FileSizes DEF Loadable, ElfSegment
  <2>3. \A a \in Addresses :
          elfMem'[a] = IF a - s.addr \in 0 .. m - 1 THEN ElfZero ELSE elfMem[a]
    <3> HIDE DEF s, m
    <3> QED
      BY <2>1 DEF Fill
  <2>4. elfMem' \in [Addresses -> Nat \cup {Old, ElfZero, Garbage}]
    <3>1. elfMem' = [a \in Addresses |-> elfMem'[a]]
      BY <2>1 DEF Fill
    <3> HIDE DEF s, m
    <3> QED
      BY <1>2, <2>3, <3>1 DEF ElfTypeOK
  <2>5. ElfTypeOK'
    BY <1>1, <1>2, <1>3, <1>6, <2>1, <2>2, <2>4 DEF ElfTypeOK
  <2>6. CopiedOf(ph)' = 0
    BY <1>3, <2>1 DEF CopiedOf
  <2>7. Progress'
    <3>1. InHand' /\ Loadable' = Loadable /\ ElfSegment' = ElfSegment
      BY <1>1, <2>1 DEF InHand, Loadable, ElfSegment
    <3>2. addr' = ElfSegment'.addr + CopiedOf(ph)'
      BY <2>1, <2>2, <2>6, <3>1
    <3> QED
      BY <1>1, <1>2, <2>1, <2>2, <3>1, <3>2 DEF Progress
  <2>8. ASSUME SegmentsFit PROVE MemoryHolds'
    <3>1. m = s.memSize
      BY <1>2, <1>3, <2>2, <2>8, ShortLength DEF SegmentsFit, Loadable, ElfSegment
    <3>2. Begun' = Begun \cup {ph} /\ ph \notin Begun
      BY <1>1, <1>3, <2>1, <2>2 DEF Begun, InHand, Loadable
    <3>3. \A n \in Begun : CopiedOf(n)' = CopiedOf(n)
      BY <1>1, <1>3, <2>1 DEF Begun, InHand, Loadable, CopiedOf
    <3>4. \A a \in Addresses : a \in Place(ph) <=> a - s.addr \in 0 .. m - 1
      BY <3>1 DEF Place, ElfSegment
    <3>5. \A n \in Begun, a \in Addresses : a \in Place(n) => a \notin Place(ph)
      BY <1>2, <2>2, <2>8, <3>2 DEF SegmentsFit, Begun, Loadable, Place
    <3>6. \A a \in Place(ph) : Holds(ph, 0, a) = ElfZero
      BY <2>2, ElfSizes DEF Holds, Place, ElfSegment
    <3>7. \A n, much, a : Place(n)' = Place(n) /\ Holds(n, much, a)' = Holds(n, much, a)
      BY <1>1 DEF Place, Holds
    <3> HIDE DEF s, m, zeros
    <3>8. ASSUME NEW a \in Addresses, NEW n \in Begun', a \in Place(n)
          PROVE  elfMem'[a] = Holds(n, CopiedOf(n)', a)
      <4>1. CASE n = ph
        BY <2>3, <2>6, <3>4, <3>6, <3>8, <4>1, <2>1
      <4>2. CASE n # ph
        BY <1>2, <2>3, <2>8, <3>2, <3>3, <3>4, <3>5, <3>8, <4>2 DEF MemoryHolds
      <4> QED
        BY <4>1, <4>2
    <3>9. ASSUME NEW a \in Addresses, \A n \in Begun' : a \notin Place(n)
          PROVE  elfMem'[a] = Old
      BY <1>2, <2>3, <2>8, <3>2, <3>4, <3>9 DEF MemoryHolds
    <3> QED
      BY <3>7, <3>8, <3>9 DEF MemoryHolds
  <2> QED
    BY <1>1, <1>2, <2>1, <2>5, <2>7, <2>8 DEF ElfInv, OneHeld, HandleOpen
<1> QED
  BY <1>3, <1>4, <1>5, <1>6

\* In a segment memory holds the same as long as what has been copied is the same.
LEMMA SameMemory ==
  ASSUME MemoryHolds, file' = file, ph' = ph, elfMem' = elfMem, InHand' = InHand,
         InHand => CopiedOf(ph)' = CopiedOf(ph), ph \in Nat, file \in Files
  PROVE  MemoryHolds'
<1>1. Begun' = Begun
  BY DEF Begun, Loadable
<1>2. \A n \in Begun : CopiedOf(n)' = CopiedOf(n)
  BY DEF Begun, CopiedOf
<1> QED
  BY <1>1, <1>2 DEF MemoryHolds, Holds, Place

\* A segment is in hand.
LEMMA HandFacts ==
  ASSUME ElfInv, InHand
  PROVE  /\ ElfTypeOK /\ file \in Files /\ ~torn /\ ph \in Loadable /\ ph \in DOMAIN file.segments
         /\ ph \in Nat \ {0} /\ ph <= Len(file.segments) + 1
         /\ pos \in 0 .. file.size /\ left \in Nat /\ addr \in Nat
         /\ addr = ElfSegment.addr + CopiedOf(ph)
         /\ ElfSegment.addr \in Nat /\ ElfSegment.offset \in Nat /\ ElfSegment.memSize \in Nat
         /\ ElfSegment.fileSize \in Nat /\ ElfSegment.fileSize <= ElfSegment.memSize
         /\ held = IF elfPc = "openSegment" THEN 0 ELSE 1
         /\ SegmentsFit => MemoryHolds
<1>1. /\ ElfTypeOK /\ file \in Files /\ Progress /\ OneHeld
      /\ SegmentsFit => MemoryHolds
  BY DEF ElfInv, InHand
<1>2. ~torn /\ ph \in Loadable /\ addr = ElfSegment.addr + CopiedOf(ph)
  BY <1>1 DEF Progress, InHand
<1>3. ph \in DOMAIN file.segments
  BY <1>2 DEF Loadable
<1>4. held = IF elfPc = "openSegment" THEN 0 ELSE 1
  BY <1>1 DEF OneHeld, HandleOpen, InHand
<1>5. file # NoFile /\ file.size \in Nat
  BY <1>1, FileSizes
<1>6. /\ ph \in Nat \ {0} /\ ph <= Len(file.segments) + 1
      /\ pos \in 0 .. file.size /\ left \in Nat /\ addr \in Nat
  BY <1>1, <1>5 DEF ElfTypeOK
<1> QED
  BY <1>1, <1>2, <1>3, <1>4, <1>6, FileSizes DEF ElfSegment

LEMMA OpenSegmentInv == ElfInv /\ OpenSegment => ElfInv'
<1> SUFFICES ASSUME ElfInv, OpenSegment PROVE ElfInv'
  OBVIOUS
<1>1. /\ elfPc = "openSegment" /\ file' = file /\ ph' = ph /\ addr' = addr /\ elfMem' = elfMem
      /\ left' = ElfSegment.offset /\ Open("seek")
  BY DEF OpenSegment
<1>2. InHand
  BY <1>1 DEF InHand
<1>3. /\ ElfTypeOK /\ file \in Files /\ ~torn /\ ph \in Loadable /\ held = 0
      /\ ph \in Nat \ {0} /\ ph <= Len(file.segments) + 1 /\ pos \in 0 .. file.size
      /\ addr = ElfSegment.addr + CopiedOf(ph) /\ ElfSegment.offset \in Nat
      /\ SegmentsFit => MemoryHolds
  BY <1>1, <1>2, HandFacts
<1>4. CASE held' = held + 1 /\ pos' = 0 /\ torn' = FALSE /\ elfPc' = "seek"
  <2>1. torn' \in BOOLEAN /\ ~torn'
    BY <1>4
  <2>2. held' = 1 /\ pos' = 0 /\ elfPc' = "seek" /\ file.size \in Nat
    BY <1>3, <1>4, FileSizes
  <2>3. ElfTypeOK'
    BY <1>1, <1>3, <2>1, <2>2 DEF ElfTypeOK
  <2>4. InHand' /\ CopiedOf(ph)' = CopiedOf(ph) /\ Loadable' = Loadable /\ ElfSegment' = ElfSegment
    BY <1>1, <2>2 DEF InHand, CopiedOf, Loadable, ElfSegment
  <2>5. Progress'
    BY <1>1, <1>3, <2>1, <2>2, <2>4 DEF Progress
  <2>6. SegmentsFit => MemoryHolds'
    BY <1>1, <1>2, <1>3, <2>4, SameMemory
  <2> QED
    BY <1>1, <1>3, <2>2, <2>3, <2>5, <2>6 DEF ElfInv, OneHeld, HandleOpen
<1>5. CASE elfPc' = "wild" /\ UNCHANGED <<held, pos, torn>>
  <2>1. ElfTypeOK'
    BY <1>1, <1>3, <1>5 DEF ElfTypeOK
  <2> QED
    BY <1>1, <1>3, <1>5, <2>1 DEF ElfInv, OneHeld, HandleOpen
<1> QED
  BY <1>1, <1>4, <1>5 DEF Open

LEMMA PartSize ==
  ASSUME left \in Nat, left # 0
  PROVE  Lower(left, LOAD_SIZE) \in 1 .. left
BY ElfSizes DEF Lower

LEMMA SeekInv == ElfInv /\ Seek => ElfInv'
<1> SUFFICES ASSUME ElfInv, Seek PROVE ElfInv'
  OBVIOUS
<1>1. /\ elfPc = "seek" /\ file' = file /\ ph' = ph /\ addr' = addr /\ elfMem' = elfMem
      /\ held' = held
  BY DEF Seek
<1>2. InHand
  BY <1>1 DEF InHand
<1>3. /\ ElfTypeOK /\ file \in Files /\ ~torn /\ ph \in Loadable /\ held = 1
      /\ ph \in Nat \ {0} /\ ph <= Len(file.segments) + 1 /\ pos \in 0 .. file.size
      /\ left \in Nat /\ addr = ElfSegment.addr + CopiedOf(ph) /\ addr \in Nat
      /\ ElfSegment.offset \in Nat /\ ElfSegment.fileSize \in Nat
      /\ SegmentsFit => MemoryHolds
  BY <1>1, <1>2, HandFacts
<1>4. /\ pos + left = ElfSegment.offset /\ CopiedOf(ph) = 0 /\ torn \in BOOLEAN
      /\ file # NoFile /\ file.size \in Nat
  BY <1>1, <1>3, FileSizes DEF ElfInv, Progress, CopiedOf, ElfTypeOK
<1>5. Loadable' = Loadable /\ ElfSegment' = ElfSegment
  BY <1>1 DEF Loadable, ElfSegment
<1>6. CASE left = 0
  <2>1. elfPc' = "copy" /\ left' = ElfSegment.fileSize /\ pos' = pos /\ torn' = torn
    BY <1>6 DEF Seek
  <2>2. ElfTypeOK'
    BY <1>1, <1>3, <2>1 DEF ElfTypeOK
  <2>3. InHand' /\ CopiedOf(ph)' = 0
    BY <1>1, <1>3, <1>5, <2>1 DEF InHand, CopiedOf, ElfSegment
  <2>4. Progress'
    BY <1>1, <1>3, <1>4, <1>5, <1>6, <2>1, <2>3 DEF Progress
  <2>5. SegmentsFit => MemoryHolds'
    BY <1>1, <1>2, <1>3, <1>4, <2>3, SameMemory
  <2> QED
    BY <1>1, <1>3, <2>1, <2>2, <2>4, <2>5 DEF ElfInv, OneHeld, HandleOpen
<1>7. CASE left # 0
  <2> DEFINE chunk == Lower(left, LOAD_SIZE)
  <2>1. PICK r \in 0 .. LOAD_SIZE :
          /\ FatRead(chunk, r)
          /\ IF r = chunk THEN left' = left - r /\ UNCHANGED elfPc
             ELSE elfPc' = "false" /\ UNCHANGED left
    BY <1>7 DEF Seek
  <2>2. chunk \in 1 .. left /\ chunk \in Nat
    BY <1>3, <1>7, PartSize
  <2> HIDE DEF chunk
  <2>3. /\ r \in 0 .. chunk /\ pos' = pos + r /\ pos' \in 0 .. file.size /\ torn' \in BOOLEAN
        /\ r = chunk => torn' = torn
    BY <1>3, <1>4, <2>1, <2>2, ElfSizes, ReadMoves
  <2>4. CASE r = chunk
    <3>1. /\ left' = left - r /\ elfPc' = "seek" /\ torn' = torn /\ left' \in Nat
          /\ pos' + left' = ElfSegment.offset
      BY <1>1, <1>3, <1>4, <2>1, <2>2, <2>3, <2>4
    <3>2. ElfTypeOK'
      BY <1>1, <1>3, <2>3, <3>1 DEF ElfTypeOK
    <3>3. InHand' /\ CopiedOf(ph)' = CopiedOf(ph)
      BY <1>1, <3>1 DEF InHand, CopiedOf
    <3>4. Progress'
      BY <1>1, <1>3, <1>5, <3>1, <3>3 DEF Progress
    <3>5. SegmentsFit => MemoryHolds'
      BY <1>1, <1>2, <1>3, <3>3, SameMemory
    <3> QED
      BY <1>1, <1>3, <3>1, <3>2, <3>4, <3>5 DEF ElfInv, OneHeld, HandleOpen
  <2>5. CASE r # chunk
    <3>1. elfPc' = "false" /\ left' = left
      BY <2>1, <2>5
    <3>2. ElfTypeOK'
      BY <1>1, <1>3, <2>3, <3>1 DEF ElfTypeOK
    <3> QED
      BY <1>1, <1>3, <3>1, <3>2 DEF ElfInv, OneHeld, HandleOpen
  <2> QED
    BY <2>4, <2>5
<1> QED
  BY <1>6, <1>7

LEMMA CopyInv == ElfInv /\ Copy => ElfInv'
<1> SUFFICES ASSUME ElfInv, Copy PROVE ElfInv'
  OBVIOUS
<1>1. elfPc = "copy" /\ file' = file
  BY DEF Copy
<1>2. InHand
  BY <1>1 DEF InHand
<1>3. /\ ElfTypeOK /\ file \in Files /\ ~torn /\ ph \in Loadable /\ held = 1
      /\ ph \in Nat \ {0} /\ ph <= Len(file.segments) + 1 /\ pos \in 0 .. file.size
      /\ ph \in DOMAIN file.segments
      /\ left \in Nat /\ addr = ElfSegment.addr + CopiedOf(ph) /\ addr \in Nat
      /\ ElfSegment.offset \in Nat /\ ElfSegment.fileSize \in Nat /\ ElfSegment.addr \in Nat
      /\ ElfSegment.memSize \in Nat /\ ElfSegment.fileSize <= ElfSegment.memSize
      /\ SegmentsFit => MemoryHolds
  BY <1>1, <1>2, HandFacts
<1>4. /\ left <= ElfSegment.fileSize /\ pos = ElfSegment.offset + CopiedOf(ph)
      /\ torn \in BOOLEAN /\ file # NoFile /\ file.size \in Nat
      /\ Len(file.segments) \in Nat /\ DOMAIN file.segments = 1 .. Len(file.segments)
  BY <1>1, <1>3, FileSizes DEF ElfInv, Progress, ElfTypeOK
<1>5. CopiedOf(ph) = ElfSegment.fileSize - left
  BY <1>1, <1>3 DEF CopiedOf, ElfSegment
<1>6. CASE left = 0
  <2>1. /\ elfPc' = "segment" /\ ph' = ph + 1 /\ held' = 0 /\ pos' = pos /\ torn' = torn
        /\ left' = left /\ addr' = addr /\ elfMem' = elfMem
    BY <1>3, <1>6 DEF Copy
  <2>2. ElfTypeOK'
    BY <1>1, <1>3, <1>4, <2>1 DEF ElfTypeOK
  <2>3. Progress'
    BY <1>3, <2>1 DEF Progress, InHand
  <2>4. ASSUME SegmentsFit PROVE MemoryHolds'
    <3>1. Begun' = Begun
      <4>1. \A n \in Loadable : n \in Nat
        BY <1>4 DEF Loadable
      <4>2. ~InHand' /\ Loadable' = Loadable
        BY <1>1, <2>1 DEF InHand, Loadable
      <4>3. Begun' = {n \in Loadable : n < ph + 1}
        BY <2>1, <4>2 DEF Begun
      <4>4. Begun = {n \in Loadable : n < ph \/ n = ph}
        BY <1>2 DEF Begun
      <4>5. \A n \in Loadable : n < ph + 1 <=> n < ph \/ n = ph
        BY <1>3, <4>1
      <4> QED
        BY <4>3, <4>4, <4>5
    <3>2. \A n \in Begun : CopiedOf(n)' = CopiedOf(n)
      <4> SUFFICES ASSUME NEW n \in Begun PROVE CopiedOf(n)' = CopiedOf(n)
        OBVIOUS
      <4>1. n \in Nat /\ (n < ph \/ n = ph) /\ file.segments[n].fileSize \in Nat
        BY <1>3, <1>4, FileSizes, SMTT(60) DEF Begun, Loadable
      <4>2. CopiedOf(n)' = file.segments[n].fileSize
        BY <1>1, <1>3, <2>1, <4>1 DEF CopiedOf
      <4>3. CopiedOf(n) = file.segments[n].fileSize
        BY <1>1, <1>3, <1>6, <4>1 DEF CopiedOf
      <4> QED
        BY <4>2, <4>3
    <3> QED
      BY <1>1, <1>3, <2>1, <2>4, <3>1, <3>2 DEF MemoryHolds, Holds, Place
  <2> QED
    BY <1>1, <1>3, <2>1, <2>2, <2>3, <2>4 DEF ElfInv, OneHeld, HandleOpen
<1>7. CASE left # 0
  <2> DEFINE chunk == Lower(left, LOAD_SIZE)
  <2>1. PICK r \in 0 .. LOAD_SIZE :
          /\ FatRead(chunk, r)
          /\ IF r = chunk
             THEN left' = left - r /\ addr' = addr + r /\ Fill(addr, Copied(r)) /\ UNCHANGED elfPc
             ELSE elfPc' = "false" /\ UNCHANGED <<left, addr, elfMem>>
          /\ UNCHANGED <<held, ph>>
    BY <1>7 DEF Copy
  <2>2. chunk \in 1 .. left /\ chunk \in Nat
    BY <1>3, <1>7, PartSize
  <2> HIDE DEF chunk
  <2>3. /\ r \in 0 .. chunk /\ pos' = pos + r /\ pos' \in 0 .. file.size /\ torn' \in BOOLEAN
        /\ r = chunk => torn' = torn
    BY <1>3, <1>4, <2>1, <2>2, ElfSizes, ReadMoves
  <2>4. held' = 1 /\ ph' = ph /\ Loadable' = Loadable /\ ElfSegment' = ElfSegment
    BY <1>1, <1>3, <2>1 DEF Loadable, ElfSegment
  <2>5. CASE r # chunk
    <3>1. elfPc' = "false" /\ left' = left /\ addr' = addr /\ elfMem' = elfMem
      BY <2>1, <2>5
    <3>2. ElfTypeOK'
      BY <1>1, <1>3, <2>3, <2>4, <3>1 DEF ElfTypeOK
    <3> QED
      BY <1>1, <1>3, <2>4, <3>1, <3>2 DEF ElfInv, OneHeld, HandleOpen
  <2>6. CASE r = chunk
    <3> DEFINE m == r % ELF_WORD
               s == ElfSegment
               much == s.fileSize - left
    <3>1. /\ left' = left - r /\ elfPc' = "copy" /\ torn' = torn /\ left' \in Nat
          /\ addr' = addr + r /\ addr' \in Nat /\ Fill(addr, Copied(r)) /\ r \in Nat
          /\ left' <= ElfSegment.fileSize /\ r <= left
      <4>1. /\ left' = left - r /\ elfPc' = "copy" /\ torn' = torn /\ addr' = addr + r
            /\ Fill(addr, Copied(r))
        BY <1>1, <2>1, <2>3, <2>6
      <4>2. r \in Nat /\ r <= left
        BY <1>3, <2>2, <2>6
      <4>3. /\ left \in Nat /\ addr \in Nat
            /\ left <= ElfSegment.fileSize /\ ElfSegment.fileSize \in Nat
        BY <1>3, <1>4
      <4>4. left' \in Nat /\ addr' \in Nat /\ left' <= ElfSegment.fileSize
        BY <4>1, <4>2, <4>3
      <4> QED
        BY <4>1, <4>2, <4>4
    <3>2. m \in Nat
      BY <3>1, ElfSizes, QuotientRemainder
    <3>3. Copied(r) = [k \in 0 .. m - 1 |-> pos + k]
      BY <1>3 DEF Copied
    <3>4. \A a \in Addresses :
            elfMem'[a] = IF a - addr \in 0 .. m - 1 THEN pos + (a - addr) ELSE elfMem[a]
      <4> HIDE DEF m
      <4> QED
        BY <3>1, <3>3 DEF Fill
    <3>5. elfMem' \in [Addresses -> Nat \cup {Old, ElfZero, Garbage}]
      <4>1. elfMem' = [a \in Addresses |-> elfMem'[a]]
        BY <3>1 DEF Fill
      <4>2. \A a \in Addresses : elfMem'[a] \in Nat \cup {Old, ElfZero, Garbage}
        <5> HIDE DEF m
        <5> SUFFICES ASSUME NEW a \in Addresses
            PROVE elfMem'[a] \in Nat \cup {Old, ElfZero, Garbage}
          OBVIOUS
        <5>1. a \in Nat /\ elfMem[a] \in Nat \cup {Old, ElfZero, Garbage}
          BY <1>3, ElfSizes DEF ElfTypeOK
        <5>2. CASE a - addr \in 0 .. m - 1
          <6>1. pos + (a - addr) \in Nat
            BY <1>3, <3>2, <5>2
          <6> QED
            BY <3>4, <5>2, <6>1
        <5>3. CASE a - addr \notin 0 .. m - 1
          BY <3>4, <5>1, <5>3
        <5> QED
          BY <5>2, <5>3
      <4> QED
        BY <4>1, <4>2
    <3>6. ElfTypeOK'
      BY <1>1, <1>3, <2>3, <2>4, <3>1, <3>5 DEF ElfTypeOK
    <3>0. much \in Nat /\ much + r <= s.fileSize /\ addr = s.addr + much /\ pos = s.offset + much
      <4>1. /\ left \in Nat /\ s.fileSize \in Nat /\ left <= s.fileSize
            /\ r \in Nat /\ r <= left
        BY <1>3, <1>4, <3>1
      <4>2. addr = s.addr + much /\ pos = s.offset + much
        BY <1>3, <1>4, <1>5
      <4> HIDE DEF s
      <4> QED
        BY <4>1, <4>2
    <3>7. CopiedOf(ph)' = much + r /\ \A n : n = ph => CopiedOf(n)' = much + r
      <4>1. s.fileSize - (left - r) = much + r
        <5>1. s.fileSize \in Nat /\ left \in Nat /\ r \in Nat
          BY <1>3, <3>1
        <5> HIDE DEF s
        <5> QED
          BY <5>1
      <4> HIDE DEF much
      <4> QED
        BY <1>1, <1>3, <2>4, <3>1, <4>1 DEF CopiedOf, ElfSegment
    <3>8. Progress'
      <4>1. addr' = ElfSegment.addr + (much + r) /\ pos' = ElfSegment.offset + (much + r)
        <5>1. /\ s.addr \in Nat /\ s.offset \in Nat /\ r \in Nat /\ addr' = addr + r
              /\ pos' = pos + r
          BY <1>3, <2>3, <3>1
        <5> HIDE DEF much, s
        <5>2. addr' = s.addr + (much + r) /\ pos' = s.offset + (much + r)
          BY <3>0, <5>1
        <5> QED
          BY <5>2 DEF s
      <4>2. InHand'
        BY <3>1 DEF InHand
      <4> HIDE DEF much
      <4> QED
        BY <1>3, <2>4, <3>1, <3>7, <4>1, <4>2 DEF Progress
    <3>9. ASSUME SegmentsFit PROVE MemoryHolds'
      <4>1. m = r
        <5>1. s.memSize < ELF_WORD
          BY <1>3, <3>9 DEF SegmentsFit, Loadable, ElfSegment
        <5>2. r < ELF_WORD
          BY <1>3, <1>4, <3>1, <5>1, ElfSizes, SMTT(60)
        <5> QED
          BY <3>1, <5>2, ShortLength
      <4>2. Begun' = Begun /\ ph \in Begun
        BY <1>1, <1>2, <1>3, <2>4, <3>1 DEF Begun, InHand
      <4>3. \A n \in Begun : n # ph => CopiedOf(n)' = CopiedOf(n)
        BY <1>1, <1>3, <2>4 DEF Begun, CopiedOf
      <4>4. \A n \in Begun, a \in Addresses : n # ph /\ a \in Place(n) => a \notin Place(ph)
        BY <1>3, <3>9, <4>2 DEF SegmentsFit, Begun, Loadable, Place
      <4>5. addr = s.addr + much /\ pos = s.offset + much /\ much \in Nat
            /\ much + r <= s.memSize
        <5>1. s.fileSize \in Nat /\ s.memSize \in Nat /\ s.fileSize <= s.memSize /\ r \in Nat
          BY <1>3, <3>1
        <5> HIDE DEF s, much
        <5> QED
          BY <3>0, <5>1
      <4>6. \A a \in Addresses : a \in Place(ph) <=> a - s.addr \in 0 .. s.memSize - 1
        BY DEF Place, ElfSegment
      <4>7. \A n, c, a : Place(n)' = Place(n) /\ Holds(n, c, a)' = Holds(n, c, a)
        BY <1>1 DEF Place, Holds
      <4>8. \A c, a : Holds(ph, c, a) = IF a - s.addr < c THEN s.offset + (a - s.addr) ELSE ElfZero
        BY DEF Holds, ElfSegment
      <4> HIDE DEF s, m, much
      <4>9. s.addr \in Nat /\ s.offset \in Nat /\ s.memSize \in Nat /\ CopiedOf(ph) = much
        BY <1>3, <1>5 DEF s, much
      <4>10. ASSUME NEW a \in Addresses, NEW n \in Begun, a \in Place(n)
             PROVE  elfMem'[a] = Holds(n, CopiedOf(n)', a)
        <5>0. a \in Nat
          BY ElfSizes
        <5>1. CASE n = ph
          <6>1. CASE a - addr \in 0 .. m - 1
            <7>1. elfMem'[a] = pos + (a - addr)
              BY <3>4, <6>1
            <7>2. a - s.addr < much + r /\ pos + (a - addr) = s.offset + (a - s.addr)
              BY <3>1, <4>1, <4>5, <4>9, <5>0, <6>1
            <7>3. Holds(ph, much + r, a) = s.offset + (a - s.addr)
              BY <4>8, <7>2
            <7> QED
              BY <3>7, <5>1, <7>1, <7>2, <7>3
          <6>2. CASE a - addr \notin 0 .. m - 1
            <7>1. elfMem'[a] = elfMem[a] /\ elfMem[a] = Holds(ph, much, a)
              BY <1>3, <3>4, <3>9, <4>9, <4>10, <5>1, <6>2 DEF MemoryHolds
            <7>2. a - s.addr < much <=> a - s.addr < much + r
              BY <3>1, <4>1, <4>5, <4>9, <5>0, <6>2
            <7>3. Holds(ph, much + r, a) = Holds(ph, much, a)
              BY <4>8, <7>2
            <7> QED
              BY <3>7, <5>1, <7>1, <7>3
          <6> QED
            BY <6>1, <6>2
        <5>2. CASE n # ph
          <6>1. ~(a - addr \in 0 .. m - 1)
            BY <3>1, <4>1, <4>2, <4>4, <4>5, <4>6, <4>9, <4>10, <5>0, <5>2
          <6> QED
            BY <1>3, <3>4, <3>9, <4>3, <4>10, <5>2, <6>1 DEF MemoryHolds
        <5> QED
          BY <5>1, <5>2
      <4>11. ASSUME NEW a \in Addresses, \A n \in Begun : a \notin Place(n) PROVE elfMem'[a] = Old
        <5>0. a \in Nat /\ a \notin Place(ph)
          BY <4>2, <4>11, ElfSizes
        <5>1. ~(a - addr \in 0 .. m - 1)
          BY <3>1, <4>1, <4>5, <4>6, <4>9, <5>0
        <5> QED
          BY <1>3, <3>4, <3>9, <4>11, <5>1 DEF MemoryHolds
      <4> QED
        BY <4>2, <4>7, <4>10, <4>11 DEF MemoryHolds
    <3> QED
      BY <1>1, <1>3, <2>4, <3>1, <3>6, <3>8, <3>9 DEF ElfInv, OneHeld, HandleOpen
  <2> QED
    BY <2>5, <2>6
<1> QED
  BY <1>6, <1>7

LEMMA ElfStep == ElfInv /\ [ElfNext]_elfVars => ElfInv'
<1> SUFFICES ASSUME ElfInv, [ElfNext]_elfVars PROVE ElfInv'
  OBVIOUS
<1>1. CASE UNCHANGED elfVars
  BY <1>1
  DEF elfVars, ElfInv, ElfTypeOK, OneHeld, HandleOpen, Progress, MemoryHolds, Begun, InHand,
      Loadable, CopiedOf, Holds, Place, ElfSegment
<1> QED
  BY <1>1, HeaderInv, NextSegmentInv, OpenSegmentInv, SeekInv, CopyInv DEF ElfNext

LEMMA ElfFacts ==
  ASSUME ElfInv
  PROVE  ElfTypeOK /\ OneHandle /\ (SegmentsFit => LoadedWhole)
<1>1. OneHandle
  BY DEF ElfInv, OneHeld, OneHandle
<1>2. ASSUME SegmentsFit, elfPc = "true", NEW a \in Addresses PROVE elfMem[a] = Belongs(a)
  <2>1. file \in Files /\ MemoryHolds /\ ph = Len(file.segments) + 1
    BY <1>2 DEF ElfInv, Progress
  <2>2. Begun = Loadable /\ \A n \in Loadable : CopiedOf(n) = file.segments[n].fileSize
    BY <2>1, FileSizes DEF Begun, Loadable, CopiedOf
  <2> DEFINE of == {n \in Loadable :
                      a - file.segments[n].addr \in 0 .. file.segments[n].memSize - 1}
             n == CHOOSE m \in of : TRUE
  <2>3. \A m \in Loadable : a \in Place(m) <=> m \in of
    BY DEF Place
  <2>4. CASE of = {}
    <3>1. Belongs(a) = Old
      BY <2>4 DEF Belongs
    <3> HIDE DEF of
    <3> QED
      BY <2>1, <2>2, <2>3, <2>4, <3>1 DEF MemoryHolds
  <2>5. CASE of # {}
    <3>1. Belongs(a) = IF a - file.segments[n].addr < file.segments[n].fileSize
                       THEN file.segments[n].offset + (a - file.segments[n].addr) ELSE ElfZero
      BY <2>5 DEF Belongs
    <3>2. n \in of
      BY <2>5
    <3>3. n \in Loadable
      BY <3>2
    <3> HIDE DEF of, n
    <3>4. elfMem[a] = Holds(n, file.segments[n].fileSize, a)
      BY <2>1, <2>2, <2>3, <3>2, <3>3 DEF MemoryHolds
    <3> QED
      BY <3>1, <3>4 DEF Holds
  <2> QED
    BY <2>4, <2>5
<1> QED
  BY <1>1, <1>2 DEF ElfInv, LoadedWhole
-----------------------------------------------------------------------------
(***************************************************************************)
(* The screen: a search, and a picture at places that differ.              *)
(***************************************************************************)
LeftEdge == (desiredWidth - Len(Text) * FONT_WIDTH) \div 2
TopEdge == (desiredHeight - FONT_HEIGHT) \div 2

LEMMA PictureSizes ==
  /\ desiredWidth \in Nat \ {0} /\ desiredHeight \in Nat \ {0}
  /\ FONT_WIDTH \in Nat \ {0} /\ FONT_HEIGHT \in Nat \ {0}
  /\ Text \in Seq(DOMAIN Glyph) /\ Len(Text) \in Nat /\ DOMAIN Text = 1 .. Len(Text)
  /\ LeftEdge \in Nat /\ TopEdge \in Nat
  /\ LeftEdge + Len(Text) * FONT_WIDTH <= desiredWidth
  /\ TopEdge + FONT_HEIGHT <= desiredHeight
  /\ \A c \in DOMAIN Glyph : Glyph[c] \subseteq (0 .. FONT_WIDTH - 1) \X (0 .. FONT_HEIGHT - 1)
<1>1. /\ desiredWidth \in Nat \ {0} /\ desiredHeight \in Nat \ {0}
      /\ FONT_WIDTH \in Nat \ {0} /\ FONT_HEIGHT \in Nat \ {0}
      /\ Text \in Seq(DOMAIN Glyph)
      /\ Len(Text) * FONT_WIDTH <= desiredWidth /\ FONT_HEIGHT <= desiredHeight
      /\ \A c \in DOMAIN Glyph : Glyph[c] \subseteq (0 .. FONT_WIDTH - 1) \X (0 .. FONT_HEIGHT - 1)
  BY VbeAssumption
<1>2. Len(Text) \in Nat /\ DOMAIN Text = 1 .. Len(Text)
  BY <1>1
<1>3. \A a, b \in Nat : b <= a => (a - b) \div 2 \in Nat /\ (a - b) \div 2 + b <= a
  BY SMT
<1>4. Len(Text) * FONT_WIDTH \in Nat
  BY <1>1, <1>2
<1> QED
  BY <1>1, <1>2, <1>3, <1>4 DEF LeftEdge, TopEdge

\* Which pixels the text has, by the character that is there.
LEMMA TextPixelsAt ==
  ASSUME NEW x \in 0 .. desiredWidth - 1, NEW y \in 0 .. desiredHeight - 1
  PROVE  LET n == IF x < LeftEdge THEN 0 ELSE ((x - LeftEdge) \div FONT_WIDTH) + 1
         IN <<x, y>> \in TextPixels <=>
              n \in DOMAIN Text /\ <<(x - LeftEdge) % FONT_WIDTH, y - TopEdge>> \in Glyph[Text[n]]
<1> DEFINE n == IF x < LeftEdge THEN 0 ELSE ((x - LeftEdge) \div FONT_WIDTH) + 1
           low == (x - LeftEdge) % FONT_WIDTH
<1>1. TextPixels = UNION {{<<LeftEdge + (m - 1) * FONT_WIDTH + g[1], TopEdge + g[2]>> :
                             g \in Glyph[Text[m]]} : m \in DOMAIN Text}
  BY DEF TextPixels, LeftEdge, TopEdge
<1>2. ASSUME <<x, y>> \in TextPixels
      PROVE  n \in DOMAIN Text /\ <<low, y - TopEdge>> \in Glyph[Text[n]]
  <2>0. PICK m \in DOMAIN Text :
          <<x, y>> \in {<<LeftEdge + (m - 1) * FONT_WIDTH + g[1], TopEdge + g[2]>> :
                         g \in Glyph[Text[m]]}
    BY <1>1, <1>2
  <2>1. PICK g \in Glyph[Text[m]] :
          <<x, y>> = <<LeftEdge + (m - 1) * FONT_WIDTH + g[1], TopEdge + g[2]>>
    BY <2>0
  <2>2. Text[m] \in DOMAIN Glyph /\ m \in Nat \ {0}
    BY PictureSizes
  <2>3. PICK a \in 0 .. FONT_WIDTH - 1, b \in 0 .. FONT_HEIGHT - 1 : g = <<a, b>>
    <3>1. Glyph[Text[m]] \subseteq (0 .. FONT_WIDTH - 1) \X (0 .. FONT_HEIGHT - 1)
      BY PictureSizes, <2>2
    <3>2. g \in (0 .. FONT_WIDTH - 1) \X (0 .. FONT_HEIGHT - 1)
      BY <2>1, <3>1
    <3> QED
      BY <3>2
  <2>4. x = LeftEdge + (m - 1) * FONT_WIDTH + a /\ y = TopEdge + b
    BY <2>1, <2>3
  <2>5. (m - 1) * FONT_WIDTH \in Nat /\ m - 1 \in Nat
    BY <2>2, PictureSizes
  <2>6. x - LeftEdge = (m - 1) * FONT_WIDTH + a /\ ~(x < LeftEdge) /\ y - TopEdge = b
    <3> DEFINE w == (m - 1) * FONT_WIDTH
    <3>1. /\ w \in Nat /\ LeftEdge \in Nat /\ TopEdge \in Nat
          /\ x = LeftEdge + w + a /\ y = TopEdge + b
      BY <2>4, <2>5, PictureSizes
    <3> HIDE DEF w
    <3>2. x - LeftEdge = w + a /\ ~(x < LeftEdge) /\ y - TopEdge = b
      BY <3>1
    <3> QED
      BY <3>2 DEF w
  <2>7. /\ ((m - 1) * FONT_WIDTH + a) \div FONT_WIDTH = m - 1
        /\ ((m - 1) * FONT_WIDTH + a) % FONT_WIDTH = a
    BY <2>5, PictureSizes, QuotientOf
  <2>8. n = m /\ low = a
    BY <2>2, <2>6, <2>7
  <2> HIDE DEF n, low
  <2> QED
    BY <2>1, <2>3, <2>6, <2>8
<1>3. ASSUME n \in DOMAIN Text, <<low, y - TopEdge>> \in Glyph[Text[n]]
      PROVE  <<x, y>> \in TextPixels
  <2>1. n \in Nat \ {0} /\ Text[n] \in DOMAIN Glyph
    BY <1>3, PictureSizes
  <2>2. ~(x < LeftEdge) /\ x - LeftEdge \in Nat /\ n = ((x - LeftEdge) \div FONT_WIDTH) + 1
    BY <2>1, PictureSizes
  <2>3. x - LeftEdge = ((x - LeftEdge) \div FONT_WIDTH) * FONT_WIDTH + low
    BY <2>2, PictureSizes, QuotientRemainder
  <2>4. low \in 0 .. FONT_WIDTH - 1 /\ (x - LeftEdge) \div FONT_WIDTH \in Nat
    BY <2>2, PictureSizes, QuotientRemainder
  <2>5. n - 1 = (x - LeftEdge) \div FONT_WIDTH
    BY <2>2, <2>4
  <2> HIDE DEF n, low
  <2>6. x - LeftEdge = (n - 1) * FONT_WIDTH + low
    BY <2>3, <2>5
  <2>7. (n - 1) * FONT_WIDTH \in Nat
    BY <2>1, PictureSizes
  <2>8. x = LeftEdge + (n - 1) * FONT_WIDTH + low /\ y = TopEdge + (y - TopEdge)
    <3> DEFINE w == (n - 1) * FONT_WIDTH
    <3>1. w \in Nat /\ LeftEdge \in Nat /\ TopEdge \in Nat /\ x - LeftEdge = w + low
      BY <2>6, <2>7, PictureSizes
    <3> HIDE DEF w
    <3>2. x = LeftEdge + w + low /\ y = TopEdge + (y - TopEdge)
      BY <2>4, <3>1
    <3> QED
      BY <3>2 DEF w
  <2> DEFINE g == <<low, y - TopEdge>>
  <2>9. <<x, y>> = <<LeftEdge + (n - 1) * FONT_WIDTH + g[1], TopEdge + g[2]>>
    BY <2>8
  <2>10. g \in Glyph[Text[n]]
    BY <1>3
  <2> HIDE DEF g
  <2> QED
    BY <1>1, <1>3, <2>9, <2>10
<1> QED
  BY <1>2, <1>3

LEMMA TextOnScreen == TextPixels \subseteq Screen
<1> SUFFICES ASSUME NEW p \in TextPixels PROVE p \in Screen
  OBVIOUS
<1>1. TextPixels = UNION {{<<LeftEdge + (m - 1) * FONT_WIDTH + g[1], TopEdge + g[2]>> :
                             g \in Glyph[Text[m]]} : m \in DOMAIN Text}
  BY DEF TextPixels, LeftEdge, TopEdge
<1>2a. PICK m \in DOMAIN Text :
         p \in {<<LeftEdge + (m - 1) * FONT_WIDTH + g[1], TopEdge + g[2]>> : g \in Glyph[Text[m]]}
  BY <1>1
<1>2. PICK g \in Glyph[Text[m]] : p = <<LeftEdge + (m - 1) * FONT_WIDTH + g[1], TopEdge + g[2]>>
  BY <1>2a
<1>3. Text[m] \in DOMAIN Glyph /\ m \in 1 .. Len(Text)
  BY PictureSizes
<1>4. PICK a \in 0 .. FONT_WIDTH - 1, b \in 0 .. FONT_HEIGHT - 1 : g = <<a, b>>
  BY PictureSizes, <1>2, <1>3
<1> DEFINE w == (m - 1) * FONT_WIDTH
<1>5. w \in Nat /\ w + FONT_WIDTH <= Len(Text) * FONT_WIDTH
  <2>1. m - 1 \in Nat /\ m - 1 < Len(Text)
    BY <1>3
  <2> QED
    BY <2>1, PictureSizes, ProductOrder, SMTT(60)
<1>6. Len(Text) * FONT_WIDTH \in Nat
  BY PictureSizes
<1> HIDE DEF w
<1>7. LeftEdge + w + a \in 0 .. desiredWidth - 1
  BY <1>4, <1>5, <1>6, PictureSizes
<1>8. TopEdge + b \in 0 .. desiredHeight - 1
  BY <1>4, PictureSizes
<1> QED
  BY <1>2, <1>4, <1>7, <1>8 DEF Screen, w
-----------------------------------------------------------------------------
Lines(m) == m.pitch \div 4
FrameBuffer(m) == m.framebuffer .. m.framebuffer + m.height * (m.pitch \div 4) - 1
At(m, x, y) == m.framebuffer + y * Lines(m) + x

LEMMA ModeSizes ==
  ASSUME modes \in ModeLists, NEW k \in DOMAIN modes
  PROVE  /\ modes[k].fails \in BOOLEAN /\ modes[k].fits \in BOOLEAN
         /\ modes[k].width \in Nat /\ modes[k].height \in Nat /\ modes[k].pitch \in Nat
         /\ modes[k].framebuffer \in Nat /\ Lines(modes[k]) \in Nat
         /\ modes[k].pitch = 4 * Lines(modes[k]) /\ modes[k].width <= Lines(modes[k])
         /\ FrameBuffer(modes[k]) \subseteq Memory
<1> DEFINE m == modes[k]
<1>1. ModeOK(m)
  BY VbeAssumption
<1> HIDE DEF m
<1>2. /\ m.fails \in BOOLEAN /\ m.fits \in BOOLEAN /\ m.width \in Nat /\ m.height \in Nat
      /\ m.pitch \in Nat /\ m.framebuffer \in Nat /\ m.pitch % 4 = 0 /\ m.pitch >= 4 * m.width
      /\ FrameBuffer(m) \subseteq Memory
  BY <1>1 DEF ModeOK, FrameBuffer
<1>3. m.pitch \div 4 \in Nat /\ m.pitch = 4 * (m.pitch \div 4) /\ m.width <= m.pitch \div 4
  BY SMT, <1>2
<1> QED
  BY <1>2, <1>3 DEF Lines, m

LEMMA ListSizes ==
  ASSUME modes \in ModeLists
  PROVE  Len(modes) \in Nat /\ DOMAIN modes = 1 .. Len(modes)
BY VbeAssumption

\* A pixel of the screen lies in the frame buffer of a mode as wanted ...
LEMMA PixelPlace ==
  ASSUME modes \in ModeLists, modeInfo \in DOMAIN modes, Wanted(modes[modeInfo]),
         NEW x \in 0 .. desiredWidth - 1, NEW y \in 0 .. desiredHeight - 1
  PROVE  /\ PixelAt(x, y) = At(modes[modeInfo], x, y)
         /\ PixelAt(x, y) \in FrameBuffer(modes[modeInfo])
         /\ PixelAt(x, y) \in Memory
<1> DEFINE m == modes[modeInfo]
           w == Lines(m)
<1>1. /\ m.framebuffer \in Nat /\ w \in Nat /\ m.pitch = 4 * w /\ desiredWidth <= w
      /\ m.height = desiredHeight /\ FrameBuffer(m) \subseteq Memory
  BY ModeSizes DEF Wanted
<1>2. (y * m.pitch) \div 4 = y * w
  <2> HIDE DEF w
  <2>1. y * m.pitch = (y * w) * 4 + 0 /\ y * w \in Nat
    BY <1>1
  <2> QED
    BY <2>1, QuotientOf
<1>3. PixelAt(x, y) = At(m, x, y)
  BY <1>2 DEF PixelAt, At
<1>4. y * w \in Nat /\ y * w + w <= m.height * w /\ m.height * w \in Nat
  <2> HIDE DEF m, w
  <2>1. y \in Nat /\ y < m.height /\ m.height \in Nat /\ w \in Nat \ {0}
    BY <1>1, PictureSizes
  <2> QED
    BY <2>1, ProductOrder
<1>5. At(m, x, y) \in m.framebuffer .. m.framebuffer + m.height * w - 1
  <2> DEFINE from == y * w
             end == m.height * w
  <2>1. from \in Nat /\ end \in Nat /\ from + w <= end
    BY <1>4
  <2>2. At(m, x, y) = m.framebuffer + from + x
    BY DEF At
  <2> HIDE DEF from, end, m, w
  <2>3. m.framebuffer + from + x \in m.framebuffer .. m.framebuffer + end - 1
    <3>1. m.framebuffer \in Nat /\ w \in Nat /\ x \in Nat /\ x < w
      BY <1>1, PictureSizes
    <3> QED
      BY <2>1, <3>1
  <2> QED
    BY <2>2, <2>3 DEF end
<1> QED
  BY <1>1, <1>3, <1>5 DEF FrameBuffer, Lines

\* ... and each at a place of its own.
LEMMA PixelsDiffer ==
  ASSUME modes \in ModeLists, modeInfo \in DOMAIN modes, Wanted(modes[modeInfo]),
         NEW x \in 0 .. desiredWidth - 1, NEW y \in 0 .. desiredHeight - 1,
         NEW u \in 0 .. desiredWidth - 1, NEW v \in 0 .. desiredHeight - 1,
         PixelAt(x, y) = PixelAt(u, v)
  PROVE  x = u /\ y = v
<1> DEFINE m == modes[modeInfo]
           w == Lines(m)
<1>1. m.framebuffer \in Nat /\ w \in Nat /\ desiredWidth <= w /\ w # 0
  BY ModeSizes, PictureSizes DEF Wanted
<1>2. At(m, x, y) = At(m, u, v)
  BY PixelPlace
<1>3. m.framebuffer + y * w + x = m.framebuffer + v * w + u
  BY <1>2 DEF At
<1> HIDE DEF m, w
<1>4. y * w \in Nat /\ v * w \in Nat
  BY <1>1
<1>5. y * w + x = v * w + u
  <2> DEFINE p == y * w
             q == v * w
  <2>1. p \in Nat /\ q \in Nat /\ m.framebuffer + p + x = m.framebuffer + q + u
    BY <1>3, <1>4
  <2> HIDE DEF p, q
  <2>2. p + x = q + u
    BY <1>1, <2>1
  <2> QED
    BY <2>2 DEF p, q
<1>6. w \in Nat \ {0} /\ x \in 0 .. w - 1 /\ u \in 0 .. w - 1 /\ y \in Nat /\ v \in Nat
  BY <1>1, PictureSizes
<1>7. (y * w + x) \div w = y /\ (y * w + x) % w = x
  BY <1>6, QuotientOf
<1>8. (v * w + u) \div w = v /\ (v * w + u) % w = u
  BY <1>6, QuotientOf
<1> QED
  BY <1>5, <1>7, <1>8

\* What drawing some pixels of the screen does.
LEMMA PutPixels ==
  ASSUME modes \in ModeLists, modeInfo \in DOMAIN modes, Wanted(modes[modeInfo]),
         NEW pixels, pixels \subseteq Screen, NEW colour, Put(pixels, colour)
  PROVE  /\ fb' \in [Memory -> {fb[p] : p \in Memory} \cup {colour}]
         /\ \A p \in Memory : fb'[p] # fb[p] => p \in FrameBuffer(modes[modeInfo])
         /\ \A x \in 0 .. desiredWidth - 1, y \in 0 .. desiredHeight - 1 :
              fb'[PixelAt(x, y)] = IF LinearAlways /\ <<x, y>> \in pixels
                                   THEN colour ELSE fb[PixelAt(x, y)]
<1> DEFINE at == {PixelAt(p[1], p[2]) : p \in pixels}
<1>1. fb' = [p \in Memory |-> IF LinearAlways /\ p \in at THEN colour ELSE fb[p]]
  BY DEF Put
<1>2. at \subseteq FrameBuffer(modes[modeInfo])
  <2> SUFFICES ASSUME NEW p \in pixels PROVE PixelAt(p[1], p[2]) \in FrameBuffer(modes[modeInfo])
    OBVIOUS
  <2>1. p[1] \in 0 .. desiredWidth - 1 /\ p[2] \in 0 .. desiredHeight - 1
    BY DEF Screen
  <2> QED
    BY <2>1, PixelPlace
<1>3. ASSUME NEW x \in 0 .. desiredWidth - 1, NEW y \in 0 .. desiredHeight - 1
      PROVE  PixelAt(x, y) \in at <=> <<x, y>> \in pixels
  <2>1. ASSUME <<x, y>> \in pixels PROVE PixelAt(x, y) \in at
    <3>1. <<x, y>>[1] = x /\ <<x, y>>[2] = y
      OBVIOUS
    <3> QED
      BY <2>1, <3>1
  <2>2. ASSUME PixelAt(x, y) \in at PROVE <<x, y>> \in pixels
    <3>1. PICK p \in pixels : PixelAt(x, y) = PixelAt(p[1], p[2])
      BY <2>2
    <3>2. p[1] \in 0 .. desiredWidth - 1 /\ p[2] \in 0 .. desiredHeight - 1 /\ p = <<p[1], p[2]>>
      BY DEF Screen
    <3>3. x = p[1] /\ y = p[2]
      BY <3>1, <3>2, PixelsDiffer
    <3> QED
      BY <3>2, <3>3
  <2> QED
    BY <2>1, <2>2
<1>4. \A x \in 0 .. desiredWidth - 1, y \in 0 .. desiredHeight - 1 : PixelAt(x, y) \in Memory
  BY PixelPlace
<1> HIDE DEF at
<1> QED
  BY <1>1, <1>2, <1>3, <1>4

Pixel(x, y) == fb[PixelAt(x, y)]

VbeInv ==
  /\ VbeTypeOK
  \* the search
  /\ \A k \in 1 .. i - 1 : modes[k].fails \/ ~Wanted(modes[k])
  /\ vbePc \in {"VBE_Initialize", "loop"} => pickedMode = None /\ display = None
  \* the mode found is the one in hand, and its information the one that was read last
  /\ vbePc \in {"set", "rectangle", "string"} \/ display # None =>
       /\ i \in DOMAIN modes /\ pickedMode = i /\ modeInfo = i
       /\ ~modes[i].fails /\ Wanted(modes[i])
  /\ vbePc = "set" => display = None
  /\ vbePc \in {"rectangle", "string"} => display = i
  /\ display # None => display = i
  \* the picture
  /\ vbePc # "string" /\ (vbePc # "return" \/ display = None) => \A p \in Memory : fb[p] = Black
  /\ DrawsInFrameBuffer
  /\ LinearAlways /\ vbePc = "string" =>
       \A x \in 0 .. desiredWidth - 1, y \in 0 .. desiredHeight - 1 : Pixel(x, y) = "blue"
  /\ LinearAlways /\ vbePc = "return" /\ display # None =>
       \A x \in 0 .. desiredWidth - 1, y \in 0 .. desiredHeight - 1 :
         Pixel(x, y) = IF <<x, y>> \in TextPixels THEN "white" ELSE "blue"

LEMMA InitVbeInv == VbeInit => VbeInv
<1> SUFFICES ASSUME VbeInit PROVE VbeInv
  OBVIOUS
<1>1. /\ modes \in ModeLists /\ vbePc = "VBE_Initialize" /\ i = 1 /\ modeInfo = None
      /\ pickedMode = None /\ display = None /\ vbeResult = FALSE
      /\ fb = [p \in Memory |-> Black]
  BY DEF VbeInit
<1>2. Len(modes) \in Nat /\ DOMAIN modes = 1 .. Len(modes)
  BY <1>1, ListSizes
<1>3. VbeTypeOK
  <2>1. i \in 1 .. Len(modes) + 1
    BY <1>1, <1>2
  <2>2. fb \in [Memory -> {Black, "blue", "white"}]
    BY <1>1
  <2> QED
    BY <1>1, <2>1, <2>2 DEF VbeTypeOK
<1>4. \A k \in 1 .. i - 1 : modes[k].fails \/ ~Wanted(modes[k])
  BY <1>1
<1>5. \A p \in Memory : fb[p] = Black
  BY <1>1
<1> QED
  BY <1>1, <1>3, <1>4, <1>5 DEF VbeInv, DrawsInFrameBuffer

\* The steps that do not draw.
LEMMA SearchInv ==
  VbeInv /\ (GetControllerInfo \/ TryMode \/ EndOfModes \/ VbeSetMode) => VbeInv'
<1> SUFFICES ASSUME VbeInv, GetControllerInfo \/ TryMode \/ EndOfModes \/ VbeSetMode PROVE VbeInv'
  OBVIOUS
<1>1. modes' = modes /\ fb' = fb /\ vbeResult' \in BOOLEAN
  BY DEF VbeInv, VbeTypeOK, GetControllerInfo, TryMode, EndOfModes, VbeSetMode
<1>2. /\ modes \in ModeLists /\ Len(modes) \in Nat /\ DOMAIN modes = 1 .. Len(modes)
      /\ i \in 1 .. Len(modes) + 1
      /\ {modeInfo, pickedMode, display} \subseteq {None} \cup DOMAIN modes
      /\ fb \in [Memory -> {Black, "blue", "white"}]
  BY ListSizes DEF VbeInv, VbeTypeOK
<1>3. CASE GetControllerInfo
  <2>1. /\ vbePc = "VBE_Initialize" /\ vbePc' \in {"loop", "return"}
        /\ i' = i /\ modeInfo' = modeInfo /\ pickedMode' = pickedMode /\ display' = display
    BY <1>3 DEF GetControllerInfo
  <2>2. display = None /\ \A p \in Memory : fb[p] = Black
    BY <2>1 DEF VbeInv
  <2>3. VbeTypeOK'
    BY <1>1, <1>2, <2>1 DEF VbeTypeOK
  <2>4. DrawsInFrameBuffer'
    BY <1>1, <2>2 DEF DrawsInFrameBuffer
  <2> QED
    BY <1>1, <2>1, <2>2, <2>3, <2>4 DEF VbeInv
<1>4. CASE TryMode
  <2>1. /\ vbePc = "loop" /\ i <= Len(modes) /\ display' = display
        /\ modeInfo' = IF modes[i].fails THEN modeInfo ELSE i
    BY <1>4 DEF TryMode
  <2>2. /\ display = None /\ pickedMode = None /\ \A p \in Memory : fb[p] = Black
        /\ \A k \in 1 .. i - 1 : modes[k].fails \/ ~Wanted(modes[k])
    BY <2>1 DEF VbeInv
  <2>3. i \in DOMAIN modes
    BY <1>2, <2>1
  <2>4. DrawsInFrameBuffer'
    BY <1>1, <2>2 DEF DrawsInFrameBuffer
  <2>5. CASE ~modes[i].fails /\ Wanted(modes[i])
    <3>1. pickedMode' = i /\ vbePc' = "set" /\ i' = i /\ modeInfo' = i
      BY <1>4, <2>1, <2>5 DEF TryMode
    <3>2. VbeTypeOK'
      BY <1>1, <1>2, <2>1, <2>3, <3>1 DEF VbeTypeOK
    <3> QED
      BY <1>1, <2>1, <2>2, <2>3, <2>4, <2>5, <3>1, <3>2 DEF VbeInv, Wanted
  <2>6. CASE ~(~modes[i].fails /\ Wanted(modes[i]))
    <3>1. i' = i + 1 /\ vbePc' = "loop" /\ pickedMode' = pickedMode
      BY <1>4, <2>1, <2>6 DEF TryMode
    <3>2. VbeTypeOK'
      BY <1>1, <1>2, <2>1, <2>3, <3>1 DEF VbeTypeOK
    <3>3. \A k \in 1 .. i' - 1 : modes'[k].fails \/ ~Wanted(modes'[k])
      BY <1>1, <1>2, <2>2, <2>6, <3>1
    <3> QED
      BY <1>1, <2>1, <2>2, <2>4, <3>1, <3>2, <3>3 DEF VbeInv
  <2> QED
    BY <2>5, <2>6
<1>5. CASE EndOfModes
  <2>1. /\ vbePc = "loop" /\ i' = i /\ modeInfo' = modeInfo /\ pickedMode' = pickedMode
        /\ display' = display /\ vbePc' = IF pickedMode = None THEN "return" ELSE "set"
    BY <1>5 DEF EndOfModes
  <2>2. display = None /\ pickedMode = None /\ \A p \in Memory : fb[p] = Black
    BY <2>1 DEF VbeInv
  <2>3. VbeTypeOK'
    BY <1>1, <1>2, <2>1 DEF VbeTypeOK
  <2>4. DrawsInFrameBuffer'
    BY <1>1, <2>2 DEF DrawsInFrameBuffer
  <2> QED
    BY <1>1, <2>1, <2>2, <2>3, <2>4 DEF VbeInv
<1>6. CASE VbeSetMode
  <2>1. /\ vbePc = "set" /\ i' = i /\ modeInfo' = modeInfo /\ pickedMode' = pickedMode
        /\ \/ display' = pickedMode /\ vbePc' = "rectangle"
           \/ vbePc' = "return" /\ display' = display
    BY <1>6 DEF VbeSetMode
  <2>2. /\ i \in DOMAIN modes /\ pickedMode = i /\ modeInfo = i
        /\ ~modes[i].fails /\ Wanted(modes[i])
        /\ display = None /\ \A p \in Memory : fb[p] = Black
    BY <2>1 DEF VbeInv
  <2>3. VbeTypeOK'
    BY <1>1, <1>2, <2>1 DEF VbeTypeOK
  <2>4. DrawsInFrameBuffer'
    BY <1>1, <2>2 DEF DrawsInFrameBuffer
  <2> QED
    BY <1>1, <2>1, <2>2, <2>3, <2>4 DEF VbeInv, Wanted
<1> QED
  BY <1>3, <1>4, <1>5, <1>6

LEMMA DrawInv == VbeInv /\ (VBE_DrawRectangle \/ VBE_DrawString) => VbeInv'
<1> SUFFICES ASSUME VbeInv, VBE_DrawRectangle \/ VBE_DrawString PROVE VbeInv'
  OBVIOUS
<1>1. /\ modes' = modes /\ i' = i /\ modeInfo' = modeInfo /\ pickedMode' = pickedMode
      /\ display' = display /\ vbeResult' = vbeResult
      /\ vbePc \in {"rectangle", "string"} /\ vbePc' \in {"string", "return"}
  BY DEF VBE_DrawRectangle, VBE_DrawString
<1>2. /\ modes \in ModeLists /\ i \in DOMAIN modes /\ pickedMode = i /\ modeInfo = i
      /\ ~modes[i].fails /\ Wanted(modes[i]) /\ display = i
      /\ fb \in [Memory -> {Black, "blue", "white"}] /\ DrawsInFrameBuffer
      /\ \A k \in 1 .. i - 1 : modes[k].fails \/ ~Wanted(modes[k])
  BY <1>1 DEF VbeInv, VbeTypeOK
<1>3. i # None /\ i \in Nat
  BY <1>2, ListSizes DEF None
<1>4. PICK pixels, colour :
        /\ pixels \subseteq Screen /\ colour \in {"blue", "white"} /\ Put(pixels, colour)
        /\ vbePc = "rectangle" => pixels = Screen /\ colour = "blue" /\ vbePc' = "string"
        /\ vbePc = "string" => pixels = TextPixels /\ colour = "white" /\ vbePc' = "return"
  <2>1. CASE VBE_DrawRectangle
    BY <2>1 DEF VBE_DrawRectangle
  <2>2. CASE VBE_DrawString
    BY <2>2, TextOnScreen DEF VBE_DrawString
  <2> QED
    BY <2>1, <2>2
<1>5. /\ fb' \in [Memory -> {fb[p] : p \in Memory} \cup {colour}]
      /\ \A p \in Memory : fb'[p] # fb[p] => p \in FrameBuffer(modes[modeInfo])
      /\ \A x \in 0 .. desiredWidth - 1, y \in 0 .. desiredHeight - 1 :
           fb'[PixelAt(x, y)] = IF LinearAlways /\ <<x, y>> \in pixels
                                THEN colour ELSE fb[PixelAt(x, y)]
  BY <1>2, <1>4, PutPixels
<1>6. \A x, y : PixelAt(x, y)' = PixelAt(x, y)
  BY <1>1 DEF PixelAt
<1>7. VbeTypeOK'
  <2>1. fb' \in [Memory -> {Black, "blue", "white"}]
    BY <1>2, <1>4, <1>5
  <2> QED
    BY <1>1, <2>1 DEF VbeInv, VbeTypeOK
<1>8. DrawsInFrameBuffer'
  BY <1>1, <1>2, <1>3, <1>5 DEF DrawsInFrameBuffer, FrameBuffer
<1>9. CASE vbePc = "rectangle"
  <2>1. vbePc' = "string" /\ pixels = Screen /\ colour = "blue"
    BY <1>4, <1>9
  <2>2. LinearAlways => \A x \in 0 .. desiredWidth - 1, y \in 0 .. desiredHeight - 1 :
                          Pixel(x, y)' = "blue"
    BY <1>5, <1>6, <2>1 DEF Pixel, Screen
  <2> QED
    BY <1>1, <1>2, <1>3, <1>7, <1>8, <2>1, <2>2 DEF VbeInv, Wanted
<1>10. CASE vbePc = "string"
  <2>1. vbePc' = "return" /\ pixels = TextPixels /\ colour = "white"
    BY <1>4, <1>10
  <2>2. LinearAlways => \A x \in 0 .. desiredWidth - 1, y \in 0 .. desiredHeight - 1 :
                          Pixel(x, y) = "blue"
    BY <1>10 DEF VbeInv
  <2>3. LinearAlways => \A x \in 0 .. desiredWidth - 1, y \in 0 .. desiredHeight - 1 :
                          Pixel(x, y)' = IF <<x, y>> \in TextPixels THEN "white" ELSE "blue"
    BY <1>5, <1>6, <2>1, <2>2 DEF Pixel
  <2> QED
    BY <1>1, <1>2, <1>3, <1>7, <1>8, <2>1, <2>3 DEF VbeInv, Wanted
<1> QED
  BY <1>1, <1>9, <1>10

LEMMA VbeStep == VbeInv /\ [VbeNext]_vbeVars => VbeInv'
<1> SUFFICES ASSUME VbeInv, [VbeNext]_vbeVars PROVE VbeInv'
  OBVIOUS
<1>1. CASE UNCHANGED vbeVars
  BY <1>1 DEF vbeVars, VbeInv, VbeTypeOK, DrawsInFrameBuffer, Wanted, Pixel, PixelAt
<1> QED
  BY <1>1, SearchInv, DrawInv DEF VbeNext

LEMMA VbeFacts ==
  ASSUME VbeInv
  PROVE  /\ VbeTypeOK /\ DrawsInFrameBuffer /\ FirstFit
         /\ LinearAlways => PictureShown
<1>1. FirstFit
  BY DEF VbeInv, FirstFit
<1>2. LinearAlways => PictureShown
  <2> SUFFICES ASSUME LinearAlways, vbePc = "return", display # None,
                      NEW x \in 0 .. desiredWidth - 1, NEW y \in 0 .. desiredHeight - 1
      PROVE  LET m == modes[display]
                 n == IF x < LeftEdge THEN 0 ELSE ((x - LeftEdge) \div FONT_WIDTH) + 1
                 shown == fb[m.framebuffer + y * (m.pitch \div 4) + x]
             IN shown = IF n \in DOMAIN Text
                           /\ <<(x - LeftEdge) % FONT_WIDTH, y - TopEdge>> \in Glyph[Text[n]]
                        THEN "white" ELSE "blue"
    BY DEF PictureShown, LeftEdge, TopEdge
  <2>1. Pixel(x, y) = IF <<x, y>> \in TextPixels THEN "white" ELSE "blue"
    BY DEF VbeInv
  <2>2. /\ modes \in ModeLists /\ modeInfo \in DOMAIN modes /\ Wanted(modes[modeInfo])
        /\ display = modeInfo
    BY DEF VbeInv, VbeTypeOK
  <2>3. PixelAt(x, y) = modes[display].framebuffer + y * (modes[display].pitch \div 4) + x
    BY <2>2, PixelPlace DEF At, Lines
  <2> QED
    BY <2>1, <2>3, TextPixelsAt DEF Pixel
<1> QED
  BY <1>1, <1>2 DEF VbeInv
-----------------------------------------------------------------------------
(***************************************************************************)
(* The parts together: a step of the composition is a step of one part     *)
(* and leaves the others alone, so that what each of them keeps is kept.   *)
(***************************************************************************)
PartsInv == Stage1Inv /\ A20Inv /\ BootInv /\ DiskInv /\ ElfInv /\ VbeInv /\ DescInv

LEMMA PartsBegin ==
  BootPartsInit =>
    /\ Stage1Init /\ A20Init /\ BootInit /\ BiosInit /\ ElfInit /\ VbeInit /\ DescInit
BY DEF BootPartsInit

LEMMA PartsStep ==
  [BootPartsNext]_bootPartsVars =>
    /\ [Stage1Next]_stage1Vars /\ [A20Next]_a20Vars /\ [BootNext]_bootVars
    /\ [BiosNext]_biosVars /\ [ElfNext]_elfVars /\ [VbeNext]_vbeVars /\ [DescNext]_descVars
<1>1. CASE UNCHANGED bootPartsVars
  BY <1>1 DEF bootPartsVars
<1>2. CASE BootPartsNext
  <2>1. CASE Only("stage1") /\ Stage1Next
    BY <2>1 DEF Only
  <2>2. CASE Only("a20") /\ A20Next
    BY <2>2 DEF Only
  <2>3. CASE Only("sequence") /\ BootNext
    BY <2>3 DEF Only
  <2>4. CASE Only("realMode") /\ RealNext
    BY <2>4 DEF Only
  <2>5. CASE Only("disk") /\ BiosNext
    BY <2>5 DEF Only
  <2>6. CASE Only("elf") /\ ElfNext
    BY <2>6 DEF Only
  <2>7. CASE Only("vbe") /\ VbeNext
    BY <2>7 DEF Only
  <2>8. CASE Only("tables") /\ DescNext
    BY <2>8 DEF Only
  <2> QED
    BY <1>2, <2>1, <2>2, <2>3, <2>4, <2>5, <2>6, <2>7, <2>8 DEF BootPartsNext
<1> QED
  BY <1>1, <1>2

LEMMA PartsInvStep == PartsInv /\ [BootPartsNext]_bootPartsVars => PartsInv'
BY PartsStep, Stage1Step, A20Step, BootStep, DiskStep, ElfStep, VbeStep, SegStep, GateStep
DEF PartsInv, DescInv

\* The inductive invariants of all the parts hold in every state of the boot.
THEOREM PartsInvHolds == BootPartsSpec => []PartsInv
<1>1. BootPartsInit => PartsInv
  BY PartsBegin, InitStage1Inv, InitA20Inv, InitBootInv, InitDiskInv, InitElfInv, InitVbeInv,
     InitDescInv DEF PartsInv
<1> QED
  BY <1>1, PartsInvStep, PTL DEF BootPartsSpec

\* Whatever fails on the way and whichever way the BIOS reads, stage 2 and the kernel are
\* entered, and ELF_Read reports success, only with the whole image in memory (boot.asm,
\* main.c, elf.c): for every list of extents, and for every file whose segments have
\* lengths of 16 bits and places of their own.
THEOREM ImagesAreWhole == ASSUME SegmentsFit PROVE BootPartsSpec => []EntersWholeImages
<1>1. PartsInv => EntersWholeImages
  BY SegmentsFit, Stage1Facts, BootFacts, ElfFacts DEF PartsInv, EntersWholeImages
<1> QED
  BY <1>1, PartsInvHolds, PTL

\* The kernel mounts the volume it was booted from, if that is the first of the table and
\* the kernel can read the table (main.c, mbr.c).  For every memory map with which it is
\* entered it is told of each of the BIOS's blocks once and in order: of all of them, if a
\* further call ends the list with an error, and of all but the last, if that one comes
\* with a continuation of 0 (memory.c).
THEOREM MachineIsFound == ASSUME FirstEntry PROVE BootPartsSpec => []KernelFindsItsMachine
<1>1. PartsInv => KernelFindsItsMachine
  BY FirstEntry, BootFacts DEF PartsInv, KernelFindsItsMachine
<1> QED
  BY <1>1, PartsInvHolds, PTL

\* For every list of modes, text and font, with frame buffers the processor can write to:
\* the mode set is the first that fits, nothing is drawn outside of its frame buffer, and
\* the picture is there, pixel by pixel, when the call returns (vbe.c, main.c).
THEOREM PictureIsShown == ASSUME LinearAlways PROVE BootPartsSpec => []ShowsPicture
<1>1. PartsInv => ShowsPicture
  BY LinearAlways, VbeFacts DEF PartsInv, ShowsPicture
<1> QED
  BY <1>1, PartsInvHolds, PTL

\* The tables are as sound when the kernel's initialisation is one of the parts of the
\* boot as when it runs alone (gdt.asm, idt.c, isr.c, irq.c).
THEOREM BootTablesAreSound == BootPartsSpec => []TablesSound
<1>1. BootPartsSpec => DescSpec
  <2>1. BootPartsInit => DescInit
    BY PartsBegin
  <2>2. [BootPartsNext]_bootPartsVars => [DescNext]_descVars
    BY PartsStep
  <2> QED
    BY <2>1, <2>2, PTL DEF BootPartsSpec, DescSpec
<1> QED
  BY <1>1, TablesAreSound, PTL

\* The disk driver of stage 2 does what its callers are promised, for every geometry of a
\* drive, every read and every number of tries: a call returns the sectors asked for, or
\* an error, and nothing else shows of its tries (disk.c, x86.asm).
THEOREM DiskIsServed == BootPartsSpec => ImplementsDisk
<1>1. BootPartsInit => Service!Init
  BY PartsBegin DEF BiosInit, Service!Init
<1>2. PartsInv /\ [BootPartsNext]_bootPartsVars =>
        [Service!Call \/ Service!Return]_<<IF Calling THEN req ELSE Nothing, biosResult>>
  BY PartsStep, DiskServes DEF PartsInv
<1> QED
  BY <1>1, <1>2, PartsInvHolds, PTL
  DEF BootPartsSpec, ImplementsDisk, Service!Spec, Calling

\* For every number of tries, whichever reads and resets fail, and every pace of the
\* keyboard controller: no load gives up before the tries are used, each on a medium or
\* after a reset that failed (but for the first), and the A20 dialogue, if no key comes
\* before its first command, changes nothing but the A20 line and overwrites no byte
\* (boot.asm, disk.c, entry.asm).
THEOREM DevicesHeeded == ASSUME KeysWait PROVE BootPartsSpec => DevicesAreHeeded
<1>1. PartsInv => BiosTypeOK /\ EveryTryCounts /\ A20TypeOK /\ OnlyA20Changes
  BY KeysWait, A20Facts DEF PartsInv, DiskInv
<1>2. PartsInv /\ [BootPartsNext]_bootPartsVars =>
        [stage1Pc = "reset" /\ stage1Pc' = "floppy_error"
           => stage1Faults >= STAGE1_TRIES - 1 \/ ~stage1Ready']_stage1Vars
  BY PartsStep, LateSurrender DEF PartsInv
<1>3. PartsInv /\ [BootPartsNext]_bootPartsVars =>
        [input = Empty \/ input' \in {input, Empty}]_a20Vars
  BY PartsStep, NothingLost DEF PartsInv
<1> QED
  BY <1>1, <1>2, <1>3, PartsInvHolds, PTL
  DEF BootPartsSpec, DevicesAreHeeded, GivesUpAfterTries, NothingOverwritten
=============================================================================
