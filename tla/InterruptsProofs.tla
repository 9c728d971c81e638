-------------------------- MODULE InterruptsProofs --------------------------
(***************************************************************************)
(* Interrupts are safe from the first step of HAL_Initialize on, for every *)
(* buffer size and keymap and whichever devices request: the inductive     *)
(* invariant, one lemma for each action, and the properties of module      *)
(* Interrupts.                                                             *)
(***************************************************************************)
EXTENDS Interrupts, KeyBufferProofs

FrameType == [vector : Vectors, flag : BOOLEAN, nextHead : Slots,
              ioCode : SUBSET ScanCodes,
              pc : {"entry", "irq", "inb", "test", "slot", "head",
                    "eoi", "eoi2", "iret"}]

\* What SysTypeOK says of the variables that KeyBuffer does not have.
SysTypes ==
  /\ master \in Chips /\ slave \in Chips /\ present \in BOOLEAN
  /\ outByte \in SUBSET ScanCodes
  /\ ifl \in BOOLEAN /\ halted \in BOOLEAN /\ driver \in BOOLEAN
  /\ boot \in 1 .. 29
  /\ gates \subseteq Vectors /\ isrHandlers \subseteq Vectors
  /\ irqHandlers \subseteq AllLines /\ picMask \in Words
  /\ stack \in Seq(FrameType)

\* How far the initialization words have gone at each step.
Programming ==
  /\ master.next = IF boot \in 13 .. 14 THEN 2 ELSE IF boot \in 15 .. 16 THEN 3
                   ELSE IF boot \in 17 .. 18 THEN 4 ELSE 0
  /\ slave.next = IF boot \in 14 .. 15 THEN 2 ELSE IF boot \in 16 .. 17 THEN 3
                  ELSE IF boot \in 18 .. 19 THEN 4 ELSE 0
  /\ driver /\ boot >= 15 => master.base = 32
  /\ driver /\ boot >= 16 => slave.base = 40

\* The masks, once i8259_Configure has set them again: no line of the slave is
\* open, and of the master's only the keyboard's, as the last thing.
Masks ==
  /\ driver /\ boot \in 21 .. 26 => picMask = AllLines
  /\ driver /\ boot >= 27 => picMask = AllLines \ {1}
  /\ driver /\ boot \in 22 .. 27 => master.imr = Bits
  /\ driver /\ boot >= 28 => master.imr = Bits \ {1}
  /\ driver /\ boot >= 23 => slave.imr = Bits

\* The tables: without a controller HAL_Initialize goes no further than step 8.
Tables ==
  /\ driver => boot >= 9 /\ present
  /\ boot \in 9 .. 28 => driver
  /\ boot >= 2 => Vectors \ {128} \subseteq gates
  /\ isrHandlers \subseteq IrqVectors
  /\ driver /\ boot >= 24 => IrqVectors \subseteq isrHandlers
  /\ irqHandlers = IF driver /\ boot >= 26 THEN {1} ELSE {}

\* Interrupts are enabled only outside of a handler, and not before the sti.
Enabling == ifl => driver /\ boot >= 25 /\ stack = <<>>

\* A request of line 1 that was seen, and not yet served by reading the port, has
\* its scan code in the port.
Requests ==
  /\ \A s, t \in outByte : s = t
  /\ 1 \in master.irr => outByte # {}

\* What the one frame on the stack says of the controllers and the buffer.
ExceptionFrame(f) == f.vector \in Exceptions /\ f.pc = "entry" /\ boot = 29

SpuriousFrame(f) ==
  f.vector = 39 /\ f.pc \in {"entry", "irq", "eoi2", "iret"} /\ driver /\ boot >= 28

KeyboardFrame(f) ==
  /\ f.vector = 33 /\ driver /\ boot >= 28
  /\ f.pc \in {"entry", "irq", "inb"} => outByte # {} /\ 1 \notin master.irr
  /\ f.pc = "slot" => f.ioCode \subseteq DOMAIN keymap
  /\ f.pc \in {"slot", "head"} =>
       f.nextHead = Succ(bufferHead) /\ Succ(bufferHead) # bufferTail

InService(f) ==
  IF f.vector = 33 /\ f.pc \notin {"eoi2", "iret"} THEN {1} ELSE {}

Frames ==
  /\ slave.isr = {}
  /\ stack = <<>> => master.isr = {}
  /\ stack # <<>> =>
       /\ Len(stack) = 1
       /\ ExceptionFrame(Top) \/ SpuriousFrame(Top) \/ KeyboardFrame(Top)
       /\ master.isr = InService(Top)
       /\ \A s, t \in Top.ioCode : s = t

\* The inductive invariant: IInv is that of module KeyBufferProofs.
SysInv ==
  /\ IInv /\ SysTypes /\ Programming /\ Masks /\ Tables
  /\ Enabling /\ Requests /\ Frames

-----------------------------------------------------------------------------
\* HAL_Initialize step by step.
LEMMA HalSteps ==
  /\ Len(HAL_Initialize) = 28
  /\ HAL_Initialize[1] = Do("gates")
  /\ \A k \in {2, 9, 20} : HAL_Initialize[k] = With("setMask", AllLines)
  /\ \A k \in {3, 6, 10, 21, 27} : HAL_Initialize[k] = Do("outMask1")
  /\ \A k \in {4, 7, 11, 22, 28} : HAL_Initialize[k] = Do("outMask2")
  /\ HAL_Initialize[5] = With("setMask", ProbeMask)
  /\ HAL_Initialize[8] = Do("probe")
  /\ HAL_Initialize[12] = With("command1", {0, 4})
  /\ HAL_Initialize[13] = With("command2", {0, 4})
  /\ HAL_Initialize[14] = With("data1", {5})
  /\ HAL_Initialize[15] = With("data2", {3, 5})
  /\ HAL_Initialize[16] = With("data1", {2})
  /\ HAL_Initialize[17] = With("data2", {1})
  /\ HAL_Initialize[18] = With("data1", {0})
  /\ HAL_Initialize[19] = With("data2", {0})
  /\ HAL_Initialize[23] = Do("register")
  /\ HAL_Initialize[24] = Do("sti")
  /\ HAL_Initialize[25] = Do("handler")
  /\ HAL_Initialize[26] = With("unmask", {1})
BY DEF HAL_Initialize, Probe, Configure, SetMask, Unmask, OutMask

LEMMA HighestOfOne ==
  ASSUME NEW l \in Nat
  PROVE  Highest({l}) = l
<1>1. \E k \in {l} : \A j \in {l} : k <= j
  OBVIOUS
<1> QED
  BY <1>1 DEF Highest

\* What the driver writes to the controllers, bit by bit.
LEMMA Writes ==
  /\ ByteValue({5} \ {0, 1, 2}) = 32
  /\ ByteValue({3, 5} \ {0, 1, 2}) = 40
  /\ Low(AllLines) = Bits /\ High(AllLines) = Bits
  /\ Low(AllLines \ {1}) = Bits \ {1} /\ High(AllLines \ {1}) = Bits
  /\ \A word \in Words : Low(word) \in SUBSET Bits /\ High(word) \in SUBSET Bits
<1>1. ByteValue({5} \ {0, 1, 2}) = 32
  BY DEF ByteValue
<1>2. ByteValue({3, 5} \ {0, 1, 2}) = 40
  BY DEF ByteValue
<1>3. Low(AllLines) = Bits /\ Low(AllLines \ {1}) = Bits \ {1}
  BY DEF Low, AllLines, Bits
<1>4. High(AllLines) = Bits /\ High(AllLines \ {1}) = Bits
  <2> SUFFICES ASSUME NEW word \in {AllLines, AllLines \ {1}}
               PROVE  High(word) = Bits
    OBVIOUS
  <2>1. \A b \in Bits : b + 8 \in word \ Bits /\ (b + 8) - 8 = b
    BY DEF Bits, AllLines
  <2>2. \A b \in word \ Bits : b - 8 \in Bits
    BY DEF Bits, AllLines
  <2> QED
    BY <2>1, <2>2 DEF High
<1>5. \A word \in Words : Low(word) \in SUBSET Bits /\ High(word) \in SUBSET Bits
  BY DEF Words, Low, High, Bits
<1> QED
  BY <1>1, <1>2, <1>3, <1>4, <1>5

LEMMA InitSysInv == SysInit => SysInv
<1> SUFFICES ASSUME SysInit PROVE SysInv
  OBVIOUS
<1> USE DEF SysInit
<1>1. IInv
  BY InitIInv
<1>2. /\ master.irr \in SUBSET Bits /\ 1 \notin master.irr /\ master.imr = {}
      /\ master.isr = {} /\ master.base = 8 /\ master.next = 0
      /\ master \in Chips /\ slave \in Chips
  BY LinesAssumption DEF Chips, Bits
<1>3. SysTypes
  <2>1. stack \in Seq(FrameType)
    BY EmptySeq
  <2>2. picMask \in Words /\ boot \in 1 .. 29
    BY DEF Words, AllLines
  <2>3. /\ outByte = {} /\ gates = {} /\ isrHandlers = {} /\ irqHandlers = {}
        /\ present \in BOOLEAN /\ ifl = FALSE /\ halted = FALSE /\ driver = FALSE
    OBVIOUS
  <2> QED
    BY <1>2, <2>1, <2>2, <2>3 DEF SysTypes
<1>4. Programming /\ Masks /\ Tables /\ Enabling
  BY <1>2 DEF Programming, Masks, Tables, Enabling
<1>5. Requests /\ Frames
  BY <1>2 DEF Requests, Frames
<1> QED
  BY <1>1, <1>3, <1>4, <1>5 DEF SysInv

-----------------------------------------------------------------------------
\* A write to a controller keeps it a controller.
LEMMA WritesChip ==
  ASSUME NEW chip \in Chips, NEW byte \in SUBSET Bits
  PROVE  WriteData(chip, byte) \in Chips /\ WriteCommand(chip, byte) \in Chips
<1>1. ByteValue(byte \ {0, 1, 2}) \in 0 .. 255
  BY DEF ByteValue
<1>2. chip.next # 0 => (chip.next + 1) % 5 \in {0, 3, 4}
  BY DEF Chips
<1>3. WriteData(chip, byte) \in Chips
  BY <1>1, <1>2, ZenonT(60) DEF WriteData, Chips
<1>4. WriteCommand(chip, byte) \in Chips
  BY DEF WriteCommand, Chips
<1> QED
  BY <1>3, <1>4

LEMMA RaisesChip ==
  ASSUME NEW chip \in Chips, NEW line \in Bits
  PROVE  RaiseLine(chip, line) \in Chips
BY DEF RaiseLine, Chips

\* A step of HAL_Initialize changes neither the keyboard's byte nor the frames,
\* and leaves the line requests alone or forgets them.
LEMMA BootStepFrame ==
  ASSUME SysInv, BootStep
  PROVE  /\ IInv' /\ stack = <<>> /\ ~halted /\ boot \in 1 .. 28
         /\ UNCHANGED <<ringVars, readVars, present, outByte, stack, halted>>
<1>1. UNCHANGED <<ringVars, readVars, outByte, stack, halted>>
  BY DEF BootStep
<1>2. IInv'
  BY <1>1, NextIInv DEF SysInv, vars, ringVars, readVars
<1>3. UNCHANGED present
  BY DEF BootStep, BootProbe, BootSet, chipVars
<1>4. boot \in 1 .. 28 /\ stack = <<>> /\ ~halted
  BY HalSteps DEF BootStep, BootDone, Running, SysInv, SysTypes
<1> QED
  BY <1>1, <1>2, <1>3, <1>4

LEMMA BootStepSysInv ==
  ASSUME SysInv, BootStep
  PROVE  SysInv'
<1> USE DEF SysInv
<1>0. /\ IInv' /\ stack = <<>> /\ ~halted /\ boot \in 1 .. 28
      /\ UNCHANGED <<ringVars, readVars, present, outByte, stack, halted>>
      /\ master \in Chips /\ slave \in Chips /\ picMask \in Words
      /\ ifl \in BOOLEAN /\ driver \in BOOLEAN /\ present \in BOOLEAN
  BY BootStepFrame DEF SysTypes
<1>1. CASE boot \in {1, 23, 24, 25}
  <2>1. /\ UNCHANGED <<master, slave, driver, picMask>>
        /\ boot' = boot + 1
        /\ gates' = IF boot = 1 THEN Vectors \ {128}
                    ELSE IF boot = 23 THEN gates \cup IrqVectors ELSE gates
        /\ isrHandlers' = IF boot = 23 THEN isrHandlers \cup IrqVectors ELSE isrHandlers
        /\ irqHandlers' = IF boot = 25 THEN {1} ELSE irqHandlers
        /\ ifl' = (boot = 24 \/ ifl)
    <3>1. CASE boot = 1
      BY <3>1, HalSteps DEF BootStep, BootSet, Outs, Do, chipVars
    <3>2. CASE boot = 23
      BY <3>2, HalSteps DEF BootStep, BootSet, Outs, Do, chipVars
    <3>3. CASE boot = 24
      BY <3>3, HalSteps DEF BootStep, BootSet, Outs, Do, chipVars
    <3>4. CASE boot = 25
      BY <3>4, HalSteps DEF BootStep, BootSet, Outs, Do, chipVars
    <3> QED
      BY <1>1, <3>1, <3>2, <3>3, <3>4
  <2>2. SysTypes'
    BY <1>0, <1>1, <2>1 DEF SysTypes, Vectors, IrqVectors, PIC_REMAP_OFFSET, AllLines
  <2>3. Programming' /\ Masks'
    BY <1>0, <1>1, <2>1 DEF Programming, Masks
  <2>4. Tables'
    BY <1>0, <1>1, <2>1 DEF Tables
  <2>5. Enabling'
    BY <1>0, <1>1, <2>1 DEF Enabling, Tables
  <2>6. Requests' /\ Frames'
    BY <1>0, <2>1 DEF Requests, Frames
  <2> QED
    BY <1>0, <2>2, <2>3, <2>4, <2>5, <2>6
<1>2. CASE boot \in {2, 5, 9, 20, 26}
  <2>1. /\ UNCHANGED <<master, slave, ifl, gates, isrHandlers, irqHandlers, driver>>
        /\ boot' = boot + 1
        /\ picMask' \in Words
        /\ boot = 20 => picMask' = AllLines
        /\ boot = 26 => picMask' = picMask \ {1}
    <3>1. CASE boot \in {2, 9, 20}
      <4>1. HAL_Initialize[boot] = With("setMask", AllLines)
        BY <3>1, HalSteps
      <4> QED
        BY <1>0, <3>1, <4>1 DEF BootStep, BootSet, Outs, With, chipVars, Words, AllLines
    <3>2. CASE boot = 5
      <4>1. HAL_Initialize[boot] = With("setMask", ProbeMask)
        BY <3>2, HalSteps
      <4> QED
        BY <1>0, <3>2, <4>1 DEF BootStep, BootSet, Outs, With, chipVars, Words, ProbeMask
    <3>3. CASE boot = 26
      <4>1. HAL_Initialize[boot] = With("unmask", {1})
        BY <3>3, HalSteps
      <4>2. BootSet([op |-> "unmask", arg |-> {1}])
        BY <4>1 DEF BootStep, Outs, With
      <4>3. picMask \ {1} \in Words
        BY <1>0 DEF Words
      <4> QED
        BY <1>0, <3>3, <4>2, <4>3 DEF BootSet, chipVars
    <3> QED
      BY <1>2, <3>1, <3>2, <3>3
  <2>2. SysTypes'
    BY <1>0, <1>2, <2>1 DEF SysTypes
  <2>3. Programming'
    BY <1>0, <1>2, <2>1 DEF Programming
  <2>4a. Masks'
    <3>1. boot \notin {21, 22, 23, 24, 25, 27, 28}
      BY <1>2
    <3> QED
      BY <1>0, <1>2, <2>1, <3>1 DEF Masks
  <2>4. Tables'
    BY <1>0, <1>2, <2>1 DEF Tables
  <2>5. Enabling' /\ Requests' /\ Frames'
    BY <1>0, <2>1 DEF Enabling, Requests, Frames
  <2> QED
    BY <1>0, <2>2, <2>3, <2>4a, <2>4, <2>5
<1>3. CASE boot = 8
  <2>1. /\ UNCHANGED <<master, slave, ifl, gates, isrHandlers, irqHandlers, picMask>>
        /\ boot' = IF driver' THEN 9 ELSE 29
        /\ driver' \in BOOLEAN
        /\ driver' => present
    <3>1. BootProbe
      BY <1>3, HalSteps DEF BootStep, Outs, Do
    <3> DEFINE found == present /\ master.imr = Low(ProbeMask) /\ slave.imr = High(ProbeMask)
    <3>2. /\ driver' = found
          /\ boot' = IF found THEN 9 ELSE 29
          /\ UNCHANGED <<chipVars, ifl, gates, isrHandlers, irqHandlers, picMask>>
      BY <1>3, <3>1, HalSteps DEF BootProbe
    <3>3. found \in BOOLEAN /\ (found => present)
      BY <1>0
    <3> HIDE DEF found
    <3> QED
      BY <3>2, <3>3 DEF chipVars
  <2>2. SysTypes'
    BY <1>0, <2>1 DEF SysTypes
  <2>3. Programming' /\ Masks'
    BY <1>0, <1>3, <2>1 DEF Programming, Masks
  <2>4. Tables'
    BY <1>0, <1>3, <2>1 DEF Tables
  <2>5. Enabling' /\ Requests' /\ Frames'
    BY <1>0, <1>3, <2>1 DEF Enabling, Requests, Frames
  <2> QED
    BY <1>0, <2>2, <2>3, <2>4, <2>5
<1>4. CASE boot \in {3, 6, 10, 21, 27}
  <2>1. /\ master' = WriteData(master, Low(picMask))
        /\ boot' = boot + 1 /\ UNCHANGED <<slave, ifl, tableVars>>
    BY <1>4, HalSteps DEF BootStep, BootOut, Outs, Do
  <2>0. master' \in Chips
    BY <1>0, <2>1, Writes, WritesChip
  <2>2. master' = [master EXCEPT !.imr = Low(picMask)]
    BY <1>4, <2>1 DEF WriteData, Programming
  <2>3. /\ boot = 21 => Low(picMask) = Bits
        /\ boot = 27 => Low(picMask) = Bits \ {1}
    <3>1. /\ boot = 21 => picMask = AllLines
          /\ boot = 27 => picMask = AllLines \ {1}
      BY <1>0, <1>4 DEF Masks, Tables
    <3> QED
      BY <3>1, Writes
  <2>4. SysTypes'
    BY <1>0, <1>4, <2>0, <2>1 DEF SysTypes, tableVars
  <2>5a. Programming'
    BY <1>0, <1>4, <2>1, <2>2 DEF Programming, Chips, tableVars
  <2>5. Tables'
    BY <1>0, <1>4, <2>1 DEF Tables, tableVars
  <2>6. Masks'
    BY <1>0, <1>4, <2>1, <2>2, <2>3 DEF Masks, Chips, tableVars
  <2>7. Enabling' /\ Requests' /\ Frames'
    BY <1>0, <2>1, <2>2, SMTT(60) DEF Enabling, Requests, Frames, Chips, tableVars
  <2> QED
    BY <1>0, <2>4, <2>5a, <2>5, <2>6, <2>7
<1>5. CASE boot \in {4, 7, 11, 22, 28}
  <2>1. /\ slave' = WriteData(slave, High(picMask))
        /\ boot' = boot + 1 /\ UNCHANGED <<master, ifl, tableVars>>
    BY <1>5, HalSteps DEF BootStep, BootOut, Outs, Do
  <2>0. slave' \in Chips
    BY <1>0, <2>1, Writes, WritesChip
  <2>2. slave' = [slave EXCEPT !.imr = High(picMask)]
    BY <1>5, <2>1 DEF WriteData, Programming
  <2>3. boot \in {22, 28} => High(picMask) = Bits
    <3>1. /\ boot = 22 => picMask = AllLines
          /\ boot = 28 => picMask = AllLines \ {1}
      BY <1>0, <1>5 DEF Masks, Tables
    <3> QED
      BY <3>1, Writes
  <2>4. SysTypes'
    BY <1>0, <1>5, <2>0, <2>1 DEF SysTypes, tableVars
  <2>5a. Programming'
    BY <1>0, <1>5, <2>1, <2>2 DEF Programming, Chips, tableVars
  <2>5. Tables'
    BY <1>0, <1>5, <2>1 DEF Tables, tableVars
  <2>6. Masks'
    BY <1>0, <1>5, <2>1, <2>2, <2>3 DEF Masks, Chips, tableVars
  <2>7. Enabling' /\ Requests' /\ Frames'
    BY <1>0, <2>1, <2>2 DEF Enabling, Requests, Frames, Chips, tableVars
  <2> QED
    BY <1>0, <2>4, <2>5a, <2>5, <2>6, <2>7
<1>6. CASE boot \in {12, 14, 16, 18}
  <2>1. /\ boot = 12 => master' = WriteCommand(master, {0, 4})
        /\ boot = 14 => master' = WriteData(master, {5})
        /\ boot = 16 => master' = WriteData(master, {2})
        /\ boot = 18 => master' = WriteData(master, {0})
        /\ boot' = boot + 1 /\ UNCHANGED <<slave, ifl, tableVars>>
    <3>1. CASE boot = 12
      BY <3>1, HalSteps DEF BootStep, BootOut, Outs, With
    <3>2. CASE boot = 14
      BY <3>2, HalSteps DEF BootStep, BootOut, Outs, With
    <3>3. CASE boot = 16
      BY <3>3, HalSteps DEF BootStep, BootOut, Outs, With
    <3>4. CASE boot = 18
      BY <3>4, HalSteps DEF BootStep, BootOut, Outs, With
    <3> QED
      BY <1>6, <3>1, <3>2, <3>3, <3>4
  <2>3. master' \in Chips
    BY <1>0, <1>6, <2>1, WritesChip DEF Bits
  <2>2. /\ master'.isr = {} /\ master'.irr \subseteq master.irr
        /\ boot = 12 => master'.next = 2
        /\ boot = 14 => master'.next = 3 /\ master'.base = 32
        /\ boot = 16 => master'.next = 4 /\ master'.base = master.base
        /\ boot = 18 => master'.next = 0 /\ master'.base = master.base
    <3>1. master.isr = {}
      BY <1>0 DEF Frames
    <3>2. CASE boot = 12
      <4>1. master' = [master EXCEPT !.imr = {}, !.irr = {}, !.isr = {}, !.next = 2]
        BY <2>1, <3>2 DEF WriteCommand
      <4> QED
        BY <1>0, <3>2, <4>1 DEF Chips
    <3>3. CASE boot = 14
      <4> DEFINE byte == {5}
      <4>1. master' = WriteData(master, byte) /\ ByteValue(byte \ {0, 1, 2}) = 32
        BY <2>1, <3>3, Writes
      <4> HIDE DEF byte
      <4>2. master.next = 2
        BY <3>3 DEF Programming
      <4>3. master' = [master EXCEPT !.base = ByteValue(byte \ {0, 1, 2}), !.next = 3]
        BY <4>1, <4>2 DEF WriteData
      <4> QED
        BY <1>0, <3>1, <3>3, <4>1, <4>3 DEF Chips
    <3>4. CASE boot = 16
      <4>1. master' = [master EXCEPT !.next = 4]
        BY <2>1, <3>4 DEF WriteData, Programming
      <4> QED
        BY <1>0, <3>1, <3>4, <4>1 DEF Chips
    <3>5. CASE boot = 18
      <4>1. master' = [master EXCEPT !.next = 0]
        BY <2>1, <3>5 DEF WriteData, Programming
      <4> QED
        BY <1>0, <3>1, <3>5, <4>1 DEF Chips
    <3> QED
      BY <1>6, <3>2, <3>3, <3>4, <3>5
  <2>4. SysTypes'
    BY <1>0, <1>6, <2>1, <2>3 DEF SysTypes, tableVars
  <2>5. Programming' /\ Tables'
    BY <1>0, <1>6, <2>1, <2>2 DEF Programming, Tables, tableVars
  <2>6. Masks'
    BY <1>0, <1>6, <2>1 DEF Masks, tableVars
  <2>7. Enabling' /\ Requests' /\ Frames'
    BY <1>0, <2>1, <2>2 DEF Enabling, Requests, Frames, tableVars
  <2> QED
    BY <1>0, <2>4, <2>5, <2>6, <2>7
<1>7. CASE boot \in {13, 15, 17, 19}
  <2>1. /\ boot = 13 => slave' = WriteCommand(slave, {0, 4})
        /\ boot = 15 => slave' = WriteData(slave, {3, 5})
        /\ boot = 17 => slave' = WriteData(slave, {1})
        /\ boot = 19 => slave' = WriteData(slave, {0})
        /\ boot' = boot + 1 /\ UNCHANGED <<master, ifl, tableVars>>
    <3>1. CASE boot = 13
      BY <3>1, HalSteps DEF BootStep, BootOut, Outs, With
    <3>2. CASE boot = 15
      BY <3>2, HalSteps DEF BootStep, BootOut, Outs, With
    <3>3. CASE boot = 17
      BY <3>3, HalSteps DEF BootStep, BootOut, Outs, With
    <3>4. CASE boot = 19
      BY <3>4, HalSteps DEF BootStep, BootOut, Outs, With
    <3> QED
      BY <1>7, <3>1, <3>2, <3>3, <3>4
  <2>3. slave' \in Chips
    BY <1>0, <1>7, <2>1, WritesChip DEF Bits
  <2>2. /\ slave'.isr = {}
        /\ boot = 13 => slave'.next = 2
        /\ boot = 15 => slave'.next = 3 /\ slave'.base = 40
        /\ boot = 17 => slave'.next = 4 /\ slave'.base = slave.base
        /\ boot = 19 => slave'.next = 0 /\ slave'.base = slave.base
    <3>1. slave.isr = {}
      BY DEF Frames
    <3>2. CASE boot = 13
      <4>1. slave' = [slave EXCEPT !.imr = {}, !.irr = {}, !.isr = {}, !.next = 2]
        BY <2>1, <3>2 DEF WriteCommand
      <4> QED
        BY <1>0, <3>2, <4>1 DEF Chips
    <3>3. CASE boot = 15
      <4> DEFINE byte == {3, 5}
      <4>1. slave' = WriteData(slave, byte) /\ ByteValue(byte \ {0, 1, 2}) = 40
        BY <2>1, <3>3, Writes
      <4> HIDE DEF byte
      <4>2. slave.next = 2
        BY <3>3 DEF Programming
      <4>3. slave' = [slave EXCEPT !.base = ByteValue(byte \ {0, 1, 2}), !.next = 3]
        BY <4>1, <4>2 DEF WriteData
      <4> QED
        BY <1>0, <3>1, <3>3, <4>1, <4>3 DEF Chips
    <3>4. CASE boot = 17
      <4>1. slave' = [slave EXCEPT !.next = 4]
        BY <2>1, <3>4 DEF WriteData, Programming
      <4> QED
        BY <1>0, <3>1, <3>4, <4>1 DEF Chips
    <3>5. CASE boot = 19
      <4>1. slave' = [slave EXCEPT !.next = 0]
        BY <2>1, <3>5 DEF WriteData, Programming
      <4> QED
        BY <1>0, <3>1, <3>5, <4>1 DEF Chips
    <3> QED
      BY <1>7, <3>2, <3>3, <3>4, <3>5
  <2>4. SysTypes'
    BY <1>0, <1>7, <2>1, <2>3 DEF SysTypes, tableVars
  <2>5. Programming' /\ Tables'
    BY <1>0, <1>7, <2>1, <2>2 DEF Programming, Tables, tableVars
  <2>6. Masks'
    BY <1>0, <1>7, <2>1 DEF Masks, tableVars
  <2>7. Enabling' /\ Requests' /\ Frames'
    BY <1>0, <2>1, <2>2 DEF Enabling, Requests, Frames, tableVars
  <2> QED
    BY <1>0, <2>4, <2>5, <2>6, <2>7
<1> QED
  BY <1>0, <1>1, <1>2, <1>3, <1>4, <1>5, <1>6, <1>7

-----------------------------------------------------------------------------
\* Devices only add requests; the keyboard's comes with its scan code.
LEMMA KeyEventSysInv ==
  ASSUME SysInv, NEW ioCode \in ScanCodes, KeyEvent(ioCode)
  PROVE  SysInv'
<1> USE DEF SysInv
<1>1. /\ outByte = {} /\ outByte' = {ioCode}
      /\ master' = [master EXCEPT !.irr = @ \cup {1}]
      /\ UNCHANGED <<ringVars, readVars, slave, present, ifl, boot, tableVars, stack, halted>>
  BY DEF KeyEvent, Raise, RaiseLine
<1>2. master \in Chips /\ master' \in Chips
  <2>1. master \in Chips /\ 1 \in Bits
    BY DEF SysTypes, Bits
  <2> QED
    BY <1>1, <2>1, RaisesChip DEF RaiseLine
<1>3. IInv'
  BY <1>1, NextIInv DEF vars, ringVars, readVars
<1>4. SysTypes'
  BY <1>1, <1>2 DEF SysTypes, tableVars
<1>5. Programming' /\ Masks' /\ Tables'
  BY <1>1, <1>2 DEF Programming, Masks, Tables, tableVars, Chips
<1>6. Enabling' /\ Requests'
  BY <1>1, <1>2 DEF Enabling, Requests, tableVars, Chips
<1>7. Frames'
  BY <1>1, <1>2 DEF Frames, ExceptionFrame, SpuriousFrame, KeyboardFrame, InService, Top,
                   tableVars, ringVars, Chips
<1> QED
  BY <1>3, <1>4, <1>5, <1>6, <1>7

LEMMA OtherEventSysInv ==
  ASSUME SysInv, NEW line \in OtherLines, OtherEvent(line)
  PROVE  SysInv'
<1> USE DEF SysInv
<1>1. /\ master \in Chips /\ slave \in Chips /\ line \in 0 .. 15 /\ line # 1
  BY LinesAssumption DEF SysTypes
<1>2. /\ master' \in Chips /\ slave' \in Chips
      /\ 1 \in master'.irr <=> 1 \in master.irr
      /\ \A f \in {"imr", "isr", "base", "next"} :
           master'[f] = master[f] /\ slave'[f] = slave[f]
  <2>1. CASE line < 8
    <3>1. master' = [master EXCEPT !.irr = @ \cup {line}] /\ slave' = slave /\ line \in Bits
      BY <1>1, <2>1 DEF OtherEvent, Raise, RaiseLine, Bits
    <3> QED
      BY <1>1, <3>1 DEF Chips
  <2>2. CASE ~ (line < 8)
    <3>1. /\ slave' = [slave EXCEPT !.irr = @ \cup {line - 8}] /\ master' = master
          /\ line - 8 \in Bits
      BY <1>1, <2>2 DEF OtherEvent, Raise, RaiseLine, Bits
    <3> QED
      BY <1>1, <3>1 DEF Chips
  <2> QED
    BY <2>1, <2>2
<1>3. UNCHANGED <<ringVars, readVars, present, outByte, ifl, boot, tableVars, stack, halted>>
  BY DEF OtherEvent
<1>4. IInv'
  BY <1>3, NextIInv DEF vars, ringVars, readVars
<1>5. SysTypes'
  BY <1>2, <1>3 DEF SysTypes, tableVars
<1>6. Programming' /\ Masks' /\ Tables'
  BY <1>2, <1>3 DEF Programming, Masks, Tables, tableVars
<1>7. Enabling' /\ Requests'
  BY <1>2, <1>3 DEF Enabling, Requests, tableVars
<1>8. Frames'
  BY <1>2, <1>3 DEF Frames, ExceptionFrame, SpuriousFrame, KeyboardFrame, InService, Top,
                   tableVars, ringVars
<1> QED
  BY <1>4, <1>5, <1>6, <1>7, <1>8

-----------------------------------------------------------------------------
\* The frame of an interrupt, pushed where no handler runs.
LEMMA PushFrame ==
  ASSUME stack = <<>>, ifl \in BOOLEAN, NEW v \in Vectors, Enter(v)
  PROVE  /\ stack' \in Seq(FrameType) /\ stack' # <<>> /\ Len(stack') = 1
         /\ Top' = Frame(v) /\ ifl' = FALSE
<1>1. Frame(v) \in FrameType
  BY SizeAssumption DEF Frame, FrameType, Slots
<1>2. stack' = <<Frame(v)>> /\ ifl' = FALSE
  BY DEF Enter
<1> QED
  BY <1>1, <1>2 DEF Top

\* Once the controllers are programmed the only line ever signalled is the
\* keyboard's, and it is not signalled before its handler is set.
LEMMA OnlyLineOne ==
  ASSUME SysInv, ifl
  PROVE  /\ driver /\ present /\ boot >= 25 /\ boot \in 1 .. 29 /\ stack = <<>>
         /\ master.next = 0 /\ master.base = 32 /\ master.isr = {}
         /\ Signalled(slave) = {}
         /\ MasterSignal \subseteq {1} /\ (MasterSignal # {} => 1 \in master.irr)
         /\ boot < 28 => MasterSignal = {} /\ master.imr = Bits
<1> USE DEF SysInv
<1>1. driver /\ present /\ boot >= 25 /\ boot \in 1 .. 29 /\ stack = <<>>
  BY DEF Enabling, Tables, SysTypes
<1>2. /\ master.next = 0 /\ master.base = 32 /\ slave.next = 0
      /\ master.isr = {} /\ slave.isr = {}
  BY <1>1 DEF Programming, Frames
<1>3. master.irr \subseteq Bits /\ slave.irr \subseteq Bits
  BY DEF SysTypes, Chips
<1>4. slave.imr = Bits /\ (boot < 28 => master.imr = Bits)
      /\ (boot >= 28 => master.imr = Bits \ {1})
  <2>1. boot < 28 => boot \in 22 .. 27
    BY <1>1
  <2>2. Masks
    OBVIOUS
  <2> QED
    BY <1>1, <2>1, <2>2 DEF Masks
<1>5. Signalled(slave) = {}
  BY <1>2, <1>3, <1>4 DEF Signalled
<1>6. MasterSignal = Signalled(master)
  BY <1>5 DEF MasterSignal
<1>7. master.irr \ master.imr \subseteq {1}
  BY <1>1, <1>3, <1>4
<1>8. Signalled(master) \subseteq {1} /\ (Signalled(master) # {} => 1 \in master.irr)
  <2>1. CASE master.irr \ master.imr = {}
    BY <2>1 DEF Signalled
  <2>2. CASE master.irr \ master.imr = {1}
    BY <1>2, <2>2, HighestOfOne DEF Signalled
  <2> QED
    BY <1>7, <2>1, <2>2
<1>9. boot < 28 => Signalled(master) = {}
  BY <1>3, <1>4 DEF Signalled
<1> QED
  BY <1>1, <1>2, <1>4, <1>5, <1>6, <1>8, <1>9

LEMMA InterruptSysInv ==
  ASSUME SysInv, Interrupt
  PROVE  SysInv'
<1> USE DEF SysInv
<1>1. ifl /\ master \in Chips /\ slave \in Chips
  BY DEF Interrupt, SysTypes
<1>2. /\ driver /\ boot \in 28 .. 29 /\ stack = <<>> /\ 1 \in master.irr
      /\ master.base = 32 /\ master.isr = {} /\ outByte # {}
      /\ master' = Acknowledge(master, 1) /\ slave' = slave
      /\ Enter(33)
  <2>1. PICK l \in MasterSignal :
          /\ master' = Acknowledge(master, l)
          /\ IF l = 2 /\ Signalled(slave) # {}
             THEN \E s \in Signalled(slave) :
                    slave' = Acknowledge(slave, s) /\ Enter(slave.base + s)
             ELSE UNCHANGED slave /\ Enter(master.base + l)
    BY DEF Interrupt
  <2>2. l = 1 /\ MasterSignal # {}
    BY <1>1, <2>1, OnlyLineOne
  <2>3. slave' = slave /\ Enter(33)
    BY <1>1, <2>1, <2>2, OnlyLineOne
  <2>4. master' = Acknowledge(master, 1)
    BY <2>1, <2>2
  <2>5. /\ driver /\ boot \in 28 .. 29 /\ stack = <<>> /\ 1 \in master.irr
        /\ master.base = 32 /\ master.isr = {}
    BY <1>1, <2>2, OnlyLineOne, SMTT(60)
  <2> QED
    BY <2>3, <2>4, <2>5 DEF Requests
<1>3. UNCHANGED <<ringVars, readVars, present, outByte, boot, tableVars, halted>>
  BY DEF Interrupt
<1>4. /\ stack' \in Seq(FrameType) /\ stack' # <<>> /\ Len(stack') = 1
      /\ Top' = Frame(33) /\ ifl' = FALSE
  BY <1>1, <1>2, PushFrame DEF Vectors
<1>5. /\ master' \in Chips /\ master'.isr = {1} /\ 1 \notin master'.irr
      /\ master'.imr = master.imr /\ master'.base = master.base /\ master'.next = master.next
  <2>1. 1 \in Bits
    BY DEF Bits
  <2> QED
    BY <1>1, <1>2, <2>1 DEF Acknowledge, Chips
<1>6. IInv'
  BY <1>3, NextIInv DEF vars, ringVars, readVars
<1>7. SysTypes'
  BY <1>2, <1>3, <1>4, <1>5 DEF SysTypes, tableVars
<1>8. Programming' /\ Masks' /\ Tables'
  BY <1>2, <1>3, <1>5 DEF Programming, Masks, Tables, tableVars
<1>9. Enabling' /\ Requests'
  BY <1>3, <1>4, <1>5 DEF Enabling, Requests
<1>10. Frames'
  <2>1. KeyboardFrame(Top)'
    BY <1>2, <1>3, <1>4, <1>5 DEF KeyboardFrame, Frame, tableVars
  <2>2. master'.isr = InService(Top)'
    BY <1>4, <1>5 DEF InService, Frame
  <2>3. slave'.isr = {} /\ Top'.ioCode = {}
    BY <1>2, <1>4 DEF Frames, Frame
  <2> QED
    BY <1>4, <2>1, <2>2, <2>3 DEF Frames
<1> QED
  BY <1>6, <1>7, <1>8, <1>9, <1>10

LEMMA SpuriousSysInv ==
  ASSUME SysInv, Spurious
  PROVE  SysInv'
<1> USE DEF SysInv
<1>1. ifl /\ master \in Chips
  BY DEF Spurious, SysTypes
<1>2. driver /\ boot \in 28 .. 29 /\ stack = <<>> /\ master.isr = {} /\ Enter(39)
  <2>1. master.imr # Bits /\ Enter(master.base + 7)
    BY DEF Spurious
  <2>2. master.base + 7 = 39
    BY <1>1, OnlyLineOne
  <2>3. driver /\ boot \in 28 .. 29 /\ stack = <<>> /\ master.isr = {}
    BY <1>1, <2>1, OnlyLineOne, SMTT(60)
  <2> QED
    BY <2>1, <2>2, <2>3
<1>3. UNCHANGED <<ringVars, readVars, chipVars, outByte, boot, tableVars, halted>>
  BY DEF Spurious
<1>4. /\ stack' \in Seq(FrameType) /\ stack' # <<>> /\ Len(stack') = 1
      /\ Top' = Frame(39) /\ ifl' = FALSE
  BY <1>1, <1>2, PushFrame DEF Vectors
<1>5. IInv'
  BY <1>3, NextIInv DEF vars, ringVars, readVars
<1>6. SysTypes'
  BY <1>3, <1>4 DEF SysTypes, tableVars, chipVars
<1>7. Programming' /\ Masks' /\ Tables'
  BY <1>3 DEF Programming, Masks, Tables, tableVars, chipVars
<1>8. Enabling' /\ Requests'
  BY <1>3, <1>4 DEF Enabling, Requests, chipVars
<1>9. Frames'
  <2>1. SpuriousFrame(Top)'
    BY <1>2, <1>3, <1>4 DEF SpuriousFrame, Frame, tableVars
  <2>2. master'.isr = InService(Top)' /\ slave'.isr = {} /\ Top'.ioCode = {}
    BY <1>2, <1>3, <1>4 DEF InService, Frame, Frames, chipVars
  <2> QED
    BY <1>4, <2>1, <2>2 DEF Frames
<1> QED
  BY <1>5, <1>6, <1>7, <1>8, <1>9

LEMMA ExceptionSysInv ==
  ASSUME SysInv, NEW v \in Exceptions, Exception(v)
  PROVE  SysInv'
<1> USE DEF SysInv
<1>1. ifl \in BOOLEAN /\ v \in 0 .. 31 /\ v \in Vectors
  BY ExceptionsAssumption DEF SysTypes, Vectors
<1>2. boot = 29 /\ stack = <<>> /\ master.isr = {} /\ Enter(v)
  BY HalSteps, SMTT(60) DEF Exception, Running, BootDone, SysTypes, Frames
<1>3. UNCHANGED <<ringVars, readVars, chipVars, outByte, boot, tableVars, halted>>
  BY DEF Exception
<1>4. /\ stack' \in Seq(FrameType) /\ stack' # <<>> /\ Len(stack') = 1
      /\ Top' = Frame(v) /\ ifl' = FALSE
  BY <1>1, <1>2, PushFrame
<1>5. IInv'
  BY <1>3, NextIInv DEF vars, ringVars, readVars
<1>6. SysTypes'
  BY <1>3, <1>4 DEF SysTypes, tableVars, chipVars
<1>7. Programming' /\ Masks' /\ Tables'
  BY <1>3 DEF Programming, Masks, Tables, tableVars, chipVars
<1>8. Enabling' /\ Requests'
  BY <1>3, <1>4 DEF Enabling, Requests, chipVars
<1>9. Frames'
  <2>1. ExceptionFrame(Top)'
    BY <1>2, <1>3, <1>4 DEF ExceptionFrame, Frame, tableVars
  <2>2. Top'.vector # 33 /\ Top'.ioCode = {}
    BY <1>1, <1>4 DEF Frame
  <2>3. master'.isr = InService(Top)' /\ slave'.isr = {}
    BY <1>2, <1>3, <2>2 DEF InService, Frames, chipVars
  <2> QED
    BY <1>4, <2>1, <2>2, <2>3 DEF Frames
<1> QED
  BY <1>5, <1>6, <1>7, <1>8, <1>9

-----------------------------------------------------------------------------
\* A handler runs alone, with interrupts disabled.
LEMMA RunningHandler ==
  ASSUME SysInv, stack # <<>>
  PROVE  /\ stack \in Seq(FrameType) /\ Len(stack) = 1
         /\ Top = stack[1] /\ Top \in FrameType
         /\ ifl = FALSE /\ boot \in 1 .. 29
         /\ Top.pc # "entry" => SpuriousFrame(Top) \/ KeyboardFrame(Top)
         /\ Top.vector >= 32 => SpuriousFrame(Top) \/ KeyboardFrame(Top)
<1> USE DEF SysInv
<1>1. stack \in Seq(FrameType) /\ Len(stack) = 1 /\ ifl \in BOOLEAN /\ boot \in 1 .. 29
  BY DEF SysTypes, Frames
<1>2. Top = stack[1] /\ Top \in FrameType
  BY <1>1 DEF Top
<1>3. ifl = FALSE
  BY <1>1 DEF Enabling
<1>4. ExceptionFrame(Top) \/ SpuriousFrame(Top) \/ KeyboardFrame(Top)
  BY DEF Frames
<1>5. ExceptionFrame(Top) => Top.pc = "entry" /\ ~ (Top.vector >= 32)
  <2>1. \A v \in Exceptions : ~ (v >= 32)
    BY ExceptionsAssumption
  <2> QED
    BY <2>1 DEF ExceptionFrame
<1> QED
  BY <1>1, <1>2, <1>3, <1>4, <1>5

\* The top frame changed.
LEMMA ReplaceTop ==
  ASSUME stack \in Seq(FrameType), Len(stack) = 1, NEW f \in FrameType,
         stack' = [stack EXCEPT ![Len(stack)] = f]
  PROVE  stack' \in Seq(FrameType) /\ stack' # <<>> /\ Len(stack') = 1 /\ Top' = f
<1>1. stack' \in Seq(FrameType) /\ Len(stack') = 1 /\ stack'[1] = f
  BY ExceptSeq
<1> QED
  BY <1>1 DEF Top

LEMMA GotoTop ==
  ASSUME SysInv, stack # <<>>,
         NEW pc \in {"irq", "inb", "head", "eoi", "eoi2", "iret"}, Goto(pc)
  PROVE  /\ stack' \in Seq(FrameType) /\ stack' # <<>> /\ Len(stack') = 1
         /\ Top' = [Top EXCEPT !.pc = pc]
<1> DEFINE f == [Top EXCEPT !.pc = pc]
<1>1. stack \in Seq(FrameType) /\ Len(stack) = 1 /\ Top \in FrameType
  BY RunningHandler
<1>2. f \in FrameType
  BY <1>1 DEF FrameType
<1>3. stack' = [stack EXCEPT ![Len(stack)] = f]
  BY DEF Goto, Top
<1> HIDE DEF f
<1>4. stack' \in Seq(FrameType) /\ stack' # <<>> /\ Len(stack') = 1 /\ Top' = f
  BY <1>1, <1>2, <1>3, ReplaceTop
<1> QED
  BY <1>4 DEF f

\* What no statement of a handler before its iret disturbs.
LEMMA HandlerKeeps ==
  ASSUME SysInv, ifl' = FALSE, UNCHANGED <<present, boot, tableVars>>,
         UNCHANGED <<master.imr, master.base, master.next>>,
         UNCHANGED <<slave.imr, slave.base, slave.next>>
  PROVE  Programming' /\ Masks' /\ Tables' /\ Enabling'
<1>1. Programming' /\ Masks'
  BY DEF SysInv, Programming, Masks, tableVars
<1>2. Tables'
  BY DEF SysInv, Tables, tableVars
<1>3. Enabling'
  BY DEF Enabling
<1> QED
  BY <1>1, <1>2, <1>3

LEMMA ISR_HandlerSysInv ==
  ASSUME SysInv, ISR_Handler
  PROVE  SysInv'
<1> USE DEF SysInv
<1>1. /\ stack # <<>> /\ Top.pc = "entry"
      /\ UNCHANGED <<ringVars, readVars, chipVars, outByte, boot, tableVars>>
  BY DEF ISR_Handler, At
<1>2. /\ ifl = FALSE /\ boot \in 1 .. 29 /\ Top \in FrameType
      /\ Top.vector >= 32 => SpuriousFrame(Top) \/ KeyboardFrame(Top)
  BY <1>1, RunningHandler
<1>3. IInv'
  BY <1>1, NextIInv DEF vars, ringVars, readVars
<1>4. Requests'
  BY <1>1 DEF Requests, chipVars
<1>5. CASE Goto("irq") /\ UNCHANGED <<ifl, halted>> /\ Top.vector \in isrHandlers
  <2>1. /\ stack' \in Seq(FrameType) /\ stack' # <<>> /\ Len(stack') = 1
        /\ Top' = [Top EXCEPT !.pc = "irq"]
    BY <1>1, <1>5, GotoTop
  <2>2. SpuriousFrame(Top) \/ KeyboardFrame(Top)
    <3>1. Top.vector >= 32
      <4>1. \A v \in IrqVectors : v >= 32
        BY DEF IrqVectors, PIC_REMAP_OFFSET
      <4> QED
        BY <1>5, <4>1 DEF Tables
    <3> QED
      BY <1>2, <3>1
  <2>3. SysTypes'
    BY <1>1, <1>5, <2>1 DEF SysTypes, chipVars, tableVars
  <2>4. Programming' /\ Masks' /\ Tables' /\ Enabling'
    BY <1>1, <1>2, <1>5, HandlerKeeps DEF chipVars
  <2>5. (SpuriousFrame(Top) \/ KeyboardFrame(Top))'
    BY <1>1, <1>2, <2>1, <2>2
       DEF SpuriousFrame, KeyboardFrame, FrameType, tableVars, chipVars, ringVars
  <2>6. InService(Top)' = InService(Top) /\ Top'.ioCode = Top.ioCode
    BY <1>1, <1>2, <2>1 DEF InService, FrameType
  <2>7. Frames'
    BY <1>1, <2>1, <2>5, <2>6 DEF Frames, chipVars
  <2> QED
    BY <1>3, <1>4, <2>3, <2>4, <2>7
<1>6. CASE Top.vector \notin isrHandlers /\ Top.vector >= 32
  <2>1. Top.vector \in {33, 39} /\ driver /\ boot >= 28
    BY <1>2, <1>6 DEF SpuriousFrame, KeyboardFrame
  <2>2. Top.vector \in isrHandlers
    BY <1>2, <2>1 DEF Tables, IrqVectors, PIC_REMAP_OFFSET
  <2> QED
    BY <1>6, <2>2
<1>7. CASE halted' = TRUE /\ ifl' = FALSE /\ UNCHANGED stack
  <2>1. SysTypes'
    BY <1>1, <1>7 DEF SysTypes, chipVars, tableVars
  <2>2. Programming' /\ Masks' /\ Tables' /\ Enabling'
    BY <1>1, <1>7, HandlerKeeps DEF chipVars
  <2>3. Frames'
    BY <1>1, <1>7 DEF Frames, ExceptionFrame, SpuriousFrame, KeyboardFrame, InService, Top,
                      tableVars, chipVars, ringVars
  <2> QED
    BY <1>3, <1>4, <2>1, <2>2, <2>3
<1> QED
  BY <1>5, <1>6, <1>7 DEF ISR_Handler

LEMMA IRQ_HandlerSysInv ==
  ASSUME SysInv, IRQ_Handler
  PROVE  SysInv'
<1> USE DEF SysInv
<1>1. /\ stack # <<>> /\ Top.pc = "irq"
      /\ Goto(IF IrqOf(Top) \in irqHandlers THEN "inb" ELSE "eoi2")
      /\ UNCHANGED <<ringVars, readVars, chipVars, outByte, ifl, boot, tableVars, halted>>
  BY DEF IRQ_Handler, At
<1>2. /\ ifl = FALSE /\ Top \in FrameType /\ boot \in 1 .. 29
      /\ SpuriousFrame(Top) \/ KeyboardFrame(Top)
  BY <1>1, RunningHandler
<1>3. Goto(IF Top.vector = 33 THEN "inb" ELSE "eoi2")
  <2>1. irqHandlers = {1} /\ Top.vector \in {33, 39}
    BY <1>2 DEF SpuriousFrame, KeyboardFrame, Tables
  <2>2. IrqOf(Top) \in irqHandlers <=> Top.vector = 33
    BY <2>1 DEF IrqOf, PIC_REMAP_OFFSET
  <2> QED
    BY <1>1, <2>2
<1>4. /\ stack' \in Seq(FrameType) /\ stack' # <<>> /\ Len(stack') = 1
      /\ Top' = [Top EXCEPT !.pc = IF Top.vector = 33 THEN "inb" ELSE "eoi2"]
  <2>1. CASE Top.vector = 33
    BY <1>1, <1>3, <2>1, GotoTop
  <2>2. CASE Top.vector # 33
    BY <1>1, <1>3, <2>2, GotoTop
  <2> QED
    BY <2>1, <2>2
<1>5. IInv'
  BY <1>1, NextIInv DEF vars, ringVars, readVars
<1>6. Requests'
  BY <1>1 DEF Requests, chipVars
<1>7. SysTypes'
  BY <1>1, <1>4 DEF SysTypes, chipVars, tableVars
<1>8. Programming' /\ Masks' /\ Tables' /\ Enabling'
  BY <1>1, <1>2, HandlerKeeps DEF chipVars
<1>9. Frames'
  <2>1. (SpuriousFrame(Top) \/ KeyboardFrame(Top))'
    BY <1>1, <1>2, <1>4
       DEF SpuriousFrame, KeyboardFrame, FrameType, tableVars, chipVars, ringVars
  <2>2. InService(Top)' = InService(Top) /\ Top'.ioCode = Top.ioCode
    BY <1>1, <1>2, <1>4 DEF InService, FrameType
  <2> QED
    BY <1>1, <1>4, <2>1, <2>2 DEF Frames, chipVars
<1> QED
  BY <1>5, <1>6, <1>7, <1>8, <1>9

LEMMA ReadScanCodeSysInv ==
  ASSUME SysInv, ReadScanCode
  PROVE  SysInv'
<1> USE DEF SysInv
<1> DEFINE f == [Top EXCEPT !.ioCode = outByte, !.pc = "test"]
<1>1. /\ stack # <<>> /\ Top.pc = "inb" /\ outByte' = {}
      /\ stack' = [stack EXCEPT ![Len(stack)] = f]
      /\ UNCHANGED <<ringVars, readVars, chipVars, ifl, boot, tableVars, halted>>
  BY DEF ReadScanCode, At, Top
<1>2. /\ ifl = FALSE /\ Top \in FrameType /\ stack \in Seq(FrameType) /\ Len(stack) = 1
      /\ KeyboardFrame(Top) /\ outByte \in SUBSET ScanCodes
  BY <1>1, RunningHandler DEF SpuriousFrame, SysTypes
<1>3. /\ f \in FrameType /\ f.pc = "test" /\ f.vector = Top.vector /\ f.ioCode = outByte
  BY <1>2 DEF FrameType
<1> HIDE DEF f
<1>4. stack' \in Seq(FrameType) /\ stack' # <<>> /\ Len(stack') = 1 /\ Top' = f
  BY <1>1, <1>2, <1>3, ReplaceTop
<1>5. IInv'
  BY <1>1, NextIInv DEF vars, ringVars, readVars
<1>6. Requests'
  BY <1>1, <1>2 DEF Requests, KeyboardFrame, chipVars
<1>7. SysTypes'
  BY <1>1, <1>4 DEF SysTypes, chipVars, tableVars
<1>8. Programming' /\ Masks' /\ Tables' /\ Enabling'
  BY <1>1, <1>2, HandlerKeeps DEF chipVars
<1>9. Frames'
  <2>1. KeyboardFrame(Top)'
    BY <1>1, <1>2, <1>3, <1>4 DEF KeyboardFrame, tableVars
  <2>2. InService(Top)' = InService(Top)
    BY <1>1, <1>3, <1>4 DEF InService
  <2>3. \A s, t \in Top'.ioCode : s = t
    BY <1>3, <1>4 DEF Requests
  <2> QED
    BY <1>1, <1>4, <2>1, <2>2, <2>3 DEF Frames, chipVars
<1> QED
  BY <1>5, <1>6, <1>7, <1>8, <1>9

LEMMA TestRoomSysInv ==
  ASSUME SysInv, TestRoom
  PROVE  SysInv'
<1> USE DEF SysInv
<1> DEFINE store == Top.ioCode \cap DOMAIN keymap # {} /\ Succ(bufferHead) # bufferTail
           f == [Top EXCEPT !.nextHead = Succ(bufferHead),
                            !.pc = IF store THEN "slot" ELSE "eoi"]
<1>1. /\ stack # <<>> /\ Top.pc = "test"
      /\ stack' = [stack EXCEPT ![Len(stack)] = f]
      /\ UNCHANGED <<ringVars, readVars, chipVars, outByte, ifl, boot, tableVars, halted>>
  BY DEF TestRoom, At, Top
<1>2. /\ ifl = FALSE /\ Top \in FrameType /\ stack \in Seq(FrameType) /\ Len(stack) = 1
      /\ KeyboardFrame(Top)
  BY <1>1, RunningHandler DEF SpuriousFrame
<1>3. Succ(bufferHead) \in Slots
  BY SuccCases DEF IInv, TypeOK
<1>4. store => Top.ioCode \subseteq DOMAIN keymap
  BY <1>1 DEF Frames
<1> HIDE DEF store
<1>5. /\ f \in FrameType /\ f.vector = Top.vector /\ f.ioCode = Top.ioCode
      /\ f.nextHead = Succ(bufferHead)
      /\ store => f.pc = "slot"
      /\ ~store => f.pc = "eoi"
  BY <1>2, <1>3 DEF FrameType
<1> HIDE DEF f
<1>6. stack' \in Seq(FrameType) /\ stack' # <<>> /\ Len(stack') = 1 /\ Top' = f
  BY <1>1, <1>2, <1>5, ReplaceTop
<1>7. IInv'
  BY <1>1, NextIInv DEF vars, ringVars, readVars
<1>8. Requests'
  BY <1>1 DEF Requests, chipVars
<1>9. SysTypes'
  BY <1>1, <1>6 DEF SysTypes, chipVars, tableVars
<1>10. Programming' /\ Masks' /\ Tables' /\ Enabling'
  BY <1>1, <1>2, HandlerKeeps DEF chipVars
<1>11. Frames'
  <2>1. KeyboardFrame(Top)'
    <3>1. Succ(bufferHead)' = Succ(bufferHead) /\ bufferTail' = bufferTail
      BY <1>1 DEF ringVars
    <3>2. driver' = driver /\ boot' = boot
      BY <1>1 DEF tableVars
    <3>3. CASE store
      BY <1>2, <1>4, <1>5, <1>6, <3>1, <3>2, <3>3 DEF KeyboardFrame, store
    <3>4. CASE ~store
      BY <1>2, <1>5, <1>6, <3>2, <3>4 DEF KeyboardFrame
    <3> QED
      BY <3>3, <3>4
  <2>2. InService(Top)' = InService(Top) /\ Top'.ioCode = Top.ioCode
    BY <1>1, <1>5, <1>6 DEF InService
  <2> QED
    BY <1>1, <1>6, <2>1, <2>2 DEF Frames, chipVars
<1> QED
  BY <1>7, <1>8, <1>9, <1>10, <1>11

\* The slot at the head is not one the reader may read: what it holds is safe.
LEMMA StoreSlotSysInv ==
  ASSUME SysInv, StoreSlot
  PROVE  SysInv'
<1> USE DEF SysInv
<1>1. /\ stack # <<>> /\ Top.pc = "slot" /\ Goto("head")
      /\ UNCHANGED <<bufferHead, bufferTail, readVars, chipVars, outByte, ifl, boot,
                     tableVars, halted>>
  BY DEF StoreSlot, At
<1>2. /\ ifl = FALSE /\ Top \in FrameType /\ KeyboardFrame(Top)
  BY <1>1, RunningHandler DEF SpuriousFrame
<1>3. PICK s \in Top.ioCode : keyBuffer' = [keyBuffer EXCEPT ![bufferHead] = keymap[s]]
  BY DEF StoreSlot
<1>4. keymap[s] \in Chars
  BY <1>1, <1>2, KeymapAssumption DEF KeyboardFrame
<1>5. /\ stack' \in Seq(FrameType) /\ stack' # <<>> /\ Len(stack') = 1
      /\ Top' = [Top EXCEPT !.pc = "head"]
  BY <1>1, GotoTop
<1>6. IInv'
  <2>1. TypeOK'
    BY <1>1, <1>3, <1>4 DEF IInv, TypeOK, readVars
  <2>2. ReaderHoldsOldest'
    BY <1>1, <1>3, <1>4 DEF IInv, TypeOK, ReaderHoldsOldest, readVars
  <2> QED
    BY <1>1, <2>1, <2>2 DEF IInv, readVars
<1>7. Requests'
  BY <1>1 DEF Requests, chipVars
<1>8. SysTypes'
  BY <1>1, <1>5 DEF SysTypes, chipVars, tableVars
<1>9. Programming' /\ Masks' /\ Tables' /\ Enabling'
  BY <1>1, <1>2, HandlerKeeps DEF chipVars
<1>10. Frames'
  <2>1. KeyboardFrame(Top)'
    <3>1. Succ(bufferHead)' = Succ(bufferHead) /\ bufferTail' = bufferTail
      BY <1>1
    <3> QED
      BY <1>1, <1>2, <1>5, <3>1 DEF KeyboardFrame, FrameType, tableVars
  <2>2. InService(Top)' = InService(Top) /\ Top'.ioCode = Top.ioCode
    BY <1>1, <1>2, <1>5 DEF InService, FrameType
  <2> QED
    BY <1>1, <1>5, <2>1, <2>2 DEF Frames, chipVars
<1> QED
  BY <1>6, <1>7, <1>8, <1>9, <1>10

LEMMA StoreHeadSysInv ==
  ASSUME SysInv, StoreHead
  PROVE  SysInv'
<1> USE DEF SysInv
<1>1. /\ stack # <<>> /\ Top.pc = "head" /\ Goto("eoi") /\ bufferHead' = Top.nextHead
      /\ UNCHANGED <<keyBuffer, bufferTail, readVars, chipVars, outByte, ifl, boot,
                     tableVars, halted>>
  BY DEF StoreHead, At
<1>2. /\ ifl = FALSE /\ Top \in FrameType /\ KeyboardFrame(Top)
  BY <1>1, RunningHandler DEF SpuriousFrame
<1>3. bufferHead' = Succ(bufferHead) /\ bufferHead' # bufferTail /\ bufferHead' \in Slots
  BY <1>1, <1>2, SuccCases DEF KeyboardFrame, IInv, TypeOK
<1>5. /\ stack' \in Seq(FrameType) /\ stack' # <<>> /\ Len(stack') = 1
      /\ Top' = [Top EXCEPT !.pc = "eoi"]
  BY <1>1, GotoTop
<1>6. IInv'
  <2>1. TypeOK'
    BY <1>1, <1>3 DEF IInv, TypeOK, readVars
  <2>2. ReaderHoldsOldest'
    BY <1>1, <1>3 DEF IInv, ReaderHoldsOldest, readVars
  <2> QED
    BY <1>1, <1>3, <2>1, <2>2 DEF IInv, readVars
<1>7. Requests'
  BY <1>1 DEF Requests, chipVars
<1>8. SysTypes'
  BY <1>1, <1>5 DEF SysTypes, chipVars, tableVars
<1>9. Programming' /\ Masks' /\ Tables' /\ Enabling'
  BY <1>1, <1>2, HandlerKeeps DEF chipVars
<1>10. Frames'
  <2>1. KeyboardFrame(Top)'
    BY <1>1, <1>2, <1>5 DEF KeyboardFrame, FrameType, tableVars
  <2>2. InService(Top)' = InService(Top) /\ Top'.ioCode = Top.ioCode
    BY <1>1, <1>2, <1>5 DEF InService, FrameType
  <2> QED
    BY <1>1, <1>5, <2>1, <2>2 DEF Frames, chipVars
<1> QED
  BY <1>6, <1>7, <1>8, <1>9, <1>10

\* What an end of interrupt changes: the in-service line, and only when it is the
\* handler's own.
LEMMA EoiEnds ==
  ASSUME SysInv, HandlerEoi
  PROVE  /\ stack # <<>> /\ slave' = slave
         /\ UNCHANGED <<ringVars, readVars, present, outByte, ifl, boot, tableVars, halted>>
         /\ master' \in Chips /\ master'.irr = master.irr /\ master'.imr = master.imr
         /\ master'.base = master.base /\ master'.next = master.next
         /\ master'.isr = {}
         /\ master.isr # {} => Top.vector = 33 /\ master.isr = {1}
         /\ Top.pc \in {"eoi", "eoi2"}
         /\ Goto(IF Top.pc = "eoi" THEN "eoi2" ELSE "iret")
<1> USE DEF SysInv
<1>1. /\ stack # <<>> /\ Top.pc \in {"eoi", "eoi2"}
      /\ Goto(IF Top.pc = "eoi" THEN "eoi2" ELSE "iret")
      /\ SendEndOfInterrupt(IrqOf(Top))
      /\ UNCHANGED <<ringVars, readVars, present, outByte, ifl, boot, tableVars, halted>>
  BY DEF HandlerEoi, At
<1>2. SpuriousFrame(Top) \/ KeyboardFrame(Top)
  BY <1>1, RunningHandler
<1>3. ~ (IrqOf(Top) >= 8)
  BY <1>2 DEF SpuriousFrame, KeyboardFrame, IrqOf, PIC_REMAP_OFFSET
<1>4. slave' = slave /\ master' = WriteCommand(master, {5})
  BY <1>1, <1>3 DEF SendEndOfInterrupt
<1>5. master \in Chips /\ master.isr = InService(Top)
  BY <1>1 DEF SysTypes, Frames
<1>6. CASE master.isr = {}
  <2>1. master' = master
    BY <1>4, <1>6 DEF WriteCommand
  <2> QED
    BY <1>1, <1>4, <1>5, <1>6, <2>1
<1>7. CASE master.isr # {}
  <2>1. Top.vector = 33 /\ master.isr = {1}
    BY <1>5, <1>7 DEF InService
  <2>2. Highest(master.isr) = 1
    BY <2>1, HighestOfOne
  <2>3. master' = [master EXCEPT !.isr = {}]
    <3>1. master' = [master EXCEPT !.isr = master.isr \ {1}]
      BY <1>4, <1>7, <2>2 DEF WriteCommand
    <3> QED
      BY <2>1, <3>1
  <2> QED
    BY <1>1, <1>4, <1>5, <2>1, <2>3 DEF Chips
<1> QED
  BY <1>6, <1>7

LEMMA HandlerEoiSysInv ==
  ASSUME SysInv, HandlerEoi
  PROVE  SysInv'
<1> USE DEF SysInv
<1>1. /\ stack # <<>> /\ slave' = slave
      /\ UNCHANGED <<ringVars, readVars, present, outByte, ifl, boot, tableVars, halted>>
      /\ master' \in Chips /\ master'.irr = master.irr /\ master'.imr = master.imr
      /\ master'.base = master.base /\ master'.next = master.next
      /\ master'.isr = {}
      /\ Top.pc \in {"eoi", "eoi2"}
      /\ Goto(IF Top.pc = "eoi" THEN "eoi2" ELSE "iret")
  BY EoiEnds
<1>2. /\ ifl = FALSE /\ Top \in FrameType
      /\ SpuriousFrame(Top) \/ KeyboardFrame(Top)
  BY <1>1, RunningHandler
<1>3. /\ stack' \in Seq(FrameType) /\ stack' # <<>> /\ Len(stack') = 1
      /\ Top' = [Top EXCEPT !.pc = IF Top.pc = "eoi" THEN "eoi2" ELSE "iret"]
  <2>1. CASE Top.pc = "eoi"
    BY <1>1, <2>1, GotoTop
  <2>2. CASE Top.pc # "eoi"
    BY <1>1, <2>2, GotoTop
  <2> QED
    BY <2>1, <2>2
<1>4. IInv'
  BY <1>1, NextIInv DEF vars, ringVars, readVars
<1>5. Requests'
  BY <1>1 DEF Requests
<1>6. SysTypes'
  BY <1>1, <1>3 DEF SysTypes, tableVars
<1>7. Programming' /\ Masks' /\ Tables' /\ Enabling'
  BY <1>1, <1>2, HandlerKeeps
<1>8. Frames'
  <2>1. (SpuriousFrame(Top) \/ KeyboardFrame(Top))'
    BY <1>1, <1>2, <1>3 DEF SpuriousFrame, KeyboardFrame, FrameType, tableVars
  <2>2. InService(Top)' = {} /\ Top'.ioCode = Top.ioCode
    BY <1>1, <1>2, <1>3 DEF InService, FrameType
  <2> QED
    BY <1>1, <1>3, <2>1, <2>2 DEF Frames
<1> QED
  BY <1>4, <1>5, <1>6, <1>7, <1>8

LEMMA IretSysInv ==
  ASSUME SysInv, Iret
  PROVE  SysInv'
<1> USE DEF SysInv
<1>1. /\ stack # <<>> /\ Top.pc = "iret" /\ ifl' = Top.flag /\ stack' = Front(stack)
      /\ UNCHANGED <<ringVars, readVars, chipVars, outByte, boot, tableVars, halted>>
  BY DEF Iret, At
<1>2. /\ stack \in Seq(FrameType) /\ Len(stack) = 1 /\ Top \in FrameType /\ boot \in 1 .. 29
      /\ SpuriousFrame(Top) \/ KeyboardFrame(Top)
  BY <1>1, RunningHandler
<1>3. stack' = <<>>
  BY <1>1, <1>2 DEF Front
<1>4. ifl' \in BOOLEAN
  BY <1>1, <1>2 DEF FrameType
<1>5. IInv'
  BY <1>1, NextIInv DEF vars, ringVars, readVars
<1>6. Requests'
  BY <1>1 DEF Requests, chipVars
<1>7. SysTypes'
  BY <1>1, <1>3, <1>4, EmptySeq DEF SysTypes, chipVars, tableVars
<1>8. Programming' /\ Masks' /\ Tables'
  BY <1>1 DEF Programming, Masks, Tables, chipVars, tableVars
<1>9. Enabling'
  BY <1>1, <1>2, <1>3, <1>4 DEF Enabling, SpuriousFrame, KeyboardFrame, tableVars
<1>10. Frames'
  <2>1. InService(Top) = {}
    BY <1>1 DEF InService
  <2> QED
    BY <1>1, <1>3, <2>1 DEF Frames, chipVars
<1> QED
  BY <1>5, <1>6, <1>7, <1>8, <1>9, <1>10

\* The reader runs only where no handler does.
LEMMA MainStepSysInv ==
  ASSUME SysInv, MainStep
  PROVE  SysInv'
<1> USE DEF SysInv
<1>1. /\ CallReadChar \/ ReadCharStep
      /\ stack = <<>>
      /\ UNCHANGED <<chipVars, outByte, ifl, boot, tableVars, stack, halted>>
  BY DEF MainStep, Running
<1>2. IInv'
  BY <1>1, NextIInv DEF Next
<1>3. SysTypes'
  BY <1>1 DEF SysTypes, chipVars, tableVars
<1>4. Programming' /\ Masks' /\ Tables'
  BY <1>1 DEF Programming, Masks, Tables, chipVars, tableVars
<1>5. Enabling' /\ Requests' /\ Frames'
  BY <1>1 DEF Enabling, Requests, Frames, chipVars, tableVars
<1> QED
  BY <1>2, <1>3, <1>4, <1>5

-----------------------------------------------------------------------------
LEMMA NextSysInv == SysInv /\ [SysNext]_sysVars => SysInv'
<1> SUFFICES ASSUME SysInv, [SysNext]_sysVars PROVE SysInv'
  OBVIOUS
<1>1. CASE BootStep
  BY <1>1, BootStepSysInv
<1>2. CASE Interrupt
  BY <1>2, InterruptSysInv
<1>3. CASE Spurious
  BY <1>3, SpuriousSysInv
<1>4. CASE HandlerStep
  BY <1>4, ISR_HandlerSysInv, IRQ_HandlerSysInv, ReadScanCodeSysInv, TestRoomSysInv,
     StoreSlotSysInv, StoreHeadSysInv, HandlerEoiSysInv, IretSysInv DEF HandlerStep
<1>5. CASE MainStep
  BY <1>5, MainStepSysInv
<1>6. ASSUME NEW ioCode \in ScanCodes, KeyEvent(ioCode) PROVE SysInv'
  BY <1>6, KeyEventSysInv
<1>7. ASSUME NEW line \in OtherLines, OtherEvent(line) PROVE SysInv'
  BY <1>7, OtherEventSysInv
<1>8. ASSUME NEW v \in Exceptions, Exception(v) PROVE SysInv'
  BY <1>8, ExceptionSysInv
<1>9. CASE UNCHANGED sysVars
  <2>1. IInv'
    BY <1>9, NextIInv DEF sysVars, vars, SysInv
  <2>2. SysTypes' /\ Programming' /\ Masks' /\ Tables'
    BY <1>9 DEF sysVars, SysInv, SysTypes, Programming, Masks, Tables
  <2>3. Enabling' /\ Requests' /\ Frames'
    BY <1>9 DEF sysVars, SysInv, Enabling, Requests, Frames, ExceptionFrame, SpuriousFrame,
                KeyboardFrame, InService, Top
  <2> QED
    BY <2>1, <2>2, <2>3 DEF SysInv
<1> QED
  BY <1>1, <1>2, <1>3, <1>4, <1>5, <1>6, <1>7, <1>8, <1>9 DEF SysNext

\* The invariant holds from the first step of HAL_Initialize on.
THEOREM SysInvHolds == SysSpec => []SysInv
BY InitSysInv, NextSysInv, PTL DEF SysSpec

\* Controllers, tables, frames and the buffer keep their types, for every size of
\* the buffer and every keymap.
THEOREM SysTypeCorrect == SysSpec => []SysTypeOK
<1>1. SysInv => SysTypeOK
  <2> SUFFICES ASSUME SysInv PROVE SysTypeOK
    OBVIOUS
  <2>1. TypeOK /\ SysTypes
    BY DEF SysInv, IInv
  <2>2. Len(HAL_Initialize) = 28
    BY HalSteps
  <2> QED
    BY <2>1, <2>2 DEF SysTypeOK, SysTypes, FrameType
<1> QED
  BY <1>1, SysInvHolds, PTL

\* Whatever the BIOS left in the controllers, whichever devices request during
\* HAL_Initialize and whichever exceptions the kernel raises, an interrupt finds
\* its gate, its handler and the driver in place.
THEOREM InterruptsAreServed == SysSpec => []OnlyServedInterrupts
<1>1. SysInv => OnlyServedInterrupts
  <2> SUFFICES ASSUME SysInv, NEW k \in DOMAIN stack
               PROVE  LET v == stack[k].vector
                      IN /\ v \in gates
                         /\ \/ v \in Exceptions
                            \/ /\ v \in isrHandlers /\ driver
                               /\ IrqOf(stack[k]) \in {1, 7}
                               /\ IrqOf(stack[k]) = 1 => 1 \in irqHandlers
    BY DEF OnlyServedInterrupts
  <2>1. stack # <<>>
    OBVIOUS
  <2>2. stack \in Seq(FrameType) /\ Len(stack) = 1 /\ Top = stack[1] /\ boot \in 1 .. 29
    BY <2>1, RunningHandler
  <2>3. stack[k] = Top
    BY <2>2
  <2>4. Tables /\ (ExceptionFrame(Top) \/ SpuriousFrame(Top) \/ KeyboardFrame(Top))
    BY <2>1 DEF SysInv, Frames
  <2>5. boot >= 28
    BY <2>2, <2>4 DEF ExceptionFrame, SpuriousFrame, KeyboardFrame
  <2>6. Vectors \ {128} \subseteq gates
    BY <2>2, <2>4, <2>5 DEF Tables
  <2>7. CASE ExceptionFrame(Top)
    <3>1. Top.vector \in Exceptions /\ Top.vector \in Vectors \ {128}
      <4>1. \A v \in Exceptions : v \in Vectors \ {128}
        BY ExceptionsAssumption DEF Vectors
      <4> QED
        BY <2>7, <4>1 DEF ExceptionFrame
    <3> QED
      BY <2>3, <2>6, <3>1
  <2>8. CASE SpuriousFrame(Top) \/ KeyboardFrame(Top)
    <3>1. driver /\ Top.vector \in {33, 39}
      BY <2>8 DEF SpuriousFrame, KeyboardFrame
    <3>2. Top.vector \in Vectors \ {128} /\ Top.vector \in IrqVectors
      BY <3>1 DEF Vectors, IrqVectors, PIC_REMAP_OFFSET
    <3>3. Top.vector \in isrHandlers /\ irqHandlers = {1}
      BY <2>2, <2>4, <2>5, <3>1, <3>2 DEF Tables
    <3>4. IrqOf(Top) \in {1, 7}
      BY <3>1 DEF IrqOf, PIC_REMAP_OFFSET
    <3> QED
      BY <2>3, <2>6, <3>1, <3>2, <3>3, <3>4
  <2> QED
    BY <2>4, <2>7, <2>8
<1> QED
  BY <1>1, SysInvHolds, PTL

\* The keyboard handler reads the port only when a scan code is there.
THEOREM ScanCodesAreThere == SysSpec => []ScanCodeIsThere
<1>1. SysInv => ScanCodeIsThere
  BY RunningHandler DEF ScanCodeIsThere, At, SpuriousFrame, KeyboardFrame
<1> QED
  BY <1>1, SysInvHolds, PTL

\* Interrupt gates keep handlers from nesting, and every interrupt that is taken
\* is ended before its handler returns.
THEOREM NothingStaysInService == SysSpec => []NothingLeftInService
<1>1. SysInv => NothingLeftInService
  <2> SUFFICES ASSUME SysInv PROVE NothingLeftInService
    OBVIOUS
  <2>3. stack = <<>> => master.isr = {} /\ slave.isr = {}
    BY DEF SysInv, Frames
  <2>4. Len(stack) <= 1
    <3>1. CASE stack = <<>>
      BY <3>1
    <3>2. CASE stack # <<>>
      <4>1. Len(stack) = 1
        BY <3>2, RunningHandler
      <4> QED
        BY <4>1
    <3> QED
      BY <3>1, <3>2
  <2> QED
    BY <2>3, <2>4 DEF NothingLeftInService
<1> QED
  BY <1>1, SysInvHolds, PTL

-----------------------------------------------------------------------------
LEMMA StepEndsOwnLine ==
  ASSUME SysInv, [SysNext]_sysVars, NEW l \in master.isr \ master'.isr
  PROVE  stack # <<>> /\ l = IrqOf(Top)
<1>1. master.isr # {} /\ stack # <<>>
  BY DEF SysInv, Frames
<1>2. master \in Chips /\ ifl = FALSE
  BY <1>1, RunningHandler DEF SysInv, SysTypes
<1>3. CASE HandlerEoi
  <2>1. Top.vector = 33 /\ master.isr = {1}
    BY <1>1, <1>3, EoiEnds
  <2> QED
    BY <1>1, <2>1 DEF IrqOf, PIC_REMAP_OFFSET
<1>4. CASE UNCHANGED master
  BY <1>4
<1>5. ASSUME NEW line \in Bits, master' = RaiseLine(master, line) PROVE FALSE
  BY <1>2, <1>5 DEF RaiseLine, Chips
<1>6. ASSUME NEW ioCode \in ScanCodes, KeyEvent(ioCode) PROVE FALSE
  BY <1>5, <1>6 DEF KeyEvent, Raise, Bits
<1>7. ASSUME NEW line \in OtherLines, OtherEvent(line) PROVE FALSE
  <2>1. line < 8 => line \in Bits
    BY LinesAssumption DEF Bits
  <2> QED
    BY <1>4, <1>5, <1>7, <2>1 DEF OtherEvent, Raise
<1>8. ~BootStep /\ ~Interrupt
  BY <1>1, <1>2 DEF BootStep, Running, Interrupt
<1>9. CASE HandlerStep \/ MainStep \/ Spurious \/ UNCHANGED sysVars
  BY <1>3, <1>4, <1>9 DEF HandlerStep, ISR_Handler, IRQ_Handler, ReadScanCode, TestRoom,
     StoreSlot, StoreHead, Iret, MainStep, Spurious, chipVars, sysVars
<1>10. ASSUME NEW v \in Exceptions, Exception(v) PROVE FALSE
  BY <1>4, <1>10 DEF Exception, chipVars
<1> QED
  BY <1>6, <1>7, <1>8, <1>9, <1>10 DEF SysNext

\* No end of interrupt, the doubled one included, ends another line's service.
THEOREM EoiIsOwn == SysSpec => EoiEndsOwnLine
<1>1. SysInv /\ [SysNext]_sysVars
        => [\A l \in master.isr \ master'.isr : stack # <<>> /\ l = IrqOf(Top)]_sysVars
  BY StepEndsOwnLine
<1> QED
  BY <1>1, SysInvHolds, PTL DEF SysSpec, EoiEndsOwnLine

-----------------------------------------------------------------------------
\* The keyboard handler's store to the slot is invisible, and its store to
\* bufferHead is the moment the character joins the queue.
LEMMA SysStepQueue == SysInv /\ [SysNext]_sysVars => [Abs!Next]_(Abs!vars)
<1> SUFFICES ASSUME SysInv, [SysNext]_sysVars PROVE [Abs!Next]_(Abs!vars)
  OBVIOUS
<1>1. IInv /\ TypeOK
  BY DEF SysInv, IInv
<1>2. CASE UNCHANGED <<ringVars, readVars>>
  BY <1>2, InvisibleStep DEF ringVars, readVars
<1>3. CASE MainStep
  <2>1. [Next]_vars
    BY <1>3 DEF MainStep, Next
  <2> QED
    BY <1>1, <2>1, StepQueue
<1>4. CASE StoreSlot
  <2>1. /\ UNCHANGED <<bufferHead, bufferTail, ret>>
        /\ \E s \in Top.ioCode : keyBuffer' = [keyBuffer EXCEPT ![bufferHead] = keymap[s]]
    BY <1>4 DEF StoreSlot, readVars
  <2>2. Used' = Used /\ \A i \in 1 .. Used : SlotOf(i)' = SlotOf(i)
    BY <2>1 DEF Used, SlotOf
  <2>3. \A i \in 1 .. Used : keyBuffer'[SlotOf(i)] = keyBuffer[SlotOf(i)]
    <3> SUFFICES ASSUME NEW i \in 1 .. Used
                 PROVE  keyBuffer'[SlotOf(i)] = keyBuffer[SlotOf(i)]
      OBVIOUS
    <3>1. SlotOf(i) \in Slots /\ SlotOf(i) # bufferHead
      BY <1>1, UnreadShape
    <3> QED
      BY <1>1, <2>1, <3>1 DEF TypeOK
  <2>4. Unread' = Unread
    BY <2>2, <2>3 DEF Unread
  <2> QED
    BY <2>1, <2>4 DEF Abs!vars
<1>5. CASE StoreHead
  <2>1. /\ stack # <<>> /\ Top.pc = "head" /\ bufferHead' = Top.nextHead
        /\ UNCHANGED <<keyBuffer, bufferTail, ret>>
    BY <1>5 DEF StoreHead, At, readVars
  <2>2. KeyboardFrame(Top)
    BY <2>1, RunningHandler DEF SpuriousFrame
  <2>3. bufferHead' = Succ(bufferHead) /\ Succ(bufferHead) # bufferTail
    BY <2>1, <2>2 DEF KeyboardFrame
  <2> DEFINE ch == keyBuffer[bufferHead]
  <2>4. ch \in Chars /\ keyBuffer' = [keyBuffer EXCEPT ![bufferHead] = ch]
    BY <1>1, <2>1 DEF TypeOK
  <2> HIDE DEF ch
  <2>5. Used < BUFFER_SIZE - 1 /\ Unread' = Append(Unread, ch)
    BY <1>1, <2>1, <2>3, <2>4, StoreAppends
  <2>6. Len(Unread) = Used
    BY <1>1, UnreadShape
  <2> QED
    BY <2>1, <2>4, <2>5, <2>6 DEF Abs!Next, Abs!Put
<1>6. CASE HandlerStep
  BY <1>2, <1>4, <1>5, <1>6 DEF HandlerStep, ISR_Handler, IRQ_Handler, ReadScanCode, TestRoom,
     HandlerEoi, Iret
<1>7. CASE BootStep \/ Interrupt \/ Spurious \/ UNCHANGED sysVars
  BY <1>2, <1>7 DEF BootStep, Interrupt, Spurious, sysVars, ringVars, readVars
<1>8. ASSUME NEW ioCode \in ScanCodes, KeyEvent(ioCode) PROVE [Abs!Next]_(Abs!vars)
  BY <1>2, <1>8 DEF KeyEvent
<1>9. ASSUME NEW line \in OtherLines, OtherEvent(line) PROVE [Abs!Next]_(Abs!vars)
  BY <1>2, <1>9 DEF OtherEvent
<1>10. ASSUME NEW v \in Exceptions, Exception(v) PROVE [Abs!Next]_(Abs!vars)
  BY <1>2, <1>10 DEF Exception
<1> QED
  BY <1>3, <1>6, <1>7, <1>8, <1>9, <1>10 DEF SysNext

\* The buffer filled by the real handler, statement by statement and behind the
\* interrupts it gets, implements the bounded queue: that the handler is atomic
\* for the reader is proved, not assumed.
THEOREM InterruptsImplementQueue == SysSpec => ImplementsQueue
<1>1. SysInit => Abs!Init
  BY InitQueue DEF SysInit
<1> QED
  BY <1>1, SysStepQueue, SysInvHolds, PTL DEF SysSpec, ImplementsQueue, Abs!Spec
=============================================================================
