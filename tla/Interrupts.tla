----------------------------- MODULE Interrupts -----------------------------
(***************************************************************************)
(* Hardware interrupts of the kernel: HAL_Initialize (hal/hal.c) runs with *)
(* interrupts disabled up to the sti of i686_IRQ_Initialize (irq.c), while *)
(* the keyboard and other devices raise their lines; afterwards the entry  *)
(* code of isr.asm, i686_ISR_Handler (isr.c), i686_IRQ_Handler and         *)
(* i686_IRQ_keyboardHandler (irq.c) run between any two instructions of    *)
(* the reader of module KeyBuffer, one C statement at a time.  Handler     *)
(* statements are steps of their own, so whether the handler is atomic for *)
(* the reader is a result here and not an assumption.                      *)
(***************************************************************************)
EXTENDS KeyBuffer, SequencesExt, Pic8259

CONSTANTS
  OtherLines,     \* the request lines of devices other than the keyboard
  EarlyKeys,      \* may keys be pressed before i8259_Configure starts?
  Exceptions      \* the processor exceptions the kernel's own code may raise

ASSUME LinesAssumption == OtherLines \subseteq (0 .. 15) \ {1, 2}
ASSUME EarlyAssumption == EarlyKeys \in BOOLEAN
ASSUME ExceptionsAssumption == Exceptions \subseteq 0 .. 31

VARIABLES
  master, slave,  \* the two controllers
  present,        \* is there a controller at all?
  outByte,        \* the keyboard controller's output byte: a set, {} if empty
  ifl,            \* the processor's interrupt flag
  boot,           \* the index of the next step of HAL_Initialize
  gates,          \* vectors whose gate in g_IDT is present
  isrHandlers,    \* vectors with a handler in g_ISRHandlers
  irqHandlers,    \* lines with a handler in g_IRQHandlers
  driver,         \* is g_Driver set?
  picMask,        \* g_PicMask
  stack,          \* the interrupt frames, the running handler's last
  halted          \* i686_Panic has stopped the processor

chipVars == <<master, slave, present>>
tableVars == <<gates, isrHandlers, irqHandlers, driver, picMask>>
sysVars == <<keyBuffer, bufferHead, bufferTail, rpc, seen, c, ret,
             master, slave, present, outByte, ifl, boot,
             gates, isrHandlers, irqHandlers, driver, picMask, stack, halted>>

Words == SUBSET (0 .. 15)
Low(word) == word \cap Bits
High(word) == {b - 8 : b \in word \ Bits}
AllLines == 0 .. 15
Vectors == 0 .. 255
PIC_REMAP_OFFSET == 32
IrqVectors == PIC_REMAP_OFFSET .. PIC_REMAP_OFFSET + 15

-----------------------------------------------------------------------------
(***************************************************************************)
(* HAL_Initialize as a sequence of steps: port writes, and assignments to  *)
(* the tables.                                                             *)
(***************************************************************************)
Do(op) == [op |-> op, arg |-> {}]
With(op, arg) == [op |-> op, arg |-> arg]

\* i8259_SetMask writes both halves of g_PicMask.
OutMask == <<Do("outMask1"), Do("outMask2")>>
SetMask(newMask) == <<With("setMask", newMask)>> \o OutMask

\* i8259_Unmask(irq)
Unmask(irq) == <<With("unmask", {irq})>> \o OutMask

\* i8259_Disable, then a mask that no missing chip reads back: 0x1337.
ProbeMask == {0, 1, 2, 4, 5, 8, 9, 12}
Probe == SetMask(AllLines) \o SetMask(ProbeMask) \o <<Do("probe")>>

\* Bug: the mask that ICW1 clears is not set again.
BugConfigureUnmasked ==
  SetMask(AllLines) \o
  << With("command1", {0, 4}), With("command2", {0, 4}),
     With("data1", {5}), With("data2", {3, 5}),
     With("data1", {2}), With("data2", {1}),
     With("data1", {0}), With("data2", {0}) >>

\* i8259_Configure(0x20, 0x28, false)
Configure ==
  SetMask(AllLines) \o
  << With("command1", {0, 4}), With("command2", {0, 4}),   \* ICW1
     With("data1", {5}), With("data2", {3, 5}),            \* ICW2: the offsets
     With("data1", {2}), With("data2", {1}),               \* ICW3: the cascade
     With("data1", {0}), With("data2", {0}) >> \o          \* ICW4: 8086 mode
  SetMask(AllLines)

\* Bug: the keyboard is unmasked before its handler is set.
BugUnmaskBeforeHandler ==
  <<Do("gates")>> \o Probe \o Configure \o
  <<Do("register"), Do("sti")>> \o Unmask(1) \o <<Do("handler")>>

\* i686_IDT_Initialize and i686_ISR_Initialize, then i686_IRQ_Initialize.
HAL_Initialize ==
  <<Do("gates")>> \o Probe \o Configure \o
  <<Do("register"), Do("sti"), Do("handler")>> \o Unmask(1)

BootDone == boot > Len(HAL_Initialize)

\* Until ICW1 the controllers are still the BIOS's.
BeforeConfigure ==
  \E k \in boot .. Len(HAL_Initialize) : HAL_Initialize[k].op = "command1"

\* The kernel is entered with interrupts off and the controllers as the BIOS
\* set them up: vectors 8 and 0x70, any lines unmasked and requested.
SysInit ==
  /\ Init
  /\ c = Nul /\ ret = Nul
  /\ \E ready \in SUBSET {l \in OtherLines : l < 8} :
       master = [imr |-> {}, irr |-> ready, isr |-> {}, base |-> 8, next |-> 0]
  /\ slave = [imr |-> {}, irr |-> {}, isr |-> {}, base |-> 112, next |-> 0]
  /\ present \in BOOLEAN
  /\ outByte = {}
  /\ ifl = FALSE
  /\ boot = 1
  /\ gates = {} /\ isrHandlers = {} /\ irqHandlers = {}
  /\ driver = FALSE
  /\ picMask = AllLines
  /\ stack = <<>>
  /\ halted = FALSE

Running == ~halted /\ stack = <<>>

\* A step of HAL_Initialize that writes a port of a controller.
BootOut(step) ==
  /\ \/ /\ step.op = "outMask1" /\ master' = WriteData(master, Low(picMask))
        /\ UNCHANGED slave
     \/ /\ step.op = "outMask2" /\ slave' = WriteData(slave, High(picMask))
        /\ UNCHANGED master
     \/ /\ step.op = "command1" /\ master' = WriteCommand(master, step.arg)
        /\ UNCHANGED slave
     \/ /\ step.op = "command2" /\ slave' = WriteCommand(slave, step.arg)
        /\ UNCHANGED master
     \/ /\ step.op = "data1" /\ master' = WriteData(master, step.arg)
        /\ UNCHANGED slave
     \/ /\ step.op = "data2" /\ slave' = WriteData(slave, step.arg)
        /\ UNCHANGED master
  /\ boot' = boot + 1
  /\ UNCHANGED <<ifl, tableVars>>

\* A step of HAL_Initialize that sets a table, a mask or the interrupt flag.
BootSet(step) ==
  /\ gates' = IF step.op = "gates" THEN Vectors \ {128}
              ELSE IF step.op = "register" THEN gates \cup IrqVectors ELSE gates
  /\ isrHandlers' = IF step.op = "register" THEN isrHandlers \cup IrqVectors
                    ELSE isrHandlers
  /\ irqHandlers' = IF step.op = "handler" THEN {1} ELSE irqHandlers
  /\ picMask' = IF step.op = "setMask" THEN step.arg
                ELSE IF step.op = "unmask" THEN picMask \ step.arg ELSE picMask
  /\ ifl' = (step.op = "sti" \/ ifl)
  /\ boot' = boot + 1
  /\ UNCHANGED <<chipVars, driver>>

\* The mask is read back; without a controller the bus reads as 0xFFFF, and
\* i686_IRQ_Initialize warns and returns with interrupts still off.
BootProbe ==
  LET found == present /\ master.imr = Low(ProbeMask) /\ slave.imr = High(ProbeMask)
  IN /\ driver' = found
     /\ boot' = IF found THEN boot + 1 ELSE Len(HAL_Initialize) + 1
     /\ UNCHANGED <<chipVars, ifl, gates, isrHandlers, irqHandlers, picMask>>

Outs == {"outMask1", "outMask2", "command1", "command2", "data1", "data2"}

BootStep ==
  /\ Running /\ ~BootDone
  /\ LET step == HAL_Initialize[boot]
     IN IF step.op \in Outs THEN BootOut(step) /\ UNCHANGED present
        ELSE IF step.op = "probe" THEN BootProbe
        ELSE BootSet(step)
  /\ UNCHANGED <<ringVars, readVars, outByte, stack, halted>>

-----------------------------------------------------------------------------
(***************************************************************************)
(* Devices.                                                                *)
(***************************************************************************)
Raise(line) ==
  IF line < 8 THEN master' = RaiseLine(master, line) /\ UNCHANGED slave
              ELSE slave' = RaiseLine(slave, line - 8) /\ UNCHANGED master

\* The keyboard puts a scan code into its empty output byte and raises line 1,
\* which stays high until the byte is read; further keys wait in the keyboard.
KeyEvent(ioCode) ==
  /\ EarlyKeys \/ ~BeforeConfigure
  /\ outByte = {}
  /\ outByte' = {ioCode}
  /\ Raise(1)
  /\ UNCHANGED <<ringVars, readVars, present, ifl, boot, tableVars, stack, halted>>

OtherEvent(line) ==
  /\ Raise(line)
  /\ UNCHANGED <<ringVars, readVars, present, outByte, ifl, boot, tableVars,
                 stack, halted>>

-----------------------------------------------------------------------------
(***************************************************************************)
(* The processor takes an interrupt.  Every gate is an interrupt gate: the *)
(* flag is saved in the frame and cleared.                                 *)
(***************************************************************************)
Frame(v) == [vector |-> v, pc |-> "entry", flag |-> ifl, ioCode |-> {}, nextHead |-> 0]

\* Bug: trap gates, which leave interrupts enabled.
BugEnterByTrapGate(v) == stack' = Append(stack, Frame(v)) /\ UNCHANGED ifl

Enter(v) == stack' = Append(stack, Frame(v)) /\ ifl' = FALSE

\* The line the master signals; the slave's request arrives on line 2.
MasterSignal ==
  Signalled(IF Signalled(slave) = {} THEN master ELSE RaiseLine(master, 2))

Interrupt ==
  /\ ~halted /\ ifl /\ present
  /\ \E l \in MasterSignal :
       /\ master' = Acknowledge(master, l)
       /\ IF l = 2 /\ Signalled(slave) # {}
          THEN \E s \in Signalled(slave) :
                 slave' = Acknowledge(slave, s) /\ Enter(slave.base + s)
          ELSE UNCHANGED slave /\ Enter(master.base + l)
  /\ UNCHANGED <<ringVars, readVars, present, outByte, boot, tableVars, halted>>

\* A request that vanishes before it is acknowledged is answered with the
\* vector of line 7, and nothing is in service.
Spurious ==
  /\ ~halted /\ ifl /\ present
  /\ master.next = 0 /\ master.imr # Bits /\ MasterSignal = {}
  /\ Enter(master.base + 7)
  /\ UNCHANGED <<ringVars, readVars, chipVars, outByte, boot, tableVars, halted>>

\* The kernel's own code faults (a division by zero, say).
Exception(v) ==
  /\ Running /\ BootDone
  /\ Enter(v)
  /\ UNCHANGED <<ringVars, readVars, chipVars, outByte, boot, tableVars, halted>>

-----------------------------------------------------------------------------
(***************************************************************************)
(* The handlers, statement by statement, for the frame on top.             *)
(***************************************************************************)
Top == stack[Len(stack)]
Goto(pc) == stack' = [stack EXCEPT ![Len(stack)].pc = pc]
IrqOf(f) == f.vector - PIC_REMAP_OFFSET
At(pc) == ~halted /\ stack # <<>> /\ Top.pc = pc

\* i686_ISR_Handler: a registered handler, an unhandled interrupt that is only
\* reported, or an exception, which stops the kernel.
ISR_Handler ==
  /\ At("entry")
  /\ \/ /\ Top.vector \in isrHandlers
        /\ Goto("irq")
        /\ UNCHANGED <<ifl, halted>>
     \/ /\ Top.vector \notin isrHandlers /\ Top.vector >= 32
        /\ Goto("iret")
        /\ UNCHANGED <<ifl, halted>>
     \/ /\ Top.vector \notin isrHandlers /\ Top.vector < 32
        /\ halted' = TRUE
        /\ ifl' = FALSE
        /\ UNCHANGED stack
  /\ UNCHANGED <<ringVars, readVars, chipVars, outByte, boot, tableVars>>

\* Bug: every line is given to the keyboard handler.
BugIrqHandlerAnyLine ==
  /\ At("irq")
  /\ Goto("inb")
  /\ UNCHANGED <<ringVars, readVars, chipVars, outByte, ifl, boot, tableVars, halted>>

\* i686_IRQ_Handler up to the line's handler; a line without one is reported.
IRQ_Handler ==
  /\ At("irq")
  /\ Goto(IF IrqOf(Top) \in irqHandlers THEN "inb" ELSE "eoi2")
  /\ UNCHANGED <<ringVars, readVars, chipVars, outByte, ifl, boot, tableVars, halted>>

\* The keyboard handler reads the scan code, which drops the line.
ReadScanCode ==
  /\ At("inb")
  /\ outByte' = {}
  /\ stack' = [stack EXCEPT ![Len(stack)].ioCode = outByte,
                            ![Len(stack)].pc = "test"]
  /\ UNCHANGED <<ringVars, readVars, chipVars, ifl, boot, tableVars, halted>>

\* Bug: the next head does not wrap.
BugNextHeadNoWrap ==
  /\ At("test")
  /\ LET nextHead == bufferHead + 1
         store == Top.ioCode \cap DOMAIN keymap # {} /\ nextHead # bufferTail
     IN stack' = [stack EXCEPT ![Len(stack)].nextHead = nextHead,
                               ![Len(stack)].pc = IF store THEN "slot" ELSE "eoi"]
  /\ UNCHANGED <<ringVars, readVars, chipVars, outByte, ifl, boot, tableVars, halted>>

\* Bug: a full buffer is not noticed.
BugNoRoomTest ==
  /\ At("test")
  /\ stack' = [stack EXCEPT ![Len(stack)].nextHead = Succ(bufferHead),
                            ![Len(stack)].pc =
                              IF Top.ioCode \cap DOMAIN keymap # {} THEN "slot" ELSE "eoi"]
  /\ UNCHANGED <<ringVars, readVars, chipVars, outByte, ifl, boot, tableVars, halted>>

\* A make code's character is stored if there is room.
TestRoom ==
  /\ At("test")
  /\ LET nextHead == Succ(bufferHead)
         store == Top.ioCode \cap DOMAIN keymap # {} /\ nextHead # bufferTail
     IN stack' = [stack EXCEPT ![Len(stack)].nextHead = nextHead,
                               ![Len(stack)].pc = IF store THEN "slot" ELSE "eoi"]
  /\ UNCHANGED <<ringVars, readVars, chipVars, outByte, ifl, boot, tableVars, halted>>

StoreSlot ==
  /\ At("slot")
  /\ \E s \in Top.ioCode : keyBuffer' = [keyBuffer EXCEPT ![bufferHead] = keymap[s]]
  /\ Goto("head")
  /\ UNCHANGED <<bufferHead, bufferTail, readVars, chipVars, outByte, ifl, boot,
                 tableVars, halted>>

StoreHead ==
  /\ At("head")
  /\ bufferHead' = Top.nextHead
  /\ Goto("eoi")
  /\ UNCHANGED <<keyBuffer, bufferTail, readVars, chipVars, outByte, ifl, boot,
                 tableVars, halted>>

\* Bug: each controller gets the other's end of interrupt.
BugEoiSwapped(irq) ==
  IF irq >= 8
  THEN master' = WriteCommand(master, {5}) /\ UNCHANGED slave
  ELSE slave' = WriteCommand(slave, {5}) /\ UNCHANGED master

\* i8259_SendEndOfInterrupt
SendEndOfInterrupt(irq) ==
  /\ slave' = IF irq >= 8 THEN WriteCommand(slave, {5}) ELSE slave
  /\ master' = WriteCommand(master, {5})

\* The keyboard handler ends the interrupt, and i686_IRQ_Handler does it again.
HandlerEoi ==
  /\ \/ At("eoi") /\ Goto("eoi2")
     \/ At("eoi2") /\ Goto("iret")
  /\ SendEndOfInterrupt(IrqOf(Top))
  /\ UNCHANGED <<ringVars, readVars, present, outByte, ifl, boot, tableVars, halted>>

\* isr_common returns and restores the flag.
Iret ==
  /\ At("iret")
  /\ ifl' = Top.flag
  /\ stack' = Front(stack)
  /\ UNCHANGED <<ringVars, readVars, chipVars, outByte, boot, tableVars, halted>>

HandlerStep ==
  \/ ISR_Handler \/ IRQ_Handler \/ ReadScanCode \/ TestRoom \/ StoreSlot
  \/ StoreHead \/ HandlerEoi \/ Iret

\* The kernel's main line reads the keyboard once HAL_Initialize has returned.
MainStep ==
  /\ Running /\ BootDone
  /\ CallReadChar \/ ReadCharStep
  /\ UNCHANGED <<chipVars, outByte, ifl, boot, tableVars, stack, halted>>

SysNext ==
  \/ BootStep \/ Interrupt \/ Spurious \/ HandlerStep \/ MainStep
  \/ \E ioCode \in ScanCodes : KeyEvent(ioCode)
  \/ \E line \in OtherLines : OtherEvent(line)
  \/ \E v \in Exceptions : Exception(v)

SysSpec == SysInit /\ [][SysNext]_sysVars

\* The processor executes what it is at, and a request that stays is taken.
FairSysSpec ==
  /\ SysSpec
  /\ WF_sysVars(BootStep)
  /\ WF_sysVars(HandlerStep)
  /\ WF_sysVars(Interrupt)

-----------------------------------------------------------------------------
SysTypeOK ==
  /\ TypeOK
  /\ master \in Chips /\ slave \in Chips /\ present \in BOOLEAN
  /\ outByte \in SUBSET ScanCodes
  /\ ifl \in BOOLEAN /\ halted \in BOOLEAN /\ driver \in BOOLEAN
  /\ boot \in 1 .. Len(HAL_Initialize) + 1
  /\ gates \subseteq Vectors /\ isrHandlers \subseteq Vectors
  /\ irqHandlers \subseteq AllLines /\ picMask \in Words
  /\ stack \in Seq([vector : Vectors, flag : BOOLEAN, nextHead : Slots,
                     ioCode : SUBSET ScanCodes,
                     pc : {"entry", "irq", "inb", "test", "slot", "head",
                           "eoi", "eoi2", "iret"}])

\* Whatever the BIOS left unmasked or pending, and whatever devices do during
\* HAL_Initialize, the kernel is interrupted only when it can serve it: the
\* gate is present, the handler registered and the controller's driver set, so
\* neither table nor g_Driver is used empty; and no device's request arrives as
\* a processor exception.  Only the keyboard's line and a spurious line 7 do.
OnlyServedInterrupts ==
  \A k \in DOMAIN stack :
    LET v == stack[k].vector
    IN /\ v \in gates
       /\ \/ v \in Exceptions
          \/ /\ v \in isrHandlers /\ driver
             /\ IrqOf(stack[k]) \in {1, 7}
             /\ IrqOf(stack[k]) = 1 => 1 \in irqHandlers

\* The keyboard handler reads the data port only when a scan code is there, one
\* scan code for each interrupt.
ScanCodeIsThere == At("inb") => outByte # {}

\* Handlers do not nest, and outside of a handler nothing is in service: no
\* interrupt is left unacknowledged, so none blocks the lines below it.
NothingLeftInService ==
  /\ Len(stack) <= 1
  /\ stack = <<>> => master.isr = {} /\ slave.isr = {}

\* An end of interrupt ends the interrupt of its own handler or nothing: neither
\* the second one the keyboard's interrupt gets, nor the one a spurious line 7
\* gets, ends another line's service.
EoiEndsOwnLine ==
  [][\A l \in master.isr \ master'.isr : stack # <<>> /\ l = IrqOf(Top)]_sysVars

\* A scan code the keyboard has ready is read by the handler, however the key
\* falls into HAL_Initialize after ICW1 or into an earlier key's handler, unless
\* there is no controller or the kernel panics.  (EarlyKeys = FALSE: a key that
\* comes before ICW1 leaves the line high and its edge forgotten.)
ScanCodeIsRead == outByte # {} /\ present ~> outByte = {} \/ halted
=============================================================================
