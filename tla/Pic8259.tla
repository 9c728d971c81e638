------------------------------ MODULE Pic8259 ------------------------------
(***************************************************************************)
(* One 8259 interrupt controller, as the driver kernel/arch/i686/i8259.c   *)
(* and the processor see it: hardware, modelled from the control words the *)
(* driver's header comments describe.  A byte is the set of its 1 bits, so *)
(* that 0x20 is {5}; a chip is a record of                                 *)
(*    imr   the lines masked            irr  the requests latched          *)
(*    isr   the requests in service     base the vector of line 0          *)
(*    next  the initialization word expected: 0 none, else 2, 3 or 4       *)
(***************************************************************************)
EXTENDS Naturals

Bits == 0 .. 7

ByteValue(byte) ==
  LET bit(b, weight) == IF b \in byte THEN weight ELSE 0
  IN bit(0, 1) + bit(1, 2) + bit(2, 4) + bit(3, 8) +
     bit(4, 16) + bit(5, 32) + bit(6, 64) + bit(7, 128)

Chips == [imr : SUBSET Bits, irr : SUBSET Bits, isr : SUBSET Bits,
          base : 0 .. 255, next : {0, 2, 3, 4}]

\* Line 0 has the highest priority.
Highest(lines) == CHOOSE l \in lines : \A k \in lines : l <= k

\* A write to the command port.  ICW1 (bit 4) starts the initialization: it
\* unmasks every line and forgets the edges seen, so that a line already high
\* must fall and rise again.  0x20 is the non-specific end of interrupt.
WriteCommand(chip, byte) ==
  IF 4 \in byte
  THEN [chip EXCEPT !.imr = {}, !.irr = {}, !.isr = {}, !.next = 2]
  ELSE IF byte = {5} /\ chip.isr # {}
  THEN [chip EXCEPT !.isr = @ \ {Highest(@)}]
  ELSE chip

\* A write to the data port: the initialization words in turn, then the mask.
WriteData(chip, byte) ==
  IF chip.next = 0 THEN [chip EXCEPT !.imr = byte]
  ELSE IF chip.next = 2
  THEN [chip EXCEPT !.base = ByteValue(byte \ {0, 1, 2}), !.next = 3]
  ELSE [chip EXCEPT !.next = (chip.next + 1) % 5]

\* A request line rises.
RaiseLine(chip, line) == [chip EXCEPT !.irr = @ \cup {line}]

\* The request the chip signals, as a set of at most one line: the highest
\* unmasked one, unless one as high is in service.
Signalled(chip) ==
  LET open == chip.irr \ chip.imr
  IN IF chip.next # 0 \/ open = {} THEN {}
     ELSE LET l == Highest(open)
          IN IF \E s \in chip.isr : s <= l THEN {} ELSE {l}

\* The processor acknowledges a line.
Acknowledge(chip, line) ==
  [chip EXCEPT !.isr = @ \cup {line}, !.irr = @ \ {line}]
=============================================================================
