------------------------------ MODULE KeyQueue ------------------------------
(***************************************************************************)
(* What the keyboard driver of kernel/arch/i686/irq.c promises to the code *)
(* that reads the keyboard: a bounded queue of characters.  A key press    *)
(* appends its character when there is room and is dropped when there is   *)
(* none; a read takes the oldest character.  Nothing is reordered,         *)
(* duplicated or overwritten.                                              *)
(***************************************************************************)
EXTENDS Naturals, Sequences

CONSTANTS
  Chars,      \* the characters a key can stand for
  Capacity    \* how many characters can wait

VARIABLES
  queue,      \* the characters accepted and not yet read, oldest first
  ret         \* the character the last read returned

vars == <<queue, ret>>

\* The buffer is static storage; ret is the uninitialised result register.
Init == queue = <<>> /\ ret \in Chars

\* A key press, accepted only while there is room.
Put(ch) ==
  /\ Len(queue) < Capacity
  /\ queue' = Append(queue, ch)
  /\ UNCHANGED ret

\* A read returns the oldest character and removes it.
Get ==
  /\ queue # <<>>
  /\ ret' = Head(queue)
  /\ queue' = Tail(queue)

Next == Get \/ \E ch \in Chars : Put(ch)

Spec == Init /\ [][Next]_vars
=============================================================================
