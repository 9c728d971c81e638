---------------------------- MODULE MCInterrupts ----------------------------
(***************************************************************************)
(* A buffer of three slots, one mapped key and its release code, the timer *)
(* and a disk as the other devices, and the divide error as the exception. *)
(***************************************************************************)
EXTENDS Interrupts

CONSTANTS a, nul, aDown, aUp

MCChars == {a, nul}
MCScanCodes == {aDown, aUp}
MCKeymap == [s \in {aDown} |-> a]
=============================================================================
