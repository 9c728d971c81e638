---------------------------- MODULE MCLineInput ----------------------------
(***************************************************************************)
(* Three ring slots (two characters fill it), a line buffer of four bytes  *)
(* (three characters fill a line), and a key for each way fgets treats a   *)
(* character: an ordinary one, an unmapped one, newline and backspace.     *)
(***************************************************************************)
EXTENDS LineInput

CONSTANTS a, nul, nl, bs

MCChars == {a, nul, nl, bs}
\* A key's make code is named after its character.
MCKeymap == [s \in MCChars |-> s]
=============================================================================
