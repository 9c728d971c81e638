---------------------------- MODULE MCKeyBuffer ----------------------------
(***************************************************************************)
(* A buffer of four slots, so that three keys fill it and the indices wrap *)
(* after four, two mapped keys,  one unmapped key and one release code.    *)
(***************************************************************************)
EXTENDS KeyBuffer

CONSTANTS a, b, nul, aDown, bDown, shiftDown, aUp

MCChars == {a, b, nul}
MCScanCodes == {aDown, bDown, shiftDown, aUp}
MCKeymap == [s \in {aDown, bDown, shiftDown} |->
               IF s = aDown THEN a ELSE IF s = bDown THEN b ELSE nul]
=============================================================================
