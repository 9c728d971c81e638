----------------------------- MODULE MCConsole -----------------------------
(***************************************************************************)
(* A screen of two rows of two columns, tab stops every two columns, and   *)
(* a cursor position in two halves of four values each.                    *)
(***************************************************************************)
EXTENDS Console

CONSTANTS a, nul, space, newline, return, tab

MCPrinted == {a, newline, return, tab}
MCEchoed == {a, newline, tab}
=============================================================================
