------------------------------- MODULE Printf -------------------------------
(***************************************************************************)
(* printf (libs/core/stdio.c; the boot loader's is the same): the state    *)
(* machine over the format, the words it takes from the stack, and the     *)
(* digits it makes of them.  A word is what an int, a long or a pointer    *)
(* takes; a long long takes two, the lower one first.                      *)
(***************************************************************************)
EXTENDS Integers, Sequences

CONSTANTS
  WORD,  \* values of a word (2^32)
  Calls  \* formats with arguments: [fmt : Seq(characters), args : Seq(words)]

ASSUME PrintfAssumption ==
  /\ WORD \in Nat \ {0} /\ WORD % 2 = 0
  /\ \A c \in Calls : \A i \in DOMAIN c.args : c.args[i] \in 0 .. WORD - 1

VARIABLES
  call,  \* the call
  at,    \* fmt: the next character
  args,  \* the words not yet taken
  state, length,
  out    \* what has been given to putc

printfVars == <<call, at, args, state, length, out>>

Char(c) == <<"char", c>>         \* of the format
Digit(d) == <<"digit", d>>       \* of g_HexChars
CharOf(w) == <<"%c", w>>
StringOf(w) == <<"%s", w>>

PrintfStart ==
  /\ at = 1 /\ args = call.args
  /\ state = "NORMAL" /\ length = "DEFAULT" /\ out = <<>>

PrintfInit == call \in Calls /\ PrintfStart

\* printf_unsigned: nothing of 0.
printf_unsigned(number, radix) ==
  LET digits[n \in 0 .. number] ==
        IF n = 0 THEN <<>> ELSE Append(digits[n \div radix], Digit(n % radix))
  IN digits[number]

\* Bug: the sign is printed and the number left negative, as an unsigned one.
BugPrintfSigned(number, radix) ==
  IF number < 0 THEN <<Char("-")>> \o printf_unsigned(number + WORD, radix)
  ELSE printf_unsigned(number, radix)

printf_signed(number, radix) ==
  IF number < 0 THEN <<Char("-")>> \o printf_unsigned(-number, radix)
  ELSE printf_unsigned(number, radix)

Signed(n, values) == IF n < values \div 2 THEN n ELSE n - values

\* va_arg: an int, and a long long if the length says so.
Wide == length = "LONG_LONG"
Taken == IF Wide THEN 2 ELSE 1
Argument == IF Wide THEN args[1] + WORD * args[2] ELSE args[1]
Values == IF Wide THEN WORD * WORD ELSE WORD

\* What a conversion prints, and how many words it takes.
Conversion(c) ==
  CASE c = "%" -> [text |-> <<Char("%")>>, words |-> 0]
    [] c = "c" -> [text |-> <<CharOf(args[1])>>, words |-> 1]
    [] c = "s" -> [text |-> <<StringOf(args[1])>>, words |-> 1]
    [] c \in {"d", "i"} -> [text |-> printf_signed(Signed(Argument, Values), 10), words |-> Taken]
    [] c = "u" -> [text |-> printf_unsigned(Argument, 10), words |-> Taken]
    [] c \in {"x", "X", "p"} -> [text |-> printf_unsigned(Argument, 16), words |-> Taken]
    [] c = "o" -> [text |-> printf_unsigned(Argument, 8), words |-> Taken]
    [] OTHER -> [text |-> <<>>, words |-> 0]

More == at <= Len(call.fmt)
Next1 == call.fmt[at]
\* Bug: the character after a percent sign is not looked at.
BugAdvance == at' = (IF state = "NORMAL" /\ Next1 = "%" THEN at + 2 ELSE at + 1) /\ UNCHANGED call
Advance == at' = at + 1 /\ UNCHANGED call
To(s, l) == state' = s /\ length' = l

\* PRINTF_STATE_NORMAL
Normal ==
  /\ More /\ state = "NORMAL"
  /\ IF Next1 = "%" THEN To("LENGTH", length) /\ UNCHANGED out
     ELSE out' = Append(out, Char(Next1)) /\ UNCHANGED <<state, length>>
  /\ Advance /\ UNCHANGED args

\* PRINTF_STATE_LENGTH, _LENGTH_SHORT and _LENGTH_LONG, with a length to come.
Length ==
  /\ More
  /\ \/ state = "LENGTH" /\ Next1 = "h" /\ To("LENGTH_SHORT", "SHORT")
     \/ state = "LENGTH" /\ Next1 = "l" /\ To("LENGTH_LONG", "LONG")
     \/ state = "LENGTH_SHORT" /\ Next1 = "h" /\ To("SPEC", "SHORT_SHORT")
     \/ state = "LENGTH_LONG" /\ Next1 = "l" /\ To("SPEC", "LONG_LONG")
  /\ Advance /\ UNCHANGED <<args, out>>

PrintfConvert(c) ==
  /\ out' = out \o Conversion(c).text
  /\ args' = SubSeq(args, Conversion(c).words + 1, Len(args))

LengthComes ==
  \/ state = "LENGTH" /\ Next1 \in {"h", "l"}
  \/ state = "LENGTH_SHORT" /\ Next1 = "h"
  \/ state = "LENGTH_LONG" /\ Next1 = "l"

\* Bug: the length is not reset.
BugSpec ==
  /\ More /\ state # "NORMAL" /\ ~LengthComes
  /\ PrintfConvert(Next1)
  /\ To("NORMAL", length)
  /\ Advance

\* PRINTF_STATE_SPEC, also for a character that is no length.
Spec_ ==
  /\ More /\ state # "NORMAL" /\ ~LengthComes
  /\ PrintfConvert(Next1)
  /\ To("NORMAL", "DEFAULT")
  /\ Advance

PrintfNext == Normal \/ Length \/ Spec_

PrintfSpec == PrintfInit /\ [][PrintfNext]_printfVars

-----------------------------------------------------------------------------
PrintfTypeOK ==
  /\ at \in 1 .. Len(call.fmt) + 1
  /\ state \in {"NORMAL", "LENGTH", "LENGTH_SHORT", "LENGTH_LONG", "SPEC"}
  /\ length \in {"DEFAULT", "SHORT_SHORT", "SHORT", "LONG", "LONG_LONG"}
  /\ \A i \in DOMAIN out : out[i][1] \in {"char", "digit", "%c", "%s"}
  /\ Len(args) <= Len(call.args)
=============================================================================
