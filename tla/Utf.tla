-------------------------------- MODULE Utf --------------------------------
(***************************************************************************)
(* The conversion of a name from UTF-16 to UTF-8 (libs/util/string.c), in  *)
(* the loop the drivers' code for long file names has around it: one code  *)
(* point is taken from the units, and its bytes are put where those of the *)
(* last one ended.                                                         *)
(***************************************************************************)
EXTENDS Integers, Sequences, SequencesExt

CONSTANT Names  \* names: sequences of code points

LargestUnit == 65535
UnitValues == 0 .. LargestUnit
IsSurrogate(c) == c >= 55296 /\ c < 57344
IsCodePoint(c) == c > 0 /\ c < 1114112 /\ ~IsSurrogate(c)
ASSUME UtfAssumption ==
  /\ Names # {}
  /\ \A n \in Names : n # <<>> /\ n \in Seq(Nat) /\ \A k \in DOMAIN n : IsCodePoint(n[k])

VARIABLES
  utfName,    \* the name
  string,     \* its units that are not yet read
  codepoint,  \* the one read last
  output,     \* the bytes in the buffer before stringOutput
  utfPc

utfVars == <<utfName, string, codepoint, output, utfPc>>

UtfBits(n, low, count) == (n \div low) % count     \* a shift and a mask

\* How UTF-16 writes a code point.
Units(c) ==
  IF c < 65536 THEN <<c>>
  ELSE <<55296 + (c - 65536) \div 1024, 56320 + ((c - 65536) % 1024)>>

UtfStart ==
  /\ string = FlattenSeq([k \in DOMAIN utfName |-> Units(utfName[k])])
  /\ codepoint = 0 /\ output = <<>>
  /\ utfPc = "read"

UtfInit == utfName \in Names /\ UtfStart

\* Bug: the test for a high surrogate takes in everything above.
BugIsHigh(c) == c >= 55296
IsHigh(c) == c >= 55296 /\ c < 56320

\* utf16_to_codepoint: a high surrogate takes the unit behind it along, but what the two
\* make is overwritten with the first.
utf16_to_codepoint ==
  /\ utfPc = "read" /\ string # <<>> /\ utfPc' = "write"
  /\ codepoint' = Head(string)
  /\ string' = IF IsHigh(Head(string)) THEN SubSeq(string, 3, Len(string)) ELSE Tail(string)
  /\ UNCHANGED <<utfName, output>>

\* Bug: the first byte takes two bits of the second.
BugUtf8Shift(c) ==
  CASE c <= 127 -> <<>>
    [] c > 127 /\ c <= 2047 -> <<192 + UtfBits(c, 16, 128), 128 + UtfBits(c, 1, 64)>>
    [] OTHER -> <<224 + UtfBits(c, 4096, 16), 128 + UtfBits(c, 64, 64), 128 + UtfBits(c, 1, 64)>>

\* What codepoint_to_utf8 puts before the place it returns: a byte of ASCII is stored
\* without moving on, so the next one, or the name's end, takes its place.
Utf8(c) ==
  CASE c <= 127 -> <<>>
    [] c > 127 /\ c <= 2047 -> <<192 + UtfBits(c, 64, 32), 128 + UtfBits(c, 1, 64)>>
    [] c > 2047 /\ c <= 65535 ->
         <<224 + UtfBits(c, 4096, 16), 128 + UtfBits(c, 64, 64), 128 + UtfBits(c, 1, 64)>>
    [] c > 65535 ->
         <<240 + UtfBits(c, 262144, 8), 128 + UtfBits(c, 4096, 64), 128 + UtfBits(c, 64, 64),
           128 + UtfBits(c, 1, 64)>>

codepoint_to_utf8 ==
  /\ utfPc = "write" /\ utfPc' = "read"
  /\ output' = output \o Utf8(codepoint)
  /\ UNCHANGED <<utfName, string, codepoint>>

UtfNext == utf16_to_codepoint \/ codepoint_to_utf8

UtfSpec == UtfInit /\ [][UtfNext]_utfVars

-----------------------------------------------------------------------------
UtfTypeOK ==
  /\ string \in Seq(UnitValues) /\ codepoint \in UnitValues
  /\ output \in Seq(0 .. 255)
  /\ utfPc \in {"read", "write"}

\* The bytes that stand for a code point, and no fewer would do.
StandsFor(b, c) ==
  LET tail(k) == b[k] - 128
  IN /\ \A k \in 2 .. Len(b) : b[k] >= 128 /\ b[k] < 192
     /\ CASE c < 128 -> b = <<c>>
          [] c >= 128 /\ c < 2048 -> Len(b) = 2 /\ c = 64 * (b[1] - 192) + tail(2)
          [] c >= 2048 /\ c < 65536 -> Len(b) = 3 /\ c = 4096 * (b[1] - 224) + 64 * tail(2) + tail(3)
          [] OTHER -> /\ Len(b) = 4
                      /\ c = 262144 * (b[1] - 240) + 4096 * tail(2) + 64 * tail(3) + tail(4)

\* What arrives of a code point: itself, or the first unit of a pair.
Arrives(c) == Head(Units(c))

\* What is written of it: nothing of ASCII, else the shortest form of what arrives.
IsWritten(b, c) == IF c < 128 THEN b = <<>> ELSE StandsFor(b, Arrives(c))

\* The whole name is read and written, code point by code point, each in its place: those
\* of ASCII and those of pairs, which are harmed, harm no other beside them.
NameWritten ==
  utfPc = "read" /\ string = <<>> =>
    \E ends \in [1 .. Len(utfName) -> 0 .. Len(output)] :
      LET from(k) == IF k = 1 THEN 1 ELSE ends[k - 1] + 1
      IN /\ ends[Len(utfName)] = Len(output)
         /\ \A k \in DOMAIN utfName : IsWritten(SubSeq(output, from(k), ends[k]), utfName[k])
=============================================================================
