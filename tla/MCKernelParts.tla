--------------------------- MODULE MCKernelParts ---------------------------
(***************************************************************************)
(* Disk: the second drive of the second channel among three; registers of  *)
(* four values, so that the last sectors of a drive of 80 use each part of *)
(* the address; a read across its end.                                     *)
(***************************************************************************)
EXTENDS KernelParts

Sectors(lba, n) == [lba |-> lba, n |-> n]
MCReads == {Sectors(0, 1), Sectors(27, 2), Sectors(77, 3), Sectors(79, 2)}
MCGeometries == {[heads |-> 2, sectors |-> 3], [heads |-> 0, sectors |-> 0]}

(***************************************************************************)
(* Command line: short names of three and one characters.  In the root a   *)
(* directory and files with and without an extension, in the directory two *)
(* files whose names start like another.                                   *)
(***************************************************************************)
MCUpperOf == [x \in {"a", "b", "x"} |-> CASE x = "a" -> "A" [] x = "b" -> "B" [] x = "x" -> "X"]
Entries(pairs) == [s \in {p[1] : p \in pairs} |-> (CHOOSE p \in pairs : p[1] = s)[2]]
MCTree ==
  [d \in {"root", "dir"} |->
     IF d = "root"
     THEN Entries({<<<<"A", "B", "B", " ">>, "dir">>, <<<<"A", " ", " ", "X">>, "a.x">>,
                   <<<<"A", " ", " ", " ">>, "a">>, <<<<"A", "B", "A", " ">>, "aba">>})
     ELSE Entries({<<<<"B", " ", " ", "X">>, "abb/b.x">>, <<<<"B", "B", " ", "X">>, "abb/bb.x">>})]

Cat(chars) == <<"cat", " ">> \o chars \o <<Newline>>
MCPaths ==
  { <<"a", ".", "x">>, <<" ", "A", ".", "x">>, <<"/", "a", ".", "x">>, <<"b", ".", "x">>,
    <<"a", "b", "b", "/", "b", ".", "x">>, <<"/", "a", "b", "b", "/", "b", "b", ".", "x">>,
    <<"a", "b", "b", "/", "a", ".", "x">>, <<"a", "/", "b", ".", "x">>, <<"a", "b", "a">>, <<>>,
    <<"a", "b", "b", ".", "x">>, <<"a", "b", "b", "/", "b">> }
MCLines == {Cat(p) : p \in MCPaths} \cup {<<"ls", Newline>>, <<"help", "a", Newline>>,
                                          <<"word", Newline>>, <<"cat", Newline>>}

(***************************************************************************)
(* printf: calls with two items each, and what they should print: the text *)
(* of each item, from the words that are its argument.  Words of three     *)
(* bits; one more word is on the stack than is for the items.              *)
(***************************************************************************)
CONSTANT MCWords    \* the values arguments may have

\* The digits of a number: as many as it needs, at least one.
Numeral(n, radix) ==
  LET digits == CHOOSE k \in 1 .. 32 : n < radix ^ k /\ (k = 1 \/ n >= radix ^ (k - 1))
  IN [i \in 1 .. digits |-> Digit((n \div radix ^ (digits - i)) % radix)]

SignedNumeral(n) == IF n < 0 THEN <<Char("-")>> \o Numeral(-n, 10) ELSE Numeral(n, 10)

\* The items: their characters, the words each takes, and what it should print.
MCItems == << <<"a">>, <<"%", "%">>, <<"%", "h", "q">>, <<"%", "c">>, <<"%", "s">>,
              <<"%", "d">>, <<"%", "h", "h", "d">>, <<"%", "l", "i">>, <<"%", "u">>,
              <<"%", "l", "l", "d">>, <<"%", "l", "l", "x">>, <<"%", "l", "l", "o">> >>
WordsOf(k) == CASE k <= 3 -> 0 [] k <= 9 -> 1 [] OTHER -> 2
Prints(k, a) ==
  LET two == a[1] + WORD * a[2]
  IN CASE k = 1 -> <<Char("a")>>
       [] k = 2 -> <<Char("%")>>
       [] k = 3 -> <<>>
       [] k = 4 -> <<CharOf(a[1])>>
       [] k = 5 -> <<StringOf(a[1])>>
       [] k \in 6 .. 8 -> SignedNumeral(Signed(a[1], WORD))
       [] k = 9 -> Numeral(a[1], 10)
       [] k = 10 -> SignedNumeral(Signed(two, WORD * WORD))
       [] k = 11 -> Numeral(two, 16)
       [] k = 12 -> Numeral(two, 8)

MCCalls ==
  UNION {{[fmt |-> MCItems[p] \o MCItems[q], args |-> a, items |-> <<p, q>>] :
            a \in [1 .. WordsOf(p) + WordsOf(q) + 1 -> MCWords]} :
           p, q \in DOMAIN MCItems}

\* When printf returns, it has printed every item of the format with its own argument,
\* numbers with all of their digits, and no item took another's words.
PrintsArguments ==
  /\ PrintfTypeOK
  /\ at > Len(call.fmt) =>
       LET p == call.items[1]  q == call.items[2]
       IN /\ out = Prints(p, call.args)
                     \o Prints(q, SubSeq(call.args, WordsOf(p) + 1, Len(call.args)))
          /\ Len(args) = 1

\* quicksort: all arrays of one to MCSize keys, with equal keys in every place.
CONSTANTS MCSize, MCKeys

MCInputs == UNION {[1 .. n -> MCKeys] : n \in 1 .. MCSize}

\* UTF: names of one to MCLength code points, the first and last of every form.
CONSTANTS MCLength, MCCodepoints

MCNames == UNION {[1 .. n -> MCCodepoints] : n \in 1 .. MCLength}
=============================================================================
