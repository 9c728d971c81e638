--------------------------- MODULE ConsoleProofs ---------------------------
(***************************************************************************)
(* Wherever the keyboard's echoes fall in putc and clrscr, the console     *)
(* stays in the text memory and comes back to the screen, for every size   *)
(* of the screen and every distance of tab stops.                          *)
(***************************************************************************)
EXTENDS Console, Numbers, TLAPS

\* A console between two accesses of the main line: the column may be one too far,
\* and so may the row.
Consoles == [text : [TextMemory -> Chars], x : 0 .. SCREEN_WIDTH, y : 0 .. SCREEN_HEIGHT,
             select : {"low", "high"}, low : 0 .. BYTE - 1, high : 0 .. BYTE - 1]

\* Where putc is when it has been called for a blank.
InPutc == {"argY", "argX", "putchr", "loadX", "incX", "testX", "wrapY", "wrapInc", "wrapX",
           "testY", "scroll", "scrollY", "scrollDec", "cursorY", "cursorX", "selectLow",
           "writeLow", "selectHigh", "writeHigh"}
Places == InPutc \cup {"idle", "newline", "newlineY", "newlineInc", "return", "tab", "clear",
                       "clearX", "clearY"}

DataTypes ==
  /\ mpc \in Places
  /\ con \in Consoles
  /\ ch \in Chars
  /\ rx \in Nat /\ ry \in Nat /\ row \in Nat
  /\ i \in 0 .. TAB /\ inTab \in BOOLEAN

\* Only at the end of a row is the column behind it, and only from an increment to
\* the scrolling is the row below the screen; not both before the wrap.
Position ==
  /\ con.x = SCREEN_WIDTH => mpc \in {"testX", "wrapY", "wrapInc", "wrapX"}
  /\ con.y = SCREEN_HEIGHT =>
       mpc \in {"testX", "wrapX", "testY", "scroll", "scrollY", "scrollDec"}
  /\ mpc = "testX" => con.x < SCREEN_WIDTH \/ con.y < SCREEN_HEIGHT
  /\ mpc \in {"scroll", "scrollY", "scrollDec"} => con.y >= SCREEN_HEIGHT - 1

\* What the main line has loaded is stale, but a position on the screen.
Registers ==
  /\ mpc \in {"newlineInc", "argX", "putchr", "wrapInc"} => ry < SCREEN_HEIGHT
  /\ mpc \in {"putchr", "incX"} => rx < SCREEN_WIDTH
  /\ mpc = "scrollDec" => ry \in {SCREEN_HEIGHT - 1, SCREEN_HEIGHT}
  /\ mpc = "scroll" => row \in 1 .. SCREEN_HEIGHT
  /\ mpc = "clear" => row <= SCREEN_HEIGHT

\* The tab loop is inside of a putc of its own, or not.
Blanks ==
  /\ inTab => i < TAB /\ mpc \in InPutc
  /\ mpc = "idle" => i = 0

ConInv == DataTypes /\ Position /\ Registers /\ Blanks
-----------------------------------------------------------------------------
(***************************************************************************)
(* What is left of a putc or clrscr, if no echo falls into it.             *)
(***************************************************************************)
Terminals == {t \in [rows : Seq([1 .. SCREEN_WIDTH -> Chars]), col : 0 .. SCREEN_WIDTH - 1] :
                Len(t.rows) \in 1 .. SCREEN_HEIGHT}

TextShows(text, rows) ==
  \A y \in 1 .. SCREEN_HEIGHT, x \in 1 .. SCREEN_WIDTH :
    text[Cell(x - 1, y - 1)] = IF y <= Len(rows) THEN rows[y][x] ELSE Nul

\* The console k shows the terminal t.
Shows(k, t) ==
  /\ k \in Consoles /\ t \in Terminals
  /\ TextShows(k.text, t.rows)
  /\ k.x = t.col /\ k.y = Len(t.rows) - 1
  /\ k.low = Cell(k.x, k.y) % BYTE /\ k.high = Cell(k.x, k.y) \div BYTE

\* Of setcursor, with the position to write.
CursorLeft(k, p, pos) ==
  LET low == pos % BYTE
      high == (pos \div BYTE) % BYTE
  IN IF p = "selectLow" THEN SetCursor(k, pos)
     ELSE IF p = "writeLow"
     THEN IF k.select = "low" THEN SetCursor(k, pos)
          ELSE [k EXCEPT !.select = "high", !.high = high]
     ELSE IF p = "selectHigh" THEN [k EXCEPT !.select = "high", !.high = high]
     ELSE IF k.select = "low" THEN [k EXCEPT !.low = high]
     ELSE [k EXCEPT !.high = high]

CursorHere(k) == SetCursor(k, Cell(k.x, k.y))

\* Of scrollback, from row r on.
ScrollText(text, r) ==
  [s \in TextMemory |->
     LET y == s \div SCREEN_WIDTH
     IN IF r - 1 <= y /\ y < SCREEN_HEIGHT - 1 THEN text[s + SCREEN_WIDTH]
        ELSE IF y = SCREEN_HEIGHT - 1 THEN Nul
        ELSE text[s]]
ScrollLeft(k, r) == [k EXCEPT !.y = @ - 1, !.text = ScrollText(k.text, r)]

\* Of clrscr, from row r on.
ClearText(text, r) ==
  [s \in TextMemory |-> LET y == s \div SCREEN_WIDTH
                        IN IF r <= y /\ y < SCREEN_HEIGHT THEN Nul ELSE text[s]]
ClearLeft(k, r) == [k EXCEPT !.x = 0, !.y = 0, !.text = ClearText(k.text, r)]

Stored(k, x, y, c) == Settle([PutChr(k, x, y, c) EXCEPT !.x = @ + 1])

\* Of the call: the console at its end, with the main line at p, its registers x, y
\* and r, printing c.
Left(k, p, x, y, r, c) ==
  IF p = "newline" THEN Settle([k EXCEPT !.x = 0, !.y = @ + 1])
  ELSE IF p = "newlineY" THEN Settle([k EXCEPT !.y = @ + 1])
  ELSE IF p = "newlineInc" THEN Settle([k EXCEPT !.y = y + 1])
  ELSE IF p = "return" THEN Settle([k EXCEPT !.x = 0])
  ELSE IF p = "argY" THEN Stored(k, k.x, k.y, c)
  ELSE IF p = "argX" THEN Stored(k, k.x, y, c)
  ELSE IF p = "putchr" THEN Stored(k, x, y, c)
  ELSE IF p = "loadX" THEN Settle([k EXCEPT !.x = @ + 1])
  ELSE IF p = "incX" THEN Settle([k EXCEPT !.x = x + 1])
  ELSE IF p \in {"testX", "testY"} THEN Settle(k)
  ELSE IF p = "wrapY" THEN Settle([k EXCEPT !.x = 0, !.y = @ + 1])
  ELSE IF p = "wrapInc" THEN Settle([k EXCEPT !.x = 0, !.y = y + 1])
  ELSE IF p = "wrapX" THEN Settle([k EXCEPT !.x = 0])
  ELSE IF p = "scroll" THEN CursorHere(ScrollLeft(k, r))
  ELSE IF p = "scrollY" THEN CursorHere([k EXCEPT !.y = @ - 1])
  ELSE IF p = "scrollDec" THEN CursorHere([k EXCEPT !.y = y - 1])
  ELSE IF p = "clear" THEN CursorHere(ClearLeft(k, r))
  ELSE IF p = "clearX" THEN CursorHere([k EXCEPT !.x = 0, !.y = 0])
  ELSE IF p = "clearY" THEN CursorHere([k EXCEPT !.y = 0])
  ELSE IF p = "cursorY" THEN CursorHere(k)
  ELSE IF p = "cursorX" THEN SetCursor(k, Cell(k.x, y))
  ELSE IF p = "idle" THEN k
  ELSE CursorLeft(k, p, Cell(x, y))

Rest == Left(con, mpc, rx, ry, row, IF inTab THEN Space ELSE ch)

\* As long as no echo has fallen into a call, its end will show the terminal; in the
\* tab loop, the terminal with the blanks so far, of some terminal that the whole tab
\* makes the one expected.
ShowInv ==
  term # Mixed =>
    /\ term \in Terminals
    /\ mpc # "tab" /\ ~inTab => Shows(Rest, term)
    /\ mpc = "tab" => \E t \in Terminals : /\ Shows(con, WriteBlanks(t)[i])
                                          /\ term = WriteBlanks(t)[TAB]
    /\ inTab => \E t \in Terminals : /\ Shows(Rest, WriteBlanks(t)[i + 1])
                                      /\ term = WriteBlanks(t)[TAB]

-----------------------------------------------------------------------------
(***************************************************************************)
(* Cells of the text memory.                                               *)
(***************************************************************************)
LEMMA Parameters ==
  /\ SCREEN_WIDTH \in Nat \ {0} /\ SCREEN_HEIGHT \in Nat \ {0}
  /\ TAB \in Nat \ {0} /\ BYTE \in Nat \ {0}
  /\ SCREEN_HEIGHT >= 2
  /\ Cell(0, SCREEN_HEIGHT) <= BYTE * BYTE
BY ScreenAssumption

LEMMA CellPlace ==
  ASSUME NEW x \in 0 .. SCREEN_WIDTH - 1, NEW y \in Nat
  PROVE  /\ Cell(x, y) \in Nat
         /\ Cell(x, y) \div SCREEN_WIDTH = y /\ Cell(x, y) % SCREEN_WIDTH = x
         /\ Cell(x, y) + SCREEN_WIDTH = Cell(x, y + 1)
<1>1. SCREEN_WIDTH \in Nat \ {0}
  BY Parameters
<1>2. Cell(x, y) \in Nat /\ Cell(x, y) + SCREEN_WIDTH = Cell(x, y + 1)
  BY <1>1 DEF Cell
<1> QED
  BY <1>1, <1>2, QuotientOf DEF Cell

LEMMA PlaceCell ==
  ASSUME NEW s \in Nat
  PROVE  /\ s = Cell(s % SCREEN_WIDTH, s \div SCREEN_WIDTH)
         /\ s \div SCREEN_WIDTH \in Nat /\ s % SCREEN_WIDTH \in 0 .. SCREEN_WIDTH - 1
BY Parameters, QuotientRemainder DEF Cell

LEMMA RowsBelow ==
  ASSUME NEW s \in Nat, NEW n \in Nat
  PROVE  s < Cell(0, n) <=> s \div SCREEN_WIDTH < n
<1> DEFINE y == s \div SCREEN_WIDTH
           x == s % SCREEN_WIDTH
<1>1. SCREEN_WIDTH \in Nat \ {0}
  BY Parameters
<1>2. s = y * SCREEN_WIDTH + x /\ y \in Nat /\ x \in 0 .. SCREEN_WIDTH - 1
  BY <1>1, QuotientRemainder
<1> HIDE DEF x, y
<1>3. CASE y < n
  <2>1. y * SCREEN_WIDTH + SCREEN_WIDTH <= n * SCREEN_WIDTH
    BY <1>1, <1>2, <1>3, ProductOrder
  <2>2. /\ y * SCREEN_WIDTH \in Nat
        /\ n * SCREEN_WIDTH \in Nat
        /\ Cell(0, n) = n * SCREEN_WIDTH
    BY <1>1, <1>2 DEF Cell
  <2>3. s < Cell(0, n)
    BY <1>1, <1>2, <2>1, <2>2
  <2> QED
    BY <1>3, <2>3 DEF y
<1>4. CASE n <= y
  <2>1. n * SCREEN_WIDTH <= y * SCREEN_WIDTH
    BY <1>1, <1>2, <1>4
  <2>2. /\ y * SCREEN_WIDTH \in Nat
        /\ n * SCREEN_WIDTH \in Nat
        /\ Cell(0, n) = n * SCREEN_WIDTH
    BY <1>1, <1>2 DEF Cell
  <2>3. ~(s < Cell(0, n)) /\ ~(y < n)
    BY <1>1, <1>2, <1>4, <2>1, <2>2
  <2> QED
    BY <2>3 DEF y
<1> QED
  BY <1>2, <1>3, <1>4

LEMMA InMemory ==
  ASSUME NEW x \in 0 .. SCREEN_WIDTH - 1, NEW y \in 0 .. SCREEN_HEIGHT + 1
  PROVE  Cell(x, y) \in TextMemory
<1>1. Cell(x, y) \in Nat /\ Cell(x, y) \div SCREEN_WIDTH = y
  BY CellPlace
<1>2. y < SCREEN_HEIGHT + 2 /\ SCREEN_HEIGHT + 2 \in Nat
  BY Parameters
<1>3. Cell(x, y) < Cell(0, SCREEN_HEIGHT + 2)
  BY <1>1, <1>2, RowsBelow
<1>4. Cell(0, SCREEN_HEIGHT + 2) \in Nat
  BY Parameters DEF Cell
<1> QED
  BY <1>1, <1>3, <1>4 DEF TextMemory

LEMMA MemoryPlace ==
  ASSUME NEW s \in TextMemory
  PROVE  s \in Nat /\ s \div SCREEN_WIDTH \in 0 .. SCREEN_HEIGHT + 1
<1>1. Cell(0, SCREEN_HEIGHT + 2) \in Nat /\ SCREEN_HEIGHT + 2 \in Nat
  BY Parameters DEF Cell
<1>2. s \in Nat /\ s < Cell(0, SCREEN_HEIGHT + 2)
  BY <1>1 DEF TextMemory
<1>3. s \div SCREEN_WIDTH < SCREEN_HEIGHT + 2
  BY <1>1, <1>2, RowsBelow
<1>4. s \div SCREEN_WIDTH \in Nat
  BY <1>2, PlaceCell
<1> QED
  BY <1>2, <1>3, <1>4, Parameters

\* The column behind a row is the first of the next.
LEMMA EndOfRow ==
  ASSUME NEW y \in Nat
  PROVE  Cell(SCREEN_WIDTH, y) = Cell(0, y + 1)
BY Parameters DEF Cell

-----------------------------------------------------------------------------
(***************************************************************************)
(* putc and the echo's tab keep the console in place.                      *)
(***************************************************************************)
\* A console inside of putc, with both the column and the row stepped too far.
LooseConsoles ==
  [text : [TextMemory -> Chars], x : 0 .. SCREEN_WIDTH + 1, y : 0 .. SCREEN_HEIGHT + 1,
   select : {"low", "high"}, low : 0 .. BYTE - 1, high : 0 .. BYTE - 1]

\* The text memory scrolled by a row.
ScrolledText(text) ==
  [s \in TextMemory |-> IF s < Cell(0, SCREEN_HEIGHT - 1) THEN text[s + SCREEN_WIDTH]
                        ELSE IF s < Cell(0, SCREEN_HEIGHT) THEN Nul
                        ELSE text[s]]

LEMMA ConsoleIsLoose == Consoles \subseteq LooseConsoles
BY Parameters, SMTT(30) DEF Consoles, LooseConsoles

LEMMA CellType ==
  ASSUME NEW x \in Nat, NEW y \in Nat
  PROVE  Cell(x, y) \in Nat
BY Parameters DEF Cell

LEMMA ScrolledTextType ==
  ASSUME NEW text \in [TextMemory -> Chars]
  PROVE  ScrolledText(text) \in [TextMemory -> Chars]
<1> SUFFICES ASSUME NEW s \in TextMemory
             PROVE  (IF s < Cell(0, SCREEN_HEIGHT - 1) THEN text[s + SCREEN_WIDTH]
                     ELSE IF s < Cell(0, SCREEN_HEIGHT) THEN Nul ELSE text[s]) \in Chars
  BY DEF ScrolledText
<1>1. s \in Nat /\ SCREEN_HEIGHT - 1 \in Nat /\ SCREEN_WIDTH \in Nat
  BY MemoryPlace, Parameters
<1>2. CASE s < Cell(0, SCREEN_HEIGHT - 1)
  <2>1. s \div SCREEN_WIDTH \in Nat /\ s \div SCREEN_WIDTH < SCREEN_HEIGHT - 1
    BY <1>1, <1>2, RowsBelow, PlaceCell
  <2>2. /\ s + SCREEN_WIDTH = Cell(s % SCREEN_WIDTH, s \div SCREEN_WIDTH + 1)
        /\ s % SCREEN_WIDTH \in 0 .. SCREEN_WIDTH - 1
    BY <1>1, PlaceCell, CellPlace, ZenonT(60)
  <2>3. s \div SCREEN_WIDTH + 1 \in 0 .. SCREEN_HEIGHT + 1
    BY <2>1, Parameters
  <2>4. s + SCREEN_WIDTH \in TextMemory
    BY <2>2, <2>3, InMemory
  <2> QED
    BY <1>2, <2>4
<1>3. CASE ~(s < Cell(0, SCREEN_HEIGHT - 1))
  BY <1>3 DEF Chars
<1> QED
  BY <1>2, <1>3

\* setcursor
LEMMA SetCursorFields ==
  ASSUME NEW k \in LooseConsoles, NEW pos \in Nat
  PROVE  /\ SetCursor(k, pos) \in LooseConsoles
         /\ SetCursor(k, pos).text = k.text
         /\ SetCursor(k, pos).x = k.x /\ SetCursor(k, pos).y = k.y
         /\ SetCursor(k, pos).low = pos % BYTE
         /\ SetCursor(k, pos).high = (pos \div BYTE) % BYTE
         /\ SetCursor(k, pos).select = "high"
<1>1. /\ pos % BYTE \in 0 .. BYTE - 1
      /\ pos \div BYTE \in Nat
      /\ (pos \div BYTE) % BYTE \in 0 .. BYTE - 1
  <2>1. BYTE \in Nat \ {0}
    BY Parameters
  <2>2. pos % BYTE \in 0 .. BYTE - 1 /\ pos \div BYTE \in Nat
    BY <2>1, QuotientRemainder
  <2> QED
    BY <2>1, <2>2, QuotientRemainder
<1> DEFINE low == pos % BYTE
           high == (pos \div BYTE) % BYTE
<1>2. SetCursor(k, pos) = [k EXCEPT !.low = low, !.high = high, !.select = "high"]
  BY DEF SetCursor
<1>3. low \in 0 .. BYTE - 1 /\ high \in 0 .. BYTE - 1
  BY <1>1
<1> HIDE DEF low, high
<1>4. /\ SetCursor(k, pos) \in LooseConsoles
      /\ SetCursor(k, pos).text = k.text
      /\ SetCursor(k, pos).x = k.x /\ SetCursor(k, pos).y = k.y
      /\ SetCursor(k, pos).low = low
      /\ SetCursor(k, pos).high = high
      /\ SetCursor(k, pos).select = "high"
  BY <1>2, <1>3 DEF LooseConsoles
<1> QED
  BY <1>4 DEF low, high

\* The end of putc: w is the row after the wrap.
LEMMA SettleFields ==
  ASSUME NEW k \in LooseConsoles, NEW w \in 0 .. SCREEN_HEIGHT + 1,
         w = IF k.x >= SCREEN_WIDTH THEN k.y + 1 ELSE k.y
  PROVE  LET x == IF k.x >= SCREEN_WIDTH THEN 0 ELSE k.x
             y == IF w >= SCREEN_HEIGHT THEN w - 1 ELSE w
         IN /\ Settle(k) \in Consoles
            /\ Settle(k).x = x /\ Settle(k).y = y
            /\ x \in 0 .. SCREEN_WIDTH - 1 /\ y \in 0 .. SCREEN_HEIGHT
            /\ Settle(k).text = IF w >= SCREEN_HEIGHT THEN ScrolledText(k.text) ELSE k.text
            /\ Settle(k).low = Cell(x, y) % BYTE
            /\ Settle(k).high = (Cell(x, y) \div BYTE) % BYTE
            /\ Settle(k).select = "high"
<1> DEFINE x == IF k.x >= SCREEN_WIDTH THEN 0 ELSE k.x
           y == IF w >= SCREEN_HEIGHT THEN w - 1 ELSE w
           text == IF w >= SCREEN_HEIGHT THEN ScrolledText(k.text) ELSE k.text
           wrapped == IF k.x >= SCREEN_WIDTH THEN [k EXCEPT !.y = @ + 1, !.x = 0] ELSE k
           settled == IF wrapped.y >= SCREEN_HEIGHT THEN Scrollback(wrapped) ELSE wrapped
<1>1. /\ k.text \in [TextMemory -> Chars]
      /\ k.x \in 0 .. SCREEN_WIDTH + 1 /\ k.y \in 0 .. SCREEN_HEIGHT + 1
      /\ k = [text |-> k.text, x |-> k.x, y |-> k.y, select |-> k.select, low |-> k.low,
              high |-> k.high]
  BY DEF LooseConsoles
<1>2. SCREEN_WIDTH \in Nat \ {0} /\ SCREEN_HEIGHT \in Nat /\ SCREEN_HEIGHT >= 2
  BY Parameters
<1>3. x \in 0 .. SCREEN_WIDTH - 1 /\ y \in 0 .. SCREEN_HEIGHT
  BY <1>1, <1>2
<1>4. wrapped \in LooseConsoles /\ wrapped.text = k.text /\ wrapped.x = x /\ wrapped.y = w
  <2>1. CASE k.x >= SCREEN_WIDTH
    <3>1. wrapped = [k EXCEPT !.y = w, !.x = 0]
      BY <2>1 DEF LooseConsoles
    <3>2. x = 0 /\ 0 \in 0 .. SCREEN_WIDTH + 1
      BY <1>2, <2>1
    <3> HIDE DEF wrapped, x
    <3> QED
      BY <3>1, <3>2 DEF LooseConsoles
  <2>2. CASE ~(k.x >= SCREEN_WIDTH)
    BY <2>2
  <2> QED
    BY <2>1, <2>2
<1>5. text \in [TextMemory -> Chars]
  BY <1>1, ScrolledTextType
<1> HIDE DEF wrapped
<1>6. settled \in LooseConsoles /\ settled.text = text /\ settled.x = x /\ settled.y = y
  <2>1. CASE w >= SCREEN_HEIGHT
    <3>1. settled = [wrapped EXCEPT !.y = @ - 1, !.text = ScrolledText(wrapped.text)]
      BY <1>4, <2>1 DEF Scrollback, ScrolledText
    <3>2. ScrolledText(wrapped.text) = text
      BY <1>4, <2>1
    <3>3. settled = [wrapped EXCEPT !.y = w - 1, !.text = text]
      BY <1>4, <3>1, <3>2 DEF LooseConsoles
    <3>4. w - 1 \in 0 .. SCREEN_HEIGHT + 1
      BY <1>2, <2>1
    <3> HIDE DEF settled, text, x
    <3>5. /\ settled \in LooseConsoles /\ settled.text = text /\ settled.x = wrapped.x
          /\ settled.y = w - 1
      BY <1>4, <1>5, <3>3, <3>4 DEF LooseConsoles
    <3> QED
      BY <1>4, <2>1, <3>5
  <2>2. CASE ~(w >= SCREEN_HEIGHT)
    BY <1>4, <2>2
  <2> QED
    BY <2>1, <2>2
<1>7. Settle(k) = SetCursor(settled, Cell(settled.x, settled.y))
  BY DEF Settle, wrapped
<1> HIDE DEF settled, x, y, text
<1>8. Cell(x, y) \in Nat
  BY <1>3, CellType
<1>9. Settle(k) = SetCursor(settled, Cell(x, y))
  BY <1>6, <1>7
<1>10. /\ Settle(k) \in LooseConsoles
       /\ Settle(k).text = text
       /\ Settle(k).x = x /\ Settle(k).y = y
       /\ Settle(k).low = Cell(x, y) % BYTE
       /\ Settle(k).high = (Cell(x, y) \div BYTE) % BYTE
       /\ Settle(k).select = "high"
  <2> DEFINE pos == Cell(x, y)
  <2>1. pos \in Nat /\ Settle(k) = SetCursor(settled, pos)
    BY <1>8, <1>9
  <2> HIDE DEF pos
  <2>2. /\ SetCursor(settled, pos) \in LooseConsoles
        /\ SetCursor(settled, pos).text = settled.text
        /\ SetCursor(settled, pos).x = settled.x /\ SetCursor(settled, pos).y = settled.y
        /\ SetCursor(settled, pos).low = pos % BYTE
        /\ SetCursor(settled, pos).high = (pos \div BYTE) % BYTE
        /\ SetCursor(settled, pos).select = "high"
    BY <1>6, <2>1, SetCursorFields
  <2> QED
    BY <1>6, <2>1, <2>2 DEF pos
<1>11. Settle(k) \in Consoles
  BY <1>2, <1>3, <1>10 DEF LooseConsoles, Consoles
<1> QED
  BY <1>3, <1>10, <1>11 DEF x, y, text

\* What an echo keeps of the console.
Keeps(k, j) ==
  /\ j \in Consoles /\ j.x < SCREEN_WIDTH
  /\ k.y < SCREEN_HEIGHT => j.y < SCREEN_HEIGHT
  /\ k.y >= SCREEN_HEIGHT - 1 => j.y >= SCREEN_HEIGHT - 1

LEMMA SettleKeeps ==
  ASSUME NEW k \in Consoles, NEW j \in LooseConsoles,
         \/ j.y = k.y
         \/ j.y = k.y + 1 /\ j.x < SCREEN_WIDTH
  PROVE  Keeps(k, Settle(j))
<1> DEFINE w == IF j.x >= SCREEN_WIDTH THEN j.y + 1 ELSE j.y
<1>1. /\ k.y \in 0 .. SCREEN_HEIGHT /\ j.y \in 0 .. SCREEN_HEIGHT + 1
      /\ SCREEN_HEIGHT \in Nat /\ SCREEN_HEIGHT >= 2
  BY Parameters DEF Consoles, LooseConsoles
<1>2. w \in 0 .. SCREEN_HEIGHT + 1 /\ (w = k.y \/ w = k.y + 1)
  <2>1. CASE j.y = k.y
    BY <1>1, <2>1
  <2>2. CASE j.y = k.y + 1 /\ j.x < SCREEN_WIDTH
    <3>1. w = j.y
      BY <2>2, Parameters DEF LooseConsoles
    <3> QED
      BY <1>1, <2>2, <3>1
  <2> QED
    BY <2>1, <2>2
<1>3. w = IF j.x >= SCREEN_WIDTH THEN j.y + 1 ELSE j.y
  OBVIOUS
<1> HIDE DEF w
<1>4. /\ Settle(j) \in Consoles
      /\ Settle(j).y = IF w >= SCREEN_HEIGHT THEN w - 1 ELSE w
      /\ Settle(j).x \in 0 .. SCREEN_WIDTH - 1
  BY <1>2, <1>3, SettleFields
<1>5. Settle(j).x < SCREEN_WIDTH
  BY <1>4, Parameters
<1> QED
  BY <1>1, <1>2, <1>4, <1>5 DEF Keeps

\* What the switch of putc does to the console k.
Switched(k, c) ==
  IF c = NewLine THEN [k EXCEPT !.x = 0, !.y = @ + 1]
  ELSE IF c = Return THEN [k EXCEPT !.x = 0]
  ELSE [PutChr(k, k.x, k.y, c) EXCEPT !.x = @ + 1]

LEMMA SwitchedFields ==
  ASSUME NEW k \in Consoles, NEW c \in Chars
  PROVE  /\ Switched(k, c) \in LooseConsoles
         /\ Switched(k, c).y = IF c = NewLine THEN k.y + 1 ELSE k.y
         /\ Switched(k, c).x = IF c \in {NewLine, Return} THEN 0 ELSE k.x + 1
         /\ Switched(k, c).text = IF c \in {NewLine, Return} THEN k.text
                                  ELSE [k.text EXCEPT ![Cell(k.x, k.y)] = c]
<1>1. /\ k \in LooseConsoles /\ k.text \in [TextMemory -> Chars]
      /\ k.x \in 0 .. SCREEN_WIDTH /\ k.y \in 0 .. SCREEN_HEIGHT
      /\ SCREEN_WIDTH \in Nat /\ SCREEN_HEIGHT \in Nat
  BY ConsoleIsLoose, Parameters DEF Consoles
<1>2. k.x + 1 \in 0 .. SCREEN_WIDTH + 1 /\ k.y + 1 \in 0 .. SCREEN_HEIGHT + 1
  BY <1>1
<1>3. CASE c = NewLine
  <2>1. Switched(k, c) = [k EXCEPT !.x = 0, !.y = k.y + 1]
    BY <1>1, <1>3 DEF Switched, LooseConsoles
  <2> DEFINE y == k.y + 1
  <2>2. Switched(k, c) = [k EXCEPT !.x = 0, !.y = y] /\ y \in 0 .. SCREEN_HEIGHT + 1
    BY <1>2, <2>1
  <2>3. 0 \in 0 .. SCREEN_WIDTH + 1
    BY <1>1
  <2> HIDE DEF y
  <2>4. /\ Switched(k, c) \in LooseConsoles /\ Switched(k, c).y = y
        /\ Switched(k, c).x = 0 /\ Switched(k, c).text = k.text
    BY <1>1, <2>2, <2>3 DEF LooseConsoles
  <2> QED
    BY <1>3, <2>4 DEF y
<1>4. CASE c # NewLine /\ c = Return
  <2>1. Switched(k, c) = [k EXCEPT !.x = 0]
    BY <1>4 DEF Switched
  <2> QED
    BY <1>1, <1>4, <2>1 DEF LooseConsoles
<1>5. CASE c \notin {NewLine, Return}
  <2> DEFINE text == [k.text EXCEPT ![Cell(k.x, k.y)] = c]
  <2>1. Switched(k, c) = [k EXCEPT !.text = text, !.x = k.x + 1]
    BY <1>1, <1>5 DEF Switched, PutChr, LooseConsoles
  <2>2. text \in [TextMemory -> Chars]
    BY <1>1
  <2> HIDE DEF text
  <2>3. /\ Switched(k, c) \in LooseConsoles /\ Switched(k, c).y = k.y
        /\ Switched(k, c).x = k.x + 1 /\ Switched(k, c).text = text
    BY <1>1, <1>2, <2>1, <2>2 DEF LooseConsoles
  <2> QED
    BY <1>5, <2>3 DEF text
<1> QED
  BY <1>3, <1>4, <1>5

LEMMA PutCharKeeps ==
  ASSUME NEW k \in Consoles, NEW c \in Chars
  PROVE  Keeps(k, PutChar(k, c))
<1>1. PutChar(k, c) = Settle(Switched(k, c))
  BY DEF PutChar, Switched
<1>2. /\ Switched(k, c) \in LooseConsoles
      /\ Switched(k, c).y = IF c = NewLine THEN k.y + 1 ELSE k.y
      /\ Switched(k, c).x = IF c \in {NewLine, Return} THEN 0 ELSE k.x + 1
  BY SwitchedFields
<1>3. 0 < SCREEN_WIDTH
  BY Parameters
<1>4. \/ Switched(k, c).y = k.y
      \/ Switched(k, c).y = k.y + 1 /\ Switched(k, c).x < SCREEN_WIDTH
  BY <1>2, <1>3
<1> QED
  BY <1>1, <1>2, <1>4, SettleKeeps

\* The tab loop, one blank or none at a time.
LEMMA TabLoopSteps ==
  ASSUME NEW k \in Consoles
  PROVE  /\ TabLoop(k)[0] = k
         /\ \A n \in Nat :
              /\ TabLoop(k)[n] \in Consoles
              /\ TabLoop(k)[n + 1] = IF MoreBlanks(n, TabLoop(k)[n].x)
                                     THEN PutChar(TabLoop(k)[n], Space) ELSE TabLoop(k)[n]
<1> DEFINE next(n, v) == IF MoreBlanks(n, v.x) THEN PutChar(v, Space) ELSE v
           step == [a \in Nat \X Consoles |-> next(a[1], a[2])]
           Loop(f) == [n \in Nat |-> IF n = 0 THEN k
                                     ELSE IF MoreBlanks(n - 1, f[n - 1].x)
                                     THEN PutChar(f[n - 1], Space) ELSE f[n - 1]]
<1>1. ASSUME NEW n \in Nat, NEW v \in Consoles PROVE next(n, v) \in Consoles
  BY PutCharKeeps DEF Keeps, Chars
<1> HIDE DEF next
<1>2. step \in Steps(Consoles)
  BY <1>1 DEF Steps
<1>3. PICK g \in [Nat -> Consoles] :
             g[0] = k /\ \A n \in Nat : g[n + 1] = step[<<n, g[n]>>]
  <2> HIDE DEF step
  <2>1. \E g : Iterates(g, Consoles, step, k)
    BY <1>2, Iterated
  <2> QED
    BY <2>1 DEF Iterates
<1>4. ASSUME NEW n \in Nat PROVE g[n + 1] = next(n, g[n])
  BY <1>3
<1> HIDE DEF step
<1>5. ASSUME NEW n \in Nat \ {0} PROVE g[n] = next(n - 1, g[n - 1])
  <2>1. n - 1 \in Nat /\ (n - 1) + 1 = n
    OBVIOUS
  <2> QED
    BY <1>4, <2>1
<1>6. g = Loop(g)
  <2>1. \A n \in Nat : g[n] = Loop(g)[n]
    BY <1>3, <1>5 DEF next
  <2>2. g = [n \in Nat |-> g[n]] /\ Loop(g) = [n \in Nat |-> Loop(g)[n]]
    OBVIOUS
  <2> HIDE DEF Loop
  <2> QED
    BY <2>1, <2>2
<1>7. TabLoop(k) = CHOOSE f : f = Loop(f)
  BY DEF TabLoop
<1> DEFINE c == TabLoop(k)
<1>8. c = Loop(c)
  BY <1>6, <1>7
<1> HIDE DEF c
<1>9. c[0] = k
  BY <1>8
<1>10. ASSUME NEW n \in Nat PROVE c[n + 1] = next(n, c[n])
  <2>1. n + 1 \in Nat /\ n + 1 # 0 /\ (n + 1) - 1 = n
    OBVIOUS
  <2> QED
    BY <1>8, <2>1 DEF next
<1> DEFINE S == {n \in Nat : c[n] \in Consoles}
<1>11. 0 \in S
  BY <1>9
<1>12. ASSUME NEW n \in Nat, n \in S PROVE n + 1 \in S
  BY <1>1, <1>10, <1>12
<1> HIDE DEF S
<1>13. Nat \subseteq S
  BY <1>11, <1>12, Induct
<1>14. \A n \in Nat : c[n] \in Consoles
  BY <1>13 DEF S
<1> QED
  BY <1>9, <1>10, <1>14 DEF c, next

LEMMA FirstBlank ==
  ASSUME NEW x \in Nat
  PROVE  MoreBlanks(0, x)
<1>1. TAB \in Nat \ {0}
  BY Parameters
<1>2. x % TAB \in 0 .. TAB - 1
  BY <1>1, QuotientRemainder
<1> QED
  BY <1>1, <1>2 DEF MoreBlanks

LEMMA TabLoopKeeps ==
  ASSUME NEW k \in Consoles
  PROVE  \A n \in Nat \ {0} : Keeps(k, TabLoop(k)[n])
<1> DEFINE after == TabLoop(k)
           S == {n \in Nat : n # 0 => Keeps(k, after[n])}
<1>1. 0 \in S
  OBVIOUS
<1>2. ASSUME NEW n \in Nat, n \in S PROVE n + 1 \in S
  <2>1. /\ after[0] = k
        /\ after[n] \in Consoles
        /\ after[n + 1] = IF MoreBlanks(n, after[n].x) THEN PutChar(after[n], Space)
                          ELSE after[n]
    BY TabLoopSteps
  <2> HIDE DEF after
  <2>2. Keeps(after[n], PutChar(after[n], Space))
    BY <2>1, PutCharKeeps DEF Chars
  <2>3. CASE n = 0
    <3>1. MoreBlanks(0, k.x)
      BY FirstBlank DEF Consoles
    <3>2. after[n + 1] = PutChar(after[n], Space) /\ after[n] = k
      BY <2>1, <2>3, <3>1
    <3> QED
      BY <2>2, <3>2
  <2>4. CASE n # 0
    <3>1. Keeps(k, after[n])
      BY <1>2, <2>4
    <3>2. Keeps(k, PutChar(after[n], Space))
      <4>1. after[n].y \in Nat /\ PutChar(after[n], Space).y \in Nat /\ SCREEN_HEIGHT \in Nat
        BY <2>1, <2>2, Parameters DEF Keeps, Consoles
      <4> QED
        BY <2>2, <3>1, <4>1 DEF Keeps
    <3> QED
      BY <2>1, <3>1, <3>2
  <2> QED
    BY <2>3, <2>4
<1> HIDE DEF S
<1>3. Nat \subseteq S
  BY <1>1, <1>2, Induct
<1> QED
  BY <1>3 DEF S

LEMMA PutcKeeps ==
  ASSUME NEW k \in Consoles, NEW c \in Chars
  PROVE  Keeps(k, Putc(k, c))
<1>1. CASE c # Tabulator
  BY <1>1, PutCharKeeps DEF Putc
<1>2. CASE c = Tabulator
  <2> DEFINE j == TabLoop(k)[TAB]
  <2>1. Keeps(k, j)
    BY TabLoopKeeps, Parameters
  <2>2. Putc(k, c) = Settle(j)
    BY <1>2 DEF Putc, PutTab
  <2> HIDE DEF j
  <2>3. j \in Consoles /\ j \in LooseConsoles
    BY <2>1, ConsoleIsLoose DEF Keeps
  <2>4. Keeps(j, Settle(j))
    BY <2>3, SettleKeeps
  <2>5. j.y \in Nat /\ Settle(j).y \in Nat /\ SCREEN_HEIGHT \in Nat
    BY <2>3, <2>4, Parameters DEF Keeps, Consoles
  <2> QED
    BY <2>1, <2>2, <2>4, <2>5 DEF Keeps
<1> QED
  BY <1>1, <1>2

-----------------------------------------------------------------------------
LEMMA InitConInv == ConsoleInit => ConInv
<1> SUFFICES ASSUME ConsoleInit PROVE ConInv
  OBVIOUS
<1> USE DEF ConsoleInit
<1>1. /\ SCREEN_WIDTH \in Nat \ {0} /\ SCREEN_HEIGHT \in Nat \ {0}
      /\ TAB \in Nat \ {0} /\ BYTE \in Nat \ {0}
  BY Parameters
<1>2. Nul \in Chars /\ [s \in TextMemory |-> Nul] \in [TextMemory -> Chars]
  BY DEF Chars
<1>3. con \in Consoles
  BY <1>1, <1>2 DEF Consoles
<1>4. DataTypes
  <2>1. mpc \in Places /\ ch \in Chars /\ inTab \in BOOLEAN
    BY <1>2 DEF Places
  <2>2. 0 \in Nat /\ 0 \in 0 .. TAB
    BY <1>1
  <2>3. rx \in Nat /\ ry \in Nat /\ row \in Nat /\ i \in 0 .. TAB
    BY <2>2
  <2> QED
    BY <1>3, <2>1, <2>3 DEF DataTypes
<1>5. Position /\ Registers /\ Blanks
  BY <1>1 DEF Position, Registers, Blanks
<1> QED
  BY <1>4, <1>5 DEF ConInv

\* What ConInv gives every action.
LEMMA ConTypes ==
  ASSUME ConInv
  PROVE  /\ con \in Consoles /\ con.text \in [TextMemory -> Chars]
         /\ con.x \in 0 .. SCREEN_WIDTH /\ con.y \in 0 .. SCREEN_HEIGHT
         /\ ch \in Chars /\ rx \in Nat /\ ry \in Nat /\ row \in Nat
         /\ i \in 0 .. TAB /\ inTab \in BOOLEAN
         /\ SCREEN_WIDTH \in Nat \ {0} /\ SCREEN_HEIGHT \in Nat \ {0} /\ SCREEN_HEIGHT >= 2
BY Parameters DEF ConInv, DataTypes, Consoles

LEMMA CallInv ==
  ASSUME ConInv, NEW c \in Printed, CallPutc(c)
  PROVE  ConInv'
<1>1. c \in Chars
  BY DEF Chars
<1>2. DataTypes'
  BY <1>1 DEF ConInv, DataTypes, CallPutc, Goto, mainRegs, tabVars, Branch, Places, InPutc
<1>3. Position' /\ Registers' /\ Blanks'
  BY ConTypes DEF ConInv, Position, Registers, Blanks, CallPutc, Goto, mainRegs, tabVars,
                  Branch, InPutc
<1> QED
  BY <1>2, <1>3 DEF ConInv

LEMMA ClearInv == ConInv /\ Clear => ConInv'
<1> SUFFICES ASSUME ConInv, Clear PROVE ConInv'
  OBVIOUS
<1>1. DataTypes'
  BY DEF ConInv, DataTypes, Clear, Goto, tabVars, Places
<1>2. Position' /\ Registers' /\ Blanks'
  BY ConTypes DEF ConInv, Position, Registers, Blanks, Clear, Goto, tabVars, InPutc
<1> QED
  BY <1>1, <1>2 DEF ConInv

LEMMA EchoInv ==
  ASSUME ConInv, NEW c \in Echoed, Echo(c)
  PROVE  ConInv'
<1>1. Keeps(con, con')
  BY ConTypes, PutcKeeps DEF Echo, Chars
<1>2. con' \in Consoles /\ con'.x \in 0 .. SCREEN_WIDTH /\ con'.y \in 0 .. SCREEN_HEIGHT
  BY <1>1 DEF Keeps, Consoles
<1>3. DataTypes'
  BY <1>2 DEF ConInv, DataTypes, Echo, mainRegs, tabVars
<1>4. Position'
  BY <1>1, <1>2, ConTypes DEF Keeps, ConInv, Position, Echo
<1>5. Registers' /\ Blanks'
  BY DEF ConInv, Registers, Blanks, Echo, mainRegs, tabVars
<1> QED
  BY <1>3, <1>4, <1>5 DEF ConInv

-----------------------------------------------------------------------------
(***************************************************************************)
(* Every step of the main line keeps ConInv.                               *)
(***************************************************************************)
\* The stores of the main line.
LEMMA StoreX ==
  ASSUME NEW k \in Consoles, NEW x \in 0 .. SCREEN_WIDTH
  PROVE  LET j == [k EXCEPT !.x = x] IN j \in Consoles /\ j.x = x /\ j.y = k.y
BY DEF Consoles

LEMMA StoreY ==
  ASSUME NEW k \in Consoles, NEW y \in 0 .. SCREEN_HEIGHT
  PROVE  LET j == [k EXCEPT !.y = y] IN j \in Consoles /\ j.x = k.x /\ j.y = y
BY DEF Consoles

LEMMA StoreText ==
  ASSUME NEW k \in Consoles, NEW text \in [TextMemory -> Chars]
  PROVE  LET j == [k EXCEPT !.text = text] IN j \in Consoles /\ j.x = k.x /\ j.y = k.y
BY DEF Consoles

LEMMA PutChrStore ==
  ASSUME NEW k \in Consoles, NEW x, NEW y, NEW c \in Chars
  PROVE  PutChr(k, x, y, c) \in Consoles /\ PutChr(k, x, y, c).x = k.x
         /\ PutChr(k, x, y, c).y = k.y
<1> DEFINE text == [k.text EXCEPT ![Cell(x, y)] = c]
<1>1. k.text \in [TextMemory -> Chars]
  BY DEF Consoles
<1>2. text \in [TextMemory -> Chars]
  BY <1>1
<1>3. PutChr(k, x, y, c) = [k EXCEPT !.text = text]
  BY DEF PutChr, Consoles
<1> HIDE DEF text
<1> QED
  BY <1>2, <1>3, StoreText

\* The columns stored by the main line and its echoes.
LEMMA StepTypes ==
  ASSUME ConInv, con' \in Consoles, mpc' \in Places, ch' = ch,
         rx' \in Nat, ry' \in Nat, row' \in Nat, i' \in 0 .. TAB, inTab' \in BOOLEAN
  PROVE  DataTypes'
BY DEF ConInv, DataTypes

LEMMA SwitchInv == ConInv /\ SwitchStep => ConInv'
<1> SUFFICES ASSUME ConInv, SwitchStep PROVE ConInv'
  OBVIOUS
<1> USE ConTypes
<1>1. ch' = ch /\ row' = row /\ i' = i /\ inTab' = inTab
  BY DEF SwitchStep, tabVars
<1>2. CASE Goto("newline", "newlineY") /\ SetX(0)
  <2>1. con' \in Consoles /\ con'.x = 0 /\ con'.y = con.y
    BY <1>2, StoreX DEF SetX
  <2>2. DataTypes'
    BY <1>1, <1>2, <2>1, StepTypes DEF SetX, Goto, Places
  <2>3. Position' /\ Registers' /\ Blanks'
    BY <1>1, <1>2, <2>1 DEF SetX, Goto, ConInv, Position, Registers, Blanks, InPutc
  <2> QED
    BY <2>2, <2>3 DEF ConInv
<1>3. CASE Goto("newlineY", "newlineInc") /\ LoadY
  <2>1. DataTypes'
    BY <1>1, <1>3, StepTypes DEF LoadY, Goto, Places
  <2>2. Position' /\ Registers' /\ Blanks'
    BY <1>1, <1>3 DEF LoadY, Goto, ConInv, Position, Registers, Blanks, InPutc
  <2> QED
    BY <2>1, <2>2 DEF ConInv
<1>4. CASE Goto("newlineInc", "testX") /\ SetY(ry + 1)
  <2>1. ry + 1 \in 0 .. SCREEN_HEIGHT
    BY <1>4 DEF Goto, ConInv, Registers
  <2>2. con' \in Consoles /\ con'.x = con.x /\ con'.y = ry + 1
    BY <1>4, <2>1, StoreY DEF SetY
  <2>3. DataTypes'
    BY <1>1, <1>4, <2>2, StepTypes DEF SetY, Goto, Places, InPutc
  <2>4. Position' /\ Registers' /\ Blanks'
    BY <1>1, <1>4, <2>2 DEF SetY, Goto, ConInv, Position, Registers, Blanks, InPutc
  <2> QED
    BY <2>3, <2>4 DEF ConInv
<1>5. CASE Goto("return", "testX") /\ SetX(0)
  <2>1. con' \in Consoles /\ con'.x = 0 /\ con'.y = con.y
    BY <1>5, StoreX DEF SetX
  <2>2. DataTypes'
    BY <1>1, <1>5, <2>1, StepTypes DEF SetX, Goto, Places, InPutc
  <2>3. Position' /\ Registers' /\ Blanks'
    BY <1>1, <1>5, <2>1 DEF SetX, Goto, ConInv, Position, Registers, Blanks, InPutc
  <2> QED
    BY <2>2, <2>3 DEF ConInv
<1>6. CASE Goto("argY", "argX") /\ LoadY
  <2>1. DataTypes'
    BY <1>1, <1>6, StepTypes DEF LoadY, Goto, Places, InPutc
  <2>2. Position' /\ Registers' /\ Blanks'
    BY <1>1, <1>6 DEF LoadY, Goto, ConInv, Position, Registers, Blanks, InPutc
  <2> QED
    BY <2>1, <2>2 DEF ConInv
<1>7. CASE Goto("argX", "putchr") /\ LoadX
  <2>1. DataTypes'
    BY <1>1, <1>7, StepTypes DEF LoadX, Goto, Places, InPutc
  <2>2. Position' /\ Registers' /\ Blanks'
    BY <1>1, <1>7 DEF LoadX, Goto, ConInv, Position, Registers, Blanks, InPutc
  <2> QED
    BY <2>1, <2>2 DEF ConInv
<1>8. CASE /\ Goto("putchr", "loadX")
           /\ con' = PutChr(con, rx, ry, IF inTab THEN Space ELSE ch)
           /\ UNCHANGED <<rx, ry>>
  <2>1. con' \in Consoles /\ con'.x = con.x /\ con'.y = con.y
    BY <1>8, PutChrStore DEF Chars
  <2>2. DataTypes'
    BY <1>1, <1>8, <2>1, StepTypes DEF Goto, Places, InPutc
  <2>3. Position' /\ Registers' /\ Blanks'
    BY <1>1, <1>8, <2>1 DEF Goto, ConInv, Position, Registers, Blanks, InPutc
  <2> QED
    BY <2>2, <2>3 DEF ConInv
<1>9. CASE Goto("loadX", "incX") /\ LoadX
  <2>1. DataTypes'
    BY <1>1, <1>9, StepTypes DEF LoadX, Goto, Places, InPutc
  <2>2. Position' /\ Registers' /\ Blanks'
    BY <1>1, <1>9 DEF LoadX, Goto, ConInv, Position, Registers, Blanks, InPutc
  <2> QED
    BY <2>1, <2>2 DEF ConInv
<1>10. CASE Goto("incX", "testX") /\ SetX(rx + 1)
  <2>1. rx + 1 \in 0 .. SCREEN_WIDTH
    BY <1>10 DEF Goto, ConInv, Registers
  <2>2. con' \in Consoles /\ con'.x = rx + 1 /\ con'.y = con.y
    BY <1>10, <2>1, StoreX DEF SetX
  <2>3. DataTypes'
    BY <1>1, <1>10, <2>2, StepTypes DEF SetX, Goto, Places, InPutc
  <2>4. Position' /\ Registers' /\ Blanks'
    BY <1>1, <1>10, <2>2 DEF SetX, Goto, ConInv, Position, Registers, Blanks, InPutc
  <2> QED
    BY <2>3, <2>4 DEF ConInv
<1> QED
  BY <1>2, <1>3, <1>4, <1>5, <1>6, <1>7, <1>8, <1>9, <1>10 DEF SwitchStep

LEMMA TabInv == ConInv /\ TabStep => ConInv'
<1> SUFFICES ASSUME ConInv, TabStep PROVE ConInv'
  OBVIOUS
<1> USE ConTypes
<1>1. inTab' \in BOOLEAN /\ (inTab' => i < TAB)
  <2>1. inTab' = MoreBlanks(i, con.x)
    BY DEF TabStep
  <2>2. con.x % TAB \in 0 .. TAB - 1 /\ TAB \in Nat
    <3>1. con.x \in Nat /\ TAB \in Nat \ {0}
      BY Parameters
    <3> QED
      BY <3>1, QuotientRemainder
  <2>3. MoreBlanks(i, con.x) \in BOOLEAN
    BY DEF MoreBlanks
  <2>4. MoreBlanks(i, con.x) => i < TAB
    BY <2>2 DEF MoreBlanks
  <2> QED
    BY <2>1, <2>3, <2>4
<1>2. DataTypes'
  BY <1>1, StepTypes DEF TabStep, mainRegs, Places, InPutc
<1>3. Position' /\ Registers' /\ Blanks'
  BY <1>1 DEF TabStep, mainRegs, ConInv, Position, Registers, Blanks, InPutc
<1> QED
  BY <1>2, <1>3 DEF ConInv

LEMMA WrapInv == ConInv /\ WrapStep => ConInv'
<1> SUFFICES ASSUME ConInv, WrapStep PROVE ConInv'
  OBVIOUS
<1> USE ConTypes
<1>1. ch' = ch /\ row' = row /\ i' = i /\ inTab' = inTab
  BY DEF WrapStep, tabVars
<1>2. CASE /\ mpc = "testX" /\ mpc' = (IF con.x >= SCREEN_WIDTH THEN "wrapY" ELSE "testY")
           /\ UNCHANGED <<con, rx, ry>>
  <2>1. DataTypes'
    BY <1>1, <1>2, StepTypes DEF Places, InPutc
  <2>2. Position' /\ Registers' /\ Blanks'
    BY <1>1, <1>2 DEF ConInv, Position, Registers, Blanks, InPutc
  <2> QED
    BY <2>1, <2>2 DEF ConInv
<1>3. CASE Goto("wrapY", "wrapInc") /\ LoadY
  <2>1. DataTypes'
    BY <1>1, <1>3, StepTypes DEF LoadY, Goto, Places, InPutc
  <2>2. Position' /\ Registers' /\ Blanks'
    BY <1>1, <1>3 DEF LoadY, Goto, ConInv, Position, Registers, Blanks, InPutc
  <2> QED
    BY <2>1, <2>2 DEF ConInv
<1>4. CASE Goto("wrapInc", "wrapX") /\ SetY(ry + 1)
  <2>1. ry + 1 \in 0 .. SCREEN_HEIGHT
    BY <1>4 DEF Goto, ConInv, Registers
  <2>2. con' \in Consoles /\ con'.x = con.x /\ con'.y = ry + 1
    BY <1>4, <2>1, StoreY DEF SetY
  <2>3. DataTypes'
    BY <1>1, <1>4, <2>2, StepTypes DEF SetY, Goto, Places, InPutc
  <2>4. Position' /\ Registers' /\ Blanks'
    BY <1>1, <1>4, <2>2 DEF SetY, Goto, ConInv, Position, Registers, Blanks, InPutc
  <2> QED
    BY <2>3, <2>4 DEF ConInv
<1>5. CASE Goto("wrapX", "testY") /\ SetX(0)
  <2>1. con' \in Consoles /\ con'.x = 0 /\ con'.y = con.y
    BY <1>5, StoreX DEF SetX
  <2>2. DataTypes'
    BY <1>1, <1>5, <2>1, StepTypes DEF SetX, Goto, Places, InPutc
  <2>3. Position' /\ Registers' /\ Blanks'
    BY <1>1, <1>5, <2>1 DEF SetX, Goto, ConInv, Position, Registers, Blanks, InPutc
  <2> QED
    BY <2>2, <2>3 DEF ConInv
<1> QED
  BY <1>2, <1>3, <1>4, <1>5 DEF WrapStep

LEMMA TestYInv == ConInv /\ TestY => ConInv'
<1> SUFFICES ASSUME ConInv, TestY PROVE ConInv'
  OBVIOUS
<1> USE ConTypes
<1>1. DataTypes'
  BY StepTypes DEF TestY, tabVars, Places, InPutc
<1>2. Position' /\ Registers' /\ Blanks'
  BY DEF TestY, tabVars, ConInv, Position, Registers, Blanks, InPutc
<1> QED
  BY <1>1, <1>2 DEF ConInv

\* A row replaced by one of characters.
LEMMA SetRowStore ==
  ASSUME NEW y, NEW chars \in [1 .. SCREEN_WIDTH -> Chars], con \in Consoles, SetRow(y, chars)
  PROVE  con' \in Consoles /\ con'.x = con.x /\ con'.y = con.y
<1> DEFINE text == [s \in TextMemory |-> IF s \div SCREEN_WIDTH = y
                      THEN chars[(s % SCREEN_WIDTH) + 1] ELSE con.text[s]]
<1>1. ASSUME NEW s \in TextMemory PROVE (s % SCREEN_WIDTH) + 1 \in 1 .. SCREEN_WIDTH
  <2>1. s % SCREEN_WIDTH \in 0 .. SCREEN_WIDTH - 1
    BY MemoryPlace, PlaceCell
  <2> QED
    BY <2>1, Parameters
<1>2. con.text \in [TextMemory -> Chars]
  BY DEF Consoles
<1>3. text \in [TextMemory -> Chars]
  BY <1>1, <1>2
<1>4. con' = [con EXCEPT !.text = text]
  BY DEF SetRow, Consoles
<1> HIDE DEF text
<1> QED
  BY <1>3, <1>4, StoreText

LEMMA RowType ==
  ASSUME con \in Consoles, NEW y \in 0 .. SCREEN_HEIGHT + 1
  PROVE  RowAt(y) \in [1 .. SCREEN_WIDTH -> Chars]
<1>1. ASSUME NEW x \in 1 .. SCREEN_WIDTH PROVE con.text[Cell(x - 1, y)] \in Chars
  <2>1. x - 1 \in 0 .. SCREEN_WIDTH - 1
    BY Parameters
  <2>2. Cell(x - 1, y) \in TextMemory
    BY <2>1, InMemory
  <2> QED
    BY <2>2 DEF Consoles
<1> QED
  BY <1>1 DEF RowAt

LEMMA BlankType == Blank \in [1 .. SCREEN_WIDTH -> Chars]
BY DEF Blank, Chars

LEMMA ScrollRowInv == ConInv /\ ScrollRow => ConInv'
<1> SUFFICES ASSUME ConInv, ScrollRow PROVE ConInv'
  OBVIOUS
<1> USE ConTypes
<1>1. mpc = "scroll" /\ ch' = ch /\ rx' = rx /\ ry' = ry /\ i' = i /\ inTab' = inTab
  BY DEF ScrollRow, tabVars
<1>2. row \in 1 .. SCREEN_HEIGHT
  BY <1>1 DEF ConInv, Registers
<1>3. con' \in Consoles /\ con'.x = con.x /\ con'.y = con.y
  <2>1. CASE row < SCREEN_HEIGHT
    <3>1. row \in 0 .. SCREEN_HEIGHT + 1
      BY <1>2
    <3>2. RowAt(row) \in [1 .. SCREEN_WIDTH -> Chars]
      BY <3>1, RowType
    <3> QED
      BY <2>1, <3>2, SetRowStore DEF ScrollRow
  <2>2. CASE ~(row < SCREEN_HEIGHT)
    BY <2>2, BlankType, SetRowStore DEF ScrollRow
  <2> QED
    BY <2>1, <2>2
<1>4. \/ row < SCREEN_HEIGHT /\ row' = row + 1 /\ mpc' = "scroll"
      \/ row' = 0 /\ mpc' = "scrollY"
  BY <1>1 DEF ScrollRow
<1>5. DataTypes'
  BY <1>1, <1>2, <1>3, <1>4, StepTypes DEF Places, InPutc
<1>6. Position' /\ Registers' /\ Blanks'
  BY <1>1, <1>2, <1>3, <1>4 DEF ConInv, Position, Registers, Blanks, InPutc
<1> QED
  BY <1>5, <1>6 DEF ConInv

LEMMA ScrollYInv == ConInv /\ ScrollY => ConInv'
<1> SUFFICES ASSUME ConInv, ScrollY PROVE ConInv'
  OBVIOUS
<1> USE ConTypes
<1>1. ch' = ch /\ row' = row /\ i' = i /\ inTab' = inTab
  BY DEF ScrollY, tabVars
<1>2. CASE Goto("scrollY", "scrollDec") /\ LoadY
  <2>1. DataTypes'
    BY <1>1, <1>2, StepTypes DEF LoadY, Goto, Places, InPutc
  <2>2. Position' /\ Registers' /\ Blanks'
    BY <1>1, <1>2 DEF LoadY, Goto, ConInv, Position, Registers, Blanks, InPutc
  <2> QED
    BY <2>1, <2>2 DEF ConInv
<1>3. CASE Goto("scrollDec", "cursorY") /\ SetY(ry - 1)
  <2>1. ry - 1 \in 0 .. SCREEN_HEIGHT - 1 /\ ry - 1 \in 0 .. SCREEN_HEIGHT
    BY <1>3 DEF Goto, ConInv, Registers
  <2>2. con' \in Consoles /\ con'.x = con.x /\ con'.y = ry - 1
    BY <1>3, <2>1, StoreY DEF SetY
  <2>3. DataTypes'
    BY <1>1, <1>3, <2>2, StepTypes DEF SetY, Goto, Places, InPutc
  <2>4. Position' /\ Registers' /\ Blanks'
    BY <1>1, <1>3, <2>1, <2>2 DEF SetY, Goto, ConInv, Position, Registers, Blanks, InPutc
  <2> QED
    BY <2>3, <2>4 DEF ConInv
<1> QED
  BY <1>2, <1>3 DEF ScrollY

LEMMA ClearRowInv == ConInv /\ ClearRow => ConInv'
<1> SUFFICES ASSUME ConInv, ClearRow PROVE ConInv'
  OBVIOUS
<1> USE ConTypes
<1>1. mpc = "clear" /\ ch' = ch /\ rx' = rx /\ ry' = ry /\ i' = i /\ inTab' = inTab
  BY DEF ClearRow, tabVars
<1>2. con' \in Consoles /\ con'.x = con.x /\ con'.y = con.y
  <2>1. CASE row < SCREEN_HEIGHT
    BY <2>1, BlankType, SetRowStore DEF ClearRow
  <2>2. CASE ~(row < SCREEN_HEIGHT)
    BY <2>2 DEF ClearRow
  <2> QED
    BY <2>1, <2>2
<1>3. \/ row < SCREEN_HEIGHT /\ row' = row + 1 /\ mpc' = "clear"
      \/ row' = 0 /\ mpc' = "clearX"
  BY <1>1 DEF ClearRow
<1>4. DataTypes'
  BY <1>1, <1>2, <1>3, StepTypes DEF Places
<1>5. Position' /\ Registers' /\ Blanks'
  BY <1>1, <1>2, <1>3 DEF ConInv, Position, Registers, Blanks, InPutc
<1> QED
  BY <1>4, <1>5 DEF ConInv

LEMMA ClearXYInv == ConInv /\ ClearXY => ConInv'
<1> SUFFICES ASSUME ConInv, ClearXY PROVE ConInv'
  OBVIOUS
<1> USE ConTypes
<1>1. ch' = ch /\ row' = row /\ i' = i /\ inTab' = inTab
  BY DEF ClearXY, tabVars
<1>2. CASE Goto("clearX", "clearY") /\ SetX(0)
  <2>1. con' \in Consoles /\ con'.x = 0 /\ con'.y = con.y
    BY <1>2, StoreX DEF SetX
  <2>2. DataTypes'
    BY <1>1, <1>2, <2>1, StepTypes DEF SetX, Goto, Places
  <2>3. Position' /\ Registers' /\ Blanks'
    BY <1>1, <1>2, <2>1 DEF SetX, Goto, ConInv, Position, Registers, Blanks, InPutc
  <2> QED
    BY <2>2, <2>3 DEF ConInv
<1>3. CASE Goto("clearY", "cursorY") /\ SetY(0)
  <2>1. con' \in Consoles /\ con'.x = con.x /\ con'.y = 0
    BY <1>3, StoreY DEF SetY
  <2>2. DataTypes'
    BY <1>1, <1>3, <2>1, StepTypes DEF SetY, Goto, Places, InPutc
  <2>3. Position' /\ Registers' /\ Blanks'
    BY <1>1, <1>3, <2>1 DEF SetY, Goto, ConInv, Position, Registers, Blanks, InPutc
  <2> QED
    BY <2>2, <2>3 DEF ConInv
<1> QED
  BY <1>2, <1>3 DEF ClearXY

LEMMA HalfTypes ==
  ASSUME NEW pos \in Nat
  PROVE  /\ pos % BYTE \in 0 .. BYTE - 1
         /\ pos \div BYTE \in Nat
         /\ (pos \div BYTE) % BYTE \in 0 .. BYTE - 1
<1>1. BYTE \in Nat \ {0}
  BY Parameters
<1>2. pos % BYTE \in 0 .. BYTE - 1 /\ pos \div BYTE \in Nat
  BY <1>1, QuotientRemainder
<1> QED
  BY <1>1, <1>2, QuotientRemainder

LEMMA CrtcStore ==
  ASSUME con \in Consoles, NEW byte \in 0 .. BYTE - 1, CrtcData(byte)
  PROVE  con' \in Consoles /\ con'.x = con.x /\ con'.y = con.y
BY DEF CrtcData, Consoles

LEMMA CursorInv == ConInv /\ CursorStep => ConInv'
<1> SUFFICES ASSUME ConInv, CursorStep PROVE ConInv'
  OBVIOUS
<1> USE ConTypes
<1>1. ch' = ch /\ row' = row
  BY DEF CursorStep
<1>2. con' \in Consoles /\ con'.x = con.x /\ con'.y = con.y
  <2>1. CASE con' = con
    BY <2>1
  <2>2. ASSUME NEW select \in {"low", "high"}, con' = [con EXCEPT !.select = select]
        PROVE  con' \in Consoles /\ con'.x = con.x /\ con'.y = con.y
    BY <2>2 DEF Consoles
  <2>3. Cell(rx, ry) \in Nat
    BY CellType
  <2>4. CASE CrtcData(Cell(rx, ry) % BYTE)
    BY <2>3, <2>4, HalfTypes, CrtcStore
  <2>5. CASE CrtcData((Cell(rx, ry) \div BYTE) % BYTE)
    BY <2>3, <2>5, HalfTypes, CrtcStore
  <2> QED
    BY <2>1, <2>2, <2>4, <2>5 DEF CursorStep, LoadX, LoadY
<1>3. \/ rx' = rx /\ ry' = con.y
      \/ rx' = con.x /\ ry' = ry
      \/ rx' = rx /\ ry' = ry
      \/ rx' = 0 /\ ry' = 0
  BY DEF CursorStep, LoadX, LoadY
<1>4. \/ /\ i' = i /\ inTab' = inTab
         /\ \/ mpc = "cursorY" /\ mpc' = "cursorX"
            \/ mpc = "cursorX" /\ mpc' = "selectLow"
            \/ mpc = "selectLow" /\ mpc' = "writeLow"
            \/ mpc = "writeLow" /\ mpc' = "selectHigh"
            \/ mpc = "selectHigh" /\ mpc' = "writeHigh"
      \/ /\ mpc = "writeHigh" /\ mpc' = (IF inTab THEN "tab" ELSE "idle")
         /\ i' = (IF inTab THEN i + 1 ELSE 0) /\ inTab' = FALSE
  BY DEF CursorStep, Goto, tabVars
<1>5. rx' \in Nat /\ ry' \in Nat
  BY <1>3
<1>6. i' \in 0 .. TAB
  BY <1>4, Parameters DEF ConInv, Blanks
<1>7. DataTypes'
  BY <1>1, <1>2, <1>4, <1>5, <1>6, StepTypes DEF Places, InPutc
<1>8. Position' /\ Registers' /\ Blanks'
  BY <1>1, <1>2, <1>4 DEF ConInv, Position, Registers, Blanks, InPutc
<1> QED
  BY <1>7, <1>8 DEF ConInv

LEMMA NextConInv == ConInv /\ [ConsoleNext]_conVars => ConInv'
<1> SUFFICES ASSUME ConInv, [ConsoleNext]_conVars PROVE ConInv'
  OBVIOUS
<1>1. CASE UNCHANGED conVars
  BY <1>1 DEF conVars, mainRegs, tabVars, ConInv, DataTypes, Position, Registers, Blanks
<1>2. CASE MainStep
  BY <1>2, SwitchInv, TabInv, WrapInv, TestYInv, ScrollRowInv, ScrollYInv, ClearRowInv,
     ClearXYInv, CursorInv DEF MainStep
<1> QED
  BY <1>1, <1>2, CallInv, ClearInv, EchoInv DEF ConsoleNext

\* The invariant behind the properties below.
LEMMA ConInvHolds == ConsoleSpec => []ConInv
<1> QED
  BY InitConInv, NextConInv, PTL DEF ConsoleSpec

\* ConsoleTypeOK of every state.
THEOREM ConsoleTypeCorrect == ConsoleSpec => []ConsoleTypeOK
<1>1. ConInv => ConsoleTypeOK
  BY ConTypes DEF ConsoleTypeOK, Consoles
<1> QED
  BY <1>1, ConInvHolds, PTL

\* No store of putc or clrscr, the main line's or the echo's, leaves the text memory.
THEOREM StaysInTextMemory == ConsoleSpec => []InTextMemory
<1>1. ConInv => InTextMemory
  <2> SUFFICES ASSUME ConInv PROVE InTextMemory
    OBVIOUS
  <2> USE ConTypes
  <2>1. Cell(con.x, con.y) \in TextMemory
    <3>1. CASE con.x = SCREEN_WIDTH
      <4>1. Cell(con.x, con.y) = Cell(0, con.y + 1)
        BY <3>1, EndOfRow
      <4>2. con.y + 1 \in 0 .. SCREEN_HEIGHT + 1 /\ 0 \in 0 .. SCREEN_WIDTH - 1
        OBVIOUS
      <4> QED
        BY <4>1, <4>2, InMemory
    <3>2. CASE con.x # SCREEN_WIDTH
      <4>1. con.x \in 0 .. SCREEN_WIDTH - 1 /\ con.y \in 0 .. SCREEN_HEIGHT + 1
        BY <3>2
      <4> QED
        BY <4>1, InMemory
    <3> QED
      BY <3>1, <3>2
  <2>2. ASSUME mpc = "putchr" PROVE Cell(rx, ry) \in TextMemory
    <3>1. rx \in 0 .. SCREEN_WIDTH - 1 /\ ry \in 0 .. SCREEN_HEIGHT + 1
      BY <2>2 DEF ConInv, Registers
    <3> QED
      BY <3>1, InMemory
  <2> QED
    BY <2>1, <2>2 DEF InTextMemory
<1> QED
  BY <1>1, ConInvHolds, PTL

\* Between two calls the position is on the screen.
THEOREM CursorComesBack == ConsoleSpec => []CursorOnScreen
<1>1. ConInv => CursorOnScreen
  BY ConTypes DEF ConInv, Position, CursorOnScreen
<1> QED
  BY <1>1, ConInvHolds, PTL

Row == [1 .. SCREEN_WIDTH -> Chars]

LEMMA TerminalTypes ==
  ASSUME NEW t \in Terminals
  PROVE  /\ t.rows \in Seq(Row) /\ Len(t.rows) \in 1 .. SCREEN_HEIGHT
         /\ t.col \in 0 .. SCREEN_WIDTH - 1
         /\ t = [rows |-> t.rows, col |-> t.col]
         /\ t # Mixed
BY DEF Terminals, Row, Mixed

LEMMA TerminalOf ==
  ASSUME NEW rows \in Seq(Row), Len(rows) \in 1 .. SCREEN_HEIGHT,
         NEW col \in 0 .. SCREEN_WIDTH - 1
  PROVE  [rows |-> rows, col |-> col] \in Terminals
BY DEF Terminals, Row

\* The two halves of the cursor's position.
LEMMA Halves ==
  ASSUME NEW b \in Nat \ {0}, NEW pos \in Nat, pos < b * b
  PROVE  /\ (pos \div b) % b = pos \div b
         /\ (pos \div b) * b + (pos % b) = pos
<1>1. /\ pos = (pos \div b) * b + (pos % b)
      /\ pos \div b \in Nat /\ pos % b \in 0 .. b - 1
  BY QuotientRemainder
<1> DEFINE q == pos \div b
<1>2. q < b
  <2> SUFFICES ASSUME b <= q PROVE FALSE
    BY <1>1
  <2> HIDE DEF q
  <2>1. q \in Nat /\ pos = q * b + (pos % b) /\ pos % b \in 0 .. b - 1
    BY <1>1 DEF q
  <2>2. b * b <= q * b
    BY <2>1, SMT
  <2>3. b * b \in Nat /\ q * b \in Nat
    BY <2>1
  <2> QED
    BY <2>1, <2>2, <2>3
<1>3. q = 0 * b + q /\ q \in 0 .. b - 1
  BY <1>1, <1>2
<1>4. q % b = q
  BY <1>1, <1>2, SMT
<1> QED
  BY <1>1, <1>4

LEMMA CursorHalves ==
  ASSUME NEW x \in 0 .. SCREEN_WIDTH - 1, NEW y \in 0 .. SCREEN_HEIGHT - 1
  PROVE  /\ (Cell(x, y) \div BYTE) % BYTE = Cell(x, y) \div BYTE
         /\ (Cell(x, y) \div BYTE) * BYTE + (Cell(x, y) % BYTE) = Cell(x, y)
<1>1. BYTE \in Nat \ {0} /\ SCREEN_HEIGHT \in Nat /\ Cell(0, SCREEN_HEIGHT) <= BYTE * BYTE
  BY Parameters
<1>2. /\ y \in Nat /\ y < SCREEN_HEIGHT
      /\ Cell(x, y) \in Nat /\ Cell(x, y) \div SCREEN_WIDTH = y
  BY <1>1, CellPlace
<1>3. Cell(x, y) < Cell(0, SCREEN_HEIGHT)
  BY <1>1, <1>2, RowsBelow
<1>4. Cell(0, SCREEN_HEIGHT) \in Nat /\ BYTE * BYTE \in Nat
  BY <1>1, CellType
<1>5. Cell(x, y) < BYTE * BYTE
  BY <1>1, <1>2, <1>3, <1>4
<1> QED
  BY <1>1, <1>2, <1>5, Halves

-----------------------------------------------------------------------------
(***************************************************************************)
(* putc without an echo shows what the terminal does.                      *)
(***************************************************************************)
LEMMA ScreenPlaces ==
  ASSUME NEW y \in 1 .. SCREEN_HEIGHT, NEW x \in 1 .. SCREEN_WIDTH
  PROVE  /\ x - 1 \in 0 .. SCREEN_WIDTH - 1 /\ y - 1 \in 0 .. SCREEN_HEIGHT - 1
         /\ y - 1 \in Nat
         /\ Cell(x - 1, y - 1) \in TextMemory
<1>1. x - 1 \in 0 .. SCREEN_WIDTH - 1 /\ y - 1 \in 0 .. SCREEN_HEIGHT - 1 /\ y - 1 \in Nat
      /\ y - 1 \in 0 .. SCREEN_HEIGHT + 1
  BY Parameters
<1> QED
  BY <1>1, InMemory

LEMMA ScrolledShows ==
  ASSUME NEW text \in [TextMemory -> Chars], NEW rows \in Seq(Row),
         Len(rows) = SCREEN_HEIGHT, TextShows(text, rows)
  PROVE  TextShows(ScrolledText(text), Tail(Append(rows, Blank)))
<1> DEFINE next == Tail(Append(rows, Blank))
<1>1. SCREEN_HEIGHT \in Nat \ {0} /\ SCREEN_HEIGHT - 1 \in Nat /\ Blank \in Row
  BY Parameters, BlankType DEF Row
<1>2. /\ Len(next) = SCREEN_HEIGHT
      /\ \A y \in 1 .. SCREEN_HEIGHT - 1 : next[y] = rows[y + 1]
      /\ next[SCREEN_HEIGHT] = Blank
  BY <1>1
<1> HIDE DEF next
<1> SUFFICES ASSUME NEW y \in 1 .. SCREEN_HEIGHT, NEW x \in 1 .. SCREEN_WIDTH
             PROVE  ScrolledText(text)[Cell(x - 1, y - 1)] = next[y][x]
  BY <1>2 DEF TextShows, next
<1> DEFINE s == Cell(x - 1, y - 1)
<1>3. /\ x - 1 \in 0 .. SCREEN_WIDTH - 1 /\ y - 1 \in Nat /\ s \in TextMemory
  BY ScreenPlaces
<1>4. /\ s \in Nat /\ s \div SCREEN_WIDTH = y - 1
      /\ s + SCREEN_WIDTH = Cell(x - 1, (y - 1) + 1)
  BY <1>3, CellPlace
<1>5. /\ s < Cell(0, SCREEN_HEIGHT - 1) <=> y - 1 < SCREEN_HEIGHT - 1
      /\ s < Cell(0, SCREEN_HEIGHT) <=> y - 1 < SCREEN_HEIGHT
  BY <1>1, <1>4, RowsBelow
<1> HIDE DEF s
<1>6. ScrolledText(text)[s] = IF s < Cell(0, SCREEN_HEIGHT - 1) THEN text[s + SCREEN_WIDTH]
                              ELSE IF s < Cell(0, SCREEN_HEIGHT) THEN Nul ELSE text[s]
  BY <1>3 DEF ScrolledText
<1>7. CASE y < SCREEN_HEIGHT
  <2>1. (y - 1) + 1 = (y + 1) - 1 /\ y + 1 \in 1 .. SCREEN_HEIGHT /\ y \in 1 .. SCREEN_HEIGHT - 1
    BY <1>1, <1>7
  <2>2. ScrolledText(text)[s] = text[Cell(x - 1, (y + 1) - 1)]
    BY <1>1, <1>4, <1>5, <1>6, <1>7, <2>1
  <2>3. text[Cell(x - 1, (y + 1) - 1)] = rows[y + 1][x]
    BY <1>1, <2>1 DEF TextShows
  <2> QED
    BY <1>2, <2>1, <2>2, <2>3 DEF s
<1>8. CASE y = SCREEN_HEIGHT
  <2>1. ScrolledText(text)[s] = Nul
    BY <1>1, <1>5, <1>6, <1>8
  <2>2. next[y][x] = Nul
    BY <1>2, <1>8 DEF Blank
  <2> QED
    BY <2>1, <2>2 DEF s
<1> QED
  BY <1>7, <1>8

LEMMA AppendShows ==
  ASSUME NEW text, NEW rows \in Seq(Row), Len(rows) < SCREEN_HEIGHT, TextShows(text, rows)
  PROVE  TextShows(text, Append(rows, Blank))
<1> SUFFICES ASSUME NEW y \in 1 .. SCREEN_HEIGHT, NEW x \in 1 .. SCREEN_WIDTH
             PROVE  text[Cell(x - 1, y - 1)]
                      = IF y <= Len(Append(rows, Blank)) THEN Append(rows, Blank)[y][x] ELSE Nul
  BY DEF TextShows
<1>1. text[Cell(x - 1, y - 1)] = IF y <= Len(rows) THEN rows[y][x] ELSE Nul
  BY DEF TextShows
<1>2. Blank \in Row
  BY BlankType DEF Row
<1>3. CASE y <= Len(rows)
  <2>1. Append(rows, Blank)[y] = rows[y] /\ y <= Len(Append(rows, Blank))
    BY <1>2, <1>3
  <2> QED
    BY <1>1, <1>3, <2>1
<1>4. CASE y = Len(rows) + 1
  <2>1. Append(rows, Blank)[y] = Blank /\ y <= Len(Append(rows, Blank))
    BY <1>2, <1>4
  <2>2. Blank[x] = Nul
    BY DEF Blank
  <2> QED
    BY <1>1, <1>4, <2>1, <2>2
<1>5. CASE y > Len(rows) + 1
  <2>1. ~(y <= Len(Append(rows, Blank))) /\ ~(y <= Len(rows))
    BY <1>2, <1>5
  <2> QED
    BY <1>1, <2>1
<1> QED
  BY <1>3, <1>4, <1>5

\* The end of putc within a row.
LEMMA SameRowShows ==
  ASSUME NEW j \in LooseConsoles, NEW t \in Terminals, TextShows(j.text, t.rows),
         j.x = t.col, j.y = Len(t.rows) - 1
  PROVE  Shows(Settle(j), t)
<1>1. /\ t.col \in 0 .. SCREEN_WIDTH - 1 /\ Len(t.rows) \in 1 .. SCREEN_HEIGHT
      /\ SCREEN_WIDTH \in Nat \ {0} /\ SCREEN_HEIGHT \in Nat \ {0}
  BY TerminalTypes, Parameters
<1>2. ~(j.x >= SCREEN_WIDTH) /\ ~(j.y >= SCREEN_HEIGHT) /\ j.y \in 0 .. SCREEN_HEIGHT - 1
      /\ j.y \in 0 .. SCREEN_HEIGHT + 1
  BY <1>1
<1>3. /\ Settle(j) \in Consoles
      /\ Settle(j).x = j.x /\ Settle(j).y = j.y
      /\ Settle(j).text = j.text
      /\ Settle(j).low = Cell(j.x, j.y) % BYTE
      /\ Settle(j).high = (Cell(j.x, j.y) \div BYTE) % BYTE
  BY <1>2, SettleFields
<1>4. (Cell(j.x, j.y) \div BYTE) % BYTE = Cell(j.x, j.y) \div BYTE
  BY <1>1, <1>2, CursorHalves
<1> QED
  BY <1>3, <1>4 DEF Shows

\* The end of putc with the end of a row.
LEMMA NextRowShows ==
  ASSUME NEW j \in LooseConsoles, NEW rows \in Seq(Row), Len(rows) \in 1 .. SCREEN_HEIGHT,
         NEW t, t.rows = rows, TextShows(j.text, rows),
         \/ j.x = 0 /\ j.y = Len(rows)
         \/ j.x >= SCREEN_WIDTH /\ j.y = Len(rows) - 1
  PROVE  Shows(Settle(j), NextRow(t))
<1> DEFINE w == Len(rows)
           next == IF w = SCREEN_HEIGHT THEN Tail(Append(rows, Blank)) ELSE Append(rows, Blank)
           y == IF w >= SCREEN_HEIGHT THEN w - 1 ELSE w
<1>1. /\ SCREEN_WIDTH \in Nat \ {0} /\ SCREEN_HEIGHT \in Nat \ {0} /\ Blank \in Row
      /\ j.text \in [TextMemory -> Chars]
  BY Parameters, BlankType DEF Row, LooseConsoles
<1>2. w \in 0 .. SCREEN_HEIGHT + 1 /\ w = IF j.x >= SCREEN_WIDTH THEN j.y + 1 ELSE j.y
  BY <1>1
<1>3. NextRow(t) = [rows |-> next, col |-> 0]
  <2>1. Len(Append(rows, Blank)) = w + 1
    BY <1>1
  <2>2. Len(Append(rows, Blank)) > SCREEN_HEIGHT <=> w = SCREEN_HEIGHT
    BY <1>1, <2>1
  <2> HIDE DEF w
  <2> QED
    BY <2>2 DEF NextRow
<1>4. next \in Seq(Row) /\ Len(next) = y + 1 /\ y \in 0 .. SCREEN_HEIGHT - 1
  <2>1. CASE w = SCREEN_HEIGHT
    BY <1>1, <2>1
  <2>2. CASE w # SCREEN_HEIGHT
    BY <1>1, <2>2
  <2> QED
    BY <2>1, <2>2
<1>5. /\ Settle(j) \in Consoles
      /\ Settle(j).x = 0 /\ Settle(j).y = y
      /\ Settle(j).text = IF w >= SCREEN_HEIGHT THEN ScrolledText(j.text) ELSE j.text
      /\ Settle(j).low = Cell(0, y) % BYTE
      /\ Settle(j).high = (Cell(0, y) \div BYTE) % BYTE
  <2>1. (IF j.x >= SCREEN_WIDTH THEN 0 ELSE j.x) = 0
    BY <1>1
  <2> HIDE DEF w
  <2> QED
    BY <1>2, <2>1, SettleFields
<1>6. TextShows(Settle(j).text, next)
  <2>1. CASE w = SCREEN_HEIGHT
    BY <1>1, <1>5, <2>1, ScrolledShows
  <2>2. CASE w # SCREEN_HEIGHT
    <3>1. w < SCREEN_HEIGHT
      BY <1>1, <2>2
    <3>2. TextShows(j.text, Append(rows, Blank))
      BY <3>1, AppendShows
    <3>3. Settle(j).text = j.text
      BY <1>1, <1>5, <3>1
    <3> QED
      BY <2>2, <3>2, <3>3
  <2> QED
    BY <2>1, <2>2
<1> HIDE DEF w, next, y
<1>7. 0 \in 0 .. SCREEN_WIDTH - 1 /\ y + 1 \in 1 .. SCREEN_HEIGHT /\ (y + 1) - 1 = y
  BY <1>1, <1>4
<1>8. NextRow(t) \in Terminals /\ NextRow(t).rows = next /\ NextRow(t).col = 0
  BY <1>3, <1>4, <1>7, TerminalOf, SMTT(60)
<1>9. (Cell(0, y) \div BYTE) % BYTE = Cell(0, y) \div BYTE
  BY <1>4, <1>7, CursorHalves
<1> QED
  BY <1>4, <1>5, <1>6, <1>7, <1>8, <1>9 DEF Shows

\* Different places of the screen are different cells.
LEMMA CellsDiffer ==
  ASSUME NEW x \in 0 .. SCREEN_WIDTH - 1, NEW y \in Nat,
         NEW u \in 0 .. SCREEN_WIDTH - 1, NEW v \in Nat, Cell(x, y) = Cell(u, v)
  PROVE  x = u /\ y = v
<1>1. /\ Cell(x, y) \div SCREEN_WIDTH = y /\ Cell(x, y) % SCREEN_WIDTH = x
      /\ Cell(u, v) \div SCREEN_WIDTH = v /\ Cell(u, v) % SCREEN_WIDTH = u
  BY CellPlace
<1> QED
  BY <1>1

\* A character at the end of the last row.
LEMMA StoredShows ==
  ASSUME NEW text \in [TextMemory -> Chars], NEW rows \in Seq(Row),
         Len(rows) \in 1 .. SCREEN_HEIGHT, TextShows(text, rows),
         NEW col \in 0 .. SCREEN_WIDTH - 1, NEW c \in Chars
  PROVE  LET next == [rows EXCEPT ![Len(rows)][col + 1] = c]
         IN /\ next \in Seq(Row) /\ Len(next) = Len(rows)
            /\ TextShows([text EXCEPT ![Cell(col, Len(rows) - 1)] = c], next)
<1> DEFINE n == Len(rows)
           last == [rows[n] EXCEPT ![col + 1] = c]
           next == [rows EXCEPT ![n] = last]
           at == Cell(col, n - 1)
<1>1. n \in 1 .. SCREEN_HEIGHT /\ n - 1 \in Nat /\ col + 1 \in 1 .. SCREEN_WIDTH
      /\ SCREEN_WIDTH \in Nat /\ SCREEN_HEIGHT \in Nat
  BY Parameters
<1>2. rows[n] \in Row
  BY <1>1
<1>3. /\ last \in Row
      /\ last[col + 1] = c
      /\ \A x \in 1 .. SCREEN_WIDTH : x # col + 1 => last[x] = rows[n][x]
  BY <1>1, <1>2 DEF Row
<1>4. [rows EXCEPT ![Len(rows)][col + 1] = c] = next
  OBVIOUS
<1> HIDE DEF last
<1>5. /\ next \in Seq(Row) /\ Len(next) = n
      /\ next[n] = last /\ \A y \in 1 .. n : y # n => next[y] = rows[y]
  BY <1>1, <1>3
<1> HIDE DEF next
<1>6. TextShows([text EXCEPT ![at] = c], next)
  <2> SUFFICES ASSUME NEW y \in 1 .. SCREEN_HEIGHT, NEW x \in 1 .. SCREEN_WIDTH
               PROVE  [text EXCEPT ![at] = c][Cell(x - 1, y - 1)]
                        = IF y <= n THEN next[y][x] ELSE Nul
    BY <1>5 DEF TextShows
  <2> DEFINE s == Cell(x - 1, y - 1)
  <2>1. /\ s \in TextMemory
        /\ x - 1 \in 0 .. SCREEN_WIDTH - 1 /\ y - 1 \in Nat
    BY ScreenPlaces
  <2>2. text[s] = IF y <= n THEN rows[y][x] ELSE Nul
    BY DEF TextShows
  <2>3. s = at => x - 1 = col /\ y - 1 = n - 1
    BY <1>1, <2>1, CellsDiffer
  <2>4. x - 1 = col /\ y = n => s = at
    OBVIOUS
  <2> HIDE DEF s, at
  <2>5. CASE s = at
    <3>1. y = n /\ x = col + 1
      BY <1>1, <2>3, <2>5
    <3>2. [text EXCEPT ![at] = c][s] = c
      BY <2>1, <2>5
    <3> QED
      BY <1>1, <1>3, <1>5, <3>1, <3>2 DEF s
  <2>6. CASE s # at
    <3>1. [text EXCEPT ![at] = c][s] = text[s]
      BY <2>1, <2>6
    <3>2. CASE y = n
      <4>1. x # col + 1
        BY <1>1, <2>4, <2>6, <3>2
      <4> QED
        BY <1>1, <1>3, <1>5, <2>2, <3>1, <3>2, <4>1 DEF s
    <3>3. CASE y # n
      BY <1>1, <1>5, <2>2, <3>1, <3>3 DEF s
    <3> QED
      BY <3>2, <3>3
  <2> QED
    BY <2>5, <2>6
<1> QED
  BY <1>4, <1>5, <1>6

\* A character other than a tab.
LEMMA PutCharShows ==
  ASSUME NEW k, NEW t, Shows(k, t), NEW c \in Chars
  PROVE  Shows(PutChar(k, c), Write(t, c))
<1> DEFINE j == Switched(k, c)
<1>1. /\ k \in Consoles /\ t \in Terminals /\ TextShows(k.text, t.rows)
      /\ k.x = t.col /\ k.y = Len(t.rows) - 1
      /\ k.text \in [TextMemory -> Chars]
  BY DEF Shows, Consoles
<1>2. /\ t.rows \in Seq(Row) /\ Len(t.rows) \in 1 .. SCREEN_HEIGHT
      /\ t.col \in 0 .. SCREEN_WIDTH - 1
      /\ t = [rows |-> t.rows, col |-> t.col]
      /\ SCREEN_WIDTH \in Nat \ {0} /\ SCREEN_HEIGHT \in Nat
  BY <1>1, TerminalTypes, Parameters
<1>3. PutChar(k, c) = Settle(j)
  BY DEF PutChar, Switched
<1>4. /\ j \in LooseConsoles
      /\ j.y = IF c = NewLine THEN k.y + 1 ELSE k.y
      /\ j.x = IF c \in {NewLine, Return} THEN 0 ELSE k.x + 1
      /\ j.text = IF c \in {NewLine, Return} THEN k.text
                  ELSE [k.text EXCEPT ![Cell(k.x, k.y)] = c]
  BY <1>1, SwitchedFields
<1> HIDE DEF j
<1>5. CASE c = NewLine
  <2>1. j.x = 0 /\ j.y = Len(t.rows) /\ j.text = k.text
    BY <1>1, <1>2, <1>4, <1>5
  <2>2. Shows(Settle(j), NextRow(t))
    BY <1>1, <1>2, <1>4, <2>1, NextRowShows
  <2> QED
    BY <1>3, <1>5, <2>2 DEF Write
<1>6. CASE c # NewLine /\ c = Return
  <2> DEFINE u == [rows |-> t.rows, col |-> 0]
  <2>1. Write(t, c) = u
    BY <1>2, <1>6 DEF Write
  <2>2. u \in Terminals /\ u.rows = t.rows /\ u.col = 0
    BY <1>2, TerminalOf
  <2> HIDE DEF u
  <2>3. j.x = 0 /\ j.y = Len(t.rows) - 1 /\ j.text = k.text
    BY <1>1, <1>4, <1>6
  <2>4. Shows(Settle(j), u)
    BY <1>1, <1>4, <2>2, <2>3, SameRowShows
  <2> QED
    BY <1>3, <2>1, <2>4
<1>7. CASE c \notin {NewLine, Return}
  <2> DEFINE rows == [t.rows EXCEPT ![Len(t.rows)][t.col + 1] = c]
             u == [rows |-> rows, col |-> t.col + 1]
  <2>1. /\ rows \in Seq(Row) /\ Len(rows) = Len(t.rows)
        /\ TextShows([k.text EXCEPT ![Cell(t.col, Len(t.rows) - 1)] = c], rows)
    BY <1>1, <1>2, StoredShows
  <2>2. Write(t, c) = IF t.col + 1 = SCREEN_WIDTH THEN NextRow(u) ELSE u
    <3>1. Write(t, c) = IF u.col = SCREEN_WIDTH THEN NextRow(u) ELSE u
      BY <1>7 DEF Write
    <3>2. u.col = t.col + 1
      OBVIOUS
    <3> HIDE DEF u
    <3> QED
      BY <3>1, <3>2
  <2>3. j.x = t.col + 1 /\ j.y = Len(t.rows) - 1 /\ TextShows(j.text, rows)
    BY <1>1, <1>4, <1>7, <2>1
  <2>4. u.rows = rows /\ u.col = t.col + 1
    OBVIOUS
  <2> HIDE DEF rows
  <2>5. CASE t.col + 1 = SCREEN_WIDTH
    <3> HIDE DEF u
    <3>1. j.x >= SCREEN_WIDTH /\ j.y = Len(rows) - 1 /\ Len(rows) \in 1 .. SCREEN_HEIGHT
      BY <1>2, <2>1, <2>3, <2>5
    <3>2. Shows(Settle(j), NextRow(u))
      BY <1>4, <2>1, <2>3, <2>4, <3>1, NextRowShows
    <3> QED
      BY <1>3, <2>2, <2>5, <3>2
  <2>6. CASE t.col + 1 # SCREEN_WIDTH
    <3>1. t.col + 1 \in 0 .. SCREEN_WIDTH - 1
      BY <1>2, <2>6
    <3>2. u \in Terminals
      BY <1>2, <2>1, <3>1, TerminalOf
    <3> HIDE DEF u
    <3>3. Shows(Settle(j), u)
      BY <1>4, <2>1, <2>3, <2>4, <3>2, SameRowShows
    <3> QED
      BY <1>3, <2>2, <2>6, <3>3
  <2> QED
    BY <2>5, <2>6
<1> QED
  BY <1>5, <1>6, <1>7

LEMMA NextRowType ==
  ASSUME NEW t, t.rows \in Seq(Row), Len(t.rows) \in 1 .. SCREEN_HEIGHT
  PROVE  NextRow(t) \in Terminals
<1> DEFINE rows == Append(t.rows, Blank)
           next == IF Len(rows) > SCREEN_HEIGHT THEN Tail(rows) ELSE rows
<1>1. Blank \in Row /\ SCREEN_HEIGHT \in Nat /\ 0 \in 0 .. SCREEN_WIDTH - 1
  BY BlankType, Parameters DEF Row
<1>2. rows \in Seq(Row) /\ Len(rows) = Len(t.rows) + 1
  BY <1>1
<1> HIDE DEF rows
<1>3. next \in Seq(Row) /\ Len(next) \in 1 .. SCREEN_HEIGHT
  BY <1>1, <1>2
<1>4. NextRow(t) = [rows |-> next, col |-> 0]
  BY DEF NextRow, rows
<1> HIDE DEF next
<1> QED
  BY <1>1, <1>3, <1>4, TerminalOf

LEMMA WriteType ==
  ASSUME NEW t \in Terminals, NEW c \in Chars
  PROVE  Write(t, c) \in Terminals
<1>1. /\ t.rows \in Seq(Row) /\ Len(t.rows) \in 1 .. SCREEN_HEIGHT
      /\ t.col \in 0 .. SCREEN_WIDTH - 1
      /\ t = [rows |-> t.rows, col |-> t.col]
      /\ SCREEN_WIDTH \in Nat \ {0} /\ SCREEN_HEIGHT \in Nat
  BY TerminalTypes, Parameters
<1>2. CASE c = NewLine
  BY <1>1, <1>2, NextRowType DEF Write
<1>3. CASE c # NewLine /\ c = Return
  <2>1. Write(t, c) = [rows |-> t.rows, col |-> 0]
    BY <1>1, <1>3 DEF Write
  <2>2. 0 \in 0 .. SCREEN_WIDTH - 1
    BY <1>1
  <2> QED
    BY <1>1, <2>1, <2>2, TerminalOf
<1>4. CASE c \notin {NewLine, Return}
  <2> DEFINE n == Len(t.rows)
             last == [t.rows[n] EXCEPT ![t.col + 1] = c]
             rows == [t.rows EXCEPT ![n] = last]
             u == [rows |-> rows, col |-> t.col + 1]
  <2>1. Write(t, c) = IF u.col = SCREEN_WIDTH THEN NextRow(u) ELSE u
    BY <1>4 DEF Write
  <2>2. t.rows[n] \in Row
    BY <1>1
  <2>3. last \in Row
    BY <2>2 DEF Row
  <2> HIDE DEF last
  <2>4. rows \in Seq(Row) /\ Len(rows) = n
    BY <1>1, <2>3
  <2> HIDE DEF rows
  <2>5. CASE t.col + 1 = SCREEN_WIDTH
    <3>1. u.rows = rows /\ u.col = t.col + 1
      OBVIOUS
    <3> HIDE DEF u
    <3> QED
      BY <1>1, <2>1, <2>4, <2>5, <3>1, NextRowType
  <2>6. CASE t.col + 1 # SCREEN_WIDTH
    <3>1. t.col + 1 \in 0 .. SCREEN_WIDTH - 1
      BY <1>1, <2>6
    <3>2. u \in Terminals
      BY <1>1, <2>4, <3>1, TerminalOf
    <3> QED
      BY <2>1, <2>6, <3>2
  <2> QED
    BY <2>5, <2>6
<1> QED
  BY <1>2, <1>3, <1>4

\* The terminal's blanks, one or none at a time.
LEMMA WriteBlanksSteps ==
  ASSUME NEW t \in Terminals
  PROVE  /\ WriteBlanks(t)[0] = t
         /\ \A n \in Nat :
              /\ WriteBlanks(t)[n] \in Terminals
              /\ WriteBlanks(t)[n + 1] = IF MoreBlanks(n, WriteBlanks(t)[n].col)
                                         THEN Write(WriteBlanks(t)[n], Space)
                                         ELSE WriteBlanks(t)[n]
<1> DEFINE next(n, v) == IF MoreBlanks(n, v.col) THEN Write(v, Space) ELSE v
           step == [a \in Nat \X Terminals |-> next(a[1], a[2])]
           Loop(f) == [n \in Nat |-> IF n = 0 THEN t
                                     ELSE IF MoreBlanks(n - 1, f[n - 1].col)
                                     THEN Write(f[n - 1], Space) ELSE f[n - 1]]
<1>1. ASSUME NEW n \in Nat, NEW v \in Terminals PROVE next(n, v) \in Terminals
  BY WriteType DEF Chars
<1> HIDE DEF next
<1>2. step \in Steps(Terminals)
  BY <1>1 DEF Steps
<1>3. PICK g \in [Nat -> Terminals] :
             g[0] = t /\ \A n \in Nat : g[n + 1] = step[<<n, g[n]>>]
  <2> HIDE DEF step
  <2>1. \E g : Iterates(g, Terminals, step, t)
    BY <1>2, Iterated
  <2> QED
    BY <2>1 DEF Iterates
<1>4. ASSUME NEW n \in Nat PROVE g[n + 1] = next(n, g[n])
  BY <1>3
<1> HIDE DEF step
<1>5. ASSUME NEW n \in Nat \ {0} PROVE g[n] = next(n - 1, g[n - 1])
  <2>1. n - 1 \in Nat /\ (n - 1) + 1 = n
    OBVIOUS
  <2> QED
    BY <1>4, <2>1
<1>6. g = Loop(g)
  <2>1. \A n \in Nat : g[n] = Loop(g)[n]
    BY <1>3, <1>5 DEF next
  <2>2. g = [n \in Nat |-> g[n]] /\ Loop(g) = [n \in Nat |-> Loop(g)[n]]
    OBVIOUS
  <2> HIDE DEF Loop
  <2> QED
    BY <2>1, <2>2
<1>7. WriteBlanks(t) = CHOOSE f : f = Loop(f)
  BY DEF WriteBlanks
<1> DEFINE c == WriteBlanks(t)
<1>8. c = Loop(c)
  BY <1>6, <1>7
<1> HIDE DEF c
<1>9. c[0] = t
  BY <1>8
<1>10. ASSUME NEW n \in Nat PROVE c[n + 1] = next(n, c[n])
  <2>1. n + 1 \in Nat /\ n + 1 # 0 /\ (n + 1) - 1 = n
    OBVIOUS
  <2> QED
    BY <1>8, <2>1 DEF next
<1> DEFINE S == {n \in Nat : c[n] \in Terminals}
<1>11. 0 \in S
  BY <1>9
<1>12. ASSUME NEW n \in Nat, n \in S PROVE n + 1 \in S
  BY <1>1, <1>10, <1>12
<1> HIDE DEF S
<1>13. Nat \subseteq S
  BY <1>11, <1>12, Induct
<1>14. \A n \in Nat : c[n] \in Terminals
  BY <1>13 DEF S
<1> QED
  BY <1>9, <1>10, <1>14 DEF c, next

\* Once the loop has ended, nothing more is written.
LEMMA BlanksEnd ==
  ASSUME NEW t \in Terminals, NEW n \in Nat, ~MoreBlanks(n, WriteBlanks(t)[n].col)
  PROVE  \A m \in Nat : n <= m => WriteBlanks(t)[m] = WriteBlanks(t)[n]
<1> DEFINE b == WriteBlanks(t)
           S == {m \in Nat : n <= m => b[m] = b[n]}
<1>1. /\ \A m \in Nat : b[m] \in Terminals
      /\ \A m \in Nat : b[m + 1] = IF MoreBlanks(m, b[m].col) THEN Write(b[m], Space) ELSE b[m]
  BY WriteBlanksSteps
<1>2. ~MoreBlanks(n, b[n].col) /\ b[n].col \in Nat
  BY <1>1, TerminalTypes
<1> HIDE DEF b
<1>3. 0 \in S
  OBVIOUS
<1>4. ASSUME NEW m \in Nat, m \in S PROVE m + 1 \in S
  <2>1. CASE n <= m
    <3>1. b[m] = b[n]
      BY <1>4, <2>1
    <3>2. ~MoreBlanks(m, b[m].col)
      <4>1. TAB \in Nat \ {0} /\ b[n].col % TAB \in 0 .. TAB - 1
        BY <1>2, Parameters, QuotientRemainder
      <4> QED
        BY <1>2, <2>1, <3>1, <4>1 DEF MoreBlanks
    <3> QED
      BY <1>1, <3>1, <3>2
  <2>2. CASE n = m + 1
    BY <2>2
  <2>3. CASE n > m + 1
    BY <2>3
  <2> QED
    BY <2>1, <2>2, <2>3
<1> HIDE DEF S
<1>5. Nat \subseteq S
  BY <1>3, <1>4, Induct
<1> QED
  BY <1>5 DEF S, b

LEMMA BlanksShow ==
  ASSUME NEW k, NEW t, Shows(k, t)
  PROVE  \A n \in Nat : Shows(TabLoop(k)[n], WriteBlanks(t)[n])
<1> DEFINE a == TabLoop(k)
           b == WriteBlanks(t)
           S == {n \in Nat : Shows(a[n], b[n])}
<1>1. k \in Consoles /\ t \in Terminals
  BY DEF Shows
<1>2. /\ a[0] = k
      /\ \A n \in Nat : a[n + 1] = IF MoreBlanks(n, a[n].x) THEN PutChar(a[n], Space) ELSE a[n]
  BY <1>1, TabLoopSteps
<1>3. /\ b[0] = t
      /\ \A n \in Nat : b[n + 1] = IF MoreBlanks(n, b[n].col) THEN Write(b[n], Space) ELSE b[n]
  BY <1>1, WriteBlanksSteps
<1> HIDE DEF a, b
<1>4. 0 \in S
  BY <1>2, <1>3
<1>5. ASSUME NEW n \in Nat, n \in S PROVE n + 1 \in S
  <2>1. Shows(a[n], b[n]) /\ a[n].x = b[n].col
    BY <1>5 DEF Shows
  <2>2. Shows(PutChar(a[n], Space), Write(b[n], Space))
    BY <2>1, PutCharShows DEF Chars
  <2>3. Shows(a[n + 1], b[n + 1])
    BY <1>2, <1>3, <2>1, <2>2
  <2> QED
    BY <2>3
<1> HIDE DEF S
<1>6. Nat \subseteq S
  BY <1>4, <1>5, Induct
<1> QED
  BY <1>6 DEF S, a, b

LEMMA SettledShows ==
  ASSUME NEW k, NEW t, Shows(k, t)
  PROVE  Shows(Settle(k), t)
BY ConsoleIsLoose, SameRowShows DEF Shows

\* A whole putc.
LEMMA PutcShows ==
  ASSUME NEW k, NEW t, Shows(k, t), NEW c \in Chars
  PROVE  Shows(Putc(k, c), Display(t, c))
<1>1. t \in Terminals /\ t # Mixed
  BY TerminalTypes DEF Shows
<1>2. CASE c # Tabulator
  BY <1>1, <1>2, PutCharShows DEF Putc, Display
<1>3. CASE c = Tabulator
  <2> DEFINE j == TabLoop(k)[TAB]
             u == WriteBlanks(t)[TAB]
  <2>1. Shows(j, u)
    BY BlanksShow, Parameters
  <2>2. Putc(k, c) = Settle(j) /\ Display(t, c) = u
    BY <1>1, <1>3 DEF Putc, PutTab, Display
  <2> HIDE DEF j, u
  <2>3. Shows(Settle(j), u)
    BY <2>1, SettledShows
  <2> QED
    BY <2>2, <2>3
<1> QED
  BY <1>2, <1>3

-----------------------------------------------------------------------------
(***************************************************************************)
(* No step of the main line changes what the end of the call will show.    *)
(***************************************************************************)
LEMMA SwitchRest == ConInv /\ SwitchStep => Rest' = Rest
<1> SUFFICES ASSUME ConInv, SwitchStep PROVE Rest' = Rest
  OBVIOUS
<1> DEFINE c == IF inTab THEN Space ELSE ch
<1>1. ch' = ch /\ row' = row /\ inTab' = inTab /\ c' = c
  BY DEF SwitchStep, tabVars
<1>2. Rest = Left(con, mpc, rx, ry, row, c) /\ Rest' = Left(con', mpc', rx', ry', row, c)
  BY <1>1 DEF Rest
<1>3. con \in Consoles /\ con.x \in Nat /\ con.y \in Nat
  BY ConTypes
<1>4. CASE Goto("newline", "newlineY") /\ SetX(0)
  <2>1. [con EXCEPT !.x = 0, !.y = @ + 1] = [con' EXCEPT !.y = @ + 1]
    BY <1>3, <1>4 DEF SetX, Consoles
  <2> HIDE DEF c
  <2> QED
    BY <1>2, <1>4, <2>1 DEF Goto, Left
<1>5. CASE Goto("newlineY", "newlineInc") /\ LoadY
  <2>1. [con EXCEPT !.y = @ + 1] = [con' EXCEPT !.y = ry' + 1]
    BY <1>3, <1>5 DEF LoadY, Consoles
  <2> HIDE DEF c
  <2> QED
    BY <1>2, <1>5, <2>1 DEF Goto, Left
<1>6. CASE Goto("newlineInc", "testX") /\ SetY(ry + 1)
  <2> HIDE DEF c
  <2> QED
    BY <1>2, <1>6 DEF Goto, Left, SetY
<1>7. CASE Goto("return", "testX") /\ SetX(0)
  <2> HIDE DEF c
  <2> QED
    BY <1>2, <1>7 DEF Goto, Left, SetX
<1>8. CASE Goto("argY", "argX") /\ LoadY
  <2> HIDE DEF c
  <2> QED
    BY <1>2, <1>8 DEF Goto, Left, LoadY
<1>9. CASE Goto("argX", "putchr") /\ LoadX
  <2> HIDE DEF c
  <2> QED
    BY <1>2, <1>9 DEF Goto, Left, LoadX
<1>10. CASE Goto("putchr", "loadX") /\ con' = PutChr(con, rx, ry, c) /\ UNCHANGED <<rx, ry>>
  <2> HIDE DEF c
  <2> QED
    BY <1>2, <1>10 DEF Goto, Left, Stored
<1>11. CASE Goto("loadX", "incX") /\ LoadX
  <2>1. [con EXCEPT !.x = @ + 1] = [con' EXCEPT !.x = rx' + 1]
    BY <1>3, <1>11 DEF LoadX, Consoles
  <2> HIDE DEF c
  <2> QED
    BY <1>2, <1>11, <2>1 DEF Goto, Left
<1>12. CASE Goto("incX", "testX") /\ SetX(rx + 1)
  <2> HIDE DEF c
  <2> QED
    BY <1>2, <1>12 DEF Goto, Left, SetX
<1> QED
  BY <1>4, <1>5, <1>6, <1>7, <1>8, <1>9, <1>10, <1>11, <1>12 DEF SwitchStep

LEMMA WrapRest == ConInv /\ WrapStep => Rest' = Rest
<1> SUFFICES ASSUME ConInv, WrapStep PROVE Rest' = Rest
  OBVIOUS
<1> DEFINE c == IF inTab THEN Space ELSE ch
<1>1. ch' = ch /\ row' = row /\ inTab' = inTab /\ c' = c
  BY DEF WrapStep, tabVars
<1>2. Rest = Left(con, mpc, rx, ry, row, c) /\ Rest' = Left(con', mpc', rx', ry', row, c)
  BY <1>1 DEF Rest
<1>3. con \in Consoles /\ con.x \in Nat /\ con.y \in Nat /\ SCREEN_WIDTH \in Nat \ {0}
  BY ConTypes
<1> HIDE DEF c
<1>4. CASE /\ mpc = "testX" /\ mpc' = (IF con.x >= SCREEN_WIDTH THEN "wrapY" ELSE "testY")
           /\ UNCHANGED <<con, rx, ry>>
  <2>1. CASE con.x >= SCREEN_WIDTH
    <3> DEFINE j == [con EXCEPT !.x = 0, !.y = @ + 1]
    <3>1. j = [con EXCEPT !.y = @ + 1, !.x = 0]
      BY <1>3 DEF Consoles
    <3>2. ~(j.x >= SCREEN_WIDTH)
      <4>1. j.x = 0
        BY <1>3 DEF Consoles
      <4> QED
        BY <1>3, <4>1
    <3> HIDE DEF j
    <3>3. Settle(con) = Settle(j)
      BY <2>1, <3>1, <3>2 DEF Settle
    <3>4. Settle(con) = Settle([con EXCEPT !.x = 0, !.y = @ + 1])
      BY <3>3 DEF j
    <3> QED
      BY <1>2, <1>4, <2>1, <3>4 DEF Left
  <2>2. CASE ~(con.x >= SCREEN_WIDTH)
    BY <1>2, <1>4, <2>2 DEF Left
  <2> QED
    BY <2>1, <2>2
<1>5. CASE Goto("wrapY", "wrapInc") /\ LoadY
  <2>1. [con EXCEPT !.x = 0, !.y = @ + 1] = [con' EXCEPT !.x = 0, !.y = ry' + 1]
    BY <1>3, <1>5 DEF LoadY, Consoles
  <2> QED
    BY <1>2, <1>5, <2>1 DEF Goto, Left
<1>6. CASE Goto("wrapInc", "wrapX") /\ SetY(ry + 1)
  <2>1. [con EXCEPT !.x = 0, !.y = ry + 1] = [con' EXCEPT !.x = 0]
    BY <1>3, <1>6 DEF SetY, Consoles
  <2> QED
    BY <1>2, <1>6, <2>1 DEF Goto, Left
<1>7. CASE Goto("wrapX", "testY") /\ SetX(0)
  BY <1>2, <1>7 DEF Goto, Left, SetX
<1> QED
  BY <1>4, <1>5, <1>6, <1>7 DEF WrapStep

\* Scrolled from the first row on, the whole screen is.
LEMMA ScrollFromTop ==
  ASSUME NEW k \in Consoles
  PROVE  Scrollback(k) = ScrollLeft(k, 1)
<1> DEFINE text == k.text
<1>1. ASSUME NEW s \in TextMemory PROVE ScrolledText(text)[s] = ScrollText(text, 1)[s]
  <2>1. /\ s \in Nat /\ s \div SCREEN_WIDTH \in Nat
        /\ SCREEN_HEIGHT \in Nat /\ SCREEN_HEIGHT - 1 \in Nat
    BY MemoryPlace, PlaceCell, Parameters
  <2>2. /\ s < Cell(0, SCREEN_HEIGHT - 1) <=> s \div SCREEN_WIDTH < SCREEN_HEIGHT - 1
        /\ s < Cell(0, SCREEN_HEIGHT) <=> s \div SCREEN_WIDTH < SCREEN_HEIGHT
    BY <2>1, RowsBelow
  <2> HIDE DEF text
  <2> QED
    BY <2>1, <2>2 DEF ScrolledText, ScrollText
<1>2. ScrolledText(text) = ScrollText(text, 1)
  BY <1>1 DEF ScrolledText, ScrollText
<1>3. Scrollback(k) = [k EXCEPT !.y = @ - 1, !.text = ScrolledText(text)]
  BY Zenon DEF Scrollback, ScrolledText
<1> QED
  BY <1>2, <1>3 DEF ScrollLeft

LEMMA TestYRest == ConInv /\ TestY => Rest' = Rest
<1> SUFFICES ASSUME ConInv, TestY PROVE Rest' = Rest
  OBVIOUS
<1> DEFINE c == IF inTab THEN Space ELSE ch
<1>1. con' = con /\ rx' = rx /\ ry' = ry /\ c' = c /\ mpc = "testY"
  BY DEF TestY, tabVars
<1>2. Rest = Settle(con) /\ Rest' = Left(con, mpc', rx, ry, row', c)
  BY <1>1 DEF Rest, Left
<1> HIDE DEF c
<1>3. ~(con.x >= SCREEN_WIDTH) /\ con \in Consoles
  BY <1>1, ConTypes DEF ConInv, Position
<1>4. CASE con.y >= SCREEN_HEIGHT
  <2>1. Settle(con) = CursorHere(Scrollback(con))
    BY <1>3, <1>4 DEF Settle, CursorHere
  <2>2. mpc' = "scroll" /\ row' = 1
    BY <1>4 DEF TestY
  <2> QED
    BY <1>2, <1>3, <2>1, <2>2, ScrollFromTop DEF Left
<1>5. CASE ~(con.y >= SCREEN_HEIGHT)
  <2>1. Settle(con) = CursorHere(con)
    BY <1>3, <1>5 DEF Settle, CursorHere
  <2>2. mpc' = "cursorY"
    BY <1>5 DEF TestY
  <2> QED
    BY <1>2, <2>1, <2>2 DEF Left
<1> QED
  BY <1>4, <1>5

\* The cell a row below.
LEMMA CellBelow ==
  ASSUME NEW s \in TextMemory, s \div SCREEN_WIDTH < SCREEN_HEIGHT
  PROVE  /\ s + SCREEN_WIDTH \in TextMemory
         /\ (s + SCREEN_WIDTH) \div SCREEN_WIDTH = s \div SCREEN_WIDTH + 1
         /\ s + SCREEN_WIDTH = Cell(s % SCREEN_WIDTH, s \div SCREEN_WIDTH + 1)
<1> DEFINE x == s % SCREEN_WIDTH
           y == s \div SCREEN_WIDTH
<1>1. s \in Nat /\ s = Cell(x, y) /\ y \in Nat /\ x \in 0 .. SCREEN_WIDTH - 1
  BY MemoryPlace, PlaceCell
<1>2. y < SCREEN_HEIGHT /\ SCREEN_HEIGHT \in Nat
  BY Parameters
<1> HIDE DEF x, y
<1>3. y + 1 \in 0 .. SCREEN_HEIGHT + 1 /\ y + 1 \in Nat
  BY <1>1, <1>2
<1>4. s + SCREEN_WIDTH = Cell(x, y + 1)
  BY <1>1, CellPlace
<1>5. Cell(x, y + 1) \in TextMemory /\ Cell(x, y + 1) \div SCREEN_WIDTH = y + 1
  BY <1>1, <1>3, InMemory, CellPlace
<1> QED
  BY <1>4, <1>5 DEF x, y

\* The text memory with a row replaced.
RowText(text, y, chars) ==
  [s \in TextMemory |-> IF s \div SCREEN_WIDTH = y THEN chars[(s % SCREEN_WIDTH) + 1] ELSE text[s]]

LEMMA SetRowText ==
  ASSUME con \in Consoles, NEW y, NEW chars, SetRow(y, chars)
  PROVE  con' = [con EXCEPT !.text = RowText(con.text, y, chars)]
BY Zenon DEF SetRow, RowText

LEMMA ScrollOneRow ==
  ASSUME con \in Consoles, NEW r \in 1 .. SCREEN_HEIGHT, r < SCREEN_HEIGHT
  PROVE  ScrollText(RowText(con.text, r - 1, RowAt(r)), r + 1) = ScrollText(con.text, r)
<1> DEFINE text == RowText(con.text, r - 1, RowAt(r))
<1>1. ASSUME NEW s \in TextMemory PROVE ScrollText(text, r + 1)[s] = ScrollText(con.text, r)[s]
  <2> DEFINE y == s \div SCREEN_WIDTH
             x == s % SCREEN_WIDTH
  <2>1. /\ y \in Nat /\ x \in 0 .. SCREEN_WIDTH - 1
        /\ SCREEN_HEIGHT \in Nat /\ SCREEN_WIDTH \in Nat \ {0}
    BY MemoryPlace, PlaceCell, Parameters
  <2>2. y < SCREEN_HEIGHT => /\ s + SCREEN_WIDTH \in TextMemory
                             /\ (s + SCREEN_WIDTH) \div SCREEN_WIDTH = y + 1
                             /\ s + SCREEN_WIDTH = Cell(x, y + 1)
    BY CellBelow
  <2>3. text[s] = IF y = r - 1 THEN RowAt(r)[x + 1] ELSE con.text[s]
    BY DEF RowText
  <2>4. y < SCREEN_HEIGHT /\ y # r - 2 => text[s + SCREEN_WIDTH] = con.text[s + SCREEN_WIDTH]
    <3> SUFFICES ASSUME y < SCREEN_HEIGHT, y # r - 2
                 PROVE  text[s + SCREEN_WIDTH] = con.text[s + SCREEN_WIDTH]
      OBVIOUS
    <3>1. s + SCREEN_WIDTH \in TextMemory /\ (s + SCREEN_WIDTH) \div SCREEN_WIDTH # r - 1
      BY <2>1, <2>2
    <3> QED
      BY <3>1 DEF RowText
  <2>5. y = r - 1 => RowAt(r)[x + 1] = con.text[s + SCREEN_WIDTH]
    <3> SUFFICES ASSUME y = r - 1 PROVE RowAt(r)[x + 1] = con.text[s + SCREEN_WIDTH]
      OBVIOUS
    <3>1. x + 1 \in 1 .. SCREEN_WIDTH /\ (x + 1) - 1 = x /\ y + 1 = r /\ y < SCREEN_HEIGHT
      BY <2>1
    <3>2. RowAt(r)[x + 1] = con.text[Cell((x + 1) - 1, r)]
      BY <3>1 DEF RowAt
    <3> QED
      BY <2>2, <3>1, <3>2
  <2>6. ScrollText(text, r + 1)[s] =
          IF (r + 1) - 1 <= y /\ y < SCREEN_HEIGHT - 1 THEN text[s + SCREEN_WIDTH]
          ELSE IF y = SCREEN_HEIGHT - 1 THEN Nul ELSE text[s]
    BY DEF ScrollText
  <2>7. ScrollText(con.text, r)[s] =
          IF r - 1 <= y /\ y < SCREEN_HEIGHT - 1 THEN con.text[s + SCREEN_WIDTH]
          ELSE IF y = SCREEN_HEIGHT - 1 THEN Nul ELSE con.text[s]
    BY DEF ScrollText
  <2> HIDE DEF text, x, y
  <2> QED
    BY <2>1, <2>3, <2>4, <2>5, <2>6, <2>7
<1> QED
  BY <1>1 DEF ScrollText

LEMMA ScrollLastRow ==
  ASSUME con \in Consoles
  PROVE  RowText(con.text, SCREEN_HEIGHT - 1, Blank) = ScrollText(con.text, SCREEN_HEIGHT)
<1> DEFINE text == RowText(con.text, SCREEN_HEIGHT - 1, Blank)
<1>1. ASSUME NEW s \in TextMemory PROVE text[s] = ScrollText(con.text, SCREEN_HEIGHT)[s]
  <2>1. /\ s \div SCREEN_WIDTH \in Nat /\ s % SCREEN_WIDTH \in 0 .. SCREEN_WIDTH - 1
        /\ SCREEN_HEIGHT \in Nat /\ SCREEN_WIDTH \in Nat \ {0}
    BY MemoryPlace, PlaceCell, Parameters
  <2>2. Blank[(s % SCREEN_WIDTH) + 1] = Nul
    BY <2>1 DEF Blank
  <2>3. text[s] = IF s \div SCREEN_WIDTH = SCREEN_HEIGHT - 1 THEN Nul ELSE con.text[s]
    BY <2>2 DEF RowText
  <2> QED
    BY <2>1, <2>3 DEF ScrollText
<1> QED
  BY <1>1 DEF ScrollText, RowText

LEMMA ScrollRowRest == ConInv /\ ScrollRow => Rest' = Rest
<1> SUFFICES ASSUME ConInv, ScrollRow PROVE Rest' = Rest
  OBVIOUS
<1> DEFINE c == IF inTab THEN Space ELSE ch
<1>1. rx' = rx /\ ry' = ry /\ c' = c /\ mpc = "scroll" /\ con \in Consoles
      /\ row \in 1 .. SCREEN_HEIGHT
  BY ConTypes DEF ScrollRow, tabVars, ConInv, Registers
<1>2. Rest = CursorHere(ScrollLeft(con, row)) /\ Rest' = Left(con', mpc', rx, ry, row', c)
  BY <1>1 DEF Rest, Left
<1> HIDE DEF c
<1>3. CASE row < SCREEN_HEIGHT
  <2> DEFINE text == RowText(con.text, row - 1, RowAt(row))
  <2>1. mpc' = "scroll" /\ row' = row + 1 /\ con' = [con EXCEPT !.text = text]
    BY <1>1, <1>3, SetRowText DEF ScrollRow
  <2>2. ScrollText(text, row + 1) = ScrollText(con.text, row)
    BY <1>1, <1>3, ScrollOneRow
  <2> HIDE DEF text
  <2>3. ScrollLeft(con', row + 1) = [con EXCEPT !.y = @ - 1, !.text = ScrollText(text, row + 1)]
    BY <1>1, <2>1 DEF ScrollLeft, Consoles
  <2>4. ScrollLeft(con', row + 1) = ScrollLeft(con, row)
    BY <2>2, <2>3 DEF ScrollLeft
  <2> QED
    BY <1>2, <2>1, <2>4 DEF Left
<1>4. CASE ~(row < SCREEN_HEIGHT)
  <2>1. row = SCREEN_HEIGHT
    BY <1>1, <1>4, Parameters
  <2>2. mpc' = "scrollY" /\ con' = [con EXCEPT !.text = ScrollText(con.text, row)]
    BY <1>1, <1>4, <2>1, SetRowText, ScrollLastRow DEF ScrollRow
  <2> DEFINE text == ScrollText(con.text, row)
  <2>3. ScrollLeft(con, row) = [con EXCEPT !.y = @ - 1, !.text = text]
    BY DEF ScrollLeft
  <2>4. con' = [con EXCEPT !.text = text]
    BY <2>2
  <2> HIDE DEF text
  <2>5. ScrollLeft(con, row) = [con' EXCEPT !.y = @ - 1]
    BY <1>1, <2>3, <2>4 DEF Consoles
  <2> QED
    BY <1>2, <2>2, <2>5 DEF Left
<1> QED
  BY <1>3, <1>4

LEMMA ScrollYRest == ConInv /\ ScrollY => Rest' = Rest
<1> SUFFICES ASSUME ConInv, ScrollY PROVE Rest' = Rest
  OBVIOUS
<1> DEFINE c == IF inTab THEN Space ELSE ch
<1>1. row' = row /\ c' = c /\ con \in Consoles
  BY ConTypes DEF ScrollY, tabVars
<1>2. Rest = Left(con, mpc, rx, ry, row, c) /\ Rest' = Left(con', mpc', rx', ry', row, c)
  BY <1>1 DEF Rest
<1> HIDE DEF c
<1>3. CASE Goto("scrollY", "scrollDec") /\ LoadY
  <2>1. [con EXCEPT !.y = @ - 1] = [con' EXCEPT !.y = ry' - 1]
    BY <1>1, <1>3 DEF LoadY, Consoles
  <2> QED
    BY <1>2, <1>3, <2>1 DEF Goto, Left
<1>4. CASE Goto("scrollDec", "cursorY") /\ SetY(ry - 1)
  BY <1>2, <1>4 DEF Goto, Left, SetY
<1> QED
  BY <1>3, <1>4 DEF ScrollY

LEMMA ClearOneRow ==
  ASSUME con \in Consoles, NEW r \in 0 .. SCREEN_HEIGHT, r < SCREEN_HEIGHT
  PROVE  ClearText(RowText(con.text, r, Blank), r + 1) = ClearText(con.text, r)
<1> DEFINE text == RowText(con.text, r, Blank)
<1>1. ASSUME NEW s \in TextMemory PROVE ClearText(text, r + 1)[s] = ClearText(con.text, r)[s]
  <2>1. /\ s \div SCREEN_WIDTH \in Nat /\ s % SCREEN_WIDTH \in 0 .. SCREEN_WIDTH - 1
        /\ SCREEN_HEIGHT \in Nat /\ SCREEN_WIDTH \in Nat \ {0}
    BY MemoryPlace, PlaceCell, Parameters
  <2>2. Blank[(s % SCREEN_WIDTH) + 1] = Nul
    BY <2>1 DEF Blank
  <2>3. text[s] = IF s \div SCREEN_WIDTH = r THEN Nul ELSE con.text[s]
    BY <2>2 DEF RowText
  <2> QED
    BY <2>1, <2>3 DEF ClearText
<1> QED
  BY <1>1 DEF ClearText

LEMMA ClearedText ==
  ASSUME con \in Consoles, NEW r \in Nat, r >= SCREEN_HEIGHT
  PROVE  ClearText(con.text, r) = con.text
<1>1. con.text \in [TextMemory -> Chars]
  BY DEF Consoles
<1>2. ASSUME NEW s \in TextMemory PROVE ClearText(con.text, r)[s] = con.text[s]
  <2>1. s \div SCREEN_WIDTH \in Nat /\ SCREEN_HEIGHT \in Nat
    BY MemoryPlace, PlaceCell, Parameters
  <2>2. ~(r <= s \div SCREEN_WIDTH /\ s \div SCREEN_WIDTH < SCREEN_HEIGHT)
    BY <2>1
  <2> QED
    BY <2>2 DEF ClearText
<1> QED
  BY <1>1, <1>2 DEF ClearText

LEMMA ClearRowRest == ConInv /\ ClearRow => Rest' = Rest
<1> SUFFICES ASSUME ConInv, ClearRow PROVE Rest' = Rest
  OBVIOUS
<1> DEFINE c == IF inTab THEN Space ELSE ch
<1>1. rx' = rx /\ ry' = ry /\ c' = c /\ mpc = "clear" /\ con \in Consoles
      /\ row \in 0 .. SCREEN_HEIGHT
  BY ConTypes DEF ClearRow, tabVars, ConInv, Registers
<1>2. Rest = CursorHere(ClearLeft(con, row)) /\ Rest' = Left(con', mpc', rx, ry, row', c)
  BY <1>1 DEF Rest, Left
<1> HIDE DEF c
<1>3. CASE row < SCREEN_HEIGHT
  <2> DEFINE text == RowText(con.text, row, Blank)
  <2>1. mpc' = "clear" /\ row' = row + 1 /\ con' = [con EXCEPT !.text = text]
    BY <1>1, <1>3, SetRowText DEF ClearRow
  <2>2. ClearText(text, row + 1) = ClearText(con.text, row)
    BY <1>1, <1>3, ClearOneRow
  <2> HIDE DEF text
  <2>3. ClearLeft(con', row + 1)
          = [con EXCEPT !.x = 0, !.y = 0, !.text = ClearText(text, row + 1)]
    BY <1>1, <2>1 DEF ClearLeft, Consoles
  <2>4. ClearLeft(con', row + 1) = ClearLeft(con, row)
    BY <2>2, <2>3 DEF ClearLeft
  <2> QED
    BY <1>2, <2>1, <2>4 DEF Left
<1>4. CASE ~(row < SCREEN_HEIGHT)
  <2>1. mpc' = "clearX" /\ con' = con
    BY <1>1, <1>4 DEF ClearRow
  <2>2. ClearText(con.text, row) = con.text
    BY <1>1, <1>4, Parameters, ClearedText
  <2>3. ClearLeft(con, row) = [con EXCEPT !.x = 0, !.y = 0]
    BY <1>1, <2>2 DEF ClearLeft, Consoles
  <2> QED
    BY <1>2, <2>1, <2>3 DEF Left
<1> QED
  BY <1>3, <1>4

LEMMA ClearXYRest == ConInv /\ ClearXY => Rest' = Rest
<1> SUFFICES ASSUME ConInv, ClearXY PROVE Rest' = Rest
  OBVIOUS
<1> DEFINE c == IF inTab THEN Space ELSE ch
<1>1. row' = row /\ c' = c /\ con \in Consoles
  BY ConTypes DEF ClearXY, tabVars
<1>2. Rest = Left(con, mpc, rx, ry, row, c) /\ Rest' = Left(con', mpc', rx', ry', row, c)
  BY <1>1 DEF Rest
<1> HIDE DEF c
<1>3. CASE Goto("clearX", "clearY") /\ SetX(0)
  <2>1. [con EXCEPT !.x = 0, !.y = 0] = [con' EXCEPT !.y = 0]
    BY <1>1, <1>3 DEF SetX, Consoles
  <2> QED
    BY <1>2, <1>3, <2>1 DEF Goto, Left
<1>4. CASE Goto("clearY", "cursorY") /\ SetY(0)
  BY <1>2, <1>4 DEF Goto, Left, SetY
<1> QED
  BY <1>3, <1>4 DEF ClearXY

LEMMA CursorRest ==
  ConInv /\ CursorStep => /\ mpc # "writeHigh" => Rest' = Rest
                          /\ mpc = "writeHigh" => con' = Rest
<1> SUFFICES ASSUME ConInv, CursorStep
             PROVE  /\ mpc # "writeHigh" => Rest' = Rest
                    /\ mpc = "writeHigh" => con' = Rest
  OBVIOUS
<1> DEFINE c == IF inTab THEN Space ELSE ch
           d == IF inTab' THEN Space ELSE ch
           pos == Cell(rx, ry)
           low == pos % BYTE
           high == (pos \div BYTE) % BYTE
<1>1. con \in Consoles /\ row' = row /\ con.x \in Nat /\ con.y \in Nat /\ ch' = ch
  BY ConTypes DEF CursorStep
<1>2. Rest = Left(con, mpc, rx, ry, row, c) /\ Rest' = Left(con', mpc', rx', ry', row, d)
  BY <1>1 DEF Rest
<1>3. low \in 0 .. BYTE - 1 /\ high \in 0 .. BYTE - 1
  BY ConTypes, CellType, HalfTypes
<1>4. SetCursor(con, pos) = [con EXCEPT !.low = low, !.high = high, !.select = "high"]
  BY DEF SetCursor
<1> HIDE DEF c, d
<1>5. CASE Goto("cursorY", "cursorX") /\ LoadY /\ UNCHANGED tabVars
  <2>1. Rest = CursorHere(con) /\ Rest' = SetCursor(con', Cell(con'.x, ry'))
    BY <1>2, <1>5 DEF Goto, Left
  <2> QED
    BY <1>5, <2>1 DEF Goto, LoadY, CursorHere
<1>6. CASE Goto("cursorX", "selectLow") /\ LoadX /\ UNCHANGED tabVars
  <2>1. Rest = SetCursor(con, Cell(con.x, ry)) /\ Rest' = SetCursor(con', Cell(rx', ry'))
    BY <1>2, <1>6 DEF Goto, Left, CursorLeft
  <2> QED
    BY <1>6, <2>1 DEF Goto, LoadX
<1>7. CASE /\ Goto("selectLow", "writeLow") /\ con' = [con EXCEPT !.select = "low"]
           /\ UNCHANGED <<rx, ry, tabVars>>
  <2>1. Rest = SetCursor(con, pos)
    BY <1>2, <1>7 DEF Goto, Left, CursorLeft
  <2>2. Rest' = IF con'.select = "low" THEN SetCursor(con', pos)
                ELSE [con' EXCEPT !.select = "high", !.high = high]
    BY <1>2, <1>7 DEF Goto, Left, CursorLeft
  <2>3. con'.select = "low"
    BY <1>1, <1>7 DEF Consoles
  <2>4. SetCursor(con', pos) = [con' EXCEPT !.low = low, !.high = high, !.select = "high"]
    BY DEF SetCursor
  <2> HIDE DEF low, high, pos
  <2>5. [con' EXCEPT !.low = low, !.high = high, !.select = "high"]
          = [con EXCEPT !.low = low, !.high = high, !.select = "high"]
    BY <1>1, <1>7 DEF Consoles
  <2> QED
    BY <1>4, <1>7, <2>1, <2>2, <2>3, <2>4, <2>5 DEF Goto
<1>8. CASE Goto("writeLow", "selectHigh") /\ CrtcData(low) /\ UNCHANGED <<rx, ry, tabVars>>
  <2>1. Rest = IF con.select = "low" THEN SetCursor(con, pos)
               ELSE [con EXCEPT !.select = "high", !.high = high]
    BY <1>2, <1>8 DEF Goto, Left, CursorLeft
  <2>2. Rest' = [con' EXCEPT !.select = "high", !.high = high]
    BY <1>2, <1>8 DEF Goto, Left, CursorLeft
  <2> HIDE DEF low, high, pos
  <2>3. CASE con.select = "low"
    <3>1. con' = [con EXCEPT !.low = low]
      BY <1>8, <2>3 DEF CrtcData
    <3>2. [con' EXCEPT !.select = "high", !.high = high]
            = [con EXCEPT !.low = low, !.high = high, !.select = "high"]
      BY <1>1, <3>1 DEF Consoles
    <3> QED
      BY <1>4, <1>8, <2>1, <2>2, <2>3, <3>2 DEF Goto
  <2>4. CASE con.select # "low"
    <3>1. con' = [con EXCEPT !.high = low]
      BY <1>8, <2>4 DEF CrtcData
    <3>2. [con' EXCEPT !.select = "high", !.high = high]
            = [con EXCEPT !.select = "high", !.high = high]
      BY <1>1, <3>1 DEF Consoles
    <3> QED
      BY <1>8, <2>1, <2>2, <2>4, <3>2 DEF Goto
  <2> QED
    BY <2>3, <2>4
<1>9. CASE /\ Goto("selectHigh", "writeHigh") /\ con' = [con EXCEPT !.select = "high"]
           /\ UNCHANGED <<rx, ry, tabVars>>
  <2>1. Rest = [con EXCEPT !.select = "high", !.high = high]
    BY <1>2, <1>9 DEF Goto, Left, CursorLeft
  <2>2. Rest' = IF con'.select = "low" THEN [con' EXCEPT !.low = high]
                ELSE [con' EXCEPT !.high = high]
    BY <1>2, <1>9 DEF Goto, Left, CursorLeft
  <2>3. con'.select # "low"
    BY <1>1, <1>9 DEF Consoles
  <2> HIDE DEF low, high, pos
  <2>4. [con' EXCEPT !.high = high] = [con EXCEPT !.select = "high", !.high = high]
    BY <1>1, <1>9 DEF Consoles
  <2> QED
    BY <1>9, <2>1, <2>2, <2>3, <2>4 DEF Goto
<1>10. CASE Goto("writeHigh", IF inTab THEN "tab" ELSE "idle") /\ CrtcData(high)
  <2>1. Rest = IF con.select = "low" THEN [con EXCEPT !.low = high] ELSE [con EXCEPT !.high = high]
    BY <1>2, <1>10 DEF Goto, Left, CursorLeft
  <2> HIDE DEF low, high, pos
  <2>2. con' = Rest
    BY <1>10, <2>1 DEF CrtcData
  <2> QED
    BY <1>10, <2>2 DEF Goto
<1> QED
  BY <1>5, <1>6, <1>7, <1>8, <1>9, <1>10 DEF CursorStep

-----------------------------------------------------------------------------
LEMMA ClearedType == Cleared \in Terminals /\ Cleared.rows = <<Blank>> /\ Cleared.col = 0
<1>1. <<Blank>> \in Seq(Row) /\ Len(<<Blank>>) \in 1 .. SCREEN_HEIGHT
      /\ 0 \in 0 .. SCREEN_WIDTH - 1
  BY BlankType, Parameters DEF Row
<1> QED
  BY <1>1, TerminalOf DEF Cleared

\* An empty screen with the cursor in its corner.
LEMMA ClearedShows ==
  ASSUME NEW k \in LooseConsoles, k.x = 0, k.y = 0,
         \A y \in 1 .. SCREEN_HEIGHT, x \in 1 .. SCREEN_WIDTH : k.text[Cell(x - 1, y - 1)] = Nul,
         k.low = 0, k.high = 0
  PROVE  Shows(k, Cleared)
<1>1. SCREEN_WIDTH \in Nat \ {0} /\ SCREEN_HEIGHT \in Nat \ {0} /\ BYTE \in Nat \ {0}
  BY Parameters
<1>2. k \in Consoles
  BY <1>1 DEF LooseConsoles, Consoles
<1>3. Cell(k.x, k.y) % BYTE = 0 /\ Cell(k.x, k.y) \div BYTE = 0
  <2>1. Cell(k.x, k.y) = 0 * BYTE + 0 /\ 0 \in 0 .. BYTE - 1
    BY <1>1 DEF Cell
  <2> QED
    BY <1>1, <2>1, QuotientOf
<1>4. TextShows(k.text, <<Blank>>)
  <2> SUFFICES ASSUME NEW y \in 1 .. SCREEN_HEIGHT, NEW x \in 1 .. SCREEN_WIDTH
               PROVE  k.text[Cell(x - 1, y - 1)] = IF y <= Len(<<Blank>>) THEN <<Blank>>[y][x]
                                                   ELSE Nul
    BY DEF TextShows
  <2>1. Len(<<Blank>>) = 1 /\ <<Blank>>[1] = Blank /\ Blank[x] = Nul
    BY DEF Blank
  <2>2. y <= 1 => y = 1
    BY <1>1
  <2> QED
    BY <2>1, <2>2
<1> QED
  BY <1>2, <1>3, <1>4, ClearedType DEF Shows

LEMMA InitShow == ConsoleInit => ShowInv
<1> SUFFICES ASSUME ConsoleInit PROVE ShowInv
  OBVIOUS
<1>1. con \in LooseConsoles
  BY InitConInv, ConTypes, ConsoleIsLoose
<1>2. \A y \in 1 .. SCREEN_HEIGHT, x \in 1 .. SCREEN_WIDTH : con.text[Cell(x - 1, y - 1)] = Nul
  BY ScreenPlaces DEF ConsoleInit
<1>3. con.x = 0 /\ con.y = 0 /\ con.low = 0 /\ con.high = 0
  BY DEF ConsoleInit
<1>4. Shows(con, Cleared)
  BY <1>1, <1>2, <1>3, ClearedShows
<1>5. Rest = con /\ term = Cleared /\ mpc = "idle" /\ ~inTab
  BY DEF Rest, Left, ConsoleInit
<1> QED
  BY <1>4, <1>5, ClearedType DEF ShowInv

\* Between two calls.
LEMMA IdleShows ==
  ASSUME ConInv, ShowInv, mpc = "idle", term # Mixed
  PROVE  Shows(con, term) /\ ~inTab /\ i = 0
<1>1. ~inTab /\ i = 0 /\ Rest = con
  BY DEF ConInv, Blanks, InPutc, Rest, Left
<1> QED
  BY <1>1 DEF ShowInv

\* putc of another character than a tab, at its beginning.
LEMMA CallLeft ==
  ASSUME NEW k \in Consoles, NEW c, c # Tabulator, NEW x, NEW y, NEW r
  PROVE  Left(k, Branch(c), x, y, r, c) = PutChar(k, c)
<1>1. CASE c = NewLine
  BY <1>1 DEF Left, Branch, PutChar
<1>2. CASE c # NewLine /\ c = Return
  BY <1>2 DEF Left, Branch, PutChar
<1>3. CASE c \notin {NewLine, Return}
  <2>1. Branch(c) = "argY"
    BY <1>3 DEF Branch
  <2>2. PutChar(k, c) = Stored(k, k.x, k.y, c)
    BY <1>3 DEF PutChar, Stored
  <2> QED
    BY <2>1, <2>2 DEF Left
<1> QED
  BY <1>1, <1>2, <1>3

LEMMA CallShow ==
  ASSUME ConInv, ShowInv, NEW c \in Printed, CallPutc(c)
  PROVE  ShowInv'
<1> USE DEF CallPutc, Goto
<1>1. c \in Chars /\ con \in Consoles /\ TAB \in Nat
  BY ConTypes, Parameters DEF Chars
<1>2. CASE term = Mixed
  BY <1>2 DEF ShowInv, Display
<1>3. CASE term # Mixed
  <2>1. Shows(con, term) /\ ~inTab /\ i = 0
    BY <1>3, IdleShows
  <2>2. term \in Terminals
    BY <2>1 DEF Shows
  <2>3. con' = con /\ ~inTab' /\ i' = 0 /\ mpc' = Branch(c) /\ ch' = c
    BY <2>1 DEF tabVars
  <2>4. CASE c # Tabulator
    <3>1. Rest' = PutChar(con, c)
      BY <1>1, <2>3, <2>4, CallLeft DEF Rest
    <3>2. term' = Write(term, c)
      BY <1>3, <2>4 DEF Display
    <3>3. Shows(Rest', term')
      BY <1>1, <2>1, <3>1, <3>2, PutCharShows
    <3>4. mpc' # "tab" /\ term' \in Terminals
      BY <2>3, <2>4, <3>3 DEF Branch, Shows
    <3> QED
      BY <2>3, <3>3, <3>4 DEF ShowInv
  <2>5. CASE c = Tabulator
    <3>1. mpc' = "tab"
      BY <2>3, <2>5, CharAssumption DEF Branch
    <3>2. term' = WriteBlanks(term)[TAB]
      BY <1>3, <2>5 DEF Display
    <3>3. WriteBlanks(term)[0] = term /\ term' \in Terminals
      BY <1>1, <2>2, <3>2, WriteBlanksSteps
    <3>4. Shows(con', WriteBlanks(term)[i'])
      BY <2>1, <2>3, <3>3
    <3> QED
      BY <2>2, <2>3, <3>1, <3>2, <3>3, <3>4 DEF ShowInv
  <2> QED
    BY <2>4, <2>5
<1> QED
  BY <1>2, <1>3

LEMMA ClearShow == ConInv /\ ShowInv /\ Clear => ShowInv'
<1> SUFFICES ASSUME ConInv, Clear PROVE ShowInv'
  OBVIOUS
<1> DEFINE text == ClearText(con.text, 0)
           j == [con EXCEPT !.x = 0, !.y = 0, !.text = text]
<1>1. /\ con \in Consoles /\ con.text \in [TextMemory -> Chars]
      /\ SCREEN_WIDTH \in Nat \ {0} /\ SCREEN_HEIGHT \in Nat \ {0}
  BY ConTypes
<1>2. con' = con /\ mpc' = "clear" /\ row' = 0 /\ term' = Cleared /\ ~inTab'
  BY DEF Clear, Goto, tabVars, ConInv, Blanks, InPutc
<1>3. Rest' = CursorHere(j)
  BY <1>2 DEF Rest, Left, ClearLeft
<1>4. text \in [TextMemory -> Chars]
  BY <1>1 DEF ClearText, Chars
<1>5. ASSUME NEW y \in 1 .. SCREEN_HEIGHT, NEW x \in 1 .. SCREEN_WIDTH
      PROVE  text[Cell(x - 1, y - 1)] = Nul
  <2>1. /\ Cell(x - 1, y - 1) \in TextMemory
        /\ Cell(x - 1, y - 1) \div SCREEN_WIDTH = y - 1
        /\ y - 1 \in 0 .. SCREEN_HEIGHT - 1
    BY ScreenPlaces, CellPlace
  <2> QED
    BY <1>1, <2>1 DEF ClearText
<1> HIDE DEF text
<1>6. 0 \in 0 .. SCREEN_WIDTH + 1 /\ 0 \in 0 .. SCREEN_HEIGHT + 1
  BY <1>1
<1>7. j \in LooseConsoles /\ j.x = 0 /\ j.y = 0 /\ j.text = text
  <2>1. con \in LooseConsoles
    BY <1>1, ConsoleIsLoose
  <2> QED
    BY <1>4, <1>6, <2>1 DEF LooseConsoles
<1> HIDE DEF j
<1>8. Cell(j.x, j.y) = 0
  BY <1>1, <1>7 DEF Cell
<1>9. 0 % BYTE = 0 /\ (0 \div BYTE) % BYTE = 0
  <2>1. BYTE \in Nat \ {0} /\ 0 = 0 * BYTE + 0 /\ 0 \in 0 .. BYTE - 1
    BY Parameters
  <2> QED
    BY <2>1, QuotientOf
<1>10. /\ Rest' \in LooseConsoles /\ Rest'.x = 0 /\ Rest'.y = 0 /\ Rest'.text = text
       /\ Rest'.low = 0 /\ Rest'.high = 0
  <2>1. Rest' = SetCursor(j, 0)
    BY <1>3, <1>8 DEF CursorHere
  <2> QED
    BY <1>7, <1>9, <2>1, SetCursorFields
<1>11. Shows(Rest', Cleared)
  BY <1>5, <1>10, ClearedShows
<1> QED
  BY <1>2, <1>11, ClearedType DEF ShowInv

LEMMA EchoShow ==
  ASSUME ConInv, ShowInv, NEW c \in Echoed, Echo(c)
  PROVE  ShowInv'
<1>1. CASE mpc # "idle" \/ term = Mixed
  BY <1>1 DEF ShowInv, Echo, Display
<1>2. CASE mpc = "idle" /\ term # Mixed
  <2>1. Shows(con, term) /\ ~inTab
    BY <1>2, IdleShows
  <2>2. con' = Putc(con, c) /\ term' = Display(term, c) /\ mpc' = "idle" /\ ~inTab'
    BY <1>2, <2>1 DEF Echo, tabVars
  <2>3. Shows(con', term')
    BY <2>1, <2>2, PutcShows DEF Chars
  <2>4. Rest' = con' /\ term' \in Terminals
    BY <2>2, <2>3 DEF Rest, Left, Shows
  <2> QED
    BY <2>2, <2>3, <2>4 DEF ShowInv
<1> QED
  BY <1>1, <1>2

\* A step that changes nothing of what is expected.
LEMMA KeptShow ==
  ASSUME ShowInv, Rest' = Rest, term' = term, i' = i, inTab' = inTab, mpc # "tab", mpc' # "tab"
  PROVE  ShowInv'
BY DEF ShowInv

LEMMA TabShow ==
  ASSUME ConInv, ShowInv, TabStep
  PROVE  ShowInv'
<1>1. CASE term = Mixed
  BY <1>1 DEF ShowInv, TabStep
<1>2. CASE term # Mixed
  <2>1. PICK t \in Terminals : Shows(con, WriteBlanks(t)[i]) /\ term = WriteBlanks(t)[TAB]
    BY <1>2 DEF ShowInv, TabStep
  <2> DEFINE u == WriteBlanks(t)[i]
  <2>2. con' = con /\ i' = i /\ ch' = ch /\ term' = term /\ i \in Nat /\ TAB \in Nat /\ i <= TAB
        /\ term \in Terminals
    BY <1>2, ConTypes, Parameters DEF TabStep, ShowInv
  <2>3. Shows(con, u) /\ con.x = u.col
    BY <2>1 DEF Shows
  <2>4. WriteBlanks(t)[i + 1] = IF MoreBlanks(i, u.col) THEN Write(u, Space) ELSE u
    BY <2>2, WriteBlanksSteps
  <2>5. CASE MoreBlanks(i, con.x)
    <3>1. inTab' /\ mpc' = "argY"
      BY <2>5 DEF TabStep
    <3>2. Space \notin {NewLine, Return}
      BY CharAssumption
    <3>3. Rest' = PutChar(con, Space)
      <4>1. Rest' = Stored(con, con.x, con.y, Space)
        BY <2>2, <3>1 DEF Rest, Left
      <4> QED
        BY <3>2, <4>1 DEF Stored, PutChar
    <3>4. Shows(Rest', WriteBlanks(t)[i + 1])
      BY <2>3, <2>4, <2>5, <3>3, PutCharShows DEF Chars
    <3> HIDE DEF u
    <3> QED
      BY <2>1, <2>2, <3>1, <3>4 DEF ShowInv
  <2>6. CASE ~MoreBlanks(i, con.x)
    <3>1. ~inTab' /\ mpc' = "testX"
      BY <2>6 DEF TabStep
    <3>2. term = u
      BY <2>1, <2>2, <2>3, <2>6, BlanksEnd
    <3>3. Rest' = Settle(con)
      BY <2>2, <3>1 DEF Rest, Left
    <3>4. Shows(Rest', term')
      BY <2>2, <2>3, <3>2, <3>3, SettledShows
    <3> QED
      BY <2>2, <3>1, <3>4 DEF ShowInv
  <2> QED
    BY <2>5, <2>6
<1> QED
  BY <1>1, <1>2

LEMMA CursorShow ==
  ASSUME ConInv, ShowInv, CursorStep
  PROVE  ShowInv'
<1>1. term' = term
  BY DEF CursorStep
<1>2. CASE mpc # "writeHigh"
  <2>1. Rest' = Rest /\ i' = i /\ inTab' = inTab /\ mpc # "tab" /\ mpc' # "tab"
    BY <1>2, CursorRest DEF CursorStep, Goto, tabVars
  <2> QED
    BY <1>1, <2>1, KeptShow
<1>3. CASE mpc = "writeHigh"
  <2>1. /\ con' = Rest
        /\ mpc' = IF inTab THEN "tab" ELSE "idle"
        /\ i' = IF inTab THEN i + 1 ELSE 0
        /\ ~inTab'
    BY <1>3, CursorRest DEF CursorStep, Goto
  <2>2. CASE term = Mixed
    BY <1>1, <2>2 DEF ShowInv
  <2>3. CASE term # Mixed /\ inTab
    <3>1. PICK t \in Terminals : /\ Shows(Rest, WriteBlanks(t)[i + 1])
                                 /\ term = WriteBlanks(t)[TAB]
      BY <2>3 DEF ShowInv
    <3>2. mpc' = "tab" /\ i' = i + 1 /\ term' \in Terminals
      BY <1>1, <2>1, <2>3 DEF ShowInv
    <3>3. Shows(con', WriteBlanks(t)[i']) /\ term' = WriteBlanks(t)[TAB]
      BY <1>1, <2>1, <3>1, <3>2
    <3> QED
      BY <2>1, <3>2, <3>3 DEF ShowInv
  <2>4. CASE term # Mixed /\ ~inTab
    <3>1. Shows(Rest, term) /\ term' \in Terminals
      BY <1>1, <1>3, <2>4 DEF ShowInv
    <3>2. mpc' = "idle"
      BY <2>1, <2>4
    <3>3. Rest' = con'
      BY <3>2 DEF Rest, Left
    <3>4. Shows(Rest', term')
      BY <1>1, <2>1, <3>1, <3>3
    <3> QED
      BY <2>1, <3>1, <3>2, <3>4 DEF ShowInv
  <2> QED
    BY <2>2, <2>3, <2>4
<1> QED
  BY <1>2, <1>3

LEMMA NextShow == ConInv /\ ShowInv /\ [ConsoleNext]_conVars => ShowInv'
<1> SUFFICES ASSUME ConInv, ShowInv, [ConsoleNext]_conVars PROVE ShowInv'
  OBVIOUS
<1>1. CASE UNCHANGED conVars
  <2>1. Rest' = Rest
    BY <1>1 DEF conVars, mainRegs, tabVars, Rest
  <2> QED
    BY <1>1, <2>1 DEF conVars, mainRegs, tabVars, ShowInv
<1>2. CASE SwitchStep
  <2>1. Rest' = Rest
    BY <1>2, SwitchRest
  <2>2. term' = term /\ i' = i /\ inTab' = inTab /\ mpc # "tab" /\ mpc' # "tab"
    BY <1>2 DEF SwitchStep, Goto, tabVars
  <2> QED
    BY <2>1, <2>2, KeptShow
<1>3. CASE WrapStep
  <2>1. Rest' = Rest
    BY <1>3, WrapRest
  <2>2. term' = term /\ i' = i /\ inTab' = inTab /\ mpc # "tab" /\ mpc' # "tab"
    BY <1>3 DEF WrapStep, Goto, tabVars
  <2> QED
    BY <2>1, <2>2, KeptShow
<1>4. CASE TestY
  <2>1. Rest' = Rest
    BY <1>4, TestYRest
  <2>2. term' = term /\ i' = i /\ inTab' = inTab /\ mpc # "tab" /\ mpc' # "tab"
    BY <1>4 DEF TestY, tabVars
  <2> QED
    BY <2>1, <2>2, KeptShow
<1>5. CASE ScrollRow
  <2>1. Rest' = Rest
    BY <1>5, ScrollRowRest
  <2>2. term' = term /\ i' = i /\ inTab' = inTab /\ mpc # "tab" /\ mpc' # "tab"
    BY <1>5 DEF ScrollRow, tabVars
  <2> QED
    BY <2>1, <2>2, KeptShow
<1>6. CASE ScrollY
  <2>1. Rest' = Rest
    BY <1>6, ScrollYRest
  <2>2. term' = term /\ i' = i /\ inTab' = inTab /\ mpc # "tab" /\ mpc' # "tab"
    BY <1>6 DEF ScrollY, Goto, tabVars
  <2> QED
    BY <2>1, <2>2, KeptShow
<1>7. CASE ClearRow
  <2>1. Rest' = Rest
    BY <1>7, ClearRowRest
  <2>2. term' = term /\ i' = i /\ inTab' = inTab /\ mpc # "tab" /\ mpc' # "tab"
    BY <1>7 DEF ClearRow, tabVars
  <2> QED
    BY <2>1, <2>2, KeptShow
<1>8. CASE ClearXY
  <2>1. Rest' = Rest
    BY <1>8, ClearXYRest
  <2>2. term' = term /\ i' = i /\ inTab' = inTab /\ mpc # "tab" /\ mpc' # "tab"
    BY <1>8 DEF ClearXY, Goto, tabVars
  <2> QED
    BY <2>1, <2>2, KeptShow
<1> QED
  BY <1>1, <1>2, <1>3, <1>4, <1>5, <1>6, <1>7, <1>8, CallShow, ClearShow, EchoShow, TabShow,
     CursorShow DEF ConsoleNext, MainStep

\* Between two calls, and unless an echo fell into one since it was cleared, the screen is
\* the terminal's and the hardware cursor stands behind its text.
THEOREM ScreenIsTheTerminal == ConsoleSpec => []ScreenShowsText
<1>1. ConInv /\ ShowInv => ScreenShowsText
  <2> SUFFICES ASSUME ConInv, ShowInv, mpc = "idle", term # Mixed
               PROVE  /\ \A y \in 1 .. SCREEN_HEIGHT :
                           RowAt(y - 1) = IF y <= Len(term.rows) THEN term.rows[y] ELSE Blank
                      /\ con.x = term.col /\ con.y = Len(term.rows) - 1
                      /\ con.high * BYTE + con.low = Cell(con.x, con.y)
    BY DEF ScreenShowsText
  <2>1. /\ Shows(con, term) /\ term \in Terminals
        /\ con.x = term.col /\ con.y = Len(term.rows) - 1
        /\ con.low = Cell(con.x, con.y) % BYTE /\ con.high = Cell(con.x, con.y) \div BYTE
    BY IdleShows DEF Shows
  <2>2. /\ term.rows \in Seq(Row) /\ Len(term.rows) \in 1 .. SCREEN_HEIGHT
        /\ term.col \in 0 .. SCREEN_WIDTH - 1
        /\ SCREEN_HEIGHT \in Nat
    BY <2>1, TerminalTypes, Parameters
  <2>3. con.high * BYTE + con.low = Cell(con.x, con.y)
    <3>1. con.x \in 0 .. SCREEN_WIDTH - 1 /\ con.y \in 0 .. SCREEN_HEIGHT - 1
      BY <2>1, <2>2
    <3> QED
      BY <2>1, <3>1, CursorHalves
  <2>4. ASSUME NEW y \in 1 .. SCREEN_HEIGHT
        PROVE  RowAt(y - 1) = IF y <= Len(term.rows) THEN term.rows[y] ELSE Blank
    <3> DEFINE shown == IF y <= Len(term.rows) THEN term.rows[y] ELSE Blank
    <3>1. shown \in [1 .. SCREEN_WIDTH -> Chars]
      BY <2>2, BlankType DEF Row
    <3>2. ASSUME NEW x \in 1 .. SCREEN_WIDTH PROVE RowAt(y - 1)[x] = shown[x]
      <4>1. con.text[Cell(x - 1, y - 1)] = IF y <= Len(term.rows) THEN term.rows[y][x] ELSE Nul
        BY <2>1 DEF Shows, TextShows
      <4>2. Blank[x] = Nul
        BY DEF Blank
      <4> QED
        BY <4>1, <4>2 DEF RowAt
    <3> HIDE DEF shown
    <3>3. RowAt(y - 1) = shown
      BY <3>1, <3>2 DEF RowAt
    <3> QED
      BY <3>3 DEF shown
  <2> QED
    BY <2>1, <2>3, <2>4
<1>2. ConsoleSpec => []ShowInv
  BY ConInvHolds, InitShow, NextShow, PTL DEF ConsoleSpec
<1> QED
  BY <1>1, <1>2, ConInvHolds, PTL
=============================================================================
