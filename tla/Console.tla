------------------------------ MODULE Console ------------------------------
(***************************************************************************)
(* The text console of the kernel (libs/core/stdio.c; libs/boot/stdio.c is *)
(* the same code with one writer).  The kernel's main line executes putc   *)
(* and clrscr one access to a shared variable or port at a time, as the    *)
(* unoptimised build does; the keyboard handler's echo (irq.c) is a whole  *)
(* putc between any two of them.                                           *)
(***************************************************************************)
EXTENDS Naturals, Sequences

CONSTANTS
  SCREEN_WIDTH, SCREEN_HEIGHT,   \* 80 and 25 in the code
  TAB,                           \* 4: columns between tab stops
  BYTE,                          \* 256: what fits into a register of the CRTC
  Printed,                       \* characters the main line prints
  Echoed,                        \* characters the keyboard handler echoes
  Nul, Space, NewLine, Return, Tabulator

Cell(x, y) == y * SCREEN_WIDTH + x

ASSUME ScreenAssumption ==
  /\ {SCREEN_WIDTH, SCREEN_HEIGHT, TAB, BYTE} \subseteq Nat \ {0}
  /\ SCREEN_HEIGHT >= 2
  /\ Cell(0, SCREEN_HEIGHT) <= BYTE * BYTE   \* the cursor's position has two halves

ASSUME CharAssumption ==
  /\ Tabulator \notin {NewLine, Return}
  /\ Space \notin {NewLine, Return, Tabulator}

VARIABLES
  con,       \* the console: text memory, g_ScreenX, g_ScreenY, and the CRTC's
             \* selected register and the two halves of its cursor position
  mpc,       \* where the main line is in putc or clrscr, or idle
  ch,        \* the character it prints
  rx, ry,    \* its registers
  row,       \* y of the loops of scrollback and clrscr
  i,         \* the local of the tab loop
  inTab,     \* is this putc one that the tab loop has called?
  term       \* history: what a terminal would show, or mixed

mainRegs == <<rx, ry, row>>
tabVars == <<i, inTab>>
conVars == <<con, mpc, ch, rx, ry, row, i, inTab, term>>

Chars == Printed \cup Echoed \cup {Nul, Space}
\* The screen, and two rows of the text memory behind it.
TextMemory == 0 .. Cell(0, SCREEN_HEIGHT + 2) - 1

-----------------------------------------------------------------------------
(***************************************************************************)
(* putc without interruption, on a console k.                              *)
(***************************************************************************)
PutChr(k, x, y, c) == [k EXCEPT !.text[Cell(x, y)] = c]

\* setcursor, whose last port write leaves the high half selected.
SetCursor(k, pos) ==
  [k EXCEPT !.low = pos % BYTE, !.high = (pos \div BYTE) % BYTE, !.select = "high"]

\* scrollback(1)
Scrollback(k) ==
  [k EXCEPT !.y = @ - 1,
            !.text = [s \in TextMemory |->
                        IF s < Cell(0, SCREEN_HEIGHT - 1) THEN k.text[s + SCREEN_WIDTH]
                        ELSE IF s < Cell(0, SCREEN_HEIGHT) THEN Nul
                        ELSE k.text[s]]]

\* What putc does after its switch: wrap, scroll, move the cursor.
Settle(k) ==
  LET wrapped == IF k.x >= SCREEN_WIDTH THEN [k EXCEPT !.y = @ + 1, !.x = 0] ELSE k
      settled == IF wrapped.y >= SCREEN_HEIGHT THEN Scrollback(wrapped) ELSE wrapped
  IN SetCursor(settled, Cell(settled.x, settled.y))

PutChar(k, c) ==
  Settle(IF c = NewLine THEN [k EXCEPT !.x = 0, !.y = @ + 1]
         ELSE IF c = Return THEN [k EXCEPT !.x = 0]
         ELSE [PutChr(k, k.x, k.y, c) EXCEPT !.x = @ + 1])

\* Does the tab loop go on after n blanks?  Its bound is computed again each time,
\* from the new column.
MoreBlanks(n, x) == n < TAB - (x % TAB)

\* The console after at most n iterations of the tab loop.
TabLoop(k) ==
  LET after[n \in Nat] ==
        IF n = 0 THEN k
        ELSE IF MoreBlanks(n - 1, after[n - 1].x) THEN PutChar(after[n - 1], Space)
        ELSE after[n - 1]
  IN after

PutTab(k) == Settle(TabLoop(k)[TAB])

Putc(k, c) == IF c = Tabulator THEN PutTab(k) ELSE PutChar(k, c)

-----------------------------------------------------------------------------
(***************************************************************************)
(* A terminal: rows of characters, of which the last SCREEN_HEIGHT show,   *)
(* and a column to write at.                                               *)
(***************************************************************************)
Blank == [x \in 1 .. SCREEN_WIDTH |-> Nul]
Mixed == [rows |-> <<>>, col |-> 0]
Cleared == [rows |-> <<Blank>>, col |-> 0]

NextRow(t) ==
  LET rows == Append(t.rows, Blank)
  IN [rows |-> IF Len(rows) > SCREEN_HEIGHT THEN Tail(rows) ELSE rows, col |-> 0]

Write(t, c) ==
  IF c = NewLine THEN NextRow(t)
  ELSE IF c = Return THEN [t EXCEPT !.col = 0]
  ELSE LET w == [rows |-> [t.rows EXCEPT ![Len(t.rows)][t.col + 1] = c], col |-> t.col + 1]
       IN IF w.col = SCREEN_WIDTH THEN NextRow(w) ELSE w

\* A tab stands for the blanks putc makes of it at this column.
WriteBlanks(t) ==
  LET after[n \in Nat] ==
        IF n = 0 THEN t
        ELSE IF MoreBlanks(n - 1, after[n - 1].col) THEN Write(after[n - 1], Space)
        ELSE after[n - 1]
  IN after

Display(t, c) ==
  IF t = Mixed THEN Mixed
  ELSE IF c = Tabulator THEN WriteBlanks(t)[TAB]
  ELSE Write(t, c)

-----------------------------------------------------------------------------
\* The kernel has just cleared the screen for the command line.
ConsoleInit ==
  /\ con = [text |-> [s \in TextMemory |-> Nul], x |-> 0, y |-> 0,
            select |-> "high", low |-> 0, high |-> 0]
  /\ mpc = "idle"
  /\ ch = Nul
  /\ rx = 0 /\ ry = 0 /\ row = 0
  /\ i = 0 /\ inTab = FALSE
  /\ term = Cleared

Goto(from, to) == mpc = from /\ mpc' = to

\* Where the switch of putc goes.
Branch(c) ==
  IF c = NewLine THEN "newline"
  ELSE IF c = Return THEN "return"
  ELSE IF c = Tabulator THEN "tab"
  ELSE "argY"

CallPutc(c) ==
  /\ Goto("idle", Branch(c))
  /\ ch' = c
  /\ term' = Display(term, c)
  /\ UNCHANGED <<con, mainRegs, tabVars>>

Clear ==
  /\ Goto("idle", "clear")
  /\ row' = 0
  /\ term' = Cleared
  /\ UNCHANGED <<con, ch, rx, ry, tabVars>>

\* The keyboard handler's printf("%c", c).
Echo(c) ==
  /\ con' = Putc(con, c)
  /\ term' = IF mpc = "idle" THEN Display(term, c) ELSE Mixed
  /\ UNCHANGED <<mpc, ch, mainRegs, tabVars>>

\* A load of g_ScreenX or g_ScreenY into a register.
LoadX == rx' = con.x /\ UNCHANGED <<con, ry>>
LoadY == ry' = con.y /\ UNCHANGED <<con, rx>>
SetX(x) == con' = [con EXCEPT !.x = x] /\ UNCHANGED <<rx, ry>>
SetY(y) == con' = [con EXCEPT !.y = y] /\ UNCHANGED <<rx, ry>>

\* The switch: each case as its loads and stores, g_ScreenX++ as one of each.
SwitchStep ==
  /\ \/ Goto("newline", "newlineY") /\ SetX(0)
     \/ Goto("newlineY", "newlineInc") /\ LoadY
     \/ Goto("newlineInc", "testX") /\ SetY(ry + 1)
     \/ Goto("return", "testX") /\ SetX(0)
     \/ Goto("argY", "argX") /\ LoadY
     \/ Goto("argX", "putchr") /\ LoadX
     \/ Goto("putchr", "loadX") /\ con' = PutChr(con, rx, ry, IF inTab THEN Space ELSE ch)
                                /\ UNCHANGED <<rx, ry>>
     \/ Goto("loadX", "incX") /\ LoadX
     \/ Goto("incX", "testX") /\ SetX(rx + 1)
  /\ UNCHANGED <<ch, row, tabVars, term>>

\* The tab loop calls putc for a blank, or is done.
TabStep ==
  /\ mpc = "tab"
  /\ inTab' = MoreBlanks(i, con.x)
  /\ mpc' = IF inTab' THEN "argY" ELSE "testX"
  /\ UNCHANGED <<con, ch, mainRegs, i, term>>

\* Bug: the row is advanced but the column not reset.
BugWrapKeepsX ==
  /\ \/ mpc = "testX" /\ mpc' = (IF con.x >= SCREEN_WIDTH THEN "wrapY" ELSE "testY")
                      /\ UNCHANGED <<con, rx, ry>>
     \/ Goto("wrapY", "wrapInc") /\ LoadY
     \/ Goto("wrapInc", "testY") /\ SetY(ry + 1)
  /\ UNCHANGED <<ch, row, tabVars, term>>

\* The end of a row.
WrapStep ==
  /\ \/ mpc = "testX" /\ mpc' = (IF con.x >= SCREEN_WIDTH THEN "wrapY" ELSE "testY")
                      /\ UNCHANGED <<con, rx, ry>>
     \/ Goto("wrapY", "wrapInc") /\ LoadY
     \/ Goto("wrapInc", "wrapX") /\ SetY(ry + 1)
     \/ Goto("wrapX", "testY") /\ SetX(0)
  /\ UNCHANGED <<ch, row, tabVars, term>>

\* Bug: the row below the screen does not make it scroll.
BugTestYLate ==
  /\ mpc = "testY"
  /\ mpc' = IF con.y > SCREEN_HEIGHT THEN "scroll" ELSE "cursorY"
  /\ row' = IF mpc' = "scroll" THEN 1 ELSE 0
  /\ UNCHANGED <<con, ch, rx, ry, tabVars, term>>

TestY ==
  /\ mpc = "testY"
  /\ mpc' = IF con.y >= SCREEN_HEIGHT THEN "scroll" ELSE "cursorY"
  /\ row' = IF mpc' = "scroll" THEN 1 ELSE 0
  /\ UNCHANGED <<con, ch, rx, ry, tabVars, term>>

\* A row of the text memory replaced; an echo within a row is not distinguished
\* from one before or after it.
SetRow(y, chars) ==
  con' = [con EXCEPT !.text = [s \in TextMemory |->
            IF s \div SCREEN_WIDTH = y THEN chars[(s % SCREEN_WIDTH) + 1] ELSE @[s]]]

RowAt(y) == [x \in 1 .. SCREEN_WIDTH |-> con.text[Cell(x - 1, y)]]

\* Bug: the last row is not moved up.
BugScrollShort ==
  /\ mpc = "scroll"
  /\ IF row < SCREEN_HEIGHT - 1
     THEN SetRow(row - 1, RowAt(row)) /\ row' = row + 1 /\ UNCHANGED mpc
     ELSE SetRow(SCREEN_HEIGHT - 1, Blank) /\ mpc' = "scrollY" /\ row' = 0
  /\ UNCHANGED <<ch, rx, ry, tabVars, term>>

\* scrollback(1)
ScrollRow ==
  /\ mpc = "scroll"
  /\ IF row < SCREEN_HEIGHT
     THEN SetRow(row - 1, RowAt(row)) /\ row' = row + 1 /\ UNCHANGED mpc
     ELSE SetRow(SCREEN_HEIGHT - 1, Blank) /\ mpc' = "scrollY" /\ row' = 0
  /\ UNCHANGED <<ch, rx, ry, tabVars, term>>

ScrollY ==
  /\ \/ Goto("scrollY", "scrollDec") /\ LoadY
     \/ Goto("scrollDec", "cursorY") /\ SetY(ry - 1)
  /\ UNCHANGED <<ch, row, tabVars, term>>

ClearRow ==
  /\ mpc = "clear"
  /\ IF row < SCREEN_HEIGHT
     THEN SetRow(row, Blank) /\ row' = row + 1 /\ UNCHANGED mpc
     ELSE mpc' = "clearX" /\ row' = 0 /\ UNCHANGED con
  /\ UNCHANGED <<ch, rx, ry, tabVars, term>>

ClearXY ==
  /\ \/ Goto("clearX", "clearY") /\ SetX(0)
     \/ Goto("clearY", "cursorY") /\ SetY(0)
  /\ UNCHANGED <<ch, row, tabVars, term>>

\* A write to the data port of the CRTC goes to the register selected.
CrtcData(byte) ==
  con' = IF con.select = "low" THEN [con EXCEPT !.low = byte]
                               ELSE [con EXCEPT !.high = byte]

\* Bug: the tab loop does not count.
BugTabNotCounted ==
  /\ \/ Goto("cursorY", "cursorX") /\ LoadY
     \/ Goto("cursorX", "writeHigh") /\ LoadX
     \/ Goto("writeHigh", IF inTab THEN "tab" ELSE "idle") /\ UNCHANGED <<con, rx, ry>>
  /\ inTab' = (mpc' # "idle" /\ inTab)
  /\ UNCHANGED <<ch, row, i, term>>

\* setcursor(g_ScreenX, g_ScreenY), and the return of putc or clrscr, where the
\* registers are dead.
CursorStep ==
  /\ \/ Goto("cursorY", "cursorX") /\ LoadY /\ UNCHANGED tabVars
     \/ Goto("cursorX", "selectLow") /\ LoadX /\ UNCHANGED tabVars
     \/ Goto("selectLow", "writeLow") /\ con' = [con EXCEPT !.select = "low"]
                                      /\ UNCHANGED <<rx, ry, tabVars>>
     \/ Goto("writeLow", "selectHigh") /\ CrtcData(Cell(rx, ry) % BYTE)
                                       /\ UNCHANGED <<rx, ry, tabVars>>
     \/ Goto("selectHigh", "writeHigh") /\ con' = [con EXCEPT !.select = "high"]
                                        /\ UNCHANGED <<rx, ry, tabVars>>
     \/ /\ Goto("writeHigh", IF inTab THEN "tab" ELSE "idle")
        /\ CrtcData((Cell(rx, ry) \div BYTE) % BYTE)
        /\ i' = IF inTab THEN i + 1 ELSE 0
        /\ inTab' = FALSE
        /\ rx' = 0 /\ ry' = 0
  /\ UNCHANGED <<ch, row, term>>

MainStep ==
  \/ SwitchStep \/ TabStep \/ WrapStep \/ TestY \/ ScrollRow \/ ScrollY
  \/ ClearRow \/ ClearXY \/ CursorStep

ConsoleNext ==
  \/ \E c \in Printed : CallPutc(c)
  \/ Clear
  \/ \E c \in Echoed : Echo(c)
  \/ MainStep

ConsoleSpec == ConsoleInit /\ [][ConsoleNext]_conVars
FairConsoleSpec == ConsoleSpec /\ WF_conVars(MainStep)

-----------------------------------------------------------------------------
ConsoleTypeOK ==
  /\ con.text \in [TextMemory -> Chars]
  /\ con.x \in 0 .. SCREEN_WIDTH /\ con.y \in 0 .. SCREEN_HEIGHT
  /\ {con.low, con.high} \subseteq 0 .. BYTE - 1 /\ con.select \in {"low", "high"}
  /\ {rx, ry, row, i} \subseteq Nat /\ inTab \in BOOLEAN

\* No character is ever stored outside of the screen and the two rows of text
\* memory behind it, by the main line with the position it has loaded or by the
\* echo with the position it finds, wherever in putc or clrscr the echo falls.
InTextMemory ==
  /\ Cell(con.x, con.y) \in TextMemory
  /\ mpc = "putchr" => Cell(rx, ry) \in TextMemory

\* Between two calls of the main line the position is on the screen, whatever
\* increments and tests of it the echoes have interrupted.
CursorOnScreen ==
  mpc = "idle" => con.x < SCREEN_WIDTH /\ con.y < SCREEN_HEIGHT

\* As long as keys are echoed only between the main line's calls, the screen shows
\* the last rows of all that was printed and echoed since it was cleared, and the
\* hardware cursor stands behind it.  Once an echo has fallen into a call, which
\* may overwrite a character or leave the cursor's halves exchanged, clrscr makes
\* it true again.
ScreenShowsText ==
  mpc = "idle" /\ term # Mixed =>
    /\ \A y \in 1 .. SCREEN_HEIGHT :
         RowAt(y - 1) = IF y <= Len(term.rows) THEN term.rows[y] ELSE Blank
    /\ con.x = term.col /\ con.y = Len(term.rows) - 1
    /\ con.high * BYTE + con.low = Cell(con.x, con.y)

\* A call of putc or clrscr returns, though an echo may move the column the tab
\* loop computes its bound from.
PutcReturns == mpc # "idle" ~> mpc = "idle"
=============================================================================
