----------------------------- MODULE LineInput -----------------------------
(***************************************************************************)
(* Lines of keyboard input: the loop of Command_Line_Interface (libs/core/ *)
(* cli.c) calls fgets (libs/core/stdio.c), which takes characters from the *)
(* ring buffer of module KeyBuffer while the keyboard handler goes on      *)
(* filling it, also while the command line is busy with the last line.     *)
(***************************************************************************)
EXTENDS KeyBuffer, SequencesExt

CONSTANTS
  n,            \* size of the line buffer given to fgets (256 in the code)
  Newline,      \* '\n' and '\r', which fgets treats alike
  Backspace,    \* '\b'
  MaxKeys       \* bound: characters typed and accepted in one behaviour

ASSUME LineAssumption == n \in Nat /\ n >= 2 /\ MaxKeys \in Nat
ASSUME EditCharAssumption ==
  {Newline, Backspace} \subseteq Chars \ {Nul} /\ Newline # Backspace

VARIABLES
  str,      \* the line buffer; it keeps the previous line's bytes
  i,        \* the local of fgets
  fpc,      \* cli: the command line runs; loop, got, end: in fgets
  typed,    \* history: the characters accepted by the handler
  lines     \* history: the strings fgets has handed to the command line

lineVars == <<str, i, fpc>>
inputVars == <<keyBuffer, bufferHead, bufferTail, rpc, seen, c, ret,
               str, i, fpc, typed, lines>>

\* The C string in a buffer: what comes before its first Nul.
CString(s) ==
  LET end == CHOOSE e \in DOMAIN s : s[e] = Nul /\ \A k \in 0 .. e - 1 : s[k] # Nul
  IN [k \in 1 .. end |-> s[k - 1]]

LineInit ==
  /\ Init
  /\ c = Nul /\ ret = Nul
  /\ str = [k \in 0 .. n - 1 |-> Nul]
  /\ i = 0
  /\ fpc = "cli"
  /\ typed = <<>>
  /\ lines = <<>>

\* The keyboard handler, at any moment; typed records what it stored.
TypeKey(ioCode) ==
  /\ Len(typed) < MaxKeys
  /\ KeyboardHandler(ioCode)
  /\ typed' = IF bufferHead' # bufferHead
              THEN Append(typed, keymap[ioCode]) ELSE typed
  /\ UNCHANGED <<lineVars, lines>>

\* The command line is done with a line and asks for the next.
CallFgets ==
  /\ fpc = "cli"
  /\ fpc' = "loop"
  /\ i' = 0
  /\ UNCHANGED <<ringVars, readVars, str, typed, lines>>

\* Bug: no place is kept for the terminator.
BugLoopFillsBuffer ==
  /\ fpc = "loop"
  /\ IF i < n
     THEN CallReadChar /\ fpc' = "got"
     ELSE fpc' = "end" /\ UNCHANGED <<ringVars, readVars>>
  /\ UNCHANGED <<str, i, typed, lines>>

\* The head of the loop: while (i < n - 1) c = i686_IRQ_ReadChar().
FgetsLoop ==
  /\ fpc = "loop"
  /\ IF i < n - 1
     THEN CallReadChar /\ fpc' = "got"
     ELSE fpc' = "end" /\ UNCHANGED <<ringVars, readVars>>
  /\ UNCHANGED <<str, i, typed, lines>>

\* i686_IRQ_ReadChar runs.
FgetsRead ==
  /\ fpc = "got"
  /\ ReadCharStep
  /\ UNCHANGED <<lineVars, typed, lines>>

\* Bug: the newline is stored but the loop goes on.
BugNewlineNoBreak ==
  /\ fpc = "got"
  /\ rpc = "idle"
  /\ fpc' = "loop"
  /\ i' = IF ret # Backspace THEN i + 1 ELSE IF i > 0 THEN i - 1 ELSE i
  /\ str' = IF ret # Backspace THEN [str EXCEPT ![i] = ret] ELSE str
  /\ UNCHANGED <<ringVars, readVars, typed, lines>>

\* The body of the loop, with the character read.
FgetsChar ==
  /\ fpc = "got"
  /\ rpc = "idle"
  /\ \/ /\ ret = Newline
        /\ str' = [str EXCEPT ![i] = ret]
        /\ i' = i + 1
        /\ fpc' = "end"
     \/ /\ ret = Backspace
        /\ i' = IF i > 0 THEN i - 1 ELSE i
        /\ fpc' = "loop"
        /\ UNCHANGED str
     \/ /\ ret \notin {Newline, Backspace}
        /\ str' = [str EXCEPT ![i] = ret]
        /\ i' = i + 1
        /\ fpc' = "loop"
  /\ UNCHANGED <<ringVars, readVars, typed, lines>>

\* Bug: the line is not terminated.
BugReturnUnterminated ==
  /\ fpc = "end"
  /\ lines' = Append(lines, CString(str))
  /\ fpc' = "cli"
  /\ UNCHANGED <<ringVars, readVars, str, i, typed>>

\* The terminator, and the return to the command line, which uses the buffer
\* whatever the result; the result is NULL for i = 0 only.
FgetsReturn ==
  /\ fpc = "end"
  /\ str' = [str EXCEPT ![i] = Nul]
  /\ lines' = Append(lines, CString(str'))
  /\ fpc' = "cli"
  /\ UNCHANGED <<ringVars, readVars, i, typed>>

FgetsStep == FgetsLoop \/ FgetsRead \/ FgetsChar \/ FgetsReturn

LineNext ==
  \/ \E ioCode \in ScanCodes : TypeKey(ioCode)
  \/ CallFgets
  \/ FgetsStep

LineSpec == LineInit /\ [][LineNext]_inputVars

\* The processor keeps executing fgets.  Nothing makes the command line come
\* back for another line: a command may run for ever.
FairLineSpec == LineSpec /\ WF_inputVars(FgetsStep)

-----------------------------------------------------------------------------
\* The editor a user of the keyboard expects, over whole sequences: a line ends
\* at a newline, which belongs to it, or when it is full; a backspace removes
\* the last character of the current line; a line is seen up to its first Nul.
UpToNul(line) == LET k == SelectInSeq(line, LAMBDA ch : ch = Nul)
                 IN IF k = 0 THEN line ELSE SubSeq(line, 1, k - 1)

Edit(state, ch) ==
  LET line == IF ch # Backspace THEN Append(state.line, ch)
              ELSE IF state.line = <<>> THEN <<>> ELSE Front(state.line)
  IN IF ch = Newline \/ Len(line) = n - 1
     THEN [done |-> Append(state.done, UpToNul(line)), line |-> <<>>]
     ELSE [done |-> state.done, line |-> line]

\* What is left after each of the keys.
Edits(keys) ==
  LET after[k \in 0 .. Len(keys)] ==
        IF k = 0 THEN [done |-> <<>>, line |-> <<>>] ELSE Edit(after[k - 1], keys[k])
  IN after
Edited(keys) == Edits(keys)[Len(keys)]

\* The characters read so far: those accepted and no longer in the ring.
Consumed == SubSeq(typed, 1, Len(typed) - Used)

-----------------------------------------------------------------------------
\* fgets stays within the line buffer, where the terminator must fit too.
LineTypeOK ==
  /\ TypeOK
  /\ str \in [0 .. n - 1 -> Chars]
  /\ i \in 0 .. n - 1
  /\ fpc \in {"cli", "loop", "got", "end"}
  /\ fpc = "got" => i < n - 1
  /\ rpc # "idle" => fpc = "got"

\* The command line never works on a buffer fgets did not fill: fgets has no
\* empty line to return, though Command_Line_Interface does not test for NULL.
NeverNull == fpc = "end" => i > 0

\* Whenever the command line runs, the lines it has been given are exactly those
\* the editor makes of the characters read: none lost or repeated between two
\* calls of fgets, no byte of an earlier line showing through in a later one,
\* no line begun and forgotten, and no call of fgets without one.
LinesAreEdited ==
  /\ fpc = "cli" => Edited(Consumed) = [done |-> lines, line |-> <<>>]
  /\ NeverNull

\* A newline that was accepted while fgets reads makes fgets return, whatever is
\* typed in between.
NewlineDelivers ==
  fpc # "cli" /\ Newline \in Range(Unread) ~> fpc = "cli"
=============================================================================
