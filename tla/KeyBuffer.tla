----------------------------- MODULE KeyBuffer -----------------------------
(***************************************************************************)
(* The keyboard ring buffer of kernel/arch/i686/irq.c.  The producer is    *)
(* i686_IRQ_keyboardHandler, which runs behind an interrupt gate and so is *)
(* one step for the code it interrupts.  The consumer is                   *)
(* i686_IRQ_ReadChar, which runs with interrupts enabled: the handler can  *)
(* run between any two of its loads and stores.                            *)
(***************************************************************************)
EXTENDS Naturals, Sequences

CONSTANTS
  BUFFER_SIZE,  \* slots of keyBuffer (1024 in the code)
  Chars,        \* the characters of the keymap
  Nul,          \* keymap entry 0: what every unmapped key (shift, F1) stores
  ScanCodes,    \* what the keyboard controller's data port can hold
  keymap        \* the make codes, each with its character

ASSUME SizeAssumption == BUFFER_SIZE \in Nat /\ BUFFER_SIZE >= 2
ASSUME CharAssumption == Nul \in Chars
ASSUME KeymapAssumption ==
  /\ DOMAIN keymap \subseteq ScanCodes
  /\ \A s \in DOMAIN keymap : keymap[s] \in Chars

VARIABLES
  keyBuffer, bufferHead, bufferTail,
  rpc,    \* where i686_IRQ_ReadChar is: idle (not called), wait, compare,
          \* load or advance
  seen,   \* the register holding bufferHead for the comparison of the wait loop
  c,      \* the local of i686_IRQ_ReadChar
  ret     \* the character its last call returned

ringVars == <<keyBuffer, bufferHead, bufferTail>>
readVars == <<rpc, seen, c, ret>>
vars == <<keyBuffer, bufferHead, bufferTail, rpc, seen, c, ret>>

Slots == 0 .. BUFFER_SIZE - 1

\* Bug: the index does not wrap.
BugSuccNoWrap(x) == x + 1

\* (x + 1) % BUFFER_SIZE
Succ(x) == (x + 1) % BUFFER_SIZE

Init ==
  /\ keyBuffer = [s \in Slots |-> Nul]
  /\ bufferHead = 0
  /\ bufferTail = 0
  /\ rpc = "idle"
  /\ seen = 0
  /\ c \in Chars      \* not initialised
  /\ ret \in Chars    \* nothing returned yet

-----------------------------------------------------------------------------
\* Bug: a full buffer is not noticed.
BugStoreIgnoresFull(ch) ==
  /\ keyBuffer' = [keyBuffer EXCEPT ![bufferHead] = ch]
  /\ bufferHead' = Succ(bufferHead)
  /\ UNCHANGED bufferTail

\* Bug: the slot after the head is written.
BugStoreAtNext(ch) ==
  LET nextHead == Succ(bufferHead)
  IN IF nextHead # bufferTail
     THEN /\ keyBuffer' = [keyBuffer EXCEPT ![nextHead] = ch]
          /\ bufferHead' = nextHead
          /\ UNCHANGED bufferTail
     ELSE UNCHANGED ringVars

\* Bug: a full buffer makes room by dropping the oldest character.
BugStoreDropsOldest(ch) ==
  LET nextHead == Succ(bufferHead)
  IN /\ keyBuffer' = [keyBuffer EXCEPT ![bufferHead] = ch]
     /\ bufferHead' = nextHead
     /\ bufferTail' = IF nextHead = bufferTail THEN Succ(bufferTail) ELSE bufferTail

\* The handler's work on the buffer for one character: a slot is always left
\* empty, and a character that would fill it is dropped without a word.
StoreChar(ch) ==
  LET nextHead == Succ(bufferHead)
  IN IF nextHead # bufferTail
     THEN /\ keyBuffer' = [keyBuffer EXCEPT ![bufferHead] = ch]
          /\ bufferHead' = nextHead
          /\ UNCHANGED bufferTail
     ELSE UNCHANGED ringVars

\* i686_IRQ_keyboardHandler; release codes only read the port.
KeyboardHandler(ioCode) ==
  /\ IF ioCode \in DOMAIN keymap
     THEN StoreChar(keymap[ioCode])
     ELSE UNCHANGED ringVars
  /\ UNCHANGED readVars

\* fgets calls i686_IRQ_ReadChar.
CallReadChar ==
  /\ rpc = "idle"
  /\ rpc' = "wait"
  /\ UNCHANGED <<ringVars, seen, c, ret>>

\* The wait loop loads bufferHead ...
WaitLoadHead ==
  /\ rpc = "wait"
  /\ seen' = bufferHead
  /\ rpc' = "compare"
  /\ UNCHANGED <<ringVars, c, ret>>

\* Bug: bufferHead is not volatile, and its load is hoisted out of the loop.
BugWaitHoisted ==
  /\ rpc = "compare"
  /\ rpc' = IF seen = bufferTail THEN "compare" ELSE "load"
  /\ UNCHANGED <<ringVars, seen, c, ret>>

\* ... and compares it with bufferTail; a key may have come in between.
WaitCompare ==
  /\ rpc = "compare"
  /\ rpc' = IF seen = bufferTail THEN "wait" ELSE "load"
  /\ UNCHANGED <<ringVars, seen, c, ret>>

LoadChar ==
  /\ rpc = "load"
  /\ c' = keyBuffer[bufferTail]
  /\ rpc' = "advance"
  /\ UNCHANGED <<ringVars, seen, ret>>

AdvanceTail ==
  /\ rpc = "advance"
  /\ bufferTail' = Succ(bufferTail)
  /\ ret' = c
  /\ rpc' = "idle"
  /\ UNCHANGED <<keyBuffer, bufferHead, seen, c>>

\* The steps of i686_IRQ_ReadChar once it is called.
ReadCharStep == WaitLoadHead \/ WaitCompare \/ LoadChar \/ AdvanceTail

Next ==
  \/ \E ioCode \in ScanCodes : KeyboardHandler(ioCode)
  \/ CallReadChar
  \/ ReadCharStep

Spec == Init /\ [][Next]_vars

\* The processor keeps executing the reader: interrupt handlers end.
FairSpec == Spec /\ WF_vars(ReadCharStep)

-----------------------------------------------------------------------------
\* The characters waiting, oldest first, as a sequence.
Used == IF bufferHead >= bufferTail
        THEN bufferHead - bufferTail
        ELSE bufferHead + BUFFER_SIZE - bufferTail

\* The slot of the i-th waiting character.
SlotOf(i) == IF bufferTail + i - 1 < BUFFER_SIZE
             THEN bufferTail + i - 1
             ELSE bufferTail + i - 1 - BUFFER_SIZE

Unread == [i \in 1 .. Used |-> keyBuffer[SlotOf(i)]]

\* Every index stays within keyBuffer, and every stored byte is a character.
TypeOK ==
  /\ keyBuffer \in [Slots -> Chars]
  /\ bufferHead \in Slots
  /\ bufferTail \in Slots
  /\ rpc \in {"idle", "wait", "compare", "load", "advance"}
  /\ seen \in Slots
  /\ c \in Chars
  /\ ret \in Chars

\* The reader is let through only while a character waits, though it compares
\* a copy of bufferHead that may be stale; and between its load and its store of
\* bufferTail it holds the oldest unread character: however many keys arrive in
\* between (the buffer may fill up), the slot it read is not reused under it.
ReaderHoldsOldest ==
  /\ rpc \in {"load", "advance"} => bufferHead # bufferTail
  /\ rpc = "advance" => c = keyBuffer[bufferTail]

\* A key pressed while a slot is free beyond the one always left empty is not
\* lost: its own character becomes the last of those waiting, behind all others.
KeyIsAppended ==
  [][\A s \in DOMAIN keymap :
       KeyboardHandler(s) /\ Used < BUFFER_SIZE - 1
         => Unread' = Append(Unread, keymap[s])]_vars

\* The buffer implements the bounded queue: the characters accepted come out
\* once each and in order, wherever in i686_IRQ_ReadChar the handler runs.  The
\* store to bufferTail is the moment a character leaves the queue.
Abs == INSTANCE KeyQueue
         WITH queue <- Unread, Capacity <- BUFFER_SIZE - 1

ImplementsQueue == Abs!Spec

\* A call of i686_IRQ_ReadChar returns once a character is waiting, whatever
\* the keyboard does meanwhile.
ReadCharReturns == rpc # "idle" /\ bufferHead # bufferTail ~> rpc = "idle"
=============================================================================
