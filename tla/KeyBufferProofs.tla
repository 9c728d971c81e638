-------------------------- MODULE KeyBufferProofs --------------------------
(***************************************************************************)
(* The keyboard buffer is safe, and implements the bounded queue, for      *)
(* every buffer size and every keymap.                                     *)
(***************************************************************************)
EXTENDS KeyBuffer, SequenceTheorems, TLAPS

\* The inductive invariant.  ReaderHoldsOldest alone is not inductive: the wait
\* loop decides on the copy of bufferHead it took earlier, and what makes that
\* sound is that a difference once seen stays, since only the reader empties the
\* buffer.
IInv ==
  /\ TypeOK
  /\ ReaderHoldsOldest
  /\ rpc = "compare" /\ seen # bufferTail => bufferHead # bufferTail

-----------------------------------------------------------------------------
\* (x + 1) % BUFFER_SIZE without the division: the SMT solver reasons about this
\* form.
LEMMA SuccCases ==
  ASSUME NEW x \in Slots
  PROVE  /\ Succ(x) = IF x + 1 = BUFFER_SIZE THEN 0 ELSE x + 1
         /\ Succ(x) \in Slots
<1>1. BUFFER_SIZE \in Nat /\ BUFFER_SIZE >= 2
  BY SizeAssumption
<1>2. CASE x + 1 = BUFFER_SIZE
  <2>1. BUFFER_SIZE % BUFFER_SIZE = 0
    BY <1>1
  <2> QED
    BY <1>1, <1>2, <2>1 DEF Succ, Slots
<1>3. CASE x + 1 # BUFFER_SIZE
  <2>1. x + 1 \in 0 .. BUFFER_SIZE - 1
    BY <1>1, <1>3 DEF Slots
  <2>2. (x + 1) % BUFFER_SIZE = x + 1
    BY <1>1, <2>1
  <2> QED
    BY <1>3, <2>1, <2>2 DEF Succ, Slots
<1> QED
  BY <1>2, <1>3

LEMMA InitIInv == Init => IInv
<1> SUFFICES ASSUME Init PROVE IInv
  OBVIOUS
<1>1. Nul \in Chars /\ 0 \in Slots
  BY CharAssumption, SizeAssumption DEF Slots
<1> QED
  BY <1>1 DEF Init, IInv, TypeOK, ReaderHoldsOldest

\* One key press: the reader's slot survives it, and the buffer does not become
\* empty by it.
LEMMA KeyboardHandlerIInv ==
  ASSUME IInv, NEW ioCode \in ScanCodes, KeyboardHandler(ioCode)
  PROVE  IInv'
<1> USE DEF IInv, KeyboardHandler, readVars, ringVars
<1>1. CASE UNCHANGED ringVars
  BY <1>1 DEF TypeOK, ReaderHoldsOldest
<1>2. CASE ~ UNCHANGED ringVars
  <2> DEFINE ch == keymap[ioCode]
  <2>1. ioCode \in DOMAIN keymap /\ StoreChar(ch) /\ Succ(bufferHead) # bufferTail
    BY <1>2 DEF StoreChar
  <2>2. ch \in Chars
    BY <2>1, KeymapAssumption
  <2>3. /\ keyBuffer' = [keyBuffer EXCEPT ![bufferHead] = ch]
        /\ bufferHead' = Succ(bufferHead)
        /\ bufferTail' = bufferTail
        /\ UNCHANGED <<rpc, seen, c, ret>>
    BY <2>1 DEF StoreChar
  <2> HIDE DEF ch
  <2>4. Succ(bufferHead) \in Slots
    BY SuccCases DEF TypeOK
  <2>5. TypeOK'
    BY <2>2, <2>3, <2>4 DEF TypeOK
  <2>6. bufferHead' # bufferTail'
    BY <2>1, <2>3
  <2>7. ReaderHoldsOldest'
    BY <2>3, <2>6 DEF ReaderHoldsOldest, TypeOK
  <2> QED
    BY <2>5, <2>6, <2>7
<1> QED
  BY <1>1, <1>2

LEMMA NextIInv == IInv /\ [Next]_vars => IInv'
<1> SUFFICES ASSUME IInv, [Next]_vars PROVE IInv'
  OBVIOUS
<1> USE DEF IInv, ringVars
<1>1. CASE \E ioCode \in ScanCodes : KeyboardHandler(ioCode)
  BY <1>1, KeyboardHandlerIInv
<1>2. CASE CallReadChar
  BY <1>2 DEF CallReadChar, TypeOK, ReaderHoldsOldest
<1>3. CASE WaitLoadHead
  BY <1>3 DEF WaitLoadHead, TypeOK, ReaderHoldsOldest
<1>4. CASE WaitCompare
  BY <1>4 DEF WaitCompare, TypeOK, ReaderHoldsOldest
<1>5. CASE LoadChar
  BY <1>5 DEF LoadChar, TypeOK, ReaderHoldsOldest
<1>6. CASE AdvanceTail
  <2>1. Succ(bufferTail) \in Slots
    BY SuccCases DEF TypeOK
  <2> QED
    BY <1>6, <2>1 DEF AdvanceTail, TypeOK, ReaderHoldsOldest
<1>7. CASE UNCHANGED vars
  BY <1>7 DEF vars, TypeOK, ReaderHoldsOldest
<1> QED
  BY <1>1, <1>2, <1>3, <1>4, <1>5, <1>6, <1>7 DEF Next, ReadCharStep

\* The invariant holds of every run of the driver.
THEOREM IInvHolds == Spec => []IInv
BY InitIInv, NextIInv, PTL DEF Spec

\* Every index stays within keyBuffer, for every size.
THEOREM TypeCorrect == Spec => []TypeOK
<1>1. IInv => TypeOK
  BY DEF IInv
<1> QED
  BY <1>1, IInvHolds, PTL

\* i686_IRQ_ReadChar never returns from an empty buffer and the character it
\* returns is the oldest unread one, wherever key presses interrupt it.
THEOREM ReaderIsSafe == Spec => []ReaderHoldsOldest
<1>1. IInv => ReaderHoldsOldest
  BY DEF IInv
<1> QED
  BY <1>1, IInvHolds, PTL

-----------------------------------------------------------------------------
\* The sequence of waiting characters has between none and BUFFER_SIZE - 1
\* elements, and each of them sits in a slot of its own.
LEMMA UnreadShape ==
  ASSUME TypeOK
  PROVE  /\ Used \in 0 .. BUFFER_SIZE - 1
         /\ Used = 0 <=> bufferHead = bufferTail
         /\ \A i \in 1 .. Used : SlotOf(i) \in Slots /\ SlotOf(i) # bufferHead
         /\ Unread \in Seq(Chars)
         /\ Len(Unread) = Used
<1> USE SizeAssumption DEF TypeOK
<1>1. Used \in 0 .. BUFFER_SIZE - 1
  BY DEF Used, Slots
<1>2. Used = 0 <=> bufferHead = bufferTail
  BY DEF Used, Slots
<1>3. \A i \in 1 .. Used : SlotOf(i) \in Slots /\ SlotOf(i) # bufferHead
  BY DEF Used, SlotOf, Slots
<1>4. \A i \in 1 .. Used : keyBuffer[SlotOf(i)] \in Chars
  BY <1>3
<1>5. Unread \in Seq(Chars) /\ Len(Unread) = Used
  BY <1>1, <1>4 DEF Unread
<1> QED
  BY <1>1, <1>2, <1>3, <1>5

\* A key press that finds room appends its character to the waiting ones.
LEMMA StoreAppends ==
  ASSUME TypeOK, NEW ch \in Chars, Succ(bufferHead) # bufferTail,
         bufferHead' = Succ(bufferHead), bufferTail' = bufferTail,
         keyBuffer' = [keyBuffer EXCEPT ![bufferHead] = ch]
  PROVE  /\ Used < BUFFER_SIZE - 1
         /\ Unread' = Append(Unread, ch)
<1> USE SizeAssumption
<1>1. bufferHead' = IF bufferHead + 1 = BUFFER_SIZE THEN 0 ELSE bufferHead + 1
  BY SuccCases DEF TypeOK
<1>2. Used < BUFFER_SIZE - 1
  BY <1>1 DEF Used, Slots, TypeOK
<1>3. Used' = Used + 1
  BY <1>1 DEF Used, Slots, TypeOK
<1>4. Used \in Nat /\ Len(Unread) = Used /\ Unread \in Seq(Chars)
  BY UnreadShape
<1>5. \A i \in 1 .. Used : Unread'[i] = Unread[i]
  <2> SUFFICES ASSUME NEW i \in 1 .. Used PROVE Unread'[i] = Unread[i]
    OBVIOUS
  <2>1. SlotOf(i) \in Slots /\ SlotOf(i) # bufferHead
    BY UnreadShape
  <2>2. SlotOf(i)' = SlotOf(i)
    BY DEF SlotOf
  <2>3. keyBuffer'[SlotOf(i)] = keyBuffer[SlotOf(i)]
    BY <2>1 DEF TypeOK
  <2> QED
    BY <1>3, <1>4, <2>2, <2>3 DEF Unread
<1>6. Unread'[Used + 1] = ch
  <2> SUFFICES ASSUME NEW k, k = Used + 1 PROVE Unread'[k] = ch
    BY <1>4
  <2>1. SlotOf(k)' = bufferHead
    BY <1>2 DEF SlotOf, Used, Slots, TypeOK
  <2>2. keyBuffer'[bufferHead] = ch
    BY DEF TypeOK
  <2> QED
    BY <1>3, <1>4, <2>1, <2>2 DEF Unread
<1>7. Unread' \in Seq(Chars) /\ Len(Unread') = Used + 1
  <2>1. \A i \in 1 .. Used + 1 : Unread'[i] \in Chars
    <3> SUFFICES ASSUME NEW i \in 1 .. Used + 1 PROVE Unread'[i] \in Chars
      OBVIOUS
    <3>1. CASE i \in 1 .. Used
      BY <1>4, <1>5, <3>1
    <3>2. CASE i = Used + 1
      BY <1>6, <3>2
    <3> QED
      BY <1>4, <3>1, <3>2
  <2>2. Unread' = [i \in 1 .. Used + 1 |-> Unread'[i]]
    BY <1>3 DEF Unread
  <2> QED
    BY <1>4, <2>1, <2>2
<1> QED
  BY <1>2, <1>4, <1>5, <1>6, <1>7

\* The reader's store to bufferTail removes the oldest waiting character.
LEMMA AdvanceRemoves ==
  ASSUME TypeOK, bufferHead # bufferTail,
         bufferTail' = Succ(bufferTail), bufferHead' = bufferHead,
         keyBuffer' = keyBuffer
  PROVE  /\ Unread # <<>>
         /\ Head(Unread) = keyBuffer[bufferTail]
         /\ Unread' = Tail(Unread)
<1> USE SizeAssumption
<1>1. bufferTail' = IF bufferTail + 1 = BUFFER_SIZE THEN 0 ELSE bufferTail + 1
  BY SuccCases DEF TypeOK
<1>2. Used \in Nat /\ Used # 0 /\ Len(Unread) = Used /\ Unread \in Seq(Chars)
  BY UnreadShape
<1>3. Used' = Used - 1
  BY <1>1 DEF Used, Slots, TypeOK
<1>4. Unread[1] = keyBuffer[bufferTail]
  <2>1. SlotOf(1) = bufferTail
    BY DEF SlotOf, Slots, TypeOK
  <2> QED
    BY <1>2, <2>1 DEF Unread
<1>5. \A i \in 1 .. Used - 1 : Unread'[i] = Unread[i + 1]
  <2> SUFFICES ASSUME NEW i \in 1 .. Used - 1 PROVE Unread'[i] = Unread[i + 1]
    OBVIOUS
  <2>1. SlotOf(i)' = SlotOf(i + 1)
    BY <1>1, <1>2 DEF SlotOf, Slots, TypeOK, Used
  <2>2. i + 1 \in 1 .. Used
    BY <1>2
  <2> QED
    BY <1>3, <2>1, <2>2 DEF Unread
<1>6. Unread # <<>>
  BY <1>2
<1>7. /\ Tail(Unread) \in Seq(Chars)
      /\ Len(Tail(Unread)) = Used - 1
      /\ \A i \in 1 .. Used - 1 : Tail(Unread)[i] = Unread[i + 1]
  BY <1>2, <1>6, HeadTailProperties
<1>8. Unread' \in Seq(Chars) /\ Len(Unread') = Used - 1
  <2>1. Unread' = [i \in 1 .. Used - 1 |-> Unread[i + 1]]
    BY <1>3, <1>5 DEF Unread
  <2>2. \A i \in 1 .. Used - 1 : Unread[i + 1] \in Chars
    BY <1>2
  <2> QED
    BY <1>2, <2>1, <2>2
<1>9. Unread' = Tail(Unread)
  BY <1>5, <1>7, <1>8, SeqEqual
<1> QED
  BY <1>4, <1>6, <1>9

-----------------------------------------------------------------------------
LEMMA InitQueue == Init => Abs!Init
<1> SUFFICES ASSUME Init PROVE Abs!Init
  OBVIOUS
<1>1. TypeOK
  BY InitIInv DEF IInv
<1>2. Used = 0
  BY SizeAssumption DEF Init, Used
<1>3. Unread = <<>>
  BY <1>1, <1>2, UnreadShape, EmptySeq
<1> QED
  BY <1>3 DEF Init, Abs!Init

\* A step that leaves the ring alone and returns nothing is invisible.
LEMMA InvisibleStep ==
  ASSUME UNCHANGED <<keyBuffer, bufferHead, bufferTail, ret>>
  PROVE  UNCHANGED Abs!vars
BY DEF Abs!vars, Unread, Used, SlotOf

\* Every step of the driver is a step of the bounded queue, or invisible in it.
LEMMA StepQueue == IInv /\ [Next]_vars => [Abs!Next]_(Abs!vars)
<1> SUFFICES ASSUME IInv, [Next]_vars PROVE [Abs!Next]_(Abs!vars)
  OBVIOUS
<1> USE DEF ringVars, readVars
<1>t. TypeOK
  BY DEF IInv
<1>1. ASSUME NEW ioCode \in ScanCodes, KeyboardHandler(ioCode)
      PROVE  [Abs!Next]_(Abs!vars)
  <2>1. CASE UNCHANGED ringVars
    BY <1>1, <2>1, InvisibleStep DEF KeyboardHandler
  <2>2. CASE ~ UNCHANGED ringVars
    <3> DEFINE ch == keymap[ioCode]
    <3>1. /\ ch \in Chars
          /\ Succ(bufferHead) # bufferTail
          /\ keyBuffer' = [keyBuffer EXCEPT ![bufferHead] = ch]
          /\ bufferHead' = Succ(bufferHead)
          /\ bufferTail' = bufferTail
          /\ ret' = ret
      BY <1>1, <2>2, KeymapAssumption DEF KeyboardHandler, StoreChar
    <3> HIDE DEF ch
    <3>2. Used < BUFFER_SIZE - 1 /\ Unread' = Append(Unread, ch)
      BY <1>t, <3>1, StoreAppends
    <3>3. Len(Unread) = Used
      BY <1>t, UnreadShape
    <3> QED
      BY <3>1, <3>2, <3>3 DEF Abs!Next, Abs!Put
  <2> QED
    BY <2>1, <2>2
<1>2. CASE CallReadChar
  BY <1>2, InvisibleStep DEF CallReadChar
<1>3. CASE WaitLoadHead
  BY <1>3, InvisibleStep DEF WaitLoadHead
<1>4. CASE WaitCompare
  BY <1>4, InvisibleStep DEF WaitCompare
<1>5. CASE LoadChar
  BY <1>5, InvisibleStep DEF LoadChar
<1>6. CASE AdvanceTail
  <2>1. /\ bufferHead # bufferTail
        /\ c = keyBuffer[bufferTail]
        /\ ret' = c
        /\ bufferTail' = Succ(bufferTail)
        /\ UNCHANGED <<keyBuffer, bufferHead>>
    BY <1>6 DEF AdvanceTail, IInv, ReaderHoldsOldest
  <2>2. /\ Unread # <<>>
        /\ Head(Unread) = keyBuffer[bufferTail]
        /\ Unread' = Tail(Unread)
    BY <1>t, <2>1, AdvanceRemoves
  <2> QED
    BY <2>1, <2>2 DEF Abs!Next, Abs!Get
<1>7. CASE UNCHANGED vars
  BY <1>7, InvisibleStep DEF vars
<1> QED
  BY <1>1, <1>2, <1>3, <1>4, <1>5, <1>6, <1>7 DEF Next, ReadCharStep

\* The ring buffer implements the bounded queue for every size and keymap: what
\* ReadChar returns is what was typed, in order, each character once, and only a
\* key that finds BUFFER_SIZE - 1 characters waiting is lost.
THEOREM RingImplementsQueue == Spec => ImplementsQueue
BY InitQueue, StepQueue, IInvHolds, PTL DEF Spec, ImplementsQueue, Abs!Spec

\* While there is room no key is lost, and no character that waits is disturbed.
THEOREM NoKeyLostWithRoom == Spec => KeyIsAppended
<1>1. ASSUME IInv, NEW s \in DOMAIN keymap, KeyboardHandler(s), Used < BUFFER_SIZE - 1
      PROVE  Unread' = Append(Unread, keymap[s])
  <2> USE DEF KeyboardHandler
  <2>1. TypeOK
    BY <1>1 DEF IInv
  <2>2. Succ(bufferHead) = IF bufferHead + 1 = BUFFER_SIZE THEN 0 ELSE bufferHead + 1
    BY <2>1, SuccCases DEF TypeOK
  <2>3. Succ(bufferHead) # bufferTail
    BY <1>1, <2>1, <2>2, SizeAssumption DEF Used, TypeOK, Slots
  <2>4. keymap[s] \in Chars
    BY KeymapAssumption
  <2> QED
    BY <1>1, <2>1, <2>3, <2>4, StoreAppends DEF StoreChar
<1>2. IInv => [\A s \in DOMAIN keymap :
                 KeyboardHandler(s) /\ Used < BUFFER_SIZE - 1
                   => Unread' = Append(Unread, keymap[s])]_vars
  BY <1>1
<1> QED
  BY <1>2, IInvHolds, PTL DEF KeyIsAppended
=============================================================================
