-------------------------- MODULE LineInputProofs --------------------------
(***************************************************************************)
(* fgets over the keyboard buffer, for every size of either and every      *)
(* keymap: it stays within the line buffer, never returns NULL, and what   *)
(* it returns are the lines of the keys read, edited.                      *)
(***************************************************************************)
EXTENDS LineInput, KeyBufferProofs, Numbers

\* NeverNull is about the moment fgets leaves its loop; together with the bound
\* on i that LineTypeOK states it is inductive, since a line is left either by
\* a stored newline or full, and a full line has n - 1 >= 1 characters.  The
\* reader's invariant of KeyBufferProofs is carried along.
LineInv == IInv /\ LineTypeOK /\ NeverNull

LEMMA LineInitInv == LineInit => LineInv
<1> SUFFICES ASSUME LineInit PROVE LineInv
  OBVIOUS
<1>1. IInv
  BY InitIInv DEF LineInit
<1>2. Nul \in Chars /\ n \in Nat /\ n >= 2
  BY CharAssumption, LineAssumption
<1>3. LineTypeOK /\ NeverNull
  BY <1>1, <1>2 DEF LineInit, Init, LineTypeOK, NeverNull, IInv
<1> QED
  BY <1>1, <1>3 DEF LineInv

\* A step of fgets that only edits the line leaves the ring's invariant alone.
LEMMA RingUntouched == IInv /\ UNCHANGED <<ringVars, readVars>> => IInv'
<1> SUFFICES ASSUME IInv, UNCHANGED <<ringVars, readVars>> PROVE IInv'
  OBVIOUS
<1>1. UNCHANGED vars
  BY DEF vars, ringVars, readVars
<1> QED
  BY <1>1, NextIInv

LEMMA LineStepInv == LineInv /\ [LineNext]_inputVars => LineInv'
<1> SUFFICES ASSUME LineInv, [LineNext]_inputVars PROVE LineInv'
  OBVIOUS
<1> USE LineAssumption DEF LineInv
<1>t. /\ TypeOK /\ str \in [0 .. n - 1 -> Chars] /\ i \in 0 .. n - 1
      /\ ret \in Chars
  BY DEF LineTypeOK, TypeOK
<1>1. ASSUME NEW ioCode \in ScanCodes, TypeKey(ioCode) PROVE LineInv'
  <2>1. KeyboardHandler(ioCode) /\ UNCHANGED <<lineVars, readVars>>
    BY <1>1 DEF TypeKey, KeyboardHandler
  <2>2. IInv'
    BY <2>1, KeyboardHandlerIInv
  <2> QED
    BY <2>1, <2>2 DEF LineTypeOK, NeverNull, IInv, lineVars, readVars
<1>2. CASE CallFgets
  <2>1. IInv'
    BY <1>2, RingUntouched DEF CallFgets
  <2> QED
    BY <1>2, <2>1 DEF CallFgets, LineTypeOK, NeverNull, IInv, readVars
<1>3. CASE FgetsLoop
  <2>1. IInv'
    <3>1. CASE CallReadChar
      BY <3>1, NextIInv DEF Next
    <3>2. CASE UNCHANGED <<ringVars, readVars>>
      BY <3>2, RingUntouched
    <3> QED
      BY <1>3, <3>1, <3>2 DEF FgetsLoop
  <2> QED
    BY <1>3, <1>t, <2>1 DEF FgetsLoop, CallReadChar, LineTypeOK, NeverNull, IInv,
       readVars
<1>4. CASE FgetsRead
  <2>1. IInv'
    BY <1>4, NextIInv DEF FgetsRead, Next
  <2> QED
    BY <1>4, <2>1 DEF FgetsRead, LineTypeOK, NeverNull, IInv, lineVars
<1>5. CASE FgetsChar
  <2>1. IInv'
    BY <1>5, RingUntouched DEF FgetsChar
  <2>2. fpc = "got" /\ rpc' = "idle" /\ i < n - 1
    BY <1>5 DEF FgetsChar, LineTypeOK, readVars
  <2>3. str' \in [0 .. n - 1 -> Chars]
    BY <1>5, <1>t DEF FgetsChar
  <2>4. /\ i' \in 0 .. n - 1
        /\ fpc' \in {"loop", "end"}
        /\ fpc' = "end" => i' > 0
    BY <1>5, <1>t, <2>2 DEF FgetsChar
  <2> QED
    BY <2>1, <2>2, <2>3, <2>4 DEF LineTypeOK, NeverNull, IInv
<1>6. CASE FgetsReturn
  <2>1. IInv'
    BY <1>6, RingUntouched DEF FgetsReturn
  <2>2. str' \in [0 .. n - 1 -> Chars]
    BY <1>6, <1>t, CharAssumption DEF FgetsReturn
  <2> QED
    BY <1>6, <2>1, <2>2 DEF FgetsReturn, LineTypeOK, NeverNull, IInv, readVars
<1>7. CASE UNCHANGED inputVars
  <2>1. IInv'
    BY <1>7, RingUntouched DEF inputVars, ringVars, readVars
  <2> QED
    BY <1>7, <2>1 DEF inputVars, LineTypeOK, NeverNull, IInv
<1> QED
  BY <1>1, <1>2, <1>3, <1>4, <1>5, <1>6, <1>7 DEF LineNext, FgetsStep

\* fgets writes only within the line buffer given to it, terminator included,
\* and the keyboard handler's interruptions do not disturb it.
THEOREM FgetsStaysInBounds == LineSpec => []LineTypeOK
<1>1. LineInv => LineTypeOK
  BY DEF LineInv
<1> QED
  BY <1>1, LineInitInv, LineStepInv, PTL DEF LineSpec

\* fgets always returns a line, so the command line never works on the bytes
\* an earlier command left in its buffer.
THEOREM FgetsNeverReturnsNull == LineSpec => []NeverNull
<1>1. LineInv => NeverNull
  BY DEF LineInv
<1> QED
  BY <1>1, LineInitInv, LineStepInv, PTL DEF LineSpec

-----------------------------------------------------------------------------
(***************************************************************************)
(* The lines: what the editor makes of the keys read so far is, at every   *)
(* statement of fgets, what the line buffer and the lines returned show.   *)
(***************************************************************************)
\* The line in hand, and how the editor sees it before and after it ends.
Line == [k \in 1 .. i |-> str[k - 1]]
Begun == [done |-> lines, line |-> Line]
Ended == [done |-> Append(lines, UpToNul(Line)), line |-> <<>>]

\* In fgets: a character read is not in the line before it is stored, and a line
\* that is full has ended before the loop notices.
EditorAt ==
  IF fpc = "cli" THEN [done |-> lines, line |-> <<>>]
  ELSE IF fpc = "end" \/ (fpc = "loop" /\ i = n - 1) THEN Ended
  ELSE IF fpc = "got" /\ rpc = "idle" THEN Edit(Begun, ret)
  ELSE Begun

\* The ring holds the last of the characters typed.
RingOfTyped ==
  /\ typed \in Seq(Chars) /\ Used <= Len(typed)
  /\ \A k \in 1 .. Used : Unread[k] = typed[Len(typed) - Used + k]

EditedIs == Edited(Consumed) = EditorAt

EditInv ==
  /\ LineInv /\ RingOfTyped
  /\ lines \in Seq(Seq(Chars))
  /\ EditedIs

-----------------------------------------------------------------------------
(***************************************************************************)
(* Strings: the C string in the buffer is the line up to its first Nul.    *)
(***************************************************************************)
FirstNul(line, e) ==
  /\ e \in 0 .. Len(line) /\ \A k \in 1 .. e : line[k] # Nul
  /\ e < Len(line) => line[e + 1] = Nul

LEMMA FirstNulExists == ASSUME NEW line \in Seq(Chars) PROVE \E e : FirstNul(line, e)
<1> DEFINE nuls == {k \in 1 .. Len(line) : line[k] = Nul}
<1>1. Len(line) \in Nat
  OBVIOUS
<1>2. CASE nuls = {}
  BY <1>1, <1>2 DEF FirstNul
<1>3. CASE nuls # {}
  <2>1. PICK x \in nuls : \A y \in nuls : x <= y
    <3>1. nuls \subseteq Nat
      OBVIOUS
    <3> HIDE DEF nuls
    <3> QED
      BY <1>3, <3>1, Least
  <2>2. FirstNul(line, x - 1)
    BY <1>1, <2>1 DEF FirstNul
  <2> QED
    BY <2>2
<1> QED
  BY <1>2, <1>3

LEMMA UpToNulIs ==
  ASSUME NEW line \in Seq(Chars), NEW e, FirstNul(line, e)
  PROVE  /\ UpToNul(line) \in Seq(Chars) /\ Len(UpToNul(line)) = e
         /\ \A k \in 1 .. e : UpToNul(line)[k] = line[k]
<1> DEFINE nuls == {k \in 1 .. Len(line) : line[k] = Nul}
<1>1. /\ Len(line) \in Nat /\ e \in Nat /\ e <= Len(line)
      /\ \A k \in 1 .. Len(line) : line[k] \in Chars
  BY DEF FirstNul
<1>2. CASE e = Len(line)
  <2>1. nuls = {}
    BY <1>2 DEF FirstNul
  <2>2. UpToNul(line) = line
    BY <2>1 DEF UpToNul, SelectInSeq
  <2> QED
    BY <1>2, <2>2
<1>3. CASE e < Len(line)
  <2>1. e + 1 \in nuls /\ \A k \in nuls : e + 1 <= k
    BY <1>1, <1>3 DEF FirstNul
  <2>2. Min(nuls) = e + 1
    <3>1. \A x \in nuls : x \in Nat
      OBVIOUS
    <3> HIDE DEF nuls
    <3> QED
      BY <1>1, <2>1, <3>1 DEF Min
  <2>3. UpToNul(line) = SubSeq(line, 1, (e + 1) - 1)
    <3>1. nuls # {} /\ e + 1 # 0
      BY <1>1, <2>1
    <3>2. SelectInSeq(line, LAMBDA ch : ch = Nul) = e + 1
      BY <2>2, <3>1 DEF SelectInSeq
    <3> QED
      BY <3>1, <3>2 DEF UpToNul
  <2>4. (e + 1) - 1 = e
    BY <1>1
  <2>5. /\ SubSeq(line, 1, e) \in Seq(Chars) /\ Len(SubSeq(line, 1, e)) = e
        /\ \A k \in 1 .. e : SubSeq(line, 1, e)[k] = line[k]
    <3>1. \A k \in 1 .. e : line[k] \in Chars
      BY <1>1
    <3> QED
      BY <1>1, <3>1, SubSeqProperties
  <2> QED
    BY <2>3, <2>4, <2>5
<1> QED
  BY <1>1, <1>2, <1>3

LEMMA LineIs ==
  ASSUME NEW s \in [0 .. n - 1 -> Chars], NEW j \in 0 .. n
  PROVE  LET line == [k \in 1 .. j |-> s[k - 1]]
         IN /\ line \in Seq(Chars) /\ Len(line) = j
            /\ \A k \in 1 .. j : line[k] = s[k - 1]
<1>1. n \in Nat /\ j \in Nat
  BY LineAssumption
<1>2. \A k \in 1 .. j : s[k - 1] \in Chars
  BY <1>1
<1> QED
  BY <1>1, <1>2

LEMMA CStringIs ==
  ASSUME NEW s \in [0 .. n - 1 -> Chars], NEW j \in 0 .. n - 1, s[j] = Nul
  PROVE  CString(s) = UpToNul([k \in 1 .. j |-> s[k - 1]])
<1> DEFINE line == [k \in 1 .. j |-> s[k - 1]]
<1>1. n \in Nat /\ n >= 2 /\ j \in Nat
  BY LineAssumption
<1>2. /\ line \in Seq(Chars) /\ Len(line) = j
      /\ \A k \in 1 .. j : line[k] = s[k - 1]
  BY <1>1, LineIs
<1> HIDE DEF line
<1>3. PICK e : FirstNul(line, e)
  BY <1>2, FirstNulExists
<1>4. e \in 0 .. j /\ s[e] = Nul /\ \A k \in 0 .. e - 1 : s[k] # Nul
  <2>1. e \in 0 .. j /\ (\A k \in 1 .. e : line[k] # Nul) /\ (e < j => line[e + 1] = Nul)
    BY <1>2, <1>3 DEF FirstNul
  <2>2. \A k \in 0 .. e - 1 : s[k] # Nul
    <3> SUFFICES ASSUME NEW k \in 0 .. e - 1 PROVE s[k] # Nul
      OBVIOUS
    <3>1. k + 1 \in 1 .. e /\ k + 1 \in 1 .. j /\ (k + 1) - 1 = k
      BY <1>1, <2>1
    <3> QED
      BY <1>2, <2>1, <3>1
  <2>3. s[e] = Nul
    <3>1. CASE e = j
      BY <3>1
    <3>2. CASE e < j
      <4>1. e + 1 \in 1 .. j /\ (e + 1) - 1 = e
        BY <1>1, <2>1, <3>2
      <4> QED
        BY <1>2, <2>1, <3>2, <4>1
    <3> QED
      BY <1>1, <2>1, <3>1, <3>2
  <2> QED
    BY <2>1, <2>2, <2>3
<1> DEFINE Ends(x) == s[x] = Nul /\ \A k \in 0 .. x - 1 : s[k] # Nul
           end == CHOOSE x \in DOMAIN s : Ends(x)
<1>5. end = e
  <2>1. e \in DOMAIN s /\ Ends(e)
    BY <1>1, <1>4
  <2>2. \A x \in DOMAIN s : Ends(x) => x = e
    BY <1>1, <1>4
  <2> HIDE DEF Ends
  <2> QED
    BY <2>1, <2>2
<1>6. CString(s) = [k \in 1 .. e |-> s[k - 1]]
  <2>1. CString(s) = [k \in 1 .. end |-> s[k - 1]]
    BY DEF CString
  <2> HIDE DEF end
  <2> QED
    BY <1>5, <2>1
<1>7. LET t == [k \in 1 .. e |-> s[k - 1]]
      IN t \in Seq(Chars) /\ Len(t) = e /\ \A k \in 1 .. e : t[k] = s[k - 1]
  BY <1>1, <1>4, LineIs
<1>8. /\ UpToNul(line) \in Seq(Chars) /\ Len(UpToNul(line)) = e
      /\ \A k \in 1 .. e : UpToNul(line)[k] = line[k]
  BY <1>2, <1>3, UpToNulIs
<1>9. \A k \in 1 .. e : UpToNul(line)[k] = s[k - 1]
  BY <1>1, <1>2, <1>4, <1>8
<1> DEFINE t == [k \in 1 .. e |-> s[k - 1]]
           u == UpToNul(line)
<1>10. /\ t \in Seq(Chars) /\ Len(t) = e /\ \A k \in 1 .. e : t[k] = s[k - 1]
       /\ u \in Seq(Chars) /\ Len(u) = e /\ \A k \in 1 .. e : u[k] = s[k - 1]
  BY <1>7, <1>8, <1>9
<1>11. t = u
  <2> HIDE DEF t, u
  <2> QED
    BY <1>10, SeqEqual
<1> QED
  BY <1>6, <1>11 DEF line

-----------------------------------------------------------------------------
(***************************************************************************)
(* The editor: it exists, and what it makes of one key more is an edit of  *)
(* what it makes of the keys before.                                       *)
(***************************************************************************)
States == [done : Seq(Seq(Chars)), line : Seq(Chars)]
Blank == [done |-> <<>>, line |-> <<>>]

LEMMA FrontIs ==
  ASSUME NEW line \in Seq(Chars), line # <<>>
  PROVE  /\ Front(line) \in Seq(Chars) /\ Len(Front(line)) = Len(line) - 1
         /\ \A k \in 1 .. Len(line) - 1 : Front(line)[k] = line[k]
<1> DEFINE m == Len(line) - 1
<1>1. m \in Nat /\ Len(line) \in Nat /\ \A k \in 1 .. m : line[k] \in Chars
  BY EmptySeq
<1>2. Front(line) = SubSeq(line, 1, m)
  BY DEF Front
<1> HIDE DEF m
<1>3. /\ SubSeq(line, 1, m) \in Seq(Chars) /\ Len(SubSeq(line, 1, m)) = m
      /\ \A k \in 1 .. m : SubSeq(line, 1, m)[k] = line[k]
  BY <1>1, SubSeqProperties
<1> QED
  BY <1>2, <1>3 DEF m

LEMMA EditTyped ==
  ASSUME NEW state \in States, NEW ch \in Chars
  PROVE  Edit(state, ch) \in States
<1> DEFINE line == IF ch # Backspace THEN Append(state.line, ch)
                   ELSE IF state.line = <<>> THEN <<>> ELSE Front(state.line)
<1>1. state.line \in Seq(Chars) /\ state.done \in Seq(Seq(Chars))
  BY DEF States
<1>2. line \in Seq(Chars)
  BY <1>1, FrontIs
<1> HIDE DEF line
<1>3. UpToNul(line) \in Seq(Chars)
  BY <1>2, FirstNulExists, UpToNulIs
<1>4. Append(state.done, UpToNul(line)) \in Seq(Seq(Chars)) /\ <<>> \in Seq(Chars)
  BY <1>1, <1>3
<1>5. Edit(state, ch) = IF ch = Newline \/ Len(line) = n - 1
                        THEN [done |-> Append(state.done, UpToNul(line)), line |-> <<>>]
                        ELSE [done |-> state.done, line |-> line]
  BY DEF Edit, line
<1> QED
  BY <1>1, <1>2, <1>4, <1>5 DEF States

LEMMA EditsAre ==
  ASSUME NEW keys \in Seq(Chars)
  PROVE  /\ Edits(keys) \in [0 .. Len(keys) -> States] /\ Edits(keys)[0] = Blank
         /\ \A k \in 1 .. Len(keys) : Edits(keys)[k] = Edit(Edits(keys)[k - 1], keys[k])
<1> DEFINE many == Len(keys)
           step == [x \in Nat \X States |->
                      IF x[1] + 1 <= many THEN Edit(x[2], keys[x[1] + 1]) ELSE x[2]]
           After(f) == f = [k \in 0 .. many |->
                              IF k = 0 THEN Blank ELSE Edit(f[k - 1], keys[k])]
<1>1. many \in Nat /\ \A k \in 1 .. many : keys[k] \in Chars
  OBVIOUS
<1>2. Blank \in States
  BY DEF Blank, States
<1> HIDE DEF many
<1>3. step \in Steps(States)
  <2>1. \A k \in Nat, s \in States :
          (IF k + 1 <= many THEN Edit(s, keys[k + 1]) ELSE s) \in States
    BY <1>1, EditTyped
  <2> QED
    BY <2>1 DEF Steps
<1>4. \A k \in Nat, s \in States :
        step[<<k, s>>] = IF k + 1 <= many THEN Edit(s, keys[k + 1]) ELSE s
  OBVIOUS
<1> HIDE DEF step
<1>5. PICK g : Iterates(g, States, step, Blank)
  BY <1>2, <1>3, Iterated
<1>6. /\ g \in [Nat -> States] /\ g[0] = Blank
      /\ \A k \in 1 .. many : g[k] = Edit(g[k - 1], keys[k])
  <2>1. g \in [Nat -> States] /\ g[0] = Blank /\ \A k \in Nat : g[k + 1] = step[<<k, g[k]>>]
    BY <1>5 DEF Iterates
  <2>2. ASSUME NEW k \in 1 .. many PROVE g[k] = Edit(g[k - 1], keys[k])
    <3>1. k - 1 \in Nat /\ (k - 1) + 1 = k /\ k <= many
      BY <1>1
    <3>2. g[(k - 1) + 1] = step[<<k - 1, g[k - 1]>>] /\ g[k - 1] \in States
      BY <2>1, <3>1
    <3>3. step[<<k - 1, g[k - 1]>>] = Edit(g[k - 1], keys[(k - 1) + 1])
      BY <1>4, <3>1, <3>2
    <3> QED
      BY <3>1, <3>2, <3>3
  <2> QED
    BY <2>1, <2>2
<1> DEFINE h == [k \in 0 .. many |-> g[k]]
<1>7. After(h)
  <2>1. \A k \in 0 .. many : h[k] = IF k = 0 THEN Blank ELSE Edit(h[k - 1], keys[k])
    <3> SUFFICES ASSUME NEW k \in 0 .. many
        PROVE  h[k] = IF k = 0 THEN Blank ELSE Edit(h[k - 1], keys[k])
      OBVIOUS
    <3>1. CASE k = 0
      BY <1>1, <1>6, <3>1
    <3>2. CASE k # 0
      <4>1. k \in 1 .. many /\ k - 1 \in 0 .. many
        BY <1>1, <3>2
      <4>2. h[k] = g[k] /\ h[k - 1] = g[k - 1]
        BY <4>1
      <4> QED
        BY <1>6, <3>2, <4>1, <4>2
    <3> QED
      BY <3>1, <3>2
  <2>2. h = [k \in 0 .. many |-> h[k]]
    OBVIOUS
  <2> HIDE DEF h
  <2> QED
    BY <2>1, <2>2
<1>8. After(CHOOSE f : After(f))
  <2> HIDE DEF h, After
  <2> QED
    BY <1>7
<1> DEFINE f == CHOOSE r : After(r)
<1>9. Edits(keys) = f
  BY DEF Edits, Blank, many
<1>10. f = [k \in 0 .. many |-> IF k = 0 THEN Blank ELSE Edit(f[k - 1], keys[k])]
  BY <1>8
<1> HIDE DEF f
<1>11. \A k \in 0 .. many : f[k] = IF k = 0 THEN Blank ELSE Edit(f[k - 1], keys[k])
  BY <1>10
<1>12. f[0] = Blank /\ \A k \in 1 .. many : f[k] = Edit(f[k - 1], keys[k])
  BY <1>1, <1>11
<1> DEFINE S == {k \in Nat : k <= many => f[k] \in States}
<1>13. Nat \subseteq S
  <2>1. 0 \in S
    BY <1>2, <1>12
  <2>2. ASSUME NEW k \in Nat, k \in S PROVE k + 1 \in S
    <3>1. CASE k + 1 <= many
      <4>1. k + 1 \in 1 .. many /\ (k + 1) - 1 = k /\ k <= many
        BY <1>1, <3>1
      <4>2. f[k + 1] = Edit(f[k], keys[k + 1])
        BY <1>12, <4>1
      <4>3. f[k] \in States /\ keys[k + 1] \in Chars
        BY <1>1, <2>2, <4>1
      <4>4. f[k + 1] \in States
        BY <4>2, <4>3, EditTyped
      <4> QED
        BY <4>4
    <3>2. CASE ~(k + 1 <= many)
      BY <3>2
    <3> QED
      BY <3>1, <3>2
  <2> HIDE DEF S
  <2> QED
    BY <2>1, <2>2, Induct
<1>14. f \in [0 .. many -> States]
  <2>1. \A k \in 0 .. many : f[k] \in States
    BY <1>1, <1>13
  <2>2. f = [k \in 0 .. many |-> f[k]]
    <3> DEFINE Next1(k) == IF k = 0 THEN Blank ELSE Edit(f[k - 1], keys[k])
    <3>1. f = [k \in 0 .. many |-> Next1(k)]
      BY <1>10
    <3> HIDE DEF Next1
    <3> QED
      BY <3>1
  <2> QED
    BY <2>1, <2>2
<1> QED
  BY <1>9, <1>12, <1>14 DEF many

LEMMA EditedAppend ==
  ASSUME NEW keys \in Seq(Chars), NEW ch \in Chars
  PROVE  /\ Edited(keys) \in States
         /\ Edited(Append(keys, ch)) = Edit(Edited(keys), ch)
<1> DEFINE more == Append(keys, ch)
           f == Edits(keys)
           g == Edits(more)
           many == Len(keys)
<1>1. /\ more \in Seq(Chars) /\ Len(more) = many + 1 /\ more[many + 1] = ch
      /\ \A k \in 1 .. many : more[k] = keys[k]
      /\ many \in Nat
  OBVIOUS
<1> HIDE DEF more
<1>2. /\ f \in [0 .. many -> States] /\ f[0] = Blank
      /\ \A k \in 1 .. many : f[k] = Edit(f[k - 1], keys[k])
  BY EditsAre
<1>3. /\ g[0] = Blank
      /\ \A k \in 1 .. many + 1 : g[k] = Edit(g[k - 1], more[k])
  BY <1>1, EditsAre
<1> DEFINE S == {k \in Nat : k <= many => f[k] = g[k]}
<1> HIDE DEF f, g, many
<1>4. Nat \subseteq S
  <2>1. 0 \in S
    BY <1>2, <1>3
  <2>2. ASSUME NEW k \in Nat, k \in S PROVE k + 1 \in S
    <3>1. CASE k + 1 <= many
      <4>1. k + 1 \in 1 .. many /\ k + 1 \in 1 .. many + 1 /\ (k + 1) - 1 = k /\ k <= many
        BY <1>1, <3>1
      <4>2. f[k + 1] = Edit(f[k], keys[k + 1]) /\ g[k + 1] = Edit(g[k], more[k + 1])
        BY <1>2, <1>3, <4>1
      <4>3. f[k + 1] = g[k + 1]
        BY <1>1, <2>2, <4>1, <4>2
      <4> QED
        BY <4>3
    <3>2. CASE ~(k + 1 <= many)
      BY <3>2
    <3> QED
      BY <3>1, <3>2
  <2> HIDE DEF S
  <2> QED
    BY <2>1, <2>2, Induct
<1>5. f[many] = g[many]
  BY <1>1, <1>4
<1>6. g[many + 1] = Edit(g[many], ch)
  <2>1. many + 1 \in 1 .. many + 1 /\ (many + 1) - 1 = many
    BY <1>1
  <2> QED
    BY <1>1, <1>3, <2>1
<1>7. Edited(keys) = f[many] /\ Edited(more) = g[many + 1]
  <2>1. Edited(more) = g[Len(more)]
    BY DEF Edited, g
  <2> QED
    BY <1>1, <2>1 DEF Edited, f, many
<1> QED
  BY <1>1, <1>2, <1>5, <1>6, <1>7 DEF more

LEMMA EditedNothing == Edited(<<>>) = Blank
<1>1. <<>> \in Seq(Chars) /\ Len(<<>>) = 0
  OBVIOUS
<1> QED
  BY <1>1, EditsAre DEF Edited

-----------------------------------------------------------------------------
(***************************************************************************)
(* The steps.                                                              *)
(***************************************************************************)
\* A key accepted goes behind those waiting, and is not read yet.
LEMMA TypeKeyEdits ==
  ASSUME EditInv, NEW ioCode \in ScanCodes, TypeKey(ioCode)
  PROVE  RingOfTyped' /\ Consumed' = Consumed
<1>1. TypeOK /\ RingOfTyped /\ KeyboardHandler(ioCode)
  BY DEF EditInv, LineInv, IInv, TypeKey
<1>2. /\ typed \in Seq(Chars) /\ Len(typed) \in Nat /\ Used \in Nat /\ Used <= Len(typed)
      /\ Unread \in Seq(Chars) /\ Len(Unread) = Used
      /\ \A k \in 1 .. Used : Unread[k] = typed[Len(typed) - Used + k]
  BY <1>1, UnreadShape DEF RingOfTyped
<1>3. CASE UNCHANGED ringVars
  <2>1. typed' = typed /\ Used' = Used /\ Unread' = Unread
    BY <1>3 DEF TypeKey, ringVars, Used, Unread, SlotOf
  <2> QED
    BY <1>1, <2>1 DEF RingOfTyped, Consumed
<1>4. CASE ~ UNCHANGED ringVars
  <2> DEFINE ch == keymap[ioCode]
  <2>1. /\ ch \in Chars /\ Succ(bufferHead) # bufferTail
        /\ bufferHead' = Succ(bufferHead) /\ bufferTail' = bufferTail
        /\ keyBuffer' = [keyBuffer EXCEPT ![bufferHead] = ch]
    BY <1>1, <1>4, KeymapAssumption DEF KeyboardHandler, StoreChar
  <2>2. Unread' = Append(Unread, ch)
    BY <1>1, <2>1, StoreAppends
  <2>3. bufferHead' # bufferHead
    BY <1>1, <2>1, SuccCases, SizeAssumption DEF TypeOK, Slots
  <2>4. typed' = Append(typed, ch)
    BY <2>3 DEF TypeKey
  <2> HIDE DEF ch
  <2>5. Used' = Used + 1
    <3>1. bufferHead' = IF bufferHead + 1 = BUFFER_SIZE THEN 0 ELSE bufferHead + 1
      BY <1>1, <2>1, SuccCases DEF TypeOK
    <3> QED
      BY <1>1, <2>1, <3>1, SizeAssumption DEF TypeOK, Used, Slots
  <2>6. RingOfTyped'
    <3>1. /\ Len(typed)' = Len(typed) + 1 /\ typed' \in Seq(Chars)
          /\ \A k \in 1 .. Len(typed) : typed'[k] = typed[k]
          /\ typed'[Len(typed) + 1] = ch
      BY <1>2, <2>1, <2>4
    <3>2. \A k \in 1 .. Used + 1 : Unread'[k] = IF k = Used + 1 THEN ch ELSE Unread[k]
      BY <1>2, <2>1, <2>2
    <3>3. ASSUME NEW k \in 1 .. Used + 1
          PROVE  Unread'[k] = typed'[(Len(typed) + 1) - (Used + 1) + k]
      <4>1. CASE k = Used + 1
        <5>1. (Len(typed) + 1) - (Used + 1) + k = Len(typed) + 1
          BY <1>2, <4>1
        <5> QED
          BY <3>1, <3>2, <4>1, <5>1
      <4>2. CASE k # Used + 1
        <5>1. /\ (Len(typed) + 1) - (Used + 1) + k = Len(typed) - Used + k
              /\ Len(typed) - Used + k \in 1 .. Len(typed) /\ k \in 1 .. Used
          BY <1>2, <4>2
        <5> QED
          BY <1>2, <3>1, <3>2, <4>2, <5>1
      <4> QED
        BY <4>1, <4>2
    <3> QED
      BY <1>2, <2>5, <3>1, <3>3 DEF RingOfTyped
  <2>7. Consumed' = Consumed
    <3>1. Len(typed') - Used' = Len(typed) - Used
      BY <1>2, <2>1, <2>4, <2>5
    <3> DEFINE m == Len(typed) - Used
    <3>2. m \in 0 .. Len(typed)
      BY <1>2
    <3>3. Consumed' = SubSeq(Append(typed, ch), 1, m) /\ Consumed = SubSeq(typed, 1, m)
      BY <2>4, <3>1 DEF Consumed
    <3> HIDE DEF m
    <3>4. \A k \in 1 .. m : typed[k] \in Chars /\ Append(typed, ch)[k] = typed[k]
      BY <1>2, <2>1, <3>2
    <3>5. /\ SubSeq(typed, 1, m) \in Seq(Chars) /\ Len(SubSeq(typed, 1, m)) = m
          /\ \A k \in 1 .. m : SubSeq(typed, 1, m)[k] = typed[k]
      BY <3>2, <3>4, SubSeqProperties
    <3>6. /\ SubSeq(Append(typed, ch), 1, m) \in Seq(Chars)
          /\ Len(SubSeq(Append(typed, ch), 1, m)) = m
          /\ \A k \in 1 .. m : SubSeq(Append(typed, ch), 1, m)[k] = typed[k]
      BY <3>2, <3>4, SubSeqProperties
    <3>7. SubSeq(Append(typed, ch), 1, m) = SubSeq(typed, 1, m)
      BY <3>5, <3>6, SeqEqual
    <3> QED
      BY <3>3, <3>7
  <2> QED
    BY <2>6, <2>7
<1> QED
  BY <1>3, <1>4

\* The reader's last step takes the oldest of them, and returns it.
LEMMA AdvanceEdits ==
  ASSUME EditInv, AdvanceTail, UNCHANGED typed
  PROVE  RingOfTyped' /\ Consumed \in Seq(Chars) /\ Consumed' = Append(Consumed, ret')
<1>1. TypeOK /\ RingOfTyped /\ ReaderHoldsOldest /\ TypeOK'
  BY NextIInv DEF EditInv, LineInv, IInv, Next, ReadCharStep
<1>2. bufferHead # bufferTail /\ ret' = keyBuffer[bufferTail]
  BY <1>1 DEF ReaderHoldsOldest, AdvanceTail
<1>3. Unread # <<>> /\ Head(Unread) = ret' /\ Unread' = Tail(Unread)
  BY <1>1, <1>2, AdvanceRemoves DEF AdvanceTail
<1>4. /\ typed \in Seq(Chars) /\ Len(typed) \in Nat /\ Used \in Nat /\ Used <= Len(typed)
      /\ Unread \in Seq(Chars) /\ Len(Unread) = Used
      /\ \A k \in 1 .. Used : Unread[k] = typed[Len(typed) - Used + k]
  BY <1>1, UnreadShape DEF RingOfTyped
<1>5. Used > 0 /\ Used' = Used - 1
  <2>1. bufferTail' = IF bufferTail + 1 = BUFFER_SIZE THEN 0 ELSE bufferTail + 1
    BY <1>1, SuccCases DEF TypeOK, AdvanceTail
  <2>2. Used > 0
    BY <1>1, <1>2, <1>4, UnreadShape
  <2> QED
    BY <1>1, <1>2, <2>1, <2>2, SizeAssumption DEF TypeOK, Used, Slots, AdvanceTail
<1>6. ret' = typed[Len(typed) - Used + 1] /\ ret' \in Chars
  BY <1>1, <1>3, <1>4, <1>5 DEF TypeOK
<1>7. RingOfTyped'
  <2>1. ASSUME NEW k \in 1 .. Used - 1 PROVE Unread'[k] = typed[Len(typed) - (Used - 1) + k]
    <3>1. Unread'[k] = Unread[k + 1]
      BY <1>3, <1>4, <1>5
    <3>2. Len(typed) - (Used - 1) + k = Len(typed) - Used + (k + 1) /\ k + 1 \in 1 .. Used
      BY <1>4, <1>5
    <3> QED
      BY <1>4, <3>1, <3>2
  <2> QED
    BY <1>4, <1>5, <2>1 DEF RingOfTyped
<1> DEFINE m == Len(typed) - Used
<1>8. m \in Nat /\ m + 1 <= Len(typed) /\ Len(typed) - (Used - 1) = m + 1
  BY <1>4, <1>5
<1>9. Consumed = SubSeq(typed, 1, m) /\ Consumed' = SubSeq(typed, 1, m + 1)
  BY <1>5, <1>8 DEF Consumed
<1>10. ret' = typed[m + 1]
  BY <1>6
<1> HIDE DEF m
<1>11. \A k \in 1 .. m + 1 : typed[k] \in Chars
  BY <1>4, <1>8
<1>12. /\ SubSeq(typed, 1, m) \in Seq(Chars) /\ Len(SubSeq(typed, 1, m)) = m
       /\ \A k \in 1 .. m : SubSeq(typed, 1, m)[k] = typed[k]
  BY <1>8, <1>11, SubSeqProperties
<1>13. /\ SubSeq(typed, 1, m + 1) \in Seq(Chars) /\ Len(SubSeq(typed, 1, m + 1)) = m + 1
       /\ \A k \in 1 .. m + 1 : SubSeq(typed, 1, m + 1)[k] = typed[k]
  BY <1>8, <1>11, SubSeqProperties
<1>14. SubSeq(typed, 1, m + 1) = Append(SubSeq(typed, 1, m), ret')
  <2> DEFINE t == SubSeq(typed, 1, m)
             u == SubSeq(typed, 1, m + 1)
  <2>1. /\ t \in Seq(Chars) /\ Len(t) = m /\ \A k \in 1 .. m : t[k] = typed[k]
        /\ u \in Seq(Chars) /\ Len(u) = m + 1 /\ \A k \in 1 .. m + 1 : u[k] = typed[k]
    BY <1>12, <1>13
  <2> HIDE DEF t, u
  <2>2. /\ Append(t, ret') \in Seq(Chars) /\ Len(Append(t, ret')) = m + 1
        /\ \A k \in 1 .. m + 1 : Append(t, ret')[k] = u[k]
    BY <1>6, <1>8, <1>10, <2>1
  <2>3. u = Append(t, ret')
    BY <2>1, <2>2, SeqEqual
  <2> QED
    BY <2>3 DEF t, u
<1> QED
  BY <1>7, <1>9, <1>12, <1>14

LEMMA RingStill ==
  ASSUME RingOfTyped, UNCHANGED ringVars, UNCHANGED typed
  PROVE  RingOfTyped' /\ Consumed' = Consumed
<1>1. Used' = Used /\ Unread' = Unread
  BY DEF ringVars, Used, Unread, SlotOf
<1> QED
  BY <1>1 DEF RingOfTyped, Consumed

LEMMA LineFacts ==
  ASSUME EditInv
  PROVE  /\ n \in Nat /\ n >= 2 /\ str \in [0 .. n - 1 -> Chars] /\ i \in 0 .. n - 1
         /\ Line \in Seq(Chars) /\ Len(Line) = i /\ \A k \in 1 .. i : Line[k] = str[k - 1]
         /\ UpToNul(Line) \in Seq(Chars) /\ ret \in Chars
         /\ lines \in Seq(Seq(Chars))
<1>1. n \in Nat /\ n >= 2
  BY LineAssumption
<1>2. str \in [0 .. n - 1 -> Chars] /\ i \in 0 .. n - 1 /\ ret \in Chars
  BY DEF EditInv, LineInv, LineTypeOK, TypeOK
<1>3. Line \in Seq(Chars) /\ Len(Line) = i /\ \A k \in 1 .. i : Line[k] = str[k - 1]
  <2>1. i \in 0 .. n
    BY <1>1, <1>2
  <2> QED
    BY <1>2, <2>1, LineIs DEF Line
<1>4. UpToNul(Line) \in Seq(Chars)
  BY <1>3, FirstNulExists, UpToNulIs
<1> QED
  BY <1>1, <1>2, <1>3, <1>4 DEF EditInv

\* A character read is edited in the buffer as the editor edits it.
LEMMA FgetsCharEdits == EditInv /\ FgetsChar => EditedIs'
<1> SUFFICES ASSUME EditInv, FgetsChar PROVE EditedIs'
  OBVIOUS
<1>1. /\ fpc = "got" /\ rpc = "idle" /\ rpc' = "idle" /\ lines' = lines /\ i < n - 1
      /\ ret' = ret
  BY DEF FgetsChar, readVars, EditInv, LineInv, LineTypeOK
<1>2. Edited(Consumed) = Edit(Begun, ret)
  BY <1>1 DEF EditInv, EditedIs, EditorAt
<1>3. Edited(Consumed)' = Edit(Begun, ret)
  <2>1. Consumed' = Consumed
    BY RingStill DEF EditInv, FgetsChar
  <2> QED
    BY <1>2, <2>1 DEF Edited, Edits
<1>4. /\ n \in Nat /\ i \in 0 .. n - 1 /\ str \in [0 .. n - 1 -> Chars]
      /\ Line \in Seq(Chars) /\ Len(Line) = i /\ \A k \in 1 .. i : Line[k] = str[k - 1]
      /\ ret \in Chars
  BY LineFacts
<1>5. Begun.done = lines /\ Begun.line = Line
  BY DEF Begun
<1>6. Newline # Backspace
  BY EditCharAssumption
<1>7. CASE ret # Backspace
  <2>1. /\ str' = [str EXCEPT ![i] = ret] /\ i' = i + 1
        /\ fpc' = IF ret = Newline THEN "end" ELSE "loop"
    BY <1>7 DEF FgetsChar
  <2>2. Line' = Append(Line, ret)
    <3> DEFINE t == Append(Line, ret)
    <3>1. t \in Seq(Chars) /\ Len(t) = i + 1
      BY <1>4
    <3>2. str' \in [0 .. n - 1 -> Chars] /\ i' \in 0 .. n
      BY <1>1, <1>4, <2>1
    <3>3. Line' \in Seq(Chars) /\ Len(Line') = i + 1 /\ \A k \in 1 .. i + 1 : Line'[k] = str'[k - 1]
      <4>1. LET line == [k \in 1 .. i' |-> str'[k - 1]]
            IN line \in Seq(Chars) /\ Len(line) = i' /\ \A k \in 1 .. i' : line[k] = str'[k - 1]
        BY <3>2, LineIs
      <4> QED
        BY <2>1, <4>1 DEF Line
    <3>4. ASSUME NEW k \in 1 .. i + 1 PROVE str'[k - 1] = t[k]
      <4>1. CASE k = i + 1
        BY <1>4, <2>1, <4>1
      <4>2. CASE k # i + 1
        <5>1. k \in 1 .. i /\ k - 1 \in 0 .. n - 1 /\ k - 1 # i
          BY <1>4, <4>2
        <5>2. t[k] = Line[k]
          BY <1>4, <5>1
        <5> QED
          BY <1>4, <2>1, <5>1, <5>2
      <4> QED
        BY <4>1, <4>2
    <3> HIDE DEF t
    <3>5. \A k \in 1 .. Len(t) : Line'[k] = t[k]
      BY <3>1, <3>3, <3>4
    <3>6. Line' = t
      BY <3>1, <3>3, <3>5, SeqEqual
    <3> QED
      BY <3>6 DEF t
  <2>3. Edit(Begun, ret) = IF ret = Newline \/ i + 1 = n - 1
                           THEN [done |-> Append(lines, UpToNul(Append(Line, ret))), line |-> <<>>]
                           ELSE [done |-> lines, line |-> Append(Line, ret)]
    <3>1. Len(Append(Line, ret)) = i + 1
      BY <1>4
    <3> QED
      BY <1>5, <1>7, <3>1 DEF Edit
  <2>4. Ended' = [done |-> Append(lines, UpToNul(Append(Line, ret))), line |-> <<>>]
    <3>1. \A x : Line' = x => UpToNul(Line)' = UpToNul(x)
      BY DEF UpToNul, SelectInSeq
    <3> QED
      BY <1>1, <2>2, <3>1 DEF Ended
  <2>5. Begun' = [done |-> lines, line |-> Append(Line, ret)]
    BY <1>1, <2>2 DEF Begun
  <2>6. EditorAt' = IF ret = Newline \/ i + 1 = n - 1 THEN Ended' ELSE Begun'
    BY <1>1, <2>1 DEF EditorAt
  <2> QED
    BY <1>3, <2>3, <2>4, <2>5, <2>6 DEF EditedIs
<1>8. CASE ret = Backspace
  <2>1. str' = str /\ i' = (IF i > 0 THEN i - 1 ELSE i) /\ fpc' = "loop"
    BY <1>6, <1>8 DEF FgetsChar
  <2> DEFINE t == IF Line = <<>> THEN <<>> ELSE Front(Line)
  <2>2. Line' = t /\ Len(t) = i'
    <3>1. t \in Seq(Chars) /\ Len(t) = i' /\ \A k \in 1 .. i' : t[k] = str[k - 1]
      <4>1. CASE i = 0
        <5>1. Line = <<>>
          BY <1>4, <4>1, EmptySeq
        <5> QED
          BY <2>1, <4>1, <5>1
      <4>2. CASE i # 0
        <5>1. Line # <<>> /\ i > 0 /\ i' = i - 1
          BY <1>4, <2>1, <4>2
        <5>2. /\ Front(Line) \in Seq(Chars) /\ Len(Front(Line)) = i - 1
              /\ \A k \in 1 .. i - 1 : Front(Line)[k] = Line[k]
          BY <1>4, <5>1, FrontIs
        <5>3. \A k \in 1 .. i - 1 : Front(Line)[k] = str[k - 1]
          BY <1>4, <5>2
        <5> QED
          BY <5>1, <5>2, <5>3
      <4> QED
        BY <4>1, <4>2
    <3>2. /\ Line' \in Seq(Chars) /\ Len(Line') = i'
          /\ \A k \in 1 .. i' : Line'[k] = str[k - 1]
      <4>1. i' \in 0 .. n
        BY <1>4, <2>1
      <4>2. LET line == [k \in 1 .. i' |-> str[k - 1]]
            IN line \in Seq(Chars) /\ Len(line) = i' /\ \A k \in 1 .. i' : line[k] = str[k - 1]
        BY <1>4, <4>1, LineIs
      <4> QED
        BY <2>1, <4>2 DEF Line
    <3> HIDE DEF t
    <3>3. Line' = t
      BY <3>1, <3>2, SeqEqual
    <3> QED
      BY <3>1, <3>3
  <2>3. i' # n - 1
    BY <1>1, <1>4, <2>1
  <2>4. Edit(Begun, ret) = [done |-> lines, line |-> t]
    <3> HIDE DEF t
    <3>1. Edit(Begun, ret) = IF ret = Newline \/ Len(t) = n - 1
                             THEN [done |-> Append(lines, UpToNul(t)), line |-> <<>>]
                             ELSE [done |-> lines, line |-> t]
      BY <1>5, <1>8 DEF Edit, t
    <3> QED
      BY <1>6, <1>8, <2>2, <2>3, <3>1
  <2> HIDE DEF t
  <2>5. EditorAt' = [done |-> lines, line |-> t]
    BY <1>1, <2>1, <2>2, <2>3 DEF EditorAt, Begun
  <2> QED
    BY <1>3, <2>4, <2>5 DEF EditedIs
<1> QED
  BY <1>7, <1>8

\* What the command line gets is the line in hand, up to its first Nul.
LEMMA FgetsReturnEdits == EditInv /\ FgetsReturn => EditedIs' /\ lines' \in Seq(Seq(Chars))
<1> SUFFICES ASSUME EditInv, FgetsReturn PROVE EditedIs' /\ lines' \in Seq(Seq(Chars))
  OBVIOUS
<1>1. /\ fpc = "end" /\ fpc' = "cli" /\ str' = [str EXCEPT ![i] = Nul] /\ i' = i
      /\ lines' = Append(lines, CString(str'))
  BY DEF FgetsReturn
<1>2. /\ n \in Nat /\ i \in 0 .. n - 1 /\ str \in [0 .. n - 1 -> Chars]
      /\ Line \in Seq(Chars) /\ UpToNul(Line) \in Seq(Chars)
      /\ lines \in Seq(Seq(Chars))
  BY LineFacts
<1>3. Edited(Consumed)' = Ended
  <2>1. Consumed' = Consumed
    BY RingStill DEF EditInv, FgetsReturn
  <2>2. Edited(Consumed) = Ended
    BY <1>1 DEF EditInv, EditedIs, EditorAt
  <2> QED
    BY <2>1, <2>2 DEF Edited, Edits
<1>4. CString(str') = UpToNul(Line)
  <2> DEFINE s == [str EXCEPT ![i] = Nul]
  <2>1. s \in [0 .. n - 1 -> Chars] /\ s[i] = Nul
    BY <1>2, CharAssumption
  <2>2. Line = [k \in 1 .. i |-> s[k - 1]]
    <3>1. \A k \in 1 .. i : s[k - 1] = str[k - 1]
      BY <1>2
    <3> HIDE DEF s
    <3> QED
      BY <3>1 DEF Line
  <2> HIDE DEF s
  <2>3. CString(s) = UpToNul([k \in 1 .. i |-> s[k - 1]])
    BY <1>2, <2>1, CStringIs
  <2> QED
    BY <1>1, <2>2, <2>3 DEF s
<1>5. lines' = Append(lines, UpToNul(Line))
  BY <1>1, <1>4
<1>6. EditorAt' = [done |-> lines', line |-> <<>>]
  BY <1>1 DEF EditorAt
<1> QED
  BY <1>2, <1>3, <1>5, <1>6 DEF EditedIs, Ended

LEMMA FgetsReadEdits == EditInv /\ FgetsRead => RingOfTyped' /\ EditedIs'
<1> SUFFICES ASSUME EditInv, FgetsRead PROVE RingOfTyped' /\ EditedIs'
  OBVIOUS
<1>1. /\ fpc = "got" /\ ReadCharStep /\ fpc' = fpc /\ i' = i /\ str' = str
      /\ lines' = lines /\ typed' = typed
  BY DEF FgetsRead, lineVars
<1>2. Edited(Consumed) = Begun /\ rpc # "idle"
  BY <1>1
  DEF EditInv, EditedIs, EditorAt, ReadCharStep, WaitLoadHead, WaitCompare, LoadChar, AdvanceTail
<1>3. Begun' = Begun
  BY <1>1 DEF Begun, Line
<1>4. CASE AdvanceTail
  <2>1. RingOfTyped' /\ Consumed \in Seq(Chars) /\ Consumed' = Append(Consumed, ret')
    BY <1>1, <1>4, AdvanceEdits
  <2>2. ret' \in Chars
    BY <1>4 DEF AdvanceTail, EditInv, LineInv, IInv, TypeOK
  <2>3. Edited(Append(Consumed, ret')) = Edit(Begun, ret')
    BY <1>2, <2>1, <2>2, EditedAppend
  <2>4. Edited(Consumed)' = Edit(Begun, ret')
    BY <2>1, <2>3, ZenonT(60) DEF Edited, Edits
  <2>5. rpc' = "idle"
    BY <1>4 DEF AdvanceTail
  <2>6. EditorAt' = Edit(Begun', ret')
    BY <1>1, <2>5 DEF EditorAt, Edit
  <2> QED
    BY <1>3, <2>1, <2>4, <2>6 DEF EditedIs
<1>5. CASE WaitLoadHead \/ WaitCompare \/ LoadChar
  <2>1. UNCHANGED ringVars /\ rpc' # "idle"
    BY <1>5 DEF WaitLoadHead, WaitCompare, LoadChar
  <2>2. RingOfTyped' /\ Consumed' = Consumed
    BY <1>1, <2>1, RingStill DEF EditInv
  <2>3. Edited(Consumed)' = Begun
    BY <1>2, <2>2 DEF Edited, Edits
  <2>4. EditorAt' = Begun'
    BY <1>1, <2>1 DEF EditorAt
  <2> QED
    BY <1>3, <2>2, <2>3, <2>4 DEF EditedIs
<1> QED
  BY <1>1, <1>4, <1>5 DEF ReadCharStep

\* What the editor sees changes only with the line and the statement fgets is at.
LEMMA SameEditor ==
  ASSUME UNCHANGED <<fpc, i, str, rpc, ret, lines>>
  PROVE  EditorAt' = EditorAt
<1>1. Line' = Line
  BY DEF Line
<1>2. Ended' = Ended
  <2>1. \A x : Line' = x => UpToNul(Line)' = UpToNul(x)
    BY DEF UpToNul, SelectInSeq
  <2> QED
    BY <1>1, <2>1 DEF Ended
<1>3. Begun' = Begun
  BY <1>1 DEF Begun
<1>4. Edit(Begun, ret)' = Edit(Begun, ret)
  BY <1>3 DEF Edit
<1> QED
  BY <1>2, <1>3, <1>4 DEF EditorAt

LEMMA EditStep == EditInv /\ [LineNext]_inputVars => EditInv'
<1> SUFFICES ASSUME EditInv, [LineNext]_inputVars PROVE EditInv'
  OBVIOUS
<1>0. LineInv'
  BY LineStepInv DEF EditInv
<1>l. n \in Nat /\ n >= 2 /\ i \in 0 .. n - 1 /\ lines \in Seq(Seq(Chars))
  BY LineFacts
<1>k. RingOfTyped /\ Edited(Consumed) = EditorAt
  BY DEF EditInv, EditedIs
<1>s. Consumed' = Consumed => Edited(Consumed)' = EditorAt
  BY <1>k DEF Edited, Edits
<1>1. ASSUME NEW ioCode \in ScanCodes, TypeKey(ioCode) PROVE EditInv'
  <2>1. RingOfTyped' /\ Consumed' = Consumed
    BY <1>1, TypeKeyEdits
  <2>2. UNCHANGED <<fpc, i, str, rpc, ret, lines>>
    BY <1>1 DEF TypeKey, KeyboardHandler, lineVars, readVars
  <2>3. EditorAt' = EditorAt
    BY <2>2, SameEditor
  <2> QED
    BY <1>0, <1>l, <1>s, <2>1, <2>2, <2>3 DEF EditInv, EditedIs
<1>2. CASE CallFgets
  <2>1. fpc = "cli" /\ fpc' = "loop" /\ i' = 0 /\ lines' = lines /\ rpc' = rpc
    BY <1>2 DEF CallFgets, readVars
  <2>2. RingOfTyped' /\ Consumed' = Consumed
    BY <1>2, <1>k, RingStill DEF CallFgets
  <2>3. EditorAt = [done |-> lines, line |-> <<>>]
    BY <2>1 DEF EditorAt
  <2>4. Line' = <<>>
    BY <2>1 DEF Line
  <2>5. EditorAt' = [done |-> lines, line |-> <<>>]
    BY <1>l, <2>1, <2>4 DEF EditorAt, Begun
  <2> QED
    BY <1>0, <1>l, <1>s, <2>1, <2>2, <2>3, <2>5 DEF EditInv, EditedIs
<1>3. CASE FgetsLoop
  <2>1. fpc = "loop" /\ i' = i /\ str' = str /\ lines' = lines /\ typed' = typed
    BY <1>3 DEF FgetsLoop
  <2>2. UNCHANGED ringVars
    BY <1>3 DEF FgetsLoop, CallReadChar
  <2>3. RingOfTyped' /\ Consumed' = Consumed
    BY <1>k, <2>1, <2>2, RingStill
  <2>4. Line' = Line
    BY <2>1 DEF Line
  <2>5. EditorAt' = EditorAt
    <3>1. CASE i < n - 1
      <4>1. fpc' = "got" /\ rpc' = "wait"
        BY <1>3, <3>1 DEF FgetsLoop, CallReadChar
      <4>2. EditorAt = Begun
        BY <1>l, <2>1, <3>1 DEF EditorAt
      <4>3. EditorAt' = Begun'
        BY <4>1 DEF EditorAt
      <4> QED
        BY <2>1, <2>4, <4>2, <4>3 DEF Begun
    <3>2. CASE ~(i < n - 1)
      <4>1. fpc' = "end" /\ i = n - 1
        BY <1>3, <1>l, <3>2 DEF FgetsLoop
      <4>2. EditorAt = Ended
        BY <2>1, <4>1 DEF EditorAt
      <4>3. EditorAt' = Ended'
        BY <4>1 DEF EditorAt
      <4>4. \A x : Line' = x => UpToNul(Line)' = UpToNul(x)
        BY DEF UpToNul, SelectInSeq
      <4> QED
        BY <2>1, <2>4, <4>2, <4>3, <4>4 DEF Ended
    <3> QED
      BY <3>1, <3>2
  <2> QED
    BY <1>0, <1>l, <1>s, <2>1, <2>3, <2>5 DEF EditInv, EditedIs
<1>4. CASE FgetsRead
  <2>1. lines' = lines
    BY <1>4 DEF FgetsRead
  <2> QED
    BY <1>0, <1>4, <1>l, <2>1, FgetsReadEdits DEF EditInv
<1>5. CASE FgetsChar
  <2>1. RingOfTyped' /\ lines' = lines
    BY <1>5, <1>k, RingStill DEF FgetsChar
  <2> QED
    BY <1>0, <1>5, <1>l, <2>1, FgetsCharEdits DEF EditInv
<1>6. CASE FgetsReturn
  <2>1. RingOfTyped'
    BY <1>6, <1>k, RingStill DEF FgetsReturn
  <2> QED
    BY <1>0, <1>6, <2>1, FgetsReturnEdits DEF EditInv
<1>7. CASE UNCHANGED inputVars
  <2>1. UNCHANGED ringVars /\ UNCHANGED <<fpc, i, str, rpc, ret, lines>> /\ UNCHANGED typed
    BY <1>7 DEF inputVars, ringVars
  <2>2. RingOfTyped' /\ Consumed' = Consumed
    BY <1>k, <2>1, RingStill
  <2>3. EditorAt' = EditorAt
    BY <2>1, SameEditor
  <2> QED
    BY <1>0, <1>l, <1>s, <2>1, <2>2, <2>3 DEF EditInv, EditedIs
<1> QED
  BY <1>1, <1>2, <1>3, <1>4, <1>5, <1>6, <1>7 DEF LineNext, FgetsStep

LEMMA EditInit == LineInit => EditInv
<1> SUFFICES ASSUME LineInit PROVE EditInv
  OBVIOUS
<1>1. LineInv /\ typed = <<>> /\ lines = <<>> /\ fpc = "cli"
  BY LineInitInv DEF LineInit
<1>2. Used = 0
  BY SizeAssumption DEF LineInit, Init, Used
<1>3. RingOfTyped /\ lines \in Seq(Seq(Chars))
  BY <1>1, <1>2 DEF RingOfTyped
<1>4. Consumed = <<>>
  <2>1. Consumed = SubSeq(<<>>, 1, 0)
    BY <1>1, <1>2 DEF Consumed
  <2> QED
    BY <2>1, SubSeqEmpty
<1>5. Edited(Consumed) = EditorAt
  BY <1>1, <1>4, EditedNothing DEF EditorAt, Blank
<1> QED
  BY <1>1, <1>3, <1>5 DEF EditInv, EditedIs

\* For every size of the ring and of the line, every keymap and every interleaving of
\* keys with fgets: the lines the command line has been given are what the editor makes
\* of the characters read (stdio.c, irq.c).
THEOREM LinesAreTheEditors == LineSpec => []LinesAreEdited
<1>1. EditInv => LinesAreEdited
  BY DEF EditInv, EditedIs, EditorAt, LinesAreEdited, LineInv
<1> QED
  BY <1>1, EditInit, EditStep, PTL DEF LineSpec
=============================================================================
