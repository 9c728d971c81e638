------------------------------ MODULE RealMode ------------------------------
(***************************************************************************)
(* The boot loader's calls of the BIOS (libs/boot/x86.asm): from 32-bit    *)
(* protected mode into real mode and back, register by register, with what *)
(* the BIOS may change.  What registers hold is abstract: what the caller  *)
(* left in them, the result, a frame, or something else.  There is no      *)
(* interrupt table in protected mode: an interrupt there stops the machine.*)
(***************************************************************************)
EXTENDS Integers, Sequences, SequencesExt

CONSTANT Functions  \* of the functions below, those that are called

VARIABLES fn, realPc, realRegs, stack, mode, interrupts

realVars == <<fn, realPc, realRegs, stack, mode, interrupts>>

General == {"eax", "ebx", "ecx", "edx", "esi", "edi", "ebp"}
Segments == {"ds", "es", "ss"}
CalleeSaved == {"ebx", "esi", "edi", "ebp"}
Of(r) == <<"caller's", r>>
Something == <<"something">>
Result == <<"result">>
Cr0 == <<"cr0">>         \* never 0: bit 0 is the mode just entered
RealFlat == <<"selector 10h">>
RealZero == <<"segment 0">>
FrameAt(n) == <<"frame", n>>

Push(r) == <<"push", r>>
Pop(r) == <<"pop", r>>
PushAll(rs) == [i \in DOMAIN rs |-> Push(rs[i])]
PopAll(rs) == [i \in DOMAIN rs |-> Pop(rs[i])]
RealLoad(r, v) == <<"load", r, v>>
Use(rs) == [i \in DOMAIN rs |-> RealLoad(rs[i], Something)]
Jump(m) == <<"jump", m>>
CallBios(changed) == <<"int", changed>>    \* the registers the service may change
Sti == <<"sti">>
Cli == <<"cli">>
Until == <<"until">>     \* back to the call unless it was Enter

\* Bug: interrupts are allowed before the segments are those of real mode.
BugEnterRealMode ==
  << Jump("pm16"), RealLoad("eax", Cr0), Sti, Jump("real"),
     RealLoad("ds", RealZero), RealLoad("ss", RealZero) >>

EnterRealMode ==
  << Jump("pm16"), RealLoad("eax", Cr0), Jump("real"),
     RealLoad("ds", RealZero), RealLoad("ss", RealZero), Sti >>

EnterProtectedMode ==
  << Cli, RealLoad("eax", Cr0), Jump("pm32"), RealLoad("ds", RealFlat), RealLoad("ss", RealFlat) >>

Enter == << Push("ebp"), <<"frame">> >> \o EnterRealMode
Leave == EnterProtectedMode \o << <<"unframe">>, Pop("ebp"), <<"ret">> >>
\* Bug: no ret.
BugLeaveNoRet ==
  << Push("eax") >> \o EnterProtectedMode \o << Pop("eax"), <<"unframe">>, Pop("ebp") >>

\* The switch back goes through eax: the result waits on the stack.
LeaveWithResult ==
  << Push("eax") >> \o EnterProtectedMode \o << Pop("eax"), <<"unframe">>, Pop("ebp"), <<"ret">> >>
\* cmp al, 4Fh, or CF through sbb.
TakeResult == << RealLoad("eax", Result) >>

\* Bug: the result is not kept on the stack.
BugGetDriveParams ==
  Enter \o PushAll(<<"es", "ebx", "esi", "edi">>)
        \o Use(<<"edx", "eax", "edi">>)
        \o << RealLoad("es", RealZero), CallBios({"eax", "ebx", "ecx", "edx", "edi", "es"}) >>
        \o TakeResult \o Use(<<"esi", "es", "ebx", "ecx">>)
        \o PopAll(<<"edi", "esi", "ebx", "es">>) \o Leave

GetDriveParams ==
  Enter \o PushAll(<<"es", "ebx", "esi", "edi">>)
        \o Use(<<"edx", "eax", "edi">>)
        \o << RealLoad("es", RealZero), CallBios({"eax", "ebx", "ecx", "edx", "edi", "es"}) >>
        \o TakeResult \o Use(<<"esi", "es", "ebx", "ecx">>)
        \o PopAll(<<"edi", "esi", "ebx", "es">>) \o LeaveWithResult

RealReset ==
  Enter \o Use(<<"eax", "edx">>) \o << CallBios({"eax"}) >> \o TakeResult \o LeaveWithResult

RealRead ==
  Enter \o PushAll(<<"ebx", "es">>) \o Use(<<"edx", "ecx", "eax", "ebx", "es">>)
        \o << CallBios({"eax"}) >> \o TakeResult
        \o PopAll(<<"es", "ebx">>) \o LeaveWithResult

\* The VESA BIOS may change ebp.  What is popped last is not what was pushed first.
GetVbeInfo ==
  Enter \o PushAll(<<"edi", "es", "ebp">>) \o Use(<<"eax", "edi", "es">>)
        \o << CallBios({"eax", "ebp"}) >> \o TakeResult
        \o PopAll(<<"ebp", "es", "ebx">>) \o LeaveWithResult

GetModeInfo ==
  Enter \o PushAll(<<"edi", "es", "ebp", "ecx">>) \o Use(<<"eax", "ecx", "edi", "es">>)
        \o << CallBios({"eax", "ebp"}) >> \o TakeResult
        \o PopAll(<<"ecx", "ebp", "es", "ebx">>) \o LeaveWithResult

RealSetMode ==
  Enter \o PushAll(<<"edi", "es", "ebp", "ebx">>)
        \o << RealLoad("es", RealZero) >> \o Use(<<"edi", "eax", "ebx">>)
        \o << CallBios({"eax", "ebp"}) >> \o TakeResult
        \o PopAll(<<"ebx", "ebp", "es", "ebx">>) \o LeaveWithResult

\* Bug: two registers are popped in the order they were pushed.
BugE820GetNextBlock ==
  Enter \o PushAll(<<"ebx", "ecx", "edx", "esi", "edi", "ds", "es">>)
        \o Use(<<"edi", "es", "esi", "ds", "ebx", "eax", "edx", "ecx">>)
        \o << CallBios({"eax", "ebx", "ecx"}) >> \o TakeResult
        \o PopAll(<<"es", "ds", "esi", "edi", "edx", "ecx", "ebx">>) \o LeaveWithResult

E820GetNextBlock ==
  Enter \o PushAll(<<"ebx", "ecx", "edx", "esi", "edi", "ds", "es">>)
        \o Use(<<"edi", "es", "esi", "ds", "ebx", "eax", "edx", "ecx">>)
        \o << CallBios({"eax", "ebx", "ecx"}) >> \o TakeResult
        \o PopAll(<<"es", "ds", "edi", "esi", "edx", "ecx", "ebx">>) \o LeaveWithResult

\* The 1 it puts into al is overwritten by the switch of modes.
RealWaitForEnter ==
  Enter \o PushAll(<<"ebx", "es">>) \o Use(<<"eax">>)
        \o << CallBios({"eax"}), Until >> \o TakeResult \o PopAll(<<"es", "ebx">>) \o Leave

RealProgram(f) ==
  CASE f = "GetDriveParams" -> GetDriveParams
    [] f = "Reset" -> RealReset
    [] f = "Read" -> RealRead
    [] f = "GetVbeInfo" -> GetVbeInfo
    [] f = "GetModeInfo" -> GetModeInfo
    [] f = "SetMode" -> RealSetMode
    [] f = "E820GetNextBlock" -> E820GetNextBlock
    [] f = "WaitForEnter" -> RealWaitForEnter

ASSUME RealModeAssumption ==
  Functions \subseteq {"GetDriveParams", "Reset", "Read", "GetVbeInfo", "GetModeInfo",
                       "SetMode", "E820GetNextBlock", "WaitForEnter"}

\* Called from C: interrupts have been off since stage 2 was entered, and es holds
\* what stage 1 left in it.
RealInit ==
  /\ fn \in Functions /\ realPc = 1
  /\ realRegs = [r \in General \cup Segments |->
                   IF r \in General THEN Of(r) ELSE IF r = "es" THEN RealZero ELSE RealFlat]
  /\ stack = << <<"return">> >>
  /\ mode = "pm32" /\ interrupts = FALSE

Returned == realPc = 0
RealNow == IF Returned THEN <<"halt">> ELSE RealProgram(fn)[realPc]
On == realPc' = realPc + 1
Same == UNCHANGED <<fn, realRegs, stack, mode, interrupts>>

Stack ==
  /\ RealNow[1] \in {"push", "pop", "frame", "unframe", "ret"} /\ UNCHANGED <<fn, mode, interrupts>>
  /\ CASE RealNow[1] = "push" ->
            stack' = Append(stack, realRegs[RealNow[2]]) /\ On /\ UNCHANGED realRegs
       [] RealNow[1] = "pop" ->
            stack' = Front(stack) /\ realRegs' = [realRegs EXCEPT ![RealNow[2]] = Last(stack)] /\ On
       [] RealNow[1] = "frame" ->
            realRegs' = [realRegs EXCEPT !["ebp"] = FrameAt(Len(stack))] /\ On /\ UNCHANGED stack
       [] RealNow[1] = "unframe" ->
            stack' = SubSeq(stack, 1, realRegs["ebp"][2]) /\ On /\ UNCHANGED realRegs
       [] OTHER ->
            stack' = Front(stack) /\ realPc' = 0 /\ UNCHANGED realRegs

LoadRegister ==
  /\ RealNow[1] = "load"
  /\ realRegs' = [realRegs EXCEPT ![RealNow[2]] = RealNow[3]] /\ On
  /\ UNCHANGED <<fn, stack, mode, interrupts>>

Switch ==
  /\ RealNow[1] \in {"jump", "sti", "cli"}
  /\ mode' = IF RealNow[1] = "jump" THEN RealNow[2] ELSE mode
  /\ interrupts' = CASE RealNow[1] = "sti" -> TRUE
                     [] RealNow[1] = "cli" -> FALSE
                     [] OTHER -> interrupts
  /\ On /\ UNCHANGED <<fn, realRegs, stack>>

\* The service returns, having changed some of the registers it may.
Bios ==
  /\ RealNow[1] = "int"
  /\ \E changed \in SUBSET RealNow[2] :
       realRegs' = [r \in DOMAIN realRegs |-> IF r \in changed THEN Something ELSE realRegs[r]]
  /\ On /\ UNCHANGED <<fn, stack, mode, interrupts>>

AnotherKey == RealNow[1] = "until" /\ (On \/ realPc' = realPc - 2) /\ Same

RealNext == Stack \/ LoadRegister \/ Switch \/ Bios \/ AnotherKey

RealSpec == RealInit /\ [][RealNext]_realVars

-----------------------------------------------------------------------------
RealModeTypeOK ==
  /\ fn \in Functions /\ realPc \in 0 .. Len(RealProgram(fn))
  /\ DOMAIN realRegs = General \cup Segments
  /\ mode \in {"pm32", "pm16", "real"} /\ interrupts \in BOOLEAN
  /\ Len(stack) <= 10

\* An interrupt can only come, and the BIOS is only called, in real mode with the real
\* mode stack.
InterruptsInRealMode ==
  interrupts \/ RealNow[1] = "int" => mode = "real" /\ realRegs["ss"] = RealZero /\ interrupts

Video == {"GetVbeInfo", "GetModeInfo", "SetMode"}

\* The caller finds its stack, its frame and the flat segments as it left them, and
\* the registers a C function must keep, whatever the BIOS did to them; only the video
\* calls leave something else in ebx, and edi changed.
CallerUndisturbed ==
  Returned =>
    /\ stack = <<>> /\ mode = "pm32" /\ ~interrupts
    /\ realRegs["ds"] = RealFlat /\ realRegs["ss"] = RealFlat /\ realRegs["es"] = RealZero
    /\ \A r \in CalleeSaved : realRegs[r] = Of(r) \/ (fn \in Video /\ r \in {"ebx", "edi"})

\* The result of the BIOS call is not lost on the way back; WaitForEnter's 1 is, but
\* what is returned instead is not 0.
ResultReturned ==
  Returned => realRegs["eax"] = IF fn = "WaitForEnter" THEN Cr0 ELSE Result
=============================================================================
