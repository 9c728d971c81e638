-------------------------------- MODULE A20 --------------------------------
(***************************************************************************)
(* EnableA20 of stage 2 (bootloader/stage2/entry.asm) and the keyboard     *)
(* controller it talks to: commands and data go through an input buffer,   *)
(* answers and scan codes share one output buffer.  A byte is the set of   *)
(* its bits that are 1; bit 1 of the controller's output port is the A20   *)
(* gate, and bit 0, cleared, resets the machine.                           *)
(***************************************************************************)
EXTENDS Integers, Sequences

CONSTANTS
  Bits,         \* bits of a byte
  ScanCodes,    \* what the keyboard sends
  OutputPorts,  \* the output port as the BIOS may leave it
  EarlyKeys     \* may a key be pressed before the keyboard is disabled?

A20Bit == 1

ASSUME A20Assumption ==
  /\ A20Bit \in Bits
  /\ ScanCodes \cup OutputPorts \subseteq SUBSET Bits
  /\ EarlyKeys \in BOOLEAN

VARIABLES
  a20Pc,    \* the next instruction of EnableA20, as an index of its program
  al,       \* the byte read, which is pushed and popped
  input,    \* the input buffer: a command, data, or Empty
  output,   \* the output buffer: a byte, or Empty
  isData,   \* does the controller wait for the data of a command?
  port,     \* the output port
  enabled,  \* is the keyboard's interface enabled?
  initial   \* history: the output port before

a20Vars == <<a20Pc, al, input, output, isData, port, enabled, initial>>
controller == <<input, output, isData, port, enabled, initial>>

Empty == [kind |-> "empty", value |-> {}]
Cmd(name) == [kind |-> name, value |-> {}]
Byte(b) == [kind |-> "byte", value |-> b]

\* Bug: the keyboard stays disabled.
BugProgramLeavesDisabled ==
  << "A20WaitInput", "DisableKeyboard",
     "A20WaitInput", "ReadCtrlOutputPort", "A20WaitOutput", "in",
     "A20WaitInput", "WriteCtrlOutputPort", "A20WaitInput", "out", "A20WaitInput" >>

\* EnableA20, instruction by instruction.
A20Program == << "A20WaitInput", "DisableKeyboard",
                 "A20WaitInput", "ReadCtrlOutputPort", "A20WaitOutput", "in",
                 "A20WaitInput", "WriteCtrlOutputPort", "A20WaitInput", "out",
                 "A20WaitInput", "EnableKeyboard", "A20WaitInput" >>
Commands == {"DisableKeyboard", "ReadCtrlOutputPort", "WriteCtrlOutputPort", "EnableKeyboard"}
Done == a20Pc > Len(A20Program)
A20Now == IF Done THEN "ret" ELSE A20Program[a20Pc]

A20Init ==
  /\ a20Pc = 1 /\ al = {}
  /\ input = Empty /\ isData = FALSE
  /\ output \in {Empty} \cup (IF EarlyKeys THEN {Byte(s) : s \in ScanCodes} ELSE {})
  /\ port \in OutputPorts /\ initial = port
  /\ enabled = TRUE

\* Bug: the input buffer is not waited for.
BugNoWait == A20Now = "A20WaitInput" /\ a20Pc' = a20Pc + 1 /\ UNCHANGED <<al, controller>>

\* Bug: no ret at the end: the CPU runs on into A20WaitInput.
BugRunsOn ==
  /\ A20Now \in {"A20WaitInput", "ret"} /\ input = Empty
  /\ a20Pc' = a20Pc + 1 /\ UNCHANGED <<al, controller>>

\* A20WaitInput: polls until the input buffer is empty.
A20WaitInput ==
  /\ A20Now = "A20WaitInput" /\ input = Empty
  /\ a20Pc' = a20Pc + 1 /\ UNCHANGED <<al, controller>>

\* A20WaitOutput: polls until the output buffer is full, with whatever.
A20WaitOutput ==
  A20Now = "A20WaitOutput" /\ output # Empty /\ a20Pc' = a20Pc + 1 /\ UNCHANGED <<al, controller>>

OutCommand ==
  /\ A20Now \in Commands
  /\ input' = Cmd(A20Now)
  /\ a20Pc' = a20Pc + 1
  /\ UNCHANGED <<al, output, isData, port, enabled, initial>>

InData ==
  /\ A20Now = "in"
  /\ al' = output.value /\ output' = Empty
  /\ a20Pc' = a20Pc + 1
  /\ UNCHANGED <<input, isData, port, enabled, initial>>

\* Bug: the A20 bit alone is written.
BugOutBitOnly ==
  /\ A20Now = "out"
  /\ input' = Byte({A20Bit})
  /\ a20Pc' = a20Pc + 1
  /\ UNCHANGED <<al, output, isData, port, enabled, initial>>

OutData ==
  /\ A20Now = "out"
  /\ input' = Byte(al \cup {A20Bit})
  /\ a20Pc' = a20Pc + 1
  /\ UNCHANGED <<al, output, isData, port, enabled, initial>>

Cpu == A20WaitInput \/ A20WaitOutput \/ OutCommand \/ InData \/ OutData

\* The controller takes what is in its input buffer.  An answer waits until the
\* output buffer is free.
Controller ==
  /\ input # Empty
  /\ input.kind = "ReadCtrlOutputPort" => output = Empty
  /\ input' = Empty
  /\ output' = IF input.kind = "ReadCtrlOutputPort" THEN Byte(port) ELSE output
  /\ isData' = (input.kind = "WriteCtrlOutputPort")
  /\ port' = IF input.kind = "byte" /\ isData THEN input.value ELSE port
  /\ enabled' = IF input.kind = "DisableKeyboard" THEN FALSE
                ELSE IF input.kind = "EnableKeyboard" THEN TRUE ELSE enabled
  /\ UNCHANGED <<a20Pc, al, initial>>

\* A scan code arrives.
Key ==
  /\ enabled /\ output = Empty
  /\ EarlyKeys \/ (Done /\ input = Empty)
  /\ \E s \in ScanCodes : output' = Byte(s)
  /\ UNCHANGED <<a20Pc, al, input, isData, port, enabled, initial>>

A20Next == Cpu \/ Controller \/ Key

A20Spec == A20Init /\ [][A20Next]_a20Vars /\ WF_a20Vars(Cpu) /\ WF_a20Vars(Controller)

-----------------------------------------------------------------------------
A20TypeOK ==
  /\ a20Pc \in 1 .. Len(A20Program) + 1
  /\ {al, port, input.value, output.value} \subseteq SUBSET Bits
  /\ {isData, enabled} \subseteq BOOLEAN

\* The dialogue never changes a line of the output port but A20: the machine is not
\* reset, and what is written back is what was read.
OnlyA20Changes == port \in {initial, initial \cup {A20Bit}}

\* Nothing is written to the controller before it has taken what was written before.
NothingOverwritten == [][input = Empty \/ input' \in {input, Empty}]_a20Vars

\* The dialogue ends, with the gate open and the keyboard enabled again.
GateOpens == <>[](Done /\ A20Bit \in port /\ enabled)
=============================================================================
