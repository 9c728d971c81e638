----------------------------- MODULE BootParts -----------------------------
(***************************************************************************)
(* The parts of the boot path: the loader in the boot sector, the A20      *)
(* dialogue, the order of the steps of stage 2 and of the kernel's start,  *)
(* and the parts these steps consist of: calls of the BIOS, reads of the   *)
(* boot disk, the loader of the kernel, the screen, and the kernel's       *)
(* descriptor tables.  They share one processor and no variable, so that   *)
(* what they do together is what each does alone: a behaviour is of one    *)
(* part, while the others are as they start.                               *)
(***************************************************************************)
EXTENDS Stage1, A20, BootSequence, RealMode, BiosDisk, ElfLoader, Vbe,
        Descriptors

VARIABLE part   \* the part this behaviour is of

Parts == {"stage1", "a20", "sequence", "realMode", "disk", "elf", "vbe", "tables"}

bootPartsVars ==
  <<part, stage1Vars, a20Vars, bootVars, realVars, biosVars, elfVars, vbeVars,
    descVars>>

\* Every input is tried for the part at work, and one of them serves for the others.
Input(p, inputs) == IF part = p THEN inputs ELSE {CHOOSE x \in inputs : TRUE}

BootPartsInit ==
  /\ part \in Parts
  /\ stage1Ready \in Input("stage1", BOOLEAN) /\ Stage1Init
  /\ port \in Input("a20", OutputPorts) /\ A20Init
  /\ machine \in Input("sequence", Machines) /\ BootInit
  /\ fn \in Input("realMode", Functions) /\ RealInit
  /\ biosReady \in Input("disk", BOOLEAN) /\ BiosInit
  /\ file \in Input("elf", Files \cup {NoFile}) /\ ElfInit
  /\ modes \in Input("vbe", ModeLists) /\ VbeInit
  /\ DescInit

\* The parts that are not at work stay as they are.
Only(p) ==
  /\ part = p /\ UNCHANGED part
  /\ p = "stage1" \/ UNCHANGED stage1Vars
  /\ p = "a20" \/ UNCHANGED a20Vars
  /\ p = "sequence" \/ UNCHANGED bootVars
  /\ p = "realMode" \/ UNCHANGED realVars
  /\ p = "disk" \/ UNCHANGED biosVars
  /\ p = "elf" \/ UNCHANGED elfVars
  /\ p = "vbe" \/ UNCHANGED vbeVars
  /\ p = "tables" \/ UNCHANGED descVars

BootPartsNext ==
  \/ Only("stage1") /\ Stage1Next
  \/ Only("a20") /\ A20Next
  \/ Only("sequence") /\ BootNext
  \/ Only("realMode") /\ RealNext
  \/ Only("disk") /\ BiosNext
  \/ Only("elf") /\ ElfNext
  \/ Only("vbe") /\ VbeNext
  \/ Only("tables") /\ DescNext

\* The processor executes the part at work; the keyboard controller, which works on
\* its own, gets on with a command.
BootPartsSpec ==
  /\ BootPartsInit /\ [][BootPartsNext]_bootPartsVars
  /\ WF_bootPartsVars(Only("stage1") /\ Stage1Next)
  /\ WF_bootPartsVars(Only("a20") /\ Cpu)
  /\ WF_bootPartsVars(Only("a20") /\ Controller)
  /\ WF_bootPartsVars(Only("elf") /\ ElfNext)

-----------------------------------------------------------------------------
(***************************************************************************)
(* What the parts promise, in groups: their modules say it part by part.   *)
(***************************************************************************)

\* Nothing is entered, and nothing reported as loaded, that is not in memory whole:
\* stage 1 and stage 2, stage 2 and the kernel, ELF_Read and each segment; and a load
\* that succeeded has given its handles back.
EntersWholeImages ==
  /\ Stage1TypeOK /\ BootTypeOK /\ ElfTypeOK
  /\ JumpsIntoStage2 /\ KernelEnteredWhole /\ LoadedWhole /\ OneHandle

\* What the kernel works with is of the machine it runs on: the volume it was booted
\* from, and the memory blocks the BIOS reported, but for the one that comes with the
\* word that there are no more.
KernelFindsItsMachine == MountsBootVolume /\ RegionsAreBlocks

\* A call of the BIOS from C: interrupts only in real mode, and the caller gets the
\* result, with its stack, frame, segments and registers as they were (but for ebx and
\* edi after the video calls).
BiosCallsSound ==
  RealModeTypeOK /\ InterruptsInRealMode /\ CallerUndisturbed /\ ResultReturned

\* The screen mode set is the first that fits, and the picture is drawn into its frame
\* buffer, with the lines where the mode has them.
ShowsPicture == VbeTypeOK /\ DrawsInFrameBuffer /\ PictureShown /\ FirstFit

\* Devices that fail, are slow or are not ready are dealt with as the code means to.
\* Loads that fail are tried again as often as it says, with a reset in between, and given
\* up only after a failure of medium or reset for each try but the first.  The A20 dialogue changes no other line of the output port, at no moment, and
\* gives the controller nothing before it has taken what it was given.
DevicesAreHeeded ==
  /\ [](BiosTypeOK /\ EveryTryCounts /\ A20TypeOK /\ OnlyA20Changes)
  /\ GivesUpAfterTries /\ NothingOverwritten

\* What is begun ends: stage 1 in stage 2 or in a reboot, ELF_Read in a return, and the
\* A20 dialogue with the gate open and the keyboard enabled again, whatever the pace of
\* the controller.
BootPartsEnd ==
  /\ part = "stage1" => BootEnds
  /\ part = "elf" => LoadEnds
  /\ part = "a20" => GateOpens
=============================================================================
