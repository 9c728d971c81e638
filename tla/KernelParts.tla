---------------------------- MODULE KernelParts ----------------------------
(***************************************************************************)
(* Parts of the kernel that only its main line executes: the disk driver,  *)
(* the way of a path through the command line and the FAT driver, printf,  *)
(* and the two utilities that reading long file names would take, sorting  *)
(* and the conversion of UTF-16.  They share no variable, so a behaviour   *)
(* is of one part, while the others are as they start.                     *)
(***************************************************************************)
EXTENDS AtaDisk, Cli, Printf, Quicksort, Utf

VARIABLE part   \* the part this behaviour is of

Parts == {"disk", "cli", "printf", "quicksort", "utf"}

kernelPartsVars == <<part, ataVars, cliVars, printfVars, sortVars, utfVars>>

\* Every input is tried for the part at work, and one of them serves for the others.
Input(p, inputs) == IF part = p THEN inputs ELSE {CHOOSE x \in inputs : TRUE}

KernelPartsInit ==
  /\ part \in Parts
  /\ reg \in Input("disk", Channels) /\ AtaInit
  /\ cliName \in Input("cli", Leftovers) /\ CliInit
  /\ call \in Input("printf", Calls) /\ PrintfStart
  /\ input \in Input("quicksort", Inputs) /\ SortStart
  /\ utfName \in Input("utf", Names) /\ UtfStart

\* The parts that are not at work stay as they are.
Only(p) ==
  /\ part = p /\ UNCHANGED part
  /\ p = "disk" \/ UNCHANGED ataVars
  /\ p = "cli" \/ UNCHANGED cliVars
  /\ p = "printf" \/ UNCHANGED printfVars
  /\ p = "quicksort" \/ UNCHANGED sortVars
  /\ p = "utf" \/ UNCHANGED utfVars

KernelPartsNext ==
  \/ Only("disk") /\ AtaNext
  \/ Only("cli") /\ CliNext
  \/ Only("printf") /\ PrintfNext
  \/ Only("quicksort") /\ SortNext
  \/ Only("utf") /\ UtfNext

\* The processor executes the part at work; a drive gets on with a command it has taken.
KernelPartsSpec ==
  /\ KernelPartsInit /\ [][KernelPartsNext]_kernelPartsVars
  /\ WF_kernelPartsVars(Only("disk") /\ DriverStep)
  /\ \A d \in Drives : /\ WF_kernelPartsVars(Only("disk") /\ GoBusy(d))
                       /\ WF_kernelPartsVars(Only("disk") /\ Offer(d))
  /\ WF_kernelPartsVars(Only("quicksort") /\ SortNext)

-----------------------------------------------------------------------------
(***************************************************************************)
(* What the parts promise, in groups: their modules say it part by part.   *)
(***************************************************************************)

\* The disk driver is a disk service: a read returns the sectors asked for or an error.
\* It gives its commands to the drive meant, and to it only when it is idle.
DrivesAreServed == []AtaTypeOK /\ ImplementsDisk /\ CommandsToIdleDrive

\* cat shows the file named or none, whatever earlier commands have left behind, and
\* that file if its name has a full extension.
NamesAreFound == CliTypeOK /\ NeverAnotherFile /\ FindsFullNames

\* What would read long file names: quicksort returns sorted arrays and leaves an array
\* only for a first element that is the one smallest; the conversion to UTF-8 writes what
\* arrives of each character of the name, in its place, whichever others are beside it.
LongNamesComeThrough ==
  QuicksortTypeOK /\ Sorts /\ LeavesForSmallestFirst /\ UtfTypeOK /\ NameWritten

\* What is begun ends: a read, unless the drive has given up without a block, and
\* quicksort.
KernelPartsEnd == ReadEnds /\ (part = "quicksort" => SortEnds)
=============================================================================
