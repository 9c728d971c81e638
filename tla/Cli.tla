-------------------------------- MODULE Cli --------------------------------
(***************************************************************************)
(* What the command line makes of a line (libs/core/cli.c) and FAT_Open of *)
(* the path in it (libs/core/fat.c; libs/boot/fat.c is the same): the      *)
(* command's word, the parameter, the components of the path one by one in *)
(* a buffer on the stack, and the short name of each, which directory      *)
(* entries are compared with.  How entries are found is module Fat's.  A   *)
(* string is a sequence of characters, a command's word counts as one.     *)
(***************************************************************************)
EXTENDS Integers, Sequences, SequencesExt, FiniteSetsExt

CONSTANTS
  BASE, EXT,      \* characters of a short name before and after the dot (8 and 3)
  PARAMETER,      \* sizeof parameter (100)
  MAX_PATH_SIZE,  \* sizeof name (256)
  UpperOf,        \* toupper, for the characters it changes
  Letters,        \* characters the stack may hold at first
  Lines,          \* the lines typed: a word, then characters, the last a newline
  Tree            \* the volume: for each directory its entries, by short name

Words == {"help", "info", "ls", "cat", "clear", "exit"}
Nul == "NUL"
Newline == "newline"
Slash == "/"
Dot == "."
Space == " "

ASSUME CliAssumption ==
  /\ {BASE, EXT, PARAMETER, MAX_PATH_SIZE} \subseteq Nat \ {0}
  /\ "root" \in DOMAIN Tree
  /\ \A line \in Lines : line # <<>> /\ Len(line) < MAX_PATH_SIZE /\ Last(line) = Newline

VARIABLES
  cliPc,
  line,      \* the buffer fgets has filled
  path,      \* what FAT_Open has still to look at
  cliName,   \* its buffer, never initialized
  current,   \* the directory or file it has come to
  cliResult  \* what cat shows: a file, or nothing

cliVars == <<cliPc, line, path, cliName, current, cliResult>>

\* What an earlier call may have left where the buffer for a name lies.
Leftovers == {[k \in 1 .. MAX_PATH_SIZE |-> x] : x \in Letters}

CliInit ==
  /\ cliPc = "prompt" /\ line = <<>> /\ path = <<>>
  /\ cliName \in Leftovers
  /\ current = "root" /\ cliResult = "nothing"

Upper(x) == IF x \in DOMAIN UpperOf THEN UpperOf[x] ELSE x

\* strchr: the place of a character in a string, from 1, or 0.
strchr(s, x) ==
  LET at == {k \in DOMAIN s : s[k] = x} IN IF at = {} THEN 0 ELSE Min(at)

\* The string in a buffer.
CString(s) == LET end == strchr(s, Nul) IN IF end = 0 THEN s ELSE SubSeq(s, 1, end - 1)

\* Bug: the characters behind the dot are left out.
BugShortNameNoExt(s) ==
  LET dot == strchr(s, Dot)
      ext == IF dot = 0 THEN BASE + EXT + 1 ELSE dot
  IN [k \in 1 .. BASE + EXT |->
        IF k <= BASE /\ k <= Len(s) /\ k < ext THEN Upper(s[k]) ELSE Space]

\* Kernel_FAT_GetShortName.  A dot just behind the characters of a short name is
\* taken for none.
GetShortName(s) ==
  LET dot == strchr(s, Dot)
      ext == IF dot = 0 THEN BASE + EXT + 1 ELSE dot
  IN [k \in 1 .. BASE + EXT |->
        IF k <= BASE
        THEN IF k <= Len(s) /\ k < ext THEN Upper(s[k]) ELSE Space
        ELSE LET from == ext + k - BASE
             IN IF ext # BASE + EXT + 1 /\ from <= Len(s) THEN Upper(s[from]) ELSE Space]

-----------------------------------------------------------------------------
Finish == cliPc' = "prompt"

\* Bug: the parameter is copied whatever its length.
BugParseUnbounded ==
  /\ cliPc = "prompt"
  /\ line' \in Lines
  /\ cliResult' = "nothing"
  /\ IF Head(line') # "cat" THEN Finish /\ UNCHANGED <<path, current>>
     ELSE path' = SubSeq(line', 3, Len(line')) /\ current' = "root" /\ cliPc' = "open"
  /\ UNCHANGED cliName

\* fgets returns a line, Command_Parse looks at the word it begins with, and all but
\* cat run at once.  What follows the word does not matter to them.
Command_Parse ==
  /\ cliPc = "prompt"
  /\ line' \in Lines
  /\ cliResult' = "nothing"
  /\ IF Head(line') # "cat" THEN Finish /\ UNCHANGED <<path, current>>
     ELSE LET from == SubSeq(line', 3, Len(line'))
              blanks == CHOOSE k \in 0 .. Len(from) :
                          /\ \A j \in 1 .. k : from[j] = Space
                          /\ k = Len(from) \/ from[k + 1] # Space
              parameter == SubSeq(from, blanks + 1, Len(from))
          IN /\ path' = SubSeq(parameter, 1, Min({Len(parameter), PARAMETER - 1}))
             /\ current' = "root"
             /\ cliPc' = "open"
  /\ UNCHANGED cliName

\* FAT_Open: a slash at the start is skipped.
Open ==
  /\ cliPc = "open"
  /\ path' = IF path # <<>> /\ Head(path) = Slash THEN Tail(path) ELSE path
  /\ cliPc' = "component"
  /\ UNCHANGED <<line, cliName, current, cliResult>>

Put(s) == [k \in 1 .. MAX_PATH_SIZE |-> IF k <= Len(s) THEN s[k] ELSE cliName[k]]

\* Bug: a component is not terminated.
BugNoTerminator ==
  /\ cliPc = "component" /\ path # <<>>
  /\ LET delim == strchr(path, Slash)
     IN IF delim # 0
        THEN /\ cliName' = Put(SubSeq(path, 1, delim - 1))
             /\ path' = SubSeq(path, delim + 1, Len(path))
        ELSE cliName' = Put(path) /\ path' = <<>>
  /\ cliPc' = "find"
  /\ UNCHANGED <<line, current, cliResult>>

\* The loop of FAT_Open copies the next component into its buffer.  The last one is
\* terminated one place too far: what the buffer held before shows there.
Component ==
  /\ cliPc = "component" /\ path # <<>>
  /\ LET delim == strchr(path, Slash)
     IN IF delim # 0
        THEN /\ cliName' = Put(Append(SubSeq(path, 1, delim - 1), Nul))
             /\ path' = SubSeq(path, delim + 1, Len(path))
        ELSE /\ cliName' = [Put(path) EXCEPT ![Len(path) + 2] = Nul]
             /\ path' = <<>>
  /\ cliPc' = "find"
  /\ UNCHANGED <<line, current, cliResult>>

\* FAT_FindFile and FAT_OpenEntry: what a file holds is searched like a directory.
Find ==
  /\ cliPc = "find"
  /\ LET entries == IF current \in DOMAIN Tree THEN Tree[current] ELSE [x \in {} |-> x]
         short == GetShortName(CString(cliName))
     IN IF short \in DOMAIN entries
        THEN current' = entries[short] /\ cliPc' = "component" /\ UNCHANGED cliResult
        ELSE current' = "nothing" /\ cliResult' = "nothing" /\ Finish
  /\ UNCHANGED <<line, path, cliName>>

\* cat has its file.
Opened ==
  /\ cliPc = "component" /\ path = <<>>
  /\ cliResult' = current
  /\ Finish
  /\ UNCHANGED <<line, path, cliName, current>>

CliNext == Command_Parse \/ Open \/ Component \/ Find \/ Opened

CliSpec == CliInit /\ [][CliNext]_cliVars

-----------------------------------------------------------------------------
CliTypeOK ==
  /\ cliPc \in {"prompt", "open", "component", "find"}
  /\ line = <<>> \/ line \in Lines
  /\ Len(path) < PARAMETER
  /\ DOMAIN cliName = 1 .. MAX_PATH_SIZE

(***************************************************************************)
(* What a line names, said apart from the code.                            *)
(***************************************************************************)
Typed == SelectSeq(SubSeq(line, 3, Len(line)), LAMBDA x : x \notin {Space, Newline})

\* The components of a path, as sequences of characters.
Components ==
  LET step(split, x) ==
        IF x = Slash THEN Append(split, <<>>)
        ELSE [split EXCEPT ![Len(split)] = Append(@, x)]
  IN SelectSeq(FoldLeft(step, <<<<>>>>, Typed), LAMBDA part : part # <<>>)

Padded(s, size) == [k \in 1 .. size |-> IF k <= Len(s) THEN Upper(s[k]) ELSE Space]
BaseOf(part) == LET dot == strchr(part, Dot) IN IF dot = 0 THEN part ELSE SubSeq(part, 1, dot - 1)
ExtOf(part) ==
  LET dot == strchr(part, Dot) IN IF dot = 0 THEN <<>> ELSE SubSeq(part, dot + 1, Len(part))
Short(part) == Padded(BaseOf(part), BASE) \o Padded(ExtOf(part), EXT)

\* A path all of whose names a short name can hold.
Wellformed ==
  /\ Components # <<>>
  /\ \A i \in DOMAIN Components :
       Len(BaseOf(Components[i])) \in 1 .. BASE /\ Len(ExtOf(Components[i])) <= EXT

Named ==
  FoldLeft(LAMBDA at, part :
             IF at \notin DOMAIN Tree \/ Short(part) \notin DOMAIN Tree[at] THEN "nothing"
             ELSE Tree[at][Short(part)],
           "root", Components)

Answered == cliPc = "prompt" /\ line # <<>> /\ Head(line) = "cat" /\ Wellformed

\* cat never shows another file than the one named, whatever an earlier component or
\* an earlier command has left in the buffer.
NeverAnotherFile == Answered /\ cliResult # "nothing" => cliResult = Named

\* A file whose name has all characters of its extension is found by its name.
FindsFullNames ==
  Answered /\ Len(ExtOf(Last(Components))) = EXT => cliResult = Named
=============================================================================
