----------------------------- MODULE ElfLoader -----------------------------
(***************************************************************************)
(* ELF_Read (libs/boot/elf.c), which loads the kernel: the header, the     *)
(* table of program headers, and each segment to its address, through the  *)
(* FAT driver (libs/boot/fat.c), of whose calls only the results matter    *)
(* here, and memcpy and memset (libs/boot/memory.c), whose lengths have 16 *)
(* bits.  A byte of the file is its position, so memory shows what came    *)
(* from where.                                                             *)
(***************************************************************************)
EXTENDS Integers, Sequences

CONSTANTS
  HEADER_SIZE,  \* sizeof(ELFHeader) (52)
  ENTRY_SIZE,   \* ProgramHeaderTableEntrySize (32)
  LOAD_SIZE,    \* MEMORY_LOAD_SIZE (65536)
  ELF_WORD,     \* values of a 16-bit length (65536)
  Files,        \* what may be at the path, see FileOK
  NoFile,       \* or nothing
  Addresses,    \* the memory segments are loaded to
  MayFail       \* may disk reads fail?

\* Is the header an ELF one, where is the table, and for each of its entries: is it
\* loadable, offset, address, sizes in the file and in memory.
FileOK(f) ==
  /\ f.elf \in BOOLEAN
  /\ f.size \in Nat /\ f.tableAt \in Nat /\ f.tableAt >= HEADER_SIZE
  /\ Len(f.segments) \in Nat /\ DOMAIN f.segments = 1 .. Len(f.segments)
  /\ \A i \in DOMAIN f.segments :
       LET s == f.segments[i]
       IN /\ s.load \in BOOLEAN
          /\ {s.offset, s.addr, s.fileSize, s.memSize} \subseteq Nat
          /\ s.fileSize <= s.memSize
          /\ s.addr .. s.addr + s.memSize - 1 \subseteq Addresses

ASSUME ElfAssumption ==
  /\ {HEADER_SIZE, ENTRY_SIZE, LOAD_SIZE, ELF_WORD} \subseteq Nat \ {0}
  /\ Addresses \subseteq Nat
  /\ NoFile \notin Files /\ \A f \in Files : FileOK(f)
  /\ MayFail \in BOOLEAN

VARIABLES
  file,   \* what is at the path
  elfPc,
  held,   \* handles taken and not given back
  pos,    \* position of the open handle
  torn,   \* has a read of it failed? its buffer then holds anything
  ph,    \* i, the entry in hand
  left,   \* Offset, then FileSize, of the entry: the code counts them down in place
  addr,   \* virtualAddress
  elfMem  \* by address: a position of the file, or one of the following

elfVars == <<file, elfPc, held, pos, torn, ph, left, addr, elfMem>>

Old == -1
ElfZero == -2
Garbage == -3

ElfInit ==
  /\ file \in Files \cup {NoFile}
  /\ elfPc = "open" /\ held = 0 /\ pos = 0 /\ torn = FALSE
  /\ ph = 1 /\ left = 0 /\ addr = 0
  /\ elfMem = [a \in Addresses |-> Old]

Lower(a, b) == IF a <= b THEN a ELSE b
ElfSegment == file.segments[ph]
TableSize == ENTRY_SIZE * Len(file.segments)

-----------------------------------------------------------------------------
\* FAT_Open: a handle, or NULL, which no caller tests for: the read that follows then
\* takes what is at address 0 for a handle, and nothing can be said.
Open(next) ==
  \/ /\ file # NoFile
     /\ held' = held + 1 /\ pos' = 0 /\ torn' = FALSE /\ elfPc' = next
  \/ /\ file = NoFile \/ MayFail
     /\ elfPc' = "wild" /\ UNCHANGED <<held, pos, torn>>

\* FAT_Read of n bytes returns r: the end of the file or a failed disk read may make
\* it less, and after the latter the handle's buffer is torn.
FatRead(n, r) ==
  LET available == Lower(n, file.size - pos)
  IN /\ r \in IF MayFail THEN 0 .. available ELSE {available}
     /\ pos' = pos + r
     /\ torn' = (torn \/ r < available)

OpenHeader == elfPc = "open" /\ Open("header") /\ UNCHANGED <<file, ph, left, addr, elfMem>>

\* The header is read; the verdict on it is computed and never used.
ReadHeader ==
  /\ elfPc = "header"
  /\ \E r \in 0 .. HEADER_SIZE :
       /\ FatRead(HEADER_SIZE, r)
       /\ elfPc' = IF r = HEADER_SIZE THEN "seekTable" ELSE "false"
  /\ UNCHANGED <<file, held, ph, left, addr, elfMem>>

\* Everything up to the table is read over; how much came does not matter.
SeekTable ==
  /\ elfPc = "seekTable"
  /\ \E r \in 0 .. file.tableAt - HEADER_SIZE : FatRead(file.tableAt - HEADER_SIZE, r)
  /\ elfPc' = "table"
  /\ UNCHANGED <<file, held, ph, left, addr, elfMem>>

\* The table is read, and the file closed.  From a torn buffer, or from elsewhere,
\* the segments it tells of are anything.
ReadTable ==
  /\ elfPc = "table"
  /\ \E r \in 0 .. TableSize :
       /\ FatRead(TableSize, r)
       /\ IF r # TableSize THEN elfPc' = "false" /\ UNCHANGED held
          ELSE /\ elfPc' = IF torn \/ pos # file.tableAt THEN "wild" ELSE "segment"
               /\ held' = held - 1
  /\ UNCHANGED <<file, ph, left, addr, elfMem>>

\* The bytes are put into memory from an address on.
Fill(from, bytes) ==
  elfMem' = [a \in Addresses |-> IF a - from \in DOMAIN bytes THEN bytes[a - from] ELSE elfMem[a]]

\* What memcpy takes of a part of r bytes: its length is cut to 16 bits.
Copied(r) == [k \in 0 .. (r % ELF_WORD) - 1 |-> IF torn THEN Garbage ELSE pos + k]

\* Bug: the memory behind the file's part of a segment is not cleared.
BugNoClear ==
  /\ elfPc = "segment"
  /\ addr' = IF ph <= Len(file.segments) THEN ElfSegment.addr ELSE addr
  /\ IF ph > Len(file.segments) THEN elfPc' = "true" /\ UNCHANGED ph
     ELSE IF ~ElfSegment.load THEN ph' = ph + 1 /\ UNCHANGED elfPc
     ELSE elfPc' = "openSegment" /\ UNCHANGED ph
  /\ UNCHANGED <<file, held, pos, torn, left, elfMem>>

\* An entry of the table: memory is cleared, with the length cut to 16 bits.
NextSegment ==
  /\ elfPc = "segment"
  /\ IF ph > Len(file.segments) THEN elfPc' = "true" /\ UNCHANGED <<ph, addr, elfMem>>
     ELSE IF ~ElfSegment.load THEN ph' = ph + 1 /\ UNCHANGED <<elfPc, addr, elfMem>>
     ELSE /\ addr' = ElfSegment.addr
          /\ Fill(ElfSegment.addr, [k \in 0 .. (ElfSegment.memSize % ELF_WORD) - 1 |-> ElfZero])
          /\ elfPc' = "openSegment" /\ UNCHANGED ph
  /\ UNCHANGED <<file, held, pos, torn, left>>

OpenSegment ==
  /\ elfPc = "openSegment"
  /\ Open("seek")
  /\ left' = ElfSegment.offset
  /\ UNCHANGED <<file, ph, addr, elfMem>>

\* Bug: the position is taken from the start of the last part, not advanced.
BugSeekStuck ==
  /\ elfPc = "seek"
  /\ IF left = 0 THEN elfPc' = "copy" /\ left' = ElfSegment.fileSize /\ UNCHANGED <<pos, torn>>
     ELSE \E r \in 0 .. LOAD_SIZE :
            /\ FatRead(Lower(left, LOAD_SIZE), r)
            /\ UNCHANGED <<elfPc, left>>
  /\ UNCHANGED <<file, held, ph, addr, elfMem>>

\* Seeking: the file is read from its start, in parts, up to the segment.
Seek ==
  /\ elfPc = "seek"
  /\ IF left = 0 THEN elfPc' = "copy" /\ left' = ElfSegment.fileSize /\ UNCHANGED <<pos, torn>>
     ELSE \E r \in 0 .. LOAD_SIZE :
            /\ FatRead(Lower(left, LOAD_SIZE), r)
            /\ IF r = Lower(left, LOAD_SIZE)
               THEN left' = left - r /\ UNCHANGED elfPc
               ELSE elfPc' = "false" /\ UNCHANGED left
  /\ UNCHANGED <<file, held, ph, addr, elfMem>>

\* Bug: the segment's file is not closed.
BugKeepsHandle ==
  /\ elfPc = "copy"
  /\ IF left = 0 THEN /\ elfPc' = "segment" /\ ph' = ph + 1
                      /\ UNCHANGED <<held, pos, torn, left, addr, elfMem>>
     ELSE \E r \in 0 .. LOAD_SIZE :
            /\ FatRead(Lower(left, LOAD_SIZE), r)
            /\ left' = left - r /\ addr' = addr + r
            /\ Fill(addr, [k \in 0 .. r - 1 |-> pos + k])
            /\ UNCHANGED <<elfPc, held, ph>>
  /\ UNCHANGED file

\* Bug: every part is taken for a full one.
BugFullParts ==
  /\ elfPc = "copy"
  /\ IF left = 0 THEN elfPc' = "segment" /\ ph' = ph + 1 /\ held' = held - 1
                      /\ UNCHANGED <<pos, torn, left, addr, elfMem>>
     ELSE \E r \in 0 .. LOAD_SIZE :
            /\ FatRead(Lower(left, LOAD_SIZE), r)
            /\ left' = left - LOAD_SIZE /\ addr' = addr + r
            /\ Fill(addr, Copied(r))
            /\ UNCHANGED <<elfPc, held, ph>>
  /\ UNCHANGED file

\* The segment itself, in parts, each copied with its length cut to 16 bits.
Copy ==
  /\ elfPc = "copy"
  /\ IF left = 0
     THEN /\ elfPc' = "segment" /\ ph' = ph + 1 /\ held' = held - 1
          /\ UNCHANGED <<pos, torn, left, addr, elfMem>>
     ELSE LET part == Lower(left, LOAD_SIZE)
          IN \E r \in 0 .. LOAD_SIZE :
               /\ FatRead(part, r)
               /\ IF r = part
                  THEN /\ left' = left - r /\ addr' = addr + r
                       /\ Fill(addr, Copied(r))
                       /\ UNCHANGED elfPc
                  ELSE elfPc' = "false" /\ UNCHANGED <<left, addr, elfMem>>
               /\ UNCHANGED <<held, ph>>
  /\ UNCHANGED file

ElfNext ==
  \/ OpenHeader \/ ReadHeader \/ SeekTable \/ ReadTable
  \/ NextSegment \/ OpenSegment \/ Seek \/ Copy

ElfSpec == ElfInit /\ [][ElfNext]_elfVars /\ WF_elfVars(ElfNext)

-----------------------------------------------------------------------------
ElfTypeOK ==
  /\ elfPc \in {"open", "header", "seekTable", "table", "segment", "openSegment", "seek",
                "copy", "true", "false", "wild"}
  /\ held \in Nat /\ pos \in Nat /\ torn \in BOOLEAN /\ ph \in Nat \ {0}
  /\ file = NoFile \/ (pos <= file.size /\ ph <= Len(file.segments) + 1)
  /\ left \in Nat /\ addr \in Nat
  /\ elfMem \in [Addresses -> Nat \cup {Old, ElfZero, Garbage}]

Loadable == {i \in DOMAIN file.segments : file.segments[i].load}

\* What belongs at an address once the file is loaded.
Belongs(a) ==
  LET of == {i \in Loadable : a - file.segments[i].addr \in 0 .. file.segments[i].memSize - 1}
  IN IF of = {} THEN Old
     ELSE LET s == file.segments[CHOOSE i \in of : TRUE]
          IN IF a - s.addr < s.fileSize THEN s.offset + (a - s.addr) ELSE ElfZero

\* When ELF_Read returns true, every loadable segment is in memory, byte for byte from
\* its place in the file, with zeros behind it, and nothing else was written: no read
\* that failed or came short was taken for a whole one.
LoadedWhole ==
  elfPc = "true" => \A a \in Addresses : elfMem[a] = Belongs(a)

\* One handle is in use at a time, however many segments there are, and none once the
\* kernel is loaded; an error return keeps one, after which stage 2 stops.
OneHandle ==
  /\ held <= 1
  /\ elfPc = "true" => held = 0

\* ELF_Read ends.
LoadEnds == <>(elfPc \in {"true", "false", "wild"})
=============================================================================
