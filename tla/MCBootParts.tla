---------------------------- MODULE MCBootParts ----------------------------
(***************************************************************************)
(* Drive: bytes of eight values with four below the bits of the cylinder,  *)
(* twelve cylinders, of which four need those bits, of three heads and two *)
(* sectors.  Stage 2 has three extents, of three sectors, one and two, the *)
(* second before the first and the third at the end of the drive.  The     *)
(* reads of the disk driver cover every cylinder, head and sector, and go  *)
(* past the end of the drive.                                              *)
(***************************************************************************)
EXTENDS BootParts

MCGeometry == [cylinders |-> 12, heads |-> 3, sectors |-> 2]
MCBdb == [heads |-> 3, sectors |-> 2]
MCExtents == <<[lba |-> 5, n |-> 3], [lba |-> 1, n |-> 1], [lba |-> 70, n |-> 2]>>
MCReads == [lba : 0 .. Capacity + 3, n : {1}] \cup [lba : {0, 35, 68}, n : {5}]

(***************************************************************************)
(* A20: bytes of four bits, the output port with its reset bit set, any    *)
(* scan code.                                                              *)
(***************************************************************************)
MCBits == 0 .. 3
MCPorts == {{0} \cup s : s \in SUBSET {1, 2, 3}}
MCScanCodes == {{}, {0, 3}}

\* Sequence: a partition table with two entries.
MCTable == [e \in 0 .. 3 |-> IF e < 2 THEN 2048 * (e + 1) ELSE 0]

\* Real mode: all the functions.
MCFunctions == {"GetDriveParams", "Reset", "Read", "GetVbeInfo", "GetModeInfo",
                "SetMode", "E820GetNextBlock", "WaitForEnter"}

(***************************************************************************)
(* ELF: parts of four bytes.  The kernel has a segment that is not loaded, *)
(* one of three bytes whose memory is as large, and one whose memory is    *)
(* not in the file; the second starts in the third part.  Another file     *)
(* ends before its segment, a third keeps its table away from the header.  *)
(***************************************************************************)
Seg(load, at, addressed, fileSize, memSize) ==
  [load |-> load, offset |-> at, addr |-> addressed, fileSize |-> fileSize,
   memSize |-> memSize]

Sound ==
  [elf |-> TRUE, size |-> 14, tableAt |-> 2,
   segments |-> <<Seg(FALSE, 0, 0, 0, 0), Seg(TRUE, 8, 2, 3, 3), Seg(TRUE, 11, 6, 1, 3)>>]
Truncated == [Sound EXCEPT !.size = 10]
TableElsewhere ==
  [elf |-> TRUE, size |-> 14, tableAt |-> 12, segments |-> <<Seg(TRUE, 4, 2, 3, 3)>>]

MCFiles == {Sound, Truncated, TableElsewhere}
MCAddresses == 0 .. 9

(***************************************************************************)
(* VBE: a screen of 6 by 3 pixels, two characters of 2 by 1, lists of up   *)
(* to three modes: as wanted or not, wanted with longer lines, or of which *)
(* the BIOS tells nothing.                                                 *)
(***************************************************************************)
Mode(fails, fits, width, pitch, at) ==
  [fails |-> fails, fits |-> fits, width |-> width, height |-> 3, pitch |-> pitch,
   framebuffer |-> at]

MCModes == {Mode(FALSE, TRUE, 6, 24, 0), Mode(FALSE, TRUE, 6, 32, 4), Mode(FALSE, FALSE, 6, 24, 2),
            Mode(FALSE, TRUE, 4, 16, 0), Mode(TRUE, TRUE, 6, 24, 1)}
MCModeLists == UNION {[1 .. n -> MCModes] : n \in 0 .. 3}
MCMemory == 0 .. 31
MCText == <<"a", "b">>
MCGlyph == [c \in {"a", "b"} |-> IF c = "a" THEN {<<0, 0>>} ELSE {<<0, 0>>, <<1, 0>>}]

(***************************************************************************)
(* Descriptor tables at their real size.  The routines lie behind each     *)
(* other across a boundary of 64 KB, where the upper half of an address    *)
(* changes.                                                                *)
(***************************************************************************)
MCIsr == [v \in Vectors |-> 1114112 - 1200 + 9 * v]
=============================================================================
