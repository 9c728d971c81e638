------------------------------- MODULE Int13 -------------------------------
(***************************************************************************)
(* The BIOS disk services (int 13h) as both boot stages use them: the      *)
(* sector that a cylinder, head and sector name, packed into registers as  *)
(* the calls ask for, and a controller that a failed read may leave unfit  *)
(* to read until it is reset.                                              *)
(***************************************************************************)
EXTENDS Integers, Sequences

CONSTANTS
  BYTE,        \* values of a byte (256)
  SIX,         \* values of the six low bits of cl; BYTE \div SIX are above them
  Geometry     \* of the drive: cylinders, heads and sectors of a track

ASSUME Int13Assumption ==
  /\ {BYTE, SIX, Geometry.cylinders, Geometry.heads, Geometry.sectors} \subseteq Nat \ {0}
  /\ BYTE % SIX = 0
  /\ Geometry.cylinders <= BYTE * (BYTE \div SIX)
  /\ Geometry.heads <= BYTE /\ Geometry.sectors < SIX

Nowhere == -1
Capacity == Geometry.cylinders * Geometry.heads * Geometry.sectors

\* The sector a call of function 02h names, as the number of it on the drive.
SectorAt(r) ==
  LET cylinder == r.ch + BYTE * (r.cl \div SIX)
      sector == r.cl % SIX
  IN IF cylinder < Geometry.cylinders /\ r.dh < Geometry.heads
        /\ sector \in 1 .. Geometry.sectors
     THEN (cylinder * Geometry.heads + r.dh) * Geometry.sectors + sector - 1
     ELSE Nowhere

Extent(lba, n) == [k \in 1 .. n |-> lba + k - 1]

\* Can a call that starts at a sector read n of them?
Readable(lba, n) == lba # Nowhere /\ lba + n <= Capacity

\* Function 08h: the last cylinder, head and sector, packed as function 02h packs.
DriveParams ==
  LET last == Geometry.cylinders - 1
  IN [ch |-> last % BYTE, cl |-> (last \div BYTE) * SIX + Geometry.sectors,
      dh |-> Geometry.heads - 1]
=============================================================================
