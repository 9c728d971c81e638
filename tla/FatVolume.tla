----------------------------- MODULE FatVolume -----------------------------
(***************************************************************************)
(* A FAT12 or FAT16 volume as FAT_Initialize (libs/boot/fat.c) and its     *)
(* kernel copy (libs/core/fat.c) find it: the layout computed from the     *)
(* boot sector, and what the sectors hold.  A sector's data is not         *)
(* modelled: a byte is <<lba, offset>>, the place it was read from.        *)
(***************************************************************************)
EXTENDS Integers, FiniteSets, Sequences, SequencesExt

CONSTANTS
  SECTOR_SIZE,        \* bytes in a sector (512 in the code)
  ENTRY_SIZE,         \* bytes in a directory entry (32)
  FAT_CACHE_SIZE,     \* sectors of the FAT kept in memory (5)
  \* fields of the boot sector
  ReservedSectors, FatCount, SectorsPerFat, DirEntryCount, SectorsPerCluster,
  TotalSectors,
  PartitionOffset,    \* where the volume starts on the disk
  \* what is on the disk
  Clusters,           \* the data clusters in use
  FatTable,           \* the next cluster of each, or EOC
  EOC,                \* end of chain: an entry of 0xFF8 (0xFFF8) or more
  DirSectors          \* each directory sector, by lba: its entries in order

ASSUME LayoutAssumption ==
  /\ {SECTOR_SIZE, ENTRY_SIZE, FAT_CACHE_SIZE, SectorsPerCluster,
      SectorsPerFat, FatCount} \subseteq Nat \ {0}
  /\ {ReservedSectors, DirEntryCount, TotalSectors, PartitionOffset} \subseteq Nat
  /\ SECTOR_SIZE % ENTRY_SIZE = 0
  /\ (ENTRY_SIZE * DirEntryCount) % SECTOR_SIZE = 0
ASSUME TableAssumption ==
  /\ Clusters \subseteq Nat \ {0, 1}
  /\ EOC \in Nat \ Clusters
  /\ FatTable \in [Clusters -> Clusters \cup {EOC}]

\* The fields of a directory entry are unsigned in the code.
ASSUME EntryAssumption ==
  \A lba \in DOMAIN DirSectors : \A slot \in DOMAIN DirSectors[lba] :
    LET e == DirSectors[lba][slot]
    IN e.dir \in BOOLEAN /\ e.first \in Nat /\ e.size \in Nat

Lower(a, b) == IF a <= b THEN a ELSE b

RootDirLba == ReservedSectors + SectorsPerFat * FatCount
RootDirSize == ENTRY_SIZE * DirEntryCount
DataSectionLba == RootDirLba + (RootDirSize + SECTOR_SIZE - 1) \div SECTOR_SIZE

\* FAT_Detect; a volume without SectorsPerFat would be FAT32 (not modelled).
FatType ==
  IF (TotalSectors - DataSectionLba) \div SectorsPerCluster < 4085 THEN 12 ELSE 16

\* FAT_ClusterToLba
ClusterToLba(cluster) == DataSectionLba + (cluster - 2) * SectorsPerCluster

\* The first of the two bytes FAT_NextCluster reads for a cluster.
FatIndex(cluster) ==
  IF FatType = 12 THEN (cluster * 3) \div 2 ELSE cluster * 2

\* A directory entry: FirstClusterLow, Size, the directory attribute, the name.
NoEntry == [name |-> "", dir |-> FALSE, first |-> 0, size |-> 0]

\* The entry at a place on the disk; file data is taken to hold no entry.
EntryAt(lba, offset) ==
  LET slot == offset \div ENTRY_SIZE + 1
  IN IF lba \in DOMAIN DirSectors /\ slot \in DOMAIN DirSectors[lba]
     THEN DirSectors[lba][slot] ELSE NoEntry

-----------------------------------------------------------------------------
(***************************************************************************)
(* What is on the disk, read without the driver: the reference its results *)
(* are compared with.                                                      *)
(***************************************************************************)

\* The k-th cluster of a chain, from 0; EOC once it has ended.
ChainFrom(first) ==
  LET at[k \in Nat] ==
        IF k = 0 THEN first
        ELSE IF at[k - 1] = EOC THEN EOC ELSE FatTable[at[k - 1]]
  IN at

\* The place of the byte at a position of the chain, from 0.
PlaceOf(first, pos) ==
  LET sector == pos \div SECTOR_SIZE
      cluster == ChainFrom(first)[sector \div SectorsPerCluster]
  IN << PartitionOffset + ClusterToLba(cluster) + (sector % SectorsPerCluster),
        pos % SECTOR_SIZE >>

Contents(file) == [p \in 1 .. file.size |-> PlaceOf(file.first, p - 1)]

RootLbas == [k \in 1 .. RootDirSize \div SECTOR_SIZE |->
               PartitionOffset + RootDirLba + k - 1]

\* The sectors of a subdirectory: its chain up to the end.
DirLbas(dir) ==
  LET len == CHOOSE k \in 1 .. Cardinality(Clusters) :
               /\ ChainFrom(dir.first)[k] = EOC
               /\ \A j \in 0 .. k - 1 : ChainFrom(dir.first)[j] # EOC
  IN [s \in 1 .. len * SectorsPerCluster |->
        PlaceOf(dir.first, (s - 1) * SECTOR_SIZE)[1]]

\* All entries of a directory, empty slots included.
EntriesIn(lbas) ==
  LET perSector == SECTOR_SIZE \div ENTRY_SIZE
  IN [e \in 1 .. Len(lbas) * perSector |->
        EntryAt(lbas[(e - 1) \div perSector + 1], ((e - 1) % perSector) * ENTRY_SIZE)]

RootEntry == [name |-> "/", dir |-> TRUE, first |-> 0, size |-> 0]

EntriesOf(dir) == EntriesIn(IF dir = RootEntry THEN RootLbas ELSE DirLbas(dir))

\* The first entry of a directory with a name; NoEntry if there is none.
Enter(at, name) ==
  LET named == {k \in DOMAIN EntriesOf(at) : EntriesOf(at)[k].name = name}
  IN IF at = NoEntry \/ ~at.dir \/ named = {} THEN NoEntry
     ELSE EntriesOf(at)[CHOOSE k \in named : \A j \in named : k <= j]

\* The entry each part of a path leads to from the root, the empty part included.
Along(path) ==
  LET at[k \in 0 .. Len(path)] ==
        IF k = 0 THEN RootEntry ELSE Enter(at[k - 1], path[k])
  IN at
Resolve(path) == Along(path)[Len(path)]
=============================================================================
