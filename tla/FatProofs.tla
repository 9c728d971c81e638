----------------------------- MODULE FatProofs -----------------------------
(***************************************************************************)
(* The FAT driver gives its handles back and stays within the sizes of its *)
(* files, for every volume, every size of sector, cluster and cache, every *)
(* path, and whichever disk reads fail.  What it reads is the chain of the *)
(* file it opened, byte for byte; on a sound volume the file it opened is  *)
(* the one its path leads to, so that cat shows the contents of that file, *)
(* and ls the entries of the root directory.                               *)
(***************************************************************************)
EXTENDS Fat, FiniteSetTheorems, Numbers, TLAPS

Reading == {"read", "refill", "fat", "load"}

\* Where the driver is, or, inside of FAT_Read, where it goes on.
Point == IF pc \in Reading THEN back ELSE pc

Handle == [opened : BOOLEAN, dir : BOOLEAN, pos : Nat, size : Nat, first : Nat,
           cluster : Nat \cup {EOC}, sector : Nat, buf : Nat \cup {Torn}]
Place == (Nat \cup {Torn}) \X Nat
Fields(e) == e.dir \in BOOLEAN /\ e.first \in Nat /\ e.size \in Nat

\* What FatTypeOK leaves out.
DataTypes ==
  /\ cmd \in {"cat", "ls"}
  /\ got \in Seq(Place)
  /\ Fields(entry)
  /\ cmd = "cat" => shown \in Seq(Place)

\* Who called FAT_Read, and who may have lost the handle.
Callers ==
  /\ pc \in Reading => back \in {"match", "catGot", "lsGot"}
  /\ Point \in {"cat", "catGot"} => cmd = "cat"
  /\ Point \in {"ls", "lsGot"} => cmd = "ls"
  /\ cur = Null => pc \in {"open", "find", "cat", "ls", "wild"}

\* Only the handle in use is open, and none while a path goes from a directory
\* to the entry found in it.
OneHandle ==
  \A h \in FileHandles : fd[h].opened => h = cur /\ pc \notin {"cli", "openEntry"}

\* FAT_Read bounds its count by the size of the file, and of a directory whose
\* end is known.
Bounded(f) == ~f.dir \/ f.size # 0

Positions ==
  /\ \A h \in Handles : Bounded(fd[h]) => fd[h].pos <= fd[h].size
  /\ pc \in Reading /\ Bounded(fd[cur]) => fd[cur].pos + count <= fd[cur].size

\* What cat has shown has been read through the handle it has open.
ShownFromHandle ==
  /\ Point \in {"open", "find", "match", "openEntry"} => shown = <<>>
  /\ pc = "cat" /\ cur # Null => Len(shown) <= fd[cur].pos
  /\ Point = "catGot" => Len(shown) + Len(got) <= fd[cur].pos

FatInv ==
  /\ FatTypeOK /\ DataTypes /\ Callers /\ OneHandle /\ Positions /\ ShownFromHandle

-----------------------------------------------------------------------------
LEMMA ParameterTypes ==
  /\ PartitionOffset \in Nat /\ ReservedSectors \in Nat /\ FatOffset \in Nat
  /\ DiskSectors \in Nat /\ FAT_CACHE_SIZE \in Nat /\ EOC \in Nat
  /\ SECTOR_SIZE \in Nat \ {0} /\ ENTRY_SIZE \in Nat \ {0} /\ CAT_SIZE \in Nat \ {0}
BY LayoutAssumption, FatAssumption, TableAssumption

\* What the driver computes with.
LEMMA LayoutTypes ==
  /\ RootDirLba \in Nat /\ RootDirSize \in Nat /\ DataSectionLba \in Int
  /\ \A c \in Nat : ClusterToLba(c) \in Int /\ FatIndex(c) \in Nat
<1> USE LayoutAssumption
<1>1. RootDirLba \in Nat
  <2>1. SectorsPerFat * FatCount \in Nat
    OBVIOUS
  <2> QED
    BY <2>1 DEF RootDirLba
<1>2. RootDirSize \in Nat
  BY DEF RootDirSize
<1>3. DataSectionLba \in Int
  BY <1>1, <1>2 DEF DataSectionLba
<1>4. ASSUME NEW c \in Nat
      PROVE  ClusterToLba(c) \in Int /\ FatIndex(c) \in Nat
  <2>1. (c - 2) * SectorsPerCluster \in Int
    OBVIOUS
  <2>2. (c * 3) \div 2 \in Nat /\ c * 2 \in Nat
    OBVIOUS
  <2> QED
    BY <1>3, <2>1, <2>2 DEF ClusterToLba, FatIndex
<1> QED
  BY <1>1, <1>2, <1>3, <1>4

LEMMA SectorArithmetic ==
  ASSUME NEW n \in Nat
  PROVE  n % SECTOR_SIZE \in Nat /\ n % SECTOR_SIZE < SECTOR_SIZE /\ n \div SECTOR_SIZE \in Nat
BY LayoutAssumption

LEMMA Joined ==
  ASSUME NEW S, NEW s \in Seq(S), NEW t \in Seq(S)
  PROVE  s \o t \in Seq(S) /\ Len(s \o t) = Len(s) + Len(t)
OBVIOUS

LEMMA EntryFields ==
  ASSUME NEW lba, NEW offset
  PROVE  Fields(EntryAt(lba, offset))
BY EntryAssumption DEF EntryAt, Fields, NoEntry

\* A sector is read only where the disk has one.
LEMMA LoadedPlace ==
  ASSUME NEW lba \in Int, NEW n \in Nat, NEW ok \in ReadResults(lba, n)
  PROVE  ok \in BOOLEAN /\ Loaded(ok, lba) \in Nat \cup {Torn}
<1>1. CASE lba < 0
  BY <1>1 DEF ReadResults, Loaded
<1>2. CASE ~(lba < 0)
  <2>1. ok \in BOOLEAN
    BY FatAssumption DEF ReadResults
  <2>2. lba \in Nat
    BY <1>2
  <2> QED
    BY <2>1, <2>2 DEF Loaded
<1> QED
  BY <1>1, <1>2

LEMMA HandleNames ==
  /\ ROOT \in Handles /\ FileHandles \subseteq Handles
  /\ ROOT \notin FileHandles /\ Null \notin Handles
BY FatAssumption DEF ROOT, Null, Handles, FileHandles

-----------------------------------------------------------------------------
LEMMA InitFatInv == Init => FatInv
<1> SUFFICES ASSUME Init PROVE FatInv
  OBVIOUS
<1> USE DEF Init
<1>1. FatTypeOK
  <2>1. ClosedFile \in Handle
    BY DEF ClosedFile, Handle, Torn
  <2>2. PartitionOffset + RootDirLba \in Nat
    BY LayoutTypes, ParameterTypes
  <2>3. [opened |-> TRUE, dir |-> TRUE, pos |-> 0, size |-> RootDirSize,
         first |-> RootDirLba, cluster |-> RootDirLba, sector |-> 0,
         buf |-> PartitionOffset + RootDirLba] \in Handle
    BY <2>2, LayoutTypes DEF Handle
  <2>4. fd \in [Handles -> Handle]
    BY <2>1, <2>3
  <2> QED
    BY <2>4, HandleNames DEF FatTypeOK, Handle, NoCache, Torn
<1>2. DataTypes
  <2>1. Fields(entry)
    BY DEF Fields, NoEntry
  <2> QED
    BY <2>1 DEF DataTypes
<1>3. Callers
  BY HandleNames DEF Callers, Point, Reading
<1>4. OneHandle
  BY HandleNames DEF OneHandle, ClosedFile
<1>5. Positions
  <2>1. pc \notin Reading
    BY DEF Reading
  <2>2. \A h \in Handles : fd[h].pos = 0 /\ fd[h].size \in Nat
    BY LayoutTypes DEF ClosedFile
  <2> QED
    BY <2>1, <2>2 DEF Positions
<1>6. ShownFromHandle
  BY DEF ShownFromHandle, Point, Reading
<1> QED
  BY <1>1, <1>2, <1>3, <1>4, <1>5, <1>6 DEF FatInv

LEMMA CommandInv == FatInv /\ Command => FatInv'
<1> SUFFICES ASSUME FatInv, Command PROVE FatInv'
  OBVIOUS
<1> USE DEF FatInv, Command
<1>1. FatTypeOK'
  BY HandleNames DEF FatTypeOK, cacheVars
<1>2. DataTypes'
  BY DEF DataTypes, Fields
<1>3. Callers' /\ ShownFromHandle'
  BY HandleNames DEF Callers, ShownFromHandle, Point, Reading
<1>4. OneHandle'
  BY DEF OneHandle
<1>5. Positions'
  BY DEF Positions, Reading, Bounded
<1> QED
  BY <1>1, <1>2, <1>3, <1>4, <1>5

LEMMA OpenLoopInv == FatInv /\ OpenLoop => FatInv'
<1> SUFFICES ASSUME FatInv, OpenLoop PROVE FatInv'
  OBVIOUS
<1> USE DEF FatInv, OpenLoop, callVars
<1>1. FatTypeOK'
  BY DEF FatTypeOK, cacheVars, DataTypes
<1>2. DataTypes'
  BY DEF DataTypes, Fields
<1>3. Callers'
  BY DEF Callers, Point, Reading, DataTypes
<1>4. OneHandle'
  BY DEF OneHandle, DataTypes
<1>5. Positions'
  BY DEF Positions, Reading, Bounded, DataTypes
<1>6. ShownFromHandle'
  BY HandleNames DEF ShownFromHandle, Point, Reading, DataTypes, FatTypeOK
<1> QED
  BY <1>1, <1>2, <1>3, <1>4, <1>5, <1>6

\* FAT_Read is entered, from one of its three callers.
LEMMA CallReadInv ==
  ASSUME FatInv, NEW n \in Nat, NEW b, CallRead(n, b),
         <<pc, b>> \in {<<"find", "match">>, <<"cat", "catGot">>, <<"ls", "lsGot">>}
  PROVE  FatInv'
<1> USE DEF FatInv, CallRead, callVars
<1>1. CASE cur = Null
  <2>1. FatTypeOK'
    BY <1>1 DEF FatTypeOK, cacheVars
  <2>2. DataTypes' /\ OneHandle' /\ Positions'
    BY <1>1 DEF DataTypes, Fields, OneHandle, Positions, Bounded, Reading
  <2>3. Callers' /\ ShownFromHandle'
    BY <1>1 DEF Callers, ShownFromHandle, Point, Reading
  <2> QED
    BY <2>1, <2>2, <2>3
<1>2. CASE cur # Null
  <2>1. cur \in Handles /\ fd[cur] \in Handle
    BY <1>2 DEF FatTypeOK, Handle
  <2>2. count' \in Nat /\ (Bounded(fd[cur]) => fd[cur].pos + count' <= fd[cur].size)
    <3> DEFINE f == fd[cur]
    <3>1. f.pos \in Nat /\ f.size \in Nat
      BY <2>1 DEF Handle
    <3>2. CASE Bounded(f)
      <4>1. f.pos <= f.size /\ ~(f.dir /\ f.size = 0)
        BY <2>1, <3>2 DEF Positions, Bounded
      <4>2. count' = Lower(n, f.size - f.pos)
        BY <1>2, <4>1
      <4> QED
        BY <3>1, <4>1, <4>2 DEF Lower
    <3>3. CASE ~Bounded(f)
      BY <1>2, <3>3 DEF Bounded
    <3> QED
      BY <3>2, <3>3
  <2>3. FatTypeOK'
    BY <1>2, <2>2 DEF FatTypeOK, cacheVars
  <2>4. DataTypes' /\ OneHandle'
    BY <1>2 DEF DataTypes, Fields, OneHandle
  <2>5. Callers'
    BY <1>2 DEF Callers, Point, Reading
  <2>6. Positions'
    BY <1>2, <2>2 DEF Positions, Bounded
  <2>7. ShownFromHandle'
    <3>1. b \in {"match", "lsGot"} => ShownFromHandle'
      BY <1>2 DEF ShownFromHandle, Point, Reading
    <3>2. CASE b = "catGot"
      <4>1. Len(got') = 0 /\ Len(shown) <= fd[cur].pos /\ Len(shown) \in Nat
        BY <1>2, <3>2 DEF ShownFromHandle, Callers, Point, Reading, DataTypes
      <4> QED
        BY <1>2, <2>1, <3>2, <4>1 DEF ShownFromHandle, Point, Reading
    <3> QED
      BY <3>1, <3>2
  <2> QED
    BY <2>3, <2>4, <2>5, <2>6, <2>7
<1> QED
  BY <1>1, <1>2

LEMMA ReadLoopInv == FatInv /\ ReadLoop => FatInv'
<1> SUFFICES ASSUME FatInv, ReadLoop PROVE FatInv'
  OBVIOUS
<1> USE DEF FatInv, ReadLoop, callVars
<1> DEFINE f == fd[cur]
           inSector == f.pos % SECTOR_SIZE
           left == SECTOR_SIZE - inSector
           take == Lower(count, left)
           bytes == [k \in 1 .. take |-> <<f.buf, inSector + k - 1>>]
<1>1. cur \in Handles /\ f \in Handle
  BY DEF Callers, FatTypeOK, Handle, Reading
<1>2. CASE count = 0
  <2>1. FatTypeOK'
    BY <1>2 DEF FatTypeOK, cacheVars
  <2>2. DataTypes' /\ OneHandle'
    BY <1>2 DEF DataTypes, Fields, OneHandle, Callers, Reading
  <2>3. Callers'
    BY <1>1, <1>2, HandleNames DEF Callers, Point, Reading
  <2>4. Positions'
    BY <1>2 DEF Positions, Bounded, Callers, Reading
  <2>5. ShownFromHandle'
    BY <1>2 DEF ShownFromHandle, Callers, Point, Reading
  <2> QED
    BY <2>1, <2>2, <2>3, <2>4, <2>5
<1>3. CASE count # 0
  <2>1. count \in Nat /\ f.pos \in Nat /\ inSector \in Nat /\ left \in Nat \ {0}
    <3>1. count \in Nat /\ f.pos \in Nat
      BY <1>1 DEF FatTypeOK, Handle
    <3> QED
      BY <3>1, SectorArithmetic, ParameterTypes, SMTT(60)
  <2>2. take \in Nat /\ take <= count /\ count - take \in Nat
    BY <2>1 DEF Lower
  <2>3. bytes \in Seq(Place) /\ Len(bytes) = take
    <3>1. f.buf \in Nat \cup {Torn}
      BY <1>1 DEF Handle
    <3>2. \A k \in 1 .. take : inSector + k - 1 \in Nat
      BY <2>1, <2>2
    <3>3. \A k \in 1 .. take : <<f.buf, inSector + k - 1>> \in Place
      BY <3>1, <3>2 DEF Place
    <3> HIDE DEF inSector, take
    <3> QED
      BY <2>2, <3>3
  <2>4. /\ got' = got \o bytes /\ fd' = [fd EXCEPT ![cur].pos = @ + take]
        /\ count' = count - take /\ pc' \in {"refill", "read"}
    BY <1>3
  <2>5. got' \in Seq(Place) /\ Len(got') = Len(got) + take
    <3> HIDE DEF bytes, take
    <3>1. got \in Seq(Place)
      BY DEF DataTypes
    <3> QED
      BY <2>3, <2>4, <3>1, Joined
  <2>6. /\ fd' \in [Handles -> Handle] /\ f.pos + take \in Nat
        /\ fd'[cur] = [f EXCEPT !.pos = f.pos + take]
        /\ \A h \in Handles \ {cur} : fd'[h] = fd[h]
    <3> HIDE DEF take
    <3>1. f.pos + take \in Nat
      BY <2>1, <2>2
    <3>2. fd \in [Handles -> Handle]
      BY DEF FatTypeOK, Handle
    <3>3. [f EXCEPT !.pos = f.pos + take] \in Handle
      BY <1>1, <3>1 DEF Handle
    <3>4. fd' = [fd EXCEPT ![cur] = [f EXCEPT !.pos = f.pos + take]]
      BY <2>4
    <3> QED
      BY <1>1, <3>1, <3>2, <3>3, <3>4
  <2>7. /\ fd'[cur].pos = f.pos + take /\ fd'[cur].size = f.size
        /\ fd'[cur].dir = f.dir /\ fd'[cur].opened = f.opened
    BY <1>1, <2>6 DEF Handle
  <2> HIDE DEF f, inSector, left, take, bytes
  <2>8. FatTypeOK'
    BY <2>2, <2>4, <2>6 DEF FatTypeOK, Handle, cacheVars
  <2>9. DataTypes'
    BY <2>5 DEF DataTypes, Fields
  <2>10. Callers'
    BY <2>4 DEF Callers, Point, Reading
  <2>11. OneHandle'
    BY <2>4, <2>6, <2>7, HandleNames DEF OneHandle, f
  <2>12. Positions'
    <3>1. Bounded(fd'[cur]) => f.pos + count <= f.size
      BY <2>7 DEF Positions, Bounded, Reading, f
    <3>2. Bounded(fd'[cur]) => fd'[cur].pos <= fd'[cur].size
                               /\ fd'[cur].pos + count' <= fd'[cur].size
      <4>1. f.size \in Nat
        BY <1>1 DEF Handle
      <4> QED
        BY <2>1, <2>2, <2>4, <2>7, <3>1, <4>1
    <3>3. \A h \in Handles \ {cur} : Bounded(fd'[h]) => fd'[h].pos <= fd'[h].size
      BY <2>6 DEF Positions
    <3> QED
      BY <3>2, <3>3 DEF Positions, Bounded
  <2>13. ShownFromHandle'
    <3>1. Point' = back /\ Point = back /\ pc' # "cat"
      BY <2>4 DEF Point, Reading
    <3>2. back = "catGot" => Len(shown) + Len(got) <= f.pos /\ cmd = "cat"
      BY <3>1 DEF ShownFromHandle, Callers, f
    <3>3. cmd = "cat" => Len(shown) \in Nat
      BY DEF DataTypes
    <3>4. Len(got) \in Nat
      BY DEF DataTypes
    <3>5. back = "catGot" => Len(shown) + Len(got') <= fd'[cur].pos
      BY <2>1, <2>2, <2>5, <2>7, <3>2, <3>3, <3>4
    <3> QED
      BY <3>1, <3>5 DEF ShownFromHandle
  <2> QED
    BY <2>8, <2>9, <2>10, <2>11, <2>12, <2>13
<1> QED
  BY <1>2, <1>3

\* The steps from a used up sector to the next change where the handle is on the
\* disk and what is in its buffer; its size only at the end of the chain.
LEMMA SectorStep ==
  ASSUME FatInv, pc \in Reading, NEW g \in Handle,
         fd' = [fd EXCEPT ![cur] = g],
         g.pos = fd[cur].pos, g.dir = fd[cur].dir,
         pc' = back \/ (pc' \in Reading /\ g.size = fd[cur].size),
         g.size \in {fd[cur].size, g.pos}, failed' \in BOOLEAN,
         cachePos' \in Nat \cup {NoCache}, cacheLba' \in Nat \cup {Torn},
         UNCHANGED <<back, callVars, cur, count, got, shown>>
  PROVE  FatInv'
<1> USE DEF FatInv, callVars
<1>1. fd \in [Handles -> Handle] /\ cur \in Handles
  BY HandleNames DEF FatTypeOK, Handle, Callers, Reading
<1>2. /\ fd' \in [Handles -> Handle] /\ fd'[cur] = g
      /\ \A h \in Handles \ {cur} : fd'[h] = fd[h]
  BY <1>1
<1>3. back \in {"match", "catGot", "lsGot"} /\ back \notin Reading
  BY DEF Callers, Reading
<1>4. FatTypeOK'
  BY <1>2, <1>3 DEF FatTypeOK, Handle, Reading
<1>5. DataTypes'
  BY DEF DataTypes, Fields
<1>6. Callers'
  BY <1>1, <1>3, HandleNames DEF Callers, Point, Reading
<1>7. OneHandle'
  BY <1>2, <1>3, HandleNames DEF OneHandle, Reading
<1>8. Positions'
  <2>1. g.pos \in Nat /\ g.size \in Nat
    BY DEF Handle
  <2>2. Bounded(g) => g.pos <= g.size
    BY <1>1, <2>1 DEF Positions, Bounded
  <2>3. pc' \in Reading /\ Bounded(g) => g.pos + count <= g.size
    BY <1>3 DEF Positions, Bounded
  <2> QED
    BY <1>2, <2>2, <2>3 DEF Positions
<1>9. ShownFromHandle'
  BY <1>2, <1>3 DEF ShownFromHandle, Point, Reading
<1> QED
  BY <1>4, <1>5, <1>6, <1>7, <1>8, <1>9

LEMMA ReadingHandle ==
  ASSUME FatInv, pc \in Reading
  PROVE  /\ cur \in Handles /\ fd[cur] \in Handle /\ failed \in BOOLEAN
         /\ cachePos \in Nat \cup {NoCache} /\ cacheLba \in Nat \cup {Torn}
BY HandleNames DEF FatInv, FatTypeOK, Handle, Callers, Reading

LEMMA NextRootSectorInv == FatInv /\ NextRootSector => FatInv'
<1> SUFFICES ASSUME FatInv, NextRootSector PROVE FatInv'
  OBVIOUS
<1> DEFINE lba == PartitionOffset + fd[ROOT].cluster + 1
<1>1. /\ pc \in Reading /\ cur = ROOT /\ fd[ROOT] \in Handle /\ failed \in BOOLEAN
      /\ cachePos' \in Nat \cup {NoCache} /\ cacheLba' \in Nat \cup {Torn}
  BY ReadingHandle DEF NextRootSector, Reading, cacheVars
<1>2. lba \in Nat /\ fd[ROOT].cluster + 1 \in Nat
  BY <1>1, ParameterTypes DEF Handle
<1>3. PICK ok \in ReadResults(lba, 1) :
        /\ fd' = [fd EXCEPT ![ROOT].cluster = @ + 1, ![ROOT].buf = Loaded(ok, lba)]
        /\ pc' = IF ok THEN "read" ELSE back
        /\ failed' = (failed \/ (~ok /\ lba < DiskSectors))
  BY DEF NextRootSector
<1>4. ok \in BOOLEAN /\ Loaded(ok, lba) \in Nat \cup {Torn}
  BY <1>2, <1>3, LoadedPlace
<1> DEFINE g == [fd[ROOT] EXCEPT !.cluster = @ + 1, !.buf = Loaded(ok, lba)]
<1>5. /\ g \in Handle /\ g.pos = fd[ROOT].pos /\ g.dir = fd[ROOT].dir
      /\ g.size = fd[ROOT].size /\ g.size \in {fd[ROOT].size, g.pos}
  BY <1>1, <1>2, <1>4 DEF Handle
<1>6. fd' = [fd EXCEPT ![ROOT] = g]
  BY <1>3
<1>7. (pc' = back \/ pc' \in Reading) /\ failed' \in BOOLEAN
  BY <1>1, <1>3, <1>4 DEF Reading
<1>8. UNCHANGED <<back, callVars, cur, count, got, shown>>
  BY DEF NextRootSector
<1> HIDE DEF g
<1> QED
  BY <1>1, <1>5, <1>6, <1>7, <1>8, SectorStep

LEMMA NextFileSectorInv == FatInv /\ NextFileSector => FatInv'
<1> SUFFICES ASSUME FatInv, NextFileSector PROVE FatInv'
  OBVIOUS
<1>1. /\ pc \in Reading /\ fd[cur] \in Handle /\ failed' \in BOOLEAN
      /\ cachePos' \in Nat \cup {NoCache} /\ cacheLba' \in Nat \cup {Torn}
  BY ReadingHandle DEF NextFileSector, Reading, cacheVars
<1> DEFINE last == fd[cur].sector + 1 >= SectorsPerCluster
           g == [fd[cur] EXCEPT !.sector = IF last THEN 0 ELSE @ + 1]
<1>2. /\ g \in Handle /\ g.pos = fd[cur].pos /\ g.dir = fd[cur].dir
      /\ g.size = fd[cur].size /\ g.size \in {fd[cur].size, g.pos}
  BY <1>1 DEF Handle
<1>3. fd' = [fd EXCEPT ![cur] = g]
  BY DEF NextFileSector
<1>4. pc' = back \/ pc' \in Reading
  BY DEF NextFileSector, Reading
<1>5. UNCHANGED <<back, callVars, cur, count, got, shown>>
  BY DEF NextFileSector
<1> HIDE DEF g
<1> QED
  BY <1>1, <1>2, <1>3, <1>4, <1>5, SectorStep

LEMMA NextClusterInv == FatInv /\ NextCluster => FatInv'
<1> SUFFICES ASSUME FatInv, NextCluster PROVE FatInv'
  OBVIOUS
<1> DEFINE f == fd[cur]
           sector == FatIndex(f.cluster) \div SECTOR_SIZE
           miss == \/ cachePos = NoCache \/ sector < cachePos
                   \/ sector >= cachePos + FAT_CACHE_SIZE
           lba == FatOffset + ReservedSectors + sector
<1>1. /\ pc \in Reading /\ f \in Handle /\ failed \in BOOLEAN
      /\ cachePos \in Nat \cup {NoCache} /\ cacheLba \in Nat \cup {Torn}
  BY ReadingHandle DEF NextCluster, Reading
<1>2. f.cluster \in Nat /\ f.pos \in Nat
  BY <1>1, ParameterTypes DEF Handle
<1>3. sector \in Nat /\ lba \in Nat
  <2>1. FatIndex(f.cluster) \in Nat
    BY <1>2, LayoutTypes
  <2>2. sector \in Nat
    BY <2>1, SectorArithmetic
  <2> QED
    BY <2>2, ParameterTypes
<1>4. /\ cachePos' \in Nat \cup {NoCache} /\ cacheLba' \in Nat \cup {Torn}
      /\ failed' \in BOOLEAN
  <2>1. CASE miss
    <3>1. PICK ok \in ReadResults(lba, FAT_CACHE_SIZE) :
            cachePos' = sector /\ cacheLba' = Loaded(ok, lba) /\ failed' = (failed \/ ~ok)
      BY <2>1 DEF NextCluster
    <3> HIDE DEF lba, sector
    <3> QED
      BY <1>1, <1>3, <3>1, LoadedPlace, ParameterTypes
  <2>2. CASE ~miss
    BY <1>1, <2>2 DEF NextCluster, cacheVars
  <2> QED
    BY <2>1, <2>2
<1>5. PICK next \in EntryFrom(cachePos', cacheLba', f.cluster) :
        IF next = EOC
        THEN /\ fd' = [fd EXCEPT ![cur].cluster = EOC, ![cur].size = f.pos]
             /\ pc' = back
        ELSE /\ fd' = [fd EXCEPT ![cur].cluster = next]
             /\ pc' = "load"
  BY DEF NextCluster
<1>6. next \in Nat
  BY TableAssumption, <1>5 DEF EntryFrom
<1>7. UNCHANGED <<back, callVars, cur, count, got, shown>>
  BY DEF NextCluster
<1>8. CASE next = EOC
  <2> DEFINE g == [f EXCEPT !.cluster = EOC, !.size = f.pos]
  <2>1. g \in Handle /\ g.pos = f.pos /\ g.dir = f.dir /\ g.size = g.pos
    BY <1>1, <1>2 DEF Handle
  <2>2. fd' = [fd EXCEPT ![cur] = g] /\ pc' = back
    BY <1>5, <1>8
  <2> HIDE DEF g
  <2>3. pc' = back \/ (pc' \in Reading /\ g.size = f.size)
    BY <2>2
  <2>4. g.size \in {f.size, g.pos}
    BY <2>1
  <2> QED
    BY <1>1, <1>4, <1>7, <2>1, <2>2, <2>3, <2>4, SectorStep
<1>9. CASE next # EOC
  <2> DEFINE g == [f EXCEPT !.cluster = next]
  <2>1. g \in Handle /\ g.pos = f.pos /\ g.dir = f.dir /\ g.size = f.size
         /\ g.size \in {f.size, g.pos}
    BY <1>1, <1>6 DEF Handle
  <2>2. fd' = [fd EXCEPT ![cur] = g] /\ pc' \in Reading
    BY <1>5, <1>9 DEF Reading
  <2> HIDE DEF g
  <2> QED
    BY <1>1, <1>4, <1>7, <2>1, <2>2, SectorStep
<1> QED
  BY <1>8, <1>9

LEMMA LoadSectorInv == FatInv /\ LoadSector => FatInv'
<1> SUFFICES ASSUME FatInv, LoadSector PROVE FatInv'
  OBVIOUS
<1> DEFINE lba == PartitionOffset + ClusterToLba(fd[cur].cluster) + fd[cur].sector
<1>1. /\ pc \in Reading /\ fd[cur] \in Handle /\ failed \in BOOLEAN
      /\ cachePos' \in Nat \cup {NoCache} /\ cacheLba' \in Nat \cup {Torn}
  BY ReadingHandle DEF LoadSector, Reading, cacheVars
<1>2. lba \in Int
  <2>1. fd[cur].cluster \in Nat /\ fd[cur].sector \in Nat
    BY <1>1, ParameterTypes DEF Handle
  <2>2. ClusterToLba(fd[cur].cluster) \in Int
    BY <2>1, LayoutTypes
  <2> QED
    BY <2>1, <2>2, ParameterTypes
<1>3. PICK ok \in ReadResults(lba, 1) :
        /\ fd' = [fd EXCEPT ![cur].buf = Loaded(ok, lba)]
        /\ pc' = IF ok THEN "read" ELSE back
        /\ failed' = (failed \/ ~ok)
  BY DEF LoadSector
<1>4. ok \in BOOLEAN /\ Loaded(ok, lba) \in Nat \cup {Torn}
  BY <1>2, <1>3, LoadedPlace
<1> DEFINE g == [fd[cur] EXCEPT !.buf = Loaded(ok, lba)]
<1>5. /\ g \in Handle /\ g.pos = fd[cur].pos /\ g.dir = fd[cur].dir
      /\ g.size = fd[cur].size /\ g.size \in {fd[cur].size, g.pos}
  BY <1>1, <1>4 DEF Handle
<1>6. fd' = [fd EXCEPT ![cur] = g]
  BY <1>3
<1>7. (pc' = back \/ pc' \in Reading) /\ failed' \in BOOLEAN
  BY <1>1, <1>3, <1>4 DEF Reading
<1>8. UNCHANGED <<back, callVars, cur, count, got, shown>>
  BY DEF LoadSector
<1> HIDE DEF g
<1> QED
  BY <1>1, <1>5, <1>6, <1>7, <1>8, SectorStep

-----------------------------------------------------------------------------
\* Closing a handle, which changes neither its size nor what it is of.
LEMMA ClosedHandles ==
  ASSUME fd \in [Handles -> Handle], NEW h \in Handles
  PROVE  /\ Closed(h) \in [Handles -> Handle]
         /\ \A k \in Handles \ {h} : Closed(h)[k] = fd[k]
         /\ Closed(h)[h].size = fd[h].size /\ Closed(h)[h].dir = fd[h].dir
         /\ Closed(h)[h].pos \in {0, fd[h].pos}
         /\ h \in FileHandles => ~Closed(h)[h].opened
<1>1. CASE h = ROOT
  <2> DEFINE g == [fd[ROOT] EXCEPT !.pos = 0, !.cluster = fd[ROOT].first]
  <2>1. g \in Handle /\ g.size = fd[h].size /\ g.dir = fd[h].dir /\ g.pos = 0
    BY <1>1 DEF Handle
  <2>2. Closed(h) = [fd EXCEPT ![ROOT] = g]
    BY <1>1 DEF Closed
  <2> HIDE DEF g
  <2> QED
    BY <1>1, <2>1, <2>2, HandleNames
<1>2. CASE h # ROOT
  <2> DEFINE g == [fd[h] EXCEPT !.opened = FALSE]
  <2>1. /\ g \in Handle /\ g.size = fd[h].size /\ g.dir = fd[h].dir
        /\ g.pos = fd[h].pos /\ ~g.opened
    BY <1>2 DEF Handle
  <2>2. Closed(h) = [fd EXCEPT ![h] = g]
    BY <1>2 DEF Closed
  <2> HIDE DEF g
  <2> QED
    BY <1>2, <2>1, <2>2
<1> QED
  BY <1>1, <1>2

\* A step that closes the handle in use leaves none open.
LEMMA CloseStep ==
  ASSUME FatInv, cur \in Handles, fd' = Closed(cur), pc' \notin Reading
  PROVE  /\ fd' \in [Handles -> Handle]
         /\ \A h \in FileHandles : ~fd'[h].opened
         /\ OneHandle' /\ Positions'
<1> USE DEF FatInv
<1>1. fd \in [Handles -> Handle]
  BY DEF FatTypeOK, Handle
<1>2. fd' \in [Handles -> Handle]
  BY <1>1, ClosedHandles
<1>3. \A h \in FileHandles : ~fd'[h].opened
  BY <1>1, ClosedHandles, HandleNames DEF OneHandle
<1>4. Positions'
  <2> SUFFICES ASSUME NEW h \in Handles, Bounded(fd'[h]) PROVE fd'[h].pos <= fd'[h].size
    BY DEF Positions
  <2>1. CASE h = cur
    <3>1. fd[h].pos \in Nat /\ fd[h].size \in Nat
      BY <1>1 DEF Handle
    <3>2. fd'[h].size = fd[h].size /\ fd'[h].dir = fd[h].dir /\ fd'[h].pos \in {0, fd[h].pos}
      BY <1>1, <2>1, ClosedHandles
    <3> QED
      BY <3>1, <3>2 DEF Positions, Bounded
  <2>2. CASE h # cur
    BY <1>1, <2>2, ClosedHandles DEF Positions
  <2> QED
    BY <2>1, <2>2
<1> QED
  BY <1>2, <1>3, <1>4 DEF OneHandle

LEMMA MatchInv == FatInv /\ Match => FatInv'
<1> SUFFICES ASSUME FatInv, Match PROVE FatInv'
  OBVIOUS
<1> USE DEF FatInv, Match
<1>1. cur \in Handles /\ cmd \in {"cat", "ls"} /\ shown = <<>> /\ cmd' = cmd
  BY DEF FatTypeOK, Callers, DataTypes, ShownFromHandle, Point, Reading
<1>2. CASE Len(got) < ENTRY_SIZE
  <2>1. pc' = cmd /\ cur' = Null /\ fd' = Closed(cur) /\ entry' = entry
    BY <1>2
  <2>2. fd' \in [Handles -> Handle] /\ OneHandle' /\ Positions'
    BY <1>1, <2>1, CloseStep DEF Reading
  <2>3. FatTypeOK'
    BY <1>1, <2>1, <2>2 DEF FatTypeOK, Handle, cacheVars
  <2>4. DataTypes'
    BY <2>1 DEF DataTypes, Fields
  <2>5. Callers' /\ ShownFromHandle'
    BY <1>1, <2>1 DEF Callers, ShownFromHandle, Point, Reading
  <2> QED
    BY <2>2, <2>3, <2>4, <2>5
<1>3. CASE Len(got) >= ENTRY_SIZE /\ EntryRead.name = Head(path)
  <2>1. pc' = "openEntry" /\ fd' = Closed(cur) /\ cur' = cur /\ entry' = EntryRead
    BY <1>3, ParameterTypes DEF DataTypes
  <2>2. fd' \in [Handles -> Handle] /\ OneHandle' /\ Positions'
    BY <1>1, <2>1, CloseStep DEF Reading
  <2>3. FatTypeOK'
    BY <1>1, <2>1, <2>2 DEF FatTypeOK, Handle, cacheVars
  <2>4. Fields(entry')
    BY <2>1, EntryFields DEF EntryRead
  <2>5. DataTypes'
    BY <2>4 DEF DataTypes, Fields
  <2>6. Callers' /\ ShownFromHandle'
    BY <1>1, <2>1, HandleNames DEF Callers, ShownFromHandle, Point, Reading
  <2> QED
    BY <2>2, <2>3, <2>5, <2>6
<1>4. CASE Len(got) >= ENTRY_SIZE /\ EntryRead.name # Head(path)
  <2>1. pc' = "find" /\ UNCHANGED <<cur, fd, entry>>
    BY <1>4, ParameterTypes DEF DataTypes
  <2>2. FatTypeOK' /\ DataTypes'
    BY <2>1 DEF FatTypeOK, DataTypes, Fields, cacheVars
  <2>3. OneHandle' /\ Positions'
    BY <2>1 DEF OneHandle, Positions, Bounded, Reading
  <2>4. Callers' /\ ShownFromHandle'
    BY <1>1, <2>1 DEF Callers, ShownFromHandle, Point, Reading
  <2> QED
    BY <2>2, <2>3, <2>4
<1>5. Len(got) < ENTRY_SIZE \/ Len(got) >= ENTRY_SIZE
  BY ParameterTypes DEF DataTypes
<1> QED
  BY <1>2, <1>3, <1>4, <1>5

LEMMA OpenEntryInv == FatInv /\ OpenEntry => FatInv'
<1> SUFFICES ASSUME FatInv, OpenEntry PROVE FatInv'
  OBVIOUS
<1> USE DEF FatInv
<1> DEFINE free == {x \in FileHandles : ~fd[x].opened}
           h == CHOOSE x \in free : \A y \in free : x <= y
           lba == PartitionOffset + ClusterToLba(entry.first)
<1>1. /\ pc = "openEntry" /\ pc' = "open" /\ fd \in [Handles -> Handle]
      /\ failed \in BOOLEAN /\ shown = <<>> /\ cur \in Handles \cup {Null}
      /\ UNCHANGED <<cacheVars, back, callVars, count, got, shown>>
  BY DEF OpenEntry, FatTypeOK, Handle, ShownFromHandle, Point, Reading
<1>2. \A x \in FileHandles : ~fd[x].opened
  BY <1>1 DEF OneHandle
<1>3. DataTypes'
  BY <1>1 DEF DataTypes, Fields, callVars
<1>4. CASE free = {}
  <2>1. cur' = Null /\ UNCHANGED <<fd, failed>>
    BY <1>4 DEF OpenEntry
  <2>2. FatTypeOK'
    BY <1>1, <2>1 DEF FatTypeOK, cacheVars
  <2>3. OneHandle' /\ Positions'
    BY <1>1, <1>2, <2>1 DEF OneHandle, Positions, Bounded, Reading
  <2>4. Callers' /\ ShownFromHandle'
    BY <1>1, <2>1 DEF Callers, ShownFromHandle, Point, Reading
  <2> QED
    BY <1>3, <2>2, <2>3, <2>4
<1>5. CASE free # {}
  <2>1. h \in FileHandles
    <3>1. \E x \in free : \A y \in free : x <= y
      <4>1. free = FileHandles
        BY <1>2
      <4>2. 0 \in FileHandles /\ \A y \in FileHandles : 0 <= y
        BY FatAssumption DEF FileHandles
      <4> QED
        BY <4>1, <4>2
    <3> QED
      BY <3>1
  <2> DEFINE new(ok) == [opened |-> ok, dir |-> entry.dir, pos |-> 0,
                         size |-> entry.size, first |-> entry.first,
                         cluster |-> entry.first, sector |-> 0, buf |-> Loaded(ok, lba)]
  <2>2. PICK ok \in ReadResults(lba, 1) :
          /\ fd' = [fd EXCEPT ![h] = new(ok)]
          /\ cur' = IF ok THEN h ELSE Null
          /\ failed' = (failed \/ ~ok)
    BY <1>5 DEF OpenEntry
  <2>3. Fields(entry)
    BY DEF DataTypes
  <2>4. lba \in Int
    BY <2>3, LayoutTypes, ParameterTypes DEF Fields
  <2>5. ok \in BOOLEAN /\ Loaded(ok, lba) \in Nat \cup {Torn}
    BY <2>2, <2>4, LoadedPlace
  <2>6. /\ new(ok) \in Handle /\ new(ok).pos = 0 /\ new(ok).size \in Nat
        /\ new(ok).opened = ok
    BY <2>3, <2>5 DEF Handle, Fields
  <2> HIDE DEF h, new
  <2>7. /\ fd' \in [Handles -> Handle] /\ fd'[h] = new(ok)
        /\ \A x \in Handles \ {h} : fd'[x] = fd[x]
    BY <1>1, <2>1, <2>2, <2>6, HandleNames
  <2>8. cur' \in Handles \cup {Null} /\ failed' \in BOOLEAN
    BY <1>1, <2>1, <2>2, <2>5, HandleNames
  <2>9. FatTypeOK'
    BY <1>1, <2>7, <2>8 DEF FatTypeOK, Handle, cacheVars
  <2>10. OneHandle'
    BY <1>1, <1>2, <2>2, <2>6, <2>7, HandleNames DEF OneHandle
  <2>11. Positions'
    BY <1>1, <2>6, <2>7 DEF Positions, Reading
  <2>12. Callers' /\ ShownFromHandle'
    BY <1>1 DEF Callers, ShownFromHandle, Point, Reading
  <2> QED
    BY <1>3, <2>9, <2>10, <2>11, <2>12
<1> QED
  BY <1>4, <1>5

LEMMA ShowGotInv == FatInv /\ ShowGot => FatInv'
<1> SUFFICES ASSUME FatInv, ShowGot PROVE FatInv'
  OBVIOUS
<1> USE DEF FatInv
<1>1. /\ pc \in {"catGot", "lsGot"} /\ cur \in Handles
      /\ UNCHANGED <<cacheVars, back, callVars, cur, count, got, failed>>
      /\ pc = "catGot" => cmd = "cat"
      /\ pc = "lsGot" => cmd = "ls"
  BY DEF ShowGot, FatTypeOK, Callers, Point, Reading
<1>2. CASE CloseAndReturn
  <2>1. fd' = Closed(cur) /\ pc' = "cli" /\ shown' = shown
    BY <1>2 DEF CloseAndReturn
  <2>2. fd' \in [Handles -> Handle] /\ OneHandle' /\ Positions'
    BY <1>1, <2>1, CloseStep DEF Reading
  <2>3. FatTypeOK'
    BY <1>1, <2>1, <2>2 DEF FatTypeOK, Handle, cacheVars
  <2>4. DataTypes'
    BY <1>1, <2>1 DEF DataTypes, Fields, callVars
  <2>5. Callers' /\ ShownFromHandle'
    BY <1>1, <2>1, HandleNames DEF Callers, ShownFromHandle, Point, Reading
  <2> QED
    BY <2>2, <2>3, <2>4, <2>5
<1>3. CASE \E items : Show(items) /\ (pc = "catGot" => items = got)
  <2>1. PICK items : Show(items) /\ (pc = "catGot" => items = got)
    BY <1>3
  <2>2. shown' = shown \o items /\ pc' = cmd /\ fd' = fd /\ cmd' = cmd
    BY <1>1, <2>1 DEF Show, callVars
  <2>3. cmd = "cat" => /\ shown' \in Seq(Place) /\ Len(shown') = Len(shown) + Len(got)
                       /\ Len(shown') <= fd[cur].pos
    <3> SUFFICES ASSUME cmd = "cat"
                 PROVE  /\ shown' \in Seq(Place) /\ Len(shown') = Len(shown) + Len(got)
                        /\ Len(shown') <= fd[cur].pos
      OBVIOUS
    <3>1. pc = "catGot" /\ items = got
      BY <1>1, <2>1
    <3>2. shown \in Seq(Place) /\ got \in Seq(Place)
      BY DEF DataTypes
    <3>3. Len(shown) + Len(got) <= fd[cur].pos
      BY <3>1 DEF ShownFromHandle, Point, Reading
    <3> QED
      BY <2>2, <3>1, <3>2, <3>3, Joined
  <2>4. FatTypeOK' /\ DataTypes'
    BY <1>1, <2>2, <2>3 DEF FatTypeOK, DataTypes, Fields, cacheVars, callVars
  <2>5. OneHandle' /\ Positions'
    BY <1>1, <2>2 DEF OneHandle, Positions, Bounded, Reading, DataTypes
  <2>6. Callers' /\ ShownFromHandle'
    BY <1>1, <2>2, <2>3, HandleNames DEF Callers, ShownFromHandle, Point, Reading, DataTypes
  <2> QED
    BY <2>4, <2>5, <2>6
<1>4. CloseAndReturn \/ \E items : Show(items) /\ (pc = "catGot" => items = got)
  BY DEF ShowGot
<1> QED
  BY <1>2, <1>3, <1>4

LEMMA NextFatInv == FatInv /\ [Next]_vars => FatInv'
<1> SUFFICES ASSUME FatInv, [Next]_vars PROVE FatInv'
  OBVIOUS
<1>1. CASE FindFile \/ ReadFile \/ ReadDirectory
  BY <1>1, CallReadInv, ParameterTypes DEF FindFile, ReadFile, ReadDirectory
<1>2. CASE UNCHANGED vars
  BY <1>2 DEF FatInv, FatTypeOK, DataTypes, Fields, Callers, OneHandle, Positions, Bounded,
              ShownFromHandle, Point, vars, callVars, cacheVars
<1> QED
  BY <1>1, <1>2, CommandInv, OpenLoopInv, ReadLoopInv, NextRootSectorInv, NextFileSectorInv,
     NextClusterInv, LoadSectorInv, MatchInv, OpenEntryInv, ShowGotInv DEF Next, DriverStep

\* The inductive invariant holds for every volume and whichever reads fail.
THEOREM FatInvHolds == Spec => []FatInv
BY InitFatInv, NextFatInv, PTL DEF Spec

\* Positions, clusters and counts stay numbers: in particular a file's position is
\* never moved beyond its size, where the count of FAT_Read would wrap around.
THEOREM FatTypeCorrect == Spec => []FatTypeOK
<1>1. FatInv => FatTypeOK
  BY DEF FatInv
<1> QED
  BY <1>1, FatInvHolds, PTL

\* Whatever is opened, not found or fails to be read, every command gives its
\* handles back, and never has two.
THEOREM HandlesAreReturned == Spec => []HandlesReturned
<1>1. FatInv => HandlesReturned
  <2> SUFFICES ASSUME FatInv PROVE HandlesReturned
    OBVIOUS
  <2> DEFINE open == {h \in FileHandles : fd[h].opened}
  <2>1. open \subseteq {cur}
    BY DEF FatInv, OneHandle
  <2>2. IsFiniteSet({cur}) /\ Cardinality({cur}) = 1
    BY FS_Singleton
  <2>3. Cardinality(open) <= 1
    BY <2>1, <2>2, FS_Subset
  <2>4. pc = "cli" => \A h \in FileHandles : ~fd[h].opened
    BY DEF FatInv, OneHandle
  <2> QED
    BY <2>3, <2>4 DEF HandlesReturned
<1> QED
  BY <1>1, FatInvHolds, PTL

\* cat shows at most the bytes of its file, though a chain read from a torn cache
\* may go anywhere.
THEOREM CatStaysInFile == Spec => []NeverBeyondSize
<1>1. FatInv => NeverBeyondSize
  BY HandleNames DEF FatInv, NeverBeyondSize, Positions, Bounded, ShownFromHandle, Point, Reading
<1> QED
  BY <1>1, FatInvHolds, PTL

-----------------------------------------------------------------------------
(***************************************************************************)
(* What is read.  Here the invariant follows the chain: each step from a   *)
(* used up sector to the next keeps the handle's cluster, sector and buffer*)
(* those of its position, and the cache that part of the FAT it stands for.*)
(***************************************************************************)

\* The sector of the volume that holds the n-th sector of a chain.
ChainSector(first, n) ==
  PartitionOffset + ClusterToLba(ChainFrom(first)[n \div SectorsPerCluster])
    + (n % SectorsPerCluster)

\* The handle f, with the driver at p, is where its chain is at its position.
OnChain(f, p) ==
  LET n == f.pos \div SECTOR_SIZE
      ClusterOf(k) == ChainFrom(f.first)[k \div SectorsPerCluster]
  IN /\ p \notin {"refill", "fat", "load"} =>
          \/ f.cluster = EOC /\ Bounded(f) /\ f.pos = f.size /\ ClusterOf(n) = EOC
          \/ f.cluster \in Clusters /\ f.buf = ChainSector(f.first, n)
             /\ f.cluster = ClusterOf(n) /\ f.sector = n % SectorsPerCluster
     /\ p \in {"refill", "fat", "load"} => f.cluster \in Clusters /\ f.pos % SECTOR_SIZE = 0
     /\ p \in {"refill", "fat"} => n # 0 /\ f.cluster = ClusterOf(n - 1)
     /\ p = "refill" => f.sector = (n - 1) % SectorsPerCluster
     /\ p = "fat" => f.sector = 0 /\ n % SectorsPerCluster = 0
     /\ p = "load" => f.cluster = ClusterOf(n) /\ f.sector = n % SectorsPerCluster

\* What was read and shown through the handle is what its chain holds there.
BytesOfChain(f) ==
  /\ Point \in {"match", "catGot", "lsGot"} =>
       /\ Len(got) <= f.pos
       /\ \A k \in 1 .. Len(got) : got[k] = PlaceOf(f.first, f.pos - Len(got) + k - 1)
  /\ Point \in {"cat", "catGot"} =>
       \A k \in 1 .. Len(shown) : shown[k] = PlaceOf(f.first, k - 1)
  /\ Point = "open" => f.pos = 0
  /\ Point = "cat" => Len(shown) = f.pos
  /\ Point = "catGot" => Len(shown) + Len(got) = f.pos

\* The FAT cache holds the part of the FAT it is taken to hold.
CacheRight ==
  SoundCache /\ ~failed =>
    cachePos = NoCache \/ cacheLba = PartitionOffset + ReservedSectors + cachePos

\* The handle in use is of an undamaged chain.
Tracked ==
  /\ SoundCache /\ ~failed /\ pc \notin {"cli", "openEntry"}
  /\ cur \in FileHandles /\ fd[cur].first \in Clusters

\* FAT_Read returns nothing only at the end.
Fills ==
  /\ pc \in {"refill", "fat", "load"} => got # <<>>
  /\ cur # Null /\ Bounded(fd[cur]) /\ got = <<>> /\ Point = "catGot"
       /\ (pc = "catGot" \/ count = 0) => fd[cur].pos = fd[cur].size

ReadInv ==
  /\ CacheRight /\ Fills
  /\ Tracked => OnChain(fd[cur], pc) /\ BytesOfChain(fd[cur])

-----------------------------------------------------------------------------
ChainValues == Clusters \cup {EOC}

\* ChainFrom follows the FAT.
LEMMA ChainSteps ==
  ASSUME NEW first \in Clusters
  PROVE  /\ ChainFrom(first)[0] = first
         /\ \A k \in Nat : /\ ChainFrom(first)[k] \in Clusters \cup {EOC}
                           /\ ChainFrom(first)[k + 1] =
                                IF ChainFrom(first)[k] = EOC THEN EOC
                                ELSE FatTable[ChainFrom(first)[k]]
<1> USE DEF ChainValues
<1> DEFINE step == [v \in ChainValues |-> IF v = EOC THEN EOC ELSE FatTable[v]]
           Chain(at) == [k \in Nat |-> IF k = 0 THEN first
                                       ELSE IF at[k - 1] = EOC THEN EOC ELSE FatTable[at[k - 1]]]
<1>1. step \in [ChainValues -> ChainValues]
  BY TableAssumption
<1>2. PICK g \in [Nat -> ChainValues] : g[0] = first /\ \A k \in Nat : g[k + 1] = step[g[k]]
  <2> DEFINE next == [a \in Nat \X ChainValues |-> step[a[2]]]
  <2>1. first \in ChainValues
    OBVIOUS
  <2> HIDE DEF step, ChainValues, Chain
  <2>2. next \in Steps(ChainValues)
    BY <1>1 DEF Steps
  <2> HIDE DEF next
  <2>3. \E g : Iterates(g, ChainValues, next, first)
    BY <2>1, <2>2, Iterated
  <2> QED
    BY <2>3 DEF Iterates, next
<1>3. \A k \in Nat \ {0} : g[k] = step[g[k - 1]]
  <2> SUFFICES ASSUME NEW k \in Nat \ {0} PROVE g[k] = step[g[k - 1]]
    OBVIOUS
  <2>1. k - 1 \in Nat /\ (k - 1) + 1 = k
    OBVIOUS
  <2> QED
    BY <1>2, <2>1
<1>4. g = Chain(g)
  <2>1. g = [k \in Nat |-> g[k]]
    OBVIOUS
  <2>2. \A k \in Nat \ {0} : g[k] = IF g[k - 1] = EOC THEN EOC ELSE FatTable[g[k - 1]]
    <3>1. \A k \in Nat \ {0} : g[k - 1] \in ChainValues
      OBVIOUS
    <3> QED
      BY <1>3, <3>1
  <2>3. g[0] = first
    BY <1>2
  <2>4. \A k \in Nat : g[k] = IF k = 0 THEN first
                             ELSE IF g[k - 1] = EOC THEN EOC ELSE FatTable[g[k - 1]]
    BY <2>2, <2>3
  <2> QED
    BY <2>1, <2>4
<1>5. ChainFrom(first) = CHOOSE at : at = Chain(at)
  BY DEF ChainFrom
<1>6. ChainFrom(first) = Chain(ChainFrom(first))
  <2> HIDE DEF Chain
  <2>1. \E at : at = Chain(at)
    BY <1>4, Zenon
  <2>2. (CHOOSE at : at = Chain(at)) = Chain(CHOOSE at : at = Chain(at))
    BY <2>1, Zenon
  <2> QED
    BY <1>5, <2>2, Zenon
<1> DEFINE c == ChainFrom(first)
<1>7. c[0] = first /\ \A k \in Nat : c[k + 1] = IF c[k] = EOC THEN EOC ELSE FatTable[c[k]]
  <2> HIDE DEF c
  <2>1. c = Chain(c)
    BY <1>6 DEF c
  <2>2. c[0] = first
    BY <2>1
  <2>3. ASSUME NEW k \in Nat
        PROVE  c[k + 1] = IF c[k] = EOC THEN EOC ELSE FatTable[c[k]]
    <3>1. k + 1 \in Nat /\ k + 1 # 0 /\ (k + 1) - 1 = k
      OBVIOUS
    <3> QED
      BY <2>1, <3>1
  <2> QED
    BY <2>2, <2>3
<1>8. \A k \in Nat : c[k] \in ChainValues
  <2> DEFINE S == {k \in Nat : c[k] \in ChainValues}
  <2>1. 0 \in S
    BY <1>7
  <2>2. ASSUME NEW k \in Nat, k \in S PROVE k + 1 \in S
    <3> HIDE DEF c
    <3>1. c[k] \in ChainValues /\ c[k + 1] = IF c[k] = EOC THEN EOC ELSE FatTable[c[k]]
      BY <1>7, <2>2
    <3>2. c[k + 1] \in ChainValues
      BY <3>1, TableAssumption
    <3> QED
      BY <3>2
  <2> HIDE DEF S
  <2>3. Nat \subseteq S
    BY <2>1, <2>2, Induct
  <2> QED
    BY <2>3 DEF S
<1> QED
  BY <1>7, <1>8

-----------------------------------------------------------------------------
\* Quotients and remainders, of positions by sectors and of sectors by clusters.
LEMMA PartsOfPlace ==
  ASSUME NEW d \in Nat \ {0}, NEW q \in Nat, NEW r \in Nat, r < d
  PROVE  (d * q + r) \div d = q /\ (d * q + r) % d = r
BY SMT

LEMMA QuotientOfMultiple ==
  ASSUME NEW d \in Nat \ {0}, NEW q \in Nat
  PROVE  (d * q) \div d = q /\ (d * q) % d = 0
BY SMT

LEMMA DividedBy ==
  ASSUME NEW d \in Nat \ {0}, NEW n \in Nat
  PROVE  /\ n = d * (n \div d) + (n % d)
         /\ n % d \in Nat /\ n % d < d /\ n \div d \in Nat
BY SMT

LEMMA QuotientOfNext ==
  ASSUME NEW d \in Nat \ {0}, NEW n \in Nat
  PROVE  /\ (n % d) + 1 >= d => (n + 1) \div d = (n \div d) + 1 /\ (n + 1) % d = 0
         /\ (n % d) + 1 < d => (n + 1) \div d = n \div d /\ (n + 1) % d = (n % d) + 1
BY SMT

\* The place of a byte is its sector of the chain and its offset there.
LEMMA PlaceOfByte ==
  ASSUME NEW first, NEW n \in Nat, NEW r \in Nat, r < SECTOR_SIZE
  PROVE  PlaceOf(first, SECTOR_SIZE * n + r) = <<ChainSector(first, n), r>>
BY PartsOfPlace, ParameterTypes DEF PlaceOf, ChainSector

LEMMA StartOnChain ==
  ASSUME NEW f, f.pos = 0, f.first \in Clusters, f.cluster = f.first, f.sector = 0,
         f.buf = PartitionOffset + ClusterToLba(f.first),
         NEW p, p \notin {"refill", "fat", "load"}
  PROVE  OnChain(f, p)
<1>1. 0 \div SECTOR_SIZE = 0 /\ 0 \div SectorsPerCluster = 0 /\ 0 % SectorsPerCluster = 0
  BY LayoutAssumption
<1>2. ChainFrom(f.first)[0] = f.first
  BY ChainSteps
<1>3. ClusterToLba(f.first) \in Int
  BY LayoutTypes, TableAssumption
<1>4. ChainSector(f.first, 0) = f.buf
  BY <1>1, <1>2, <1>3, ParameterTypes DEF ChainSector
<1> QED
  BY <1>1, <1>2, <1>4 DEF OnChain

-----------------------------------------------------------------------------
LEMMA CommandRead == FatInv /\ ReadInv /\ Command => ReadInv'
<1> SUFFICES ASSUME FatInv, ReadInv, Command PROVE ReadInv'
  OBVIOUS
<1>1. CacheRight'
  BY DEF ReadInv, CacheRight, Command, cacheVars
<1>2. Fills'
  BY DEF Fills, Command, Point, Reading
<1>3. ~Tracked'
  BY HandleNames DEF Tracked, Command
<1> QED
  BY <1>1, <1>2, <1>3 DEF ReadInv

LEMMA OpenLoopRead == FatInv /\ ReadInv /\ OpenLoop => ReadInv'
<1> SUFFICES ASSUME FatInv, ReadInv, OpenLoop PROVE ReadInv'
  OBVIOUS
<1>1. /\ pc = "open" /\ pc' \in {"cat", "ls", "find"} /\ shown = <<>>
      /\ UNCHANGED <<fd, cachePos, cacheLba, cur, count, got, shown, failed, back>>
  BY DEF OpenLoop, cacheVars, FatInv, DataTypes, ShownFromHandle, Point, Reading
<1>2. CacheRight' /\ Fills'
  BY <1>1 DEF ReadInv, CacheRight, Fills, Point, Reading
<1>3. ASSUME Tracked'
      PROVE  OnChain(fd[cur], pc') /\ BytesOfChain(fd[cur])'
  <2>1. Tracked
    BY <1>1, <1>3 DEF Tracked
  <2>2. OnChain(fd[cur], pc')
    BY <1>1, <2>1 DEF ReadInv, OnChain
  <2>3. fd[cur].pos = 0
    BY <1>1, <2>1 DEF ReadInv, BytesOfChain, Point, Reading
  <2>4. BytesOfChain(fd[cur])'
    BY <1>1, <2>3 DEF BytesOfChain, Point, Reading
  <2> QED
    BY <2>2, <2>4
<1> QED
  BY <1>1, <1>2, <1>3 DEF ReadInv

LEMMA CallReadRead ==
  ASSUME FatInv, ReadInv, NEW n \in Nat \ {0}, NEW b, CallRead(n, b),
         <<pc, b>> \in {<<"find", "match">>, <<"cat", "catGot">>, <<"ls", "lsGot">>}
  PROVE  ReadInv'
<1>1. UNCHANGED <<fd, cachePos, cacheLba, cur, shown, failed>>
  BY DEF CallRead, cacheVars
<1>2. CacheRight'
  BY <1>1 DEF ReadInv, CacheRight
<1>3. CASE cur = Null
  <2>1. Fills' /\ ~Tracked'
    BY <1>1, <1>3, HandleNames DEF Fills, Tracked, CallRead
  <2> QED
    BY <1>2, <2>1 DEF ReadInv
<1>4. CASE cur # Null
  <2>1. pc' = "read" /\ back' = b /\ got' = <<>>
    BY <1>4 DEF CallRead
  <2>2. cur \in Handles /\ fd[cur] \in Handle
    BY <1>4 DEF FatInv, FatTypeOK, Handle
  <2>3. Fills'
    <3> SUFFICES ASSUME Bounded(fd[cur]), count' = 0 PROVE fd[cur].pos = fd[cur].size
      BY <1>1, <2>1 DEF Fills
    <3>1. fd[cur].pos \in Nat /\ fd[cur].size \in Nat /\ fd[cur].pos <= fd[cur].size
      BY <2>2 DEF Handle, FatInv, Positions
    <3>2. Lower(n, fd[cur].size - fd[cur].pos) = 0
      BY <1>4 DEF CallRead, Bounded
    <3> QED
      BY <3>1, <3>2 DEF Lower
  <2>4. ASSUME Tracked'
        PROVE  OnChain(fd[cur], pc') /\ BytesOfChain(fd[cur])'
    <3>1. Tracked
      BY <1>1, <2>4 DEF Tracked
    <3>2. OnChain(fd[cur], pc')
      BY <2>1, <3>1 DEF ReadInv, OnChain
    <3>3. BytesOfChain(fd[cur])
      BY <3>1 DEF ReadInv
    <3>4. fd[cur].pos \in Nat
      BY <2>2 DEF Handle
    <3>5. BytesOfChain(fd[cur])'
      BY <1>1, <2>1, <3>3, <3>4 DEF BytesOfChain, Point, Reading
    <3> QED
      BY <3>2, <3>5
  <2> QED
    BY <1>1, <1>2, <2>3, <2>4 DEF ReadInv
<1> QED
  BY <1>3, <1>4

LEMMA NextRootSectorRead == FatInv /\ ReadInv /\ NextRootSector => ReadInv'
<1> SUFFICES ASSUME FatInv, ReadInv, NextRootSector PROVE ReadInv'
  OBVIOUS
<1>1. /\ pc = "refill" /\ cur = ROOT /\ pc' \in {"read", back} /\ (failed => failed')
      /\ UNCHANGED <<cachePos, cacheLba, cur, got>>
  BY DEF NextRootSector, cacheVars
<1>2. CacheRight' /\ Fills' /\ ~Tracked'
  BY <1>1, HandleNames DEF ReadInv, CacheRight, Fills, Tracked, FatInv, Callers, Reading
<1> QED
  BY <1>2 DEF ReadInv

LEMMA JoinedElements ==
  ASSUME NEW S, NEW s \in Seq(S), NEW t \in Seq(S)
  PROVE  /\ \A k \in 1 .. Len(s) : (s \o t)[k] = s[k]
         /\ \A k \in 1 .. Len(t) : (s \o t)[Len(s) + k] = t[k]
OBVIOUS

\* The bytes of one iteration of FAT_Read are the next of the chain.
LEMMA BytesTaken ==
  ASSUME NEW f \in Handle, f.buf = ChainSector(f.first, f.pos \div SECTOR_SIZE),
         NEW take \in Nat, take <= SECTOR_SIZE - (f.pos % SECTOR_SIZE),
         NEW k \in 1 .. take
  PROVE  <<f.buf, (f.pos % SECTOR_SIZE) + k - 1>> = PlaceOf(f.first, f.pos + k - 1)
<1> DEFINE n == f.pos \div SECTOR_SIZE
           r == f.pos % SECTOR_SIZE
<1>1. f.pos = SECTOR_SIZE * n + r /\ n \in Nat /\ r \in Nat /\ r < SECTOR_SIZE
  BY DividedBy, ParameterTypes DEF Handle
<1>2. r + k - 1 \in Nat /\ r + k - 1 < SECTOR_SIZE
  BY <1>1, ParameterTypes
<1>3. f.pos + k - 1 = SECTOR_SIZE * n + (r + k - 1)
  <2>1. SECTOR_SIZE * n \in Nat
    BY <1>1, ParameterTypes
  <2> HIDE DEF n, r
  <2> QED
    BY <1>1, <2>1
<1> HIDE DEF n, r
<1> QED
  BY <1>1, <1>2, <1>3, PlaceOfByte DEF n, r

LEMMA ReadLoopRead == FatInv /\ ReadInv /\ ReadLoop => ReadInv'
<1> SUFFICES ASSUME FatInv, ReadInv, ReadLoop PROVE ReadInv'
  OBVIOUS
<1> DEFINE f == fd[cur]
           inSector == f.pos % SECTOR_SIZE
           left == SECTOR_SIZE - inSector
           take == Lower(count, left)
           bytes == [k \in 1 .. take |-> <<f.buf, inSector + k - 1>>]
<1>1. /\ pc = "read" /\ cur \in Handles /\ f \in Handle /\ count \in Nat
      /\ back \in {"match", "catGot", "lsGot"} /\ fd \in [Handles -> Handle]
      /\ got \in Seq(Place)
      /\ UNCHANGED <<cachePos, cacheLba, back, cur, shown, failed>>
  BY DEF ReadLoop, FatInv, FatTypeOK, Handle, Callers, Reading, cacheVars, DataTypes
<1>2. CacheRight'
  BY <1>1 DEF ReadInv, CacheRight
<1>3. CASE count = 0
  <2>1. pc' = back /\ UNCHANGED <<fd, count, got>>
    BY <1>3 DEF ReadLoop
  <2>2. Fills'
    BY <1>1, <1>3, <2>1 DEF ReadInv, Fills, Point, Reading
  <2>3. ASSUME Tracked'
        PROVE  OnChain(fd[cur], pc') /\ BytesOfChain(fd[cur])'
    <3>1. Tracked
      BY <1>1, <2>1, <2>3 DEF Tracked
    <3>2. OnChain(f, pc')
      BY <1>1, <2>1, <3>1 DEF ReadInv, OnChain
    <3>3. BytesOfChain(f)
      BY <3>1 DEF ReadInv
    <3>4. BytesOfChain(f)'
      BY <1>1, <2>1, <3>3 DEF BytesOfChain, Point, Reading
    <3> QED
      BY <3>2, <3>4
  <2> QED
    BY <1>1, <1>2, <2>1, <2>2, <2>3 DEF ReadInv
<1>4. CASE count # 0
  <2>1. /\ got' = got \o bytes /\ fd' = [fd EXCEPT ![cur].pos = @ + take]
        /\ count' = count - take
        /\ pc' = IF take = left THEN "refill" ELSE "read"
    BY <1>4 DEF ReadLoop
  <2>2. f.pos \in Nat /\ inSector \in Nat /\ left \in Nat \ {0} /\ inSector < SECTOR_SIZE
    <3>1. f.pos \in Nat
      BY <1>1 DEF Handle
    <3> QED
      BY <3>1, SectorArithmetic, ParameterTypes
  <2>3. take \in Nat \ {0} /\ take <= count /\ take <= left
    BY <1>1, <1>4, <2>2 DEF Lower
  <2>4. /\ Len(got') = Len(got) + take /\ Len(got) \in Nat
        /\ \A k \in 1 .. Len(got) : got'[k] = got[k]
        /\ \A k \in 1 .. take : got'[Len(got) + k] = <<f.buf, inSector + k - 1>>
    <3>1. f.buf \in Nat \cup {Torn}
      BY <1>1 DEF Handle
    <3> HIDE DEF take, inSector
    <3>2. \A k \in 1 .. take : <<f.buf, inSector + k - 1>> \in Place
      BY <2>2, <2>3, <3>1 DEF Place
    <3>3. Len(bytes) = take /\ bytes \in Seq(Place)
      BY <2>3, <3>2
    <3>4. \A k \in 1 .. take : bytes[k] = <<f.buf, inSector + k - 1>>
      OBVIOUS
    <3> HIDE DEF bytes
    <3>5. Len(got') = Len(got) + take
      BY <1>1, <2>1, <3>3, Joined
    <3>8. Len(got) \in Nat
      BY <1>1
    <3>6. \A k \in 1 .. Len(got) : got'[k] = got[k]
      BY <1>1, <2>1, <3>3, JoinedElements
    <3>7. \A k \in 1 .. take : got'[Len(got) + k] = bytes[k]
      BY <1>1, <2>1, <3>3, JoinedElements
    <3> QED
      BY <3>4, <3>5, <3>6, <3>7, <3>8
  <2>5. fd'[cur] = [f EXCEPT !.pos = f.pos + take]
    BY <1>1, <2>1
  <2>6. /\ fd'[cur].pos = f.pos + take /\ fd'[cur].size = f.size /\ fd'[cur].dir = f.dir
        /\ fd'[cur].first = f.first /\ fd'[cur].cluster = f.cluster
        /\ fd'[cur].sector = f.sector /\ fd'[cur].buf = f.buf
    BY <1>1, <2>5 DEF Handle
  <2>7. got' # <<>>
    BY <2>3, <2>4
  <2>8. Fills'
    BY <2>7 DEF Fills
  <2>9. ASSUME Tracked'
        PROVE  OnChain(fd'[cur], pc') /\ BytesOfChain(fd[cur])'
    <3> DEFINE n == f.pos \div SECTOR_SIZE
    <3>1. Tracked
      BY <1>1, <2>6, <2>9 DEF Tracked
    <3>2. OnChain(f, "read") /\ BytesOfChain(f)
      BY <1>1, <3>1 DEF ReadInv
    <3>3. f.pos = SECTOR_SIZE * n + inSector /\ n \in Nat
      BY <2>2, DividedBy, ParameterTypes
    <3>4. ~(Bounded(f) /\ f.pos = f.size)
      <4>1. Bounded(f) => f.pos + count <= f.size
        BY <1>1 DEF FatInv, Positions, Reading
      <4>2. f.size \in Nat
        BY <1>1 DEF Handle
      <4> QED
        BY <1>1, <1>4, <2>2, <4>1, <4>2
    <3>5. /\ f.cluster \in Clusters /\ f.buf = ChainSector(f.first, n)
          /\ f.cluster = ChainFrom(f.first)[n \div SectorsPerCluster]
          /\ f.sector = n % SectorsPerCluster
      BY <3>2, <3>4 DEF OnChain
    <3>6. SECTOR_SIZE * n \in Nat /\ SECTOR_SIZE * (n + 1) = SECTOR_SIZE * n + SECTOR_SIZE
      BY <3>3, ParameterTypes
    <3>7. OnChain(fd'[cur], pc')
      <4>1. CASE take = left
        <5>1. f.pos + take = SECTOR_SIZE * (n + 1)
          <6> HIDE DEF n, inSector, take
          <6> QED
            BY <2>2, <3>3, <3>6, <4>1, ParameterTypes
        <5>2. (f.pos + take) \div SECTOR_SIZE = n + 1 /\ (f.pos + take) % SECTOR_SIZE = 0
          <6> HIDE DEF n, take
          <6>1. n + 1 \in Nat
            BY <3>3
          <6> QED
            BY <5>1, <6>1, QuotientOfMultiple, ParameterTypes
        <5>3. n + 1 # 0 /\ (n + 1) - 1 = n
          BY <3>3
        <5>4. pc' = "refill"
          BY <2>1, <4>1
        <5> HIDE DEF n, take
        <5> QED
          BY <2>6, <3>5, <5>2, <5>3, <5>4 DEF OnChain
      <4>2. CASE take # left
        <5>1. inSector + take \in Nat /\ inSector + take < SECTOR_SIZE
          BY <2>2, <2>3, <4>2, ParameterTypes
        <5>2. f.pos + take = SECTOR_SIZE * n + (inSector + take)
          <6> HIDE DEF n, inSector, take
          <6> QED
            BY <2>2, <2>3, <3>3, <3>6
        <5>3. (f.pos + take) \div SECTOR_SIZE = n
          <6> HIDE DEF n, inSector, take
          <6> QED
            BY <3>3, <5>1, <5>2, PartsOfPlace, ParameterTypes
        <5>4. pc' = "read"
          BY <2>1, <4>2
        <5> HIDE DEF n, take
        <5> QED
          BY <2>6, <3>5, <5>3, <5>4 DEF OnChain
      <4> QED
        BY <4>1, <4>2
    <3>8. Point = back /\ Point' = back
      BY <1>1, <2>1 DEF Point, Reading
    <3>9. Len(got) <= f.pos
          /\ \A k \in 1 .. Len(got) : got[k] = PlaceOf(f.first, f.pos - Len(got) + k - 1)
      BY <1>1, <3>2, <3>8 DEF BytesOfChain
    <3>10. ASSUME NEW k \in 1 .. Len(got')
           PROVE  got'[k] = PlaceOf(f.first, (f.pos + take) - Len(got') + k - 1)
      <4>1. (f.pos + take) - Len(got') = f.pos - Len(got)
        <5> HIDE DEF take
        <5> QED
          BY <2>2, <2>3, <2>4
      <4>2. CASE k <= Len(got)
        <5>1. k \in 1 .. Len(got)
          BY <2>4, <4>2
        <5>2. got'[k] = PlaceOf(f.first, f.pos - Len(got) + k - 1)
          BY <2>4, <3>9, <5>1
        <5> QED
          BY <4>1, <5>2
      <4>3. CASE ~(k <= Len(got))
        <5> DEFINE j == k - Len(got)
        <5>1. j \in 1 .. take /\ k = Len(got) + j
          <6> HIDE DEF take
          <6> QED
            BY <2>3, <2>4, <4>3
        <5>2. got'[k] = <<f.buf, inSector + j - 1>>
          <6> HIDE DEF j, take
          <6>1. got'[Len(got) + j] = <<f.buf, inSector + j - 1>>
            BY <2>4, <5>1
          <6> QED
            BY <5>1, <6>1
        <5>3. <<f.buf, inSector + j - 1>> = PlaceOf(f.first, f.pos + j - 1)
          <6> HIDE DEF take, j
          <6> QED
            BY <1>1, <2>3, <3>5, <5>1, BytesTaken
        <5>4. f.pos - Len(got) + k - 1 = f.pos + j - 1
          BY <2>2, <2>4
        <5> QED
          BY <4>1, <5>2, <5>3, <5>4
      <4> QED
        BY <4>2, <4>3
    <3>11. Len(got') <= f.pos + take
      <4> HIDE DEF take
      <4> QED
        BY <2>2, <2>3, <2>4, <3>9
    <3>12. back = "catGot" => Len(shown) + Len(got') = f.pos + take
      <4>1. back = "catGot" => Len(shown) + Len(got) = f.pos /\ shown \in Seq(Place)
        BY <3>2, <3>8 DEF BytesOfChain, FatInv, Callers, DataTypes
      <4>2. back = "catGot" => Len(shown) \in Nat
        BY <4>1
      <4> HIDE DEF take
      <4> QED
        BY <2>2, <2>3, <2>4, <4>1, <4>2
    <3>13. BytesOfChain(fd[cur])'
      <4> HIDE DEF take
      <4>1. back = "catGot" => \A k \in 1 .. Len(shown) : shown[k] = PlaceOf(f.first, k - 1)
        BY <3>2, <3>8 DEF BytesOfChain
      <4> QED
        BY <1>1, <2>6, <3>8, <3>10, <3>11, <3>12, <4>1 DEF BytesOfChain
    <3> QED
      BY <3>7, <3>13
  <2> QED
    BY <1>1, <1>2, <2>8, <2>9 DEF ReadInv
<1> QED
  BY <1>3, <1>4

LEMMA NextFileSectorRead == FatInv /\ ReadInv /\ NextFileSector => ReadInv'
<1> SUFFICES ASSUME FatInv, ReadInv, NextFileSector PROVE ReadInv'
  OBVIOUS
<1> DEFINE f == fd[cur]
           last == f.sector + 1 >= SectorsPerCluster
           n == f.pos \div SECTOR_SIZE
<1>1. /\ pc = "refill" /\ f \in Handle /\ fd \in [Handles -> Handle] /\ cur \in Handles
      /\ pc' = IF last THEN "fat" ELSE "load"
      /\ fd' = [fd EXCEPT ![cur].sector = IF last THEN 0 ELSE @ + 1]
      /\ UNCHANGED <<cachePos, cacheLba, back, cur, count, got, shown, failed>>
  BY DEF NextFileSector, FatInv, FatTypeOK, Handle, Callers, Reading, cacheVars
<1>2. /\ fd'[cur].pos = f.pos /\ fd'[cur].size = f.size /\ fd'[cur].dir = f.dir
      /\ fd'[cur].first = f.first /\ fd'[cur].cluster = f.cluster
      /\ fd'[cur].sector = IF last THEN 0 ELSE f.sector + 1
  BY <1>1 DEF Handle
<1>3. CacheRight' /\ Fills'
  BY <1>1 DEF ReadInv, CacheRight, Fills
<1>4. ASSUME Tracked'
      PROVE  OnChain(fd'[cur], pc') /\ BytesOfChain(fd[cur])'
  <2>1. Tracked
    BY <1>1, <1>2, <1>4 DEF Tracked
  <2>2. OnChain(f, "refill") /\ BytesOfChain(f)
    BY <1>1, <2>1 DEF ReadInv
  <2>3. n \in Nat
    BY <1>1, SectorArithmetic DEF Handle
  <2>4. /\ n # 0 /\ f.cluster = ChainFrom(f.first)[(n - 1) \div SectorsPerCluster]
        /\ f.sector = (n - 1) % SectorsPerCluster
        /\ f.cluster \in Clusters /\ f.pos % SECTOR_SIZE = 0
    BY <2>2 DEF OnChain
  <2>5. n - 1 \in Nat /\ (n - 1) + 1 = n
    BY <2>3, <2>4
  <2>6. /\ last => n % SectorsPerCluster = 0
        /\ ~last => /\ n \div SectorsPerCluster = (n - 1) \div SectorsPerCluster
                    /\ n % SectorsPerCluster = f.sector + 1
    <3> DEFINE m == n - 1
    <3>1. m \in Nat /\ m + 1 = n /\ SectorsPerCluster \in Nat \ {0}
      BY <2>5, LayoutAssumption
    <3>2. f.sector = m % SectorsPerCluster /\ m % SectorsPerCluster \in Nat
      BY <2>4, <3>1, DividedBy
    <3> HIDE DEF m, n
    <3>3. /\ (m % SectorsPerCluster) + 1 >= SectorsPerCluster
               => (m + 1) % SectorsPerCluster = 0
          /\ (m % SectorsPerCluster) + 1 < SectorsPerCluster
               => /\ (m + 1) \div SectorsPerCluster = m \div SectorsPerCluster
                  /\ (m + 1) % SectorsPerCluster = (m % SectorsPerCluster) + 1
      BY <3>1, QuotientOfNext
    <3> QED
      BY <3>1, <3>2, <3>3 DEF m
  <2>7. OnChain(fd'[cur], pc')
    <3> HIDE DEF n, last
    <3>1. CASE last
      BY <1>1, <1>2, <2>4, <2>6, <3>1 DEF OnChain, n
    <3>2. CASE ~last
      BY <1>1, <1>2, <2>4, <2>6, <3>2 DEF OnChain, n
    <3> QED
      BY <3>1, <3>2
  <2>8. BytesOfChain(fd[cur])'
    BY <1>1, <1>2, <2>2 DEF BytesOfChain, Point, Reading
  <2> QED
    BY <2>7, <2>8
<1> QED
  BY <1>1, <1>3, <1>4 DEF ReadInv

LEMMA LoadSectorRead == FatInv /\ ReadInv /\ LoadSector => ReadInv'
<1> SUFFICES ASSUME FatInv, ReadInv, LoadSector PROVE ReadInv'
  OBVIOUS
<1> DEFINE f == fd[cur]
           lba == PartitionOffset + ClusterToLba(f.cluster) + f.sector
<1>1. /\ pc = "load" /\ f \in Handle /\ fd \in [Handles -> Handle] /\ cur \in Handles
      /\ back \in {"match", "catGot", "lsGot"} /\ failed \in BOOLEAN
      /\ UNCHANGED <<cachePos, cacheLba, back, cur, count, got, shown>>
  BY DEF LoadSector, FatInv, FatTypeOK, Handle, Callers, Reading, cacheVars
<1>2. PICK ok \in ReadResults(lba, 1) :
        /\ fd' = [fd EXCEPT ![cur].buf = Loaded(ok, lba)]
        /\ pc' = IF ok THEN "read" ELSE back
        /\ failed' = (failed \/ ~ok)
  BY DEF LoadSector
<1>3. ok \in BOOLEAN
  BY <1>2, FatAssumption DEF ReadResults
<1> HIDE DEF lba
<1>4. /\ fd'[cur].pos = f.pos /\ fd'[cur].size = f.size /\ fd'[cur].dir = f.dir
      /\ fd'[cur].first = f.first /\ fd'[cur].cluster = f.cluster
      /\ fd'[cur].sector = f.sector /\ fd'[cur].buf = Loaded(ok, lba)
  BY <1>1, <1>2 DEF Handle
<1>5. CacheRight' /\ Fills'
  BY <1>1, <1>2, <1>3 DEF ReadInv, CacheRight, Fills
<1>6. ASSUME Tracked'
      PROVE  OnChain(fd'[cur], pc') /\ BytesOfChain(fd[cur])'
  <2>1. ok /\ pc' = "read" /\ Tracked
    BY <1>1, <1>2, <1>3, <1>4, <1>6 DEF Tracked
  <2>2. OnChain(f, "load") /\ BytesOfChain(f)
    BY <1>1, <2>1 DEF ReadInv
  <2>3. fd'[cur].buf = lba
    BY <1>4, <2>1 DEF Loaded
  <2>4. OnChain(fd'[cur], pc')
    BY <1>4, <2>1, <2>2, <2>3 DEF OnChain, ChainSector, lba
  <2>5. BytesOfChain(fd[cur])'
    BY <1>1, <1>4, <2>1, <2>2 DEF BytesOfChain, Point, Reading
  <2> QED
    BY <2>4, <2>5
<1> QED
  BY <1>1, <1>5, <1>6 DEF ReadInv

LEMMA MatchRead == FatInv /\ ReadInv /\ Match => ReadInv'
<1> SUFFICES ASSUME FatInv, ReadInv, Match PROVE ReadInv'
  OBVIOUS
<1>1. /\ pc = "match" /\ cmd \in {"cat", "ls"} /\ shown = <<>>
      /\ UNCHANGED <<cachePos, cacheLba, cmd, back, count, got, shown, failed>>
  BY DEF Match, FatInv, DataTypes, ShownFromHandle, Point, Reading, cacheVars
<1>2. \/ pc' = cmd /\ cur' = Null
      \/ pc' = "openEntry"
      \/ pc' = "find" /\ UNCHANGED <<cur, fd>>
  BY DEF Match
<1>3. CacheRight' /\ Fills'
  BY <1>1, <1>2 DEF ReadInv, CacheRight, Fills, Point, Reading
<1>4. ASSUME Tracked'
      PROVE  OnChain(fd[cur], pc)' /\ BytesOfChain(fd[cur])'
  <2>1. pc' = "find" /\ UNCHANGED <<cur, fd>>
    BY <1>2, <1>4, HandleNames DEF Tracked
  <2>2. Tracked
    BY <1>1, <1>4, <2>1 DEF Tracked
  <2> QED
    BY <1>1, <2>1, <2>2 DEF ReadInv, OnChain, BytesOfChain, Point, Reading
<1> QED
  BY <1>3, <1>4 DEF ReadInv

\* An entry of the FAT in the cached part of it is read as it is on the disk.
LEMMA CachedEntry ==
  ASSUME SoundCache, NEW c \in Clusters, NEW pos \in Nat,
         FatIndex(c) \div SECTOR_SIZE < pos + FAT_CACHE_SIZE
  PROVE  EntryFrom(pos, PartitionOffset + ReservedSectors + pos, c) = {FatTable[c]}
<1> DEFINE i == FatIndex(c)
           q == i \div SECTOR_SIZE
<1>1. i \in Nat
  BY LayoutTypes, TableAssumption
<1>2. i = SECTOR_SIZE * q + (i % SECTOR_SIZE) /\ q \in Nat
  BY <1>1, DividedBy, ParameterTypes
<1>3. (i % SECTOR_SIZE) + 2 <= SECTOR_SIZE /\ i % SECTOR_SIZE \in Nat
  BY <1>1, DividedBy, ParameterTypes DEF SoundCache
<1>4. i + 2 <= SECTOR_SIZE * (q + 1)
  <2>1. SECTOR_SIZE * (q + 1) = SECTOR_SIZE * q + SECTOR_SIZE /\ SECTOR_SIZE * q \in Nat
    BY <1>2, ParameterTypes
  <2> HIDE DEF q, i
  <2> QED
    BY <1>1, <1>2, <1>3, <2>1, ParameterTypes
<1>5. SECTOR_SIZE * (q + 1) <= (pos + FAT_CACHE_SIZE) * SECTOR_SIZE
  <2>1. q + 1 <= pos + FAT_CACHE_SIZE
    BY <1>2, ParameterTypes
  <2> HIDE DEF q
  <2>2. \A d \in Nat : \A a, b \in Int : a <= b => d * a <= b * d
    BY SMT
  <2> QED
    BY <1>2, <2>1, <2>2, ParameterTypes
<1>6. FatIndex(c) + 2 <= (pos + FAT_CACHE_SIZE) * SECTOR_SIZE
  <2>1. SECTOR_SIZE * (q + 1) \in Nat /\ (pos + FAT_CACHE_SIZE) * SECTOR_SIZE \in Nat
    BY <1>2, ParameterTypes
  <2> HIDE DEF q
  <2> QED
    BY <1>1, <1>4, <1>5, <2>1
<1> QED
  BY <1>6 DEF EntryFrom

LEMMA NextClusterRead == FatInv /\ ReadInv /\ NextCluster => ReadInv'
<1> SUFFICES ASSUME FatInv, ReadInv, NextCluster PROVE ReadInv'
  OBVIOUS
<1> DEFINE f == fd[cur]
           sector == FatIndex(f.cluster) \div SECTOR_SIZE
           miss == \/ cachePos = NoCache \/ sector < cachePos
                   \/ sector >= cachePos + FAT_CACHE_SIZE
           lba == FatOffset + ReservedSectors + sector
           n == f.pos \div SECTOR_SIZE
           C == ChainFrom(f.first)
<1>1. /\ pc = "fat" /\ f \in Handle /\ fd \in [Handles -> Handle] /\ cur \in Handles
      /\ back \in {"match", "catGot", "lsGot"} /\ failed \in BOOLEAN
      /\ cachePos \in Nat \cup {NoCache}
      /\ UNCHANGED <<back, cur, count, got, shown>>
  BY DEF NextCluster, FatInv, FatTypeOK, Handle, Callers, Reading
<1>2. sector \in Nat
  <2>1. f.cluster \in Nat
    BY <1>1, ParameterTypes DEF Handle
  <2> QED
    BY <2>1, LayoutTypes, SectorArithmetic
<1>3. CASE miss /\ failed'
  <2>1. CacheRight' /\ ~Tracked'
    BY <1>3 DEF CacheRight, Tracked
  <2>2. got # <<>> /\ pc' # "cat"
    BY <1>1 DEF ReadInv, Fills, NextCluster
  <2> QED
    BY <1>1, <2>1, <2>2 DEF ReadInv, Fills
<1>4. CASE ~miss \/ ~failed'
  <2>1. /\ cachePos' \in Nat /\ sector < cachePos' + FAT_CACHE_SIZE /\ (failed => failed')
        /\ SoundCache /\ ~failed' => cacheLba' = PartitionOffset + ReservedSectors + cachePos'
    <3>1. CASE miss
      <4>1. PICK ok \in ReadResults(lba, FAT_CACHE_SIZE) :
              cachePos' = sector /\ cacheLba' = Loaded(ok, lba) /\ failed' = (failed \/ ~ok)
        BY <3>1 DEF NextCluster
      <4>2. ok \in BOOLEAN
        BY <4>1, FatAssumption DEF ReadResults
      <4>3. ok
        BY <1>1, <1>4, <3>1, <4>1, <4>2
      <4>4. cachePos' = sector /\ cacheLba' = lba /\ failed' = failed
        BY <1>1, <4>1, <4>3 DEF Loaded
      <4>5. sector < sector + FAT_CACHE_SIZE
        BY <1>2, LayoutAssumption
      <4> QED
        BY <1>2, <4>4, <4>5 DEF SoundCache
    <3>2. CASE ~miss
      <4>1. UNCHANGED <<cachePos, cacheLba, failed>>
        BY <3>2 DEF NextCluster, cacheVars
      <4>2. cachePos # NoCache
        BY <3>2
      <4> HIDE DEF sector
      <4>3. sector < cachePos + FAT_CACHE_SIZE
        BY <1>1, <1>2, <3>2, <4>2, ParameterTypes
      <4> QED
        BY <1>1, <4>1, <4>2, <4>3 DEF ReadInv, CacheRight
    <3> QED
      BY <3>1, <3>2
  <2>2. PICK next \in EntryFrom(cachePos', cacheLba', f.cluster) :
          IF next = EOC
          THEN /\ fd' = [fd EXCEPT ![cur].cluster = EOC, ![cur].size = f.pos]
               /\ pc' = back
          ELSE /\ fd' = [fd EXCEPT ![cur].cluster = next]
               /\ pc' = "load"
    BY DEF NextCluster
  <2> HIDE DEF sector, miss, lba
  <2>3. CacheRight'
    BY <2>1 DEF CacheRight
  <2>4. Fills'
    BY <1>1, <2>2 DEF ReadInv, Fills
  <2>5. /\ fd'[cur].pos = f.pos /\ fd'[cur].dir = f.dir /\ fd'[cur].first = f.first
        /\ fd'[cur].sector = f.sector /\ fd'[cur].cluster = next
        /\ next = EOC => fd'[cur].size = f.pos
    BY <1>1, <2>2 DEF Handle
  <2>6. ASSUME Tracked'
        PROVE  OnChain(fd'[cur], pc') /\ BytesOfChain(fd[cur])'
    <3>1. Tracked
      BY <1>1, <2>1, <2>5, <2>6 DEF Tracked
    <3>2. OnChain(f, "fat") /\ BytesOfChain(f)
      BY <1>1, <3>1 DEF ReadInv
    <3>3. /\ f.cluster \in Clusters /\ f.cluster = C[(n - 1) \div SectorsPerCluster]
          /\ n # 0 /\ n % SectorsPerCluster = 0 /\ f.sector = 0
          /\ f.pos % SECTOR_SIZE = 0
      BY <3>2 DEF OnChain
    <3>4. next = FatTable[f.cluster]
      <4>1. SoundCache /\ ~failed'
        BY <2>6 DEF Tracked
      <4> QED
        BY <2>1, <2>2, <3>3, <4>1, CachedEntry DEF sector
    <3>5. f.pos \in Nat /\ n \in Nat /\ f.pos # 0
      <4>1. f.pos \in Nat /\ n \in Nat
        BY <1>1, SectorArithmetic DEF Handle
      <4>2. 0 \div SECTOR_SIZE = 0
        BY ParameterTypes
      <4> QED
        BY <3>3, <4>1, <4>2
    <3> DEFINE m == n - 1
    <3>6. m \in Nat /\ m + 1 = n /\ SectorsPerCluster \in Nat \ {0}
      BY <3>3, <3>5, LayoutAssumption
    <3> HIDE DEF m, n, C
    <3>7. n \div SectorsPerCluster = (m \div SectorsPerCluster) + 1
      <4>1. m % SectorsPerCluster \in Nat
        BY <3>6, DividedBy
      <4>2. /\ (m % SectorsPerCluster) + 1 >= SectorsPerCluster
                 => (m + 1) \div SectorsPerCluster = (m \div SectorsPerCluster) + 1
            /\ (m % SectorsPerCluster) + 1 < SectorsPerCluster
                 => (m + 1) % SectorsPerCluster = (m % SectorsPerCluster) + 1
        BY <3>6, QuotientOfNext
      <4> QED
        BY <3>3, <3>6, <4>1, <4>2
    <3>8. m \div SectorsPerCluster \in Nat
      BY <3>6, DividedBy
    <3>9. next = C[n \div SectorsPerCluster] /\ next \in Clusters \cup {EOC}
      <4>1. f.cluster # EOC /\ f.first \in Clusters
        BY <3>1, <3>3, TableAssumption DEF Tracked
      <4>2. f.cluster = C[m \div SectorsPerCluster]
        BY <3>3 DEF m
      <4>3. C[(m \div SectorsPerCluster) + 1] = FatTable[C[m \div SectorsPerCluster]]
        BY <3>8, <4>1, <4>2, ChainSteps DEF C
      <4> QED
        BY <3>3, <3>4, <3>7, <4>2, <4>3, TableAssumption
    <3>10. OnChain(fd'[cur], pc')
      <4>1. CASE next = EOC
        <5>1. pc' \in {"match", "catGot", "lsGot"}
          BY <1>1, <2>2, <4>1
        <5>2. fd'[cur].cluster = EOC /\ fd'[cur].size = fd'[cur].pos /\ fd'[cur].size # 0
          BY <2>5, <3>5, <4>1
        <5>3. ChainFrom(fd'[cur].first)[(fd'[cur].pos \div SECTOR_SIZE) \div SectorsPerCluster] = EOC
          BY <2>5, <3>9, <4>1 DEF n, C
        <5> QED
          BY <5>1, <5>2, <5>3 DEF OnChain, Bounded
      <4>2. CASE next # EOC
        <5>1. pc' = "load"
          BY <2>2, <4>2
        <5> QED
          BY <2>5, <3>3, <3>9, <4>2, <5>1 DEF OnChain, n, C
      <4> QED
        BY <4>1, <4>2
    <3>11. BytesOfChain(fd[cur])'
      <4>1. Point' = back /\ Point = back
        BY <1>1, <2>2 DEF Point, Reading
      <4> QED
        BY <1>1, <2>5, <3>2, <4>1 DEF BytesOfChain
    <3> QED
      BY <3>10, <3>11
  <2> QED
    BY <1>1, <2>3, <2>4, <2>6 DEF ReadInv
<1> QED
  BY <1>3, <1>4

LEMMA OpenEntryRead == FatInv /\ ReadInv /\ OpenEntry => ReadInv'
<1> SUFFICES ASSUME FatInv, ReadInv, OpenEntry PROVE ReadInv'
  OBVIOUS
<1> DEFINE free == {x \in FileHandles : ~fd[x].opened}
           h == CHOOSE x \in free : \A y \in free : x <= y
           lba == PartitionOffset + ClusterToLba(entry.first)
<1>1. /\ pc = "openEntry" /\ pc' = "open" /\ fd \in [Handles -> Handle]
      /\ failed \in BOOLEAN
      /\ UNCHANGED <<cachePos, cacheLba, count, got, shown>>
  BY DEF OpenEntry, FatInv, FatTypeOK, Handle, cacheVars
<1>2. CacheRight' /\ Fills'
  <2>1. failed => failed'
    BY DEF OpenEntry
  <2> QED
    BY <1>1, <2>1 DEF ReadInv, CacheRight, Fills, Point, Reading
<1>3. ASSUME Tracked'
      PROVE  OnChain(fd[cur], pc)' /\ BytesOfChain(fd[cur])'
  <2>1. free # {}
    BY <1>3, HandleNames DEF OpenEntry, Tracked
  <2> DEFINE new(ok) == [opened |-> ok, dir |-> entry.dir, pos |-> 0,
                         size |-> entry.size, first |-> entry.first,
                         cluster |-> entry.first, sector |-> 0, buf |-> Loaded(ok, lba)]
  <2>2. PICK ok \in ReadResults(lba, 1) :
          /\ fd' = [fd EXCEPT ![h] = new(ok)]
          /\ cur' = IF ok THEN h ELSE Null
          /\ failed' = (failed \/ ~ok)
    BY <2>1 DEF OpenEntry
  <2>3. ok \in BOOLEAN
    BY <2>2, FatAssumption DEF ReadResults
  <2>4. ok /\ cur' = h /\ h \in FileHandles
    BY <1>3, <2>2, <2>3, HandleNames DEF Tracked
  <2> DEFINE g == new(ok)
  <2>5. fd'[cur'] = g
    <3> HIDE DEF h, new
    <3> QED
      BY <1>1, <2>2, <2>4, HandleNames
  <2>6. /\ g.pos = 0 /\ g.first = entry.first /\ g.cluster = g.first /\ g.sector = 0
        /\ g.buf = PartitionOffset + ClusterToLba(g.first)
    BY <2>4 DEF Loaded
  <2>7. g.first \in Clusters
    BY <1>3, <2>5 DEF Tracked
  <2> HIDE DEF g
  <2>8. OnChain(g, "open")
    BY <2>6, <2>7, StartOnChain
  <2>9. BytesOfChain(fd[cur])'
    BY <1>1, <2>5, <2>6 DEF BytesOfChain, Point, Reading
  <2> QED
    BY <1>1, <2>5, <2>8, <2>9
<1> QED
  BY <1>2, <1>3 DEF ReadInv

LEMMA ShowGotRead == FatInv /\ ReadInv /\ ShowGot => ReadInv'
<1> SUFFICES ASSUME FatInv, ReadInv, ShowGot PROVE ReadInv'
  OBVIOUS
<1>1. /\ pc \in {"catGot", "lsGot"} /\ cur \in Handles /\ cmd \in {"cat", "ls"}
      /\ UNCHANGED <<cachePos, cacheLba, back, cmd, cur, count, got, failed>>
      /\ (pc = "catGot" => cmd = "cat") /\ (pc = "lsGot" => cmd = "ls")
      /\ pc' \in {"cli", cmd}
  BY DEF ShowGot, Show, CloseAndReturn, FatInv, FatTypeOK, Callers, DataTypes, Point, Reading,
         cacheVars, callVars
<1>2. CacheRight' /\ Fills'
  BY <1>1 DEF ReadInv, CacheRight, Fills, Point, Reading
<1>3. ASSUME Tracked'
      PROVE  OnChain(fd[cur], pc)' /\ BytesOfChain(fd[cur])'
  <2>1. pc' = cmd /\ fd' = fd /\ (pc = "catGot" => shown' = shown \o got)
    BY <1>3 DEF Tracked, ShowGot, Show, CloseAndReturn
  <2>2. Tracked
    BY <1>1, <1>3, <2>1 DEF Tracked
  <2> DEFINE f == fd[cur]
  <2>3. OnChain(f, pc) /\ BytesOfChain(f) /\ f.pos \in Nat
    BY <1>1, <2>2 DEF ReadInv, FatInv, FatTypeOK
  <2>4. OnChain(fd[cur], pc)'
    BY <1>1, <2>1, <2>3 DEF OnChain
  <2>5. CASE pc = "catGot"
    <3>1. /\ Len(got) <= f.pos /\ Len(shown) + Len(got) = f.pos
          /\ \A k \in 1 .. Len(shown) : shown[k] = PlaceOf(f.first, k - 1)
          /\ \A k \in 1 .. Len(got) : got[k] = PlaceOf(f.first, f.pos - Len(got) + k - 1)
      BY <2>3, <2>5 DEF BytesOfChain, Point, Reading
    <3>2. shown \in Seq(Place) /\ got \in Seq(Place)
      BY <1>1, <2>5 DEF FatInv, DataTypes
    <3>3. Len(shown) \in Nat /\ Len(got) \in Nat
      BY <3>2
    <3>4. Len(shown') = Len(shown) + Len(got)
      BY <2>1, <2>5, <3>2, Joined
    <3>5. ASSUME NEW k \in 1 .. Len(shown')
          PROVE  shown'[k] = PlaceOf(f.first, k - 1)
      <4>1. CASE k <= Len(shown)
        <5>1. k \in 1 .. Len(shown)
          BY <3>3, <4>1
        <5>2. shown'[k] = shown[k]
          BY <2>1, <2>5, <3>2, <5>1, JoinedElements
        <5> QED
          BY <3>1, <5>1, <5>2
      <4>2. CASE ~(k <= Len(shown))
        <5> DEFINE j == k - Len(shown)
        <5>1. j \in 1 .. Len(got) /\ k = Len(shown) + j
          BY <3>3, <3>4, <4>2
        <5> HIDE DEF j
        <5>2. shown'[Len(shown) + j] = got[j]
          BY <2>1, <2>5, <3>2, <5>1, JoinedElements
        <5>3. got[j] = PlaceOf(f.first, f.pos - Len(got) + j - 1)
          BY <3>1, <5>1
        <5>4. f.pos - Len(got) + j - 1 = k - 1
          BY <3>1, <3>3, <5>1
        <5> QED
          BY <5>1, <5>2, <5>3, <5>4
      <4> QED
        BY <4>1, <4>2
    <3>6. BytesOfChain(fd[cur])'
      BY <1>1, <2>1, <2>5, <3>1, <3>4, <3>5 DEF BytesOfChain, Point, Reading
    <3> QED
      BY <2>4, <3>6
  <2>6. CASE pc = "lsGot"
    BY <1>1, <2>1, <2>4, <2>6 DEF BytesOfChain, Point, Reading
  <2> QED
    BY <1>1, <2>5, <2>6
<1> QED
  BY <1>2, <1>3 DEF ReadInv

LEMMA InitReadInv == Init => ReadInv
<1> SUFFICES ASSUME Init PROVE ReadInv
  OBVIOUS
<1>1. CacheRight /\ Fills
  BY DEF Init, CacheRight, Fills, Point, Reading
<1>2. ~Tracked
  BY DEF Init, Tracked
<1> QED
  BY <1>1, <1>2 DEF ReadInv

LEMMA NextReadInv == FatInv /\ ReadInv /\ [Next]_vars => ReadInv'
<1> SUFFICES ASSUME FatInv, ReadInv, [Next]_vars PROVE ReadInv'
  OBVIOUS
<1>1. CASE FindFile \/ ReadFile \/ ReadDirectory
  BY <1>1, CallReadRead, ParameterTypes DEF FindFile, ReadFile, ReadDirectory
<1>2. CASE UNCHANGED vars
  BY <1>2 DEF ReadInv, CacheRight, Fills, Tracked, OnChain, BytesOfChain, Point, vars
<1> QED
  BY <1>1, <1>2, CommandRead, OpenLoopRead, ReadLoopRead, NextRootSectorRead,
     NextFileSectorRead, NextClusterRead, LoadSectorRead, MatchRead, OpenEntryRead,
     ShowGotRead DEF Next, DriverStep

LEMMA ReadInvHolds == Spec => []ReadInv
BY InitReadInv, NextReadInv, FatInvHolds, PTL DEF Spec

\* For every volume, however its files are scattered, every size of sector, cluster
\* and cache, and every sequence of commands before: cat shows what the chain of the
\* file it opened holds, byte for byte, and all of it.
THEOREM CatShowsTheFile == Spec => []CatShowsItsFile
<1>1. FatInv /\ ReadInv => CatShowsItsFile
  <2> SUFFICES ASSUME FatInv, ReadInv, SoundCache, ~failed, pc \in {"cat", "catGot"},
                      cur \in FileHandles, ~fd[cur].dir, fd[cur].first \in Clusters
               PROVE  /\ \A k \in 1 .. Len(shown) : shown[k] = PlaceOf(fd[cur].first, k - 1)
                      /\ pc = "catGot" /\ got = <<>> => Len(shown) = fd[cur].size
    BY DEF CatShowsItsFile
  <2>1. BytesOfChain(fd[cur])
    BY DEF ReadInv, Tracked
  <2>2. \A k \in 1 .. Len(shown) : shown[k] = PlaceOf(fd[cur].first, k - 1)
    BY <2>1 DEF BytesOfChain, Point, Reading
  <2>3. ASSUME pc = "catGot", got = <<>>
        PROVE  Len(shown) = fd[cur].size
    <3>1. Len(shown) + Len(got) = fd[cur].pos /\ Len(got) = 0
      BY <2>1, <2>3 DEF BytesOfChain, Point, Reading
    <3>2. fd[cur].pos = fd[cur].size
      BY <2>3, HandleNames DEF ReadInv, Fills, Bounded, Point, Reading
    <3>3. shown \in Seq(Place)
      BY <2>3 DEF FatInv, DataTypes, Callers, Point, Reading
    <3>4. Len(shown) \in Nat
      BY <3>3
    <3> QED
      BY <3>1, <3>2, <3>4
  <2> QED
    BY <2>2, <2>3
<1> QED
  BY <1>1, FatInvHolds, ReadInvHolds, PTL

-----------------------------------------------------------------------------
(***************************************************************************)
(* What is found.  The root directory, whose handle no command closes, is  *)
(* at its start whenever it is not being read; a directory that is read is *)
(* read entry by entry; and the entry a path has led to so far is the one  *)
(* the handle in use was opened from.                                      *)
(***************************************************************************)
RootEntries == EntriesOf(RootEntry)
PerSector == SECTOR_SIZE \div ENTRY_SIZE

\* The volume has a root directory, which is on the disk.
RootOnDisk ==
  /\ DirEntryCount # 0
  /\ PartitionOffset + RootDirLba + RootDirSize \div SECTOR_SIZE <= DiskSectors

\* What is looked up or listed in the root directory is in its first sector, or not
\* there at all, so that the sector stays in the buffer (the findings of README.md).
FirstSectorDoes ==
  /\ (LS_LIMIT + 1) * ENTRY_SIZE < SECTOR_SIZE
  /\ \A p \in Paths :
       /\ p # <<>>
       /\ LET named == {k \in DOMAIN RootEntries : RootEntries[k].name = p[1]}
          IN named = {} \/ \E k \in named : k < PerSector

\* The names of the path that have been looked up, and the entry they lead to.
Depth == Len(arg) - Len(path)
At == Along(arg)[Depth]

PathParts ==
  /\ arg \in Paths \cup {<<>>} /\ (cmd = "ls" => arg = <<>>)
  /\ path \in Seq(STRING) /\ Len(path) <= Len(arg)
  /\ \A k \in 1 .. Len(path) : path[k] = arg[Depth + k]

PathInv ==
  /\ PathParts
  /\ cmd = "cat" /\ pc # "cli" => arg # <<>>
  /\ Point \in {"find", "match"} => path # <<>>
  /\ Point \in {"cat", "catGot", "ls", "lsGot"} /\ cur # Null => path = <<>>
  /\ pc \notin {"cli", "openEntry"} /\ cur # Null => (cur = ROOT <=> Depth = 0)
  /\ pc = "openEntry" => Depth # 0
  /\ pc \in {"fat", "load"} => cur # ROOT
  /\ pc = "wild" => cur = Null

\* The handle of the root directory between uses, and the driver at p using it.
RootIdle(f) ==
  f.pos = 0 /\ f.cluster = RootDirLba /\ f.buf = PartitionOffset + RootDirLba
OnRoot(f, p) ==
  LET n == f.pos \div SECTOR_SIZE
  IN /\ p # "refill" /\ f.pos < f.size =>
          f.cluster = RootDirLba + n /\ f.buf = PartitionOffset + RootDirLba + n
     /\ p = "refill" =>
          f.pos % SECTOR_SIZE = 0 /\ n # 0 /\ f.cluster = RootDirLba + n - 1

RootInUse == cur = ROOT /\ Point \in {"find", "match", "ls", "lsGot"}

RootFields(f) == f.first = RootDirLba /\ f.size = RootDirSize /\ f.dir

RootInv ==
  /\ RootFields(fd[ROOT])
  /\ ~failed /\ cur # Null =>
       IF RootInUse THEN OnRoot(fd[ROOT], pc) ELSE RootIdle(fd[ROOT])

\* Reading the directory at, the driver has done with its first i entries.
EntriesDone(at, i) ==
  /\ Point \in {"find", "ls"} => fd[cur].pos = ENTRY_SIZE * i
  /\ Point \in {"match", "lsGot"} =>
       /\ fd[cur].pos = ENTRY_SIZE * i + Len(got)
       /\ got = <<>> =>
            IF pc = "read" /\ count # 0
            THEN count = ENTRY_SIZE /\ i < Len(EntriesOf(at)) ELSE i = Len(EntriesOf(at))
       /\ got # <<>> => /\ Len(got) = ENTRY_SIZE /\ count = 0 /\ i < Len(EntriesOf(at))
                        /\ EntryRead = EntriesOf(at)[i + 1]

Searched(at) ==
  Point \in {"find", "match"} =>
    \E i \in 0 .. Len(EntriesOf(at)) :
      EntriesDone(at, i) /\ \A j \in 1 .. i : EntriesOf(at)[j].name # Head(path)

Listed ==
  Point \in {"ls", "lsGot"} =>
    \E i \in 0 .. LS_LIMIT :
      EntriesDone(RootEntry, i) /\ i <= Len(RootEntries) /\ shown = SubSeq(RootEntries, 1, i)

RootReadInv ==
  /\ RootInv /\ LsListsRoot
  /\ ~failed /\ cur = ROOT => Searched(RootEntry) /\ Listed

-----------------------------------------------------------------------------
\* A file's chain is as long as the file; a directory's has an end.
Undamaged(e) ==
  IF e.dir
  THEN /\ e.first \in Clusters /\ e.size = 0
       /\ \E k \in 1 .. Cardinality(Clusters) :
            /\ ChainFrom(e.first)[k] = EOC
            /\ \A j \in 0 .. k - 1 : ChainFrom(e.first)[j] # EOC
  ELSE e.size = 0 \/ /\ e.first \in Clusters
                     /\ \A k \in 0 .. e.size :
                          k * SectorsPerCluster * SECTOR_SIZE < e.size =>
                            ChainFrom(e.first)[k] \in Clusters

PathsUndamaged ==
  \A p \in Paths : \A k \in 1 .. Len(p) : Along(p)[k] = NoEntry \/ Undamaged(Along(p)[k])

\* The handle f was opened from the entry e.
Opened(f, e) ==
  /\ f.dir = e.dir /\ f.first = e.first
  /\ IF e.dir THEN f.size = 0 \/ (f.cluster = EOC /\ f.size = ENTRY_SIZE * Len(EntriesOf(e)))
     ELSE f.size = e.size

\* The path of cat leads to an entry, and so far the driver has followed it.
Leads == ~failed /\ cmd = "cat" /\ Resolve(arg) # NoEntry
Found ==
  Leads /\ pc # "cli" =>
    /\ cur # Null
    /\ pc = "openEntry" => entry = At
    /\ pc # "openEntry" /\ Depth # 0 => Opened(fd[cur], At) /\ Searched(At)

FindInv == FatInv /\ PathInv /\ ReadInv /\ RootReadInv /\ Found

\* The volume is sound, and so is the driver on it.
SoundVolume == RootOnDisk /\ FirstSectorDoes /\ PathsUndamaged /\ SoundCache

-----------------------------------------------------------------------------
\* Entries fill sectors, and sectors the root directory.
LEMMA EntrySizes ==
  /\ PerSector \in Nat \ {0} /\ SECTOR_SIZE = ENTRY_SIZE * PerSector
  /\ RootDirSize \div SECTOR_SIZE \in Nat
  /\ RootDirSize = SECTOR_SIZE * (RootDirSize \div SECTOR_SIZE)
  /\ (RootDirSize \div SECTOR_SIZE) * PerSector = DirEntryCount
  /\ RootDirSize = ENTRY_SIZE * DirEntryCount
<1> DEFINE q == RootDirSize \div SECTOR_SIZE
<1>1. SECTOR_SIZE = ENTRY_SIZE * PerSector /\ PerSector \in Nat
  <2>1. SECTOR_SIZE = ENTRY_SIZE * (SECTOR_SIZE \div ENTRY_SIZE) + (SECTOR_SIZE % ENTRY_SIZE)
        /\ SECTOR_SIZE \div ENTRY_SIZE \in Nat
    BY DividedBy, ParameterTypes
  <2> QED
    BY <2>1, LayoutAssumption, ParameterTypes DEF PerSector
<1>2. PerSector # 0
  BY <1>1, ParameterTypes
<1>3. q \in Nat /\ RootDirSize = SECTOR_SIZE * q
  <2>1. RootDirSize = SECTOR_SIZE * q + (RootDirSize % SECTOR_SIZE) /\ q \in Nat
    BY DividedBy, ParameterTypes, LayoutTypes
  <2> HIDE DEF q
  <2>2. RootDirSize % SECTOR_SIZE = 0
    BY LayoutAssumption DEF RootDirSize
  <2> QED
    BY <2>1, <2>2, ParameterTypes
<1> HIDE DEF q
<1>4. DirEntryCount \in Nat
  BY LayoutAssumption
<1>5. ENTRY_SIZE * DirEntryCount = ENTRY_SIZE * (q * PerSector)
  <2>1. \A a, b, c \in Nat : (a * b) * c = a * (c * b)
    BY SMT
  <2> QED
    BY <1>1, <1>3, <2>1, ParameterTypes DEF RootDirSize
<1>6. DirEntryCount = q * PerSector
  <2>1. \A a \in Nat \ {0} : \A b, c \in Nat : a * b = a * c => b = c
    BY SMT
  <2>2. q * PerSector \in Nat
    BY <1>1, <1>3
  <2> QED
    BY <1>4, <1>5, <2>1, <2>2, ParameterTypes
<1> QED
  BY <1>1, <1>2, <1>3, <1>6 DEF q, RootDirSize

\* Where the entry k of a directory is, from 0: its sector and its offset there.
LEMMA EntryPosition ==
  ASSUME NEW k \in Nat
  PROVE  /\ ENTRY_SIZE * k \in Nat
         /\ k \div PerSector \in Nat /\ k % PerSector \in Nat /\ k % PerSector < PerSector
         /\ (ENTRY_SIZE * k) \div SECTOR_SIZE = k \div PerSector
         /\ (ENTRY_SIZE * k) % SECTOR_SIZE = ENTRY_SIZE * (k % PerSector)
         /\ ENTRY_SIZE * (k % PerSector) + ENTRY_SIZE <= SECTOR_SIZE
<1> DEFINE q == k \div PerSector
           r == k % PerSector
<1>1. k = PerSector * q + r /\ q \in Nat /\ r \in Nat /\ r < PerSector
  BY DividedBy, EntrySizes
<1> HIDE DEF q, r
<1>2. ENTRY_SIZE * k = SECTOR_SIZE * q + ENTRY_SIZE * r
  <2>1. \A a, b, c, d \in Nat : a * (b * c + d) = (a * b) * c + a * d
    BY SMT
  <2> QED
    BY <1>1, <2>1, EntrySizes, ParameterTypes
<1>3. ENTRY_SIZE * r + ENTRY_SIZE <= SECTOR_SIZE /\ ENTRY_SIZE * r \in Nat
  <2>1. \A a, b, c \in Nat : b < c => a * b + a <= a * c
    BY SMT
  <2> QED
    BY <1>1, <2>1, EntrySizes, ParameterTypes
<1>4. ENTRY_SIZE * r < SECTOR_SIZE
  BY <1>3, ParameterTypes
<1>5. (SECTOR_SIZE * q + ENTRY_SIZE * r) \div SECTOR_SIZE = q
      /\ (SECTOR_SIZE * q + ENTRY_SIZE * r) % SECTOR_SIZE = ENTRY_SIZE * r
  BY <1>1, <1>3, <1>4, PartsOfPlace, ParameterTypes
<1>6. ENTRY_SIZE * k \in Nat
  BY ParameterTypes
<1> QED
  BY <1>1, <1>2, <1>3, <1>5, <1>6 DEF q, r

\* Positions of entries are ordered like the entries.
LEMMA EntryOrder ==
  ASSUME NEW i \in Nat, NEW j \in Nat
  PROVE  /\ ENTRY_SIZE * (i + 1) = ENTRY_SIZE * i + ENTRY_SIZE
         /\ i < j <=> ENTRY_SIZE * i < ENTRY_SIZE * j
         /\ i < j => ENTRY_SIZE * i + ENTRY_SIZE <= ENTRY_SIZE * j
         /\ i = j <=> ENTRY_SIZE * i = ENTRY_SIZE * j
<1>1. \A a \in Nat \ {0} : \A b, c \in Nat :
        /\ a * (b + 1) = a * b + a
        /\ b < c => a * b + a <= a * c
        /\ a * b \in Nat
  BY SMT
<1>2. /\ ENTRY_SIZE * (i + 1) = ENTRY_SIZE * i + ENTRY_SIZE
      /\ i < j => ENTRY_SIZE * i + ENTRY_SIZE <= ENTRY_SIZE * j
      /\ j < i => ENTRY_SIZE * j + ENTRY_SIZE <= ENTRY_SIZE * i
      /\ ENTRY_SIZE * i \in Nat /\ ENTRY_SIZE * j \in Nat
  BY <1>1, ParameterTypes
<1> QED
  BY <1>2, ParameterTypes

\* The next entry is in the same sector, unless it begins one.
LEMMA NextEntrySector ==
  ASSUME NEW i \in Nat
  PROVE  /\ (ENTRY_SIZE * i) \div SECTOR_SIZE \in Nat
         /\ IF (ENTRY_SIZE * (i + 1)) % SECTOR_SIZE = 0
            THEN (ENTRY_SIZE * (i + 1)) \div SECTOR_SIZE = (ENTRY_SIZE * i) \div SECTOR_SIZE + 1
            ELSE (ENTRY_SIZE * (i + 1)) \div SECTOR_SIZE = (ENTRY_SIZE * i) \div SECTOR_SIZE
<1> DEFINE q == (ENTRY_SIZE * i) \div SECTOR_SIZE
           in == ENTRY_SIZE * (i % PerSector)
<1>1. /\ ENTRY_SIZE * i \in Nat /\ in + ENTRY_SIZE <= SECTOR_SIZE /\ i % PerSector \in Nat
      /\ (ENTRY_SIZE * i) % SECTOR_SIZE = in
  BY EntryPosition
<1>2. ENTRY_SIZE * i = SECTOR_SIZE * q + in /\ q \in Nat /\ in \in Nat
  BY <1>1, DividedBy, ParameterTypes
<1> HIDE DEF q, in
<1>3. ENTRY_SIZE * (i + 1) = SECTOR_SIZE * q + (in + ENTRY_SIZE) /\ SECTOR_SIZE * q \in Nat
  <2>1. ENTRY_SIZE * (i + 1) = ENTRY_SIZE * i + ENTRY_SIZE
    BY EntryOrder
  <2>2. SECTOR_SIZE * q \in Nat
    BY <1>2, ParameterTypes
  <2> QED
    BY <1>2, <2>1, <2>2, ParameterTypes
<1>4. CASE in + ENTRY_SIZE = SECTOR_SIZE
  <2>1. SECTOR_SIZE * q + SECTOR_SIZE = SECTOR_SIZE * (q + 1) /\ q + 1 \in Nat
    BY <1>2, ParameterTypes
  <2>2. (SECTOR_SIZE * (q + 1)) % SECTOR_SIZE = 0 /\ (SECTOR_SIZE * (q + 1)) \div SECTOR_SIZE = q + 1
    BY <2>1, QuotientOfMultiple, ParameterTypes
  <2> QED
    BY <1>2, <1>3, <1>4, <2>1, <2>2 DEF q
<1>5. CASE in + ENTRY_SIZE # SECTOR_SIZE
  <2>1. in + ENTRY_SIZE \in Nat \ {0} /\ in + ENTRY_SIZE < SECTOR_SIZE
    BY <1>1, <1>2, <1>5, ParameterTypes
  <2>2. /\ (SECTOR_SIZE * q + (in + ENTRY_SIZE)) % SECTOR_SIZE = in + ENTRY_SIZE
        /\ (SECTOR_SIZE * q + (in + ENTRY_SIZE)) \div SECTOR_SIZE = q
    BY <1>2, <2>1, PartsOfPlace, ParameterTypes
  <2> QED
    BY <1>2, <1>3, <2>1, <2>2 DEF q
<1> QED
  BY <1>4, <1>5

\* A sequence of entries laid out in sectors.
LEMMA EntriesLaidOut ==
  ASSUME NEW n \in Nat, NEW lbas, lbas = [k \in 1 .. n |-> lbas[k]]
  PROVE  /\ n * PerSector \in Nat /\ Len(EntriesIn(lbas)) = n * PerSector
         /\ DOMAIN EntriesIn(lbas) = 1 .. n * PerSector
         /\ \A k \in Nat : k < n * PerSector =>
              /\ k \div PerSector < n
              /\ EntriesIn(lbas)[k + 1] = EntryAt(lbas[k \div PerSector + 1],
                                                 (ENTRY_SIZE * k) % SECTOR_SIZE)
<1> DEFINE size == n * PerSector
           Item(e) == EntryAt(lbas[(e - 1) \div PerSector + 1], ((e - 1) % PerSector) * ENTRY_SIZE)
<1>1. Len(lbas) = n
  OBVIOUS
<1>2. size \in Nat
  BY EntrySizes
<1>3. EntriesIn(lbas) = [e \in 1 .. size |-> Item(e)]
  BY <1>1 DEF EntriesIn, PerSector
<1> HIDE DEF size, Item
<1>4. Len(EntriesIn(lbas)) = size /\ DOMAIN EntriesIn(lbas) = 1 .. size
  BY <1>2, <1>3
<1>5. ASSUME NEW k \in Nat, k < size
      PROVE  /\ k \div PerSector < n
             /\ EntriesIn(lbas)[k + 1] = EntryAt(lbas[k \div PerSector + 1],
                                                (ENTRY_SIZE * k) % SECTOR_SIZE)
  <2>1. k + 1 \in 1 .. size /\ (k + 1) - 1 = k
    BY <1>2, <1>5
  <2>2. EntriesIn(lbas)[k + 1] = Item(k + 1)
    BY <1>3, <2>1
  <2>3. k % PerSector \in Nat /\ (ENTRY_SIZE * k) % SECTOR_SIZE = (k % PerSector) * ENTRY_SIZE
    <3>1. \A a, b \in Nat : a * b = b * a
      BY SMT
    <3> QED
      BY <3>1, EntryPosition, ParameterTypes
  <2>4. k \div PerSector < n
    <3> DEFINE q == k \div PerSector
    <3>1. k = PerSector * q + (k % PerSector) /\ q \in Nat /\ k % PerSector \in Nat
      BY DividedBy, EntrySizes
    <3> HIDE DEF q
    <3>2. \A a, b, c \in Nat : b <= c => a * c >= b * a
      BY SMT
    <3>3. n <= q => PerSector * q >= n * PerSector
      BY <3>1, <3>2, EntrySizes
    <3>4. PerSector * q \in Nat
      BY <3>1, EntrySizes
    <3>5. q < n
      BY <1>2, <1>5, <3>1, <3>3, <3>4 DEF size
    <3> QED
      BY <3>5 DEF q
  <2> QED
    BY <2>1, <2>2, <2>3, <2>4 DEF Item
<1> QED
  BY <1>2, <1>4, <1>5 DEF size

\* The entries of the root directory, and where they are.
LEMMA RootEntriesAre ==
  /\ Len(RootEntries) = DirEntryCount /\ DirEntryCount \in Nat
  /\ DOMAIN RootEntries = 1 .. DirEntryCount
  /\ \A k \in Nat : k < DirEntryCount =>
       /\ k \div PerSector < RootDirSize \div SECTOR_SIZE
       /\ RootEntries[k + 1] =
            EntryAt(PartitionOffset + RootDirLba + (ENTRY_SIZE * k) \div SECTOR_SIZE,
                    (ENTRY_SIZE * k) % SECTOR_SIZE)
<1> DEFINE n == RootDirSize \div SECTOR_SIZE
<1>1. RootEntries = EntriesIn(RootLbas)
  BY DEF RootEntries, EntriesOf
<1>2. RootLbas = [k \in 1 .. n |-> PartitionOffset + RootDirLba + k - 1]
  BY DEF RootLbas
<1>3. n \in Nat /\ n * PerSector = DirEntryCount
  BY EntrySizes
<1> HIDE DEF n
<1>4. RootLbas = [k \in 1 .. n |-> RootLbas[k]]
  BY <1>2
<1>5. /\ Len(RootEntries) = DirEntryCount /\ DOMAIN RootEntries = 1 .. DirEntryCount
      /\ \A k \in Nat : k < DirEntryCount =>
           /\ k \div PerSector < n
           /\ RootEntries[k + 1] = EntryAt(RootLbas[k \div PerSector + 1], (ENTRY_SIZE * k) % SECTOR_SIZE)
  BY <1>1, <1>3, <1>4, EntriesLaidOut
<1>6. ASSUME NEW k \in Nat, k < DirEntryCount
      PROVE  RootLbas[k \div PerSector + 1]
               = PartitionOffset + RootDirLba + (ENTRY_SIZE * k) \div SECTOR_SIZE
  <2> DEFINE q == k \div PerSector
  <2>1. q \in Nat /\ q < n /\ (ENTRY_SIZE * k) \div SECTOR_SIZE = q
    BY <1>5, <1>6, EntryPosition
  <2> HIDE DEF q
  <2>2. RootLbas[q + 1] = PartitionOffset + RootDirLba + (q + 1) - 1
    BY <1>2, <1>3, <2>1
  <2> QED
    BY <2>1, <2>2, ParameterTypes, LayoutTypes DEF q
<1>7. DirEntryCount \in Nat
  BY LayoutAssumption
<1> QED
  BY <1>5, <1>6, <1>7 DEF n

\* A chain that has ended stays at its end.
LEMMA ChainEnded ==
  ASSUME NEW first \in Clusters, NEW len \in Nat, ChainFrom(first)[len] = EOC,
         NEW k \in Nat, len <= k
  PROVE  ChainFrom(first)[k] = EOC
<1> DEFINE c == ChainFrom(first)
           S == {j \in Nat : c[len + j] = EOC}
<1>1. 0 \in S
  <2>1. len + 0 = len
    OBVIOUS
  <2> QED
    BY <2>1
<1>2. ASSUME NEW j \in Nat, j \in S PROVE j + 1 \in S
  <2>1. len + j \in Nat /\ len + (j + 1) = (len + j) + 1 /\ c[len + j] = EOC
    BY <1>2
  <2>2. c[(len + j) + 1] = EOC
    BY <2>1, ChainSteps
  <2> QED
    BY <2>1, <2>2
<1> HIDE DEF S
<1>3. Nat \subseteq S
  BY <1>1, <1>2, Induct
<1>4. k - len \in S /\ len + (k - len) = k
  BY <1>3
<1> QED
  BY <1>4 DEF S

\* The entries of an undamaged directory are those of its chain, up to its end.
LEMMA DirEntriesAre ==
  ASSUME NEW at, at.dir, Undamaged(at)
  PROVE  /\ at # RootEntry /\ at.first \in Clusters
         /\ Len(EntriesOf(at)) \in Nat /\ DOMAIN EntriesOf(at) = 1 .. Len(EntriesOf(at))
         /\ \E len \in Nat :
              /\ ChainFrom(at.first)[len] = EOC
              /\ \A j \in 0 .. len - 1 : ChainFrom(at.first)[j] # EOC
              /\ ENTRY_SIZE * Len(EntriesOf(at)) = SECTOR_SIZE * (len * SectorsPerCluster)
         /\ \A k \in Nat : k < Len(EntriesOf(at)) =>
              EntriesOf(at)[k + 1] = EntryAt(PlaceOf(at.first, ENTRY_SIZE * k)[1],
                                             PlaceOf(at.first, ENTRY_SIZE * k)[2])
<1> DEFINE Ends(k) == /\ ChainFrom(at.first)[k] = EOC
                      /\ \A j \in 0 .. k - 1 : ChainFrom(at.first)[j] # EOC
           len == CHOOSE k \in 1 .. Cardinality(Clusters) : Ends(k)
           n == len * SectorsPerCluster
           lbas == DirLbas(at)
           E == EntriesOf(at)
<1>1. at.first \in Clusters /\ \E k \in 1 .. Cardinality(Clusters) : Ends(k)
  BY DEF Undamaged
<1>2. at # RootEntry
  BY <1>1, TableAssumption DEF RootEntry
<1>3. len \in 1 .. Cardinality(Clusters) /\ Ends(len)
  <2> HIDE DEF Ends
  <2> QED
    BY <1>1
<1>4. lbas = [s \in 1 .. n |-> PlaceOf(at.first, (s - 1) * SECTOR_SIZE)[1]]
  BY DEF DirLbas
<1>5. len \in Nat
  BY <1>3
<1> HIDE DEF len, lbas
<1>6. n \in Nat
  BY <1>5, LayoutAssumption
<1> HIDE DEF n
<1>7. lbas = [s \in 1 .. n |-> lbas[s]]
  BY <1>4
<1>8. E = EntriesIn(lbas)
  BY <1>2 DEF EntriesOf, lbas
<1>9. /\ n * PerSector \in Nat /\ Len(E) = n * PerSector /\ DOMAIN E = 1 .. n * PerSector
      /\ \A k \in Nat : k < n * PerSector =>
           /\ k \div PerSector < n
           /\ E[k + 1] = EntryAt(lbas[k \div PerSector + 1], (ENTRY_SIZE * k) % SECTOR_SIZE)
  BY <1>6, <1>7, <1>8, EntriesLaidOut
<1>10. ENTRY_SIZE * Len(E) = SECTOR_SIZE * n
  <2>1. \A a, b, c \in Nat : a * (b * c) = (a * c) * b
    BY SMT
  <2> HIDE DEF E
  <2> QED
    BY <1>6, <1>9, <2>1, EntrySizes, ParameterTypes
<1>11. ASSUME NEW k \in Nat, k < Len(E)
       PROVE  E[k + 1] = EntryAt(PlaceOf(at.first, ENTRY_SIZE * k)[1],
                                 PlaceOf(at.first, ENTRY_SIZE * k)[2])
  <2> DEFINE q == k \div PerSector
             r == (ENTRY_SIZE * k) % SECTOR_SIZE
  <2>1. q \in Nat /\ q < n /\ E[k + 1] = EntryAt(lbas[q + 1], r)
        /\ (ENTRY_SIZE * k) \div SECTOR_SIZE = q /\ ENTRY_SIZE * k \in Nat
    BY <1>9, <1>11, EntryPosition
  <2>2. ENTRY_SIZE * k = SECTOR_SIZE * q + r /\ r \in Nat /\ r < SECTOR_SIZE
    BY <2>1, DividedBy, ParameterTypes
  <2> HIDE DEF q, r, E
  <2>3. PlaceOf(at.first, ENTRY_SIZE * k) = <<ChainSector(at.first, q), r>>
    BY <2>1, <2>2, PlaceOfByte
  <2>4. lbas[q + 1] = PlaceOf(at.first, q * SECTOR_SIZE)[1]
    <3>1. q + 1 \in 1 .. n /\ (q + 1) - 1 = q
      BY <1>6, <2>1
    <3> QED
      BY <1>4, <3>1
  <2>5. PlaceOf(at.first, q * SECTOR_SIZE) = <<ChainSector(at.first, q), 0>>
    <3>1. q * SECTOR_SIZE = SECTOR_SIZE * q + 0 /\ 0 < SECTOR_SIZE
      BY <2>1, ParameterTypes
    <3> QED
      BY <2>1, <3>1, PlaceOfByte
  <2> QED
    BY <2>1, <2>3, <2>4, <2>5
<1> QED
  BY <1>1, <1>2, <1>3, <1>5, <1>9, <1>10, <1>11 DEF n

-----------------------------------------------------------------------------
\* What may be found on the volume.
VolumeEntries ==
  {NoEntry, RootEntry}
    \cup UNION {{DirSectors[lba][slot] : slot \in DOMAIN DirSectors[lba]} : lba \in DOMAIN DirSectors}

LEMMA VolumeFields == \A e \in VolumeEntries : Fields(e)
<1> SUFFICES ASSUME NEW e \in VolumeEntries PROVE Fields(e)
  OBVIOUS
<1>1. Fields(NoEntry) /\ Fields(RootEntry)
  BY DEF Fields, NoEntry, RootEntry
<1>2. CASE e # NoEntry /\ e # RootEntry
  <2>1. PICK lba \in DOMAIN DirSectors : e \in {DirSectors[lba][slot] : slot \in DOMAIN DirSectors[lba]}
    BY <1>2 DEF VolumeEntries
  <2>2. PICK slot \in DOMAIN DirSectors[lba] : e = DirSectors[lba][slot]
    BY <2>1
  <2> QED
    BY <2>2, EntryAssumption DEF Fields
<1> QED
  BY <1>1, <1>2

LEMMA EnterTyped ==
  ASSUME NEW at, NEW name
  PROVE  Enter(at, name) \in VolumeEntries
<1> DEFINE E == EntriesOf(at)
           named == {k \in DOMAIN E : E[k].name = name}
           k == CHOOSE x \in named : \A j \in named : x <= j
<1>1. PICK lbas : E = EntriesIn(lbas)
  BY DEF EntriesOf
<1> DEFINE size == Len(lbas) * PerSector
<1>2. E = [e \in 1 .. size |->
             EntryAt(lbas[(e - 1) \div PerSector + 1], ((e - 1) % PerSector) * ENTRY_SIZE)]
  BY <1>1 DEF EntriesIn, PerSector
<1> HIDE DEF E, size
<1>3. \A x \in DOMAIN E : E[x] \in VolumeEntries
  <2>1. \A lba, offset : EntryAt(lba, offset) \in VolumeEntries
    BY DEF EntryAt, VolumeEntries
  <2> QED
    BY <1>2, <2>1
<1>4. named # {} => k \in named
  <2>1. named \subseteq Nat
    BY <1>2
  <2> HIDE DEF named
  <2>2. named # {} => \E x \in named : \A j \in named : x <= j
    BY <2>1, Least
  <2> QED
    BY <2>2
<1>5. named # {} => E[k] \in VolumeEntries
  BY <1>3, <1>4
<1>6. Enter(at, name) \in {NoEntry} \/ (named # {} /\ Enter(at, name) = E[k])
  BY DEF Enter, E
<1> QED
  BY <1>5, <1>6 DEF VolumeEntries

\* Where a path leads, name by name.
LEMMA AlongSteps ==
  ASSUME NEW p \in Seq(STRING)
  PROVE  /\ Along(p)[0] = RootEntry
         /\ \A k \in 1 .. Len(p) : Along(p)[k] = Enter(Along(p)[k - 1], p[k])
         /\ \A k \in 0 .. Len(p) : Along(p)[k] \in VolumeEntries
<1> DEFINE Path(at) == [k \in 0 .. Len(p) |-> IF k = 0 THEN RootEntry ELSE Enter(at[k - 1], p[k])]
           step == [a \in Nat \X VolumeEntries |->
                      IF a[1] + 1 \in 1 .. Len(p) THEN Enter(a[2], p[a[1] + 1]) ELSE a[2]]
<1>1. PICK g : Iterates(g, VolumeEntries, step, RootEntry)
  <2>1. step \in Steps(VolumeEntries)
    BY EnterTyped DEF Steps
  <2>2. RootEntry \in VolumeEntries
    BY DEF VolumeEntries
  <2> HIDE DEF step
  <2> QED
    BY <2>1, <2>2, Iterated
<1>2. Len(p) \in Nat
  OBVIOUS
<1>3. g \in [Nat -> VolumeEntries] /\ g[0] = RootEntry
  BY <1>1 DEF Iterates
<1>4. \A k \in 1 .. Len(p) : g[k] = Enter(g[k - 1], p[k])
  <2> SUFFICES ASSUME NEW k \in 1 .. Len(p) PROVE g[k] = Enter(g[k - 1], p[k])
    OBVIOUS
  <2>1. k - 1 \in Nat /\ (k - 1) + 1 = k
    BY <1>2
  <2>2. g[(k - 1) + 1] = step[<<k - 1, g[k - 1]>>]
    BY <1>1, <2>1 DEF Iterates
  <2>3. step[<<k - 1, g[k - 1]>>] = Enter(g[k - 1], p[k])
    BY <1>3, <2>1
  <2> QED
    BY <2>1, <2>2, <2>3
<1> DEFINE f == [k \in 0 .. Len(p) |-> g[k]]
<1>5. f = Path(f)
  <2>1. \A k \in 0 .. Len(p) : g[k] = IF k = 0 THEN RootEntry ELSE Enter(f[k - 1], p[k])
    <3> SUFFICES ASSUME NEW k \in 0 .. Len(p), k # 0 PROVE g[k] = Enter(f[k - 1], p[k])
      BY <1>3
    <3>1. k \in 1 .. Len(p) /\ f[k - 1] = g[k - 1]
      BY <1>2
    <3> QED
      BY <1>4, <3>1
  <2> QED
    BY <2>1
<1>6. Along(p) = CHOOSE at : at = Path(at)
  BY DEF Along
<1>7. Along(p) = Path(Along(p))
  <2> HIDE DEF Path, f
  <2>1. \E at : at = Path(at)
    BY <1>5, Zenon
  <2>2. (CHOOSE at : at = Path(at)) = Path(CHOOSE at : at = Path(at))
    BY <2>1, Zenon
  <2> QED
    BY <1>6, <2>2, Zenon
<1> DEFINE h == Along(p)
<1> HIDE DEF h
<1>8. h = Path(h)
  BY <1>7 DEF h
<1>9. h[0] = RootEntry /\ \A k \in 1 .. Len(p) : h[k] = Enter(h[k - 1], p[k])
  BY <1>2, <1>8
<1>10. \A k \in 0 .. Len(p) : h[k] \in VolumeEntries
  <2> SUFFICES ASSUME NEW k \in 0 .. Len(p) PROVE h[k] \in VolumeEntries
    OBVIOUS
  <2>1. CASE k = 0
    BY <1>9, <2>1 DEF VolumeEntries
  <2>2. CASE k # 0
    BY <1>2, <1>9, <2>2, EnterTyped
  <2> QED
    BY <2>1, <2>2
<1> QED
  BY <1>9, <1>10 DEF h

\* The first of the entries with the name is the one entered.
LEMMA EnterFirst ==
  ASSUME NEW at, NEW name, at # NoEntry, at.dir, NEW size \in Nat,
         DOMAIN EntriesOf(at) = 1 .. size,
         NEW i \in 0 .. size, \A j \in 1 .. i : EntriesOf(at)[j].name # name
  PROVE  /\ i < size /\ EntriesOf(at)[i + 1].name = name => Enter(at, name) = EntriesOf(at)[i + 1]
         /\ i = size => Enter(at, name) = NoEntry
<1> DEFINE E == EntriesOf(at)
           named == {k \in DOMAIN E : E[k].name = name}
           k == CHOOSE x \in named : \A j \in named : x <= j
<1>1. Enter(at, name) = IF named = {} THEN NoEntry ELSE E[k]
  BY DEF Enter
<1> HIDE DEF E
<1>2. ASSUME i < size, E[i + 1].name = name
      PROVE  Enter(at, name) = E[i + 1]
  <2>1. i + 1 \in named
    BY <1>2 DEF E
  <2>2. \A j \in named : i + 1 <= j
    BY DEF E
  <2>3. k = i + 1
    <3>1. named \subseteq Nat
      BY DEF E
    <3> HIDE DEF named
    <3>2. k \in named /\ \A j \in named : k <= j
      BY <2>1, <2>2
    <3> HIDE DEF k
    <3>3. k \in Nat /\ i + 1 \in Nat /\ k <= i + 1 /\ i + 1 <= k
      BY <2>1, <2>2, <3>1, <3>2
    <3> QED
      BY <3>3
  <2> HIDE DEF k
  <2> QED
    BY <1>1, <2>1, <2>3
<1>3. i = size => named = {}
  BY DEF E
<1> QED
  BY <1>1, <1>2, <1>3 DEF E

-----------------------------------------------------------------------------
LEMMA TailOf ==
  ASSUME NEW S, NEW s \in Seq(S), s # <<>>
  PROVE  /\ Tail(s) \in Seq(S) /\ Len(Tail(s)) = Len(s) - 1 /\ Len(s) \in Nat \ {0}
         /\ Head(s) = s[1] /\ \A k \in 1 .. Len(s) - 1 : Tail(s)[k] = s[k + 1]
OBVIOUS

LEMMA PathLengths ==
  ASSUME PathParts
  PROVE  /\ arg \in Seq(STRING) /\ Len(arg) \in Nat /\ Len(path) \in Nat /\ Depth \in 0 .. Len(arg)
         /\ path = <<>> <=> Len(path) = 0
         /\ arg = <<>> <=> Len(arg) = 0
<1>1. arg \in Seq(STRING) /\ path \in Seq(STRING)
  BY FatAssumption DEF PathParts
<1> QED
  BY <1>1 DEF PathParts, Depth

LEMMA PathInitially == Init => PathInv
<1> SUFFICES ASSUME Init PROVE PathInv
  OBVIOUS
<1>1. PathParts
  BY DEF Init, PathParts
<1> QED
  BY <1>1 DEF Init, PathInv, Point, Reading

\* No handle is open when an entry is opened, so there is one for it.
LEMMA EntryOpened ==
  ASSUME FatInv, OpenEntry
  PROVE  \E h \in FileHandles : \E ok \in BOOLEAN :
           LET lba == PartitionOffset + ClusterToLba(entry.first)
           IN /\ fd' = [fd EXCEPT ![h] =
                          [opened |-> ok, dir |-> entry.dir, pos |-> 0,
                           size |-> entry.size, first |-> entry.first,
                           cluster |-> entry.first, sector |-> 0, buf |-> Loaded(ok, lba)]]
              /\ cur' = IF ok THEN h ELSE Null
              /\ failed' = (failed \/ ~ok)
<1> DEFINE free == {x \in FileHandles : ~fd[x].opened}
           h == CHOOSE x \in free : \A y \in free : x <= y
           lba == PartitionOffset + ClusterToLba(entry.first)
           new(ok) == [opened |-> ok, dir |-> entry.dir, pos |-> 0,
                       size |-> entry.size, first |-> entry.first,
                       cluster |-> entry.first, sector |-> 0, buf |-> Loaded(ok, lba)]
<1>1. pc = "openEntry" /\ \A x \in FileHandles : ~fd[x].opened
  BY DEF OpenEntry, FatInv, OneHandle
<1>2. free = FileHandles /\ 0 \in FileHandles /\ \A y \in FileHandles : 0 <= y
  BY <1>1, FatAssumption DEF FileHandles
<1>3. free # {} /\ h \in FileHandles
  BY <1>2
<1>4. PICK ok \in ReadResults(lba, 1) :
        /\ fd' = [fd EXCEPT ![h] = new(ok)]
        /\ cur' = IF ok THEN h ELSE Null
        /\ failed' = (failed \/ ~ok)
  BY <1>3 DEF OpenEntry
<1>5. ok \in BOOLEAN
  BY <1>4, FatAssumption DEF ReadResults
<1> HIDE DEF h
<1> QED
  BY <1>3, <1>4, <1>5

LEMMA PathKept ==
  ASSUME FatInv, PathInv, [Next]_vars, FirstSectorDoes
  PROVE  PathInv'
<1>0. /\ cmd \in {"cat", "ls"} /\ (pc \in Reading => back \in {"match", "catGot", "lsGot"})
      /\ (Point \in {"cat", "catGot"} => cmd = "cat") /\ (Point \in {"ls", "lsGot"} => cmd = "ls")
      /\ cur \in Handles \cup {Null}
  BY DEF FatInv, Callers, DataTypes, FatTypeOK
<1>1. CASE Command
  <2>1. /\ cmd' \in {"cat", "ls"} /\ path' = arg' /\ pc' = "open" /\ cur' = ROOT
        /\ cmd' = "ls" => arg' = <<>>
        /\ cmd' = "cat" => arg' \in Paths
    BY <1>1 DEF Command
  <2>2. arg' \in Paths \cup {<<>>} /\ arg' \in Seq(STRING) /\ (cmd' = "cat" => arg' # <<>>)
    <3>1. \A p \in Paths : p # <<>> /\ p \in Seq(STRING)
      BY FatAssumption DEF FirstSectorDoes
    <3>2. <<>> \in Seq(STRING)
      OBVIOUS
    <3> QED
      BY <2>1, <3>1, <3>2
  <2>3. Len(arg') \in Nat /\ Depth' = 0
    BY <2>1, <2>2 DEF Depth
  <2>4. PathParts'
    BY <2>1, <2>2, <2>3 DEF PathParts
  <2> QED
    BY <2>1, <2>2, <2>3, <2>4, HandleNames DEF PathInv, Point, Reading
<1>2. ASSUME UNCHANGED <<cmd, arg, path>>
      PROVE  PathParts' /\ Depth' = Depth
  BY <1>2 DEF PathInv, PathParts, Depth
<1>3. CASE Match
  <2> USE DEF PathInv, Point, Reading
  <2>1. pc = "match" /\ UNCHANGED <<cmd, arg>> /\ PathParts /\ path # <<>>
    BY <1>3 DEF Match
  <2>2. CASE UNCHANGED path /\ pc' \in {cmd, "find"}
    BY <1>0, <1>2, <1>3, <2>1, <2>2, HandleNames DEF Match
  <2>3. CASE path' = Tail(path) /\ pc' = "openEntry" /\ UNCHANGED cur
    <3>1. path \in Seq(STRING) /\ Len(path) <= Len(arg) /\ Len(arg) \in Nat
          /\ \A k \in 1 .. Len(path) : path[k] = arg[Depth + k]
      BY <2>1, PathLengths DEF PathParts
    <3>2. /\ path' \in Seq(STRING) /\ Len(path') = Len(path) - 1 /\ Len(path) \in Nat \ {0}
          /\ \A k \in 1 .. Len(path) - 1 : path'[k] = path[k + 1]
      BY <2>1, <2>3, <3>1, TailOf
    <3>3. Depth' = Depth + 1 /\ Depth \in Nat
      BY <2>1, <3>1, <3>2 DEF Depth
    <3>4. \A k \in 1 .. Len(path') : path'[k] = arg'[Depth' + k]
      <4> SUFFICES ASSUME NEW k \in 1 .. Len(path') PROVE path'[k] = arg'[Depth' + k]
        OBVIOUS
      <4>1. k + 1 \in 1 .. Len(path) /\ path'[k] = path[k + 1] /\ Depth + (k + 1) = Depth' + k
        BY <3>2, <3>3
      <4> QED
        BY <2>1, <3>1, <4>1
    <3>5. PathParts'
      BY <2>1, <3>1, <3>2, <3>4 DEF PathParts
    <3> QED
      BY <2>1, <2>3, <3>3, <3>5
  <2> QED
    BY <1>3, <2>2, <2>3 DEF Match
<1>4. CASE OpenEntry
  <2>1. cur' # ROOT /\ pc = "openEntry" /\ pc' = "open" /\ UNCHANGED <<cmd, arg, path>>
    BY <1>4, EntryOpened, HandleNames DEF OpenEntry, callVars, Null, ROOT
  <2> QED
    BY <1>2, <2>1 DEF PathInv, Point, Reading
<1>5. CASE ShowGot
  BY <1>0, <1>2, <1>5 DEF ShowGot, Show, CloseAndReturn, PathInv, Point, Reading, callVars
<1>6. ASSUME NEW n, NEW b, CallRead(n, b),
             <<pc, b>> \in {<<"find", "match">>, <<"cat", "catGot">>, <<"ls", "lsGot">>}
      PROVE  PathInv'
  BY <1>0, <1>2, <1>6 DEF CallRead, PathInv, Point, Reading, callVars
<1>7. CASE FindFile \/ ReadFile \/ ReadDirectory
  BY <1>6, <1>7 DEF FindFile, ReadFile, ReadDirectory
<1>8. CASE OpenLoop
  BY <1>0, <1>2, <1>8 DEF OpenLoop, PathInv, Point, Reading, callVars
<1>9. CASE ReadLoop
  BY <1>0, <1>2, <1>9 DEF ReadLoop, PathInv, Point, Reading, callVars
<1>10. CASE NextRootSector \/ NextFileSector \/ NextCluster \/ LoadSector
  BY <1>0, <1>2, <1>10 DEF NextRootSector, NextFileSector, NextCluster, LoadSector,
     PathInv, Point, Reading, callVars
<1>11. CASE UNCHANGED vars
  BY <1>2, <1>11 DEF vars, PathInv, Point, Reading
<1> QED
  BY <1>1, <1>3, <1>4, <1>5, <1>7, <1>8, <1>9, <1>10, <1>11 DEF Next, DriverStep

-----------------------------------------------------------------------------
\* A directory is read entry by entry, whichever directory it is.
LEMMA DoneCalled ==
  ASSUME FatInv, NEW at, NEW size \in Nat, Len(EntriesOf(at)) = size, NEW i \in 0 .. size,
         EntriesDone(at, i), cur # Null, NEW b, CallRead(ENTRY_SIZE, b),
         <<pc, b>> \in {<<"find", "match">>, <<"ls", "lsGot">>},
         Bounded(fd[cur]) => fd[cur].size = ENTRY_SIZE * size,
         ~Bounded(fd[cur]) => i < size
  PROVE  EntriesDone(at, i)'
<1> DEFINE f == fd[cur]
<1>1. /\ pc' = "read" /\ back' = b /\ got' = <<>> /\ UNCHANGED <<fd, cur>>
      /\ count' = IF f.dir /\ f.size = 0 THEN ENTRY_SIZE ELSE Lower(ENTRY_SIZE, f.size - f.pos)
  BY DEF CallRead
<1>2. f.pos = ENTRY_SIZE * i /\ ENTRY_SIZE * i \in Nat /\ Len(got') = 0
  <2>1. f.pos = ENTRY_SIZE * i
    BY DEF EntriesDone, Point, Reading
  <2>2. ENTRY_SIZE * i \in Nat
    BY EntryPosition
  <2> QED
    BY <1>1, <2>1, <2>2
<1>3. IF count' # 0 THEN count' = ENTRY_SIZE /\ i < size ELSE i = size
  <2>1. CASE Bounded(f)
    <3>1. f.dir \in BOOLEAN
      BY DEF FatInv, FatTypeOK
    <3>2. count' = Lower(ENTRY_SIZE, ENTRY_SIZE * size - ENTRY_SIZE * i)
      BY <1>1, <1>2, <2>1 DEF Bounded
    <3>3. /\ i < size => ENTRY_SIZE * i + ENTRY_SIZE <= ENTRY_SIZE * size
          /\ i = size => ENTRY_SIZE * i = ENTRY_SIZE * size
          /\ ENTRY_SIZE * i \in Nat /\ ENTRY_SIZE * size \in Nat
      BY EntryOrder, EntryPosition
    <3>4. i < size => count' = ENTRY_SIZE
      BY <3>2, <3>3, ParameterTypes DEF Lower
    <3>5. i = size => count' = 0
      BY <3>2, <3>3, ParameterTypes DEF Lower
    <3> QED
      BY <3>4, <3>5, ParameterTypes
  <2>2. CASE ~Bounded(f)
    BY <1>1, <2>2, ParameterTypes DEF Bounded
  <2> QED
    BY <2>1, <2>2
<1> QED
  BY <1>1, <1>2, <1>3 DEF EntriesDone, Point, Reading

LEMMA DoneKept ==
  ASSUME FatInv, Fills, pc \in {"refill", "fat", "load"}, pc' \in {back, "fat", "load", "read"},
         NEW at, NEW i, EntriesDone(at, i),
         UNCHANGED <<back, cur, got, count>>, fd'[cur].pos = fd[cur].pos
  PROVE  EntriesDone(at, i)'
<1>1. back \in {"match", "catGot", "lsGot"} /\ got # <<>>
  BY DEF FatInv, Callers, Reading, Fills
<1>2. Point' = Point /\ Point = back
  BY <1>1 DEF Point, Reading
<1> QED
  BY <1>1, <1>2 DEF EntriesDone, EntryRead

LEMMA DoneNext ==
  ASSUME NEW at, NEW size \in Nat, Len(EntriesOf(at)) = size, NEW i \in 0 .. size,
         EntriesDone(at, i), pc \in {"match", "lsGot"}, got # <<>>,
         UNCHANGED <<fd, cur>>, pc' \in {"find", "ls"}
  PROVE  i + 1 \in 0 .. size /\ EntriesDone(at, i + 1)'
<1>1. fd[cur].pos = ENTRY_SIZE * i + ENTRY_SIZE /\ i < size
  BY DEF EntriesDone, Point, Reading
<1>2. fd'[cur'].pos = ENTRY_SIZE * (i + 1)
  BY <1>1, EntryOrder
<1> QED
  BY <1>1, <1>2 DEF EntriesDone, Point, Reading

LEMMA DoneRead ==
  ASSUME FatInv, ReadLoop, back \in {"match", "lsGot"},
         NEW at, NEW size \in Nat, Len(EntriesOf(at)) = size, NEW i \in 0 .. size,
         EntriesDone(at, i),
         count # 0 => EntryAt(fd[cur].buf, fd[cur].pos % SECTOR_SIZE) = EntriesOf(at)[i + 1]
  PROVE  /\ EntriesDone(at, i)'
         /\ IF count = 0
            THEN UNCHANGED fd /\ pc' = back
            ELSE /\ i < size /\ fd[cur].pos = ENTRY_SIZE * i
                 /\ fd' = [fd EXCEPT ![cur].pos = @ + ENTRY_SIZE]
                 /\ pc' = IF (ENTRY_SIZE * (i + 1)) % SECTOR_SIZE = 0 THEN "refill" ELSE "read"
<1> DEFINE f == fd[cur]
           in == f.pos % SECTOR_SIZE
           left == SECTOR_SIZE - in
           take == Lower(count, left)
           bytes == [k \in 1 .. take |-> <<f.buf, in + k - 1>>]
<1>1. /\ pc = "read" /\ cur \in Handles /\ f \in Handle /\ fd \in [Handles -> Handle]
      /\ count \in Nat /\ got \in Seq(Place) /\ UNCHANGED <<back, cur>>
  BY DEF ReadLoop, FatInv, FatTypeOK, Handle, Callers, Reading, DataTypes
<1>2. CASE count = 0
  <2>1. pc' = back /\ UNCHANGED <<fd, count, got>>
    BY <1>2 DEF ReadLoop
  <2>2. Point' = Point
    BY <1>1, <2>1 DEF Point, Reading
  <2> QED
    BY <1>1, <1>2, <2>1, <2>2 DEF EntriesDone, EntryRead
<1>3. CASE count # 0
  <2>1. /\ got' = got \o bytes /\ fd' = [fd EXCEPT ![cur].pos = @ + take]
        /\ count' = count - take /\ pc' = IF take = left THEN "refill" ELSE "read"
    BY <1>3 DEF ReadLoop
  <2>2. got = <<>> /\ count = ENTRY_SIZE /\ i < size /\ f.pos = ENTRY_SIZE * i
    <3>1. got = <<>>
      BY <1>1, <1>3 DEF EntriesDone, Point, Reading
    <3>2. f.pos = ENTRY_SIZE * i + 0 /\ ENTRY_SIZE * i \in Nat
      BY <1>1, <3>1, EntryPosition DEF EntriesDone, Point, Reading
    <3> QED
      BY <1>1, <1>3, <3>1, <3>2 DEF EntriesDone, Point, Reading
  <2>3. take = ENTRY_SIZE /\ in \in Nat /\ in + ENTRY_SIZE <= SECTOR_SIZE
        /\ (ENTRY_SIZE * i) % SECTOR_SIZE = in
    <3>1. in = ENTRY_SIZE * (i % PerSector) /\ i % PerSector \in Nat
          /\ ENTRY_SIZE * (i % PerSector) + ENTRY_SIZE <= SECTOR_SIZE
      BY <2>2, EntryPosition
    <3>2. in \in Nat
      <4>1. f.pos \in Nat
        BY <1>1 DEF Handle
      <4> QED
        BY <4>1, SectorArithmetic
    <3> HIDE DEF in
    <3>3. in + ENTRY_SIZE <= SECTOR_SIZE
      BY <3>1
    <3>4. take = ENTRY_SIZE
      BY <2>2, <3>2, <3>3, ParameterTypes DEF Lower
    <3> QED
      BY <2>2, <3>2, <3>3, <3>4 DEF in
  <2> HIDE DEF take
  <2>4. Len(got') = ENTRY_SIZE /\ got'[1] = <<f.buf, in>>
    <3>1. f.buf \in Nat \cup {Torn}
      BY <1>1 DEF Handle
    <3> HIDE DEF in
    <3>2. \A k \in 1 .. take : <<f.buf, in + k - 1>> \in Place
      BY <2>3, <3>1, ParameterTypes DEF Place
    <3>3. Len(bytes) = ENTRY_SIZE /\ bytes \in Seq(Place)
      <4>1. take \in Nat
        BY <2>3, ParameterTypes
      <4>2. Len(bytes) = take /\ bytes \in Seq(Place)
        BY <3>2, <4>1
      <4> QED
        BY <2>3, <4>2
    <3>4. bytes[1] = <<f.buf, in>>
      BY <2>3, ParameterTypes
    <3> HIDE DEF bytes
    <3>5. got' = bytes
      BY <2>1, <2>2, <3>3
    <3> QED
      BY <3>3, <3>4, <3>5
  <2>5. EntryRead' = EntryAt(f.buf, in)
    BY <2>4 DEF EntryRead
  <2>6. fd'[cur].pos = ENTRY_SIZE * i + ENTRY_SIZE
    <3>1. fd'[cur] = [f EXCEPT !.pos = f.pos + take]
      BY <1>1, <2>1
    <3> QED
      BY <1>1, <2>2, <2>3, <3>1 DEF Handle
  <2>7. (ENTRY_SIZE * (i + 1)) % SECTOR_SIZE = 0 <=> take = left
    <3> DEFINE q == (ENTRY_SIZE * i) \div SECTOR_SIZE
    <3>1. ENTRY_SIZE * i \in Nat
      BY EntryPosition
    <3>2. ENTRY_SIZE * i = SECTOR_SIZE * q + in /\ q \in Nat
      BY <2>3, <3>1, DividedBy, ParameterTypes
    <3> HIDE DEF q, in
    <3>3. ENTRY_SIZE * (i + 1) = SECTOR_SIZE * q + (in + ENTRY_SIZE) /\ SECTOR_SIZE * q \in Nat
      <4>1. ENTRY_SIZE * (i + 1) = ENTRY_SIZE * i + ENTRY_SIZE
        BY EntryOrder
      <4>2. SECTOR_SIZE * q \in Nat
        BY <3>2, ParameterTypes
      <4> QED
        BY <2>3, <3>2, <4>1, <4>2, ParameterTypes
    <3>4. CASE in + ENTRY_SIZE = SECTOR_SIZE
      <4>1. SECTOR_SIZE * q + SECTOR_SIZE = SECTOR_SIZE * (q + 1)
        BY <3>2, ParameterTypes
      <4>2. (SECTOR_SIZE * (q + 1)) % SECTOR_SIZE = 0
        <5>1. q + 1 \in Nat
          BY <3>2
        <5> QED
          BY <5>1, QuotientOfMultiple, ParameterTypes
      <4>3. take = left
        BY <2>3, <3>4, ParameterTypes
      <4> QED
        BY <3>3, <3>4, <4>1, <4>2, <4>3
    <3>5. CASE in + ENTRY_SIZE # SECTOR_SIZE
      <4>1. in + ENTRY_SIZE \in Nat /\ in + ENTRY_SIZE < SECTOR_SIZE
        BY <2>3, <3>5, ParameterTypes
      <4>2. (SECTOR_SIZE * q + (in + ENTRY_SIZE)) % SECTOR_SIZE = in + ENTRY_SIZE
        BY <3>2, <4>1, PartsOfPlace, ParameterTypes
      <4>3. in + ENTRY_SIZE # 0 /\ take # left
        BY <2>3, <3>5, ParameterTypes
      <4> QED
        BY <3>3, <4>2, <4>3
    <3> QED
      BY <3>4, <3>5
  <2>8. EntryRead' = EntriesOf(at)[i + 1]
    BY <1>3, <2>5
  <2>9. count' = 0 /\ got' # <<>> /\ ENTRY_SIZE # 0
    <3>1. ENTRY_SIZE # 0 /\ ENTRY_SIZE - ENTRY_SIZE = 0
      BY ParameterTypes
    <3>2. Len(<<>>) = 0
      OBVIOUS
    <3> QED
      BY <2>1, <2>2, <2>3, <2>4, <3>1, <3>2
  <2>10. pc' \in Reading /\ Point' = back /\ pc = "read"
    BY <1>1, <2>1 DEF Point, Reading
  <2>11. EntriesDone(at, i)'
    BY <1>1, <2>2, <2>4, <2>6, <2>8, <2>9, <2>10 DEF EntriesDone
  <2> HIDE DEF left, in
  <2> QED
    BY <1>3, <2>1, <2>2, <2>3, <2>7, <2>11
<1> QED
  BY <1>2, <1>3

-----------------------------------------------------------------------------
LEMMA NextShown ==
  ASSUME NEW s, NEW n \in Nat, Len(s) = n, NEW i \in Nat, i < n
  PROVE  SubSeq(s, 1, i + 1) = SubSeq(s, 1, i) \o <<s[i + 1]>>
OBVIOUS

LEMMA PrefixOf ==
  ASSUME NEW s, NEW t, NEW n \in Nat, Len(s) = n, n <= Len(t), \A k \in 1 .. n : s[k] = t[k]
  PROVE  IsPrefix(s, t)
BY DEF IsPrefix

\* The root directory is read for names and for ls.
LEMMA RootUsed ==
  ASSUME FatInv, PathInv, cur = ROOT, pc # "openEntry"
  PROVE  /\ Point \notin {"cat", "catGot"} /\ (pc # "cli" => Depth = 0)
         /\ pc \in Reading => back \in {"match", "lsGot"}
         /\ Point \in {"find", "match"} => arg \in Paths /\ arg # <<>> /\ Head(path) = arg[1]
<1>1. pc # "cli" => Depth = 0
  BY HandleNames DEF PathInv
<1>2. Point \notin {"cat", "catGot"}
  <2> SUFFICES ASSUME Point \in {"cat", "catGot"} PROVE FALSE
    OBVIOUS
  <2>1. cmd = "cat" /\ pc # "cli" /\ path = <<>>
    BY HandleNames DEF FatInv, Callers, PathInv, Point, Reading
  <2>2. Len(path) = 0 /\ Depth = 0 /\ Len(arg) \in Nat /\ (arg = <<>> <=> Len(arg) = 0)
    BY <1>1, <2>1, PathLengths DEF PathInv
  <2> QED
    BY <2>1, <2>2 DEF Depth, PathInv
<1>3. ASSUME Point \in {"find", "match"}
      PROVE  arg \in Paths /\ arg # <<>> /\ Head(path) = arg[1]
  <2>1. Depth = 0 /\ path # <<>> /\ path \in Seq(STRING)
    BY <1>1, <1>3 DEF PathInv, PathParts, Point, Reading
  <2>2. Len(path) \in Nat \ {0} /\ Head(path) = path[1]
    BY <2>1, TailOf
  <2>3. path[1] = arg[0 + 1] /\ Len(arg) # 0
    BY <2>1, <2>2 DEF PathInv, PathParts, Depth
  <2> QED
    BY <2>2, <2>3, PathLengths DEF PathInv, PathParts
<1> QED
  BY <1>1, <1>2, <1>3 DEF FatInv, Callers, Point, Reading

\* The sector of the root directory in the buffer has the next entry.
LEMMA RootByte ==
  ASSUME RootFields(fd[ROOT]), OnRoot(fd[ROOT], "read"), NEW i \in Nat, i < DirEntryCount,
         fd[ROOT].pos = ENTRY_SIZE * i
  PROVE  /\ fd[ROOT].pos < fd[ROOT].size
         /\ EntryAt(fd[ROOT].buf, fd[ROOT].pos % SECTOR_SIZE) = RootEntries[i + 1]
<1>1. ENTRY_SIZE * i < ENTRY_SIZE * DirEntryCount
  BY EntryOrder, LayoutAssumption
<1>2. fd[ROOT].pos < fd[ROOT].size
  BY <1>1, EntrySizes DEF RootFields
<1>3. fd[ROOT].buf = PartitionOffset + RootDirLba + (ENTRY_SIZE * i) \div SECTOR_SIZE
  BY <1>2 DEF OnRoot
<1> QED
  BY <1>2, <1>3, RootEntriesAre

\* In its first sector the buffer still has that.
LEMMA InFirstSector ==
  ASSUME RootFields(fd[ROOT]), OnRoot(fd[ROOT], "match"), RootOnDisk, NEW i \in Nat,
         fd[ROOT].pos = ENTRY_SIZE * i, ENTRY_SIZE * i < SECTOR_SIZE
  PROVE  fd[ROOT].buf = PartitionOffset + RootDirLba /\ i < DirEntryCount
<1> DEFINE q == RootDirSize \div SECTOR_SIZE
<1>1. ENTRY_SIZE * i \in Nat
  BY EntryPosition
<1>2. (ENTRY_SIZE * i) \div SECTOR_SIZE = 0
  <2>1. ENTRY_SIZE * i = SECTOR_SIZE * 0 + ENTRY_SIZE * i
    BY <1>1, ParameterTypes
  <2> QED
    BY <1>1, <2>1, PartsOfPlace, ParameterTypes
<1>3. SECTOR_SIZE <= RootDirSize
  <2>1. q \in Nat /\ RootDirSize = SECTOR_SIZE * q /\ q * PerSector = DirEntryCount /\ PerSector \in Nat
    BY EntrySizes
  <2> HIDE DEF q
  <2>2. q # 0
    BY <2>1 DEF RootOnDisk
  <2>3. \A a, b \in Nat : b # 0 => a <= a * b
    BY SMT
  <2> QED
    BY <2>1, <2>2, <2>3, ParameterTypes
<1>4. fd[ROOT].pos < fd[ROOT].size
  BY <1>1, <1>3, ParameterTypes, LayoutTypes DEF RootFields
<1>5. fd[ROOT].buf = PartitionOffset + RootDirLba + 0
  BY <1>2, <1>4 DEF OnRoot
<1>6. ENTRY_SIZE * i < ENTRY_SIZE * DirEntryCount
  BY <1>4, EntrySizes DEF RootFields
<1>7. i < DirEntryCount
  BY <1>6, EntryOrder, LayoutAssumption
<1> QED
  BY <1>5, <1>7, ParameterTypes, LayoutTypes

\* A step that leaves the root directory alone, or leaves it.
LEMMA AwayFromRoot ==
  ASSUME cur' # ROOT, RootFields(fd'[ROOT]), pc' # "cli" \/ cmd' # "ls",
         ~failed' /\ cur' # Null => RootIdle(fd'[ROOT])
  PROVE  RootReadInv'
BY DEF RootReadInv, RootInv, RootInUse, LsListsRoot, RootFields, RootIdle

LEMMA RootInitially == Init => RootReadInv
<1> SUFFICES ASSUME Init PROVE RootReadInv
  OBVIOUS
<1>1. fd[ROOT] = [opened |-> TRUE, dir |-> TRUE, pos |-> 0, size |-> RootDirSize,
                  first |-> RootDirLba, cluster |-> RootDirLba, sector |-> 0,
                  buf |-> PartitionOffset + RootDirLba]
  BY HandleNames DEF Init
<1> QED
  BY <1>1 DEF Init, RootReadInv, RootInv, RootFields, RootIdle, RootInUse, LsListsRoot,
              Searched, Listed, Point, Reading

LEMMA CommandRoot == FatInv /\ RootReadInv /\ Command => RootReadInv'
<1> SUFFICES ASSUME FatInv, RootReadInv, Command PROVE RootReadInv'
  OBVIOUS
<1>1. pc = "cli" /\ pc' = "open" /\ UNCHANGED <<fd, failed>>
  BY DEF Command
<1>2. cur # Null
  BY <1>1 DEF FatInv, Callers
<1> QED
  BY <1>1, <1>2 DEF RootReadInv, RootInv, RootFields, RootIdle, RootInUse, LsListsRoot,
                    Searched, Listed, Point, Reading

LEMMA OpenLoopRoot == FatInv /\ RootReadInv /\ OpenLoop => RootReadInv'
<1> SUFFICES ASSUME FatInv, RootReadInv, OpenLoop PROVE RootReadInv'
  OBVIOUS
<1>1. /\ pc = "open" /\ pc' \in {"find", "cat", "ls"} /\ UNCHANGED <<fd, cur, failed, shown, path>>
      /\ shown = <<>>
  BY DEF OpenLoop, FatInv, DataTypes, ShownFromHandle, Point, Reading, callVars
<1>2. RootFields(fd[ROOT]) /\ (~failed /\ cur # Null => RootIdle(fd[ROOT]))
  BY <1>1 DEF RootReadInv, RootInv, RootInUse, Point, Reading
<1>3. CASE cur # ROOT
  BY <1>1, <1>2, <1>3, AwayFromRoot
<1>4. CASE cur = ROOT
  <2>1. ~failed => fd[ROOT].pos = 0 /\ RootIdle(fd[ROOT])
    BY <1>2, <1>4, HandleNames DEF RootIdle
  <2>2. 0 \div SECTOR_SIZE = 0 /\ ENTRY_SIZE * 0 = 0
    BY ParameterTypes
  <2>3. RootInv'
    <3>1. ASSUME ~failed PROVE OnRoot(fd[ROOT], pc')
      <4>1. fd[ROOT].pos \div SECTOR_SIZE = 0 /\ RootIdle(fd[ROOT])
        BY <2>1, <2>2, <3>1
      <4>2. RootDirLba + 0 = RootDirLba /\ PartitionOffset + RootDirLba + 0 = PartitionOffset + RootDirLba
        BY ParameterTypes, LayoutTypes
      <4>3. pc' # "refill"
        BY <1>1
      <4> QED
        BY <4>1, <4>2, <4>3 DEF RootIdle, OnRoot
    <3> QED
      BY <1>1, <1>2, <2>1, <3>1 DEF RootInv
  <2>4. ~failed' => EntriesDone(RootEntry, 0)'
    BY <1>1, <1>4, <2>1, <2>2 DEF EntriesDone, Point, Reading
  <2>5. ~failed' => Searched(RootEntry)'
    <3>1. 0 \in 0 .. Len(EntriesOf(RootEntry))
      BY RootEntriesAre DEF RootEntries
    <3> QED
      BY <2>4, <3>1 DEF Searched
  <2>6. ~failed' => Listed'
    <3>1. 0 \in 0 .. LS_LIMIT /\ 0 <= Len(RootEntries)
      BY RootEntriesAre, FatAssumption
    <3>2. SubSeq(RootEntries, 1, 0) = <<>>
      OBVIOUS
    <3> QED
      BY <1>1, <2>4, <3>1, <3>2 DEF Listed
  <2> QED
    BY <1>1, <2>3, <2>5, <2>6 DEF RootReadInv, LsListsRoot
<1> QED
  BY <1>3, <1>4

LEMMA CallReadRoot ==
  ASSUME FatInv, PathInv, RootReadInv, RootOnDisk, NEW n, NEW b, CallRead(n, b),
         <<pc, n, b>> \in {<<"find", ENTRY_SIZE, "match">>, <<"cat", CAT_SIZE, "catGot">>,
                           <<"ls", ENTRY_SIZE, "lsGot">>}
  PROVE  RootReadInv'
<1>1. UNCHANGED <<fd, cmd, path, cur, shown, failed>> /\ pc' \in {"read", "wild"} /\ pc \notin Reading
  BY DEF CallRead, callVars, Reading
<1>2. RootFields(fd[ROOT])
  BY DEF RootReadInv, RootInv
<1>3. CASE cur # ROOT
  BY <1>1, <1>2, <1>3, AwayFromRoot DEF RootReadInv, RootInv, RootInUse
<1>4. CASE cur = ROOT
  <2>1. pc' = "read" /\ back' = b /\ <<pc, b>> \in {<<"find", "match">>, <<"ls", "lsGot">>}
        /\ n = ENTRY_SIZE
    <3>1. pc # "cat"
      BY <1>4, RootUsed DEF Point, Reading
    <3> QED
      BY <1>4, <3>1, HandleNames DEF CallRead
  <2>2. RootInv'
    BY <1>1, <1>4, <2>1 DEF RootReadInv, RootInv, RootInUse, OnRoot, Point, Reading
  <2>3. ASSUME NEW i \in 0 .. Len(EntriesOf(RootEntry)), EntriesDone(RootEntry, i)
        PROVE  EntriesDone(RootEntry, i)'
    <3>1. Len(EntriesOf(RootEntry)) = DirEntryCount /\ DirEntryCount \in Nat
      BY RootEntriesAre DEF RootEntries
    <3>2. Bounded(fd[cur]) /\ fd[cur].size = ENTRY_SIZE * DirEntryCount
      <4>1. fd[cur].size = ENTRY_SIZE * DirEntryCount
        BY <1>2, <1>4, EntrySizes DEF RootFields
      <4>2. ENTRY_SIZE * 0 = 0 /\ (0 < DirEntryCount <=> ENTRY_SIZE * 0 < ENTRY_SIZE * DirEntryCount)
        BY <3>1, EntryOrder, ParameterTypes
      <4> QED
        BY <3>1, <4>1, <4>2 DEF Bounded, RootOnDisk
    <3> QED
      BY <1>4, <2>1, <2>3, <3>1, <3>2, HandleNames, DoneCalled
  <2>4. ~failed' => Searched(RootEntry)'
    BY <1>1, <1>4, <2>1, <2>3 DEF RootReadInv, Searched, Point, Reading
  <2>5. ~failed' => Listed'
    <3> SUFFICES ASSUME ~failed, pc = "ls" PROVE Listed'
      BY <1>1, <2>1 DEF Listed, Point, Reading
    <3>1. PICK i \in 0 .. LS_LIMIT : EntriesDone(RootEntry, i) /\ i <= Len(RootEntries)
                                      /\ shown = SubSeq(RootEntries, 1, i)
      BY <1>4 DEF RootReadInv, Listed, Point, Reading
    <3>2. i \in 0 .. Len(EntriesOf(RootEntry))
      BY <3>1, RootEntriesAre, FatAssumption DEF RootEntries
    <3>3. EntriesDone(RootEntry, i)'
      BY <2>3, <3>1, <3>2
    <3> QED
      BY <1>1, <3>1, <3>3 DEF Listed
  <2> QED
    BY <1>1, <2>1, <2>2, <2>4, <2>5 DEF RootReadInv, LsListsRoot
<1> QED
  BY <1>3, <1>4

\* What is known of the entries done, once it is known of a number of them.
LEMMA RootProgress ==
  ASSUME RootReadInv, ~failed, cur = ROOT, Point \in {"match", "lsGot"},
         Point' = Point, UNCHANGED <<path, shown>>,
         \A i \in 0 .. DirEntryCount : EntriesDone(RootEntry, i) => EntriesDone(RootEntry, i)'
  PROVE  Searched(RootEntry)' /\ Listed'
<1>1. Len(EntriesOf(RootEntry)) = DirEntryCount /\ DirEntryCount \in Nat
  BY RootEntriesAre DEF RootEntries
<1>2. Searched(RootEntry)'
  BY <1>1 DEF RootReadInv, Searched
<1>3. Listed'
  <2> SUFFICES ASSUME Point = "lsGot" PROVE Listed'
    BY DEF Listed
  <2>1. PICK i \in 0 .. LS_LIMIT : EntriesDone(RootEntry, i) /\ i <= Len(RootEntries)
                                    /\ shown = SubSeq(RootEntries, 1, i)
    BY DEF RootReadInv, Listed
  <2>2. i \in 0 .. DirEntryCount
    BY <1>1, <2>1, FatAssumption DEF RootEntries
  <2>3. EntriesDone(RootEntry, i)'
    BY <2>1, <2>2
  <2> QED
    BY <2>1, <2>3 DEF Listed
<1> QED
  BY <1>2, <1>3

\* Some number of entries of the root directory is done, when it is in use.
LEMMA RootDone ==
  ASSUME RootReadInv, ~failed, cur = ROOT, Point \in {"match", "lsGot"}
  PROVE  \E i \in 0 .. DirEntryCount : EntriesDone(RootEntry, i)
<1>1. Len(EntriesOf(RootEntry)) = DirEntryCount /\ DirEntryCount \in Nat
  BY RootEntriesAre DEF RootEntries
<1>2. CASE Point = "match"
  BY <1>1, <1>2 DEF RootReadInv, Searched
<1>3. CASE Point = "lsGot"
  <2>1. PICK i \in 0 .. LS_LIMIT : EntriesDone(RootEntry, i) /\ i <= Len(RootEntries)
    BY <1>3 DEF RootReadInv, Listed
  <2>2. i \in 0 .. DirEntryCount
    BY <1>1, <2>1, FatAssumption DEF RootEntries
  <2> QED
    BY <2>1, <2>2
<1> QED
  BY <1>2, <1>3

LEMMA ReadLoopRoot == FatInv /\ PathInv /\ RootReadInv /\ ReadLoop => RootReadInv'
<1> SUFFICES ASSUME FatInv, PathInv, RootReadInv, ReadLoop PROVE RootReadInv'
  OBVIOUS
<1>1. /\ pc = "read" /\ pc' \in {back, "refill", "read"} /\ cur \in Handles
      /\ UNCHANGED <<cmd, path, cur, back, shown, failed>> /\ fd \in [Handles -> Handle]
      /\ back \in {"match", "catGot", "lsGot"}
  BY DEF ReadLoop, callVars, FatInv, Callers, FatTypeOK, Handle, Reading
<1>2. RootFields(fd[ROOT]) /\ Point' = Point /\ Point = back
  BY <1>1 DEF RootReadInv, RootInv, Point, Reading
<1>3. CASE cur # ROOT
  <2>1. fd'[ROOT] = fd[ROOT]
    BY <1>1, <1>3, HandleNames DEF ReadLoop
  <2> QED
    BY <1>1, <1>2, <1>3, <2>1, AwayFromRoot DEF RootReadInv, RootInv, RootInUse
<1>4. CASE cur = ROOT
  <2>1. back \in {"match", "lsGot"}
    BY <1>1, <1>4, RootUsed DEF Reading
  <2>2. RootFields(fd'[ROOT])
    <3>1. fd' = fd \/ \E p : fd' = [fd EXCEPT ![ROOT].pos = p]
      BY <1>4 DEF ReadLoop
    <3>2. ASSUME NEW p, fd' = [fd EXCEPT ![ROOT].pos = p]
          PROVE  RootFields(fd'[ROOT])
      <4>1. fd'[ROOT] = [fd[ROOT] EXCEPT !.pos = p]
        BY <1>1, <3>2, HandleNames
      <4> QED
        BY <1>1, <1>2, <4>1, HandleNames DEF RootFields, Handle
    <3> QED
      BY <1>2, <3>1, <3>2
  <2>3. CASE failed
    BY <1>1, <2>1, <2>2, <2>3 DEF RootReadInv, RootInv, LsListsRoot
  <2>4. CASE ~failed
    <3> DEFINE f == fd[ROOT]
    <3>1. RootInUse /\ OnRoot(f, "read")
      BY <1>1, <1>2, <1>4, <2>1, <2>4, HandleNames DEF RootReadInv, RootInv, RootInUse
    <3>2. Len(EntriesOf(RootEntry)) = DirEntryCount /\ DirEntryCount \in Nat
      BY RootEntriesAre DEF RootEntries
    <3>3. ASSUME NEW i \in 0 .. DirEntryCount, EntriesDone(RootEntry, i)
          PROVE  /\ EntriesDone(RootEntry, i)'
                 /\ IF count = 0
                    THEN UNCHANGED fd /\ pc' = back
                    ELSE /\ i < DirEntryCount /\ fd[cur].pos = ENTRY_SIZE * i
                         /\ fd' = [fd EXCEPT ![cur].pos = @ + ENTRY_SIZE]
                         /\ pc' = IF (ENTRY_SIZE * (i + 1)) % SECTOR_SIZE = 0 THEN "refill" ELSE "read"
      <4>1. ASSUME count # 0
            PROVE  EntryAt(fd[cur].buf, fd[cur].pos % SECTOR_SIZE) = EntriesOf(RootEntry)[i + 1]
        <5>1. i < DirEntryCount /\ f.pos = ENTRY_SIZE * i
          <6>1. got = <<>>
            BY <1>1, <1>2, <2>1, <3>3, <4>1 DEF EntriesDone
          <6>2. f.pos = ENTRY_SIZE * i + 0 /\ i < DirEntryCount
            BY <1>1, <1>2, <1>4, <2>1, <3>2, <3>3, <4>1, <6>1 DEF EntriesDone
          <6> QED
            BY <6>2, EntryPosition
        <5> QED
          BY <1>2, <1>4, <3>1, <5>1, RootByte DEF RootEntries
      <4> QED
        BY <2>1, <3>2, <3>3, <4>1, DoneRead
    <3>4. Searched(RootEntry)' /\ Listed'
      BY <1>2, <1>4, <1>1, <2>1, <2>4, <3>3, RootProgress
    <3>5. OnRoot(fd'[ROOT], pc')
      <4>1. PICK i \in 0 .. DirEntryCount : EntriesDone(RootEntry, i)
        BY <1>2, <1>4, <2>1, <2>4, RootDone
      <4>2. CASE count = 0
        BY <1>1, <2>1, <3>1, <3>3, <4>1, <4>2 DEF OnRoot
      <4>3. CASE count # 0
        <5>1. /\ i < DirEntryCount /\ f.pos = ENTRY_SIZE * i
              /\ fd' = [fd EXCEPT ![ROOT].pos = @ + ENTRY_SIZE]
              /\ pc' = IF (ENTRY_SIZE * (i + 1)) % SECTOR_SIZE = 0 THEN "refill" ELSE "read"
          BY <1>4, <3>3, <4>1, <4>3
        <5>2. /\ fd'[ROOT].pos = ENTRY_SIZE * (i + 1)
              /\ fd'[ROOT].size = f.size /\ fd'[ROOT].cluster = f.cluster /\ fd'[ROOT].buf = f.buf
          <6>1. fd'[ROOT] = [f EXCEPT !.pos = f.pos + ENTRY_SIZE]
            BY <1>1, <5>1, HandleNames
          <6>2. ENTRY_SIZE * (i + 1) = ENTRY_SIZE * i + ENTRY_SIZE
            BY EntryOrder
          <6> QED
            BY <1>1, <5>1, <6>1, <6>2, HandleNames DEF Handle
        <5>3. f.pos < f.size
          BY <1>2, <3>1, <5>1, RootByte
        <5> DEFINE n == (ENTRY_SIZE * i) \div SECTOR_SIZE
                   m == (ENTRY_SIZE * (i + 1)) \div SECTOR_SIZE
        <5>4. f.cluster = RootDirLba + n /\ f.buf = PartitionOffset + RootDirLba + n
          BY <3>1, <5>1, <5>3 DEF OnRoot
        <5>5. n \in Nat /\ IF (ENTRY_SIZE * (i + 1)) % SECTOR_SIZE = 0 THEN m = n + 1 ELSE m = n
          BY NextEntrySector
        <5> HIDE DEF n, m, f
        <5>6. CASE (ENTRY_SIZE * (i + 1)) % SECTOR_SIZE = 0
          <6>1. pc' = "refill" /\ m # 0 /\ RootDirLba + m - 1 = RootDirLba + n
            BY <5>1, <5>5, <5>6, LayoutTypes
          <6> QED
            BY <5>2, <5>4, <5>6, <6>1 DEF OnRoot, m
        <5>7. CASE (ENTRY_SIZE * (i + 1)) % SECTOR_SIZE # 0
          <6>1. pc' = "read" /\ m = n
            BY <5>1, <5>5, <5>7
          <6> QED
            BY <5>2, <5>4, <6>1 DEF OnRoot, m
        <5> QED
          BY <5>6, <5>7
      <4> QED
        BY <4>2, <4>3
    <3>6. RootInUse'
      BY <1>1, <1>2, <3>1 DEF RootInUse
    <3>7. RootInv'
      BY <2>2, <3>5, <3>6 DEF RootInv
    <3> QED
      BY <1>1, <2>1, <3>4, <3>7 DEF RootReadInv, LsListsRoot
  <2> QED
    BY <2>3, <2>4
<1> QED
  BY <1>3, <1>4

LEMMA NextRootSectorRoot ==
  ASSUME FatInv, PathInv, ReadInv, RootReadInv, RootOnDisk, NextRootSector
  PROVE  RootReadInv'
<1> DEFINE f == fd[ROOT]
           n == f.pos \div SECTOR_SIZE
           lba == PartitionOffset + f.cluster + 1
<1>1. PICK ok \in ReadResults(lba, 1) :
        /\ fd' = [fd EXCEPT ![ROOT].cluster = @ + 1, ![ROOT].buf = Loaded(ok, lba)]
        /\ pc' = IF ok THEN "read" ELSE back
        /\ failed' = (failed \/ (~ok /\ lba < DiskSectors))
  BY DEF NextRootSector
<1>2. /\ pc = "refill" /\ cur = ROOT /\ UNCHANGED <<cmd, path, cur, back, shown, got, count>>
      /\ fd \in [Handles -> Handle]
  BY DEF NextRootSector, callVars, FatInv, FatTypeOK, Handle
<1>3. ok \in BOOLEAN /\ back \in {"match", "lsGot"} /\ pc' \in {back, "read"} /\ RootFields(f)
  <2>1. ok \in BOOLEAN
    BY <1>1, FatAssumption DEF ReadResults
  <2>2. back \in {"match", "lsGot"}
    BY <1>2, RootUsed DEF Reading
  <2> QED
    BY <1>1, <2>1, <2>2 DEF RootReadInv, RootInv
<1>4. Point' = Point /\ Point = back
  BY <1>2, <1>3 DEF Point, Reading
<1>5. /\ fd'[ROOT].pos = f.pos /\ fd'[ROOT].size = f.size /\ RootFields(fd'[ROOT])
      /\ fd'[ROOT].cluster = f.cluster + 1 /\ fd'[ROOT].buf = Loaded(ok, lba)
  <2>1. fd'[ROOT] = [f EXCEPT !.cluster = f.cluster + 1, !.buf = Loaded(ok, lba)]
    BY <1>1, <1>2, HandleNames
  <2>2. f \in Handle
    BY <1>2, HandleNames
  <2> QED
    BY <1>3, <2>1, <2>2 DEF Handle, RootFields
<1>6. CASE failed'
  BY <1>3, <1>5, <1>6 DEF RootReadInv, RootInv, LsListsRoot
<1>7. CASE ~failed'
  <2>1. ~failed
    BY <1>1, <1>7
  <2>2. RootInUse /\ RootInUse'
    BY <1>2, <1>3, <1>4 DEF RootInUse
  <2>3. n # 0 /\ f.cluster = RootDirLba + n - 1 /\ n \in Nat
    <3>1. OnRoot(f, "refill")
      BY <1>2, <2>1, <2>2, HandleNames DEF RootReadInv, RootInv
    <3>2. f.pos \in Nat
      BY <1>2, HandleNames DEF Handle
    <3> QED
      BY <3>1, <3>2, SectorArithmetic DEF OnRoot
  <2> HIDE DEF n
  <2>4. lba = PartitionOffset + RootDirLba + n /\ f.cluster + 1 = RootDirLba + n /\ lba \in Nat
    BY <2>3, ParameterTypes, LayoutTypes
  <2>5. OnRoot(fd'[ROOT], pc')
    <3>1. CASE ok
      <4>1. fd'[ROOT].buf = PartitionOffset + RootDirLba + n /\ fd'[ROOT].cluster = RootDirLba + n
        BY <1>5, <2>4, <3>1 DEF Loaded
      <4> QED
        BY <1>1, <1>5, <3>1, <4>1 DEF OnRoot, n
    <3>2. CASE ~ok
      <4>1. ~(lba < DiskSectors)
        BY <1>1, <1>7, <3>2
      <4> DEFINE q == RootDirSize \div SECTOR_SIZE
      <4>2. q \in Nat /\ RootDirSize = SECTOR_SIZE * q
        BY EntrySizes
      <4>3. PartitionOffset + RootDirLba + q <= DiskSectors
        BY DEF RootOnDisk
      <4> HIDE DEF q
      <4>4. q <= n
        BY <2>3, <2>4, <4>1, <4>2, <4>3, ParameterTypes, LayoutTypes
      <4>5. f.pos = SECTOR_SIZE * n + (f.pos % SECTOR_SIZE) /\ f.pos % SECTOR_SIZE \in Nat
        <5>1. f.pos \in Nat
          BY <1>2, HandleNames DEF Handle
        <5> QED
          BY <5>1, DividedBy, ParameterTypes DEF n
      <4>6. SECTOR_SIZE * q <= SECTOR_SIZE * n /\ SECTOR_SIZE * q \in Nat /\ SECTOR_SIZE * n \in Nat
        <5>1. \A a, b, c \in Nat : b <= c => a * b <= a * c /\ a * b \in Nat /\ a * c \in Nat
          BY SMT
        <5> QED
          BY <2>3, <4>2, <4>4, <5>1, ParameterTypes
      <4>7. ~(f.pos < f.size)
        <5> HIDE DEF f
        <5>1. f.size = SECTOR_SIZE * q
          BY <1>3, <4>2 DEF RootFields
        <5> QED
          BY <4>5, <4>6, <5>1
      <4>8. pc' # "refill"
        BY <1>1, <1>3, <3>2
      <4> QED
        BY <1>5, <4>7, <4>8 DEF OnRoot
    <3> QED
      BY <1>3, <3>1, <3>2
  <2>6. ASSUME NEW i \in 0 .. DirEntryCount, EntriesDone(RootEntry, i)
        PROVE  EntriesDone(RootEntry, i)'
    <3>1. fd'[cur].pos = fd[cur].pos
      BY <1>2, <1>5
    <3>2. pc' \in {back, "fat", "load", "read"} /\ Fills
      BY <1>3 DEF ReadInv
    <3> QED
      BY <1>2, <2>6, <3>1, <3>2, DoneKept
  <2>7. Searched(RootEntry)' /\ Listed'
    BY <1>2, <1>3, <1>4, <2>1, <2>6, RootProgress
  <2>8. RootInv'
    BY <1>5, <2>2, <2>5 DEF RootInv
  <2> QED
    BY <1>3, <2>7, <2>8 DEF RootReadInv, LsListsRoot
<1> QED
  BY <1>6, <1>7

\* Reading a file leaves the root directory alone.
LEMMA FileStepRoot ==
  ASSUME FatInv, PathInv, RootReadInv, NextFileSector \/ NextCluster \/ LoadSector
  PROVE  RootReadInv'
<1>1. cur # ROOT /\ pc' # "cli" /\ UNCHANGED <<cmd, cur>> /\ (failed => failed')
  BY DEF NextFileSector, NextCluster, LoadSector, PathInv, callVars, FatInv, Callers, Reading
<1>2. fd \in [Handles -> Handle]
  BY DEF FatInv, FatTypeOK, Handle
<1>3. fd'[ROOT] = fd[ROOT]
  <2>1. CASE NextFileSector
    BY <1>1, <1>2, <2>1, HandleNames DEF NextFileSector
  <2>2. CASE NextCluster
    BY <1>1, <1>2, <2>2, HandleNames DEF NextCluster
  <2>3. CASE LoadSector
    BY <1>1, <1>2, <2>3, HandleNames DEF LoadSector
  <2> QED
    BY <2>1, <2>2, <2>3
<1> QED
  BY <1>1, <1>3, AwayFromRoot DEF RootReadInv, RootInv, RootInUse

LEMMA OpenEntryRoot == FatInv /\ RootReadInv /\ OpenEntry => RootReadInv'
<1> SUFFICES ASSUME FatInv, RootReadInv, OpenEntry PROVE RootReadInv'
  OBVIOUS
<1>1. pc = "openEntry" /\ pc' = "open" /\ fd \in [Handles -> Handle] /\ cur # Null
  BY DEF OpenEntry, FatInv, FatTypeOK, Handle, Callers
<1>2. PICK h \in FileHandles, ok \in BOOLEAN :
        /\ \E g : fd' = [fd EXCEPT ![h] = g]
        /\ cur' = IF ok THEN h ELSE Null
        /\ failed' = (failed \/ ~ok)
  BY EntryOpened
<1>3. fd'[ROOT] = fd[ROOT] /\ cur' # ROOT
  BY <1>1, <1>2, HandleNames DEF Null, ROOT
<1> QED
  BY <1>1, <1>2, <1>3, AwayFromRoot DEF RootReadInv, RootInv, RootInUse, Point, Reading

\* Closing the root directory rewinds it; its buffer stays.
LEMMA ClosedRoot ==
  ASSUME fd \in [Handles -> Handle], RootFields(fd[ROOT])
  PROVE  /\ \A h \in Handles : RootFields(Closed(h)[ROOT])
         /\ \A h \in FileHandles : Closed(h)[ROOT] = fd[ROOT]
         /\ fd[ROOT].buf = PartitionOffset + RootDirLba => RootIdle(Closed(ROOT)[ROOT])
<1>1. \A h \in FileHandles : Closed(h)[ROOT] = fd[ROOT]
  BY HandleNames DEF Closed
<1>2. Closed(ROOT)[ROOT] = [fd[ROOT] EXCEPT !.pos = 0, !.cluster = fd[ROOT].first]
  BY HandleNames DEF Closed
<1>3. /\ RootFields(Closed(ROOT)[ROOT])
      /\ fd[ROOT].buf = PartitionOffset + RootDirLba => RootIdle(Closed(ROOT)[ROOT])
  BY <1>2, HandleNames DEF RootFields, RootIdle, Handle
<1> QED
  BY <1>1, <1>3 DEF Handles

LEMMA MatchRoot ==
  ASSUME FatInv, PathInv, RootReadInv, RootOnDisk, FirstSectorDoes, Match
  PROVE  RootReadInv'
<1>1. /\ pc = "match" /\ UNCHANGED <<cmd, arg, shown, failed, got>> /\ fd \in [Handles -> Handle]
      /\ cur \in Handles /\ RootFields(fd[ROOT]) /\ got \in Seq(Place) /\ cmd \in {"cat", "ls"}
  BY DEF Match, FatInv, FatTypeOK, Handle, Callers, RootReadInv, RootInv, DataTypes
<1>2. pc' \in {cmd, "openEntry", "find"} /\ cur' \in {Null, cur} /\ fd' \in {fd, Closed(cur)}
  BY DEF Match
<1>3. RootFields(fd'[ROOT])
  BY <1>1, <1>2, ClosedRoot
<1>4. CASE cur # ROOT \/ cur' = Null \/ failed
  <2>1. CASE cur # ROOT
    <3>1. fd'[ROOT] = fd[ROOT]
      BY <1>1, <1>2, <2>1, ClosedRoot DEF Handles
    <3> QED
      BY <1>1, <1>2, <1>3, <2>1, <3>1, AwayFromRoot DEF RootReadInv, RootInv, RootInUse, Null, ROOT
  <2>2. CASE cur' = Null
    BY <1>1, <1>2, <1>3, <2>2, AwayFromRoot, HandleNames
  <2>3. CASE failed
    BY <1>1, <1>2, <1>3, <2>3 DEF RootReadInv, RootInv, LsListsRoot
  <2> QED
    BY <1>4, <2>1, <2>2, <2>3
<1>5. CASE cur = ROOT /\ cur' # Null /\ ~failed
  <2> DEFINE f == fd[ROOT]
  <2>1. Len(EntriesOf(RootEntry)) = DirEntryCount /\ DirEntryCount \in Nat
    BY RootEntriesAre DEF RootEntries
  <2>2. PICK i \in 0 .. DirEntryCount :
          EntriesDone(RootEntry, i) /\ \A j \in 1 .. i : RootEntries[j].name # Head(path)
    BY <1>1, <1>5, <2>1 DEF RootReadInv, Searched, Point, Reading, RootEntries
  <2>3. got # <<>> /\ ~(Len(got) < ENTRY_SIZE)
    BY <1>1, <1>2, <1>5, HandleNames, ParameterTypes DEF Match
  <2>4. i < DirEntryCount /\ EntryRead = RootEntries[i + 1] /\ f.pos = ENTRY_SIZE * (i + 1)
    <3>1. /\ i < DirEntryCount /\ EntryRead = RootEntries[i + 1]
          /\ f.pos = ENTRY_SIZE * i + ENTRY_SIZE
      BY <1>1, <1>5, <2>1, <2>2, <2>3 DEF EntriesDone, Point, Reading, RootEntries
    <3>2. ENTRY_SIZE * (i + 1) = ENTRY_SIZE * i + ENTRY_SIZE
      BY EntryOrder
    <3> QED
      BY <3>1, <3>2
  <2>5. RootInUse /\ OnRoot(f, "match")
    BY <1>1, <1>5, HandleNames DEF RootReadInv, RootInv, RootInUse, Point, Reading
  <2>6. CASE EntryRead.name = Head(path)
    <3>1. pc' = "openEntry" /\ fd' = Closed(ROOT) /\ cur' = ROOT
      BY <1>5, <2>3, <2>6 DEF Match
    <3>2. PICK k \in DOMAIN RootEntries : RootEntries[k].name = Head(path) /\ k < PerSector
      <4>1. arg \in Paths /\ Head(path) = arg[1]
        BY <1>1, <1>5, RootUsed DEF Point, Reading
      <4>2. i + 1 \in {k \in DOMAIN RootEntries : RootEntries[k].name = arg[1]}
        BY <2>4, <2>6, <4>1, RootEntriesAre
      <4> QED
        BY <4>1, <4>2 DEF FirstSectorDoes
    <3>3. i + 1 <= k /\ k \in Nat
      BY <2>2, <3>2, RootEntriesAre
    <3>4. i + 1 \in Nat /\ i + 1 < PerSector /\ ENTRY_SIZE * (i + 1) < SECTOR_SIZE
      <4>1. i + 1 \in Nat /\ i + 1 < PerSector /\ PerSector \in Nat /\ SECTOR_SIZE = ENTRY_SIZE * PerSector
        BY <3>2, <3>3, EntrySizes
      <4> QED
        BY <4>1, EntryOrder
    <3>5. f.buf = PartitionOffset + RootDirLba
      BY <1>1, <2>4, <2>5, <3>4, InFirstSector
    <3>6. RootIdle(fd'[ROOT])
      BY <1>1, <3>1, <3>5, ClosedRoot
    <3> QED
      BY <1>3, <3>1, <3>6
         DEF RootReadInv, RootInv, RootInUse, LsListsRoot, Searched, Listed, Point, Reading
  <2>7. CASE EntryRead.name # Head(path)
    <3>1. pc' = "find" /\ UNCHANGED <<cur, fd, path>>
      BY <2>3, <2>7 DEF Match
    <3>2. i + 1 \in 0 .. DirEntryCount /\ EntriesDone(RootEntry, i + 1)'
      BY <1>1, <2>1, <2>2, <2>3, <3>1, DoneNext
    <3>3. \A j \in 1 .. i + 1 : RootEntries[j].name # Head(path)
      BY <2>2, <2>4, <2>7
    <3>4. Searched(RootEntry)'
      BY <2>1, <3>1, <3>2, <3>3 DEF Searched, RootEntries
    <3>5. Listed'
      BY <3>1 DEF Listed, Point, Reading
    <3>6. RootInv'
      BY <1>1, <1>3, <1>5, <2>5, <3>1 DEF RootInv, RootInUse, OnRoot, Point, Reading
    <3> QED
      BY <3>1, <3>4, <3>5, <3>6 DEF RootReadInv, LsListsRoot
  <2> QED
    BY <2>6, <2>7
<1> QED
  BY <1>4, <1>5

LEMMA ShowGotRoot ==
  ASSUME FatInv, PathInv, RootReadInv, RootOnDisk, FirstSectorDoes, ShowGot
  PROVE  RootReadInv'
<1>1. /\ pc \in {"catGot", "lsGot"} /\ cur \in Handles /\ fd \in [Handles -> Handle]
      /\ UNCHANGED <<cmd, arg, path, cur, failed, got>> /\ RootFields(fd[ROOT])
      /\ (pc = "catGot" => cmd = "cat") /\ (pc = "lsGot" => cmd = "ls")
      /\ got \in Seq(Place) /\ pc' \in {"cli", cmd} /\ fd' \in {fd, Closed(cur)}
  BY DEF ShowGot, Show, CloseAndReturn, FatInv, FatTypeOK, Handle, Callers, RootReadInv, RootInv,
         DataTypes, Point, Reading, callVars
<1>2. RootFields(fd'[ROOT])
  BY <1>1, ClosedRoot
<1>3. CASE pc = "catGot"
  <2>1. cur # ROOT
    BY <1>3, RootUsed DEF Point, Reading
  <2>2. fd'[ROOT] = fd[ROOT]
    BY <1>1, <2>1, ClosedRoot DEF Handles
  <2> QED
    BY <1>1, <1>2, <1>3, <2>1, <2>2, AwayFromRoot DEF RootReadInv, RootInv, RootInUse
<1>4. CASE pc = "lsGot"
  <2>1. cmd = "ls" /\ cur = ROOT
    <3>1. arg = <<>> /\ Depth = 0
      BY <1>1, <1>4, PathLengths DEF PathInv, PathParts, Depth
    <3> QED
      BY <1>1, <1>4, <3>1, HandleNames DEF PathInv
  <2>2. CASE failed
    BY <1>1, <1>2, <2>2 DEF RootReadInv, RootInv, LsListsRoot
  <2>3. CASE ~failed
    <3> DEFINE f == fd[ROOT]
    <3>1. Len(RootEntries) = DirEntryCount /\ DirEntryCount \in Nat
          /\ Len(EntriesOf(RootEntry)) = DirEntryCount
      BY RootEntriesAre DEF RootEntries
    <3>2. PICK i \in 0 .. LS_LIMIT : EntriesDone(RootEntry, i) /\ i <= DirEntryCount
                                      /\ shown = SubSeq(RootEntries, 1, i)
      BY <1>4, <2>1, <2>3, <3>1 DEF RootReadInv, Listed, Point, Reading
    <3>3. i \in Nat /\ LS_LIMIT \in Nat
      BY FatAssumption
    <3>4. RootInUse /\ OnRoot(f, "match")
      BY <1>4, <2>1, <2>3, HandleNames DEF RootReadInv, RootInv, RootInUse, OnRoot, Point, Reading
    <3>5. ENTRY_SIZE * (LS_LIMIT + 1) < SECTOR_SIZE /\ ENTRY_SIZE * (LS_LIMIT + 1) \in Nat
      <4>1. \A a, b \in Nat : b * a = a * b /\ a * b \in Nat
        BY SMT
      <4> QED
        BY <3>3, <4>1, ParameterTypes DEF FirstSectorDoes
    <3>6. ENTRY_SIZE * i < SECTOR_SIZE /\ ENTRY_SIZE * (i + 1) < SECTOR_SIZE
      <4>1. ENTRY_SIZE * i <= ENTRY_SIZE * (LS_LIMIT + 1)
            /\ ENTRY_SIZE * (i + 1) <= ENTRY_SIZE * (LS_LIMIT + 1)
        <5>1. \A a, b, c \in Nat : b <= c => a * b <= a * c
          BY SMT
        <5> QED
          BY <3>2, <3>3, <5>1, ParameterTypes
      <4>2. ENTRY_SIZE * i \in Nat /\ ENTRY_SIZE * (i + 1) \in Nat
        BY <3>3, ParameterTypes
      <4> QED
        BY <3>5, <4>1, <4>2, ParameterTypes
    <3>7. Len(shown) = i
      BY <3>1, <3>2, <3>3
    <3>8. i < DirEntryCount /\ got # <<>> /\ Len(got) = ENTRY_SIZE /\ EntryRead = RootEntries[i + 1]
          /\ f.pos = ENTRY_SIZE * (i + 1)
      <4>1. CASE got = <<>>
        <5>1. f.pos = ENTRY_SIZE * i + 0 /\ i = DirEntryCount
          BY <1>4, <2>1, <3>1, <3>2, <4>1 DEF EntriesDone, Point, Reading
        <5>2. f.pos = ENTRY_SIZE * i
          BY <3>3, <5>1, ParameterTypes
        <5>3. i < DirEntryCount
          BY <1>1, <3>3, <3>4, <3>6, <5>2, InFirstSector
        <5> QED
          BY <5>1, <5>3
      <4>2. CASE got # <<>>
        <5>1. /\ i < DirEntryCount /\ Len(got) = ENTRY_SIZE /\ EntryRead = RootEntries[i + 1]
              /\ f.pos = ENTRY_SIZE * i + ENTRY_SIZE
          BY <1>4, <2>1, <3>1, <3>2, <4>2 DEF EntriesDone, Point, Reading, RootEntries
        <5>2. ENTRY_SIZE * (i + 1) = ENTRY_SIZE * i + ENTRY_SIZE
          BY <3>3, EntryOrder
        <5> QED
          BY <4>2, <5>1, <5>2
      <4> QED
        BY <4>1, <4>2
    <3>9. CASE i < LS_LIMIT
      <4>1. shown' = shown \o <<RootEntries[i + 1]>> /\ pc' = "ls" /\ UNCHANGED fd
        BY <1>4, <2>1, <3>7, <3>8, <3>9 DEF ShowGot, Show
      <4>2. shown' = SubSeq(RootEntries, 1, i + 1)
        BY <3>1, <3>2, <3>3, <3>8, <4>1, NextShown
      <4>3. i + 1 \in 0 .. DirEntryCount /\ EntriesDone(RootEntry, i + 1)'
        BY <1>1, <1>4, <3>1, <3>2, <3>3, <3>8, <4>1, DoneNext
      <4>4. Listed'
        <5>1. i + 1 \in 0 .. LS_LIMIT
          BY <3>3, <3>9
        <5> QED
          BY <3>1, <4>2, <4>3, <5>1 DEF Listed
      <4>5. Searched(RootEntry)'
        BY <4>1 DEF Searched, Point, Reading
      <4>6. RootInv'
        BY <1>1, <1>2, <2>1, <3>4, <4>1 DEF RootInv, RootInUse, OnRoot, Point, Reading
      <4> QED
        BY <4>1, <4>4, <4>5, <4>6 DEF RootReadInv, LsListsRoot
    <3>10. CASE ~(i < LS_LIMIT)
      <4>1. shown' = shown /\ pc' = "cli" /\ fd' = Closed(ROOT)
        BY <1>4, <2>1, <3>7, <3>10 DEF ShowGot, CloseAndReturn
      <4>2. i = LS_LIMIT /\ Lower(LS_LIMIT, DirEntryCount) = i
        BY <3>1, <3>2, <3>3, <3>10 DEF Lower
      <4>3. LsListsRoot'
        BY <3>2, <4>1, <4>2 DEF LsListsRoot, RootEntries
      <4>4. f.buf = PartitionOffset + RootDirLba
        <5>1. i + 1 \in Nat
          BY <3>3
        <5> QED
          BY <1>1, <3>4, <3>6, <3>8, <5>1, InFirstSector
      <4>5. RootIdle(fd'[ROOT])
        BY <1>1, <4>1, <4>4, ClosedRoot
      <4> QED
        BY <1>2, <4>1, <4>3, <4>5
           DEF RootReadInv, RootInv, RootInUse, Searched, Listed, Point, Reading
    <3> QED
      BY <3>9, <3>10
  <2> QED
    BY <2>2, <2>3
<1> QED
  BY <1>1, <1>3, <1>4

\* The hypotheses under which the root directory is what the reader of ls expects.
LEMMA NextRootInv ==
  ASSUME FatInv, PathInv, ReadInv, RootReadInv, RootOnDisk, FirstSectorDoes, [Next]_vars
  PROVE  RootReadInv'
<1>1. CASE FindFile \/ ReadFile \/ ReadDirectory
  BY <1>1, CallReadRoot DEF FindFile, ReadFile, ReadDirectory
<1>2. CASE UNCHANGED vars
  BY <1>2 DEF RootReadInv, RootInv, RootFields, RootIdle, OnRoot, RootInUse, LsListsRoot,
     Searched, Listed, EntriesDone, EntryRead, Point, vars
<1> QED
  BY <1>1, <1>2, CommandRoot, OpenLoopRoot, ReadLoopRoot, NextRootSectorRoot, FileStepRoot,
     MatchRoot, OpenEntryRoot, ShowGotRoot DEF Next, DriverStep

LEMMA RootInvHolds ==
  ASSUME RootOnDisk, FirstSectorDoes
  PROVE  Spec => []PathInv /\ []RootReadInv
<1>1. FatInv /\ PathInv /\ [Next]_vars => PathInv'
  BY PathKept
<1>2. FatInv /\ PathInv /\ ReadInv /\ RootReadInv /\ [Next]_vars => RootReadInv'
  BY NextRootInv
<1> QED
  BY <1>1, <1>2, PathInitially, RootInitially, FatInvHolds, ReadInvHolds, PTL DEF Spec

\* On every volume whose root directory is on the disk, and if what is looked up
\* and listed there is in its first sector: ls shows the first entries of the root
\* directory, whatever was opened, read or not found before.
THEOREM RootIsListed ==
  ASSUME RootOnDisk, FirstSectorDoes
  PROVE  Spec => []LsListsRoot
<1>1. RootReadInv => LsListsRoot
  BY DEF RootReadInv
<1> QED
  BY <1>1, RootInvHolds, PTL

-----------------------------------------------------------------------------
\* A path that leads to an entry leads through directories.
LEMMA LedAlong ==
  ASSUME NEW p \in Seq(STRING), Resolve(p) # NoEntry, NEW k \in 0 .. Len(p)
  PROVE  Along(p)[k] # NoEntry /\ (k < Len(p) => Along(p)[k].dir)
<1> DEFINE at == Along(p)
<1>1. Len(p) \in Nat /\ at[Len(p)] # NoEntry
  BY DEF Resolve
<1>2. \A j \in 1 .. Len(p) : at[j] = Enter(at[j - 1], p[j])
  BY AlongSteps
<1> HIDE DEF at
<1>3. ASSUME NEW j \in 0 .. Len(p)
      PROVE  at[j] # NoEntry
  <2> DEFINE S == {d \in Nat : j + d <= Len(p) => at[j + d] = NoEntry}
  <2>1. SUFFICES ASSUME at[j] = NoEntry PROVE FALSE
    OBVIOUS
  <2>2. j \in Nat /\ j + 0 = j
    BY <1>1
  <2>3. 0 \in S
    BY <2>1, <2>2
  <2>4. ASSUME NEW d \in Nat, d \in S PROVE d + 1 \in S
    <3> SUFFICES ASSUME j + (d + 1) <= Len(p) PROVE at[j + (d + 1)] = NoEntry
      OBVIOUS
    <3>1. j + (d + 1) \in 1 .. Len(p) /\ (j + (d + 1)) - 1 = j + d /\ j + d <= Len(p)
      BY <1>1, <2>2
    <3>2. at[j + d] = NoEntry
      BY <2>4, <3>1
    <3>3. at[j + (d + 1)] = Enter(NoEntry, p[j + (d + 1)])
      BY <1>2, <3>1, <3>2
    <3> QED
      BY <3>3 DEF Enter
  <2> HIDE DEF S
  <2>5. Nat \subseteq S
    BY <2>3, <2>4, Induct
  <2>6. Len(p) - j \in S /\ j + (Len(p) - j) = Len(p)
    BY <1>1, <2>2, <2>5
  <2> QED
    BY <1>1, <2>6 DEF S
<1>4. ASSUME k < Len(p)
      PROVE  at[k].dir
  <2>1. k + 1 \in 1 .. Len(p) /\ (k + 1) - 1 = k /\ k + 1 \in 0 .. Len(p)
    BY <1>1, <1>4
  <2>2. Enter(at[k], p[k + 1]) # NoEntry
    BY <1>2, <1>3, <2>1
  <2> QED
    BY <2>2 DEF Enter
<1> QED
  BY <1>3, <1>4 DEF at

\* Where the driver is on such a path.
LEMMA Leading ==
  ASSUME PathInv, FirstSectorDoes, PathsUndamaged, Leads, pc # "cli"
  PROVE  /\ At # NoEntry /\ Fields(At)
         /\ Depth = 0 => At = RootEntry
         /\ Depth # 0 => Undamaged(At)
         /\ path = <<>> => At = Resolve(arg) /\ Depth # 0
         /\ path # <<>> => /\ At.dir /\ Along(arg)[Depth + 1] # NoEntry
                           /\ Along(arg)[Depth + 1] = Enter(At, Head(path))
<1>1. /\ arg \in Paths /\ arg \in Seq(STRING) /\ Len(arg) \in Nat \ {0} /\ Depth \in 0 .. Len(arg)
      /\ Len(path) \in Nat /\ Depth = Len(arg) - Len(path)
      /\ path = <<>> <=> Len(path) = 0
  <2>1. arg \in Paths /\ arg # <<>> /\ PathParts
    BY DEF PathInv, PathParts, Leads
  <2> QED
    BY <2>1, PathLengths DEF Depth
<1>2. Resolve(arg) # NoEntry
  BY DEF Leads
<1>3. /\ Along(arg)[0] = RootEntry
      /\ \A k \in 1 .. Len(arg) : Along(arg)[k] = Enter(Along(arg)[k - 1], arg[k])
      /\ \A k \in 0 .. Len(arg) : Along(arg)[k] \in VolumeEntries
  BY <1>1, AlongSteps
<1> DEFINE d == Depth
<1> HIDE DEF d
<1>4. At = Along(arg)[d]
  BY DEF At, d
<1>5. d \in 0 .. Len(arg) /\ d = Len(arg) - Len(path)
  BY <1>1 DEF d
<1>6. At # NoEntry /\ Fields(At)
  BY <1>1, <1>2, <1>3, <1>4, <1>5, LedAlong, VolumeFields
<1>7. d # 0 => Undamaged(At)
  <2> SUFFICES ASSUME d # 0 PROVE Undamaged(At)
    OBVIOUS
  <2>1. d \in 1 .. Len(arg)
    BY <1>1, <1>5
  <2> QED
    BY <1>1, <1>4, <1>6, <2>1 DEF PathsUndamaged
<1>8. path = <<>> => At = Resolve(arg) /\ d # 0
  BY <1>1, <1>4, <1>5 DEF Resolve
<1>9. ASSUME path # <<>>
      PROVE  At.dir /\ Along(arg)[d + 1] # NoEntry /\ Along(arg)[d + 1] = Enter(At, Head(path))
  <2>1. d < Len(arg) /\ d + 1 \in 1 .. Len(arg) /\ (d + 1) - 1 = d /\ d + 1 \in 0 .. Len(arg)
        /\ 1 \in 1 .. Len(path)
    BY <1>1, <1>5, <1>9
  <2>2. Head(path) = path[1] /\ path[1] = arg[d + 1]
    BY <1>9, <2>1, TailOf DEF PathInv, PathParts, d
  <2> QED
    BY <1>1, <1>2, <1>3, <1>4, <1>5, <2>1, <2>2, LedAlong
<1> QED
  BY <1>3, <1>4, <1>6, <1>7, <1>8, <1>9 DEF d

\* What cat has shown, of what there is.
LEMMA ShownSoFar ==
  ASSUME FatInv, PathInv, ReadInv, Found, SoundCache, FirstSectorDoes, PathsUndamaged,
         Leads, pc # "cli", ~Resolve(arg).dir
  PROVE  /\ pc # "wild" /\ IsPrefix(shown, Contents(Resolve(arg)))
         /\ pc = "catGot" /\ got = <<>> => shown = Contents(Resolve(arg))
<1> DEFINE e == Resolve(arg)
           f == fd[cur]
<1>1. cur # Null /\ cmd = "cat" /\ ~failed
  BY DEF Found, Leads
<1>2. pc # "wild"
  BY <1>1 DEF PathInv
<1>3. shown \in Seq(Place)
  BY <1>1 DEF FatInv, DataTypes
<1>4. CASE Point \in {"open", "find", "match", "openEntry"}
  <2>1. shown = <<>> /\ pc # "catGot"
    BY <1>4 DEF FatInv, ShownFromHandle, Point, Reading
  <2>2. Fields(e)
    <3>1. arg \in Seq(STRING) /\ Len(arg) \in 0 .. Len(arg)
      BY PathLengths DEF PathInv
    <3> QED
      BY <3>1, AlongSteps, VolumeFields DEF Resolve
  <2>3. IsPrefix(<<>>, Contents(e))
    <3>1. Len(Contents(e)) = e.size /\ e.size \in Nat
      BY <2>2 DEF Contents, Fields
    <3>2. SubSeq(Contents(e), 1, 0) = <<>> /\ SubSeq(<<>>, 1, 0) = <<>> /\ Len(<<>>) = 0
      OBVIOUS
    <3> QED
      BY <3>1, <3>2 DEF IsPrefix
  <2> QED
    BY <1>2, <2>1, <2>3
<1>5. CASE Point \in {"cat", "catGot"}
  <2>1. path = <<>> /\ e = At /\ Depth # 0 /\ Fields(e) /\ Undamaged(e) /\ pc # "openEntry"
    BY <1>1, <1>5, Leading DEF PathInv, Point, Reading
  <2>2. f.dir = e.dir /\ f.first = e.first /\ f.size = e.size
    BY <2>1 DEF Found, Opened
  <2>3. cur \in FileHandles /\ f \in Handle
    <3>1. cur # ROOT /\ cur \in Handles
      BY <1>1, <1>5, <2>1 DEF PathInv, FatInv, FatTypeOK, Point, Reading
    <3> QED
      BY <3>1 DEF Handles, FatInv, FatTypeOK, Handle
  <2>4. Len(shown) <= f.pos /\ f.pos <= f.size /\ e.size \in Nat /\ f.pos \in Nat
    <3>1. f.pos \in Nat /\ e.size \in Nat
      BY <2>1, <2>3 DEF Handle, Fields
    <3>2. f.pos <= f.size
      BY <2>2, <2>3, HandleNames DEF FatInv, Positions, Bounded
    <3>3. Point = "catGot" => Len(shown) + Len(got) <= f.pos
      BY DEF FatInv, ShownFromHandle
    <3>4. Len(shown) \in Nat /\ Len(got) \in Nat
      BY <1>3 DEF FatInv, DataTypes
    <3>5. pc = "cat" => Len(shown) <= f.pos
      BY <1>1 DEF FatInv, ShownFromHandle
    <3>6. Point = "cat" => pc = "cat"
      BY DEF Point, Reading, FatInv, Callers
    <3> QED
      BY <1>5, <3>1, <3>2, <3>3, <3>4, <3>5, <3>6
  <2>5. ASSUME NEW k \in 1 .. Len(shown)
        PROVE  shown[k] = PlaceOf(e.first, k - 1)
    <3>1. e.size # 0
      BY <1>3, <2>2, <2>4, <2>5
    <3>2. e.first \in Clusters
      BY <2>1, <3>1 DEF Undamaged
    <3>3. Tracked
      BY <1>1, <2>1, <2>2, <2>3, <3>2 DEF Tracked
    <3> QED
      BY <1>5, <2>2, <3>3 DEF ReadInv, BytesOfChain
  <2>6. Len(Contents(e)) = e.size /\ \A k \in 1 .. e.size : Contents(e)[k] = PlaceOf(e.first, k - 1)
    BY <2>4 DEF Contents
  <2>7. IsPrefix(shown, Contents(e))
    <3>1. Len(shown) \in Nat /\ Len(shown) <= e.size
      BY <1>3, <2>2, <2>4
    <3>2. \A k \in 1 .. Len(shown) : shown[k] = Contents(e)[k]
      BY <2>5, <2>6, <3>1, <2>4
    <3> QED
      BY <2>6, <3>1, <3>2, PrefixOf
  <2>8. ASSUME pc = "catGot", got = <<>>
        PROVE  shown = Contents(e)
    <3>1. f.pos = f.size
      BY <1>1, <2>2, <2>8 DEF ReadInv, Fills, Bounded, Point, Reading
    <3>2. Len(shown) = e.size
      <4>1. CASE e.first \in Clusters
        <5>1. Tracked
          BY <1>1, <2>1, <2>2, <2>3, <4>1, <2>8 DEF Tracked
        <5>2. Len(shown) + Len(got) = f.pos /\ Len(got) = 0
          BY <2>8, <5>1 DEF ReadInv, BytesOfChain, Point, Reading
        <5> QED
          BY <1>3, <2>2, <2>4, <3>1, <5>2
      <4>2. CASE e.first \notin Clusters
        <5>1. e.size = 0
          BY <2>1, <4>2 DEF Undamaged
        <5> QED
          BY <1>3, <2>2, <2>4, <5>1
      <4> QED
        BY <4>1, <4>2
    <3>3. \A k \in 1 .. e.size : shown[k] = Contents(e)[k]
      BY <2>5, <2>6, <3>2
    <3> HIDE DEF e
    <3>4. Contents(e) = [k \in 1 .. e.size |-> Contents(e)[k]]
      BY DEF Contents
    <3>5. shown = [k \in 1 .. Len(shown) |-> shown[k]]
      BY <1>3
    <3> QED
      BY <3>2, <3>3, <3>4, <3>5
  <2> QED
    BY <1>2, <2>7, <2>8
<1>6. Point \in {"open", "find", "match", "openEntry", "cat", "catGot"}
  BY <1>1, <1>2 DEF FatInv, FatTypeOK, Callers, Point, Reading
<1> QED
  BY <1>4, <1>5, <1>6

-----------------------------------------------------------------------------
\* What the handle and its buffer are, when a subdirectory is searched.
LEMMA DirInUse ==
  ASSUME FatInv, PathInv, ReadInv, Found, SoundCache, FirstSectorDoes, PathsUndamaged,
         Leads, Point \in {"find", "match"}, Depth # 0
  PROVE  /\ cur \in FileHandles /\ At.dir /\ Undamaged(At) /\ Tracked /\ pc # "openEntry"
         /\ fd[cur].dir /\ fd[cur].first = At.first
         /\ \/ fd[cur].size = 0
            \/ fd[cur].cluster = EOC /\ fd[cur].size = ENTRY_SIZE * Len(EntriesOf(At))
<1>1. pc \notin {"cli", "openEntry"} /\ cur # Null /\ path # <<>>
  BY DEF Found, PathInv, Point, Reading
<1>2. At.dir /\ Undamaged(At) /\ Fields(At)
  BY <1>1, Leading
<1>3. cur \in FileHandles
  BY <1>1 DEF PathInv, FatInv, FatTypeOK, Handles
<1>4. Opened(fd[cur], At)
  BY <1>1 DEF Found
<1>5. fd[cur].dir /\ fd[cur].first = At.first /\ At.first \in Clusters
  BY <1>2, <1>4 DEF Opened, Undamaged
<1>6. Tracked
  BY <1>1, <1>3, <1>5 DEF Tracked, Leads
<1> QED
  BY <1>1, <1>2, <1>3, <1>4, <1>5, <1>6 DEF Opened

\* In the middle of a subdirectory the buffer has the next entry; and while its end
\* has not been seen, there is one.
LEMMA DirByte ==
  ASSUME NEW at, at.dir, Undamaged(at), NEW f \in Handle, f.first = at.first,
         NEW i \in 0 .. Len(EntriesOf(at)), f.pos = ENTRY_SIZE * i,
         f.cluster = ChainFrom(f.first)[(f.pos \div SECTOR_SIZE) \div SectorsPerCluster],
         f.cluster \in Clusters, f.buf = ChainSector(f.first, f.pos \div SECTOR_SIZE)
  PROVE  i < Len(EntriesOf(at)) /\ EntryAt(f.buf, f.pos % SECTOR_SIZE) = EntriesOf(at)[i + 1]
<1> DEFINE size == Len(EntriesOf(at))
           n == f.pos \div SECTOR_SIZE
           r == f.pos % SECTOR_SIZE
<1>1. size \in Nat /\ at.first \in Clusters
  BY DirEntriesAre
<1>2. PICK len \in Nat : ChainFrom(at.first)[len] = EOC
                          /\ ENTRY_SIZE * size = SECTOR_SIZE * (len * SectorsPerCluster)
  BY DirEntriesAre
<1>3. \A k \in Nat : k < size =>
        EntriesOf(at)[k + 1] = EntryAt(PlaceOf(at.first, ENTRY_SIZE * k)[1],
                                       PlaceOf(at.first, ENTRY_SIZE * k)[2])
  BY DirEntriesAre
<1> HIDE DEF size
<1>4. i \in Nat /\ i <= size
  BY <1>1 DEF size
<1>5. SectorsPerCluster \in Nat \ {0}
  BY LayoutAssumption
<1>6. i < size
  <2> SUFFICES ASSUME i = size PROVE FALSE
    BY <1>1, <1>4
  <2>1. len * SectorsPerCluster \in Nat /\ len * SectorsPerCluster = SectorsPerCluster * len
    BY <1>5
  <2>2. f.pos = SECTOR_SIZE * (len * SectorsPerCluster)
    BY <1>2
  <2>3. f.pos \div SECTOR_SIZE = len * SectorsPerCluster
    BY <2>1, <2>2, QuotientOfMultiple, ParameterTypes
  <2>4. (f.pos \div SECTOR_SIZE) \div SectorsPerCluster = len
    BY <1>5, <2>1, <2>3, QuotientOfMultiple
  <2> QED
    BY <1>2, <2>4, TableAssumption
<1>7. f.pos = SECTOR_SIZE * n + r /\ n \in Nat /\ r \in Nat /\ r < SECTOR_SIZE
  BY DividedBy, ParameterTypes DEF Handle
<1> HIDE DEF n, r
<1>8. PlaceOf(at.first, f.pos) = <<ChainSector(at.first, n), r>>
  BY <1>7, PlaceOfByte
<1>9. EntriesOf(at)[i + 1] = EntryAt(ChainSector(at.first, n), r)
  BY <1>3, <1>4, <1>6, <1>8
<1> QED
  BY <1>6, <1>9 DEF size, n, r

\* The end of the chain is the end of the directory, and of the file.
LEMMA EndOfEntry ==
  ASSUME NEW e, Fields(e), Undamaged(e), e.first \in Clusters, NEW n \in Nat \ {0}, n % SectorsPerCluster = 0,
         ChainFrom(e.first)[(n - 1) \div SectorsPerCluster] # EOC,
         ChainFrom(e.first)[n \div SectorsPerCluster] = EOC
  PROVE  /\ e.dir => SECTOR_SIZE * n = ENTRY_SIZE * Len(EntriesOf(e))
         /\ ~e.dir => e.size <= SECTOR_SIZE * n
<1> DEFINE q == n \div SectorsPerCluster
           C == ChainFrom(e.first)
<1>1. SectorsPerCluster \in Nat \ {0} /\ SECTOR_SIZE \in Nat \ {0}
  BY LayoutAssumption
<1>2. n = SectorsPerCluster * q /\ q \in Nat
  <2>1. n = SectorsPerCluster * q + (n % SectorsPerCluster) /\ q \in Nat
    BY <1>1, DividedBy
  <2> HIDE DEF q
  <2> QED
    BY <1>1, <2>1
<1> HIDE DEF q, C
<1>3. q # 0 /\ q - 1 \in Nat
  <2>1. q # 0
    BY <1>1, <1>2
  <2> QED
    BY <1>2, <2>1
<1>4. (n - 1) \div SectorsPerCluster = q - 1
  <2>1. n - 1 = SectorsPerCluster * (q - 1) + (SectorsPerCluster - 1)
    BY <1>1, <1>2
  <2>2. SectorsPerCluster - 1 \in Nat /\ SectorsPerCluster - 1 < SectorsPerCluster
    BY <1>1
  <2> QED
    BY <1>1, <1>3, <2>1, <2>2, PartsOfPlace
<1>5. C[q - 1] # EOC /\ C[q] = EOC
  BY <1>4 DEF C, q
<1>6. ASSUME e.dir
      PROVE  SECTOR_SIZE * n = ENTRY_SIZE * Len(EntriesOf(e))
  <2>1. PICK len \in Nat :
          /\ C[len] = EOC
          /\ \A j \in 0 .. len - 1 : C[j] # EOC
          /\ ENTRY_SIZE * Len(EntriesOf(e)) = SECTOR_SIZE * (len * SectorsPerCluster)
    BY <1>6, DirEntriesAre DEF C
  <2>2. ~(q < len)
    BY <1>2, <1>5, <2>1
  <2>3. ~(len < q)
    <3> SUFFICES ASSUME len < q PROVE FALSE
      OBVIOUS
    <3>1. len <= q - 1
      BY <1>2, <1>3, <2>1
    <3> QED
      BY <1>3, <1>5, <2>1, <3>1, ChainEnded DEF C
  <2>4. len = q
    BY <1>2, <2>1, <2>2, <2>3
  <2>5. len * SectorsPerCluster = SectorsPerCluster * q
    BY <1>1, <1>2, <2>4
  <2> QED
    BY <1>2, <2>1, <2>5
<1>7. ASSUME ~e.dir
      PROVE  e.size <= SECTOR_SIZE * n
  <2> SUFFICES ASSUME ~(e.size <= SECTOR_SIZE * n) PROVE FALSE
    OBVIOUS
  <2>1. q * SectorsPerCluster * SECTOR_SIZE = SECTOR_SIZE * n /\ SECTOR_SIZE * n \in Nat
    <3>1. q * SectorsPerCluster = n
      BY <1>1, <1>2
    <3> QED
      BY <1>1, <3>1
  <2>2. e.size \in Nat /\ SECTOR_SIZE * n < e.size /\ e.size # 0
    BY <2>1 DEF Fields
  <2>3. q <= SECTOR_SIZE * n
    <3>1. \A a, b, c \in Nat : b # 0 /\ c # 0 => a <= c * (b * a)
      <4>1. \A a, b \in Nat : b # 0 => a <= b * a /\ b * a \in Nat
        BY SMT
      <4> QED
        BY <4>1
    <3> QED
      BY <1>1, <1>2, <3>1
  <2>4. q \in 0 .. e.size
    BY <1>2, <2>1, <2>2, <2>3
  <2>5. C[q] \in Clusters
    BY <1>7, <2>1, <2>2, <2>4 DEF Undamaged, C
  <2> QED
    BY <1>5, <2>5, TableAssumption
<1> QED
  BY <1>6, <1>7

-----------------------------------------------------------------------------
\* The directory that is searched, the root or another.
LEMMA Searching ==
  ASSUME FindInv, SoundVolume, Leads, Point \in {"find", "match"}
  PROVE  /\ Searched(At) /\ At # NoEntry /\ At.dir
         /\ Len(EntriesOf(At)) \in Nat /\ DOMAIN EntriesOf(At) = 1 .. Len(EntriesOf(At))
         /\ Along(arg)[Depth + 1] # NoEntry /\ Along(arg)[Depth + 1] = Enter(At, Head(path))
<1>1. pc \notin {"cli", "openEntry"} /\ path # <<>>
  BY DEF FindInv, PathInv, Point, Reading
<1>2. /\ At # NoEntry /\ At.dir /\ (Depth = 0 => At = RootEntry)
      /\ Along(arg)[Depth + 1] # NoEntry /\ Along(arg)[Depth + 1] = Enter(At, Head(path))
  BY <1>1, Leading DEF FindInv, SoundVolume
<1>3. CASE Depth = 0
  <2>1. cur = ROOT /\ ~failed
    BY <1>1, <1>3 DEF FindInv, Found, Leads, PathInv
  <2>2. Searched(RootEntry)
    BY <2>1 DEF FindInv, RootReadInv
  <2> QED
    BY <1>2, <1>3, <2>2, RootEntriesAre DEF RootEntries
<1>4. CASE Depth # 0
  <2>1. Searched(At) /\ Undamaged(At)
    BY <1>1, <1>4, Leading DEF FindInv, Found, SoundVolume
  <2> QED
    BY <1>2, <2>1, DirEntriesAre
<1> QED
  BY <1>2, <1>3, <1>4

\* The first name is not yet found when FAT_FindFile starts.
LEMMA SearchStarts ==
  ASSUME Point' = "find", fd'[cur'].pos = 0, NEW at, Len(EntriesOf(at)) \in Nat
  PROVE  Searched(at)'
<1>1. EntriesDone(at, 0)'
  <2>1. ENTRY_SIZE * 0 = 0
    BY ParameterTypes
  <2> QED
    BY <2>1 DEF EntriesDone
<1>2. 0 \in 0 .. Len(EntriesOf(at))
  OBVIOUS
<1> QED
  BY <1>1, <1>2 DEF Searched

\* Where the same directory is searched before and after a step.
LEMMA SearchedSame ==
  ASSUME NEW at, At' = at, Searched(at)'
  PROVE  Searched(At)'
BY DEF Searched, EntriesDone

LEMMA CommandFound == FindInv /\ Command => Found'
<1> SUFFICES ASSUME FindInv, Command PROVE Found'
  OBVIOUS
<1>1. pc' = "open" /\ cur' = ROOT /\ path' = arg'
  BY DEF Command
<1>2. arg' \in Seq(STRING)
  <2>1. arg' \in Paths \/ arg' = <<>>
    BY DEF Command
  <2>2. <<>> \in Seq(STRING)
    OBVIOUS
  <2> QED
    BY <2>1, <2>2, FatAssumption
<1>3. Depth' = 0
  BY <1>1, <1>2 DEF Depth
<1> QED
  BY <1>1, <1>3, HandleNames DEF Found

\* Any other step leaves the path of the command as it was, and a failure a failure.
LEMMA LedBefore ==
  ASSUME DriverStep, Leads'
  PROVE  Leads /\ pc # "cli" /\ UNCHANGED <<cmd, arg>>
<1> USE DEF callVars
<1>1. CASE OpenLoop \/ ReadLoop \/ Match
  BY <1>1 DEF OpenLoop, ReadLoop, Match, Leads
<1>2. CASE FindFile \/ ReadFile \/ ReadDirectory
  BY <1>2 DEF FindFile, ReadFile, ReadDirectory, CallRead, Leads
<1>3. CASE NextRootSector
  <2>1. pc = "refill" /\ UNCHANGED <<cmd, arg>> /\ (failed => failed')
    BY <1>3 DEF NextRootSector
  <2> QED
    BY <2>1 DEF Leads
<1>4. CASE NextFileSector
  BY <1>4 DEF NextFileSector, Leads
<1>5. CASE LoadSector
  <2>1. pc = "load" /\ UNCHANGED <<cmd, arg>> /\ (failed => failed')
    BY <1>5 DEF LoadSector
  <2> QED
    BY <2>1 DEF Leads
<1>6. CASE NextCluster
  BY <1>6 DEF NextCluster, cacheVars, Leads
<1>7. CASE OpenEntry
  <2>1. pc = "openEntry" /\ UNCHANGED <<cmd, arg>>
    BY <1>7 DEF OpenEntry
  <2>2. failed => failed'
    BY <1>7 DEF OpenEntry
  <2> QED
    BY <2>1, <2>2 DEF Leads
<1>8. CASE ShowGot
  <2>1. pc \in {"catGot", "lsGot"} /\ UNCHANGED <<cmd, arg, failed>>
    BY <1>8 DEF ShowGot
  <2> QED
    BY <2>1 DEF Leads
<1> QED
  BY <1>1, <1>2, <1>3, <1>4, <1>5, <1>6, <1>7, <1>8 DEF DriverStep

LEMMA OpenLoopFound == FindInv /\ SoundVolume /\ OpenLoop => Found'
<1> SUFFICES ASSUME FindInv, SoundVolume, OpenLoop, Leads' PROVE Found'
  BY DEF Found
<1>1. Leads /\ pc = "open" /\ UNCHANGED <<cmd, arg>> /\ cmd = "cat"
  BY LedBefore DEF DriverStep, OpenLoop, Leads
<1>2. pc' = (IF path = <<>> THEN "cat" ELSE "find") /\ UNCHANGED <<path, cur, fd>>
  BY <1>1 DEF OpenLoop, callVars
<1>3. cur # Null /\ Depth' = Depth /\ At' = At
  BY <1>1, <1>2 DEF FindInv, Found, Depth, At
<1>4. ASSUME Depth # 0
      PROVE  Opened(fd'[cur'], At') /\ Searched(At)'
  <2>1. Opened(fd[cur], At)
    BY <1>1, <1>4 DEF FindInv, Found
  <2>2. Searched(At)'
    <3>1. CASE path = <<>>
      BY <1>2, <3>1 DEF Searched, Point, Reading
    <3>2. CASE path # <<>>
      <4>1. At.dir /\ Undamaged(At)
        BY <1>1, <1>4, <3>2, Leading DEF FindInv, SoundVolume
      <4>2. Len(EntriesOf(At)) \in Nat /\ At.first \in Clusters
        BY <4>1, DirEntriesAre
      <4>3. cur \in FileHandles
        BY <1>1, <1>3, <1>4 DEF FindInv, PathInv, FatInv, FatTypeOK, Handles
      <4>4. Tracked
        BY <1>1, <2>1, <4>2, <4>3 DEF Tracked, SoundVolume, Leads, Opened
      <4>5. fd[cur].pos = 0
        BY <1>1, <4>4 DEF FindInv, ReadInv, BytesOfChain, Point, Reading
      <4>6. PICK at : at = At
        OBVIOUS
      <4>7. Searched(at)'
        <5>1. Point' = "find" /\ fd'[cur'].pos = 0
          BY <1>2, <3>2, <4>5 DEF Point, Reading
        <5> QED
          BY <4>2, <4>6, <5>1, SearchStarts
      <4> QED
        BY <1>3, <4>6, <4>7, SearchedSame
    <3> QED
      BY <3>1, <3>2
  <2> QED
    BY <1>2, <1>3, <2>1, <2>2
<1> QED
  BY <1>2, <1>3, <1>4 DEF Found

\* A step that leaves the path and the handle, which stays open, where they were.
LEMMA SamePlace ==
  ASSUME FindInv, DriverStep, Leads', UNCHANGED <<path, cur>>, pc # "openEntry",
         NEW at, at = At
  PROVE  /\ Leads /\ At' = at /\ Depth' = Depth /\ cur # Null
         /\ Depth # 0 => Opened(fd[cur], at) /\ Searched(at)
<1>1. Leads /\ pc # "cli" /\ UNCHANGED <<cmd, arg>>
  BY LedBefore
<1>2. At' = at /\ Depth' = Depth
  BY <1>1 DEF At, Depth
<1> QED
  BY <1>1, <1>2 DEF FindInv, Found

LEMMA CallReadFound ==
  ASSUME FindInv, SoundVolume, DriverStep, NEW n, NEW b, CallRead(n, b),
         <<pc, n, b>> \in {<<"find", ENTRY_SIZE, "match">>, <<"cat", CAT_SIZE, "catGot">>,
                           <<"ls", ENTRY_SIZE, "lsGot">>}
  PROVE  Found'
<1> SUFFICES ASSUME Leads' PROVE Found'
  BY DEF Found
<1>1. PICK at : at = At
  OBVIOUS
<1>2. UNCHANGED <<fd, cur, path>> /\ pc # "openEntry"
  BY DEF CallRead, callVars
<1>3. /\ Leads /\ At' = at /\ Depth' = Depth /\ cur # Null
      /\ Depth # 0 => Opened(fd[cur], at) /\ Searched(at)
  BY <1>1, <1>2, SamePlace
<1>4. pc' = "read" /\ back' = b
  BY <1>3 DEF CallRead
<1>5. ASSUME Depth # 0
      PROVE  Searched(At)'
  <2>1. CASE pc = "find"
    <3>1. b = "match" /\ n = ENTRY_SIZE /\ Point = "find"
      BY <2>1 DEF Point, Reading
    <3>2. /\ cur \in FileHandles /\ at.dir /\ Undamaged(at) /\ Tracked
          /\ fd[cur].dir /\ fd[cur].first = at.first
          /\ \/ fd[cur].size = 0
             \/ fd[cur].cluster = EOC /\ fd[cur].size = ENTRY_SIZE * Len(EntriesOf(at))
      BY <1>1, <1>3, <1>5, <3>1, DirInUse DEF FindInv, SoundVolume
    <3> DEFINE size == Len(EntriesOf(at))
    <3>3. size \in Nat
      BY <3>2, DirEntriesAre
    <3>4. PICK i \in 0 .. size : EntriesDone(at, i) /\ \A j \in 1 .. i : EntriesOf(at)[j].name # Head(path)
      BY <1>3, <1>5, <3>1 DEF Searched
    <3>5. Bounded(fd[cur]) => fd[cur].size = ENTRY_SIZE * size
      BY <3>2 DEF Bounded
    <3>6. ~Bounded(fd[cur]) => i < size
      <4> SUFFICES ASSUME ~Bounded(fd[cur]) PROVE i < size
        OBVIOUS
      <4>1. OnChain(fd[cur], "find")
        BY <2>1, <3>2 DEF FindInv, ReadInv
      <4>2. fd[cur].pos = ENTRY_SIZE * i
        BY <3>1, <3>4 DEF EntriesDone
      <4>3. fd[cur] \in Handle
        BY <3>2, HandleNames DEF FindInv, FatInv, FatTypeOK, Handle
      <4> HIDE DEF size
      <4>4. i \in 0 .. Len(EntriesOf(at))
        BY DEF size
      <4> QED
        BY <3>2, <4>1, <4>2, <4>3, <4>4, DirByte DEF OnChain, size
    <3> HIDE DEF size
    <3>7. EntriesDone(at, i)'
      <4>1. FatInv /\ Len(EntriesOf(at)) = size /\ <<pc, b>> = <<"find", "match">>
        BY <2>1, <3>1 DEF FindInv, size
      <4>2. CallRead(ENTRY_SIZE, b)
        BY <3>1
      <4> QED
        BY <1>3, <3>3, <3>4, <3>5, <3>6, <4>1, <4>2, DoneCalled
    <3>8. Searched(at)'
      BY <1>2, <3>4, <3>7 DEF Searched, size
    <3> QED
      BY <1>3, <3>8, SearchedSame
  <2>2. CASE pc # "find"
    BY <1>4, <2>2 DEF Searched, Point, Reading
  <2> QED
    BY <2>1, <2>2
<1> QED
  BY <1>2, <1>3, <1>4, <1>5 DEF Found

LEMMA ReadLoopFound == FindInv /\ SoundVolume /\ ReadLoop => Found'
<1> SUFFICES ASSUME FindInv, SoundVolume, ReadLoop, Leads' PROVE Found'
  BY DEF Found
<1>1. PICK at : at = At
  OBVIOUS
<1>2. /\ pc = "read" /\ UNCHANGED <<cur, path, back>> /\ pc' \in {back, "refill", "read"}
      /\ back \in {"match", "catGot", "lsGot"}
  BY DEF ReadLoop, callVars, FindInv, FatInv, Callers, Reading
<1>3. /\ Leads /\ At' = at /\ Depth' = Depth /\ cur # Null
      /\ Depth # 0 => Opened(fd[cur], at) /\ Searched(at)
  BY <1>1, <1>2, SamePlace DEF DriverStep
<1>4. Point = back /\ Point' = back
  BY <1>2 DEF Point, Reading
<1>5. ASSUME Depth # 0
      PROVE  Opened(fd'[cur], at)
  <2>1. cur \in Handles /\ fd \in [Handles -> Handle] /\ Opened(fd[cur], at)
    BY <1>3, <1>5 DEF FindInv, FatInv, FatTypeOK, Handle
  <2>2. fd' = fd \/ \E p : fd' = [fd EXCEPT ![cur].pos = p]
    BY DEF ReadLoop
  <2>3. ASSUME NEW p, fd' = [fd EXCEPT ![cur].pos = p]
        PROVE  Opened(fd'[cur], at)
    <3>1. fd'[cur] = [fd[cur] EXCEPT !.pos = p]
      BY <2>1, <2>3
    <3>2. /\ fd'[cur].dir = fd[cur].dir /\ fd'[cur].first = fd[cur].first
          /\ fd'[cur].size = fd[cur].size /\ fd'[cur].cluster = fd[cur].cluster
      BY <2>1, <3>1 DEF Handle
    <3> QED
      BY <2>1, <3>2 DEF Opened
  <2> QED
    BY <2>1, <2>2, <2>3
<1>6. ASSUME Depth # 0
      PROVE  Searched(At)'
  <2>1. CASE back = "match"
    <3>1. /\ cur \in FileHandles /\ at.dir /\ Undamaged(at) /\ Tracked
          /\ fd[cur].dir /\ fd[cur].first = at.first
      BY <1>1, <1>3, <1>4, <1>6, <2>1, DirInUse DEF FindInv, SoundVolume
    <3> DEFINE size == Len(EntriesOf(at))
               f == fd[cur]
    <3>2. size \in Nat
      BY <3>1, DirEntriesAre
    <3>3. PICK i \in 0 .. size : EntriesDone(at, i) /\ \A j \in 1 .. i : EntriesOf(at)[j].name # Head(path)
      BY <1>3, <1>4, <1>6, <2>1 DEF Searched
    <3>4. f \in Handle /\ OnChain(f, "read") /\ count \in Nat /\ f.pos \in Nat
      BY <1>2, <3>1, HandleNames DEF FindInv, ReadInv, FatInv, FatTypeOK, Handle
    <3>5. ASSUME count # 0
          PROVE  EntryAt(f.buf, f.pos % SECTOR_SIZE) = EntriesOf(at)[i + 1]
      <4>1. f.pos = ENTRY_SIZE * i
        <5>1. got = <<>>
          BY <1>2, <1>4, <2>1, <3>3, <3>5 DEF EntriesDone
        <5>2. f.pos = ENTRY_SIZE * i + 0
          BY <1>4, <2>1, <3>3, <5>1 DEF EntriesDone
        <5>3. i \in Nat
          BY <3>2
        <5> QED
          BY <5>2, <5>3, EntryPosition
      <4>2. ~(Bounded(f) /\ f.pos = f.size)
        <5>1. Bounded(f) => f.pos + count <= f.size
          BY <1>2 DEF FindInv, FatInv, Positions, Reading
        <5> QED
          BY <3>4, <3>5, <5>1
      <4> HIDE DEF size
      <4>3. i \in 0 .. Len(EntriesOf(at))
        BY DEF size
      <4> QED
        BY <3>1, <3>4, <4>1, <4>2, <4>3, DirByte DEF OnChain
    <3> HIDE DEF size
    <3>6. EntriesDone(at, i)'
      <4>1. FatInv /\ Len(EntriesOf(at)) = size /\ ReadLoop
        BY DEF FindInv, size
      <4> QED
        BY <2>1, <3>2, <3>3, <3>5, <4>1, DoneRead
    <3>7. Searched(at)'
      BY <1>2, <3>3, <3>6 DEF Searched, size
    <3> QED
      BY <1>3, <3>7, SearchedSame
  <2>2. CASE back # "match"
    BY <1>2, <1>4, <2>2 DEF Searched
  <2> QED
    BY <2>1, <2>2
<1> QED
  BY <1>2, <1>3, <1>5, <1>6 DEF Found

\* A step to the next sector or cluster changes nothing that has been read.
LEMMA SectorFound ==
  ASSUME FindInv, DriverStep, Leads', UNCHANGED <<path, cur, back, got, count>>,
         pc \in {"refill", "fat", "load"}, pc' \in {back, "fat", "load", "read"},
         fd'[cur].pos = fd[cur].pos,
         Depth # 0 /\ Opened(fd[cur], At) => Opened(fd'[cur], At)
  PROVE  Found'
<1>1. PICK at : at = At
  OBVIOUS
<1>2. /\ Leads /\ At' = at /\ Depth' = Depth /\ cur # Null
      /\ Depth # 0 => Opened(fd[cur], at) /\ Searched(at)
  BY <1>1, SamePlace
<1>3. Point' = Point
  BY DEF Point, Reading, FindInv, FatInv, Callers
<1>4. Depth # 0 => Searched(at)'
  <2> SUFFICES ASSUME Searched(at), Point = "match" PROVE Searched(at)'
    BY <1>2, <1>3 DEF Searched, Point, Reading, FindInv, FatInv, Callers
  <2>1. \A i : EntriesDone(at, i) => EntriesDone(at, i)'
    BY DoneKept DEF FindInv, ReadInv
  <2> QED
    BY <1>3, <2>1 DEF Searched
<1>5. pc' # "openEntry"
  BY DEF FindInv, FatInv, Callers, Reading
<1> QED
  BY <1>1, <1>2, <1>4, <1>5, SearchedSame DEF Found

LEMMA NextRootSectorFound == FindInv /\ NextRootSector => Found'
<1> SUFFICES ASSUME FindInv, NextRootSector, Leads' PROVE Found'
  BY DEF Found
<1>1. /\ pc = "refill" /\ cur = ROOT /\ UNCHANGED <<path, cur, back>> /\ pc' \in {back, "read"}
  BY DEF NextRootSector, callVars
<1>2. PICK at : at = At
  OBVIOUS
<1>3. Depth' = Depth /\ cur # Null
  BY <1>1, <1>2, SamePlace DEF DriverStep
<1>4. Depth = 0
  BY <1>1, <1>3 DEF FindInv, PathInv
<1>5. pc' # "openEntry"
  BY <1>1 DEF FindInv, FatInv, Callers, Reading
<1> QED
  BY <1>1, <1>3, <1>4, <1>5 DEF Found

LEMMA NextFileSectorFound == FindInv /\ NextFileSector => Found'
<1> SUFFICES ASSUME FindInv, NextFileSector, Leads' PROVE Found'
  BY DEF Found
<1>1. /\ pc = "refill" /\ pc' \in {"fat", "load"} /\ UNCHANGED <<path, cur, back, got, count>>
  BY DEF NextFileSector, callVars
<1>2. cur \in Handles /\ fd \in [Handles -> Handle]
  BY <1>1, HandleNames DEF FindInv, FatInv, FatTypeOK, Handle, Callers
<1>3. PICK s : fd' = [fd EXCEPT ![cur].sector = s]
  BY DEF NextFileSector
<1>4. /\ fd'[cur].pos = fd[cur].pos /\ fd'[cur].dir = fd[cur].dir /\ fd'[cur].first = fd[cur].first
      /\ fd'[cur].size = fd[cur].size /\ fd'[cur].cluster = fd[cur].cluster
  <2>1. fd'[cur] = [fd[cur] EXCEPT !.sector = s]
    BY <1>2, <1>3
  <2> QED
    BY <1>2, <2>1 DEF Handle
<1>5. Opened(fd[cur], At) => Opened(fd'[cur], At)
  BY <1>4 DEF Opened
<1> QED
  BY <1>1, <1>4, <1>5, SectorFound DEF DriverStep

LEMMA LoadSectorFound == FindInv /\ LoadSector => Found'
<1> SUFFICES ASSUME FindInv, LoadSector, Leads' PROVE Found'
  BY DEF Found
<1>1. /\ pc = "load" /\ pc' \in {"read", back} /\ UNCHANGED <<path, cur, back, got, count>>
  BY DEF LoadSector, callVars
<1>2. cur \in Handles /\ fd \in [Handles -> Handle]
  BY <1>1, HandleNames DEF FindInv, FatInv, FatTypeOK, Handle, Callers
<1>3. PICK s : fd' = [fd EXCEPT ![cur].buf = s]
  BY DEF LoadSector
<1>4. /\ fd'[cur].pos = fd[cur].pos /\ fd'[cur].dir = fd[cur].dir /\ fd'[cur].first = fd[cur].first
      /\ fd'[cur].size = fd[cur].size /\ fd'[cur].cluster = fd[cur].cluster
  <2>1. fd'[cur] = [fd[cur] EXCEPT !.buf = s]
    BY <1>2, <1>3
  <2> QED
    BY <1>2, <2>1 DEF Handle
<1>5. Opened(fd[cur], At) => Opened(fd'[cur], At)
  BY <1>4 DEF Opened
<1> QED
  BY <1>1, <1>4, <1>5, SectorFound DEF DriverStep

\* The end of the chain sets the size of a directory to that of its entries, and
\* leaves a file its size.
LEMMA NextClusterFound == FindInv /\ SoundVolume /\ NextCluster => Found'
<1> SUFFICES ASSUME FindInv, SoundVolume, NextCluster, Leads' PROVE Found'
  BY DEF Found
<1> DEFINE f == fd[cur]
           n == f.pos \div SECTOR_SIZE
<1>1. /\ pc = "fat" /\ UNCHANGED <<path, cur, back, got, count>>
      /\ back \in {"match", "catGot", "lsGot"} /\ ReadInv' /\ Leads
  BY NextClusterRead, LedBefore
     DEF NextCluster, callVars, FindInv, FatInv, Callers, Reading, DriverStep
<1>2. PICK next : IF next = EOC
                  THEN /\ fd' = [fd EXCEPT ![cur].cluster = EOC, ![cur].size = f.pos]
                       /\ pc' = back
                  ELSE /\ fd' = [fd EXCEPT ![cur].cluster = next]
                       /\ pc' = "load"
  BY DEF NextCluster
<1>3. cur \in Handles /\ fd \in [Handles -> Handle] /\ f \in Handle
  BY <1>1, HandleNames DEF FindInv, FatInv, FatTypeOK, Handle, Callers, Reading
<1>4. /\ fd'[cur].pos = f.pos /\ fd'[cur].dir = f.dir /\ fd'[cur].first = f.first
      /\ fd'[cur].cluster = next
      /\ IF next = EOC THEN fd'[cur].size = f.pos ELSE fd'[cur].size = f.size
  <2>1. CASE next = EOC
    <3>1. fd'[cur] = [f EXCEPT !.cluster = EOC, !.size = f.pos]
      BY <1>2, <1>3, <2>1
    <3> QED
      BY <1>3, <2>1, <3>1 DEF Handle
  <2>2. CASE next # EOC
    <3>1. fd'[cur] = [f EXCEPT !.cluster = next]
      BY <1>2, <1>3, <2>2
    <3> QED
      BY <1>3, <2>2, <3>1 DEF Handle
  <2> QED
    BY <2>1, <2>2
<1>5. ASSUME Depth # 0, Opened(f, At)
      PROVE  Opened(fd'[cur], At)
  <2>1. /\ Undamaged(At) /\ Fields(At)
        /\ f.dir = At.dir /\ f.first = At.first /\ (~At.dir => f.size = At.size)
    BY <1>1, <1>5, Leading DEF FindInv, SoundVolume, Opened
  <2>2. cur \in FileHandles
    BY <1>1, <1>3 DEF FindInv, PathInv, Handles
  <2>3. At.first \in Clusters
    <3> SUFFICES ASSUME At.first \notin Clusters PROVE FALSE
      OBVIOUS
    <3>1. ~At.dir /\ At.size = 0
      BY <2>1 DEF Undamaged
    <3>2. f.pos <= 0
      BY <1>3, <2>1, <3>1 DEF FindInv, FatInv, Positions, Bounded
    <3>3. back = "catGot"
      <4>1. path = <<>>
        BY <1>1, <3>1, Leading DEF FindInv, SoundVolume
      <4> QED
        BY <1>1, <4>1 DEF FindInv, PathInv, FatInv, Callers, Leads, Point, Reading
    <3>4. Len(shown) + Len(got) <= f.pos /\ got # <<>>
      BY <1>1, <3>3 DEF FindInv, FatInv, ShownFromHandle, ReadInv, Fills, Point, Reading
    <3>5. got \in Seq(Place) /\ shown \in Seq(Place)
      BY <1>1 DEF FindInv, FatInv, DataTypes, Leads
    <3> QED
      BY <1>3, <3>2, <3>4, <3>5 DEF Handle
  <2>4. Tracked /\ Tracked'
    <3>1. pc' \in {back, "load"}
      BY <1>2
    <3> QED
      BY <1>1, <1>4, <2>1, <2>2, <2>3, <3>1 DEF Tracked, Leads, SoundVolume
  <2>5. OnChain(f, "fat") /\ OnChain(fd'[cur], pc')
    BY <1>1, <2>4 DEF FindInv, ReadInv
  <2>6. f.pos = SECTOR_SIZE * n /\ n \in Nat \ {0} /\ n % SectorsPerCluster = 0 /\ f.cluster \in Clusters
        /\ f.cluster = ChainFrom(f.first)[(n - 1) \div SectorsPerCluster]
    <3>1. f.pos % SECTOR_SIZE = 0 /\ n # 0 /\ n % SectorsPerCluster = 0 /\ f.cluster \in Clusters
          /\ f.cluster = ChainFrom(f.first)[(n - 1) \div SectorsPerCluster]
      BY <2>5 DEF OnChain
    <3>2. f.pos = SECTOR_SIZE * n + (f.pos % SECTOR_SIZE) /\ n \in Nat
      BY <1>3, DividedBy, ParameterTypes DEF Handle
    <3> HIDE DEF n
    <3>3. SECTOR_SIZE * n \in Nat
      BY <3>2, ParameterTypes
    <3> QED
      BY <3>1, <3>2, <3>3
  <2>7. CASE next = EOC
    <3>1. ChainFrom(f.first)[n \div SectorsPerCluster] = EOC
      <4>1. pc' \notin {"refill", "fat", "load"} /\ fd'[cur].cluster = EOC /\ EOC \notin Clusters
        BY <1>1, <1>2, <1>4, <2>7, TableAssumption
      <4> QED
        BY <1>4, <2>5, <4>1 DEF OnChain
    <3> HIDE DEF n
    <3>2. /\ At.dir => SECTOR_SIZE * n = ENTRY_SIZE * Len(EntriesOf(At))
          /\ ~At.dir => At.size <= SECTOR_SIZE * n
      <4>1. ChainFrom(At.first)[(n - 1) \div SectorsPerCluster] # EOC
        BY <2>1, <2>6, TableAssumption
      <4> QED
        BY <2>1, <2>3, <2>6, <3>1, <4>1, EndOfEntry
    <3>3. At.dir => fd'[cur].cluster = EOC /\ fd'[cur].size = ENTRY_SIZE * Len(EntriesOf(At))
      BY <1>4, <2>6, <2>7, <3>2
    <3>4. ~At.dir => fd'[cur].size = At.size
      <4> SUFFICES ASSUME ~At.dir PROVE f.pos = At.size
        BY <1>4, <2>7
      <4>1. f.pos <= At.size
        BY <1>3, <2>1 DEF FindInv, FatInv, Positions, Bounded
      <4> QED
        BY <1>3, <2>1, <2>6, <3>2, <4>1 DEF Handle, Fields
    <3> QED
      BY <1>4, <2>1, <3>3, <3>4 DEF Opened
  <2>8. CASE next # EOC
    <3>1. At.dir => f.size = 0
      BY <1>5, <2>6, TableAssumption DEF Opened
    <3> QED
      BY <1>4, <2>1, <2>8, <3>1 DEF Opened
  <2> QED
    BY <2>7, <2>8
<1>6. pc' \in {back, "fat", "load", "read"}
  BY <1>2
<1> QED
  BY <1>1, <1>4, <1>5, <1>6, SectorFound DEF DriverStep

\* The entry found is the one the path leads to; that none is found cannot be.
LEMMA MatchFound == FindInv /\ SoundVolume /\ Match => Found'
<1> SUFFICES ASSUME FindInv, SoundVolume, Match, Leads' PROVE Found'
  BY DEF Found
<1>1. /\ pc = "match" /\ Point = "match" /\ Leads /\ UNCHANGED <<cmd, arg, got>> /\ got \in Seq(Place)
  BY LedBefore DEF Match, Point, Reading, DriverStep, FindInv, FatInv, DataTypes
<1>2. cur # Null /\ PathParts /\ path # <<>>
  BY <1>1 DEF FindInv, Found, PathInv
<1>3. PICK at : at = At
  OBVIOUS
<1> DEFINE size == Len(EntriesOf(at))
           d == Depth
<1>4. /\ Searched(at) /\ at # NoEntry /\ at.dir /\ size \in Nat /\ DOMAIN EntriesOf(at) = 1 .. size
      /\ Along(arg)[d + 1] # NoEntry /\ Along(arg)[d + 1] = Enter(at, Head(path))
  BY <1>1, <1>3, Searching
<1>5. PICK i \in 0 .. size : EntriesDone(at, i) /\ \A j \in 1 .. i : EntriesOf(at)[j].name # Head(path)
  BY <1>1, <1>4 DEF Searched
<1>6. /\ i < size /\ EntriesOf(at)[i + 1].name = Head(path) => Enter(at, Head(path)) = EntriesOf(at)[i + 1]
      /\ i = size => Enter(at, Head(path)) = NoEntry
  <2>1. PICK name : name = Head(path)
    OBVIOUS
  <2>2. \A j \in 1 .. i : EntriesOf(at)[j].name # name
    BY <1>5, <2>1
  <2>3. /\ i < size /\ EntriesOf(at)[i + 1].name = name => Enter(at, name) = EntriesOf(at)[i + 1]
        /\ i = size => Enter(at, name) = NoEntry
    <3> HIDE DEF d
    <3>1. size \in Nat /\ DOMAIN EntriesOf(at) = 1 .. size /\ at # NoEntry /\ at.dir /\ i \in 0 .. size
      BY <1>4
    <3> HIDE DEF size
    <3> QED
      BY <2>2, <3>1, EnterFirst
  <2> QED
    BY <2>1, <2>3
<1>7. got # <<>> /\ Len(got) = ENTRY_SIZE /\ i < size /\ EntryRead = EntriesOf(at)[i + 1]
  <2>1. got # <<>>
    BY <1>1, <1>4, <1>5, <1>6 DEF EntriesDone
  <2> QED
    BY <1>1, <1>5, <2>1 DEF EntriesDone
<1>8. ~(Len(got) < ENTRY_SIZE)
  BY <1>7, ParameterTypes
<1>9. CASE EntryRead.name = Head(path)
  <2>1. pc' = "openEntry" /\ entry' = EntryRead /\ path' = Tail(path) /\ cur' = cur
    BY <1>8, <1>9 DEF Match
  <2>2. Depth' = d + 1
    <3>1. path \in Seq(STRING)
      BY <1>2 DEF PathParts
    <3>2. Len(Tail(path)) = Len(path) - 1
      BY <1>2, <3>1, TailOf
    <3>3. Len(path) \in Nat /\ Len(arg) \in Nat
      BY <1>2, PathLengths
    <3>4. arg' = arg /\ Len(path') = Len(path) - 1
      BY <1>1, <2>1, <3>2
    <3>5. Depth' = Len(arg) - (Len(path) - 1)
      BY <3>4 DEF Depth
    <3> QED
      BY <3>3, <3>5 DEF Depth
  <2> HIDE DEF d
  <2>3. At' = Along(arg)[d + 1]
    BY <1>1, <2>2 DEF At
  <2>4. entry' = At'
    <3>1. Enter(at, Head(path)) = EntriesOf(at)[i + 1]
      BY <1>6, <1>7, <1>9
    <3> QED
      BY <1>4, <1>7, <2>1, <2>3, <3>1
  <2> QED
    BY <1>2, <2>1, <2>4 DEF Found
<1>10. CASE EntryRead.name # Head(path)
  <2>1. pc' = "find" /\ UNCHANGED <<cur, fd, path>>
    BY <1>8, <1>10 DEF Match
  <2>2. Depth' = Depth /\ At' = at
    BY <1>1, <1>3, <2>1 DEF Depth, At
  <2>3. i + 1 \in 0 .. size /\ EntriesDone(at, i + 1)'
    <3>1. pc \in {"match", "lsGot"} /\ pc' \in {"find", "ls"} /\ UNCHANGED <<fd, cur>>
      BY <1>1, <2>1
    <3> QED
      BY <1>4, <1>5, <1>7, <3>1, DoneNext
  <2>4. \A j \in 1 .. i + 1 : EntriesOf(at)[j].name # Head(path)
    <3>1. i \in Nat
      BY <1>4
    <3> QED
      BY <1>5, <1>7, <1>10, <3>1
  <2>5. Searched(at)'
    BY <2>1, <2>3, <2>4 DEF Searched
  <2>6. Depth # 0 => Opened(fd[cur], at)
    BY <1>1, <1>3 DEF FindInv, Found
  <2> QED
    BY <1>2, <2>1, <2>2, <2>5, <2>6, SearchedSame DEF Found
<1> QED
  BY <1>9, <1>10

LEMMA OpenEntryFound == FindInv /\ SoundVolume /\ OpenEntry => Found'
<1> SUFFICES ASSUME FindInv, SoundVolume, OpenEntry, Leads' PROVE Found'
  BY DEF Found
<1>1. pc = "openEntry" /\ pc' = "open" /\ Leads /\ UNCHANGED <<cmd, arg, path>> /\ fd \in [Handles -> Handle]
  BY LedBefore DEF OpenEntry, callVars, DriverStep, FindInv, FatInv, FatTypeOK, Handle
<1>2. entry = At /\ Depth # 0 /\ Undamaged(At) /\ At' = At /\ Depth' = Depth
  <2>1. entry = At /\ Depth # 0
    BY <1>1 DEF FindInv, Found, PathInv
  <2>2. Undamaged(At)
    BY <1>1, <2>1, Leading DEF FindInv, SoundVolume
  <2> QED
    BY <1>1, <2>1, <2>2 DEF At, Depth
<1> DEFINE lba == PartitionOffset + ClusterToLba(entry.first)
           new(ok) == [opened |-> ok, dir |-> entry.dir, pos |-> 0,
                       size |-> entry.size, first |-> entry.first,
                       cluster |-> entry.first, sector |-> 0, buf |-> Loaded(ok, lba)]
<1>3. PICK h \in FileHandles, ok \in BOOLEAN :
        /\ fd' = [fd EXCEPT ![h] = new(ok)]
        /\ cur' = IF ok THEN h ELSE Null
        /\ failed' = (failed \/ ~ok)
  BY EntryOpened DEF FindInv
<1>4. ok /\ cur' = h /\ cur' # Null
  BY <1>3, HandleNames DEF Leads
<1>5. fd'[cur'] = new(ok)
  <2> HIDE DEF new
  <2> QED
    BY <1>1, <1>3, <1>4, HandleNames
<1>6. Opened(fd'[cur'], At)
  <2> DEFINE g == new(ok)
  <2>1. g.dir = entry.dir /\ g.first = entry.first /\ g.size = entry.size
    OBVIOUS
  <2>2. entry.dir => entry.size = 0
    BY <1>2 DEF Undamaged
  <2> HIDE DEF g
  <2> QED
    BY <1>2, <1>5, <2>1, <2>2 DEF Opened, g
<1>7. Searched(At)'
  BY <1>1 DEF Searched, Point, Reading
<1> QED
  BY <1>1, <1>2, <1>4, <1>6, <1>7 DEF Found

LEMMA ShowGotFound == FindInv /\ ShowGot => Found'
<1> SUFFICES ASSUME FindInv, ShowGot, Leads', pc' # "cli" PROVE Found'
  BY DEF Found
<1>1. PICK at : at = At
  OBVIOUS
<1>2. UNCHANGED <<path, cur, cmd>> /\ pc \in {"catGot", "lsGot"}
  BY DEF ShowGot, callVars
<1>3. /\ Leads /\ At' = at /\ Depth' = Depth /\ cur # Null
      /\ Depth # 0 => Opened(fd[cur], at) /\ Searched(at)
  BY <1>1, <1>2, SamePlace DEF DriverStep
<1>4. UNCHANGED fd /\ pc' = "cat"
  BY <1>3 DEF ShowGot, Show, CloseAndReturn, Leads
<1>5. Searched(At)'
  BY <1>4 DEF Searched, Point, Reading
<1> QED
  BY <1>2, <1>3, <1>4, <1>5 DEF Found

LEMMA NextFound == FindInv /\ SoundVolume /\ [Next]_vars => Found'
<1> SUFFICES ASSUME FindInv, SoundVolume, [Next]_vars PROVE Found'
  OBVIOUS
<1>1. CASE FindFile \/ ReadFile \/ ReadDirectory
  BY <1>1, CallReadFound DEF FindFile, ReadFile, ReadDirectory, DriverStep
<1>2. CASE UNCHANGED vars
  BY <1>2 DEF FindInv, Found, Leads, Opened, Searched, EntriesDone, EntryRead, At, Depth, Point, vars
<1> QED
  BY <1>1, <1>2, CommandFound, OpenLoopFound, ReadLoopFound, NextRootSectorFound,
     NextFileSectorFound, NextClusterFound, LoadSectorFound, MatchFound, OpenEntryFound,
     ShowGotFound DEF Next, DriverStep

\* While cat runs, what it has shown is the beginning of the contents.
Displayed == pc # "cli" => CatDisplaysContents

LEMMA FindDisplayed == FindInv /\ SoundVolume => Displayed
<1> SUFFICES ASSUME FindInv, SoundVolume, pc # "cli", cmd = "cat", ~failed,
                    Resolve(arg) # NoEntry, ~Resolve(arg).dir
             PROVE  pc # "wild" /\ IsPrefix(shown, Contents(Resolve(arg)))
  BY DEF Displayed, CatDisplaysContents
<1> QED
  BY ShownSoFar DEF FindInv, SoundVolume, Leads

\* Back at the prompt after cat has shown all of the contents, they stay shown.
LEMMA NextDisplay ==
  ASSUME FindInv, SoundVolume, CatDisplaysContents, [Next]_vars, Displayed'
  PROVE  CatDisplaysContents'
<1>1. CASE pc' # "cli"
  BY <1>1 DEF Displayed
<1>2. CASE pc' = "cli" /\ pc # "cli"
  <2> SUFFICES ASSUME Leads', ~Resolve(arg').dir
               PROVE  /\ IsPrefix(shown', Contents(Resolve(arg')))
                      /\ shown' = Contents(Resolve(arg'))
    BY <1>2 DEF CatDisplaysContents, Leads
  <2>1. FatInv
    BY DEF FindInv
  <2>2. pc \in Reading => back # "cli"
    BY <2>1 DEF FatInv, Callers
  <2>3. ~UNCHANGED pc /\ pc # "cli" /\ cmd # "cli"
    BY <1>2, <2>1 DEF FatInv, DataTypes
  <2>4. ~(OpenLoop \/ FindFile \/ ReadFile \/ ReadDirectory \/ Match \/ OpenEntry)
    BY <1>2, <2>3 DEF OpenLoop, FindFile, ReadFile, ReadDirectory, Match, OpenEntry, CallRead
  <2>5. ~(ReadLoop \/ NextRootSector \/ NextFileSector \/ NextCluster \/ LoadSector)
    BY <1>2, <2>2 DEF ReadLoop, NextRootSector, NextFileSector, NextCluster, LoadSector, Reading
  <2>6. ShowGot
    BY <2>3, <2>4, <2>5 DEF Next, DriverStep, Command, vars
  <2>7. UNCHANGED <<cmd, arg, got>> /\ Leads /\ cmd = "cat"
    BY <2>6 DEF ShowGot, callVars, Leads
  <2>8. pc \in {"catGot", "lsGot"} /\ Point = pc
    BY <2>6 DEF ShowGot, Point, Reading
  <2>9. pc = "catGot" /\ got = <<>> /\ shown' = shown
    <3>1. pc = "catGot"
      BY <2>1, <2>7, <2>8 DEF FatInv, Callers
    <3> QED
      BY <1>2, <2>3, <2>6, <3>1 DEF ShowGot, Show, CloseAndReturn
  <2>10. shown = Contents(Resolve(arg)) /\ IsPrefix(shown, Contents(Resolve(arg)))
    BY <2>1, <2>3, <2>7, <2>9, ShownSoFar DEF FindInv, SoundVolume
  <2> QED
    BY <2>7, <2>9, <2>10
<1>3. CASE pc' = "cli" /\ pc = "cli"
  <2>1. UNCHANGED vars
    BY <1>3 DEF Next, DriverStep, Command, OpenLoop, FindFile, ReadLoop, NextRootSector,
       NextFileSector, NextCluster, LoadSector, Match, OpenEntry, ReadFile, ReadDirectory, ShowGot
  <2> QED
    BY <2>1 DEF vars, CatDisplaysContents
<1> QED
  BY <1>1, <1>2, <1>3

LEMMA InitFound == Init => Found /\ CatDisplaysContents
<1> SUFFICES ASSUME Init PROVE Found /\ CatDisplaysContents
  OBVIOUS
<1>1. pc = "cli" /\ arg = <<>>
  BY DEF Init
<1>2. Resolve(<<>>) = RootEntry /\ RootEntry.dir
  <2>1. <<>> \in Seq(STRING) /\ Len(<<>>) = 0
    OBVIOUS
  <2> QED
    BY <2>1, AlongSteps DEF Resolve, RootEntry
<1> QED
  BY <1>1, <1>2 DEF Found, CatDisplaysContents

\* On every sound volume, for every path, sector, cluster and cache size and
\* whatever ran before: cat of a path that leads to a file shows the contents of
\* that file, all of them and nothing else.
THEOREM ContentsAreDisplayed ==
  ASSUME SoundVolume
  PROVE  Spec => []CatDisplaysContents
<1>1. RootOnDisk /\ FirstSectorDoes
  BY DEF SoundVolume
<1>2. Spec => []PathInv /\ []RootReadInv
  BY <1>1, RootInvHolds
<1>3. FatInv /\ PathInv /\ ReadInv /\ RootReadInv /\ Found => FindInv
  BY DEF FindInv
<1>4. FindInv /\ [Next]_vars => Found'
  BY NextFound
<1>5. Spec => []Found
  BY <1>2, <1>3, <1>4, InitFound, FatInvHolds, ReadInvHolds, PTL DEF Spec
<1>6. FindInv => Displayed
  BY FindDisplayed
<1>7. Spec => []FindInv /\ []Displayed
  BY <1>2, <1>3, <1>5, <1>6, FatInvHolds, ReadInvHolds, PTL
<1>8. FindInv /\ CatDisplaysContents /\ [Next]_vars /\ Displayed' => CatDisplaysContents'
  BY NextDisplay
<1> QED
  BY <1>7, <1>8, InitFound, PTL DEF Spec
=============================================================================
