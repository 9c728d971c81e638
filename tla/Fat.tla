-------------------------------- MODULE Fat --------------------------------
(***************************************************************************)
(* The FAT driver (libs/core/fat.c; libs/boot/fat.c is the same code but   *)
(* for the sectors it asks for): opening a path, reading a file or a       *)
(* directory through the one-sector buffer of its handle and the cached    *)
(* part of the FAT, and closing, as the commands cat and ls (libs/core/    *)
(* cli.c) use them one after the other.  Every disk read may fail.         *)
(***************************************************************************)
EXTENDS FatVolume

CONSTANTS
  MAX_FILE_HANDLES,   \* handles for files (10 in the code)
  CAT_SIZE,           \* bytes cat reads at a time (100)
  LS_LIMIT,           \* entries ls shows (7)
  FatOffset,          \* what the driver adds to the sector number of the FAT:
                      \* PartitionOffset in libs/boot, nothing in libs/core
  DiskSectors,        \* size of the disk: reads beyond it fail
  Paths,              \* the paths given to cat, as sequences of names
  MayFail,            \* may reads of existing sectors fail?
  MaxPos              \* bound: how far a chain is followed; a chain read from a
                      \* cache a failed read has torn may never end

ASSUME FatAssumption ==
  /\ {MAX_FILE_HANDLES, CAT_SIZE, LS_LIMIT, MaxPos} \subseteq Nat \ {0}
  /\ {FatOffset, DiskSectors} \subseteq Nat
  /\ MayFail \in BOOLEAN
  /\ \A p \in Paths : p \in Seq(STRING)

VARIABLES
  fd,          \* RootDirectory and OpenedFiles, by handle
  cachePos,    \* FatCachePosition
  cacheLba,    \* the first sector the FAT cache was read from
  pc,          \* where the driver is, or cli
  back,        \* where the caller of FAT_Read goes on
  cmd, arg,    \* the command and its path
  path,        \* the names of the path FAT_Open has not looked up yet
  cur,         \* the handle in use, or Null
  count,       \* byteCount of FAT_Read
  got,         \* the bytes this FAT_Read has returned
  entry,       \* the directory entry found
  shown,       \* what the command has shown: bytes (cat), entries (ls)
  failed       \* has a read of an existing sector failed?

vars == <<fd, cachePos, cacheLba, pc, back, cmd, arg, path, cur, count, got,
          entry, shown, failed>>
cacheVars == <<cachePos, cacheLba>>
callVars == <<cmd, arg, path, entry>>

ROOT == -1
Null == -2
Torn == -1            \* a buffer some failed read has written to
NoCache == -1         \* FatCachePosition 0xFFFFFFFF
FileHandles == 0 .. MAX_FILE_HANDLES - 1
Handles == {ROOT} \cup FileHandles

ClosedFile == [opened |-> FALSE, dir |-> FALSE, pos |-> 0, size |-> 0,
               first |-> 0, cluster |-> 0, sector |-> 0, buf |-> Torn]

\* FAT_Initialize, once its read of the root directory has succeeded.
Init ==
  /\ fd = [h \in Handles |->
             IF h = ROOT
             THEN [opened |-> TRUE, dir |-> TRUE, pos |-> 0, size |-> RootDirSize,
                   first |-> RootDirLba, cluster |-> RootDirLba, sector |-> 0,
                   buf |-> PartitionOffset + RootDirLba]
             ELSE ClosedFile]
  /\ cachePos = NoCache
  /\ cacheLba = Torn
  /\ pc = "cli" /\ back = "cli"
  /\ cmd = "cat" /\ arg = <<>> /\ path = <<>>
  /\ cur = ROOT
  /\ count = 0 /\ got = <<>> /\ entry = NoEntry /\ shown = <<>>
  /\ failed = FALSE

\* The outcomes of a disk read of n sectors, after its three tries.
ReadResults(lba, n) ==
  IF lba < 0 \/ lba + n > DiskSectors THEN {FALSE}
  ELSE IF MayFail THEN BOOLEAN ELSE {TRUE}

Loaded(ok, lba) == IF ok THEN lba ELSE Torn

-----------------------------------------------------------------------------
\* Command_Line_Interface runs cat with a path, or ls, which always shows "/".
Command ==
  /\ pc = "cli"
  /\ \E c \in {"cat", "ls"} :
       /\ cmd' = c
       /\ \E p \in (IF c = "cat" THEN Paths ELSE {<<>>}) : arg' = p /\ path' = p
  /\ pc' = "open"
  /\ cur' = ROOT
  /\ shown' = <<>>
  /\ UNCHANGED <<fd, cacheVars, back, count, got, entry, failed>>

\* The loop of FAT_Open: the next name, or the handle for the caller.
OpenLoop ==
  /\ pc = "open"
  /\ pc' = IF path = <<>> THEN cmd ELSE "find"
  /\ UNCHANGED <<fd, cacheVars, back, callVars, cur, count, got, shown, failed>>

\* Bug: the end of the file does not bound a read.
BugReadPastSize(n, b) ==
  /\ IF cur = Null
     THEN pc' = "wild" /\ UNCHANGED <<count, got, back>>
     ELSE pc' = "read" /\ back' = b /\ got' = <<>> /\ count' = n
  /\ UNCHANGED <<fd, cacheVars, callVars, cur, shown, failed>>

\* FAT_Read is called for n bytes and its caller goes on at b.  The end of a
\* file bounds n, but a subdirectory has size 0 and is read to the end of its
\* chain.  No caller tests the handle for NULL: what is at address 0 is used.
CallRead(n, b) ==
  /\ IF cur = Null
     THEN pc' = "wild" /\ UNCHANGED <<count, got, back>>
     ELSE /\ pc' = "read"
          /\ back' = b
          /\ got' = <<>>
          /\ count' = LET f == fd[cur]
                      IN IF f.dir /\ f.size = 0 THEN n ELSE Lower(n, f.size - f.pos)
  /\ UNCHANGED <<fd, cacheVars, callVars, cur, shown, failed>>

\* The loop of FAT_FindFile reads the next entry.
FindFile == pc = "find" /\ CallRead(ENTRY_SIZE, "match")

\* Bug: the rest of the buffer is taken, though less was asked for.
BugTakeWholeBuffer ==
  /\ pc = "read"
  /\ fd[cur].pos < MaxPos
  /\ LET f == fd[cur]
         take == SECTOR_SIZE - (f.pos % SECTOR_SIZE)
     IN IF count = 0
        THEN pc' = back /\ UNCHANGED <<fd, count, got>>
        ELSE /\ got' = got \o [k \in 1 .. take |-> <<f.buf, (f.pos % SECTOR_SIZE) + k - 1>>]
             /\ fd' = [fd EXCEPT ![cur].pos = @ + take]
             /\ count' = count - take
             /\ pc' = "refill"
  /\ UNCHANGED <<cacheVars, back, callVars, cur, shown, failed>>

\* An iteration of the loop of FAT_Read: what is left in the buffer, or less.
ReadLoop ==
  /\ pc = "read"
  /\ fd[cur].pos < MaxPos
  /\ LET f == fd[cur]
         inSector == f.pos % SECTOR_SIZE
         leftInBuffer == SECTOR_SIZE - inSector
         take == Lower(count, leftInBuffer)
     IN IF count = 0
        THEN pc' = back /\ UNCHANGED <<fd, count, got>>
        ELSE /\ got' = got \o [k \in 1 .. take |-> <<f.buf, inSector + k - 1>>]
             /\ fd' = [fd EXCEPT ![cur].pos = @ + take]
             /\ count' = count - take
             /\ pc' = IF take = leftInBuffer THEN "refill" ELSE "read"
  /\ UNCHANGED <<cacheVars, back, callVars, cur, shown, failed>>

\* A sector was used up.  The root directory is contiguous ...
NextRootSector ==
  /\ pc = "refill" /\ cur = ROOT
  /\ LET lba == PartitionOffset + fd[ROOT].cluster + 1
     IN \E ok \in ReadResults(lba, 1) :
          /\ fd' = [fd EXCEPT ![ROOT].cluster = @ + 1, ![ROOT].buf = Loaded(ok, lba)]
          /\ pc' = IF ok THEN "read" ELSE back
          /\ failed' = (failed \/ (~ok /\ lba < DiskSectors))
  /\ UNCHANGED <<cacheVars, back, callVars, cur, count, got, shown>>

\* Bug: one sector too many is read from a cluster.
BugClusterTooLong ==
  /\ pc = "refill" /\ cur # ROOT
  /\ LET last == fd[cur].sector + 1 > SectorsPerCluster
     IN /\ fd' = [fd EXCEPT ![cur].sector = IF last THEN 0 ELSE @ + 1]
        /\ pc' = IF last THEN "fat" ELSE "load"
  /\ UNCHANGED <<cacheVars, back, callVars, cur, count, got, shown, failed>>

\* ... anything else continues in its cluster or in the next.
NextFileSector ==
  /\ pc = "refill" /\ cur # ROOT
  /\ LET last == fd[cur].sector + 1 >= SectorsPerCluster
     IN /\ fd' = [fd EXCEPT ![cur].sector = IF last THEN 0 ELSE @ + 1]
        /\ pc' = IF last THEN "fat" ELSE "load"
  /\ UNCHANGED <<cacheVars, back, callVars, cur, count, got, shown, failed>>

\* What FAT_NextCluster makes of the cache, at pos and filled from lba: the
\* cluster's entry if both its bytes are in the cache and the cache holds that
\* part of the FAT, else whatever those bytes are.
EntryFrom(pos, lba, cluster) ==
  IF /\ lba = PartitionOffset + ReservedSectors + pos
     /\ FatIndex(cluster) + 2 <= (pos + FAT_CACHE_SIZE) * SECTOR_SIZE
     /\ cluster \in Clusters
  THEN {FatTable[cluster]}
  ELSE Clusters \cup {EOC}

\* FAT_NextCluster: it does not look at the result of its disk read, and after a
\* failed one the cache counts as read.
NextCluster ==
  /\ pc = "fat"
  /\ LET f == fd[cur]
         sector == FatIndex(f.cluster) \div SECTOR_SIZE
         miss == \/ cachePos = NoCache \/ sector < cachePos
                 \/ sector >= cachePos + FAT_CACHE_SIZE
         lba == FatOffset + ReservedSectors + sector
     IN /\ IF miss
           THEN \E ok \in ReadResults(lba, FAT_CACHE_SIZE) :
                  /\ cachePos' = sector
                  /\ cacheLba' = Loaded(ok, lba)
                  /\ failed' = (failed \/ ~ok)
           ELSE UNCHANGED <<cacheVars, failed>>
        /\ \E next \in EntryFrom(cachePos', cacheLba', f.cluster) :
             IF next = EOC
             THEN /\ fd' = [fd EXCEPT ![cur].cluster = EOC, ![cur].size = f.pos]
                  /\ pc' = back
             ELSE /\ fd' = [fd EXCEPT ![cur].cluster = next]
                  /\ pc' = "load"
  /\ UNCHANGED <<back, callVars, cur, count, got, shown>>

LoadSector ==
  /\ pc = "load"
  /\ LET lba == PartitionOffset + ClusterToLba(fd[cur].cluster) + fd[cur].sector
     IN \E ok \in ReadResults(lba, 1) :
          /\ fd' = [fd EXCEPT ![cur].buf = Loaded(ok, lba)]
          /\ pc' = IF ok THEN "read" ELSE back
          /\ failed' = (failed \/ ~ok)
  /\ UNCHANGED <<cacheVars, back, callVars, cur, count, got, shown>>

-----------------------------------------------------------------------------
\* The directory entry FAT_ReadEntry has read: its bytes are adjacent.
EntryRead == EntryAt(got[1][1], got[1][2])

\* Bug: the root directory is left where the reading ended.
BugCloseKeepsPosition(h) ==
  IF h = ROOT THEN fd ELSE [fd EXCEPT ![h].opened = FALSE]

\* Bug: closing does not free the handle.
BugCloseKeepsHandle(h) ==
  IF h = ROOT
  THEN [fd EXCEPT ![ROOT].pos = 0, ![ROOT].cluster = fd[ROOT].first]
  ELSE [fd EXCEPT ![h].pos = 0]

\* FAT_Close: the root directory goes back to its start, but keeps its buffer.
Closed(h) ==
  IF h = ROOT
  THEN [fd EXCEPT ![ROOT].pos = 0, ![ROOT].cluster = fd[ROOT].first]
  ELSE [fd EXCEPT ![h].opened = FALSE]

\* FAT_FindFile compares the entry; FAT_Open closes the directory when the name
\* is found (whatever the entry's attributes: the test for a directory compares
\* with 0 first and never fires) or when there is no entry left.
Match ==
  /\ pc = "match"
  /\ IF Len(got) < ENTRY_SIZE
     THEN pc' = cmd /\ cur' = Null /\ fd' = Closed(cur) /\ UNCHANGED <<path, entry>>
     ELSE IF EntryRead.name = Head(path)
     THEN /\ pc' = "openEntry"
          /\ entry' = EntryRead
          /\ path' = Tail(path)
          /\ fd' = Closed(cur)
          /\ UNCHANGED cur
     ELSE pc' = "find" /\ UNCHANGED <<cur, fd, path, entry>>
  /\ UNCHANGED <<cacheVars, back, cmd, arg, count, got, shown, failed>>

\* FAT_OpenEntry: the first free handle, with the first sector in its buffer;
\* out of handles or after a read error it returns NULL.
OpenEntry ==
  /\ pc = "openEntry"
  /\ pc' = "open"
  /\ LET free == {h \in FileHandles : ~fd[h].opened}
         lba == PartitionOffset + ClusterToLba(entry.first)
     IN IF free = {}
        THEN cur' = Null /\ UNCHANGED <<fd, failed>>
        ELSE LET h == CHOOSE x \in free : \A y \in free : x <= y
             IN \E ok \in ReadResults(lba, 1) :
                  /\ fd' = [fd EXCEPT ![h] =
                              [opened |-> ok, dir |-> entry.dir, pos |-> 0,
                               size |-> entry.size, first |-> entry.first,
                               cluster |-> entry.first, sector |-> 0,
                               buf |-> Loaded(ok, lba)]]
                  /\ cur' = IF ok THEN h ELSE Null
                  /\ failed' = (failed \/ ~ok)
  /\ UNCHANGED <<cacheVars, back, callVars, count, got, shown>>

\* FAT_ReadFile, which cat calls: parts of CAT_SIZE bytes until none comes.
ReadFile == pc = "cat" /\ CallRead(CAT_SIZE, "catGot")

\* FAT_ReadDirectory, which ls calls: the first LS_LIMIT entries.
ReadDirectory == pc = "ls" /\ CallRead(ENTRY_SIZE, "lsGot")

Show(items) == shown' = shown \o items /\ pc' = cmd /\ UNCHANGED fd
CloseAndReturn == fd' = Closed(cur) /\ pc' = "cli" /\ UNCHANGED shown

\* Bug: cat goes on reading at the end of the file.
BugCatNeverStops ==
  /\ \/ pc = "catGot" /\ Show(got)
     \/ pc = "lsGot" /\ IF Len(got) = ENTRY_SIZE /\ Len(shown) < LS_LIMIT
                        THEN Show(<<EntryRead>>) ELSE CloseAndReturn
  /\ UNCHANGED <<cacheVars, back, callVars, cur, count, got, failed>>

ShowGot ==
  /\ \/ pc = "catGot" /\ IF got # <<>> THEN Show(got) ELSE CloseAndReturn
     \/ pc = "lsGot" /\ IF Len(got) = ENTRY_SIZE /\ Len(shown) < LS_LIMIT
                        THEN Show(<<EntryRead>>) ELSE CloseAndReturn
  /\ UNCHANGED <<cacheVars, back, callVars, cur, count, got, failed>>

DriverStep ==
  \/ OpenLoop \/ FindFile \/ ReadLoop \/ NextRootSector \/ NextFileSector
  \/ NextCluster \/ LoadSector \/ Match \/ OpenEntry \/ ReadFile \/ ReadDirectory
  \/ ShowGot

Next == Command \/ DriverStep

Spec == Init /\ [][Next]_vars
FairSpec == Spec /\ WF_vars(DriverStep)

-----------------------------------------------------------------------------
FatTypeOK ==
  /\ fd \in [Handles -> [opened : BOOLEAN, dir : BOOLEAN, pos : Nat, size : Nat,
                         first : Nat, cluster : Nat \cup {EOC}, sector : Nat,
                         buf : Nat \cup {Torn}]]
  /\ cachePos \in Nat \cup {NoCache} /\ cacheLba \in Nat \cup {Torn}
  /\ {pc, back} \subseteq {"cli", "open", "find", "read", "refill", "fat", "load",
                           "match", "openEntry", "cat", "catGot", "ls", "lsGot",
                           "wild"}
  /\ cur \in Handles \cup {Null}
  /\ count \in Nat /\ failed \in BOOLEAN

\* Unless a read fails, cat of a file shows its contents, all of them, in order
\* and nothing else, whatever was opened before: neither another command's
\* position, buffer or cached FAT, nor the end of a sector, cluster or cache
\* shows through.
CatDisplaysContents ==
  cmd = "cat" /\ ~failed /\ Resolve(arg) # NoEntry /\ ~Resolve(arg).dir =>
    /\ pc # "wild"
    /\ IsPrefix(shown, Contents(Resolve(arg)))
    /\ pc = "cli" => shown = Contents(Resolve(arg))

\* Unless a read fails, ls shows the first entries of the root directory.
LsListsRoot ==
  cmd = "ls" /\ pc = "cli" /\ ~failed =>
    shown = SubSeq(EntriesOf(RootEntry), 1, Lower(LS_LIMIT, DirEntryCount))

\* Every command gives back the handles it opened, on its error paths too, so no
\* sequence of commands runs out of them; it uses one at a time.
HandlesReturned ==
  /\ Cardinality({h \in FileHandles : fd[h].opened}) <= 1
  /\ pc = "cli" => \A h \in FileHandles : ~fd[h].opened

\* Even after failed reads cat shows no more bytes than the file has.
NeverBeyondSize ==
  cmd = "cat" /\ cur \in FileHandles /\ ~fd[cur].dir =>
    /\ fd[cur].pos <= fd[cur].size
    /\ pc = "catGot" => Len(shown) + Len(got) <= fd[cur].pos

\* What the kernel's driver lacks (see the findings of README.md): the FAT is read
\* from its volume, and no entry of it lies across the end of a sector.
SoundCache ==
  /\ FatOffset = PartitionOffset
  /\ \A c \in Clusters : (FatIndex(c) % SECTOR_SIZE) + 2 <= SECTOR_SIZE

\* Whichever directory entry a file was opened from and whatever was read before:
\* as long as no read fails, the k-th byte that cat shows is the k-th byte of the
\* chain of that file, and cat stops only with all of them shown.
CatShowsItsFile ==
  /\ SoundCache /\ ~failed
  /\ pc \in {"cat", "catGot"} /\ cur \in FileHandles
  /\ ~fd[cur].dir /\ fd[cur].first \in Clusters
  => /\ \A k \in 1 .. Len(shown) : shown[k] = PlaceOf(fd[cur].first, k - 1)
     /\ pc = "catGot" /\ got = <<>> => Len(shown) = fd[cur].size

\* Every command ends (or leaves the code, through a NULL handle).
CommandsEnd == pc # "cli" ~> pc \in {"cli", "wild"}
=============================================================================
