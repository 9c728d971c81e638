------------------------------- MODULE MCFat -------------------------------
(***************************************************************************)
(* A small volume, at sector 3 of the disk: sectors of eight bytes, four   *)
(* directory entries or four FAT16 entries to a sector, a cache of one     *)
(* sector of the FAT, two sectors to a cluster, a root directory of two    *)
(* sectors.  It holds                                                      *)
(*    /f      37 bytes in three clusters, 2, 5 and 3, the last not full    *)
(*    /d      a directory in two clusters, 4 and 7                         *)
(*    /d/e    an empty file, which has no cluster                          *)
(*    /d/h    exactly one cluster, 8                                       *)
(*    /d/g    7 bytes in cluster 6; its entry is the last of the directory *)
(***************************************************************************)
EXTENDS Fat

File(name, first, size) == [name |-> name, dir |-> FALSE, first |-> first, size |-> size]
Dir(name, first) == [name |-> name, dir |-> TRUE, first |-> first, size |-> 0]

MCClusters == 2 .. 8
MCFatTable == [k \in MCClusters |->
                 CASE k = 2 -> 5 [] k = 5 -> 3 [] k = 4 -> 7 [] OTHER -> EOC]

MCDirSectors ==
  LET root == PartitionOffset + RootDirLba
      d1 == PartitionOffset + ClusterToLba(4)
      d2 == PartitionOffset + ClusterToLba(7)
  IN [lba \in {root, root + 1, d1, d1 + 1, d2, d2 + 1} |->
        CASE lba = root -> <<File("f", 2, 37), Dir("d", 4), NoEntry, NoEntry>>
          [] lba = d1 -> <<Dir(".", 4), Dir("..", 0), File("e", 0, 0), NoEntry>>
          [] lba = d1 + 1 -> <<NoEntry, File("h", 8, 16), NoEntry, NoEntry>>
          [] lba = d2 + 1 -> <<NoEntry, NoEntry, NoEntry, File("g", 6, 7)>>
          [] OTHER -> <<NoEntry, NoEntry, NoEntry, NoEntry>>]

\* cat without a path opens the root directory itself.
MCPathsAndNone == {<<>>, <<"f">>}

\* The files, and names that are not in the root and not in /d: both directories
\* are then read to their ends.
MCPaths == {<<"f">>, <<"d", "e">>, <<"d", "h">>, <<"d", "g">>, <<"z">>, <<"d", "z">>}
=============================================================================
