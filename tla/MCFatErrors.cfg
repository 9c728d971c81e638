SPECIFICATION Spec
CONSTANTS
  SECTOR_SIZE = 8
  ENTRY_SIZE = 2
  FAT_CACHE_SIZE = 1
  ReservedSectors = 1
  FatCount = 2
  SectorsPerFat = 4
  DirEntryCount = 8
  SectorsPerCluster = 2
  TotalSectors = 9000
  PartitionOffset = 3
  FatOffset = 3
  DiskSectors = 60
  EOC = 65528
  Clusters <- MCClusters
  FatTable <- MCFatTable
  DirSectors <- MCDirSectors
  MAX_FILE_HANDLES = 2
  CAT_SIZE = 5
  LS_LIMIT = 2
  Paths <- MCPaths
  MayFail = TRUE
  MaxPos = 49
INVARIANTS
  CatShowsItsFile
  HandlesReturned
  NeverBeyondSize
CHECK_DEADLOCK FALSE
