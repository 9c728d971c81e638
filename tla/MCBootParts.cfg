SPECIFICATION BootPartsSpec
CONSTANTS
  BYTE = 8
  SIX = 4
  Geometry <- MCGeometry
  STAGE1_WORD = 128
  STAGE1_TRIES = 3
  Bdb <- MCBdb
  stage2_location <- MCExtents
  Bits <- MCBits
  ScanCodes <- MCScanCodes
  OutputPorts <- MCPorts
  EarlyKeys = FALSE
  Functions <- MCFunctions
  FAT_ADDR = 131072
  ELF_ADDR = 196608
  LOAD_KERNEL = 262144
  VESA_INFO = 262144
  MODE_INFO = 327680
  KERNEL_ADDR = 1048576
  PARTITION_ENTRY_SEGMENT = 8192
  MBR_BUFFER = 64000
  MAX_REGIONS = 3
  Table <- MCTable
  BootEntries = {0}
  BlockCounts = {0, 1, 3, 5}
  MbrMayFail = FALSE
  DISK_TRIES = 3
  Reads <- MCReads
  Nothing = Nothing
  Pending = Pending
  Error = Error
  HEADER_SIZE = 2
  ENTRY_SIZE = 1
  LOAD_SIZE = 4
  ELF_WORD = 4
  Files <- MCFiles
  NoFile = NoFile
  Addresses <- MCAddresses
  MayFail = TRUE
  desiredWidth = 6
  desiredHeight = 3
  FONT_WIDTH = 2
  FONT_HEIGHT = 1
  Text <- MCText
  Glyph <- MCGlyph
  ModeLists <- MCModeLists
  LinearAlways = TRUE
  Memory <- MCMemory
  GATES = 256
  UNUSED = 128
  PIC_REMAP_OFFSET = 32
  LINES = 16
  Isr <- MCIsr
INVARIANTS
  EntersWholeImages
  KernelFindsItsMachine
  BiosCallsSound
  ShowsPicture
  TablesSound
PROPERTIES
  ImplementsDisk
  DevicesAreHeeded
  BootPartsEnd
CHECK_DEADLOCK FALSE
