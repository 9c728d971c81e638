SPECIFICATION KernelPartsSpec
CONSTANTS
  Id = 3
  Attached = {0, 2, 3}
  BYTE = 4
  NIBBLE = 2
  TRIES = 3
  Reads <- MCReads
  Capacity = 80
  Faults = {"flawed", "abort"}
  Geometries <- MCGeometries
  Nothing = Nothing
  Pending = Pending
  Error = Error
  BASE = 3
  EXT = 1
  PARAMETER = 10
  MAX_PATH_SIZE = 16
  UpperOf <- MCUpperOf
  Letters = {"NUL", "a", "."}
  Lines <- MCLines
  Tree <- MCTree
  WORD = 8
  Calls <- MCCalls
  MCWords = {1, 4, 7}
  SIZE = 64
  Inputs <- MCInputs
  MCSize = 5
  MCKeys = {1, 2, 3, 4}
  Names <- MCNames
  MCLength = 3
  MCCodepoints = {1, 127, 128, 2047, 2048, 55295, 57344, 65535, 65536, 1114111}
INVARIANTS
  NamesAreFound
  PrintsArguments
  
PROPERTIES
  DrivesAreServed
  KernelPartsEnd
CHECK_DEADLOCK FALSE
