SPECIFICATION SysSpec
CONSTANTS
  a = a
  nul = nul
  aDown = aDown
  aUp = aUp
  BUFFER_SIZE = 3
  Nul = nul
  Chars <- MCChars
  ScanCodes <- MCScanCodes
  keymap <- MCKeymap
  OtherLines = {0, 14}
  Exceptions = {0}
  EarlyKeys = TRUE
INVARIANTS
  SysTypeOK
  OnlyServedInterrupts
  ScanCodeIsThere
PROPERTIES
  EoiEndsOwnLine
  ImplementsQueue
