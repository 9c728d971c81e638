SPECIFICATION FairSpec
CONSTANTS
  a = a
  b = b
  nul = nul
  aDown = aDown
  bDown = bDown
  shiftDown = shiftDown
  aUp = aUp
  BUFFER_SIZE = 4
  Nul = nul
  Chars <- MCChars
  ScanCodes <- MCScanCodes
  keymap <- MCKeymap
INVARIANTS
  TypeOK
  ReaderHoldsOldest
PROPERTIES
  KeyIsAppended
  ImplementsQueue
  ReadCharReturns
