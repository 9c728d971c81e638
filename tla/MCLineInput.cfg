SPECIFICATION FairLineSpec
CONSTANTS
  a = a
  nul = nul
  nl = nl
  bs = bs
  BUFFER_SIZE = 3
  Nul = nul
  Newline = nl
  Backspace = bs
  Chars <- MCChars
  ScanCodes <- MCChars
  keymap <- MCKeymap
  n = 4
  MaxKeys = 6
INVARIANTS
  LineTypeOK
  LinesAreEdited
PROPERTIES
  NewlineDelivers
