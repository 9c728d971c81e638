SPECIFICATION FairConsoleSpec
CONSTANTS
  a = a
  nul = nul
  space = space
  newline = newline
  return = return
  tab = tab
  SCREEN_WIDTH = 2
  SCREEN_HEIGHT = 2
  TAB = 2
  BYTE = 4
  Printed <- MCPrinted
  Echoed <- MCEchoed
  Nul = nul
  Space = space
  NewLine = newline
  Return = return
  Tabulator = tab
INVARIANTS
  ConsoleTypeOK
  InTextMemory
  CursorOnScreen
  ScreenShowsText
PROPERTIES
  PutcReturns
