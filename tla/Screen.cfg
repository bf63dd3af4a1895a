SPECIFICATION ScreenSpec
CONSTANTS
  WORD = 16
  VGA_ROWS = 3
  VGA_COLUMNS = 4
  TABSTOP = 3
  LIMIT = 10
  Screens = {0, 6, 11}
  Messages <- MCMessages
  PanicMessages <- MCPanicMessages
  Colours <- MCColours
  Positions <- MCPositions
  MaxCalls = 3
  WIDTH = 13
  HEIGHT = 17
  PITCH = 14
  UINTS = 4096
  BORDER = 2
  TITLE_BAR = 3
  GAP = 1
  FONT <- MCFont
  CURSOR = 3
  LINE = 1
  Titles <- MCTitles
  Mouse <- MCMouse
  Rectangles <- MCRectangles
  Images <- MCImages
  MaxDraws = 1
CHECK_DEADLOCK FALSE
INVARIANTS Formatted ConsoleShowsPage FramesIntact
PROPERTY ScreenComposed
