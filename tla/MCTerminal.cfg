SPECIFICATION Spec
CONSTANTS
  VGA_WIDTH = 2
  VGA_HEIGHT = 2
  SCROLLBACK_LINES = 2
  Glyphs = {"x"}
  NULL = NULL
  packet_size = 3
  LINES_PER_NOTCH = 1
  Headers = {8}
  Moves = {0, 8}
  Wheels = {0, 1, 15}
  MaxLost = 1
  Chars = {"x"}
  Star = "x"
  Echoes = {"hidden", "stars"}
  LINE_MAX = 3
  SMALL = 3
  HISTORY_MAX = 3
  Prompt <- const_Prompt
  Cancel <- const_Cancel
  Outputs <- const_Outputs
  PAGE_STEP = 2
  SCROLL_STEP = 1
  MaxLines = 4
INVARIANTS TypeOK ScreenIsLine HistoryIsLog Mirrors Resynchronises
PROPERTIES LinesKept
CONSTRAINT Bounds
