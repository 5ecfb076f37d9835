CONSTANTS
  Keys = {k1, k2}
  KEY_BUFFER_SIZE = 4
  NoKey = NoKey
  Board = {"lshift", "rshift", "rctrl", "ralt", "caps", "scroll", "a", "1", "pad8", "up", "pause", "print"}
  MaxEvents = 4
  Buttons = {left}
  MaxPackets = 3
  MaxLost = 1
  Cols = 5
  Rows = 3
  Glyphs = {"space", "a"}
  LINE_MAX = 8
  HISTORY_SIZE = 2
  Prompts <- MCPrompts
  Printable = {"a", "nl", "tab"}
  MaxKeys = 6
  MaxPrints = 2
  MCParts = {"shell"}
SPECIFICATION ShellFair
PROPERTIES
  TabEnds
CHECK_DEADLOCK FALSE
