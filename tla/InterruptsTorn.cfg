SPECIFICATION Spec
CONSTANTS
  LINE_SIZE = 4
  COLUMN_SIZE = 2
  BYTE = 4
  GoOn = FALSE
  Chars = {blank, a}
  blank = blank
  a = a
  Blank = blank
  Alarm = a
  freq = 2
  TICKS = 4
  MS = 2
  Delays = {1, 3}
CHECK_DEADLOCK FALSE
INVARIANT WritesOnScreen
