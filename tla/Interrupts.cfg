SPECIFICATION FairSpec
CONSTANTS
  LINE_SIZE = 4
  COLUMN_SIZE = 3
  BYTE = 4
  GoOn = FALSE
  Chars = {blank, a}
  blank = blank
  a = a
  Blank = blank
  Alarm = a
  freq = 2
  TICKS = 4
  MS = 2
  Delays = {1, 3}
INVARIANT TypeOK
INVARIANT StaysOnScreen
INVARIANT ReadLineFits
PROPERTY ImplementsTerminal
PROPERTY SleepEnds
CHECK_DEADLOCK FALSE
