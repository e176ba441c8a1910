SPECIFICATION PSpec
CONSTANTS
  MAX_TASK_COUNT = 3
  FILE_DESCRIPTOR_TAB_SIZE = 2
  Files = {shell, app}
  Shell = shell
  NoProgram = none
  NIBBLE = 2
  TableAddresses <- MCTableAddresses
  TASK_SIZE = 41
  TSS_SIZE = 6
  LDT_OFFSET = 7
  LDT_SIZE = 2
  SPACE_OFFSET = 9
  SPACE_SIZE = 19
  PAGE_SIZE = 4
  Behind <- MCBehind
INVARIANT EntersProgram
CHECK_DEADLOCK FALSE
