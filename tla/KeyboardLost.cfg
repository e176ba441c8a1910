SPECIFICATION FairSpec
CONSTANTS
  KEY_BUFFER_SIZE = 3
  UCHAR = 3
  Keys = {16}
  StrayIrqs = FALSE
  MaxKeys = 3
PROPERTY GetcSeesKeys
