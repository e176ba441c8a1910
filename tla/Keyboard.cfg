SPECIFICATION FairSpec
CONSTANTS
  KEY_BUFFER_SIZE = 3
  UCHAR = 3
  Keys = {16}
  StrayIrqs = TRUE
  MaxKeys = 5
INVARIANT TypeOK
INVARIANT KeysInOrder
INVARIANT RingInv
INVARIANT ShiftReleased
PROPERTY ImplementsQueue
PROPERTY GetcReturns
