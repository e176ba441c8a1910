SPECIFICATION KSpec
CONSTANTS
  inode_count = 4
  datablock_count = 8
  INODE_DIRECT_PTR_CNT = 2
  INODE_INDIRECT_PTR_CNT = 2
  pointers_per_block = 1
  PtrMod = 8
  WordBits = 3
  inodes_per_block = 3
  Names = {a, b}
  NoName = NoName
  NameWords <- MCNameWords
  HostFiles <- MCKernelFiles
  NoFile = NoFile
  NoRequest = NoRequest
  FILE_DESCRIPTOR_TAB_SIZE = 1
  buffer_inodes = 3
  Foreign <- MCForeign
  Offsets = {1}
  MaxCommands = 3
  a = a
  b = b
INVARIANT KTypeOK
INVARIANT SeesFiles
INVARIANT ReadsBack
INVARIANT OpenFilesStay
PROPERTY ImplementsFileStore
