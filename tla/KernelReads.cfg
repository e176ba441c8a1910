SPECIFICATION KSpec
CONSTANTS
  inode_count = 3
  datablock_count = 8
  INODE_DIRECT_PTR_CNT = 1
  INODE_INDIRECT_PTR_CNT = 2
  pointers_per_block = 2
  PtrMod = 8
  WordBits = 3
  inodes_per_block = 2
  Names = {a}
  NoName = NoName
  NameWords <- MCNameWords
  HostFiles <- MCLongFiles
  NoFile = NoFile
  NoRequest = NoRequest
  FILE_DESCRIPTOR_TAB_SIZE = 1
  buffer_inodes = 2
  Foreign <- MCForeign
  Offsets = {1}
  MaxCommands = 4
  a = a
INVARIANT ReadsWholeFile
