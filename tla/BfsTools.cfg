SPECIFICATION Spec
CONSTANTS
  inode_count = 3
  datablock_count = 5
  INODE_DIRECT_PTR_CNT = 1
  INODE_INDIRECT_PTR_CNT = 1
  pointers_per_block = 2
  PtrMod = 8
  WordBits = 3
  inodes_per_block = 2
  Names = {a, b}
  NoName = NoName
  NameWords <- MCNameWords
  HostFiles <- MCHostFiles
  NoFile = NoFile
  NoRequest = NoRequest
  a = a
  b = b
INVARIANT TypeOK
INVARIANT FreeCountExact
INVARIANT InodesSane
INVARIANT NoSharedBlocks
INVARIANT NoLostBlocks
PROPERTY ImplementsFileStore
