SPECIFICATION Spec
CONSTANTS
  BITS = 3
  WORD = 36
  PtrMod = 19
  INODE_FILENAME_LENGTH = 3
  INODE_DIRECT_PTR_CNT = 3
  INODE_INDIRECT_PTR_CNT = 3
  pointers_per_block = 4
  WrongPointers <- MCWrongPointers
  Geometries <- MCGeometries
  Names <- MCNames
  HostFiles <- MCHostFiles
  MaxMarked = 4
  NoFile = NoFile
  NoRequest = NoRequest
INVARIANT TypeOK
INVARIANT PartsStay
INVARIANT FilesApart
PROPERTY ImplementsFileStore
