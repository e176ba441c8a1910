------------------------------- MODULE Layout -------------------------------
(***************************************************************************)
(* The image of a BFS file system cell by cell: where superblock_create    *)
(* puts the bitmaps and the inode table for a block size and two counts,   *)
(* what blocks_write writes there, padding included, and what fs_add and   *)
(* fs_del read back.  BfsTools takes for granted that the parts of an      *)
(* image are separate; this module says for which sizes they are.          *)
(*                                                                         *)
(* A cell is a byte of a bitmap or an inode, which is taken to be one byte *)
(* long: number and rest.  The superblock never changes and is kept apart, *)
(* as the data blocks are.                                                 *)
(*                                                                         *)
(* An inode keeps all block pointers of its file in their order (ptrs) and *)
(* the blocks that hold those behind the direct ones (indirect_ptr).  That *)
(* these blocks still hold them when they are read is FilesApart: nobody   *)
(* else has them.  fs_del reads other blocks in their place (fs_del.c:53); *)
(* BfsTools says which, here they hold any of WrongPointers.               *)
(***************************************************************************)
EXTENDS Strings, FiniteSets, SequencesExt

CONSTANTS
  BITS,                   \* bits of a byte (8)
  WORD,                   \* values of an unsigned int (2^32)
  PtrMod,                 \* values of an uint16_t pointer (2^16)
  INODE_FILENAME_LENGTH,  \* with the terminating zero (32)
  INODE_DIRECT_PTR_CNT,   \* block pointers in an inode (4)
  INODE_INDIRECT_PTR_CNT, \* pointers to blocks of pointers (9)
  pointers_per_block,     \* half of the bytes of a block
  WrongPointers,          \* sets of blocks that fs_del may find for indirect ones
  Geometries,             \* arguments of fs_create
  Names,                  \* file names, as sequences of characters
  HostFiles,              \* contents of the files that can be added
  MaxMarked,              \* bound: inodes marked when a command is killed
  NoFile, NoRequest       \* values of the abstract store

ASSUME LayoutAssumption ==
  /\ BITS \in Nat \ {0} /\ WORD \in Nat \ {0} /\ PtrMod \in Nat \ {0}
  /\ INODE_FILENAME_LENGTH \in Nat \ {0, 1}
  /\ \A g \in Geometries :
       /\ g.inode_count \in 1 .. WORD /\ g.datablock_count \in 1 .. WORD
       /\ g.block_size \in Nat \ {0} /\ WORD % g.block_size = 0
  /\ \A n \in Names : n \in Seq(Nat \ {0}) /\ n # << >>
  /\ HostFiles \subseteq Seq(Nat)

ASSUME PointersAssumption ==
  /\ INODE_DIRECT_PTR_CNT \in Nat /\ INODE_INDIRECT_PTR_CNT \in Nat
  /\ pointers_per_block \in Nat

VARIABLES
  sb,                \* the superblock
  image, data,       \* the cells up to the data blocks, and those
  pc, op, name, src, \* the running command
  mibm, mdbm, mitab, \* its copies of the bitmaps and of the table
  seen,              \* history: the inode table the command has read
  damaged            \* history: a command was killed at a bad moment, or a file
                     \* with indirect blocks was deleted

command == <<pc, op, name, src>>
copies == <<mibm, mdbm, mitab, seen>>
vars == <<sb, image, data, command, copies, damaged>>

Cells == 0 .. WORD - 1
NoChars == [k \in 0 .. INODE_FILENAME_LENGTH - 1 |-> 0]
Free == [number |-> 0, name |-> NoChars, ptrs |-> << >>, indirect_ptr |-> {}]

-----------------------------------------------------------------------------
(* superblock_create *)

\* The tools are built for 32 bits, where -1 divided by an unsigned block size
\* counts as 2^32 - 1: 0 is not rounded up to 0.
ROUND_UP(size, block_size) == 1 + ((size - 1) % WORD) \div block_size

\* A slip: the blocks of the inode bitmap are not skipped.
superblock_create_unskipped(g) ==
  LET inode_start == 1 + ROUND_UP(g.datablock_count \div BITS, g.block_size)
  IN  [block_size |-> g.block_size,
       inode_count |-> g.inode_count, datablock_count |-> g.datablock_count,
       inode_bitmap_start |-> 1, datablock_bitmap_start |-> 1,
       inode_start |-> inode_start,
       datablocks_start |-> inode_start + ROUND_UP(g.inode_count, g.block_size)]

\* The bitmaps get the blocks for count / 8 bytes, rounded down.
superblock_create(g) ==
  LET datablock_bitmap_start == 1 + ROUND_UP(g.inode_count \div BITS, g.block_size)
      inode_start ==
        datablock_bitmap_start + ROUND_UP(g.datablock_count \div BITS, g.block_size)
  IN  [block_size |-> g.block_size,
       inode_count |-> g.inode_count, datablock_count |-> g.datablock_count,
       inode_bitmap_start |-> 1,
       datablock_bitmap_start |-> datablock_bitmap_start,
       inode_start |-> inode_start,
       datablocks_start |-> inode_start + ROUND_UP(g.inode_count, g.block_size)]

Offset(s, block) == (s.block_size * block) % WORD

\* The addresses reach to the end of the inode table: fs_create makes at most
\* 65535 inodes, the count of the blocks is an int, and blocks have at most 8192
\* bytes.  Only the parts of an image with less bits than a byte are more blocks
\* than there are addresses.
ASSUME ReachAssumption ==
  \A g \in Geometries :
    LET s == superblock_create(g)
    IN  /\ Offset(s, s.inode_start) + s.inode_count <= WORD
        /\ s.inode_count >= BITS /\ s.datablock_count >= BITS
             => s.block_size * s.datablocks_start <= WORD

-----------------------------------------------------------------------------
(* blocks_write and the three parts it writes *)

\* Not what is missing to the next block when more than one is written.
Padding(s, len) == IF len < s.block_size THEN s.block_size - len ELSE len % s.block_size

blocks_write(s, img, block, cells) ==
  LET at(c) == c - Offset(s, block) + 1
      len == Len(cells)
  IN  [c \in Cells |-> IF at(c) \in 1 .. len THEN cells[at(c)]
                       ELSE IF at(c) \in len + 1 .. len + Padding(s, len) THEN Free
                       ELSE img[c]]

\* A slip: the bits behind the last full byte get none.
BytesFull(count) == count \div BITS

\* bitmap_create: the bytes of a bitmap.
Bytes(count) == ROUND_UP(count, BITS)

\* 1 << k.
Shift[k \in 0 .. BITS] == IF k = 0 THEN 1 ELSE 2 * Shift[k - 1]

Bit(byte, k) == (byte \div Shift[k]) % 2 = 1

\* The byte with the bits of S.
ByteOf(S) == CHOOSE byte \in 0 .. Shift[BITS] - 1 :
               \A k \in 0 .. BITS - 1 : Bit(byte, k) <=> k \in S

\* The bits of a bitmap of the given count, those of the last byte behind it
\* included.
bitmap_read(s, img, block, count) ==
  {b \in 0 .. BITS * Bytes(count) - 1 :
     Bit(img[Offset(s, block) + b \div BITS].number, b % BITS)}

\* Over an inode a byte changes its number only.
bitmap_write(s, img, block, count, bits) ==
  LET byte(j) == ByteOf({k \in 0 .. BITS - 1 : BITS * j + k \in bits})
  IN  blocks_write(s, img, block,
        [j \in 1 .. Bytes(count) |->
           [img[Offset(s, block) + j - 1] EXCEPT !.number = byte(j - 1)]])

ibm_read(s, img) == bitmap_read(s, img, s.inode_bitmap_start, s.inode_count)
ibm_write(s, img, bits) == bitmap_write(s, img, s.inode_bitmap_start, s.inode_count, bits)
dbm_read(s, img) == bitmap_read(s, img, s.datablock_bitmap_start, s.datablock_count)
dbm_write(s, img, bits) ==
  bitmap_write(s, img, s.datablock_bitmap_start, s.datablock_count, bits)

inode_table_read(s, img) ==
  [i \in 0 .. s.inode_count - 1 |-> img[Offset(s, s.inode_start) + i]]
inode_table_write(s, img, itab) ==
  blocks_write(s, img, s.inode_start, [i \in 1 .. s.inode_count |-> itab[i - 1]])

-----------------------------------------------------------------------------
(* fs_create, and the lookups of the other tools *)

NoCommand == pc = "idle" /\ op = "add" /\ name = << >> /\ src = << >>
             /\ mibm = {} /\ mdbm = {} /\ mitab = << >> /\ seen = << >>

EndCommand == pc' = "idle" /\ op' = "add" /\ name' = << >> /\ src' = << >>
              /\ mibm' = {} /\ mdbm' = {} /\ mitab' = << >> /\ seen' = << >>

\* fs_create writes the parts in their order; inode 0 and block 0 are used.
Init ==
  /\ \E g \in Geometries :
       LET s == superblock_create(g)
           blank == [c \in Cells |-> Free]
       IN  /\ sb = s
           /\ image = inode_table_write(s, dbm_write(s, ibm_write(s, blank, {0}), {0}),
                                        [i \in 0 .. s.inode_count - 1 |-> Free])
           /\ data = [b \in 0 .. s.datablock_count - 1 |-> 0]
  /\ NoCommand
  /\ damaged = FALSE

itab == inode_table_read(sb, image)
Live == {i \in DOMAIN itab : itab[i].number > 0}

\* A slip: the whole field is compared, with the 0 that ends it.
MatchesField(n, table) ==
  {i \in DOMAIN table : table[i].number > 0
                        /\ strncmp(n, table[i].name, INODE_FILENAME_LENGTH) = 0}

Matches(n, table) ==
  {i \in DOMAIN table : table[i].number > 0
                        /\ strncmp(n, table[i].name, INODE_FILENAME_LENGTH - 1) = 0}
file_exists(n) == Matches(n, itab) # {}
fs_get_file_inode(n) == Min(Matches(n, itab))
fs_read(n, table) == LET ptrs == table[Min(Matches(n, table))].ptrs
                     IN  [k \in DOMAIN ptrs |-> data[ptrs[k]]]

FreeInodes == (0 .. sb.inode_count - 1) \ ibm_read(sb, image)

\* A slip: one block more than there is.
FreeBlocksPastEnd == (0 .. sb.datablock_count) \ dbm_read(sb, image)

FreeBlocks == (0 .. sb.datablock_count - 1) \ dbm_read(sb, image)

-----------------------------------------------------------------------------
(* fs_add and fs_del: everything before the first write to the bitmaps, and *)
(* the three writes *)

Upto(S, b) == Cardinality({c \in S : c <= b})
Ascending(S) == [k \in 1 .. Cardinality(S) |-> CHOOSE b \in S : Upto(S, b) = k]

\* fs_add takes the free blocks in their order: the q-th one is for the
\* contents, or for the pointers to those that follow.
Reach == INODE_DIRECT_PTR_CNT + INODE_INDIRECT_PTR_CNT * (pointers_per_block + 1)
ForPointers(q) ==
  q > INODE_DIRECT_PTR_CNT /\ (q - INODE_DIRECT_PTR_CNT - 1) % (pointers_per_block + 1) = 0

InReach(free) == {b \in free : Upto(free, b) <= Reach}
PointersIn(free) == {b \in InReach(free) : ForPointers(Upto(free, b))}
PointerBlocks == PointersIn(FreeBlocks)
ContentBlocks == LET free == FreeBlocks IN InReach(free) \ PointersIn(free)

\* The contents of f on the blocks given, as far as they reach.  A block of
\* pointers counts as 0.
Store(f, blocks, pointers) ==
  [b \in DOMAIN data |->
     IF \E k \in DOMAIN blocks : blocks[k] = b /\ k <= Len(f)
     THEN f[CHOOSE k \in DOMAIN blocks : blocks[k] = b]
     ELSE IF b \in pointers THEN 0 ELSE data[b]]

AddStart(n, f) ==
  /\ pc = "idle" /\ ~file_exists(n) /\ FreeInodes # {}
  /\ Cardinality(ContentBlocks) >= Len(f)
  /\ LET i == Min(FreeInodes)
         blocks == SubSeq(Ascending(ContentBlocks), 1, Len(f))
         pointers == {b \in PointerBlocks : \E c \in Range(blocks) : b < c}
     IN  /\ data' = Store(f, blocks, pointers)
         /\ mibm' = ibm_read(sb, image) \cup {i}
         /\ mdbm' = dbm_read(sb, image) \cup Range(blocks) \cup pointers
         /\ mitab' = [itab EXCEPT ![i] =
              [number |-> i,
               name |-> strncpy(itab[i].name, n, INODE_FILENAME_LENGTH - 1),
               ptrs |-> [k \in DOMAIN blocks |-> blocks[k] % PtrMod],
               indirect_ptr |-> {b % PtrMod : b \in pointers}]]
  /\ seen' = itab
  /\ pc' = "write inode bitmap" /\ op' = "add" /\ name' = n /\ src' = f
  /\ UNCHANGED <<sb, image, damaged>>

\* "file already exists", "no more available inode" and "not present".
AddRefused(n) == pc = "idle" /\ (file_exists(n) \/ FreeInodes = {}) /\ UNCHANGED vars
DelRefused(n) == pc = "idle" /\ ~file_exists(n) /\ UNCHANGED vars

\* "not enough data blocks available", found out after the last block that can
\* be had.
AddFailed(n, f) ==
  /\ pc = "idle" /\ ~file_exists(n) /\ FreeInodes # {}
  /\ Cardinality(ContentBlocks) < Len(f)
  /\ data' = Store(f, Ascending(ContentBlocks), PointerBlocks)
  /\ UNCHANGED <<sb, image, command, copies, damaged>>

\* The direct pointers are followed, and the blocks of pointers are freed; but
\* what they point to is looked for in other blocks.
DelStart(n) ==
  /\ pc = "idle" /\ file_exists(n)
  /\ LET i == fs_get_file_inode(n)
         ptrs == itab[i].ptrs
         direct == {ptrs[k] : k \in {l \in DOMAIN ptrs : l <= INODE_DIRECT_PTR_CNT}}
         long == Len(ptrs) > INODE_DIRECT_PTR_CNT
     IN  /\ mibm' = ibm_read(sb, image) \ {itab[i].number}
         /\ \E wrong \in IF long THEN WrongPointers ELSE {{}} :
              mdbm' = dbm_read(sb, image)
                        \ ((direct \cup itab[i].indirect_ptr \cup wrong) \ {0})
         /\ mitab' = [itab EXCEPT ![i] = Free]
         /\ damaged' = (damaged \/ long)
  /\ seen' = itab
  /\ pc' = "write inode bitmap" /\ op' = "del" /\ name' = n
  /\ UNCHANGED <<sb, image, data, src>>

WriteIbm ==
  /\ pc = "write inode bitmap" /\ pc' = "write data bitmap"
  /\ image' = ibm_write(sb, image, mibm)
  /\ UNCHANGED <<sb, data, op, name, src, copies, damaged>>

WriteDbm ==
  /\ pc = "write data bitmap" /\ pc' = "write inodes"
  /\ image' = dbm_write(sb, image, mdbm)
  /\ UNCHANGED <<sb, data, op, name, src, copies, damaged>>

WriteItab ==
  /\ pc = "write inodes"
  /\ image' = inode_table_write(sb, image, mitab)
  /\ EndCommand
  /\ UNCHANGED <<sb, data, damaged>>

\* The padding of a bitmap goes beyond its blocks.
Overruns(count) ==
  Bytes(count) + Padding(sb, Bytes(count))
    > sb.block_size * ROUND_UP(count \div BITS, sb.block_size)

\* The process dies between two writes.  Two ways do damage: in fs_del after
\* the first write, and while the start of a part is overrun.
Kill ==
  /\ pc # "idle" /\ Cardinality(ibm_read(sb, image)) <= MaxMarked
  /\ EndCommand
  /\ damaged' = (damaged
       \/ (op = "del" /\ pc # "write inode bitmap")
       \/ (pc = "write data bitmap" /\ Overruns(sb.inode_count))
       \/ (pc = "write inodes" /\ Overruns(sb.datablock_count)))
  /\ UNCHANGED <<sb, image, data>>

Next ==
  \/ \E n \in Names, f \in HostFiles : AddStart(n, f) \/ AddFailed(n, f)
  \/ \E n \in Names : AddRefused(n) \/ DelStart(n) \/ DelRefused(n)
  \/ WriteIbm \/ WriteDbm \/ WriteItab
  \/ Kill

Spec == Init /\ [][Next]_vars

-----------------------------------------------------------------------------
(* Properties *)

\* The image and the copies keep the types of their C structures.
Characters == {0} \cup UNION {Range(n) : n \in Names}
Cell == [number : Nat, name : [DOMAIN NoChars -> Characters],
         ptrs : Seq(0 .. PtrMod - 1), indirect_ptr : SUBSET (0 .. PtrMod - 1)]

TypeOK ==
  /\ sb \in {superblock_create(g) : g \in Geometries}
  /\ \A c \in Cells : image[c] \in Cell
  /\ DOMAIN image = Cells /\ DOMAIN data = 0 .. sb.datablock_count - 1
  /\ pc \in {"idle", "write inode bitmap", "write data bitmap", "write inodes"}
  /\ op \in {"add", "del"} /\ name \in Names \cup {<< >>} /\ src \in HostFiles \cup {<< >>}
  /\ mibm \subseteq 0 .. BITS * Bytes(sb.inode_count) - 1
  /\ mdbm \subseteq 0 .. BITS * Bytes(sb.datablock_count) - 1
  /\ pc # "idle" => mitab \in [DOMAIN itab -> Cell] /\ seen \in [DOMAIN itab -> Cell]

\* The sizes an image works with.  A bitmap of fewer bits than a byte would
\* get 2^32 bytes, and one whose last byte is not full gets no block for it
\* if the others end with a block; a pointer has 16 bits.
BitmapFits(count) ==
  /\ count >= BITS
  /\ Bytes(count) <= sb.block_size * ROUND_UP(count \div BITS, sb.block_size)

Fits == /\ BitmapFits(sb.inode_count) /\ BitmapFits(sb.datablock_count)
        /\ sb.datablock_count <= PtrMod

Intact == Fits /\ ~damaged

\* On an image whose bitmaps fit, a part that has been written stays what it
\* is while the command writes the parts behind it, padding included: the
\* bitmaps read back are those of the command.
PartsStay ==
  Fits =>
    /\ pc \in {"write data bitmap", "write inodes"} => ibm_read(sb, image) = mibm
    /\ pc = "write inodes" => dbm_read(sb, image) = mdbm

\* Between commands two files of such an image share no block and no inode,
\* and what they use is marked, whatever was added, deleted or killed.
Used(i) == Range(itab[i].ptrs) \cup itab[i].indirect_ptr

Apart ==
  /\ \A a, b \in Live : a # b => Used(a) \cap Used(b) = {}
  /\ Live \cup {0} \subseteq ibm_read(sb, image)
  /\ {0} \cup UNION {Used(a) : a \in Live} \subseteq dbm_read(sb, image)

FilesApart == Intact /\ pc = "idle" => Apart

\* Such an image is a store of files by names, of which the characters that
\* fit the field count: two names that agree in them are one.  While a command
\* runs, the padding of its bitmaps may lie over the table it has read.
Name(n) == SubSeq(n, 1, Min({Len(n), INODE_FILENAME_LENGTH - 1}))
Table == IF pc = "idle" THEN itab ELSE seen
Shown(n) == IF Matches(n, Table) = {} THEN NoFile ELSE fs_read(n, Table)

ASSUME StoreAssumption ==
  /\ NoFile \notin HostFiles
  /\ NoRequest \notin [op : {"add", "del"}, name : {Name(n) : n \in Names},
                       contents : HostFiles \cup {NoFile}]

Files == INSTANCE FileStore WITH
  Names <- {Name(n) : n \in Names},
  Contents <- HostFiles,
  files <- [n \in {Name(m) : m \in Names} |-> Shown(n)],
  request <- IF pc = "idle" THEN NoRequest
             ELSE [op |-> op, name |-> Name(name),
                   contents |-> IF op = "add" THEN src ELSE NoFile],
  intact <- Intact

ImplementsFileStore == Files!Spec
=============================================================================
