------------------------------ MODULE BfsTools ------------------------------
(***************************************************************************)
(* The BFS image and the host tools that change it, fs_create, fs_add and  *)
(* fs_del, with the reading side of fs_cat and fs_read.                    *)
(*                                                                         *)
(* One command runs at a time.  It reads both bitmaps and the inode table  *)
(* into memory, works on the copies, and writes back the inode bitmap, the *)
(* data bitmap and the inode table, in this order; fs_add writes the       *)
(* contents of the new file to the image before that.  A command can be    *)
(* killed between any two writes.                                          *)
(*                                                                         *)
(* Sizes are counted in blocks: a file is a sequence of blocks, a block    *)
(* the 16-bit words it holds.  A bitmap is the set of its set bits.        *)
(***************************************************************************)
EXTENDS Integers, Sequences, FiniteSets, FiniteSetsExt

CONSTANTS
  inode_count, datablock_count,
  INODE_DIRECT_PTR_CNT, INODE_INDIRECT_PTR_CNT,
  pointers_per_block,
  PtrMod,           \* values of an uint16_t pointer
  WordBits,         \* bits of a word of a bitmap
  inodes_per_block, \* inodes in a block of the inode table
  Names, NoName,    \* file names, and the name of a cleared inode
  NameWords,        \* words the file names consist of
  HostFiles,        \* contents of the files that can be added
  NoFile, NoRequest \* values of the abstract store

Inodes == 0 .. inode_count - 1
DataBlocks == 0 .. datablock_count - 1
Words == 0 .. PtrMod - 1
PtrIdx == 0 .. pointers_per_block - 1
Block == [PtrIdx -> Words]
EmptyBlock == [p \in PtrIdx |-> 0]

\* Pointers of an inode are numbered from 0, as in the code.
DirectIdx == 0 .. INODE_DIRECT_PTR_CNT - 1
IndirectIdx == 0 .. INODE_INDIRECT_PTR_CNT - 1

ASSUME CountsAssumption ==
  /\ inode_count \in Nat \ {0} /\ datablock_count \in Nat \ {0}
  /\ INODE_DIRECT_PTR_CNT \in Nat /\ INODE_INDIRECT_PTR_CNT \in Nat
  /\ pointers_per_block \in Nat \ {0} /\ inodes_per_block \in Nat \ {0}
  /\ PtrMod \in Nat /\ PtrMod >= inode_count /\ WordBits \in Nat \ {0}

ASSUME FilesAssumption ==
  /\ HostFiles \subseteq Seq(Block)
  /\ NoName \notin Names
  /\ NoFile \notin HostFiles
  /\ NoRequest \notin
       [op : {"add", "del"}, name : Names, contents : HostFiles \cup {NoFile}]

VARIABLES
  ibm, dbm, itab, data,           \* the image
  pc, op, name, src,              \* the running command and its arguments
  ino, node, mibm, mdbm,          \* its copies: an inode, and both bitmaps
  free_datablocks, data_left,     \* counters of fs_add
  k, j, iblk, iptrs,              \* its loops and the indirect block
  torn,     \* history: fs_del was killed after its first write
  indDel,   \* history: a file with an indirect block was deleted
  leaky     \* history: fs_add was killed after its first write

image == <<ibm, dbm, itab, data>>
loops == <<free_datablocks, data_left, k, j, iblk, iptrs>>
copies == <<ino, node, mibm, mdbm>>
command == <<op, name, src>>
history == <<torn, indDel, leaky>>
vars == <<image, pc, command, copies, loops, history>>

Inode == [number : Words, name : Names \cup {NoName}, size : Nat,
          direct_ptr : [DirectIdx -> Words], indirect_ptr : [IndirectIdx -> Words]]

ClearInode == [number |-> 0, name |-> NoName, size |-> 0,
               direct_ptr |-> [d \in DirectIdx |-> 0],
               indirect_ptr |-> [i \in IndirectIdx |-> 0]]

\* fs_create: inode 0 and data block 0 mark free pointers and are reserved.
fs_create ==
  /\ ibm = {0} /\ dbm = {0}
  /\ itab = [i \in Inodes |-> ClearInode]
  /\ data = [b \in DataBlocks |-> EmptyBlock]

\* No command is running.
NoCommand ==
  /\ pc = "idle" /\ op = "add" /\ name = NoName /\ src = << >>
  /\ ino = 0 /\ node = ClearInode /\ mibm = {} /\ mdbm = {}
  /\ free_datablocks = 0 /\ data_left = 0 /\ k = 0 /\ j = 0
  /\ iblk = 0 /\ iptrs = EmptyBlock

\* The memory of a process ends with it.
EndCommand ==
  /\ pc' = "idle" /\ op' = "add" /\ name' = NoName /\ src' = << >>
  /\ ino' = 0 /\ node' = ClearInode /\ mibm' = {} /\ mdbm' = {}
  /\ free_datablocks' = 0 /\ data_left' = 0 /\ k' = 0 /\ j' = 0
  /\ iblk' = 0 /\ iptrs' = EmptyBlock

Init ==
  /\ fs_create
  /\ NoCommand
  /\ torn = FALSE /\ indDel = FALSE /\ leaky = FALSE

-----------------------------------------------------------------------------
(* Looking things up *)

\* Inode numbers above 0 are in use.
Matches(n) == {i \in Inodes : itab[i].number > 0 /\ itab[i].name = n}
fs_get_file_inode(n) == Min(Matches(n))
\* A slip: the first inode is skipped.
file_exists_beyond(n) == Matches(n) \ {1} # {}
file_exists(n) == Matches(n) # {}

\* The first clear bit of a bitmap of the given count.
FirstAvailable(bits, count) == Min(0 .. count - 1 \ bits)

\* The indirect pointer after the last is the number of the next inode: the
\* table is packed.  What follows the table in memory is taken to be 0.
IndirectPtr(i, q) ==
  IF q \in IndirectIdx THEN itab[i].indirect_ptr[q]
  ELSE IF i + 1 \in Inodes THEN itab[i + 1].number ELSE 0

\* A slip: the direct blocks are not subtracted before the division.
fs_offset_to_block_undivided(i, off) ==
  IF off < INODE_DIRECT_PTR_CNT THEN itab[i].direct_ptr[off]
  ELSE IF off > INODE_DIRECT_PTR_CNT + INODE_INDIRECT_PTR_CNT * pointers_per_block THEN -1
  ELSE data[IndirectPtr(i, off \div pointers_per_block)][off % pointers_per_block]

\* The data block of the off-th block of a file, or -1.
fs_offset_to_block(i, off) ==
  IF off < INODE_DIRECT_PTR_CNT THEN itab[i].direct_ptr[off]
  ELSE IF off > INODE_DIRECT_PTR_CNT + INODE_INDIRECT_PTR_CNT * pointers_per_block THEN -1
  ELSE LET rest == off - INODE_DIRECT_PTR_CNT
       IN  data[IndirectPtr(i, rest \div pointers_per_block)][rest % pointers_per_block]

\* fs_cat reads the whole file from its start.
fs_read(n) ==
  LET i == fs_get_file_inode(n)
  IN  [b \in 1 .. itab[i].size |-> data[fs_offset_to_block(i, b - 1)]]

-----------------------------------------------------------------------------
(* fs_add *)

NoInodeLeft == Inodes \subseteq ibm

\* "file already exists" and "no more available inode": nothing was written.
AddRefused(n) ==
  /\ pc = "idle"
  /\ file_exists(n) \/ NoInodeLeft
  /\ UNCHANGED vars

\* The inode keeps the pointers it had: a slot that is free in the bitmap but
\* not cleared in the table is reused as it is.
AddStart(n, f) ==
  /\ pc = "idle"
  /\ ~file_exists(n) /\ ~NoInodeLeft
  /\ pc' = "direct"
  /\ op' = "add" /\ name' = n /\ src' = f
  /\ LET i == FirstAvailable(ibm, inode_count)
     IN  /\ ino' = i
         /\ mibm' = ibm \cup {i}
         /\ node' = [itab[i] EXCEPT !.number = i, !.name = n, !.size = Len(f)]
  /\ mdbm' = dbm
  /\ free_datablocks' = Cardinality(DataBlocks \ dbm)
  /\ data_left' = Len(f)
  /\ k' = 0 /\ j' = 0 /\ iblk' = 0 /\ iptrs' = EmptyBlock
  /\ UNCHANGED <<image, history>>

\* The condition all three loops of add_file share.
More(i, n) == i < n /\ free_datablocks > 0 /\ data_left > 0

\* bitmap_reserve_first_available_bit on the copy of the data bitmap.
Available == FirstAvailable(mdbm, datablock_count)

\* A slip: the counter is not decremented.
ReserveUncounted ==
  /\ mdbm' = mdbm \cup {Available}
  /\ UNCHANGED free_datablocks

Reserve ==
  /\ mdbm' = mdbm \cup {Available}
  /\ free_datablocks' = free_datablocks - 1

\* A slip: what is left is counted down twice.
alloc_block_and_copy_twice ==
  /\ Reserve
  /\ data' = [data EXCEPT ![Available] = src[Len(src) - data_left + 1]]
  /\ data_left' = data_left - 2
  /\ UNCHANGED <<ibm, dbm, itab>>

\* alloc_block_and_copy: the block is written to the image at once.
alloc_block_and_copy ==
  /\ Reserve
  /\ data' = [data EXCEPT ![Available] = src[Len(src) - data_left + 1]]
  /\ data_left' = data_left - 1
  /\ UNCHANGED <<ibm, dbm, itab>>

AddDirect ==
  /\ pc = "direct" /\ More(k, INODE_DIRECT_PTR_CNT)
  /\ alloc_block_and_copy
  /\ node' = [node EXCEPT !.direct_ptr[k] = Available % PtrMod]
  /\ k' = k + 1
  /\ UNCHANGED <<pc, command, ino, mibm, j, iblk, iptrs, history>>

DirectDone ==
  /\ pc = "direct" /\ ~More(k, INODE_DIRECT_PTR_CNT)
  /\ pc' = "indirect" /\ k' = 0
  /\ UNCHANGED <<image, command, copies, free_datablocks, data_left, j, iblk, iptrs, history>>

AddIndirect ==
  /\ pc = "indirect" /\ More(k, INODE_INDIRECT_PTR_CNT)
  /\ Reserve
  /\ iblk' = Available
  /\ node' = [node EXCEPT !.indirect_ptr[k] = Available % PtrMod]
  /\ pc' = "inner" /\ j' = 0 /\ iptrs' = EmptyBlock
  /\ UNCHANGED <<image, command, ino, mibm, data_left, k, history>>

AddInner ==
  /\ pc = "inner" /\ More(j, pointers_per_block)
  /\ alloc_block_and_copy
  /\ iptrs' = [iptrs EXCEPT ![j] = Available % PtrMod]
  /\ j' = j + 1
  /\ UNCHANGED <<pc, command, ino, node, mibm, k, iblk, history>>

InnerDone ==
  /\ pc = "inner" /\ ~More(j, pointers_per_block)
  /\ data' = [data EXCEPT ![iblk] = iptrs]
  /\ pc' = "indirect" /\ k' = k + 1
  /\ UNCHANGED <<ibm, dbm, itab, command, copies, free_datablocks, data_left,
                 j, iblk, iptrs, history>>

\* "not enough data blocks available": the bitmaps and the table are not written.
AddFailed ==
  /\ pc = "indirect" /\ ~More(k, INODE_INDIRECT_PTR_CNT)
  /\ data_left > 0
  /\ EndCommand
  /\ UNCHANGED <<image, history>>

AddReady ==
  /\ pc = "indirect" /\ ~More(k, INODE_INDIRECT_PTR_CNT)
  /\ data_left <= 0
  /\ pc' = "write inode bitmap"
  /\ UNCHANGED <<image, command, copies, loops, history>>

-----------------------------------------------------------------------------
(* fs_del *)

Pointers(f) == {f[x] : x \in DOMAIN f} \ {0}

\* The image in blocks: superblock, inode bitmap, data bitmap, inode table,
\* data blocks.
InodeStart == 3
DatablocksStart == InodeStart + ((inode_count - 1) \div inodes_per_block) + 1

\* The words of a bitmap: the first of its bits is the least significant.
BitmapWords(bits) ==
  {SumSet({2 ^ (b % WordBits) : b \in {c \in bits : c \div WordBits = w}}) :
     w \in {b \div WordBits : b \in bits}}

InodeWords(i) ==
  {itab[i].number, itab[i].size} \cup Pointers(itab[i].direct_ptr)
    \cup Pointers(itab[i].indirect_ptr) \cup (IF itab[i].name = NoName THEN {} ELSE NameWords)

\* The words of block b of the image, but for zeros.  Block 0 is never asked
\* for.
ImageWords(b) ==
  (IF b >= DatablocksStart
   THEN IF b - DatablocksStart \in DataBlocks THEN Pointers(data[b - DatablocksStart]) ELSE {}
   ELSE IF b >= InodeStart
   THEN UNION {InodeWords(i) : i \in {x \in Inodes : x \div inodes_per_block = b - InodeStart}}
   ELSE BitmapWords(IF b = 1 THEN ibm ELSE dbm)) \ {0}

\* A slip: the direct blocks are forgotten.
DelPointersIndirect(i) == Pointers(itab[i].indirect_ptr)

\* What delete_file takes for the blocks of inode i.  The indirect blocks are
\* data blocks, but they are read without the start of the data blocks.
DelPointers(i) ==
  LET indirect == Pointers(itab[i].indirect_ptr)
  IN  Pointers(itab[i].direct_ptr) \cup indirect \cup UNION {ImageWords(b) : b \in indirect}

\* "File not present in the image".
DelRefused(n) ==
  /\ pc = "idle"
  /\ ~file_exists(n)
  /\ UNCHANGED vars

\* Everything up to the first write.  Nothing else changes the image meanwhile.
\* A pointer past the bitmap is looked up in foreign memory: the tool stops
\* there (DelAborted, the default build checks its heap accesses) or goes on.
DelStart(n) ==
  /\ pc = "idle"
  /\ file_exists(n)
  /\ pc' = "write inode bitmap"
  /\ op' = "del" /\ name' = n
  /\ LET i == fs_get_file_inode(n)
     IN  /\ ino' = i
         /\ node' = ClearInode
         /\ mibm' = ibm \ {itab[i].number}
         /\ mdbm' = dbm \ DelPointers(i)
         /\ indDel' = (indDel \/ Pointers(itab[i].indirect_ptr) # {})
  /\ UNCHANGED <<image, src, loops, torn, leaky>>

DelAborted(n) ==
  /\ pc = "idle"
  /\ file_exists(n)
  /\ \E p \in DelPointers(fs_get_file_inode(n)) : p >= datablock_count
  /\ UNCHANGED vars

-----------------------------------------------------------------------------
(* Writing back, the same in both tools *)

WriteIbm ==
  /\ pc = "write inode bitmap"
  /\ ibm' = mibm
  /\ pc' = "write data bitmap"
  /\ UNCHANGED <<dbm, itab, data, command, copies, loops, history>>

\* A slip: the data bitmap is not written back.
WriteDbmForgotten ==
  /\ pc = "write data bitmap"
  /\ pc' = "write inodes"
  /\ UNCHANGED <<image, command, copies, loops, history>>

WriteDbm ==
  /\ pc = "write data bitmap"
  /\ dbm' = mdbm
  /\ pc' = "write inodes"
  /\ UNCHANGED <<ibm, itab, data, command, copies, loops, history>>

WriteItab ==
  /\ pc = "write inodes"
  /\ itab' = [itab EXCEPT ![ino] = node]
  /\ EndCommand
  /\ UNCHANGED <<ibm, dbm, data, history>>

\* The process dies between two writes.
Kill ==
  /\ pc # "idle"
  /\ EndCommand
  /\ LET written == pc \in {"write data bitmap", "write inodes"}
     IN  /\ torn' = (torn \/ (op = "del" /\ written))
         /\ leaky' = (leaky \/ (op = "add" /\ written))
  /\ UNCHANGED <<image, indDel>>

-----------------------------------------------------------------------------
add_file ==
  AddDirect \/ DirectDone \/ AddIndirect \/ AddInner \/ InnerDone \/ AddFailed \/ AddReady

write_back == WriteIbm \/ WriteDbm \/ WriteItab

Next ==
  \/ \E n \in Names, f \in HostFiles : AddStart(n, f)
  \/ \E n \in Names : AddRefused(n) \/ DelRefused(n) \/ DelStart(n) \/ DelAborted(n)
  \/ add_file
  \/ write_back
  \/ Kill

Spec == Init /\ [][Next]_vars

-----------------------------------------------------------------------------
(* Properties *)

\* The image and the copies keep the types of their C structures.
TypeOK ==
  /\ ibm \in SUBSET Inodes /\ dbm \in SUBSET DataBlocks
  /\ itab \in [Inodes -> Inode] /\ data \in [DataBlocks -> Block]
  /\ pc \in {"idle", "direct", "indirect", "inner",
             "write inode bitmap", "write data bitmap", "write inodes"}
  /\ op \in {"add", "del"} /\ name \in Names \cup {NoName} /\ src \in HostFiles \cup {<< >>}
  /\ ino \in Inodes /\ node \in Inode
  /\ mibm \in SUBSET Inodes /\ mdbm \in SUBSET DataBlocks
  /\ free_datablocks \in Nat /\ data_left \in Nat /\ k \in Nat /\ j \in Nat
  /\ iblk \in DataBlocks /\ iptrs \in Block
  /\ torn \in BOOLEAN /\ indDel \in BOOLEAN /\ leaky \in BOOLEAN

Live == {i \in Inodes : itab[i].number > 0}
IndirectBlocks(i) == Pointers(itab[i].indirect_ptr)
UsedBlocks(i) ==
  Pointers(itab[i].direct_ptr) \cup IndirectBlocks(i)
    \cup UNION {Pointers(data[b]) : b \in IndirectBlocks(i)}

\* The tools have not damaged the image in one of the two ways known.
Intact == ~torn /\ ~indDel

\* The free counter of add_file counts the clear bits of its bitmap, so an
\* allocation never gets the -1 of a full bitmap, which would be written
\* before the first data block.
FreeCountExact ==
  pc \in {"direct", "indirect", "inner"} =>
    free_datablocks = Cardinality(DataBlocks \ mdbm)

\* The number of an inode is 0 or its index, two live inodes never have one
\* name, and the reserved inode and block stay reserved, even in a damaged
\* image.
InodesSane ==
  /\ \A i \in Inodes : itab[i].number \in {0, i}
  /\ \A a, b \in Live : itab[a].name = itab[b].name => a = b
  /\ 0 \in ibm /\ 0 \in dbm

\* No two files share a data block, whatever was added, refused, deleted,
\* failed or killed, and all but the file being deleted are marked in the
\* bitmaps of the image.
Deleting(i) == op = "del" /\ pc \in {"write data bitmap", "write inodes"} /\ i = ino

NoSharedBlocks ==
  Intact =>
    /\ \A a, b \in Live : a # b => UsedBlocks(a) \cap UsedBlocks(b) = {}
    /\ \A a \in Live : ~Deleting(a) => a \in ibm /\ UsedBlocks(a) \subseteq dbm

\* Between commands the bitmaps mark nothing but the live files: no block or
\* inode is lost, if no fs_add was killed in its last three writes.
NoLostBlocks ==
  Intact /\ ~leaky /\ pc = "idle" =>
    /\ ibm = {0} \cup Live
    /\ dbm = {0} \cup UNION {UsedBlocks(a) : a \in Live}

\* The image is a store of files: what fs_cat reads back is what was added,
\* and every command changes its own file completely or not at all.
Store == INSTANCE FileStore WITH
  Contents <- HostFiles,
  files <- [n \in Names |-> IF file_exists(n) THEN fs_read(n) ELSE NoFile],
  request <- IF pc = "idle" THEN NoRequest
             ELSE [op |-> op, name |-> name, contents |-> IF op = "add" THEN src ELSE NoFile],
  intact <- Intact

ImplementsFileStore == Store!Spec

\* fs_del.c:54: "Go through all pointers in the indirect block": deleting a
\* file gives all of its blocks back.
DeleteFreesBlocks ==
  ~torn /\ ~leaky /\ pc = "idle" =>
    dbm = {0} \cup UNION {UsedBlocks(a) : a \in Live}
=============================================================================
