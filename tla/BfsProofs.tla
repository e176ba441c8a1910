------------------------------ MODULE BfsProofs -----------------------------
(***************************************************************************)
(* Theorems about the image and its tools, for any number of inodes,       *)
(* blocks and pointers, and whatever is added, deleted or killed.          *)
(***************************************************************************)
EXTENDS BfsTools, ModuloLemmas, TLAPS, FiniteSetTheorems

\* The first clear bit of a bitmap with a clear bit.
LEMMA FirstIsClear ==
  ASSUME NEW count \in Nat, NEW bits, 0 .. count - 1 \ bits # {}
  PROVE  FirstAvailable(bits, count) \in 0 .. count - 1 \ bits
<1>1. 0 .. count - 1 \ bits \in SUBSET Nat OBVIOUS
<1> QED BY <1>1, MinIsLeast DEF FirstAvailable

\* No bit is clear exactly if there are 0 clear ones.
LEMMA ClearBits ==
  ASSUME NEW bits
  PROVE  /\ IsFiniteSet(DataBlocks \ bits)
         /\ Cardinality(DataBlocks \ bits) \in Nat
         /\ Cardinality(DataBlocks \ bits) = 0 <=> DataBlocks \ bits = {}
<1>1. IsFiniteSet(DataBlocks)
  BY CountsAssumption, FS_Interval DEF DataBlocks
<1>2. IsFiniteSet(DataBlocks \ bits)
  <2>1. DataBlocks \ bits \in SUBSET DataBlocks OBVIOUS
  <2> QED BY <1>1, <2>1, FS_Subset
<1> QED BY <1>2, FS_CardinalityType, FS_EmptySet

\* Setting a clear bit takes one off.
LEMMA OneLess ==
  ASSUME NEW bits, NEW b \in DataBlocks \ bits
  PROVE  Cardinality(DataBlocks \ (bits \cup {b})) = Cardinality(DataBlocks \ bits) - 1
<1> DEFINE clear == DataBlocks \ bits
<1>1. DataBlocks \ (bits \cup {b}) = clear \ {b} OBVIOUS
<1>2. IsFiniteSet(clear) /\ b \in clear BY ClearBits
<1> HIDE DEF clear
<1>3. Cardinality(clear \ {b}) = Cardinality(clear) - 1 BY <1>2, FS_RemoveElement
<1> QED BY <1>1, <1>3 DEF clear

\* Facts about numbers, apart from everything else.
LEMMA Order ==
  /\ \A a, b, c \in Nat : a <= b /\ b <= c => a <= c
  /\ \A a \in Nat : a + 1 \in Nat /\ a <= a
OBVIOUS

\* The first of the last elements of a sequence.
LEMMA FirstOfLast ==
  ASSUME NEW S, NEW s \in Seq(S), NEW left \in Nat, left > 0, left <= Len(s)
  PROVE  s[Len(s) - left + 1] \in S /\ left - 1 \in Nat /\ left - 1 <= Len(s)
<1>1. Len(s) \in Nat OBVIOUS
<1>2. Len(s) - left + 1 \in 1 .. Len(s) BY <1>1
<1> QED BY <1>1, <1>2

-----------------------------------------------------------------------------
(* Types, and what a command knows *)

\* The inode a command is about: its new contents, and for fs_add its name,
\* which no live inode has; bit 0 of both copies; what is left of the file.
Adding == pc # "idle" /\ op = "add"
Copying == pc \in {"direct", "indirect", "inner"}

CommandInv ==
  /\ pc # "idle" => 0 \in mibm /\ 0 \in mdbm
  /\ Adding => /\ ino # 0 /\ node.number = ino /\ node.name = name /\ name \in Names
               /\ Matches(name) = {}
  /\ pc # "idle" /\ op = "del" => node = ClearInode
  /\ Copying => op = "add" /\ src \in HostFiles /\ data_left <= Len(src)
  /\ \A i \in Inodes : itab[i].number = 0 => itab[i] = ClearInode

BaseInv == TypeOK /\ FreeCountExact /\ InodesSane /\ CommandInv

\* Zeros, and the cleared inode.
LEMMA Zeros ==
  /\ 0 \in Inodes /\ 0 \in DataBlocks /\ 0 \in Words
  /\ EmptyBlock \in Block /\ ClearInode \in Inode
  /\ Inodes \subseteq Words /\ Inodes \subseteq Nat /\ DataBlocks \subseteq Nat
<1>1. 0 \in Inodes /\ 0 \in DataBlocks /\ 0 \in Words /\ Inodes \subseteq Words
      /\ Inodes \subseteq Nat /\ DataBlocks \subseteq Nat
  BY CountsAssumption DEF Inodes, DataBlocks, Words
<1> QED BY <1>1 DEF EmptyBlock, Block, ClearInode, Inode

\* A pointer of 16 bits is made of any number.
LEMMA PointerWord == ASSUME NEW b \in DataBlocks PROVE b % PtrMod \in Words
BY CountsAssumption DEF DataBlocks, Words

\* As long as the counter is not 0 there is a clear bit to reserve, and the
\* counter stays exact.
LEMMA ReserveCounts ==
  ASSUME TypeOK, FreeCountExact, Copying, free_datablocks > 0, Reserve
  PROVE  /\ Available \in DataBlocks \ mdbm
         /\ mdbm' = mdbm \cup {Available} /\ mdbm' \in SUBSET DataBlocks
         /\ free_datablocks' \in Nat /\ free_datablocks' = Cardinality(DataBlocks \ mdbm')
<1>1. free_datablocks = Cardinality(DataBlocks \ mdbm) /\ free_datablocks \in Nat
  BY DEF FreeCountExact, Copying, TypeOK
<1>2. DataBlocks \ mdbm # {} BY <1>1, ClearBits
<1>3. Available \in DataBlocks \ mdbm
  BY <1>2, CountsAssumption, FirstIsClear DEF Available, DataBlocks
<1>4. mdbm' = mdbm \cup {Available} /\ free_datablocks' = free_datablocks - 1 BY DEF Reserve
<1>5. free_datablocks' = Cardinality(DataBlocks \ mdbm') BY <1>1, <1>3, <1>4, OneLess
<1>6. free_datablocks' \in Nat BY <1>1, <1>4
<1>7. mdbm' \in SUBSET DataBlocks BY <1>3, <1>4 DEF TypeOK
<1> QED BY <1>3, <1>4, <1>5, <1>6, <1>7

\* What is left of a file is part of it.
LEMMA SourceLength ==
  ASSUME TypeOK, CommandInv, Copying
  PROVE  src \in Seq(Block) /\ Len(src) \in Nat /\ data_left \in Nat /\ data_left <= Len(src)
<1>1. src \in Seq(Block) /\ data_left <= Len(src) /\ data_left \in Nat
  BY FilesAssumption DEF CommandInv, TypeOK
<1> QED BY <1>1

\* The next block of a file that is not all copied.
LEMMA NextOfFile ==
  ASSUME TypeOK, CommandInv, Copying, data_left > 0
  PROVE  /\ src[Len(src) - data_left + 1] \in Block
         /\ data_left - 1 \in Nat /\ data_left - 1 <= Len(src)
BY SourceLength, FirstOfLast

\* fs_add finds a free inode that is not the reserved one.
LEMMA AddStartBase ==
  ASSUME BaseInv, NEW n \in Names, NEW f \in HostFiles, AddStart(n, f)
  PROVE  BaseInv'
<1> DEFINE i == FirstAvailable(ibm, inode_count)
<1>1. i \in Inodes \ ibm
  <2>1. Inodes \ ibm # {} BY DEF AddStart, NoInodeLeft
  <2> QED BY <2>1, FirstIsClear, CountsAssumption DEF Inodes
<1>2. /\ pc = "idle" /\ pc' = "direct" /\ op' = "add" /\ name' = n /\ src' = f /\ ino' = i
      /\ mibm' = ibm \cup {i} /\ mdbm' = dbm /\ data_left' = Len(f)
      /\ node' = [itab[i] EXCEPT !.number = i, !.name = n, !.size = Len(f)]
      /\ free_datablocks' = Cardinality(DataBlocks \ dbm)
      /\ k' = 0 /\ j' = 0 /\ iblk' = 0 /\ iptrs' = EmptyBlock
      /\ Matches(n) = {}
      /\ ibm' = ibm /\ dbm' = dbm /\ itab' = itab /\ data' = data
      /\ torn' = torn /\ indDel' = indDel /\ leaky' = leaky
  BY DEF AddStart, file_exists, image, history
<1>3. 0 \in ibm /\ 0 \in dbm /\ i # 0 BY <1>1 DEF BaseInv, InodesSane
<1>4. Len(f) \in Nat BY FilesAssumption
<1> HIDE DEF i
<1>5. node' \in Inode /\ node'.number = i /\ node'.name = n
  <2>1. itab[i] \in Inode /\ i \in Words BY <1>1, Zeros DEF BaseInv, TypeOK
  <2> QED BY <1>2, <1>4, <2>1 DEF Inode
<1>6. TypeOK'
  <2>1. free_datablocks' \in Nat BY <1>2, ClearBits
  <2> QED BY <1>1, <1>2, <1>4, <1>5, <2>1, Zeros DEF BaseInv, TypeOK
<1>7. FreeCountExact' BY <1>2 DEF FreeCountExact
<1>8. InodesSane' BY <1>2 DEF BaseInv, InodesSane, Live
<1>9. Matches(name)' = {} BY <1>2 DEF Matches
<1>10. CommandInv'
  BY <1>2, <1>3, <1>4, <1>5, <1>9 DEF BaseInv, CommandInv, Adding, Copying
<1> QED BY <1>6, <1>7, <1>8, <1>10 DEF BaseInv

\* The loops of fs_add change none of the inodes of the image.
LEMMA LoopsBase ==
  ASSUME BaseInv, Copying, pc' \in {"direct", "indirect", "inner", "write inode bitmap"},
         UNCHANGED <<ibm, dbm, itab, command, ino, mibm, history>>,
         mdbm \subseteq mdbm', mdbm' \in SUBSET DataBlocks,
         node' \in Inode, node'.number = node.number, node'.name = node.name,
         data' \in [DataBlocks -> Block], data_left' \in Nat, data_left' <= data_left,
         free_datablocks' \in Nat, FreeCountExact',
         k' \in Nat, j' \in Nat, iblk' \in DataBlocks, iptrs' \in Block
  PROVE  BaseInv'
<1>1. TypeOK' BY DEF BaseInv, TypeOK, command, history
<1>2. InodesSane' BY DEF BaseInv, InodesSane, Live
<1>3. Matches(name)' = Matches(name) BY DEF Matches, command
<1>4. data_left' <= Len(src)
  <2>1. data_left <= Len(src) /\ data_left \in Nat /\ Len(src) \in Nat
    BY SourceLength DEF BaseInv
  <2> QED BY <2>1, Order, Zenon
<1>5. op = "add" /\ pc # "idle" BY DEF BaseInv, CommandInv, Copying
<1>6. CommandInv' BY <1>3, <1>4, <1>5 DEF BaseInv, CommandInv, Adding, Copying, command
<1> QED BY <1>1, <1>2, <1>6 DEF BaseInv

\* A block of the file, or of pointers, is reserved and written.
LEMMA CopyFacts ==
  ASSUME BaseInv, Copying, free_datablocks > 0, data_left > 0, alloc_block_and_copy
  PROVE  /\ data' \in [DataBlocks -> Block] /\ data_left' \in Nat /\ data_left' <= data_left
         /\ mdbm \subseteq mdbm' /\ mdbm' \in SUBSET DataBlocks
         /\ free_datablocks' \in Nat /\ free_datablocks' = Cardinality(DataBlocks \ mdbm')
         /\ Available \in DataBlocks /\ UNCHANGED <<ibm, dbm, itab>>
<1>1. src[Len(src) - data_left + 1] \in Block /\ data_left - 1 \in Nat /\ data_left \in Nat
  BY NextOfFile DEF BaseInv, TypeOK
<1>2. data' = [data EXCEPT ![Available] = src[Len(src) - data_left + 1]]
      /\ data_left' = data_left - 1 /\ Reserve /\ UNCHANGED <<ibm, dbm, itab>>
  BY DEF alloc_block_and_copy
<1>3. data' \in [DataBlocks -> Block] BY <1>1, <1>2 DEF BaseInv, TypeOK
<1>4. data_left' \in Nat /\ data_left' <= data_left BY <1>1, <1>2
<1> QED BY <1>2, <1>3, <1>4, ReserveCounts DEF BaseInv

\* The loops of fs_add keep the invariant.
LEMMA AddFileBase ==
  ASSUME BaseInv, add_file
  PROVE  BaseInv'
<1> USE DEF command, history, copies, image
<1>0. TypeOK BY DEF BaseInv
<1>1. node \in Inode /\ data \in [DataBlocks -> Block] /\ data_left \in Nat
      /\ k \in Nat /\ k + 1 \in Nat /\ j \in Nat /\ j + 1 \in Nat /\ iblk \in DataBlocks
      /\ iptrs \in Block /\ free_datablocks \in Nat /\ mdbm \in SUBSET DataBlocks
      /\ data_left <= data_left
  <2>1. node \in Inode /\ data \in [DataBlocks -> Block] /\ data_left \in Nat
        /\ k \in Nat /\ j \in Nat /\ iblk \in DataBlocks
        /\ iptrs \in Block /\ free_datablocks \in Nat /\ mdbm \in SUBSET DataBlocks
    BY <1>0 DEF TypeOK
  <2> QED BY <2>1, Order, Zenon
<1>2. CASE AddDirect
  <2>1. Copying /\ free_datablocks > 0 /\ data_left > 0 /\ alloc_block_and_copy
        /\ node' = [node EXCEPT !.direct_ptr[k] = Available % PtrMod]
        /\ k' = k + 1 /\ pc' = "direct"
        /\ UNCHANGED <<command, ino, mibm, j, iblk, iptrs, history>>
    BY <1>2 DEF AddDirect, More, Copying
  <2>2. node' \in Inode /\ node'.number = node.number /\ node'.name = node.name
    <3> DEFINE w == Available % PtrMod
    <3>1. w \in Words BY <2>1, CopyFacts, PointerWord
    <3>2. node' = [node EXCEPT !.direct_ptr[k] = w] BY <2>1
    <3> HIDE DEF w
    <3> QED BY <1>1, <3>1, <3>2 DEF Inode
  <2>3. k' \in Nat /\ j' \in Nat /\ iblk' \in DataBlocks /\ iptrs' \in Block
    BY <1>1, <2>1, Zenon
  <2>4. FreeCountExact' BY <2>1, CopyFacts DEF FreeCountExact
  <2> QED BY <2>1, <2>2, <2>3, <2>4, CopyFacts, LoopsBase
<1>3. CASE DirectDone
  <2>1. FreeCountExact' BY <1>3 DEF DirectDone, BaseInv, FreeCountExact
  <2> QED BY <1>1, <1>3, <2>1, LoopsBase, Zeros DEF DirectDone, Copying
<1>4. CASE AddIndirect
  <2>1. Copying /\ free_datablocks > 0 /\ Reserve /\ iblk' = Available /\ pc' = "inner"
        /\ node' = [node EXCEPT !.indirect_ptr[k] = Available % PtrMod]
        /\ j' = 0 /\ iptrs' = EmptyBlock /\ UNCHANGED <<image, command, ino, mibm, data_left, k, history>>
    BY <1>4 DEF AddIndirect, More, Copying
  <2>2. /\ Available \in DataBlocks \ mdbm /\ mdbm \subseteq mdbm' /\ mdbm' \in SUBSET DataBlocks
        /\ free_datablocks' \in Nat /\ free_datablocks' = Cardinality(DataBlocks \ mdbm')
    BY <2>1, ReserveCounts DEF BaseInv
  <2>3. node' \in Inode /\ node'.number = node.number /\ node'.name = node.name
    <3> DEFINE w == Available % PtrMod
    <3>1. w \in Words BY <2>2, PointerWord
    <3>2. node' = [node EXCEPT !.indirect_ptr[k] = w] BY <2>1
    <3> HIDE DEF w
    <3> QED BY <1>1, <3>1, <3>2 DEF Inode
  <2>4. data' \in [DataBlocks -> Block] /\ data_left' \in Nat /\ data_left' <= data_left
        /\ k' \in Nat
    BY <1>1, <2>1
  <2>6. j' \in Nat /\ iblk' \in DataBlocks /\ iptrs' \in Block
    BY <2>1, <2>2, Zeros
  <2>5. FreeCountExact' BY <2>2 DEF FreeCountExact
  <2> QED BY <2>1, <2>2, <2>3, <2>4, <2>5, <2>6, LoopsBase
<1>5. CASE AddInner
  <2>1. Copying /\ free_datablocks > 0 /\ data_left > 0 /\ alloc_block_and_copy
        /\ iptrs' = [iptrs EXCEPT ![j] = Available % PtrMod] /\ j' = j + 1 /\ pc' = "inner"
        /\ UNCHANGED <<command, ino, node, mibm, k, iblk, history>>
    BY <1>5 DEF AddInner, More, Copying
  <2>2. iptrs' \in Block
    <3>1. Available % PtrMod \in Words BY <2>1, CopyFacts, PointerWord
    <3> QED BY <1>1, <2>1, <3>1 DEF Block
  <2>3. node' \in Inode /\ k' \in Nat /\ j' \in Nat /\ iblk' \in DataBlocks
    BY <1>1, <2>1, Zenon
  <2>4. FreeCountExact' BY <2>1, CopyFacts DEF FreeCountExact
  <2> QED BY <2>1, <2>2, <2>3, <2>4, CopyFacts, LoopsBase
<1>6. CASE InnerDone
  <2>1. FreeCountExact' BY <1>6 DEF InnerDone, BaseInv, FreeCountExact
  <2>2. data' \in [DataBlocks -> Block] BY <1>1, <1>6 DEF InnerDone
  <2> QED BY <1>1, <1>6, <2>1, <2>2, LoopsBase DEF InnerDone, Copying
<1>7. CASE AddFailed
  <2>1. TypeOK' BY <1>0, <1>7, Zeros DEF AddFailed, EndCommand, TypeOK
  <2>2. pc' = "idle" /\ itab' = itab /\ ibm' = ibm /\ dbm' = dbm
    BY <1>7 DEF AddFailed, EndCommand
  <2> QED BY <2>1, <2>2
          DEF BaseInv, FreeCountExact, InodesSane, Live, CommandInv, Adding, Copying
<1>8. CASE AddReady
  <2>1. FreeCountExact' BY <1>8 DEF AddReady, FreeCountExact
  <2> QED BY <1>1, <1>8, <2>1, LoopsBase DEF AddReady, Copying, loops
<1> QED BY <1>2, <1>3, <1>4, <1>5, <1>6, <1>7, <1>8 DEF add_file

\* The inode of a file that exists is a live one of that name.
LEMMA FileInode ==
  ASSUME NEW n, file_exists(n)
  PROVE  /\ fs_get_file_inode(n) \in Inodes /\ itab[fs_get_file_inode(n)].number > 0
         /\ itab[fs_get_file_inode(n)].name = n
<1>1. Matches(n) \in SUBSET Nat BY Zeros DEF Matches
<1>2. fs_get_file_inode(n) \in Matches(n)
  BY <1>1, MinIsLeast DEF file_exists, fs_get_file_inode
<1> QED BY <1>2 DEF Matches

\* fs_del never frees the reserved inode or block, whatever it takes for the
\* pointers of a file.
LEMMA DelStartBase ==
  ASSUME BaseInv, NEW n \in Names, DelStart(n)
  PROVE  BaseInv'
<1> DEFINE i == fs_get_file_inode(n)
<1>1. i \in Inodes /\ itab[i].number > 0 BY FileInode DEF DelStart
<1>2. /\ pc = "idle" /\ pc' = "write inode bitmap" /\ op' = "del" /\ name' = n
      /\ ino' = i /\ node' = ClearInode /\ mibm' = ibm \ {itab[i].number}
      /\ mdbm' = dbm \ DelPointers(i)
      /\ indDel' = (indDel \/ Pointers(itab[i].indirect_ptr) # {})
      /\ ibm' = ibm /\ dbm' = dbm /\ itab' = itab /\ data' = data
      /\ UNCHANGED <<src, loops, torn, leaky>>
  BY DEF DelStart, image
<1>3. 0 \notin DelPointers(i) BY DEF DelPointers, Pointers, ImageWords
<1> HIDE DEF i
<1>4. 0 \in mibm' /\ 0 \in mdbm'
  <2>1. itab[i].number # 0 BY <1>1
  <2> QED BY <1>2, <1>3, <2>1 DEF BaseInv, InodesSane
<1>5. TypeOK' BY <1>1, <1>2, Zeros DEF BaseInv, TypeOK, loops
<1>6. FreeCountExact' BY <1>2 DEF FreeCountExact
<1>7. InodesSane' BY <1>2 DEF BaseInv, InodesSane, Live
<1>8. CommandInv' BY <1>2, <1>4 DEF BaseInv, CommandInv, Adding, Copying
<1> QED BY <1>5, <1>6, <1>7, <1>8 DEF BaseInv

\* Writing the bitmaps back keeps the reserved bits.
LEMMA WriteBitmapsBase ==
  ASSUME BaseInv, WriteIbm \/ WriteDbm
  PROVE  BaseInv'
<1> USE DEF command, copies, loops, history
<1>1. /\ pc \in {"write inode bitmap", "write data bitmap"}
      /\ pc' \in {"write data bitmap", "write inodes"}
      /\ ibm' \in {ibm, mibm} /\ dbm' \in {dbm, mdbm} /\ itab' = itab /\ data' = data
      /\ UNCHANGED <<command, copies, loops, history>>
  BY DEF WriteIbm, WriteDbm
<1>2. 0 \in ibm' /\ 0 \in dbm' BY <1>1 DEF BaseInv, InodesSane, CommandInv
<1>3. TypeOK' BY <1>1 DEF BaseInv, TypeOK
<1>4. FreeCountExact' BY <1>1 DEF FreeCountExact
<1>5. InodesSane' BY <1>1, <1>2 DEF BaseInv, InodesSane, Live
<1>6. Matches(name)' = Matches(name) BY <1>1 DEF Matches
<1>7. CommandInv' BY <1>1, <1>6 DEF BaseInv, CommandInv, Adding, Copying
<1> QED BY <1>3, <1>4, <1>5, <1>7 DEF BaseInv

\* The inode that is written is cleared, or has its own number and a name that
\* no other live inode has.
LEMMA WriteItabBase ==
  ASSUME BaseInv, WriteItab
  PROVE  BaseInv'
<1>1. /\ pc = "write inodes" /\ pc' = "idle" /\ ibm' = ibm /\ dbm' = dbm /\ data' = data
      /\ itab' = [itab EXCEPT ![ino] = node]
      /\ op' = "add" /\ name' = NoName /\ src' = << >>
      /\ ino' = 0 /\ node' = ClearInode /\ mibm' = {} /\ mdbm' = {}
      /\ free_datablocks' = 0 /\ data_left' = 0 /\ k' = 0 /\ j' = 0
      /\ iblk' = 0 /\ iptrs' = EmptyBlock
      /\ torn' = torn /\ indDel' = indDel /\ leaky' = leaky
  BY DEF WriteItab, EndCommand, history
<1>2. op \in {"add", "del"} /\ ino \in Inodes /\ node \in Inode /\ itab \in [Inodes -> Inode]
  BY DEF BaseInv, TypeOK
<1>3. TypeOK'
  <2>1. itab' \in [Inodes -> Inode] BY <1>1, <1>2
  <2> QED BY <1>1, <2>1, Zeros DEF BaseInv, TypeOK
<1>4. FreeCountExact' BY <1>1 DEF FreeCountExact
<1>5. op = "add" => ino # 0 /\ node.number = ino /\ node.name = name /\ Matches(name) = {}
  BY <1>1 DEF BaseInv, CommandInv, Adding
<1>6. op = "del" => node = ClearInode BY <1>1 DEF BaseInv, CommandInv
<1>7. node.number \in {0, ino} /\ (node.number = 0 => node = ClearInode)
  BY <1>2, <1>5, <1>6 DEF ClearInode
<1>8. InodesSane'
  <2>1. \A i \in Inodes : itab'[i].number \in {0, i}
    BY <1>1, <1>2, <1>7 DEF BaseInv, InodesSane
  <2>2. ASSUME NEW a \in Live', NEW b \in Live', itab'[a].name = itab'[b].name PROVE a = b
    <3>1. a \in Inodes /\ b \in Inodes /\ itab'[a].number > 0 /\ itab'[b].number > 0
      BY <2>2 DEF Live
    <3>2. ASSUME NEW c \in Inodes, c # ino, itab'[c].number > 0, node.number > 0
          PROVE  itab'[c].name # node.name
      <4>1. op = "add" BY <1>2, <1>6, <3>2 DEF ClearInode
      <4>2. itab[c].number > 0 BY <1>1, <1>2, <3>2
      <4>3. itab[c].name # name BY <1>5, <3>2, <4>1, <4>2 DEF Matches
      <4> QED BY <1>1, <1>2, <1>5, <3>2, <4>1, <4>3
    <3>3. CASE a # ino /\ b # ino
      <4>1. itab'[a] = itab[a] /\ itab'[b] = itab[b] BY <1>1, <1>2, <3>1, <3>3
      <4> QED BY <2>2, <3>1, <4>1 DEF BaseInv, InodesSane, Live
    <3>4. CASE a = ino /\ b # ino
      <4>1. itab'[a] = node BY <1>1, <1>2, <3>1, <3>4
      <4> QED BY <2>2, <3>1, <3>2, <3>4, <4>1
    <3>5. CASE a # ino /\ b = ino
      <4>1. itab'[b] = node BY <1>1, <1>2, <3>1, <3>5
      <4> QED BY <2>2, <3>1, <3>2, <3>5, <4>1
    <3> QED BY <3>3, <3>4, <3>5
  <2> QED BY <1>1, <2>1, <2>2 DEF BaseInv, InodesSane
<1>9. CommandInv'
  <2>1. \A i \in Inodes : itab'[i].number = 0 => itab'[i] = ClearInode
    BY <1>1, <1>2, <1>7 DEF BaseInv, CommandInv
  <2> QED BY <1>1, <2>1 DEF CommandInv, Adding, Copying
<1> QED BY <1>3, <1>4, <1>8, <1>9 DEF BaseInv

\* The invariant, as a theorem of the specification.
LEMMA BaseInvariant == Spec => []BaseInv
<1>1. Init => BaseInv
  <2> SUFFICES ASSUME Init PROVE BaseInv OBVIOUS
  <2>1. ibm = {0} /\ dbm = {0} /\ itab = [i \in Inodes |-> ClearInode]
        /\ data = [b \in DataBlocks |-> EmptyBlock] /\ pc = "idle"
    BY DEF Init, fs_create, NoCommand
  <2>2. TypeOK BY <2>1, Zeros DEF Init, NoCommand, TypeOK
  <2>3. InodesSane BY <2>1 DEF InodesSane, Live, ClearInode
  <2> QED BY <2>1, <2>2, <2>3 DEF BaseInv, FreeCountExact, CommandInv, Adding, Copying
<1>2. BaseInv /\ [Next]_vars => BaseInv'
  <2> SUFFICES ASSUME BaseInv, [Next]_vars PROVE BaseInv' OBVIOUS
  <2>1. CASE Kill
    <3>1. pc' = "idle" /\ ibm' = ibm /\ dbm' = dbm /\ itab' = itab /\ data' = data
          /\ indDel' = indDel
      BY <2>1 DEF Kill, EndCommand, image
    <3>2. torn' \in BOOLEAN /\ leaky' \in BOOLEAN BY <2>1 DEF Kill, BaseInv, TypeOK
    <3>3. TypeOK' BY <2>1, <3>1, <3>2, Zeros DEF Kill, EndCommand, BaseInv, TypeOK
    <3> QED BY <3>1, <3>3
            DEF BaseInv, FreeCountExact, InodesSane, Live, CommandInv, Adding, Copying
  <2>2. CASE UNCHANGED vars
    <3>1. Matches(name)' = Matches(name) BY <2>2 DEF vars, image, command, Matches
    <3> QED BY <2>2, <3>1 DEF vars, image, command, copies, loops, history, BaseInv, TypeOK,
            FreeCountExact, InodesSane, Live, CommandInv, Adding, Copying
  <2>3. ASSUME NEW n \in Names, AddRefused(n) \/ DelRefused(n) \/ DelAborted(n)
        PROVE  UNCHANGED vars
    BY <2>3 DEF AddRefused, DelRefused, DelAborted
  <2> QED BY <2>1, <2>2, <2>3, AddStartBase, AddFileBase, DelStartBase, WriteBitmapsBase,
             WriteItabBase DEF Next, write_back
<1> QED BY <1>1, <1>2, PTL DEF Spec

\* The image and the commands keep the types of their C structures.
THEOREM TypeCorrect == Spec => []TypeOK
BY BaseInvariant, PTL DEF BaseInv

\* add_file always knows how many blocks are free, so it never writes a block
\* where the bitmap has none.
THEOREM FreeCount == Spec => []FreeCountExact
BY BaseInvariant, PTL DEF BaseInv

\* Inode numbers, names and the reserved entries stay in order, also in images
\* that a killed command has damaged.
THEOREM SaneInodes == Spec => []InodesSane
BY BaseInvariant, PTL DEF BaseInv

-----------------------------------------------------------------------------
(* The blocks of files.  From here on a pointer can hold the number of any *)
(* data block. *)

PointersReach == datablock_count <= PtrMod

\* The blocks of the file fs_add is writing: those its inode leads to already,
\* and while an indirect block is filled, those of the copy.
Unwritten == IF pc = "inner" THEN {iblk} ELSE {}
NodeBlocks ==
  Pointers(node.direct_ptr) \cup Pointers(node.indirect_ptr)
    \cup (IF pc = "inner" THEN Pointers(iptrs) ELSE {})
    \cup UNION {Pointers(data[b]) : b \in Pointers(node.indirect_ptr) \ Unwritten}

\* The pointers that the loops of fs_add have not come to are 0.
FreePointers ==
  /\ pc = "direct" => /\ \A d \in DirectIdx : d >= k => node.direct_ptr[d] = 0
                      /\ \A q \in IndirectIdx : node.indirect_ptr[q] = 0
  /\ pc = "indirect" => \A q \in IndirectIdx : q >= k => node.indirect_ptr[q] = 0
  /\ pc = "inner" => /\ \A q \in IndirectIdx : q > k => node.indirect_ptr[q] = 0
                     /\ \A p \in PtrIdx : p >= j => iptrs[p] = 0
                     /\ iblk \in Pointers(node.indirect_ptr)

\* What the image marks, and what the copies of a command do.
FilesMarked ==
  /\ \A a, b \in Live : a # b => UsedBlocks(a) \cap UsedBlocks(b) = {}
  /\ \A a \in Live : ~Deleting(a) => a \in ibm /\ UsedBlocks(a) \subseteq dbm

AddMarks ==
  /\ ino \notin Live /\ ino \in mibm /\ ibm \subseteq mibm /\ dbm \subseteq mdbm
  /\ NodeBlocks \subseteq mdbm
  /\ \A a \in Live : NodeBlocks \cap UsedBlocks(a) = {}

DelMarks == \A a \in Live \ {ino} : a \in mibm /\ UsedBlocks(a) \subseteq mdbm

ApartInv ==
  Intact =>
    /\ FilesMarked /\ FreePointers
    /\ Adding => AddMarks
    /\ pc # "idle" /\ op = "del" => DelMarks
    /\ pc \in {"write data bitmap", "write inodes"} => ibm = mibm
    /\ pc = "write inodes" => dbm = mdbm

\* The bitmaps, and their copies, mark nothing else, as long as no fs_add was
\* killed while it wrote them.
FileBlocks == UNION {UsedBlocks(a) : a \in Live}
OtherBlocks == UNION {UsedBlocks(a) : a \in Live \ {ino}}

ExactInv ==
  Intact /\ ~leaky =>
    /\ pc \notin {"write data bitmap", "write inodes"} => ibm = {0} \cup Live
    /\ pc # "write inodes" => dbm = {0} \cup FileBlocks
    /\ Adding => mibm = {0, ino} \cup Live /\ mdbm = {0} \cup FileBlocks \cup NodeBlocks
    /\ pc # "idle" /\ op = "del" =>
         mibm = ({0} \cup Live) \ {ino} /\ mdbm = {0} \cup OtherBlocks

\* Setting a free pointer adds one block to those a function points to.
LEMMA PointersGrow ==
  ASSUME NEW D, NEW f \in [D -> Words], NEW d \in D, f[d] = 0, NEW b \in DataBlocks \ {0},
         NEW g, g = [f EXCEPT ![d] = b % PtrMod], PointersReach
  PROVE  Pointers(g) = Pointers(f) \cup {b}
<1>1. b % PtrMod = b BY CountsAssumption DEF PointersReach, DataBlocks
<1>2. DOMAIN g = D /\ g[d] = b /\ \A e \in D : e # d => g[e] = f[e] BY <1>1
<1>3. DOMAIN f = D OBVIOUS
<1> QED BY <1>2, <1>3 DEF Pointers

\* Files lead to blocks that the tools have marked: data blocks.
LEMMA UsedMarked ==
  ASSUME BaseInv, ApartInv, Intact, Adding, NEW a \in Live
  PROVE  a \in Inodes /\ UsedBlocks(a) \subseteq dbm /\ UsedBlocks(a) \subseteq mdbm
         /\ a \in ibm /\ a # ino
<1>1. ~Deleting(a) BY DEF Adding, Deleting
<1> QED BY <1>1 DEF ApartInv, FilesMarked, AddMarks, Live

\* A file keeps its blocks as long as its inode and its indirect blocks stay
\* what they are.
LEMMA UsedKept ==
  ASSUME NEW a, itab'[a] = itab[a], \A b \in IndirectBlocks(a) : data'[b] = data[b]
  PROVE  UsedBlocks(a)' = UsedBlocks(a)
<1>1. IndirectBlocks(a)' = IndirectBlocks(a) BY DEF IndirectBlocks
<1>2. {Pointers(data[b]) : b \in IndirectBlocks(a)}'
        = {Pointers(data[b]) : b \in IndirectBlocks(a)}
  BY <1>1
<1> QED BY <1>1, <1>2 DEF UsedBlocks

\* A step of the loops of fs_add that gives the new file blocks that were not
\* marked, and writes to no block of another file, keeps the files apart.
LEMMA LoopsApart ==
  ASSUME BaseInv, ApartInv, Intact, Copying, FreePointers',
         pc' \in {"direct", "indirect", "inner", "write inode bitmap"},
         UNCHANGED <<ibm, dbm, itab, command, ino, mibm, history>>,
         NEW new \in SUBSET (DataBlocks \ mdbm), mdbm' = mdbm \cup new,
         NodeBlocks' = NodeBlocks \cup new,
         \A a \in Live : \A b \in UsedBlocks(a) : data'[b] = data[b]
  PROVE  ApartInv' /\ (ExactInv => ExactInv')
<1>1. Adding /\ op' = "add" BY DEF BaseInv, CommandInv, Copying, Adding, command
<1>2. Live' = Live BY DEF Live
<1>3. \A a \in Live : UsedBlocks(a)' = UsedBlocks(a)
  BY UsedKept DEF UsedBlocks
<1>4. FilesMarked'
  BY <1>1, <1>2, <1>3, UsedMarked DEF ApartInv, FilesMarked
<1>5. AddMarks'
  <2>1. NodeBlocks' \subseteq mdbm' BY <1>1 DEF ApartInv, AddMarks
  <2>2. \A a \in Live : NodeBlocks' \cap UsedBlocks(a)' = {}
    BY <1>1, <1>3, UsedMarked DEF ApartInv, AddMarks
  <2> QED BY <1>1, <1>2, <2>1, <2>2 DEF ApartInv, AddMarks
<1>6. ApartInv' BY <1>1, <1>4, <1>5 DEF ApartInv, Copying
<1>7. FileBlocks' = FileBlocks BY <1>2, <1>3 DEF FileBlocks
<1>8. ASSUME ExactInv PROVE ExactInv'
  <2>1. leaky' = leaky /\ Intact' = Intact BY DEF history, Intact
  <2>2. CASE leaky BY <2>1, <2>2 DEF ExactInv
  <2>3. CASE ~leaky
    <3>1. ibm = {0} \cup Live /\ dbm = {0} \cup FileBlocks /\ mibm = {0, ino} \cup Live
          /\ mdbm = {0} \cup FileBlocks \cup NodeBlocks
      BY <1>1, <1>8, <2>3 DEF ExactInv, Copying
    <3>2. mdbm' = {0} \cup FileBlocks' \cup NodeBlocks' BY <1>7, <3>1
    <3> QED BY <1>1, <1>2, <1>7, <3>1, <3>2 DEF ExactInv
  <2> QED BY <2>2, <2>3
<1> QED BY <1>6, <1>8

\* The block that is reserved belongs to nothing yet, and it is not block 0.
LEMMA ReservedIsNew ==
  ASSUME BaseInv, ApartInv, Intact, Copying, free_datablocks > 0, Reserve
  PROVE  /\ Available \in DataBlocks \ {0} /\ {Available} \in SUBSET (DataBlocks \ mdbm)
         /\ mdbm' = mdbm \cup {Available} /\ Available \notin mdbm
         /\ NodeBlocks \subseteq mdbm /\ \A a \in Live : UsedBlocks(a) \subseteq mdbm
<1>1. Adding BY DEF BaseInv, CommandInv, Copying, Adding
<1>2. Available \in DataBlocks \ mdbm /\ mdbm' = mdbm \cup {Available}
  BY ReserveCounts DEF BaseInv
<1>3. NodeBlocks \subseteq mdbm /\ 0 \in mdbm
  BY <1>1 DEF ApartInv, AddMarks, BaseInv, CommandInv, Adding
<1> QED BY <1>1, <1>2, <1>3, UsedMarked

\* A write to one block leaves the others of the bitmap as they are.
LEMMA CopyKeepsOthers ==
  ASSUME BaseInv, NEW b \in DataBlocks, NEW x, data' = [data EXCEPT ![b] = x],
         NEW U \in SUBSET mdbm, b \notin U
  PROVE  \A c \in U : data'[c] = data[c]
BY DEF BaseInv, TypeOK

LEMMA AddDirectApart ==
  ASSUME BaseInv, ApartInv, Intact, AddDirect, PointersReach
  PROVE  ApartInv' /\ (ExactInv => ExactInv')
<1>1. /\ Copying /\ free_datablocks > 0 /\ Reserve /\ pc = "direct" /\ pc' = "direct"
      /\ data' = [data EXCEPT ![Available] = src[Len(src) - data_left + 1]]
      /\ node' = [node EXCEPT !.direct_ptr[k] = Available % PtrMod]
      /\ k < INODE_DIRECT_PTR_CNT /\ k' = k + 1
      /\ UNCHANGED <<ibm, dbm, itab, command, ino, mibm, history>>
  BY DEF AddDirect, More, Copying, alloc_block_and_copy
<1> DEFINE new == {Available}
<1>2. FreePointers BY DEF ApartInv
<1>3. k \in DirectIdx /\ k \in Nat
  BY <1>1, CountsAssumption DEF BaseInv, TypeOK, DirectIdx
<1>4. node.direct_ptr \in [DirectIdx -> Words] /\ node.indirect_ptr \in [IndirectIdx -> Words]
      /\ node \in Inode
  BY DEF BaseInv, TypeOK, Inode
<1>5. node'.direct_ptr = [node.direct_ptr EXCEPT ![k] = Available % PtrMod]
      /\ node'.indirect_ptr = node.indirect_ptr
  BY <1>1, <1>4 DEF Inode
<1>6. Pointers(node'.direct_ptr) = Pointers(node.direct_ptr) \cup new
  <2>1. node.direct_ptr[k] = 0 BY <1>1, <1>2, <1>3 DEF FreePointers
  <2> QED BY <1>1, <1>3, <1>4, <1>5, <2>1, ReservedIsNew, PointersGrow
<1>7. Pointers(node.indirect_ptr) = {} /\ Pointers(node'.indirect_ptr) = {}
  BY <1>1, <1>2, <1>4, <1>5 DEF FreePointers, Pointers
<1>8. NodeBlocks = Pointers(node.direct_ptr) /\ NodeBlocks' = Pointers(node'.direct_ptr)
  BY <1>1, <1>7 DEF NodeBlocks
<1>9. FreePointers'
  <2>1. \A d \in DirectIdx : d >= k + 1 => node'.direct_ptr[d] = 0
    <3> SUFFICES ASSUME NEW d \in DirectIdx, d >= k + 1 PROVE node'.direct_ptr[d] = 0
      OBVIOUS
    <3>1. d # k /\ d >= k BY <1>3 DEF DirectIdx
    <3> QED BY <1>1, <1>2, <1>4, <1>5, <3>1 DEF FreePointers
  <2>2. \A q \in IndirectIdx : node'.indirect_ptr[q] = 0
    BY <1>1, <1>2, <1>5 DEF FreePointers
  <2> QED BY <1>1, <2>1, <2>2 DEF FreePointers
<1>10. \A a \in Live : \A b \in UsedBlocks(a) : data'[b] = data[b]
  BY <1>1, ReservedIsNew, CopyKeepsOthers
<1>11. new \in SUBSET (DataBlocks \ mdbm) /\ mdbm' = mdbm \cup new BY <1>1, ReservedIsNew
<1>12. NodeBlocks' = NodeBlocks \cup new BY <1>6, <1>8
<1> HIDE DEF new
<1> QED BY <1>1, <1>9, <1>10, <1>11, <1>12, LoopsApart

LEMMA AddIndirectApart ==
  ASSUME BaseInv, ApartInv, Intact, AddIndirect, PointersReach
  PROVE  ApartInv' /\ (ExactInv => ExactInv')
<1>1. /\ Copying /\ free_datablocks > 0 /\ Reserve /\ pc = "indirect" /\ pc' = "inner"
      /\ data' = data /\ iblk' = Available /\ iptrs' = EmptyBlock /\ j' = 0
      /\ node' = [node EXCEPT !.indirect_ptr[k] = Available % PtrMod]
      /\ k < INODE_INDIRECT_PTR_CNT /\ k' = k
      /\ UNCHANGED <<ibm, dbm, itab, command, ino, mibm, history>>
  BY DEF AddIndirect, More, Copying, image
<1> DEFINE new == {Available}
<1>2. FreePointers BY DEF ApartInv
<1>3. k \in IndirectIdx /\ k \in Nat
  BY <1>1, CountsAssumption DEF BaseInv, TypeOK, IndirectIdx
<1>4. node.direct_ptr \in [DirectIdx -> Words] /\ node.indirect_ptr \in [IndirectIdx -> Words]
      /\ node \in Inode
  BY DEF BaseInv, TypeOK, Inode
<1>5. node'.indirect_ptr = [node.indirect_ptr EXCEPT ![k] = Available % PtrMod]
      /\ node'.direct_ptr = node.direct_ptr
  BY <1>1, <1>4 DEF Inode
<1>6. Pointers(node'.indirect_ptr) = Pointers(node.indirect_ptr) \cup new
  <2>1. node.indirect_ptr[k] = 0 BY <1>1, <1>2, <1>3 DEF FreePointers
  <2> QED BY <1>1, <1>3, <1>4, <1>5, <2>1, ReservedIsNew, PointersGrow
<1>7. Pointers(node'.indirect_ptr) \ {Available} = Pointers(node.indirect_ptr)
  <2>1. Pointers(node.indirect_ptr) \subseteq NodeBlocks BY DEF NodeBlocks
  <2> QED BY <1>1, <1>6, <2>1, ReservedIsNew
<1>8. Pointers(iptrs') = {} BY <1>1 DEF Pointers, EmptyBlock
<1>12. NodeBlocks' = NodeBlocks \cup new
  BY <1>1, <1>5, <1>6, <1>7, <1>8 DEF NodeBlocks, Unwritten
<1>9. FreePointers'
  <2>1. \A q \in IndirectIdx : q > k => node'.indirect_ptr[q] = 0
    <3> SUFFICES ASSUME NEW q \in IndirectIdx, q > k PROVE node'.indirect_ptr[q] = 0
      OBVIOUS
    <3>1. q # k /\ q >= k BY <1>3 DEF IndirectIdx
    <3> QED BY <1>1, <1>2, <1>4, <1>5, <3>1 DEF FreePointers
  <2>2. \A p \in PtrIdx : iptrs'[p] = 0 BY <1>1 DEF EmptyBlock
  <2>3. iblk' \in Pointers(node'.indirect_ptr) BY <1>1, <1>6
  <2> QED BY <1>1, <2>1, <2>2, <2>3 DEF FreePointers
<1>11. new \in SUBSET (DataBlocks \ mdbm) /\ mdbm' = mdbm \cup new BY <1>1, ReservedIsNew
<1> HIDE DEF new
<1> QED BY <1>1, <1>9, <1>11, <1>12, LoopsApart

LEMMA AddInnerApart ==
  ASSUME BaseInv, ApartInv, Intact, AddInner, PointersReach
  PROVE  ApartInv' /\ (ExactInv => ExactInv')
<1>1. /\ Copying /\ free_datablocks > 0 /\ Reserve /\ pc = "inner" /\ pc' = "inner"
      /\ data' = [data EXCEPT ![Available] = src[Len(src) - data_left + 1]]
      /\ iptrs' = [iptrs EXCEPT ![j] = Available % PtrMod]
      /\ j < pointers_per_block /\ j' = j + 1 /\ k' = k /\ iblk' = iblk
      /\ node' = node
      /\ UNCHANGED <<ibm, dbm, itab, command, ino, mibm, history>>
  BY DEF AddInner, More, Copying, alloc_block_and_copy
<1> DEFINE new == {Available}
<1>2. FreePointers BY DEF ApartInv
<1>3. j \in PtrIdx /\ j \in Nat
  BY <1>1, CountsAssumption DEF BaseInv, TypeOK, PtrIdx
<1>4. iptrs \in [PtrIdx -> Words] BY DEF BaseInv, TypeOK, Block
<1>5. Pointers(iptrs') = Pointers(iptrs) \cup new
  <2>1. iptrs[j] = 0 BY <1>1, <1>2, <1>3 DEF FreePointers
  <2>2. Available \in DataBlocks \ {0} /\ iptrs' = [iptrs EXCEPT ![j] = Available % PtrMod]
    BY <1>1, ReservedIsNew
  <2>3. j \in PtrIdx BY <1>3
  <2>4. Available % PtrMod = Available
    BY <2>2, CountsAssumption DEF PointersReach, DataBlocks
  <2>5. DOMAIN iptrs = PtrIdx /\ DOMAIN iptrs' = PtrIdx /\ iptrs'[j] = Available
        /\ \A p \in PtrIdx : p # j => iptrs'[p] = iptrs[p]
    BY <1>4, <2>2, <2>3, <2>4
  <2> QED BY <2>1, <2>2, <2>3, <2>5 DEF Pointers
<1>6. \A b \in Pointers(node.indirect_ptr) : data'[b] = data[b]
  <2>1. Pointers(node.indirect_ptr) \subseteq NodeBlocks BY DEF NodeBlocks
  <2> QED BY <1>1, <2>1, ReservedIsNew, CopyKeepsOthers
<1>7. {Pointers(data'[b]) : b \in Pointers(node.indirect_ptr) \ {iblk}}
        = {Pointers(data[b]) : b \in Pointers(node.indirect_ptr) \ {iblk}}
  BY <1>6
<1>8. NodeBlocks' = NodeBlocks \cup new BY <1>1, <1>5, <1>7 DEF NodeBlocks, Unwritten
<1>9. FreePointers'
  <2>1. \A p \in PtrIdx : p >= j + 1 => iptrs'[p] = 0
    <3> SUFFICES ASSUME NEW p \in PtrIdx, p >= j + 1 PROVE iptrs'[p] = 0
      OBVIOUS
    <3>1. p # j /\ p >= j BY <1>3 DEF PtrIdx
    <3> QED BY <1>1, <1>2, <1>4, <3>1 DEF FreePointers
  <2> QED BY <1>1, <1>2, <2>1 DEF FreePointers
<1>10. \A a \in Live : \A b \in UsedBlocks(a) : data'[b] = data[b]
  BY <1>1, ReservedIsNew, CopyKeepsOthers
<1>11. new \in SUBSET (DataBlocks \ mdbm) /\ mdbm' = mdbm \cup new BY <1>1, ReservedIsNew
<1> HIDE DEF new
<1> QED BY <1>1, <1>8, <1>9, <1>10, <1>11, LoopsApart

\* The filled indirect block goes where its pointer leads, and that is in no
\* other file.
LEMMA InnerDoneApart ==
  ASSUME BaseInv, ApartInv, Intact, InnerDone
  PROVE  ApartInv' /\ (ExactInv => ExactInv')
<1>1. /\ Copying /\ pc = "inner" /\ pc' = "indirect" /\ k' = k + 1
      /\ data' = [data EXCEPT ![iblk] = iptrs]
      /\ node' = node /\ mdbm' = mdbm
      /\ UNCHANGED <<ibm, dbm, itab, command, ino, mibm, history>>
  BY DEF InnerDone, Copying, copies
<1>2. Adding BY <1>1 DEF BaseInv, CommandInv, Copying, Adding
<1>3. iblk \in Pointers(node.indirect_ptr) /\ \A q \in IndirectIdx : q > k => node.indirect_ptr[q] = 0
  BY <1>1 DEF ApartInv, FreePointers
<1>4. NodeBlocks \subseteq mdbm /\ \A a \in Live : NodeBlocks \cap UsedBlocks(a) = {}
  BY <1>2 DEF ApartInv, AddMarks
<1>5. iblk \in NodeBlocks /\ iblk \in DataBlocks
  BY <1>3 DEF NodeBlocks, BaseInv, TypeOK
<1>6. Pointers(node.indirect_ptr) \subseteq mdbm BY <1>4 DEF NodeBlocks
<1>7. data'[iblk] = iptrs /\ \A b \in mdbm : b # iblk => data'[b] = data[b]
  BY <1>1, <1>5 DEF BaseInv, TypeOK
<1>8. NodeBlocks' = NodeBlocks
  <2> DEFINE rest == Pointers(node.indirect_ptr) \ {iblk}
             written == Pointers(node.direct_ptr) \cup Pointers(node.indirect_ptr)
  <2>1. \A b \in rest : data'[b] = data[b] BY <1>6, <1>7
  <2>2. Pointers(node.indirect_ptr) = rest \cup {iblk} BY <1>3
  <2>3. NodeBlocks = written \cup Pointers(iptrs) \cup UNION {Pointers(data[b]) : b \in rest}
    BY <1>1 DEF NodeBlocks, Unwritten
  <2>4. NodeBlocks' = written \cup UNION {Pointers(data'[b]) : b \in rest \cup {iblk}}
    BY <1>1, <2>2 DEF NodeBlocks, Unwritten
  <2> HIDE DEF rest, written
  <2>5. UNION {Pointers(data'[b]) : b \in rest \cup {iblk}}
          = Pointers(iptrs) \cup UNION {Pointers(data[b]) : b \in rest}
    BY <1>7, <2>1
  <2> QED BY <2>3, <2>4, <2>5
<1>9. FreePointers'
  <2>1. k \in Nat BY DEF BaseInv, TypeOK
  <2>2. \A q \in IndirectIdx : q >= k + 1 => q > k BY <2>1, CountsAssumption DEF IndirectIdx
  <2> QED BY <1>1, <1>3, <2>2 DEF FreePointers
<1>10. \A a \in Live : \A b \in UsedBlocks(a) : data'[b] = data[b]
  <2> SUFFICES ASSUME NEW a \in Live, NEW b \in UsedBlocks(a) PROVE data'[b] = data[b]
    OBVIOUS
  <2>1. b \in mdbm /\ b # iblk BY <1>2, <1>4, <1>5, UsedMarked
  <2> QED BY <1>7, <2>1
<1> DEFINE new == {}
<1>11. new \in SUBSET (DataBlocks \ mdbm) /\ mdbm' = mdbm \cup new
       /\ NodeBlocks' = NodeBlocks \cup new
  BY <1>1, <1>8
<1> HIDE DEF new
<1> QED BY <1>1, <1>9, <1>10, <1>11, LoopsApart

\* The ends of the loops change nothing but the place in the program.
LEMMA LoopEndsApart ==
  ASSUME BaseInv, ApartInv, Intact, DirectDone \/ AddReady
  PROVE  ApartInv' /\ (ExactInv => ExactInv')
<1>1. /\ Copying /\ pc \in {"direct", "indirect"}
      /\ pc' \in {"indirect", "write inode bitmap"}
      /\ data' = data /\ node' = node /\ mdbm' = mdbm
      /\ pc' = "indirect" => pc = "direct" /\ k' = 0
      /\ UNCHANGED <<ibm, dbm, itab, command, ino, mibm, history>>
  BY DEF DirectDone, AddReady, Copying, copies, image
<1>2. NodeBlocks' = NodeBlocks
  <2>1. pc # "inner" /\ pc' # "inner" BY <1>1
  <2>2. {Pointers(data'[b]) : b \in Pointers(node'.indirect_ptr) \ {}}
          = {Pointers(data[b]) : b \in Pointers(node.indirect_ptr) \ {}}
    BY <1>1
  <2> QED BY <1>1, <2>1, <2>2 DEF NodeBlocks, Unwritten
<1>3. FreePointers' BY <1>1 DEF ApartInv, FreePointers
<1> DEFINE new == {}
<1>4. new \in SUBSET (DataBlocks \ mdbm) /\ mdbm' = mdbm \cup new
      /\ NodeBlocks' = NodeBlocks \cup new
  BY <1>1, <1>2
<1> HIDE DEF new
<1> QED BY <1>1, <1>3, <1>4, LoopsApart

\* As long as itab and data stay, files keep their blocks.
LEMMA AllKept ==
  ASSUME itab' = itab, data' = data
  PROVE  Live' = Live /\ FileBlocks' = FileBlocks /\ \A a \in Live : UsedBlocks(a)' = UsedBlocks(a)
<1>1. Live' = Live /\ \A a \in Live : UsedBlocks(a)' = UsedBlocks(a) BY UsedKept DEF Live
<1> QED BY <1>1 DEF FileBlocks

\* A failed or killed command leaves the files as they were.
LEMMA EndApart ==
  ASSUME BaseInv, ApartInv, AddFailed \/ Kill
  PROVE  ApartInv' /\ (ExactInv => ExactInv')
<1> SUFFICES ASSUME Intact' PROVE ApartInv' /\ (ExactInv => ExactInv') BY DEF ApartInv, ExactInv
<1>1. pc' = "idle" /\ ibm' = ibm /\ dbm' = dbm /\ itab' = itab /\ data' = data
  BY DEF AddFailed, Kill, EndCommand, image
<1>2. Intact /\ \A a : ~Deleting(a)
  <2>1. CASE AddFailed BY <2>1 DEF AddFailed, Intact, Deleting, history
  <2>2. CASE Kill BY <2>2 DEF Kill, Intact, Deleting
  <2> QED BY <2>1, <2>2
<1>3. FilesMarked' BY <1>1, <1>2, AllKept DEF ApartInv, FilesMarked
<1>4. ApartInv' BY <1>1, <1>3 DEF ApartInv, Adding, FreePointers
<1>5. ASSUME ExactInv, ~leaky' PROVE ibm = {0} \cup Live /\ dbm = {0} \cup FileBlocks
  <2>1. CASE AddFailed BY <1>2, <1>5, <2>1 DEF AddFailed, ExactInv, history
  <2>2. CASE Kill
    <3>1. ~leaky /\ pc \notin {"write data bitmap", "write inodes"} /\ op \in {"add", "del"}
      BY <1>2, <1>5, <2>2 DEF Kill, Intact, BaseInv, TypeOK
    <3> QED BY <1>2, <1>5, <3>1 DEF ExactInv
  <2> QED BY <2>1, <2>2
<1>6. ExactInv => ExactInv' BY <1>1, <1>5, AllKept DEF ExactInv, Adding
<1> QED BY <1>4, <1>6

\* fs_add starts with an inode that leads nowhere: what is free is cleared.
LEMMA AddStartApart ==
  ASSUME BaseInv, ApartInv, Intact, NEW n \in Names, NEW f \in HostFiles, AddStart(n, f)
  PROVE  ApartInv' /\ (ExactInv => ExactInv')
<1> DEFINE i == FirstAvailable(ibm, inode_count)
<1>1. i \in Inodes \ ibm
  <2>1. Inodes \ ibm # {} BY DEF AddStart, NoInodeLeft
  <2> QED BY <2>1, FirstIsClear, CountsAssumption DEF Inodes
<1>2. /\ torn' = torn /\ indDel' = indDel /\ leaky' = leaky /\ pc = "idle" /\ pc' = "direct" /\ op' = "add" /\ ino' = i
      /\ mibm' = ibm \cup {i} /\ mdbm' = dbm
      /\ node' = [itab[i] EXCEPT !.number = i, !.name = n, !.size = Len(f)]
      /\ ibm' = ibm /\ dbm' = dbm /\ itab' = itab /\ data' = data
  BY DEF AddStart, image, history
<1> HIDE DEF i
<1>3. FilesMarked /\ Live \subseteq ibm BY <1>2 DEF ApartInv, FilesMarked, Deleting
<1>4. i \notin Live BY <1>1, <1>3
<1>5. itab[i] = ClearInode
  <2>1. itab[i].number \in {0, i} /\ i \in Nat /\ ~(itab[i].number > 0)
    BY <1>1, <1>4, Zeros DEF Live, BaseInv, InodesSane
  <2>2. itab[i].number = 0 BY <2>1
  <2> QED BY <1>1, <2>2 DEF BaseInv, CommandInv
<1>6. /\ \A d \in DirectIdx : node'.direct_ptr[d] = 0
      /\ \A q \in IndirectIdx : node'.indirect_ptr[q] = 0
      /\ DOMAIN node'.direct_ptr = DirectIdx /\ DOMAIN node'.indirect_ptr = IndirectIdx
  BY <1>2, <1>5 DEF ClearInode
<1>7. NodeBlocks' = {}
  <2>1. Pointers(node'.direct_ptr) = {} /\ Pointers(node'.indirect_ptr) = {}
    BY <1>6 DEF Pointers
  <2> QED BY <1>2, <2>1 DEF NodeBlocks
<1>8. FilesMarked' BY <1>2, <1>3, AllKept DEF FilesMarked, Deleting
<1>9. AddMarks' BY <1>2, <1>4, <1>7, AllKept DEF AddMarks
<1>10. FreePointers' BY <1>2, <1>6 DEF FreePointers
<1>11. ApartInv' BY <1>2, <1>8, <1>9, <1>10 DEF ApartInv
<1>12. ASSUME ExactInv PROVE ExactInv'
  <2> SUFFICES ASSUME ~leaky PROVE ExactInv' BY <1>2 DEF ExactInv
  <2>1. ibm = {0} \cup Live /\ dbm = {0} \cup FileBlocks BY <1>2, <1>12 DEF ExactInv
  <2>2. mibm' = {0, ino'} \cup Live' /\ mdbm' = {0} \cup FileBlocks' \cup NodeBlocks'
    BY <1>2, <1>7, <2>1, AllKept
  <2> QED BY <1>2, <2>1, <2>2, AllKept DEF ExactInv, Adding
<1> QED BY <1>11, <1>12

\* A file without indirect blocks gives up its own blocks, and no other ones.
LEMMA DelStartApart ==
  ASSUME BaseInv, ApartInv, NEW n \in Names, DelStart(n)
  PROVE  ApartInv' /\ (ExactInv => ExactInv')
<1> SUFFICES ASSUME Intact' PROVE ApartInv' /\ (ExactInv => ExactInv') BY DEF ApartInv, ExactInv
<1> DEFINE i == fs_get_file_inode(n)
<1>1. i \in Inodes /\ itab[i].number > 0 BY FileInode DEF DelStart
<1>2. /\ pc = "idle" /\ pc' = "write inode bitmap" /\ op' = "del" /\ ino' = i
      /\ mibm' = ibm \ {itab[i].number} /\ mdbm' = dbm \ DelPointers(i)
      /\ indDel' = (indDel \/ Pointers(itab[i].indirect_ptr) # {})
      /\ ibm' = ibm /\ dbm' = dbm /\ itab' = itab /\ data' = data /\ torn' = torn /\ leaky' = leaky
  BY DEF DelStart, image
<1> HIDE DEF i
<1>3. Intact /\ Pointers(itab[i].indirect_ptr) = {} BY <1>2 DEF Intact
<1>4. i \in Live /\ itab[i].number = i BY <1>1 DEF Live, BaseInv, InodesSane
<1>5. FilesMarked /\ \A a : ~Deleting(a) BY <1>2, <1>3 DEF ApartInv, Deleting
<1>6. DelPointers(i) \subseteq UsedBlocks(i) BY <1>3 DEF DelPointers, UsedBlocks
<1>7. FilesMarked' BY <1>2, <1>5, AllKept DEF FilesMarked
<1>8. DelMarks'
  <2> SUFFICES ASSUME NEW a \in Live, a # i PROVE a \in mibm' /\ UsedBlocks(a) \subseteq mdbm'
    BY <1>2, AllKept DEF DelMarks
  <2>1. a \in ibm /\ UsedBlocks(a) \subseteq dbm /\ UsedBlocks(a) \cap UsedBlocks(i) = {}
    BY <1>4, <1>5 DEF FilesMarked
  <2> QED BY <1>2, <1>4, <1>6, <2>1
<1>9. ApartInv' BY <1>2, <1>7, <1>8 DEF ApartInv, FreePointers, Adding
<1>10. ASSUME ExactInv, ~leaky PROVE ExactInv'
  <2>1. ibm = {0} \cup Live /\ dbm = {0} \cup FileBlocks BY <1>2, <1>3, <1>10 DEF ExactInv
  <2>2. DelPointers(i) = UsedBlocks(i) /\ 0 \notin UsedBlocks(i)
    BY <1>3 DEF DelPointers, UsedBlocks, IndirectBlocks, Pointers
  <2>3. \A a \in Live : a # i => UsedBlocks(a) \cap UsedBlocks(i) = {}
    BY <1>4, <1>5 DEF FilesMarked
  <2>4. FileBlocks \ UsedBlocks(i) = UNION {UsedBlocks(a) : a \in Live \ {i}}
    BY <1>4, <2>3 DEF FileBlocks
  <2>5. OtherBlocks' = UNION {UsedBlocks(a) : a \in Live \ {i}}
    <3>1. OtherBlocks' = UNION {UsedBlocks(a)' : a \in Live' \ {ino'}} BY DEF OtherBlocks
    <3> QED BY <1>2, <3>1, AllKept
  <2>6. mibm' = ({0} \cup Live') \ {ino'} /\ mdbm' = {0} \cup OtherBlocks'
    BY <1>2, <1>4, <2>1, <2>2, <2>4, <2>5, AllKept
  <2> QED BY <1>2, <2>1, <2>6, AllKept DEF ExactInv, Adding
<1>11. ExactInv => ExactInv' BY <1>2, <1>10 DEF ExactInv
<1> QED BY <1>9, <1>11

\* Writing the bitmaps back marks what the new inode leads to, and unmarks
\* only the file that is being deleted.
LEMMA WriteBitmapsApart ==
  ASSUME BaseInv, ApartInv, Intact, WriteIbm \/ WriteDbm
  PROVE  ApartInv' /\ (ExactInv => ExactInv')
<1>1. /\ itab' = itab /\ data' = data /\ node' = node /\ mibm' = mibm /\ mdbm' = mdbm
      /\ op' = op /\ ino' = ino /\ op \in {"add", "del"}
      /\ \/ pc = "write inode bitmap" /\ pc' = "write data bitmap" /\ ibm' = mibm /\ dbm' = dbm
         \/ pc = "write data bitmap" /\ pc' = "write inodes" /\ ibm' = ibm /\ dbm' = mdbm
      /\ torn' = torn /\ indDel' = indDel /\ leaky' = leaky
  BY DEF WriteIbm, WriteDbm, command, copies, history, BaseInv, TypeOK
<1>2. ibm' = mibm BY <1>1 DEF ApartInv
<1>3. pc' = "write inodes" => dbm' = mdbm BY <1>1
<1>4. Live' = Live /\ \A a \in Live : UsedBlocks(a)' = UsedBlocks(a) BY <1>1, AllKept
<1>5. FilesMarked BY DEF ApartInv
<1>6. NodeBlocks' = NodeBlocks
  <2>1. pc # "inner" /\ pc' # "inner" BY <1>1
  <2>2. {Pointers(data'[b]) : b \in Pointers(node'.indirect_ptr) \ {}}
            = {Pointers(data[b]) : b \in Pointers(node.indirect_ptr) \ {}}
    BY <1>1
  <2> QED BY <1>1, <2>1, <2>2 DEF NodeBlocks, Unwritten
<1>7. ASSUME op = "add" PROVE ApartInv'
  <2>1. AddMarks /\ \A a : ~Deleting(a) BY <1>1, <1>7 DEF ApartInv, Adding, Deleting
  <2>3. AddMarks' BY <1>1, <1>2, <1>4, <2>1, <1>6 DEF AddMarks
  <2>4. FilesMarked' BY <1>1, <1>2, <1>4, <1>5, <2>1 DEF FilesMarked, AddMarks
  <2> QED BY <1>1, <1>2, <1>3, <1>7, <2>3, <2>4 DEF ApartInv, FreePointers
<1>8. ASSUME op = "del" PROVE ApartInv'
  <2>1. DelMarks BY <1>1, <1>8 DEF ApartInv
  <2>2. DelMarks' BY <1>1, <1>4, <2>1 DEF DelMarks
  <2>3. \A a \in Live : ~Deleting(a)' => a # ino BY <1>1, <1>8 DEF Deleting
  <2>4. \A a \in Live : a # ino => a \in ibm' /\ UsedBlocks(a) \subseteq dbm'
    <3> SUFFICES ASSUME NEW a \in Live, a # ino PROVE a \in ibm' /\ UsedBlocks(a) \subseteq dbm'
      OBVIOUS
    <3>1. a \in mibm /\ UsedBlocks(a) \subseteq mdbm BY <2>1 DEF DelMarks
    <3>2. UsedBlocks(a) \subseteq dbm BY <1>5 DEF FilesMarked, Deleting
    <3> QED BY <1>1, <1>2, <3>1, <3>2
  <2>5. FilesMarked' BY <1>4, <1>5, <2>3, <2>4 DEF FilesMarked
  <2> QED BY <1>1, <1>2, <1>3, <1>8, <2>2, <2>5 DEF ApartInv, FreePointers, Adding
<1>9. OtherBlocks' = OtherBlocks
  <2>1. OtherBlocks' = UNION {UsedBlocks(a)' : a \in Live' \ {ino'}} BY DEF OtherBlocks
  <2> QED BY <1>1, <1>4, <2>1 DEF OtherBlocks
<1>10. ASSUME ExactInv PROVE ExactInv'
  <2> SUFFICES ASSUME ~leaky PROVE ExactInv' BY <1>1 DEF ExactInv
  <2>1. pc' # "write inodes" => dbm = {0} \cup FileBlocks BY <1>1, <1>10 DEF ExactInv
  <2>2. op = "add" => mibm = {0, ino} \cup Live /\ mdbm = {0} \cup FileBlocks \cup NodeBlocks
    BY <1>1, <1>10 DEF ExactInv, Adding
  <2>3. op = "del" => mibm = ({0} \cup Live) \ {ino} /\ mdbm = {0} \cup OtherBlocks
    BY <1>1, <1>10 DEF ExactInv
  <2>4. FileBlocks' = FileBlocks BY <1>1, AllKept
  <2> QED BY <1>1, <1>4, <1>6, <1>9, <2>1, <2>2, <2>3, <2>4 DEF ExactInv, Adding
<1> QED BY <1>1, <1>7, <1>8, <1>10

\* The inode that is written leads to the blocks of the new file, or nowhere.
LEMMA WriteItabApart ==
  ASSUME BaseInv, ApartInv, Intact, WriteItab
  PROVE  ApartInv' /\ (ExactInv => ExactInv')
<1>1. /\ pc = "write inodes" /\ pc' = "idle" /\ ibm' = ibm /\ dbm' = dbm /\ data' = data
      /\ itab' = [itab EXCEPT ![ino] = node]
      /\ torn' = torn /\ indDel' = indDel /\ leaky' = leaky
  BY DEF WriteItab, EndCommand, history
<1>2. op \in {"add", "del"} /\ ino \in Inodes /\ itab \in [Inodes -> Inode] /\ Live \subseteq Inodes
  BY DEF BaseInv, TypeOK, Live
<1>3. ibm = mibm /\ dbm = mdbm /\ FilesMarked BY <1>1 DEF ApartInv
<1> PICK i \in Inodes : i = ino BY <1>2
<1>4. itab'[i] = node /\ \A a \in Inodes : a # i => itab'[a] = itab[a] BY <1>1, <1>2
<1>5. \A a \in Inodes : a # i => UsedBlocks(a)' = UsedBlocks(a) BY <1>1, <1>4, UsedKept
<1>6. \A a \in Inodes : a # i => (a \in Live' <=> a \in Live) BY <1>4 DEF Live
<1>7. CASE op = "add"
  <2>1. AddMarks /\ \A a : ~Deleting(a) BY <1>1, <1>7 DEF ApartInv, Adding, Deleting
  <2>2. UsedBlocks(i)' = NodeBlocks
    <3>1. {Pointers(data[b]) : b \in Pointers(node.indirect_ptr)}
            = {Pointers(data[b]) : b \in Pointers(node.indirect_ptr) \ {}}
      OBVIOUS
    <3>2. IndirectBlocks(i)' = Pointers(node.indirect_ptr) BY <1>4 DEF IndirectBlocks
    <3>3. UsedBlocks(i)' = Pointers(node.direct_ptr) \cup Pointers(node.indirect_ptr)
            \cup UNION {Pointers(data[b]) : b \in Pointers(node.indirect_ptr)}
      <4>1. UsedBlocks(i)' = Pointers(itab'[i].direct_ptr) \cup IndirectBlocks(i)'
              \cup UNION {Pointers(data'[b]) : b \in IndirectBlocks(i)'}
        BY DEF UsedBlocks
      <4>2. {Pointers(data'[b]) : b \in IndirectBlocks(i)'}
              = {Pointers(data[b]) : b \in Pointers(node.indirect_ptr)}
        BY <1>1, <3>2
      <4>3. Pointers(itab'[i].direct_ptr) = Pointers(node.direct_ptr) BY <1>4
      <4> QED BY <3>2, <4>1, <4>2, <4>3
    <3>4. NodeBlocks = Pointers(node.direct_ptr) \cup Pointers(node.indirect_ptr)
            \cup UNION {Pointers(data[b]) : b \in Pointers(node.indirect_ptr) \ {}}
      BY <1>1 DEF NodeBlocks, Unwritten
    <3> QED BY <3>1, <3>3, <3>4
  <2>3. \A a \in Live' : a # i => a \in Live /\ a \in ibm /\ UsedBlocks(a) \subseteq dbm
                           /\ UsedBlocks(a)' = UsedBlocks(a)
                           /\ UsedBlocks(a) \cap NodeBlocks = {}
    <3>1. Live' \subseteq Inodes BY DEF Live
    <3> QED BY <1>3, <1>5, <1>6, <2>1, <3>1 DEF FilesMarked, AddMarks
  <2>4. i \in ibm /\ NodeBlocks \subseteq dbm BY <1>3, <2>1 DEF AddMarks
  <2>5. \A a \in Live' : a \in ibm' /\ UsedBlocks(a)' \subseteq dbm'
    BY <1>1, <2>2, <2>3, <2>4
  <2>6. \A a, b \in Live' : a # b => UsedBlocks(a)' \cap UsedBlocks(b)' = {}
    BY <1>3, <2>2, <2>3 DEF FilesMarked
  <2>7. FilesMarked' BY <2>5, <2>6 DEF FilesMarked
  <2>8. ApartInv' BY <1>1, <2>7 DEF ApartInv, FreePointers, Adding
  <2>9. Live' = Live \cup {i}
    <3>1. node.number = i /\ i # 0 BY <1>1, <1>7 DEF BaseInv, CommandInv, Adding
    <3>2. itab'[i].number > 0 BY <1>4, <3>1, Zeros
    <3> QED BY <1>2, <1>6, <3>2 DEF Live
  <2>10. FileBlocks' = FileBlocks \cup NodeBlocks
    <3>1. FileBlocks' = UNION {UsedBlocks(a)' : a \in Live'} BY DEF FileBlocks
    <3>2. i \notin Live BY <2>1 DEF AddMarks
    <3> QED BY <1>5, <2>2, <2>3, <2>9, <3>1, <3>2 DEF FileBlocks
  <2>11. ASSUME ExactInv, Intact, ~leaky
         PROVE  ibm' = {0} \cup Live' /\ dbm' = {0} \cup FileBlocks'
    <3>1. mibm = {0, i} \cup Live /\ mdbm = {0} \cup FileBlocks \cup NodeBlocks
      BY <1>1, <1>7, <2>11 DEF ExactInv, Adding
    <3> QED BY <1>1, <1>3, <2>9, <2>10, <3>1
  <2>12. ExactInv => ExactInv' BY <1>1, <2>11 DEF ExactInv, Intact, Adding
  <2> QED BY <2>8, <2>12
<1>8. CASE op = "del"
  <2>1. i \notin Live'
    <3>1. node = ClearInode BY <1>1, <1>8 DEF BaseInv, CommandInv
    <3> QED BY <1>4, <3>1 DEF Live, ClearInode
  <2>2. \A a \in Live' : a \in Live /\ ~Deleting(a) /\ UsedBlocks(a)' = UsedBlocks(a)
    <3>1. Live' \subseteq Inodes BY DEF Live
    <3> QED BY <1>5, <1>6, <2>1, <3>1 DEF Deleting
  <2>3. FilesMarked' BY <1>1, <1>3, <2>2 DEF FilesMarked
  <2>4. ApartInv' BY <1>1, <2>3 DEF ApartInv, FreePointers, Adding
  <2>5. Live' = Live \ {i}
    <3>1. Live' \subseteq Inodes BY DEF Live
    <3> QED BY <1>2, <1>6, <2>1, <3>1
  <2>6. FileBlocks' = OtherBlocks
    <3>1. FileBlocks' = UNION {UsedBlocks(a)' : a \in Live'} BY DEF FileBlocks
    <3> QED BY <2>2, <2>5, <3>1 DEF OtherBlocks
  <2>7. ASSUME ExactInv, Intact, ~leaky
        PROVE  ibm' = {0} \cup Live' /\ dbm' = {0} \cup FileBlocks'
    <3>1. mibm = ({0} \cup Live) \ {i} /\ mdbm = {0} \cup OtherBlocks
      BY <1>1, <1>8, <2>7 DEF ExactInv
    <3>2. 0 \in mibm BY <1>1 DEF BaseInv, CommandInv
    <3> QED BY <1>1, <1>3, <2>5, <2>6, <3>1, <3>2
  <2>8. ExactInv => ExactInv' BY <1>1, <2>7 DEF ExactInv, Intact, Adding
  <2> QED BY <2>4, <2>8
<1> QED BY <1>2, <1>7, <1>8

\* Nothing repairs an image.
LEMMA DamageStays == ASSUME Next PROVE ~Intact => ~Intact'
<1> USE DEF Intact, history
<1>1. ASSUME NEW n \in Names, NEW f \in HostFiles, AddStart(n, f) PROVE ~Intact => ~Intact'
  BY <1>1 DEF AddStart
<1>2. ASSUME NEW n \in Names, AddRefused(n) \/ DelRefused(n) \/ DelAborted(n) PROVE ~Intact => ~Intact'
  BY <1>2 DEF AddRefused, DelRefused, DelAborted, vars
<1>3. ASSUME NEW n \in Names, DelStart(n) PROVE ~Intact => ~Intact' BY <1>3 DEF DelStart
<1>4. CASE add_file
  BY <1>4 DEF add_file, AddDirect, DirectDone, AddIndirect, AddInner, InnerDone, AddFailed, AddReady
<1>5. CASE write_back BY <1>5 DEF write_back, WriteIbm, WriteDbm, WriteItab
<1>6. CASE Kill BY <1>6 DEF Kill
<1> QED BY <1>1, <1>2, <1>3, <1>4, <1>5, <1>6 DEF Next

\* The invariants of the blocks.
LEMMA ApartInvariant == ASSUME PointersReach PROVE Spec => [](ApartInv /\ ExactInv)
<1>1. Init => ApartInv /\ ExactInv
  <2> SUFFICES ASSUME Init PROVE ApartInv /\ ExactInv OBVIOUS
  <2>1. pc = "idle" /\ Live = {} /\ ibm = {0} /\ dbm = {0}
    BY DEF Init, fs_create, NoCommand, Live, ClearInode
  <2>2. FileBlocks = {} BY <2>1 DEF FileBlocks
  <2> QED BY <2>1, <2>2 DEF ApartInv, ExactInv, FilesMarked, FreePointers, Adding
<1>2. BaseInv /\ ApartInv /\ ExactInv /\ [Next]_vars => ApartInv' /\ ExactInv'
  <2> SUFFICES ASSUME BaseInv, ApartInv, ExactInv, [Next]_vars PROVE ApartInv' /\ ExactInv'
    OBVIOUS
  <2>1. CASE AddFailed \/ Kill BY <2>1, EndApart
  <2>2. ASSUME NEW n \in Names, DelStart(n) PROVE ApartInv' /\ ExactInv' BY <2>2, DelStartApart
  <2>3. CASE UNCHANGED vars
    <3>1. itab' = itab /\ data' = data /\ ibm' = ibm /\ dbm' = dbm /\ pc' = pc /\ op' = op
          /\ ino' = ino /\ node' = node /\ mibm' = mibm /\ mdbm' = mdbm /\ k' = k /\ j' = j
          /\ iblk' = iblk /\ iptrs' = iptrs /\ torn' = torn /\ indDel' = indDel
      BY <2>3 DEF vars, image, command, copies, loops, history
    <3>2. NodeBlocks' = NodeBlocks
      <4>1. {Pointers(data'[b]) : b \in Pointers(node'.indirect_ptr) \ Unwritten'}
              = {Pointers(data[b]) : b \in Pointers(node.indirect_ptr) \ Unwritten}
        BY <3>1 DEF Unwritten
      <4> QED BY <3>1, <4>1 DEF NodeBlocks
    <3>3. Live' = Live /\ \A a \in Live : UsedBlocks(a)' = UsedBlocks(a) BY <3>1, AllKept
    <3>4. FilesMarked' = FilesMarked BY <3>1, <3>3 DEF FilesMarked, Deleting
    <3>5. AddMarks' = AddMarks BY <3>1, <3>2, <3>3 DEF AddMarks
    <3>6. DelMarks' = DelMarks BY <3>1, <3>3 DEF DelMarks
    <3>7. FreePointers' = FreePointers BY <3>1 DEF FreePointers
    <3>8. ApartInv' BY <3>1, <3>4, <3>5, <3>6, <3>7 DEF ApartInv, Intact, Adding
    <3>9. OtherBlocks' = OtherBlocks
      <4>1. OtherBlocks' = UNION {UsedBlocks(a)' : a \in Live' \ {ino'}} BY DEF OtherBlocks
      <4> QED BY <3>1, <3>3, <4>1 DEF OtherBlocks
    <3>10. FileBlocks' = FileBlocks /\ leaky' = leaky
      BY <2>3, <3>1, AllKept DEF vars, history
    <3>11. ExactInv' BY <3>1, <3>2, <3>3, <3>9, <3>10 DEF ExactInv, Intact, Adding
    <3> QED BY <3>8, <3>11
  <2>4. CASE ~Intact BY <2>3, <2>4, DamageStays DEF ApartInv, ExactInv
  <2>5. ASSUME Intact, NEW n \in Names, NEW f \in HostFiles, AddStart(n, f) PROVE ApartInv' /\ ExactInv'
    BY <2>5, AddStartApart
  <2>6. ASSUME Intact, add_file, ~AddFailed PROVE ApartInv' /\ ExactInv'
    BY <2>6, AddDirectApart, AddIndirectApart, AddInnerApart, InnerDoneApart, LoopEndsApart
       DEF add_file
  <2>7. ASSUME Intact, write_back PROVE ApartInv' /\ ExactInv'
    BY <2>7, WriteBitmapsApart, WriteItabApart DEF write_back
  <2>8. ASSUME NEW n \in Names, AddRefused(n) \/ DelRefused(n) \/ DelAborted(n)
        PROVE  UNCHANGED vars
    BY <2>8 DEF AddRefused, DelRefused, DelAborted
  <2> QED BY <2>1, <2>2, <2>3, <2>4, <2>5, <2>6, <2>7, <2>8 DEF Next
<1> QED BY <1>1, <1>2, BaseInvariant, PTL DEF Spec

\* No sequence of commands, refusals, failures and kills lets two files share a
\* block, or leaves a block of a file unmarked, on an image of any size whose
\* block numbers fit a pointer.
THEOREM NothingShared == ASSUME PointersReach PROVE Spec => []NoSharedBlocks
<1>1. ApartInv => NoSharedBlocks BY DEF ApartInv, FilesMarked, NoSharedBlocks
<1> QED BY <1>1, ApartInvariant, PTL

\* No command loses a block or an inode: between commands the bitmaps mark the
\* files and nothing else, unless an fs_add was killed while it wrote them.
THEOREM NothingLost == ASSUME PointersReach PROVE Spec => []NoLostBlocks
<1>1. ExactInv => NoLostBlocks
  BY DEF ExactInv, NoLostBlocks, FileBlocks
<1> QED BY <1>1, ApartInvariant, PTL

-----------------------------------------------------------------------------
(* What the files hold.  A position of a file is looked up in an inode and *)
(* in a memory, which is that of the data blocks or, for the file that is  *)
(* being added, one that has its unwritten indirect block already.         *)

Quotient(off) == (off - INODE_DIRECT_PTR_CNT) \div pointers_per_block
Rest(off) == (off - INODE_DIRECT_PTR_CNT) % pointers_per_block

BlockAt(nd, m, off) ==
  IF off < INODE_DIRECT_PTR_CNT THEN nd.direct_ptr[off]
  ELSE m[nd.indirect_ptr[Quotient(off)]][Rest(off)]

\* No pointer on the way is 0.
Leads(nd, m, off) ==
  IF off < INODE_DIRECT_PTR_CNT THEN nd.direct_ptr[off] # 0
  ELSE /\ Quotient(off) \in IndirectIdx /\ nd.indirect_ptr[Quotient(off)] # 0
       /\ m[nd.indirect_ptr[Quotient(off)]][Rest(off)] # 0

HeldBy(i) == [b \in 1 .. itab[i].size |-> data[BlockAt(itab[i], data, b - 1)]]
Whole(i) == /\ \A off \in 0 .. itab[i].size - 1 : Leads(itab[i], data, off)
            /\ HeldBy(i) \in HostFiles

\* The blocks of the source that fs_add has copied are where its inode leads.
Done == Len(src) - data_left
Memory == IF pc = "inner" THEN [data EXCEPT ![iblk] = iptrs] ELSE data
Copied(off) ==
  /\ Leads(node, Memory, off)
  /\ data[BlockAt(node, Memory, off)] = src[off + 1]
  /\ pc = "inner" => BlockAt(node, Memory, off) # iblk

CopiesInv ==
  Adding => /\ src \in HostFiles /\ node.size = Len(src)
            /\ \A off \in 0 .. Done - 1 : Copied(off)

\* Where the loops of fs_add are in the source.
PositionInv ==
  /\ pc = "direct" => Done = k /\ k <= INODE_DIRECT_PTR_CNT
  /\ pc = "indirect" /\ data_left > 0 /\ free_datablocks > 0 =>
       Done = INODE_DIRECT_PTR_CNT + k * pointers_per_block
  /\ pc = "inner" =>
       /\ Done = INODE_DIRECT_PTR_CNT + k * pointers_per_block + j
       /\ j <= pointers_per_block /\ k \in IndirectIdx
       /\ \A q \in IndirectIdx : node.indirect_ptr[q] = iblk <=> q = k
  /\ Adding /\ ~Copying => data_left = 0

\* fs_del is about a file that exists.
DeletesFile ==
  pc # "idle" /\ op = "del" => name \in Names /\ ino \in Live /\ itab[ino].name = name

StoreInv ==
  Intact => /\ \A i \in Live : Whole(i)
            /\ CopiesInv /\ PositionInv /\ DeletesFile

\* An inode that leads to a block of a file leads fs_offset_to_block there.
LEMMA OffsetFound ==
  ASSUME NEW i, NEW off \in Nat, Leads(itab[i], data, off)
  PROVE  fs_offset_to_block(i, off) = BlockAt(itab[i], data, off)
<1>1. CASE off < INODE_DIRECT_PTR_CNT BY <1>1 DEF fs_offset_to_block, BlockAt
<1>2. CASE ~(off < INODE_DIRECT_PTR_CNT)
  <2> DEFINE rest == off - INODE_DIRECT_PTR_CNT
             all == INODE_INDIRECT_PTR_CNT * pointers_per_block
  <2>1. rest \in Nat BY <1>2, CountsAssumption
  <2>2. Quotient(off) \in IndirectIdx BY <1>2 DEF Leads
  <2>3. all \in Nat /\ rest < all
    BY <2>1, <2>2, CountsAssumption, QuotientBound DEF IndirectIdx, Quotient
  <2> HIDE DEF all
  <2>4. ~(off > INODE_DIRECT_PTR_CNT + all) BY <2>3, CountsAssumption
  <2>5. IndirectPtr(i, Quotient(off)) = itab[i].indirect_ptr[Quotient(off)]
    BY <2>2 DEF IndirectPtr
  <2> QED BY <1>2, <2>4, <2>5 DEF fs_offset_to_block, BlockAt, Quotient, Rest, all
<1> QED BY <1>1, <1>2

\* fs_cat reads what the inode of the file leads to.
LEMMA ReadsHeld ==
  ASSUME TypeOK, NEW n, file_exists(n), \A i \in Live : Whole(i)
  PROVE  /\ fs_get_file_inode(n) \in Live
         /\ fs_read(n) = HeldBy(fs_get_file_inode(n)) /\ fs_read(n) \in HostFiles
<1> DEFINE i == fs_get_file_inode(n)
<1>1. i \in Live /\ i \in Inodes BY FileInode DEF Live
<1> HIDE DEF i
<1>2. Whole(i) BY <1>1
<1>3. itab[i].size \in Nat BY <1>1 DEF TypeOK, Inode
<1>4. ASSUME NEW b \in 1 .. itab[i].size
      PROVE  fs_offset_to_block(i, b - 1) = BlockAt(itab[i], data, b - 1)
  <2>1. b - 1 \in 0 .. itab[i].size - 1 /\ b - 1 \in Nat BY <1>3
  <2> QED BY <1>2, <2>1, OffsetFound DEF Whole
<1>5. fs_read(n) = HeldBy(i) BY <1>4 DEF fs_read, HeldBy, i
<1> QED BY <1>1, <1>2, <1>5 DEF Whole, i

\* Where an inode leads: a direct block, or an entry of an indirect block.
LEMMA LeadsInto ==
  ASSUME NEW nd \in Inode, NEW m \in [DataBlocks -> Block], NEW off \in Nat, Leads(nd, m, off),
         Pointers(nd.indirect_ptr) \subseteq DataBlocks
  PROVE  /\ off < INODE_DIRECT_PTR_CNT => BlockAt(nd, m, off) \in Pointers(nd.direct_ptr)
         /\ ~(off < INODE_DIRECT_PTR_CNT) =>
              /\ nd.indirect_ptr[Quotient(off)] \in Pointers(nd.indirect_ptr)
              /\ BlockAt(nd, m, off) \in Pointers(m[nd.indirect_ptr[Quotient(off)]])
<1>1. DOMAIN nd.direct_ptr = DirectIdx /\ DOMAIN nd.indirect_ptr = IndirectIdx BY DEF Inode
<1>2. CASE off < INODE_DIRECT_PTR_CNT
  <2>1. off \in DirectIdx BY <1>2, CountsAssumption DEF DirectIdx
  <2> QED BY <1>1, <1>2, <2>1 DEF Leads, BlockAt, Pointers
<1>3. CASE ~(off < INODE_DIRECT_PTR_CNT)
  <2> DEFINE b == nd.indirect_ptr[Quotient(off)]
  <2>1. b \in Pointers(nd.indirect_ptr) /\ m[b][Rest(off)] # 0
        /\ BlockAt(nd, m, off) = m[b][Rest(off)]
    BY <1>1, <1>3 DEF Leads, BlockAt, Pointers
  <2> HIDE DEF b
  <2>2. m[b] \in Block BY <2>1
  <2>3. Rest(off) \in PtrIdx
    <3>1. off - INODE_DIRECT_PTR_CNT \in Int BY CountsAssumption
    <3> QED BY <3>1, ModRange, CountsAssumption DEF Rest, PtrIdx
  <2>4. m[b][Rest(off)] \in Pointers(m[b]) BY <2>1, <2>2, <2>3 DEF Pointers, Block
  <2> QED BY <1>3, <2>1, <2>4 DEF b
<1> QED BY <1>2, <1>3

\* A file keeps its contents as long as its inode and its blocks stay what
\* they are.
LEMMA WholeKept ==
  ASSUME BaseInv, NEW i \in Live, Whole(i), itab'[i] = itab[i],
         UsedBlocks(i) \subseteq DataBlocks, \A b \in UsedBlocks(i) : data'[b] = data[b]
  PROVE  Whole(i)' /\ HeldBy(i)' = HeldBy(i)
<1>1. itab[i] \in Inode /\ data \in [DataBlocks -> Block] BY DEF BaseInv, TypeOK, Live
<1>2. itab[i].size \in Nat BY <1>1 DEF Inode
<1>3. Pointers(itab[i].indirect_ptr) \subseteq DataBlocks BY DEF UsedBlocks, IndirectBlocks
<1>4. ASSUME NEW off \in 0 .. itab[i].size - 1
      PROVE  /\ Leads(itab[i], data', off)
             /\ data'[BlockAt(itab[i], data', off)] = data[BlockAt(itab[i], data, off)]
  <2>1. off \in Nat /\ Leads(itab[i], data, off) BY <1>2 DEF Whole
  <2>2. BlockAt(itab[i], data, off) \in UsedBlocks(i)
    BY <1>1, <1>3, <2>1, LeadsInto DEF UsedBlocks, IndirectBlocks
  <2>3. ~(off < INODE_DIRECT_PTR_CNT) =>
          data'[itab[i].indirect_ptr[Quotient(off)]] = data[itab[i].indirect_ptr[Quotient(off)]]
    BY <1>1, <1>3, <2>1, LeadsInto DEF UsedBlocks, IndirectBlocks
  <2>4. Leads(itab[i], data', off) /\ BlockAt(itab[i], data', off) = BlockAt(itab[i], data, off)
    BY <2>1, <2>3 DEF Leads, BlockAt
  <2>5. data'[BlockAt(itab[i], data, off)] = data[BlockAt(itab[i], data, off)] BY <2>2
  <2> QED BY <2>4, <2>5
<1>5. HeldBy(i)' = [b \in 1 .. itab[i].size |-> data'[BlockAt(itab[i], data', b - 1)]]
  BY DEF HeldBy, BlockAt
<1>6. HeldBy(i)' = HeldBy(i)
  <2>1. \A b \in 1 .. itab[i].size : b - 1 \in 0 .. itab[i].size - 1 BY <1>2
  <2>2. \A b \in 1 .. itab[i].size :
          data'[BlockAt(itab[i], data', b - 1)] = data[BlockAt(itab[i], data, b - 1)]
    BY <1>4, <2>1
  <2> QED BY <1>5, <2>2 DEF HeldBy
<1>7. \A off \in 0 .. itab[i].size - 1 : Leads(itab'[i], data', off) BY <1>4
<1>8. Whole(i)' = (/\ \A off \in 0 .. itab[i].size - 1 : Leads(itab'[i], data', off)
                   /\ HeldBy(i)' \in HostFiles)
  BY DEF Whole, Leads
<1> QED BY <1>6, <1>7, <1>8 DEF Whole

\* The files that are there keep their contents while another one is added.
LEMMA OthersWhole ==
  ASSUME BaseInv, ApartInv, StoreInv, Intact, Adding, itab' = itab,
         \A a \in Live : \A b \in UsedBlocks(a) : data'[b] = data[b]
  PROVE  \A i \in Live' : Whole(i)'
<1> SUFFICES ASSUME NEW i \in Live PROVE Whole(i)' BY DEF Live
<1>1. UsedBlocks(i) \subseteq DataBlocks BY UsedMarked DEF BaseInv, TypeOK
<1>2. Whole(i) BY DEF StoreInv
<1> QED BY <1>1, <1>2, WholeKept

\* One block less is left.
LEMMA DoneGrows ==
  ASSUME BaseInv, Copying, data_left > 0, data_left' = data_left - 1, src' = src
  PROVE  /\ Done \in Nat /\ Done' = Done + 1 /\ Done = Len(src) - data_left
         /\ \A off \in 0 .. Done' - 1 : off \in 0 .. Done - 1 \/ off = Done
<1>1. Len(src) \in Nat /\ data_left \in Nat /\ data_left <= Len(src)
  BY SourceLength DEF BaseInv
<1> QED BY <1>1 DEF Done

\* A pointer that has not been set yet is on no way, so what was copied stays
\* where it was.
LEMMA AddDirectStore ==
  ASSUME BaseInv, ApartInv, StoreInv, Intact, AddDirect, PointersReach
  PROVE  StoreInv'
<1> DEFINE A == Available
<1>1. /\ Copying /\ Adding /\ free_datablocks > 0 /\ data_left > 0 /\ Reserve
      /\ pc = "direct" /\ pc' = "direct" /\ op' = "add"
      /\ data' = [data EXCEPT ![A] = src[Len(src) - data_left + 1]]
      /\ data_left' = data_left - 1
      /\ node' = [node EXCEPT !.direct_ptr[k] = A % PtrMod]
      /\ k < INODE_DIRECT_PTR_CNT /\ k' = k + 1
      /\ UNCHANGED <<ibm, dbm, itab, op, name, src, ino, mibm>>
      /\ UNCHANGED history
  BY DEF AddDirect, More, Copying, alloc_block_and_copy, BaseInv, CommandInv, Adding, command
<1>2. /\ A \in DataBlocks \ {0} /\ A \notin mdbm
      /\ NodeBlocks \subseteq mdbm /\ \A a \in Live : UsedBlocks(a) \subseteq mdbm
  BY <1>1, ReservedIsNew
<1>3. A % PtrMod = A BY <1>2, CountsAssumption DEF PointersReach, DataBlocks
<1> HIDE DEF A
<1>4. k \in Nat /\ k \in DirectIdx /\ node \in Inode /\ data \in [DataBlocks -> Block]
  BY <1>1, CountsAssumption DEF BaseInv, TypeOK, DirectIdx
<1>5. /\ node'.direct_ptr[k] = A /\ \A d \in DirectIdx : d # k => node'.direct_ptr[d] = node.direct_ptr[d]
      /\ node'.size = node.size
  BY <1>1, <1>3, <1>4 DEF Inode
<1>6. data'[A] = src[Done + 1] /\ \A b \in mdbm : data'[b] = data[b]
  BY <1>1, <1>2, <1>4 DEF Done, BaseInv, TypeOK
<1>7. Done \in Nat /\ Done = k /\ CopiesInv BY <1>1, DoneGrows DEF StoreInv, PositionInv
<1>8. ASSUME NEW off \in 0 .. Done - 1 PROVE Copied(off)'
  <2>1. off < INODE_DIRECT_PTR_CNT /\ off # k /\ off \in DirectIdx
    BY <1>1, <1>4, <1>7, CountsAssumption DEF DirectIdx
  <2>2. node.direct_ptr[off] # 0 /\ data[node.direct_ptr[off]] = src[off + 1]
    BY <1>1, <1>7, <2>1 DEF CopiesInv, Copied, Leads, BlockAt, Memory
  <2>3. node.direct_ptr[off] \in mdbm
    BY <1>2, <1>4, <2>1, <2>2 DEF NodeBlocks, Pointers, Inode
  <2>4. node'.direct_ptr[off] = node.direct_ptr[off] BY <1>5, <2>1
  <2>5. data'[node.direct_ptr[off]] = src[off + 1] BY <1>6, <2>2, <2>3
  <2> QED BY <1>1, <2>1, <2>2, <2>4, <2>5 DEF Copied, Leads, BlockAt
<1>9. ASSUME NEW off, off = Done PROVE Copied(off)'
  <2>1. node'.direct_ptr[off] = A /\ off < INODE_DIRECT_PTR_CNT BY <1>1, <1>5, <1>7, <1>9
  <2>2. data'[A] = src[off + 1] BY <1>6, <1>9
  <2> QED BY <1>1, <1>2, <2>1, <2>2 DEF Copied, Leads, BlockAt
<1>10. CopiesInv'
  BY <1>1, <1>5, <1>7, <1>8, <1>9, DoneGrows DEF CopiesInv
<1>11. PositionInv'
  <2>1. Done' = k' /\ k' <= INODE_DIRECT_PTR_CNT BY <1>1, <1>4, <1>7, DoneGrows, CountsAssumption
  <2> QED BY <1>1, <2>1 DEF PositionInv, Copying
<1>12. DeletesFile' BY <1>1 DEF DeletesFile
<1>13. \A i \in Live' : Whole(i)' BY <1>1, <1>2, <1>6, OthersWhole
<1> QED BY <1>10, <1>11, <1>12, <1>13 DEF StoreInv

\* Whatever the new inode leads to is one of its blocks.
LEMMA WayInNode ==
  ASSUME BaseInv, ApartInv, Intact, Adding, NEW off \in Nat, Leads(node, Memory, off)
  PROVE  /\ BlockAt(node, Memory, off) \in NodeBlocks
         /\ ~(off < INODE_DIRECT_PTR_CNT) => node.indirect_ptr[Quotient(off)] \in NodeBlocks
         /\ NodeBlocks \subseteq mdbm /\ NodeBlocks \subseteq DataBlocks
<1>1. NodeBlocks \subseteq mdbm /\ NodeBlocks \subseteq DataBlocks
  BY DEF ApartInv, AddMarks, BaseInv, TypeOK
<1>2. Pointers(node.indirect_ptr) \subseteq NodeBlocks /\ Pointers(node.direct_ptr) \subseteq NodeBlocks
  BY DEF NodeBlocks
<1>3. node \in Inode /\ data \in [DataBlocks -> Block] /\ iptrs \in Block BY DEF BaseInv, TypeOK
<1>4. Memory \in [DataBlocks -> Block] BY <1>3 DEF Memory
<1>5. CASE off < INODE_DIRECT_PTR_CNT BY <1>1, <1>2, <1>3, <1>4, <1>5, LeadsInto
<1>6. CASE ~(off < INODE_DIRECT_PTR_CNT)
  <2> DEFINE b == node.indirect_ptr[Quotient(off)]
  <2>1. b \in Pointers(node.indirect_ptr) /\ BlockAt(node, Memory, off) \in Pointers(Memory[b])
    BY <1>1, <1>2, <1>3, <1>4, <1>6, LeadsInto
  <2> HIDE DEF b
  <2>2. b \in DataBlocks BY <1>1, <1>2, <2>1
  <2>3. CASE pc = "inner" /\ b = iblk
    <3>1. Memory[b] = iptrs BY <1>3, <2>2, <2>3 DEF Memory
    <3> QED BY <1>1, <1>2, <2>1, <2>3, <3>1 DEF NodeBlocks, b
  <2>4. CASE ~(pc = "inner" /\ b = iblk)
    <3>1. Memory[b] = data[b] BY <1>3, <2>2, <2>4 DEF Memory
    <3>2. b \notin Unwritten BY <2>4 DEF Unwritten
    <3> QED BY <1>1, <1>2, <2>1, <3>1, <3>2 DEF NodeBlocks, b
  <2> QED BY <2>3, <2>4
<1> QED BY <1>5, <1>6

LEMMA AddIndirectStore ==
  ASSUME BaseInv, ApartInv, StoreInv, Intact, AddIndirect, PointersReach
  PROVE  StoreInv'
<1> DEFINE A == Available
<1>1. /\ Copying /\ Adding /\ free_datablocks > 0 /\ data_left > 0 /\ Reserve
      /\ pc = "indirect" /\ pc' = "inner" /\ op' = "add"
      /\ data' = data /\ data_left' = data_left /\ iblk' = A /\ iptrs' = EmptyBlock
      /\ node' = [node EXCEPT !.indirect_ptr[k] = A % PtrMod]
      /\ k < INODE_INDIRECT_PTR_CNT /\ k' = k /\ j' = 0
      /\ UNCHANGED <<ibm, dbm, itab, op, name, src, ino, mibm>>
      /\ UNCHANGED history
  BY DEF AddIndirect, More, Copying, BaseInv, CommandInv, Adding, command, image
<1>2. /\ A \in DataBlocks \ {0} /\ A \notin mdbm
      /\ NodeBlocks \subseteq mdbm /\ \A a \in Live : UsedBlocks(a) \subseteq mdbm
  BY <1>1, ReservedIsNew
<1>3. A % PtrMod = A BY <1>2, CountsAssumption DEF PointersReach, DataBlocks
<1> HIDE DEF A
<1>4. k \in Nat /\ k \in IndirectIdx /\ node \in Inode /\ data \in [DataBlocks -> Block]
  BY <1>1, CountsAssumption DEF BaseInv, TypeOK, IndirectIdx
<1>5. /\ node'.indirect_ptr[k] = A
      /\ \A q \in IndirectIdx : q # k => node'.indirect_ptr[q] = node.indirect_ptr[q]
      /\ node'.direct_ptr = node.direct_ptr /\ node'.size = node.size
  BY <1>1, <1>3, <1>4 DEF Inode
<1>6. node.indirect_ptr[k] = 0 BY <1>1, <1>4 DEF ApartInv, FreePointers
<1>7. Done' = Done /\ Done = INODE_DIRECT_PTR_CNT + k * pointers_per_block /\ CopiesInv
  BY <1>1 DEF StoreInv, PositionInv, Done
<1>8. Memory' = [data EXCEPT ![A] = EmptyBlock] /\ Memory = data BY <1>1 DEF Memory
<1>9. ASSUME NEW off \in 0 .. Done - 1 PROVE Copied(off)'
  <2>1. off \in Nat /\ Copied(off) BY <1>1, <1>7 DEF CopiesInv
  <2>2. Leads(node, data, off) /\ data[BlockAt(node, data, off)] = src[off + 1]
    BY <1>8, <2>1 DEF Copied
  <2>3. BlockAt(node, data, off) # A
        /\ (~(off < INODE_DIRECT_PTR_CNT) => node.indirect_ptr[Quotient(off)] # A
                                             /\ node.indirect_ptr[Quotient(off)] \in DataBlocks)
    BY <1>1, <1>2, <1>8, <2>1, <2>2, WayInNode
  <2>4. CASE off < INODE_DIRECT_PTR_CNT
    BY <1>1, <1>5, <2>2, <2>3, <2>4 DEF Copied, Leads, BlockAt
  <2>5. CASE ~(off < INODE_DIRECT_PTR_CNT)
    <3> DEFINE q == Quotient(off)
    <3>1. q \in IndirectIdx /\ q # k BY <1>6, <2>2, <2>5 DEF Leads
    <3>2. node'.indirect_ptr[q] = node.indirect_ptr[q] BY <1>5, <3>1
    <3>3. Memory'[node.indirect_ptr[q]] = data[node.indirect_ptr[q]] BY <1>4, <1>8, <2>3, <2>5
    <3> HIDE DEF q
    <3>4. Leads(node', Memory', off) /\ BlockAt(node', Memory', off) = BlockAt(node, data, off)
      BY <2>2, <2>5, <3>1, <3>2, <3>3 DEF Leads, BlockAt, q
    <3>5. data'[BlockAt(node', Memory', off)] = src'[off + 1] /\ BlockAt(node', Memory', off) # iblk'
      BY <1>1, <2>2, <2>3, <3>4
    <3> QED BY <3>4, <3>5 DEF Copied, Leads, BlockAt
  <2> QED BY <2>4, <2>5
<1>10. CopiesInv' BY <1>1, <1>5, <1>7, <1>9 DEF CopiesInv
<1>11. PositionInv'
  <2>1. \A q \in IndirectIdx : node'.indirect_ptr[q] = iblk' <=> q = k'
    <3> SUFFICES ASSUME NEW q \in IndirectIdx, q # k PROVE node'.indirect_ptr[q] # A
      BY <1>1, <1>5
    <3>1. node.indirect_ptr[q] = 0 \/ node.indirect_ptr[q] \in NodeBlocks
      BY <1>4 DEF NodeBlocks, Pointers, Inode
    <3> QED BY <1>2, <1>5, <3>1
  <2>2. k * pointers_per_block \in Nat BY <1>4, CountsAssumption
  <2>3. Done' = INODE_DIRECT_PTR_CNT + k' * pointers_per_block + j' /\ j' <= pointers_per_block
    BY <1>1, <1>7, <2>2, CountsAssumption
  <2> QED BY <1>1, <1>4, <2>1, <2>3 DEF PositionInv, Copying
<1>12. DeletesFile' BY <1>1 DEF DeletesFile
<1>13. \A i \in Live' : Whole(i)' BY <1>1, OthersWhole
<1> QED BY <1>10, <1>11, <1>12, <1>13 DEF StoreInv

LEMMA AddInnerStore ==
  ASSUME BaseInv, ApartInv, StoreInv, Intact, AddInner, PointersReach
  PROVE  StoreInv'
<1> DEFINE A == Available
<1>1. /\ Copying /\ Adding /\ free_datablocks > 0 /\ data_left > 0 /\ Reserve
      /\ pc = "inner" /\ pc' = "inner" /\ op' = "add"
      /\ data' = [data EXCEPT ![A] = src[Len(src) - data_left + 1]]
      /\ data_left' = data_left - 1
      /\ iptrs' = [iptrs EXCEPT ![j] = A % PtrMod]
      /\ j < pointers_per_block /\ j' = j + 1
      /\ UNCHANGED <<ibm, dbm, itab, op, name, src, ino, node, mibm, k, iblk>>
      /\ UNCHANGED history
  BY DEF AddInner, More, Copying, alloc_block_and_copy, BaseInv, CommandInv, Adding, command
<1>2. /\ A \in DataBlocks \ {0} /\ A \notin mdbm
      /\ NodeBlocks \subseteq mdbm /\ \A a \in Live : UsedBlocks(a) \subseteq mdbm
  BY <1>1, ReservedIsNew
<1>3. A % PtrMod = A BY <1>2, CountsAssumption DEF PointersReach, DataBlocks
<1> HIDE DEF A
<1>4. /\ j \in Nat /\ j \in PtrIdx /\ iptrs \in [PtrIdx -> Words]
      /\ node \in Inode /\ data \in [DataBlocks -> Block] /\ iblk \in DataBlocks
  BY <1>1, CountsAssumption DEF BaseInv, TypeOK, PtrIdx, Block
<1>5. iblk \in NodeBlocks /\ iblk # A /\ iptrs[j] = 0
  <2>1. iblk \in Pointers(node.indirect_ptr) /\ iptrs[j] = 0
    BY <1>1, <1>4 DEF ApartInv, FreePointers
  <2> QED BY <1>2, <2>1 DEF NodeBlocks
<1>6. data'[A] = src[Done + 1] /\ \A b \in mdbm : data'[b] = data[b]
  BY <1>1, <1>2, <1>4 DEF Done, BaseInv, TypeOK
<1>7. /\ Done = INODE_DIRECT_PTR_CNT + k * pointers_per_block + j /\ k \in IndirectIdx
      /\ \A q \in IndirectIdx : node.indirect_ptr[q] = iblk <=> q = k
      /\ CopiesInv
  BY <1>1 DEF StoreInv, PositionInv
<1>8. /\ Memory[iblk] = iptrs /\ Memory'[iblk] = iptrs'
      /\ \A b \in NodeBlocks : b # iblk => Memory'[b] = Memory[b]
  <2>1. Memory = [data EXCEPT ![iblk] = iptrs] /\ Memory' = [data' EXCEPT ![iblk] = iptrs']
    BY <1>1 DEF Memory
  <2>2. DOMAIN data = DataBlocks /\ DOMAIN data' = DataBlocks BY <1>1, <1>4
  <2>3. NodeBlocks \subseteq DataBlocks BY <1>2 DEF BaseInv, TypeOK
  <2> QED BY <1>2, <1>4, <1>6, <2>1, <2>2, <2>3
<1>9. iptrs'[j] = A /\ \A p \in PtrIdx : p # j => iptrs'[p] = iptrs[p] BY <1>1, <1>3, <1>4
<1>10. ASSUME NEW off \in 0 .. Done - 1 PROVE Copied(off)'
  <2>1. off \in Nat /\ Copied(off) BY <1>1, <1>7 DEF CopiesInv
  <2>2. /\ Leads(node, Memory, off) /\ data[BlockAt(node, Memory, off)] = src[off + 1]
        /\ BlockAt(node, Memory, off) # iblk
    BY <1>1, <2>1 DEF Copied
  <2>3. /\ BlockAt(node, Memory, off) \in NodeBlocks
        /\ ~(off < INODE_DIRECT_PTR_CNT) => node.indirect_ptr[Quotient(off)] \in NodeBlocks
    BY <1>1, <2>1, <2>2, WayInNode
  <2>4. data'[BlockAt(node, Memory, off)] = src'[off + 1] BY <1>1, <1>2, <1>6, <2>2, <2>3
  <2>5. Leads(node', Memory', off) /\ BlockAt(node', Memory', off) = BlockAt(node, Memory, off)
    <3>1. CASE off < INODE_DIRECT_PTR_CNT BY <1>1, <2>2, <3>1 DEF Leads, BlockAt
    <3>2. CASE ~(off < INODE_DIRECT_PTR_CNT)
      <4> DEFINE b == node.indirect_ptr[Quotient(off)]
                 r == Rest(off)
      <4>1. b \in NodeBlocks /\ Memory[b][r] # 0 BY <2>2, <2>3, <3>2 DEF Leads
      <4>2. r \in PtrIdx
        <5>1. off - INODE_DIRECT_PTR_CNT \in Int BY <2>1, CountsAssumption
        <5> QED BY <5>1, ModRange, CountsAssumption DEF Rest, PtrIdx
      <4> HIDE DEF b, r
      <4>3. Memory'[b][r] = Memory[b][r]
        <5>1. CASE b = iblk
          <6>1. iptrs[r] # 0 BY <1>8, <4>1, <5>1
          <6>2. iptrs'[r] = iptrs[r] BY <1>5, <1>9, <4>2, <6>1
          <6> QED BY <1>8, <5>1, <6>2
        <5>2. CASE b # iblk BY <1>8, <4>1, <5>2
        <5> QED BY <5>1, <5>2
      <4> QED BY <1>1, <2>2, <3>2, <4>3 DEF Leads, BlockAt, b, r
    <3> QED BY <3>1, <3>2
  <2>6. BlockAt(node', Memory', off) # iblk' BY <1>1, <2>2, <2>5
  <2> QED BY <2>4, <2>5, <2>6 DEF Copied, Leads, BlockAt
<1>11. ASSUME NEW off, off = Done PROVE Copied(off)'
  <2>1. off - INODE_DIRECT_PTR_CNT = pointers_per_block * k + j /\ ~(off < INODE_DIRECT_PTR_CNT)
        /\ off - INODE_DIRECT_PTR_CNT \in Int /\ k \in Int
    <3>1. k * pointers_per_block \in Nat /\ k * pointers_per_block = pointers_per_block * k
      BY <1>7, CountsAssumption DEF IndirectIdx
    <3> QED BY <1>4, <1>7, <1>11, <3>1, CountsAssumption DEF IndirectIdx
  <2>2. Quotient(off) = k /\ Rest(off) = j
    BY <1>4, <2>1, DivUnique, ModUnique, CountsAssumption DEF Quotient, Rest, PtrIdx
  <2>3. node'.indirect_ptr[k] = iblk' BY <1>1, <1>7
  <2>4. Memory'[iblk'][j] = A BY <1>1, <1>8, <1>9
  <2>5. Leads(node', Memory', off) /\ BlockAt(node', Memory', off) = A
    <3>1. iblk # 0 /\ A # 0 /\ iblk' = iblk
      BY <1>1, <1>2 DEF ApartInv, FreePointers, Pointers
    <3> QED BY <1>7, <2>1, <2>2, <2>3, <2>4, <3>1 DEF Leads, BlockAt
  <2>6. data'[A] = src'[off + 1] BY <1>1, <1>6, <1>11
  <2> QED BY <1>1, <1>5, <2>5, <2>6 DEF Copied, Leads, BlockAt
<1>12. CopiesInv' BY <1>1, <1>7, <1>10, <1>11, DoneGrows DEF CopiesInv
<1>13. PositionInv'
  <2>1. Done' = Done + 1 /\ Done \in Nat BY <1>1, DoneGrows
  <2>2. k * pointers_per_block \in Nat BY <1>7, CountsAssumption DEF IndirectIdx
  <2>3. Done' = INODE_DIRECT_PTR_CNT + k * pointers_per_block + j' /\ j' <= pointers_per_block
    BY <1>1, <1>4, <1>7, <2>1, <2>2, CountsAssumption
  <2> QED BY <1>1, <1>7, <2>3 DEF PositionInv, Copying
<1>14. DeletesFile' BY <1>1 DEF DeletesFile
<1>15. \A i \in Live' : Whole(i)' BY <1>1, <1>2, <1>6, OthersWhole
<1> QED BY <1>12, <1>13, <1>14, <1>15 DEF StoreInv

\* The next indirect pointer is that of the next full set of blocks.
LEMMA NextMultiple ==
  ASSUME NEW m \in Nat, NEW q \in Nat PROVE (q + 1) * m = q * m + m /\ q * m \in Nat
BY Z3

\* Once the indirect block is written, the image is what it was taken to be.
LEMMA InnerDoneStore ==
  ASSUME BaseInv, ApartInv, StoreInv, Intact, InnerDone
  PROVE  StoreInv'
<1>1. /\ Copying /\ Adding /\ pc = "inner" /\ pc' = "indirect" /\ op' = "add"
      /\ ~More(j, pointers_per_block) /\ k' = k + 1
      /\ data' = [data EXCEPT ![iblk] = iptrs]
      /\ UNCHANGED <<ibm, dbm, itab, op, name, src, ino, node, mibm, mdbm>>
      /\ UNCHANGED <<free_datablocks, data_left, j>>
      /\ UNCHANGED history
  BY DEF InnerDone, Copying, BaseInv, CommandInv, Adding, command, copies
<1>2. Memory' = Memory /\ Memory = data' BY <1>1 DEF Memory
<1>3. Done' = Done /\ CopiesInv BY <1>1 DEF Done, StoreInv
<1>4. iblk \in NodeBlocks /\ iblk \in DataBlocks /\ \A b : b # iblk => data'[b] = data[b]
  BY <1>1 DEF ApartInv, FreePointers, NodeBlocks, BaseInv, TypeOK
<1>5. ASSUME NEW off \in 0 .. Done - 1 PROVE Copied(off)'
  <2>1. Copied(off) BY <1>1, <1>3 DEF CopiesInv
  <2>2. /\ Leads(node, Memory, off) /\ data[BlockAt(node, Memory, off)] = src[off + 1]
        /\ BlockAt(node, Memory, off) # iblk
    BY <1>1, <2>1 DEF Copied
  <2>3. Leads(node', Memory', off) /\ BlockAt(node', Memory', off) = BlockAt(node, Memory, off)
    BY <1>1, <1>2, <2>2 DEF Leads, BlockAt
  <2>4. data'[BlockAt(node', Memory', off)] = src'[off + 1] BY <1>1, <1>4, <2>2, <2>3
  <2> QED BY <1>1, <2>3, <2>4 DEF Copied, Leads, BlockAt
<1>6. CopiesInv' BY <1>1, <1>3, <1>5 DEF CopiesInv
<1>7. PositionInv'
  <2> SUFFICES ASSUME data_left > 0, free_datablocks > 0
               PROVE  Done = INODE_DIRECT_PTR_CNT + (k + 1) * pointers_per_block
    BY <1>1, <1>3 DEF PositionInv, Copying
  <2>1. Done = INODE_DIRECT_PTR_CNT + k * pointers_per_block + j /\ j <= pointers_per_block
    BY <1>1 DEF StoreInv, PositionInv
  <2>2. j = pointers_per_block
    BY <1>1, <2>1, CountsAssumption DEF More, BaseInv, TypeOK
  <2>3. (k + 1) * pointers_per_block = k * pointers_per_block + pointers_per_block
        /\ k * pointers_per_block \in Nat
    BY NextMultiple, CountsAssumption DEF BaseInv, TypeOK
  <2> QED BY <2>1, <2>2, <2>3, CountsAssumption
<1>8. DeletesFile' BY <1>1 DEF DeletesFile
<1>9. \A a \in Live : \A b \in UsedBlocks(a) : data'[b] = data[b]
  BY <1>1, <1>4 DEF ApartInv, AddMarks
<1>10. \A i \in Live' : Whole(i)' BY <1>1, <1>9, OthersWhole
<1> QED BY <1>6, <1>7, <1>8, <1>10 DEF StoreInv

\* The ends of the other loops.
LEMMA LoopEndsStore ==
  ASSUME BaseInv, ApartInv, StoreInv, Intact, DirectDone \/ AddReady
  PROVE  StoreInv'
<1>1. /\ Copying /\ Adding /\ op' = "add" /\ pc # "inner" /\ pc' # "inner"
      /\ \/ pc = "direct" /\ pc' = "indirect" /\ k' = 0 /\ ~More(k, INODE_DIRECT_PTR_CNT)
         \/ pc = "indirect" /\ pc' = "write inode bitmap" /\ data_left <= 0
      /\ UNCHANGED <<ibm, dbm, itab, data, op, name, src, ino, node, mibm, mdbm>>
      /\ UNCHANGED <<free_datablocks, data_left>>
      /\ UNCHANGED history
  BY DEF DirectDone, AddReady, Copying, BaseInv, CommandInv, Adding, command, copies, image, loops
<1>2. Memory' = data /\ Memory = data BY <1>1 DEF Memory
<1>3. Done' = Done /\ CopiesInv BY <1>1 DEF Done, StoreInv
<1>4. \A off \in 0 .. Done - 1 : Copied(off)'
  BY <1>1, <1>2, <1>3 DEF CopiesInv, Copied, Leads, BlockAt
<1>5. CopiesInv' BY <1>1, <1>3, <1>4 DEF CopiesInv, Adding
<1>6. PositionInv'
  <2>1. data_left \in Nat /\ k \in Nat /\ free_datablocks \in Nat BY DEF BaseInv, TypeOK
  <2>2. CASE pc' = "indirect"
    <3> SUFFICES ASSUME data_left > 0, free_datablocks > 0
                 PROVE  Done = INODE_DIRECT_PTR_CNT + 0 * pointers_per_block
      BY <1>1, <1>3, <2>2 DEF PositionInv, Copying
    <3>1. Done = k /\ k <= INODE_DIRECT_PTR_CNT /\ ~(k < INODE_DIRECT_PTR_CNT)
      BY <1>1, <2>2 DEF StoreInv, PositionInv, More
    <3> QED BY <2>1, <3>1, CountsAssumption
  <2>3. CASE pc' = "write inode bitmap"
    <3>1. data_left <= 0 /\ data_left' = data_left BY <1>1, <2>3, Zenon
    <3>2. data_left' = 0 BY <2>1, <3>1
    <3> QED BY <2>3, <3>2 DEF PositionInv
  <2> QED BY <1>1, <2>2, <2>3
<1>7. DeletesFile' BY <1>1 DEF DeletesFile
<1>8. \A i \in Live' : Whole(i)' BY <1>1, OthersWhole
<1> QED BY <1>5, <1>6, <1>7, <1>8 DEF StoreInv

\* As long as the inodes and the data blocks stay, files keep their contents.
LEMMA AllWhole ==
  ASSUME itab' = itab, data' = data
  PROVE  \A i : (Whole(i)' <=> Whole(i)) /\ HeldBy(i)' = HeldBy(i)
BY DEF Whole, HeldBy, Leads, BlockAt

\* A failed or killed command leaves the contents of the files as they were.
LEMMA EndStore ==
  ASSUME StoreInv, AddFailed \/ Kill
  PROVE  StoreInv'
<1> SUFFICES ASSUME Intact' PROVE StoreInv' BY DEF StoreInv
<1>1. pc' = "idle" /\ itab' = itab /\ data' = data
  BY DEF AddFailed, Kill, EndCommand, image
<1>2. Intact
  <2>1. CASE AddFailed BY <2>1 DEF AddFailed, Intact, history
  <2>2. CASE Kill BY <2>2 DEF Kill, Intact
  <2> QED BY <2>1, <2>2
<1>3. Live' = Live BY <1>1 DEF Live
<1> QED BY <1>1, <1>2, <1>3, AllWhole
        DEF StoreInv, CopiesInv, PositionInv, DeletesFile, Adding

\* fs_add starts with nothing copied.
LEMMA AddStartStore ==
  ASSUME BaseInv, StoreInv, Intact, NEW n \in Names, NEW f \in HostFiles, AddStart(n, f)
  PROVE  StoreInv'
<1> DEFINE i == FirstAvailable(ibm, inode_count)
<1>1. /\ pc' = "direct" /\ op' = "add" /\ src' = f /\ data_left' = Len(f) /\ k' = 0
      /\ node' = [itab[i] EXCEPT !.number = i, !.name = n, !.size = Len(f)]
      /\ itab' = itab /\ data' = data /\ ~NoInodeLeft
  BY DEF AddStart, image
<1>2. i \in Inodes
  <2>1. Inodes \ ibm # {} BY <1>1 DEF NoInodeLeft
  <2> QED BY <2>1, FirstIsClear, CountsAssumption DEF Inodes
<1> HIDE DEF i
<1>3. node'.size = Len(f) /\ Len(f) \in Nat
  <2>1. itab[i] \in Inode /\ f \in Seq(Block)
    BY <1>2, FilesAssumption DEF BaseInv, TypeOK
  <2>2. Len(f) \in Nat BY <2>1
  <2> QED BY <1>1, <2>1, <2>2 DEF Inode
<1>4. Done' = 0 BY <1>1, <1>3 DEF Done
<1>5. CopiesInv' BY <1>1, <1>3, <1>4 DEF CopiesInv
<1>6. PositionInv' BY <1>1, <1>4, CountsAssumption DEF PositionInv, Copying
<1>7. DeletesFile' BY <1>1 DEF DeletesFile
<1>8. \A a \in Live' : Whole(a)' BY <1>1, AllWhole DEF StoreInv, Live
<1> QED BY <1>5, <1>6, <1>7, <1>8 DEF StoreInv

\* fs_del starts with a file that exists.
LEMMA DelStartStore ==
  ASSUME StoreInv, NEW n \in Names, DelStart(n)
  PROVE  StoreInv'
<1> SUFFICES ASSUME Intact' PROVE StoreInv' BY DEF StoreInv
<1>1. /\ pc' = "write inode bitmap" /\ op' = "del" /\ name' = n
      /\ ino' = fs_get_file_inode(n) /\ itab' = itab /\ data' = data /\ file_exists(n)
      /\ Intact
  BY DEF DelStart, image, Intact
<1>2. DeletesFile' BY <1>1, FileInode DEF DeletesFile, Live
<1>3. \A a \in Live' : Whole(a)' BY <1>1, AllWhole DEF StoreInv, Live
<1>4. CopiesInv' /\ PositionInv' BY <1>1 DEF CopiesInv, PositionInv, Adding
<1> QED BY <1>2, <1>3, <1>4 DEF StoreInv

\* The bitmaps are no part of what the files hold.
LEMMA WriteBitmapsStore ==
  ASSUME StoreInv, Intact, WriteIbm \/ WriteDbm
  PROVE  StoreInv'
<1>1. /\ pc \notin {"idle", "direct", "indirect", "inner"}
      /\ pc' \notin {"idle", "direct", "indirect", "inner"}
      /\ UNCHANGED <<itab, data, op, name, src, ino, node, data_left>>
  BY DEF WriteIbm, WriteDbm, command, copies, loops
<1>2. Memory' = Memory /\ Done' = Done /\ Adding' = Adding BY <1>1 DEF Memory, Done, Adding
<1>3. \A off : Copied(off) => Copied(off)' BY <1>1, <1>2 DEF Copied, Leads, BlockAt
<1>4. CopiesInv' BY <1>1, <1>2, <1>3 DEF StoreInv, CopiesInv
<1>5. PositionInv' BY <1>1, <1>2 DEF StoreInv, PositionInv, Copying
<1>6. DeletesFile' BY <1>1 DEF StoreInv, DeletesFile, Live
<1>7. \A a \in Live' : Whole(a)' BY <1>1, AllWhole DEF StoreInv, Live
<1> QED BY <1>4, <1>5, <1>6, <1>7 DEF StoreInv

\* The inode that fs_add writes holds what it was asked to add.
LEMMA AddedWhole ==
  ASSUME BaseInv, StoreInv, Intact, WriteItab, op = "add", NEW i, i = ino
  PROVE  Whole(i)' /\ HeldBy(i)' = src
<1>1. /\ pc = "write inodes" /\ data' = data /\ itab' = [itab EXCEPT ![ino] = node]
      /\ Adding /\ ~Copying
  BY DEF WriteItab, Adding, Copying
<1>2. itab'[i] = node BY <1>1 DEF BaseInv, TypeOK
<1>3. src \in HostFiles /\ src \in Seq(Block) /\ node.size = Len(src) /\ Len(src) \in Nat
  <2>1. src \in HostFiles /\ node.size = Len(src) BY <1>1, Zenon DEF StoreInv, CopiesInv
  <2>2. src \in Seq(Block) BY <2>1, FilesAssumption
  <2> QED BY <2>1, <2>2
<1>4. Done = Len(src)
  <2>1. data_left = 0 BY <1>1, Zenon DEF StoreInv, PositionInv
  <2> QED BY <1>3, <2>1 DEF Done
<1>5. Memory = data BY <1>1 DEF Memory
<1>6. ASSUME NEW off \in 0 .. Len(src) - 1
      PROVE  Leads(node, data, off) /\ data[BlockAt(node, data, off)] = src[off + 1]
  BY <1>1, <1>4, <1>5 DEF StoreInv, CopiesInv, Copied
<1>7. \A b \in 1 .. Len(src) : data[BlockAt(node, data, b - 1)] = src[b]
  <2> SUFFICES ASSUME NEW b \in 1 .. Len(src) PROVE data[BlockAt(node, data, b - 1)] = src[b]
    OBVIOUS
  <2>1. b - 1 \in 0 .. Len(src) - 1 /\ (b - 1) + 1 = b BY <1>3
  <2> QED BY <1>6, <2>1
<1>8. HeldBy(i)' = [b \in 1 .. Len(src) |-> data[BlockAt(node, data, b - 1)]]
  <2>1. HeldBy(i)' = [b \in 1 .. itab'[i].size |-> data'[BlockAt(itab'[i], data', b - 1)]]
    BY DEF HeldBy, BlockAt
  <2> QED BY <1>1, <1>2, <1>3, <2>1
<1>9. HeldBy(i)' = src
  <2>1. src = [b \in 1 .. Len(src) |-> src[b]] BY <1>3
  <2> QED BY <1>7, <1>8, <2>1
<1>10. Whole(i)' BY <1>1, <1>2, <1>3, <1>6, <1>9 DEF Whole, Leads
<1> QED BY <1>9, <1>10

\* Writing an inode leaves the others what they are.
LEMMA WriteItabOthers ==
  ASSUME BaseInv, WriteItab, NEW i \in Inodes, i # ino
  PROVE  /\ itab'[i] = itab[i] /\ (i \in Live' <=> i \in Live)
         /\ (Whole(i)' <=> Whole(i)) /\ HeldBy(i)' = HeldBy(i)
<1>1. itab'[i] = itab[i] /\ data' = data BY DEF WriteItab, BaseInv, TypeOK
<1>2. (i \in Live' <=> i \in Live) BY <1>1 DEF Live
<1>3. (Whole(i)' <=> Whole(i)) /\ HeldBy(i)' = HeldBy(i)
  BY <1>1 DEF Whole, HeldBy, Leads, BlockAt
<1> QED BY <1>1, <1>2, <1>3

LEMMA WriteItabStore ==
  ASSUME BaseInv, StoreInv, Intact, WriteItab
  PROVE  StoreInv'
<1>1. pc = "write inodes" /\ pc' = "idle" /\ itab' = [itab EXCEPT ![ino] = node]
      /\ ino \in Inodes /\ itab \in [Inodes -> Inode] /\ op \in {"add", "del"}
  BY DEF WriteItab, EndCommand, BaseInv, TypeOK
<1>2. \A i \in Live' : Whole(i)'
  <2> SUFFICES ASSUME NEW i \in Live' PROVE Whole(i)' OBVIOUS
  <2>1. i \in Inodes BY DEF Live
  <2>2. CASE i # ino BY <2>1, <2>2, WriteItabOthers DEF StoreInv
  <2>3. CASE i = ino /\ op = "add" BY <2>3, AddedWhole
  <2>4. CASE i = ino /\ op = "del"
    <3>1. itab'[i] = ClearInode BY <1>1, <2>4 DEF BaseInv, CommandInv
    <3> QED BY <3>1 DEF Live, ClearInode
  <2> QED BY <1>1, <2>2, <2>3, <2>4
<1> QED BY <1>1, <1>2 DEF StoreInv, CopiesInv, PositionInv, DeletesFile, Adding

\* The invariant of the contents, for every image whose block numbers fit a
\* pointer.
LEMMA StoreInvariant == ASSUME PointersReach PROVE Spec => []StoreInv
<1>1. Init => StoreInv
  <2> SUFFICES ASSUME Init PROVE StoreInv OBVIOUS
  <2>1. pc = "idle" /\ Live = {} BY DEF Init, fs_create, NoCommand, Live, ClearInode
  <2> QED BY <2>1 DEF StoreInv, CopiesInv, PositionInv, DeletesFile, Adding
<1>2. BaseInv /\ ApartInv /\ StoreInv /\ [Next]_vars => StoreInv'
  <2> SUFFICES ASSUME BaseInv, ApartInv, StoreInv, [Next]_vars PROVE StoreInv' OBVIOUS
  <2>1. CASE UNCHANGED vars
    <3>1. UNCHANGED <<itab, data, pc, op, name, src, ino, node, free_datablocks, data_left, k,
                      j, iblk, iptrs, torn, indDel>>
      BY <2>1 DEF vars, image, command, copies, loops, history
    <3>2. Memory' = Memory /\ Done' = Done /\ Adding' = Adding BY <3>1 DEF Memory, Done, Adding
    <3>3. \A off : Copied(off) => Copied(off)' BY <3>1, <3>2 DEF Copied, Leads, BlockAt
    <3>4. CopiesInv => CopiesInv' BY <3>1, <3>2, <3>3 DEF CopiesInv
    <3>5. PositionInv => PositionInv' BY <3>1, <3>2 DEF PositionInv, Copying
    <3>6. DeletesFile => DeletesFile' BY <3>1 DEF DeletesFile, Live
    <3>7. Live' = Live /\ Intact' = Intact BY <3>1 DEF Live, Intact
    <3> QED BY <3>1, <3>4, <3>5, <3>6, <3>7, AllWhole DEF StoreInv
  <2>2. CASE ~Intact BY <2>1, <2>2, DamageStays DEF StoreInv
  <2>3. CASE AddFailed \/ Kill BY <2>3, EndStore
  <2>4. ASSUME Intact, NEW n \in Names, NEW f \in HostFiles, AddStart(n, f) PROVE StoreInv'
    BY <2>4, AddStartStore
  <2>5. ASSUME NEW n \in Names, DelStart(n) PROVE StoreInv' BY <2>5, DelStartStore
  <2>6. ASSUME Intact, add_file, ~AddFailed PROVE StoreInv'
    BY <2>6, AddDirectStore, AddIndirectStore, AddInnerStore, InnerDoneStore, LoopEndsStore
       DEF add_file
  <2>7. ASSUME Intact, write_back PROVE StoreInv'
    BY <2>7, WriteBitmapsStore, WriteItabStore DEF write_back
  <2>8. ASSUME NEW n \in Names, AddRefused(n) \/ DelRefused(n) \/ DelAborted(n)
        PROVE  UNCHANGED vars
    BY <2>8 DEF AddRefused, DelRefused, DelAborted
  <2> QED BY <2>1, <2>2, <2>3, <2>4, <2>5, <2>6, <2>7, <2>8 DEF Next
<1> QED BY <1>1, <1>2, BaseInvariant, ApartInvariant, PTL DEF Spec

-----------------------------------------------------------------------------
(* The store of files that the image implements. *)

FilesNow == [n \in Names |-> IF file_exists(n) THEN fs_read(n) ELSE NoFile]
RequestNow ==
  IF pc = "idle" THEN NoRequest
  ELSE [op |-> op, name |-> name, contents |-> IF op = "add" THEN src ELSE NoFile]

\* A file of the store is what the live inode of its name holds.
FilesAre ==
  BaseInv /\ (\A i \in Live : Whole(i)) =>
    \A n \in Names :
      /\ Matches(n) = {} => FilesNow[n] = NoFile
      /\ \A i \in Inodes : i \in Matches(n) => FilesNow[n] = HeldBy(i) /\ HeldBy(i) \in HostFiles

LEMMA FilesAreHeld == FilesAre
<1> SUFFICES ASSUME BaseInv, \A i \in Live : Whole(i), NEW n \in Names
             PROVE  /\ Matches(n) = {} => FilesNow[n] = NoFile
                    /\ \A i \in Inodes : i \in Matches(n) =>
                         FilesNow[n] = HeldBy(i) /\ HeldBy(i) \in HostFiles
  BY DEF FilesAre
<1>1. Matches(n) = {} => FilesNow[n] = NoFile BY DEF FilesNow, file_exists
<1>2. ASSUME NEW i \in Inodes, i \in Matches(n)
      PROVE  FilesNow[n] = HeldBy(i) /\ HeldBy(i) \in HostFiles
  <2>1. file_exists(n) /\ i \in Live /\ itab[i].name = n BY <1>2 DEF file_exists, Matches, Live
  <2>2. fs_get_file_inode(n) \in Live /\ itab[fs_get_file_inode(n)].name = n
    BY <2>1, FileInode DEF Live
  <2>3. fs_get_file_inode(n) = i BY <2>1, <2>2 DEF BaseInv, InodesSane
  <2>4. fs_read(n) = HeldBy(i) /\ fs_read(n) \in HostFiles
    BY <2>1, <2>3, ReadsHeld DEF BaseInv
  <2> QED BY <2>1, <2>4 DEF FilesNow
<1> QED BY <1>1, <1>2

LEMMA FilesAreHeldNext == FilesAre'
BY FilesAreHeld, PTL

\* The files stay if the inodes stay and hold what they held.
LEMMA FilesKept ==
  ASSUME BaseInv, BaseInv', \A i \in Live : Whole(i), \A i \in Live' : Whole(i)',
         itab' = itab, \A i \in Live : HeldBy(i)' = HeldBy(i)
  PROVE  FilesNow' = FilesNow
<1>1. ASSUME NEW n \in Names PROVE FilesNow'[n] = FilesNow[n]
  <2>1. Matches(n)' = Matches(n) BY DEF Matches
  <2>2. CASE Matches(n) = {}
    <3>1. FilesNow[n] = NoFile BY <2>2, FilesAreHeld DEF FilesAre
    <3>2. FilesNow'[n] = NoFile BY <2>1, <2>2, FilesAreHeldNext DEF FilesAre
    <3> QED BY <3>1, <3>2
  <2>3. CASE Matches(n) # {}
    <3>1. PICK i \in Inodes : i \in Matches(n) BY <2>3 DEF Matches
    <3>2. i \in Live BY <3>1 DEF Matches, Live
    <3>3. FilesNow[n] = HeldBy(i) BY <3>1, FilesAreHeld DEF FilesAre
    <3>4. FilesNow'[n] = HeldBy(i)' BY <2>1, <3>1, FilesAreHeldNext DEF FilesAre
    <3> QED BY <3>2, <3>3, <3>4
  <2> QED BY <2>2, <2>3
<1> QED BY <1>1 DEF FilesNow

\* What fs_add writes before it is ready is in no file.
LEMMA LoopsKeepOthers ==
  ASSUME BaseInv, ApartInv, Intact, add_file, ~AddFailed
  PROVE  /\ itab' = itab /\ pc # "idle" /\ pc' # "idle" /\ UNCHANGED <<op, name, src>>
         /\ Intact' /\ Adding
         /\ \A a \in Live : \A b \in UsedBlocks(a) : data'[b] = data[b]
<1> USE DEF Intact, history, command, image, copies
<1>1. CASE AddDirect \/ AddInner
  <2>1. /\ Copying /\ free_datablocks > 0 /\ Reserve /\ itab' = itab /\ pc' = pc
        /\ UNCHANGED <<op, name, src>> /\ UNCHANGED history
        /\ data' = [data EXCEPT ![Available] = src[Len(src) - data_left + 1]]
    BY <1>1 DEF AddDirect, AddInner, More, Copying, alloc_block_and_copy
  <2>2. \A a \in Live : \A b \in UsedBlocks(a) : data'[b] = data[b]
    BY <2>1, ReservedIsNew, CopyKeepsOthers
  <2> QED BY <2>1, <2>2 DEF Copying, BaseInv, CommandInv, Adding
<1>2. CASE InnerDone
  <2>1. /\ pc = "inner" /\ itab' = itab /\ pc' = "indirect" /\ UNCHANGED <<op, name, src>>
        /\ UNCHANGED history /\ data' = [data EXCEPT ![iblk] = iptrs] /\ Copying
    BY <1>2 DEF InnerDone, Copying
  <2>2. Adding BY <2>1 DEF BaseInv, CommandInv, Adding
  <2>3. iblk \in NodeBlocks BY <2>1 DEF ApartInv, FreePointers, NodeBlocks
  <2>4. \A b : b # iblk => data'[b] = data[b] BY <2>1 DEF BaseInv, TypeOK
  <2> QED BY <2>1, <2>2, <2>3, <2>4 DEF ApartInv, AddMarks
<1>3. CASE DirectDone BY <1>3 DEF DirectDone, BaseInv, CommandInv, Copying, Adding
<1>5. CASE AddReady BY <1>5 DEF AddReady, BaseInv, CommandInv, Copying, Adding
<1>4. CASE AddIndirect BY <1>4 DEF AddIndirect, BaseInv, CommandInv, Copying, Adding
<1> QED BY <1>1, <1>2, <1>3, <1>4, <1>5 DEF add_file

\* The loops of fs_add change no file.
LEMMA LoopsStutter ==
  ASSUME BaseInv, BaseInv', ApartInv, StoreInv, StoreInv', Intact, add_file, ~AddFailed
  PROVE  FilesNow' = FilesNow /\ RequestNow' = RequestNow
<1>1. /\ itab' = itab /\ pc # "idle" /\ pc' # "idle" /\ UNCHANGED <<op, name, src>>
      /\ Intact' /\ Adding
      /\ \A a \in Live : \A b \in UsedBlocks(a) : data'[b] = data[b]
  BY LoopsKeepOthers
<1>2. ASSUME NEW i \in Live PROVE HeldBy(i)' = HeldBy(i)
  <2>1. Whole(i) BY DEF StoreInv
  <2>2. UsedBlocks(i) \subseteq DataBlocks BY <1>1, UsedMarked DEF BaseInv, TypeOK
  <2> QED BY <1>1, <2>1, <2>2, WholeKept
<1>3. FilesNow' = FilesNow BY <1>1, <1>2, FilesKept DEF StoreInv
<1>4. RequestNow' = RequestNow BY <1>1 DEF RequestNow
<1> QED BY <1>3, <1>4

\* What a command asks for.
LEMMA RequestIsFor ==
  ASSUME BaseInv, StoreInv, Intact, pc # "idle"
  PROVE  /\ RequestNow # NoRequest /\ RequestNow.name = name /\ name \in Names
         /\ RequestNow.contents = IF op = "add" THEN src ELSE NoFile
         /\ op \in {"add", "del"} /\ (op = "add" => src \in HostFiles)
<1>1. op \in {"add", "del"} BY DEF BaseInv, TypeOK
<1>2. CASE op = "add"
  <2>1. Adding BY <1>2 DEF Adding
  <2>2. src \in HostFiles BY <2>1 DEF StoreInv, CopiesInv
  <2>3. name \in Names BY <2>1 DEF BaseInv, CommandInv
  <2>4. RequestNow = [op |-> "add", name |-> name, contents |-> src] BY <1>2 DEF RequestNow
  <2>5. RequestNow # NoRequest BY <2>2, <2>3, <2>4, FilesAssumption
  <2> QED BY <1>2, <2>2, <2>3, <2>4, <2>5
<1>3. CASE op = "del"
  <2>1. name \in Names BY <1>3 DEF StoreInv, DeletesFile
  <2>2. RequestNow = [op |-> "del", name |-> name, contents |-> NoFile] BY <1>3 DEF RequestNow
  <2>3. RequestNow # NoRequest BY <2>1, <2>2, FilesAssumption
  <2> QED BY <1>3, <2>1, <2>2, <2>3
<1> QED BY <1>1, <1>2, <1>3

\* Writing the inode is the moment the change happens.
LEMMA WriteItabCommits ==
  ASSUME BaseInv, BaseInv', ApartInv, StoreInv, StoreInv', Intact, Intact', WriteItab
  PROVE  FilesNow' = [FilesNow EXCEPT ![name] = IF op = "add" THEN src ELSE NoFile]
<1>1. /\ pc = "write inodes" /\ itab' = [itab EXCEPT ![ino] = node] /\ ino \in Inodes
      /\ itab \in [Inodes -> Inode] /\ op \in {"add", "del"}
  BY DEF WriteItab, BaseInv, TypeOK
<1> PICK i \in Inodes : i = ino BY <1>1
<1>2. itab'[i] = node BY <1>1
<1>3. name \in Names BY <1>1, RequestIsFor
<1>4. /\ \A n \in Names : Matches(n) = {} => FilesNow[n] = NoFile
      /\ \A n \in Names : \A a \in Inodes : a \in Matches(n) => FilesNow[n] = HeldBy(a)
  BY FilesAreHeld DEF FilesAre, StoreInv
<1>5. /\ \A n \in Names : Matches(n)' = {} => FilesNow'[n] = NoFile
      /\ \A n \in Names : \A a \in Inodes : a \in Matches(n)' => FilesNow'[n] = HeldBy(a)'
  BY FilesAreHeldNext DEF FilesAre, StoreInv
<1>6. \A a \in Inodes : a # i => itab'[a] = itab[a] /\ HeldBy(a)' = HeldBy(a)
  BY WriteItabOthers
<1>7. ASSUME NEW n \in Names, n # name PROVE FilesNow'[n] = FilesNow[n]
  <2>1. i \notin Matches(n)'
    <3>1. CASE op = "add" BY <1>1, <1>2, <1>7, <3>1 DEF Matches, BaseInv, CommandInv, Adding
    <3>2. CASE op = "del"
      <4>1. node = ClearInode BY <1>1, <3>2 DEF BaseInv, CommandInv
      <4> QED BY <1>2, <4>1 DEF Matches, ClearInode
    <3> QED BY <1>1, <3>1, <3>2
  <2>2. i \notin Matches(n)
    <3>1. CASE op = "add"
      <4>1. i \notin Live BY <1>1, <3>1 DEF ApartInv, AddMarks, Adding
      <4> QED BY <4>1 DEF Matches, Live
    <3>2. CASE op = "del" BY <1>1, <1>7, <3>2 DEF Matches, StoreInv, DeletesFile
    <3> QED BY <1>1, <3>1, <3>2
  <2>3. Matches(n)' = Matches(n) BY <1>6, <2>1, <2>2 DEF Matches
  <2>4. CASE Matches(n) = {} BY <1>4, <1>5, <2>3, <2>4
  <2>5. ASSUME NEW a \in Inodes, a \in Matches(n) PROVE FilesNow'[n] = FilesNow[n]
    <3>1. FilesNow[n] = HeldBy(a) /\ FilesNow'[n] = HeldBy(a)' BY <1>4, <1>5, <2>3, <2>5
    <3>2. a # i BY <2>2, <2>5
    <3> QED BY <1>6, <3>1, <3>2
  <2> QED BY <2>4, <2>5 DEF Matches
<1>8. FilesNow'[name] = IF op = "add" THEN src ELSE NoFile
  <2>1. CASE op = "add"
    <3>1. node.number = i /\ i # 0 /\ node.name = name
      BY <1>1, <2>1 DEF BaseInv, CommandInv, Adding
    <3>2. i > 0 BY <3>1, Zeros
    <3>3. i \in {a \in Inodes : itab'[a].number > 0 /\ itab'[a].name = name} BY <1>2, <3>1, <3>2
    <3>4. FilesNow'[name] = HeldBy(i)' BY <1>3, <1>5, <3>3 DEF Matches
    <3> QED BY <2>1, <3>4, AddedWhole
  <2>2. CASE op = "del"
    <3>1. \A a \in Inodes : ~(itab'[a].number > 0 /\ itab'[a].name = name)
      <4>1. itab'[i].number = 0
        <5>1. node = ClearInode BY <1>1, <2>2 DEF BaseInv, CommandInv
        <5> QED BY <1>2, <5>1 DEF ClearInode
      <4>2. i \in Live /\ itab[i].name = name BY <1>1, <2>2 DEF StoreInv, DeletesFile
      <4>3. \A a \in Inodes : a # i => ~(itab[a].number > 0 /\ itab[a].name = name)
        BY <4>2 DEF BaseInv, InodesSane, Live
      <4> QED BY <1>6, <4>1, <4>3
    <3>2. FilesNow'[name] = NoFile BY <1>3, <1>5, <3>1 DEF Matches
    <3> QED BY <2>2, <3>2
  <2> QED BY <1>1, <2>1, <2>2
<1>9. FilesNow = [n \in Names |-> FilesNow[n]] /\ FilesNow' = [n \in Names |-> FilesNow'[n]]
  BY DEF FilesNow
<1> QED BY <1>3, <1>7, <1>8, <1>9

\* Every step of the tools is one of the store, or none.
LEMMA StepOfStore ==
  ASSUME BaseInv, BaseInv', ApartInv, StoreInv, StoreInv', Intact, Intact', Next
  PROVE  \/ UNCHANGED <<FilesNow, RequestNow>>
         \/ /\ RequestNow = NoRequest /\ UNCHANGED FilesNow
            /\ \E n \in Names :
                 \/ FilesNow[n] = NoFile
                    /\ \E c \in HostFiles : RequestNow' = Store!AddRequest(n, c)
                 \/ FilesNow[n] # NoFile /\ RequestNow' = Store!DelRequest(n)
         \/ /\ RequestNow # NoRequest /\ RequestNow' = NoRequest
            /\ \/ FilesNow' = [FilesNow EXCEPT ![RequestNow.name] = RequestNow.contents]
               \/ UNCHANGED FilesNow
<1>0. itab' = itab /\ data' = data => FilesNow' = FilesNow
  BY AllWhole, FilesKept DEF StoreInv
<1>1. ASSUME NEW n \in Names, NEW f \in HostFiles, AddStart(n, f)
      PROVE  /\ RequestNow = NoRequest /\ UNCHANGED FilesNow
             /\ FilesNow[n] = NoFile /\ RequestNow' = Store!AddRequest(n, f)
  <2>1. /\ pc = "idle" /\ pc' = "direct" /\ op' = "add" /\ name' = n /\ src' = f
        /\ itab' = itab /\ data' = data /\ Matches(n) = {}
    BY <1>1 DEF AddStart, file_exists, image
  <2>2. FilesNow[n] = NoFile BY <2>1, FilesAreHeld DEF FilesAre, StoreInv
  <2> QED BY <1>0, <2>1, <2>2 DEF RequestNow, Store!AddRequest
<1>2. ASSUME NEW n \in Names, DelStart(n)
      PROVE  /\ RequestNow = NoRequest /\ UNCHANGED FilesNow
             /\ FilesNow[n] # NoFile /\ RequestNow' = Store!DelRequest(n)
  <2>1. /\ pc = "idle" /\ pc' = "write inode bitmap" /\ op' = "del" /\ name' = n
        /\ itab' = itab /\ data' = data /\ Matches(n) # {}
    BY <1>2 DEF DelStart, file_exists, image
  <2>2. PICK i \in Inodes : i \in Matches(n) BY <2>1 DEF Matches
  <2>3. FilesNow[n] \in HostFiles BY <2>2, FilesAreHeld DEF FilesAre, StoreInv
  <2>4. FilesNow[n] # NoFile BY <2>3, FilesAssumption
  <2> QED BY <1>0, <2>1, <2>4 DEF RequestNow, Store!DelRequest
<1>3. CASE add_file /\ ~AddFailed BY <1>3, LoopsStutter
<1>4. CASE AddFailed \/ Kill
  <2>1. pc # "idle" /\ pc' = "idle" /\ itab' = itab /\ data' = data
    BY <1>4 DEF AddFailed, Kill, EndCommand, image
  <2>2. RequestNow # NoRequest BY <2>1, RequestIsFor
  <2>3. RequestNow' = NoRequest BY <2>1 DEF RequestNow
  <2> QED BY <1>0, <2>1, <2>2, <2>3
<1>5. CASE WriteIbm \/ WriteDbm
  <2>1. /\ pc # "idle" /\ pc' # "idle" /\ itab' = itab /\ data' = data
        /\ UNCHANGED <<op, name, src>>
    BY <1>5 DEF WriteIbm, WriteDbm, command
  <2>2. RequestNow' = RequestNow BY <2>1 DEF RequestNow
  <2> QED BY <1>0, <2>1, <2>2
<1>6. CASE WriteItab
  <2>1. pc # "idle" /\ pc' = "idle" BY <1>6 DEF WriteItab, EndCommand
  <2>2. RequestNow' = NoRequest BY <2>1 DEF RequestNow
  <2>3. FilesNow' = [FilesNow EXCEPT ![RequestNow.name] = RequestNow.contents]
    BY <1>6, <2>1, WriteItabCommits, RequestIsFor
  <2> QED BY <2>1, <2>2, <2>3, RequestIsFor
<1>7. ASSUME NEW n \in Names, AddRefused(n) \/ DelRefused(n) \/ DelAborted(n)
      PROVE  UNCHANGED <<FilesNow, RequestNow>>
  <2>1. UNCHANGED vars BY <1>7 DEF AddRefused, DelRefused, DelAborted
  <2>2. UNCHANGED <<itab, data, pc, op, name, src>> BY <2>1 DEF vars, image, command
  <2> QED BY <1>0, <2>2 DEF RequestNow
<1> QED BY <1>1, <1>2, <1>3, <1>4, <1>5, <1>6, <1>7 DEF Next, write_back

\* On an image of any size whose block numbers fit a pointer, and as long as it
\* is intact, the tools and fs_cat are a store of files: every command, however
\* it ends, changes its own file completely or not at all, in the one moment
\* the inode table is written, and what fs_cat reads is what was added.
THEOREM ToolsImplementStore == ASSUME PointersReach PROVE Spec => ImplementsFileStore
<1>1. Init => Store!Init
  <2> SUFFICES ASSUME Init PROVE Store!Init OBVIOUS
  <2>1. pc = "idle" /\ \A n \in Names : ~file_exists(n)
    BY DEF Init, fs_create, NoCommand, file_exists, Matches, ClearInode
  <2>2. Intact \in BOOLEAN BY DEF Init, Intact
  <2> QED BY <2>1, <2>2 DEF Store!Init
<1>2. BaseInv /\ BaseInv' /\ ApartInv /\ StoreInv /\ StoreInv' /\ [Next]_vars
        => [Store!Next]_(Store!vars)
  <2> SUFFICES ASSUME BaseInv, BaseInv', ApartInv, StoreInv, StoreInv', [Next]_vars
               PROVE  Store!Next \/ UNCHANGED Store!vars
    OBVIOUS
  <2>1. CASE UNCHANGED vars
    <3>1. UNCHANGED <<itab, data, pc, op, name, src, torn, indDel>>
      BY <2>1 DEF vars, image, command, history
    <3>2. FilesNow' = FilesNow
      BY <3>1 DEF FilesNow, file_exists, fs_read, Matches, fs_get_file_inode,
                  fs_offset_to_block, IndirectPtr
    <3>3. RequestNow' = RequestNow /\ Intact' = Intact BY <3>1 DEF RequestNow, Intact
    <3> QED BY <3>2, <3>3 DEF Store!vars, FilesNow, RequestNow
  <2>2. CASE Next /\ ~Intact
    BY <2>2, DamageStays DEF Store!Next, Store!Anything
  <2>3. CASE Intact /\ ~Intact' BY <2>3 DEF Store!Next, Store!Damage
  <2>4. CASE Next /\ Intact /\ Intact'
    <3>1. CASE UNCHANGED <<FilesNow, RequestNow>>
      BY <2>4, <3>1 DEF Store!vars, FilesNow, RequestNow
    <3>2. CASE /\ RequestNow = NoRequest /\ UNCHANGED FilesNow
               /\ \E n \in Names :
                    \/ FilesNow[n] = NoFile
                       /\ \E c \in HostFiles : RequestNow' = Store!AddRequest(n, c)
                    \/ FilesNow[n] # NoFile /\ RequestNow' = Store!DelRequest(n)
      BY <2>4, <3>2 DEF Store!Next, Store!Ask, FilesNow, RequestNow
    <3>3. CASE /\ RequestNow # NoRequest /\ RequestNow' = NoRequest
               /\ FilesNow' = [FilesNow EXCEPT ![RequestNow.name] = RequestNow.contents]
      BY <2>4, <3>3 DEF Store!Next, Store!Commit, FilesNow, RequestNow
    <3>4. CASE /\ RequestNow # NoRequest /\ RequestNow' = NoRequest /\ UNCHANGED FilesNow
      BY <2>4, <3>4 DEF Store!Next, Store!Abandon, FilesNow, RequestNow
    <3> QED BY <2>4, <3>1, <3>2, <3>3, <3>4, StepOfStore
  <2> QED BY <2>1, <2>2, <2>3, <2>4
<1> QED BY <1>1, <1>2, BaseInvariant, ApartInvariant, StoreInvariant, PTL
        DEF Spec, ImplementsFileStore, Store!Spec
=============================================================================
