--------------------------- MODULE KernelFsProofs ---------------------------
(***************************************************************************)
(* Theorems about the kernel's file system, on every image the tools make. *)
(***************************************************************************)
EXTENDS KernelFs, BfsProofs

\* The kernel never changes the image, so what is proved of the tools holds
\* of tools and kernel together.
LEMMA KernelIsQuiet == KNext => Next \/ UNCHANGED vars
<1>1. Tools => Next BY DEF Tools
<1>2. files_system_init \/ ForeignChanges \/ PowerOff \/ file_iterator \/ file_next
        => UNCHANGED vars
  BY DEF files_system_init, ForeignChanges, PowerOff, file_iterator, file_next
<1>3. ASSUME NEW n \in Names, file_open(n) \/ file_open_fails(n) \/ file_remove(n)
      PROVE  UNCHANGED vars
  BY <1>3 DEF file_open, file_open_fails, file_remove
<1>4. ASSUME NEW fd \in Fds, NEW x, file_close(fd) \/ file_seek(fd, x) \/ file_read(fd, x)
      PROVE  UNCHANGED vars
  BY <1>4 DEF file_close, file_seek, file_read
<1> QED BY <1>1, <1>2, <1>3, <1>4 DEF KNext, MachineNext

\* The machine and the tools together are a run of the tools.
THEOREM KernelRunsTools == KSpec => Spec
<1>1. KInit => Init BY DEF KInit
<1>2. [KNext]_kvars => [Next]_vars BY KernelIsQuiet DEF kvars
<1> QED BY <1>1, <1>2, PTL DEF KSpec, Spec

\* A store of files the image stays, whenever the machine boots in between.
THEOREM KernelKeepsStore == ASSUME PointersReach PROVE KSpec => ImplementsFileStore
BY KernelRunsTools, ToolsImplementStore, PTL

-----------------------------------------------------------------------------
(* Two facts about every image, a damaged one too: the files of the table  *)
(* have names, and direct pointers lead to data blocks.                    *)

DirectInside(nd) == \A d \in DirectIdx : nd.direct_ptr[d] \in DataBlocks

ImageInv ==
  /\ \A i \in Live : itab[i].name \in Names
  /\ \A i \in Inodes : DirectInside(itab[i])
  /\ DirectInside(node)

\* A number and its remainder lie on one side of any bound.
LEMMA PointerInside == ASSUME NEW b \in DataBlocks PROVE b % PtrMod \in DataBlocks
<1>1. b \in Nat /\ PtrMod \in Nat \ {0} BY CountsAssumption, Zeros DEF DataBlocks
<1>2. b % PtrMod \in Nat /\ b % PtrMod <= b BY <1>1, Z3
<1> QED BY <1>2, CountsAssumption DEF DataBlocks

LEMMA ImageInvariant == Spec => []ImageInv
<1>1. DirectInside(ClearInode) BY Zeros DEF DirectInside, ClearInode
<1>2. Init => ImageInv
  BY <1>1 DEF Init, fs_create, NoCommand, ImageInv, Live, ClearInode, DirectInside
<1>3. BaseInv /\ ImageInv /\ [Next]_vars => ImageInv'
  <2> SUFFICES ASSUME BaseInv, ImageInv, [Next]_vars PROVE ImageInv' OBVIOUS
  <2>0. itab \in [Inodes -> Inode] /\ node \in Inode /\ ino \in Inodes
    BY DEF BaseInv, TypeOK
  <2>1. ASSUME itab' = itab, DirectInside(node') PROVE ImageInv'
    BY <2>1 DEF ImageInv, Live, DirectInside
  <2>2. ASSUME EndCommand, itab' = itab PROVE ImageInv'
    BY <1>1, <2>1, <2>2 DEF EndCommand
  <2>3. ASSUME node' = node, itab' = itab PROVE ImageInv'
    BY <2>1, <2>3 DEF ImageInv
  <2>4. ASSUME NEW n \in Names, NEW f \in HostFiles, AddStart(n, f) PROVE ImageInv'
    <3> DEFINE i == FirstAvailable(ibm, inode_count)
    <3>1. itab' = itab /\ node' = [itab[i] EXCEPT !.number = i, !.name = n, !.size = Len(f)]
          /\ ~NoInodeLeft
      BY <2>4 DEF AddStart, image
    <3>2. i \in Inodes
      <4>1. Inodes \ ibm # {} BY <3>1 DEF NoInodeLeft
      <4> QED BY <4>1, FirstIsClear, CountsAssumption DEF Inodes
    <3> HIDE DEF i
    <3>3. node'.direct_ptr = itab[i].direct_ptr BY <2>0, <3>1, <3>2 DEF Inode
    <3>4. DirectInside(node') BY <3>2, <3>3 DEF ImageInv, DirectInside
    <3> QED BY <2>1, <3>1, <3>4
  <2>5. ASSUME NEW n \in Names, DelStart(n) PROVE ImageInv'
    BY <1>1, <2>1, <2>5 DEF DelStart, image
  <2>6. CASE AddDirect
    <3>1. /\ itab' = itab /\ node' = [node EXCEPT !.direct_ptr[k] = Available % PtrMod]
          /\ Copying /\ free_datablocks > 0 /\ Reserve
      BY <2>6 DEF AddDirect, alloc_block_and_copy, Copying, More
    <3>2. Available \in DataBlocks BY <3>1, ReserveCounts DEF BaseInv
    <3>3. Available % PtrMod \in DataBlocks BY <3>2, PointerInside
    <3>4. \A d \in DirectIdx : node'.direct_ptr[d] \in {node.direct_ptr[d], Available % PtrMod}
      BY <2>0, <3>1 DEF Inode
    <3>5. DirectInside(node') BY <3>3, <3>4 DEF ImageInv, DirectInside
    <3> QED BY <2>1, <3>1, <3>5
  <2>7. CASE AddIndirect
    <3>1. itab' = itab /\ node' = [node EXCEPT !.indirect_ptr[k] = Available % PtrMod]
      BY <2>7 DEF AddIndirect, image
    <3>2. node'.direct_ptr = node.direct_ptr BY <2>0, <3>1 DEF Inode
    <3> QED BY <2>1, <3>1, <3>2 DEF ImageInv, DirectInside
  <2>8. CASE DirectDone \/ AddInner \/ InnerDone \/ AddReady \/ WriteIbm \/ WriteDbm
    BY <2>3, <2>8 DEF DirectDone, AddInner, InnerDone, AddReady, WriteIbm, WriteDbm,
       alloc_block_and_copy, copies, image
  <2>9. CASE AddFailed \/ Kill BY <2>2, <2>9 DEF AddFailed, Kill, image
  <2>10. CASE WriteItab
    <3>1. itab' = [itab EXCEPT ![ino] = node] /\ node' = ClearInode /\ pc # "idle"
          /\ op \in {"add", "del"}
      BY <2>10 DEF WriteItab, EndCommand, BaseInv, TypeOK
    <3>2. node.number > 0 => node.name \in Names
      <4>1. CASE op = "add" BY <3>1, <4>1 DEF BaseInv, CommandInv, Adding
      <4>2. CASE op = "del" BY <3>1, <4>2 DEF BaseInv, CommandInv, ClearInode
      <4> QED BY <3>1, <4>1, <4>2
    <3>3. \A i \in Inodes : itab'[i] \in {itab[i], node} /\ (itab'[i] = itab[i] \/ i = ino)
      BY <2>0, <3>1
    <3>4. \A i \in Live' : itab'[i].name \in Names BY <3>2, <3>3 DEF ImageInv, Live
    <3>5. \A i \in Inodes : DirectInside(itab'[i]) BY <3>3 DEF ImageInv
    <3> QED BY <1>1, <3>1, <3>4, <3>5 DEF ImageInv, DirectInside
  <2>11. CASE UNCHANGED vars BY <2>3, <2>11 DEF vars, copies, image
  <2>12. ASSUME NEW n \in Names, AddRefused(n) \/ DelRefused(n) \/ DelAborted(n)
         PROVE  UNCHANGED vars
    BY <2>12 DEF AddRefused, DelRefused, DelAborted
  <2> QED BY <2>4, <2>5, <2>6, <2>7, <2>8, <2>9, <2>10, <2>11, <2>12
          DEF Next, add_file, write_back
<1> QED BY <1>2, <1>3, BaseInvariant, PTL DEF Spec

-----------------------------------------------------------------------------
(* What the kernel knows. *)

\* While the machine is on, no tool runs, the table in global_buffer is the
\* first sector of the one on the disk without the removed files, what is
\* outside has no name that is asked for, and an open descriptor has the inode
\* of the file it was opened for.
CachedInode(i) ==
  IF i < inodes_per_block /\ itab[i].name \notin removed THEN itab[i] ELSE ClearInode

CacheInv ==
  IF on
  THEN /\ pc = "idle"
       /\ \A i \in Inodes : inode_table[i] = CachedInode(i)
                             \/ (i \in Outside /\ inode_table[i].name = NoName)
       /\ \A fd \in Fds : file_descriptor_tab[fd].status = 1 =>
            /\ file_descriptor_tab[fd].inode < inodes_per_block
            /\ file_descriptor_tab[fd].inode \in Matches(opened[fd])
  ELSE Empty

\* What is loaded is not outside.
LEMMA LoadedInside == ASSUME NEW i \in Inodes, i < inodes_per_block PROVE i \notin Outside
BY KernelAssumption, CountsAssumption DEF Outside, Inodes

\* Where the files of the image are, as FileStore and the kernel see them.
ImageSane ==
  /\ ibm \in SUBSET Inodes
  /\ itab \in [Inodes -> Inode] /\ data \in [DataBlocks -> Block]
  /\ InodesSane /\ ImageInv
  /\ \A i \in Inodes : itab[i].number = 0 => itab[i] = ClearInode

LEMMA ImageSaneAlways == KSpec => []ImageSane
<1>1. BaseInv /\ ImageInv => ImageSane BY DEF BaseInv, TypeOK, CommandInv, ImageSane
<1> QED BY <1>1, KernelRunsTools, BaseInvariant, ImageInvariant, PTL

\* A name has at most one inode, and the tools find it.
LEMMA OneInode ==
  ASSUME ImageSane, NEW n, NEW i \in Inodes, i \in Matches(n)
  PROVE  /\ fs_get_file_inode(n) = i /\ itab[i].number = i /\ n \in Names
         /\ \A a \in Inodes : a \in Matches(n) => a = i
<1>1. i \in Live /\ itab[i].name = n /\ itab[i].number > 0 BY DEF Matches, Live
<1>2. \A a \in Inodes : a \in Matches(n) => a = i
  BY <1>1 DEF ImageSane, InodesSane, Matches, Live
<1>3. file_exists(n) BY DEF file_exists
<1>4. fs_get_file_inode(n) = i BY <1>1, <1>3, FileInode DEF ImageSane, InodesSane, Live
<1>5. itab[i].number = i BY <1>1, Zeros DEF ImageSane, InodesSane
<1> QED BY <1>1, <1>2, <1>4, <1>5 DEF ImageSane, ImageInv

\* What the kernel finds by name.
LEMMA FoundIs ==
  ASSUME ImageSane, CacheInv, on, NEW n \in Names
  PROVE  \A i \in Inodes : i \in Found(n) <=>
           i \in Matches(n) /\ i < inodes_per_block /\ n \notin removed
<1> SUFFICES ASSUME NEW i \in Inodes
             PROVE  i \in Found(n) <=>
                      i \in Matches(n) /\ i < inodes_per_block /\ n \notin removed
  OBVIOUS
<1>1. CASE i < inodes_per_block /\ itab[i].name \notin removed
  <2>1. inode_table[i] = itab[i] BY <1>1, LoadedInside DEF CacheInv, CachedInode
  <2> QED BY <1>1, <2>1 DEF Found, Matches
<1>2. CASE ~(i < inodes_per_block /\ itab[i].name \notin removed)
  <2>1. inode_table[i].number = 0 \/ inode_table[i].name = NoName
    BY <1>2 DEF CacheInv, CachedInode, ClearInode
  <2>2. i \notin Found(n) BY <2>1, FilesAssumption DEF Found
  <2> QED BY <1>2, <2>2 DEF Matches
<1> QED BY <1>1, <1>2

\* The kernel finds by name the inode the tools find.
LEMMA FoundInode ==
  ASSUME ImageSane, CacheInv, on, NEW n \in Names, Found(n) # {}
  PROVE  /\ inode_get_from_filename(n) \in Inodes
         /\ inode_get_from_filename(n) < inodes_per_block
         /\ inode_get_from_filename(n) \in Matches(n) /\ n \notin removed
         /\ inode_table[inode_get_from_filename(n)] = itab[inode_get_from_filename(n)]
<1> DEFINE i == inode_get_from_filename(n)
<1>1. Found(n) \in SUBSET Nat BY Zeros DEF Found
<1>2. i \in Found(n) BY <1>1, MinIsLeast DEF inode_get_from_filename
<1>3. i \in Inodes BY <1>2 DEF Found
<1> HIDE DEF i
<1>4. i \in Matches(n) /\ i < inodes_per_block /\ n \notin removed BY <1>2, <1>3, FoundIs
<1>5. inode_table[i] = itab[i]
  BY <1>3, <1>4, LoadedInside DEF CacheInv, CachedInode, Matches
<1> QED BY <1>3, <1>4, <1>5 DEF i

\* The invariant is kept by the kernel and by the tools.
LEMMA CacheKept ==
  ASSUME KTypeOK, ImageSane, CacheInv, [KNext]_kvars
  PROVE  CacheInv'
<1> USE DEF descriptors, cached, reading
<1>1. CASE Tools
  BY <1>1 DEF Tools, CacheInv, kernel, Empty
<1>2. CASE files_system_init
  <2>1. /\ ~on /\ on' /\ pc = "idle"
        /\ UNCHANGED <<file_descriptor_tab, opened, removed, vars>>
    BY <1>2 DEF files_system_init
  <2>2. pc' = pc /\ itab' = itab BY <2>1 DEF vars, image
  <2>3. removed = {} /\ file_descriptor_tab = [fd \in Fds |-> Closed]
    BY <2>1 DEF CacheInv, Empty
  <2>4. PICK memory \in [Outside -> Foreign] : inode_table' = inode_table_init(memory)
    BY <1>2 DEF files_system_init
  <2>5. ASSUME NEW i \in Inodes
        PROVE  inode_table'[i] = CachedInode(i)'
               \/ (i \in Outside /\ inode_table'[i].name = NoName)
    <3>1. CASE i \in Outside
      <4>1. inode_table'[i] = memory[i] BY <2>4, <3>1, LoadedInside DEF inode_table_init
      <4> QED BY <3>1, <4>1, ForeignAssumption
    <3>2. CASE i \notin Outside
      BY <2>2, <2>1, <2>3, <2>4, <3>2 DEF inode_table_init, CachedInode
    <3> QED BY <3>1, <3>2
  <2> QED BY <2>1, <2>2, <2>3, <2>5 DEF CacheInv, Closed
<1>3. CASE PowerOff BY <1>3 DEF PowerOff, CacheInv, Empty
<1>4. ASSUME on, on' = on, UNCHANGED vars, inode_table' = inode_table, removed' = removed,
             \A fd \in Fds : file_descriptor_tab'[fd].status = 1 =>
               /\ file_descriptor_tab'[fd].inode < inodes_per_block
               /\ file_descriptor_tab'[fd].inode \in Matches(opened'[fd])
      PROVE  CacheInv'
  BY <1>4 DEF CacheInv, CachedInode, vars, image, Matches
<1>5. ASSUME on, on' = on, UNCHANGED <<descriptors, cached, vars>> PROVE CacheInv'
  BY <1>4, <1>5 DEF CacheInv
<1>6. CASE file_iterator \/ file_next
  <2>1. on /\ on' = on /\ UNCHANGED <<descriptors, cached, vars>>
    BY <1>6 DEF file_iterator, file_next
  <2> QED BY <1>5, <2>1
<1>7. ASSUME NEW fd \in Fds, NEW count, file_read(fd, count) PROVE CacheInv'
  <2>1. on /\ on' = on /\ UNCHANGED <<descriptors, cached, vars>> BY <1>7 DEF file_read
  <2> QED BY <1>5, <2>1
<1>8. ASSUME NEW n \in Names, file_open_fails(n) PROVE CacheInv'
  <2>1. on /\ on' = on /\ UNCHANGED <<descriptors, cached, vars>>
    BY <1>8 DEF file_open_fails
  <2> QED BY <1>5, <2>1
<1>9. CASE UNCHANGED kvars
  BY <1>9 DEF kvars, vars, kernel, image, CacheInv, CachedInode, Empty, Matches
<1>10. file_descriptor_tab \in [Fds -> [status : {0, 1}, inode : Inodes, offset : Offsets \cup {0}]]
       /\ opened \in [Fds -> Names \cup {NoName}]
  BY DEF KTypeOK
<1>11. ASSUME NEW n \in Names, file_open(n) PROVE CacheInv'
  <2> DEFINE fd == Min(Free)
             i == inode_get_from_filename(n)
  <2>1. /\ on /\ on' = on /\ UNCHANGED vars /\ inode_table' = inode_table /\ removed' = removed
        /\ Found(n) # {}
        /\ file_descriptor_tab' =
             [file_descriptor_tab EXCEPT ![fd] = [status |-> 1, inode |-> i, offset |-> 0]]
        /\ opened' = [opened EXCEPT ![fd] = n]
    BY <1>11 DEF file_open
  <2>2. i < inodes_per_block /\ i \in Matches(n) BY <2>1, FoundInode
  <2> HIDE DEF fd, i
  <2>3. ASSUME NEW d \in Fds, file_descriptor_tab'[d].status = 1
        PROVE  /\ file_descriptor_tab'[d].inode < inodes_per_block
               /\ file_descriptor_tab'[d].inode \in Matches(opened'[d])
    <3>1. CASE d = fd
      <4>1. file_descriptor_tab'[d].inode = i /\ opened'[d] = n BY <1>10, <2>1, <3>1
      <4> QED BY <2>2, <4>1
    <3>2. CASE d # fd
      <4>1. file_descriptor_tab'[d] = file_descriptor_tab[d] /\ opened'[d] = opened[d]
        BY <1>10, <2>1, <3>2
      <4> QED BY <2>1, <2>3, <4>1 DEF CacheInv
    <3> QED BY <3>1, <3>2
  <2> QED BY <1>4, <2>1, <2>3
<1>12. ASSUME NEW fd \in Fds, NEW o, file_close(fd) \/ file_seek(fd, o) PROVE CacheInv'
  <2>1. /\ on /\ on' = on /\ UNCHANGED <<vars, opened, cached>>
        /\ \/ file_descriptor_tab' = [file_descriptor_tab EXCEPT ![fd].status = 0]
           \/ file_descriptor_tab' = [file_descriptor_tab EXCEPT ![fd].offset = o]
    BY <1>12 DEF file_close, file_seek
  <2>2. \A d \in Fds : /\ file_descriptor_tab'[d].inode = file_descriptor_tab[d].inode
                        /\ file_descriptor_tab'[d].status \in {0, file_descriptor_tab[d].status}
    BY <1>10, <2>1
  <2>3. \A d \in Fds : file_descriptor_tab'[d].status = 1 =>
          /\ file_descriptor_tab'[d].inode < inodes_per_block
          /\ file_descriptor_tab'[d].inode \in Matches(opened'[d])
    BY <2>1, <2>2 DEF CacheInv
  <2> QED BY <1>4, <2>1, <2>3
<1>13. ASSUME NEW n \in Names, file_remove(n) PROVE CacheInv'
  <2> DEFINE i == inode_get_from_filename(n)
  <2>1. /\ on /\ on' = on /\ UNCHANGED <<descriptors, vars>> /\ Found(n) # {}
        /\ inode_table' = [inode_table EXCEPT ![inode_table[i].number] = ClearInode]
        /\ removed' = removed \cup {n}
    BY <1>13 DEF file_remove
  <2>2. i \in Inodes /\ i \in Matches(n) /\ inode_table[i] = itab[i] BY <2>1, FoundInode
  <2> HIDE DEF i
  <2>3. itab[i].number = i /\ \A a \in Inodes : a \in Matches(n) => a = i BY <2>2, OneInode
  <2>4. inode_table' = [inode_table EXCEPT ![i] = ClearInode] BY <2>1, <2>2, <2>3
  <2>5. ASSUME NEW a \in Inodes
        PROVE  inode_table'[a] = CachedInode(a)'
               \/ (a \in Outside /\ inode_table'[a].name = NoName)
    <3>1. CASE a = i
      <4>1. inode_table'[a] = ClearInode BY <2>4, <3>1 DEF KTypeOK
      <4>2. itab'[a].name = n BY <2>1, <2>2, <3>1 DEF Matches, vars, image
      <4> QED BY <2>1, <4>1, <4>2 DEF CachedInode
    <3>2. CASE a # i
      <4>1. inode_table'[a] = inode_table[a] BY <2>4, <3>2 DEF KTypeOK
      <4>2. itab[a].name = n => itab[a] = ClearInode
        <5>1. a \notin Matches(n) BY <2>3, <3>2
        <5>2. itab[a].number \in {0, a} BY DEF ImageSane, InodesSane
        <5>3. itab[a].name = n => itab[a].number = 0 BY <5>1, <5>2, Zeros DEF Matches
        <5> QED BY <5>3 DEF ImageSane
      <4>3. CachedInode(a)' = CachedInode(a)
        BY <2>1, <4>2 DEF CachedInode, vars, image
      <4> QED BY <2>1, <4>1, <4>3 DEF CacheInv
    <3> QED BY <3>1, <3>2
  <2>6. pc' = pc /\ itab' = itab BY <2>1 DEF vars, image
  <2> QED BY <2>1, <2>5, <2>6 DEF CacheInv, Matches
<1>14. CASE ForeignChanges
  <2>1. on /\ on' = on /\ UNCHANGED <<descriptors, removed, vars>>
    BY <1>14 DEF ForeignChanges
  <2>2. PICK i \in Outside, node0 \in Foreign :
          inode_table' = [inode_table EXCEPT ![i] = node0]
    BY <1>14 DEF ForeignChanges
  <2>3. \A a \in Inodes : inode_table'[a] = inode_table[a]
                          \/ (a \in Outside /\ inode_table'[a].name = NoName)
    BY <2>2, ForeignAssumption DEF KTypeOK
  <2>4. pc' = pc /\ itab' = itab BY <2>1 DEF vars, image
  <2>5. \A a \in Inodes : CachedInode(a)' = CachedInode(a)
    BY <2>1, <2>4 DEF CachedInode
  <2> QED BY <2>1, <2>3, <2>4, <2>5 DEF CacheInv, Matches
<1> QED BY <1>1, <1>2, <1>3, <1>6, <1>7, <1>8, <1>9, <1>11, <1>12, <1>13, <1>14
        DEF KNext, MachineNext

\* A read fills a buffer of blocks.
LEMMA BufferOfBlocks ==
  ASSUME ImageSane, NEW node0, NEW count \in Nat, NEW extra \in ExtraSectors(node0, count)
  PROVE  /\ Stored(node0, count) \in Seq(Block) /\ Len(Stored(node0, count)) = count + 1
         /\ Append(Stored(node0, count), extra) \in Seq(Block)
<1>1. \A b : Sector(b) \in Block BY Zeros DEF Sector, ImageSane
<1>2. extra \in Block BY <1>1 DEF ExtraSectors
<1>3. Stored(node0, count) \in [1 .. count + 1 -> Block] BY <1>1, Zeros DEF Stored
<1> DEFINE s == Stored(node0, count)
<1>4. count + 1 \in Nat /\ s \in [1 .. count + 1 -> Block] BY <1>3
<1> HIDE DEF s
<1>5. s \in Seq(Block) /\ Len(s) = count + 1 BY <1>4
<1>6. Append(s, extra) \in Seq(Block) BY <1>2, <1>5
<1> QED BY <1>5, <1>6 DEF s

\* The machine before it boots.
LEMMA EmptyTypes == Empty /\ commands \in 0 .. MaxCommands => KTypeOK
<1>1. Closed \in [status : {0, 1}, inode : Inodes, offset : Offsets \cup {0}]
      /\ NotAsked \in [name : Names \cup {NoName}, count : Nat]
  BY Zeros DEF Closed, NotAsked
<1>2. << >> \in Seq(Block) OBVIOUS
<1>3. ASSUME Empty, commands \in 0 .. MaxCommands PROVE KTypeOK
  <2>1. inode_table \in [Inodes -> Inode] BY <1>3, Zeros DEF Empty
  <2>2. file_descriptor_tab \in
          [Fds -> [status : {0, 1}, inode : Inodes, offset : Offsets \cup {0}]]
    BY <1>1, <1>3 DEF Empty
  <2> QED BY <1>1, <1>2, <1>3, <2>1, <2>2, Zeros DEF Empty, KTypeOK
<1> QED BY <1>3

LEMMA EmptyTypesNext == (Empty /\ commands \in 0 .. MaxCommands => KTypeOK)'
BY EmptyTypes, PTL

LEMMA KTypeKept ==
  ASSUME KTypeOK, ImageSane, CacheInv, [KNext]_kvars
  PROVE  KTypeOK'
<1> USE DEF descriptors, cached, reading
<1>0. NotRead => /\ buf' \in Seq(Block)
                /\ asked' \in [name : Names \cup {NoName}, count : Nat]
  BY Zeros DEF NotRead, NotAsked
<1>1. ASSUME UNCHANGED <<kernel, commands>> PROVE KTypeOK' BY <1>1 DEF kernel, KTypeOK
<1>2. CASE files_system_init /\ UNCHANGED commands
  <2>1. /\ on' = TRUE /\ inode_bitmap' = ibm /\ NotRead
        /\ UNCHANGED <<descriptors, it, removed, commands>>
    BY <1>2 DEF files_system_init
  <2>2. PICK memory \in [Outside -> Foreign] : inode_table' = inode_table_init(memory)
    BY <1>2 DEF files_system_init
  <2>3. inode_table' \in [Inodes -> Inode]
    BY <2>2, Zeros, ForeignAssumption DEF inode_table_init, ImageSane
  <2> QED BY <2>1, <2>3, <1>0 DEF KTypeOK, ImageSane
<1>3. CASE PowerOff /\ UNCHANGED commands
  <2>1. Empty' /\ commands' = commands BY <1>3 DEF PowerOff, Empty
  <2> QED BY <2>1, EmptyTypesNext DEF KTypeOK
<1>4. CASE file_iterator /\ UNCHANGED commands
  BY <1>0, <1>4, Zeros DEF file_iterator, KTypeOK
<1>5. CASE file_next /\ UNCHANGED commands
  <2> DEFINE next == NextLive(inode_table[it].number)
  <2>1. /\ on /\ next # {} /\ it' = Min(next) /\ NotRead
        /\ UNCHANGED <<on, descriptors, cached, commands>>
    BY <1>5 DEF file_next, file_has_next
  <2>2. next \in SUBSET Nat BY Zeros DEF NextLive
  <2>3. it' \in next BY <2>1, <2>2, MinIsLeast
  <2>4. it' \in Inodes BY <2>3 DEF NextLive
  <2> HIDE DEF next
  <2> QED BY <1>0, <2>1, <2>4 DEF KTypeOK
<1>6. ASSUME NEW n \in Names, file_open(n), UNCHANGED commands PROVE KTypeOK'
  <2>1. inode_get_from_filename(n) \in Inodes BY <1>6, FoundInode DEF file_open
  <2> DEFINE open == [status |-> 1, inode |-> inode_get_from_filename(n), offset |-> 0]
  <2>2. open \in [status : {0, 1}, inode : Inodes, offset : Offsets \cup {0}] BY <2>1
  <2>3. /\ file_descriptor_tab' = [file_descriptor_tab EXCEPT ![Min(Free)] = open]
        /\ opened' = [opened EXCEPT ![Min(Free)] = n]
        /\ NotRead /\ UNCHANGED <<on, cached, it, commands>>
    BY <1>6 DEF file_open
  <2> HIDE DEF open
  <2> QED BY <1>0, <2>2, <2>3 DEF KTypeOK
<1>7. ASSUME NEW n \in Names, file_remove(n), UNCHANGED commands PROVE KTypeOK'
  BY <1>0, <1>7, Zeros DEF file_remove, KTypeOK
<1>8. ASSUME NEW fd \in Fds, NEW o \in Offsets, file_seek(fd, o), UNCHANGED commands
      PROVE  KTypeOK'
  BY <1>0, <1>8 DEF file_seek, KTypeOK
<1>9. ASSUME NEW fd \in Fds, NEW count \in Counts(fd), file_read(fd, count),
             UNCHANGED commands
      PROVE  KTypeOK'
  <2>1. count \in Nat BY <1>9 DEF Counts
  <2>2. buf' \in Seq(Block) BY <1>9, <2>1, BufferOfBlocks DEF file_read
  <2>3. /\ asked' = [name |-> opened[fd], count |-> count]
        /\ UNCHANGED <<on, descriptors, cached, it, commands>>
    BY <1>9 DEF file_read
  <2> QED BY <2>1, <2>2, <2>3 DEF KTypeOK
<1>10. ASSUME NEW n \in Names, file_open_fails(n), UNCHANGED commands PROVE KTypeOK'
  BY <1>0, <1>10 DEF file_open_fails, KTypeOK
<1>11. ASSUME NEW fd \in Fds, file_close(fd), UNCHANGED commands PROVE KTypeOK'
  BY <1>0, <1>11 DEF file_close, KTypeOK
<1>12. CASE Tools
  <2>1. UNCHANGED kernel /\ commands' \in 0 .. MaxCommands
    <3>1. UNCHANGED kernel BY <1>12 DEF Tools
    <3>2. commands \in 0 .. MaxCommands /\ MaxCommands \in Nat
      BY KernelAssumption DEF KTypeOK
    <3>3. commands' = commands + 0 \/ (commands < MaxCommands /\ commands' = commands + 1)
      BY <1>12 DEF Tools
    <3> QED BY <3>1, <3>2, <3>3
  <2> QED BY <2>1 DEF kernel, KTypeOK
<1>13. CASE ForeignChanges /\ UNCHANGED commands
  <2>1. PICK i \in Outside, node0 \in Foreign :
          inode_table' = [inode_table EXCEPT ![i] = node0]
    BY <1>13 DEF ForeignChanges
  <2>2. inode_table' \in [Inodes -> Inode]
    BY <2>1, ForeignAssumption DEF KTypeOK
  <2> QED BY <1>0, <1>13, <2>2 DEF ForeignChanges, KTypeOK
<1>14. CASE UNCHANGED kvars BY <1>1, <1>14 DEF kvars
<1> QED BY <1>2, <1>3, <1>4, <1>5, <1>6, <1>7, <1>8, <1>9, <1>10, <1>11, <1>12, <1>13, <1>14
        DEF KNext, MachineNext

\* The invariants of the kernel.
LEMMA KernelInvariant == KSpec => [](KTypeOK /\ CacheInv)
<1>1. KInit => KTypeOK /\ CacheInv
  <2> SUFFICES ASSUME KInit PROVE KTypeOK /\ CacheInv OBVIOUS
  <2>1. Empty /\ ~on /\ commands \in 0 .. MaxCommands BY KernelAssumption DEF KInit, Empty
  <2> QED BY <2>1, EmptyTypes DEF CacheInv
<1>2. ImageSane /\ KTypeOK /\ CacheInv /\ [KNext]_kvars => KTypeOK' /\ CacheInv'
  BY KTypeKept, CacheKept
<1> QED BY <1>1, <1>2, ImageSaneAlways, PTL DEF KSpec

\* The kernel's copies, its descriptors and the iterator keep their types, on
\* every image the tools can leave behind.
THEOREM KTypeCorrect == KSpec => []KTypeOK
BY KernelInvariant, PTL

\* What the kernel finds by name is a file of the image, with its size, not
\* removed since it booted; it finds those that lie in the loaded sector.
THEOREM KernelSees == KSpec => []SeesFiles
<1>1. ImageSane /\ CacheInv => SeesFiles
  <2> SUFFICES ASSUME ImageSane, CacheInv, on, NEW n \in Names
               PROVE  /\ Found(n) # {} => /\ file_exists(n) /\ n \notin removed
                                          /\ file_stat(n) = Len(fs_read(n))
                      /\ InFirstSector(n) /\ n \notin removed => Found(n) # {}
    BY DEF SeesFiles
  <2>1. ASSUME Found(n) # {}
        PROVE  file_exists(n) /\ n \notin removed /\ file_stat(n) = Len(fs_read(n))
    <3> DEFINE i == inode_get_from_filename(n)
    <3>1. i \in Inodes /\ i < inodes_per_block /\ i \in Matches(n) /\ n \notin removed
          /\ inode_table[i] = itab[i]
      BY <2>1, FoundInode
    <3>2. file_stat(n) = inode_table[i].size BY DEF file_stat
    <3> HIDE DEF i
    <3>3. fs_get_file_inode(n) = i BY <3>1, OneInode
    <3>4. itab[i].size \in Nat BY <3>1 DEF ImageSane, Inode
    <3>5. Len(fs_read(n)) = itab[i].size BY <3>3, <3>4 DEF fs_read
    <3> QED BY <3>1, <3>2, <3>3, <3>5 DEF file_exists
  <2>2. ASSUME InFirstSector(n), n \notin removed PROVE Found(n) # {}
    <3>1. PICK i \in Inodes : i \in Matches(n) BY <2>2 DEF InFirstSector, file_exists, Matches
    <3>2. i < inodes_per_block BY <2>2, <3>1, OneInode DEF InFirstSector
    <3>3. i \in Found(n) BY <2>2, <3>1, <3>2, FoundIs
    <3> QED BY <3>3
  <2> QED BY <2>1, <2>2
<1> QED BY <1>1, KernelInvariant, ImageSaneAlways, PTL

\* An open descriptor has the inode of its file, or a cleared one after the
\* file was removed: it never comes to name another file.
THEOREM DescriptorsStay == KSpec => []OpenFilesStay
<1>1. KTypeOK /\ ImageSane /\ CacheInv => OpenFilesStay
  <2> SUFFICES ASSUME KTypeOK, ImageSane, CacheInv,
                      NEW fd \in Fds, file_descriptor_tab[fd].status = 1,
                      NEW i, i = file_descriptor_tab[fd].inode
               PROVE  IF opened[fd] \in removed
                      THEN inode_table[i] = ClearInode
                      ELSE inode_table[i].number = i /\ inode_table[i].name = opened[fd]
    BY DEF OpenFilesStay
  <2>1. on
    <3>1. ~on => file_descriptor_tab[fd].status = 0 BY DEF CacheInv, Empty, Closed
    <3> QED BY <3>1
  <2>2. i < inodes_per_block /\ i \in Matches(opened[fd]) BY <2>1 DEF CacheInv
  <2>3. i \in Inodes /\ itab[i].name = opened[fd] BY <2>2 DEF Matches
  <2>4. itab[i].number = i BY <2>2, <2>3, OneInode
  <2>5. inode_table[i] = IF opened[fd] \notin removed THEN itab[i] ELSE ClearInode
    BY <2>1, <2>2, <2>3, LoadedInside DEF CacheInv, CachedInode
  <2> QED BY <2>3, <2>4, <2>5
<1> QED BY <1>1, KernelInvariant, ImageSaneAlways, PTL

-----------------------------------------------------------------------------
(* What file_read returns. *)

\* The start of a buffer.
LEMMA BufferStart ==
  ASSUME NEW count \in Nat, NEW s \in Seq(Block), Len(s) = count + 1, NEW extra \in Block,
         NEW L \in Nat, L <= count + 1
  PROVE  SubSeq(Append(s, extra), 1, L) = [b \in 1 .. L |-> s[b]]
<1>1. Append(s, extra) \in Seq(Block) /\ Len(Append(s, extra)) = count + 2 OBVIOUS
<1>2. \A b \in 1 .. L : Append(s, extra)[b] = s[b] OBVIOUS
<1> DEFINE t == Append(s, extra)
<1> HIDE DEF t
<1>3. SubSeq(t, 1, L) = [b \in 1 .. L |-> t[b]] BY <1>1 DEF t
<1> QED BY <1>2, <1>3 DEF t

\* The direct blocks of a file are read where fs_cat reads them.
LEMMA ReadIsRight ==
  ASSUME KTypeOK, ImageSane, CacheInv, NEW fd \in Fds, NEW count \in Counts(fd),
         file_read(fd, count), opened[fd] \notin removed,
         Len(fs_read(opened[fd])) <= INODE_DIRECT_PTR_CNT
  PROVE  SubSeq(buf', 1, Len(fs_read(opened[fd]))) = fs_read(opened[fd])
<1> DEFINE i == file_descriptor_tab[fd].inode
           n == opened[fd]
<1>1. on /\ i < inodes_per_block /\ i \in Matches(n) BY DEF file_read, CacheInv
<1>2. i \in Inodes /\ itab[i].name = n BY <1>1 DEF Matches
<1>3. fs_get_file_inode(n) = i BY <1>1, <1>2, OneInode
<1>4. inode_table[i] = itab[i] BY <1>1, <1>2, LoadedInside DEF CacheInv, CachedInode
<1>5. itab[i] \in Inode /\ itab[i].size \in Nat BY <1>2 DEF ImageSane, Inode
<1>6. PICK extra \in ExtraSectors(itab[i], count) : buf' = Append(Stored(itab[i], count), extra)
  BY <1>4 DEF file_read
<1>7. count \in {itab[i].size, itab[i].size - 1} /\ count \in Nat BY <1>4 DEF Counts
<1> HIDE DEF i, n
<1> DEFINE L == itab[i].size
           s == Stored(itab[i], count)
<1>8. Len(fs_read(n)) = L /\ L <= INODE_DIRECT_PTR_CNT
  <2>1. Len(fs_read(n)) = L BY <1>3, <1>5 DEF fs_read
  <2> QED BY <2>1 DEF n
<1>9. L \in Nat /\ L <= count + 1 BY <1>5, <1>7
<1>10. s \in Seq(Block) /\ Len(s) = count + 1 /\ extra \in Block
  <2>1. \A b : Sector(b) \in Block BY Zeros DEF Sector, ImageSane
  <2> QED BY <1>6, <1>7, <2>1, BufferOfBlocks DEF ExtraSectors
<1>11. SubSeq(buf', 1, L) = [b \in 1 .. L |-> s[b]]
  <2> HIDE DEF L, s
  <2>1. buf' = Append(s, extra) BY <1>6 DEF s
  <2> QED BY <1>7, <1>9, <1>10, <2>1, BufferStart
<1>12. ASSUME NEW b \in 1 .. L PROVE s[b] = data[fs_offset_to_block(i, b - 1)]
  <2>1. b \in 1 .. count + 1 /\ b - 1 < INODE_DIRECT_PTR_CNT /\ b - 1 \in DirectIdx
    BY <1>7, <1>8, <1>9, CountsAssumption DEF DirectIdx
  <2>2. s[b] = Sector(itab[i].direct_ptr[b - 1]) BY <2>1 DEF Stored, block_of
  <2>3. itab[i].direct_ptr[b - 1] \in DataBlocks
    BY <1>2, <2>1 DEF ImageSane, ImageInv, DirectInside
  <2>4. fs_offset_to_block(i, b - 1) = itab[i].direct_ptr[b - 1] BY <2>1 DEF fs_offset_to_block
  <2> QED BY <2>2, <2>3, <2>4 DEF Sector
<1>13. fs_read(n) = [b \in 1 .. L |-> data[fs_offset_to_block(i, b - 1)]] BY <1>3 DEF fs_read
<1>14. SubSeq(buf', 1, L) = fs_read(n)
  <2> HIDE DEF L, s
  <2> QED BY <1>11, <1>12, <1>13
<1> QED BY <1>8, <1>14 DEF n

LEMMA ReadsKept ==
  ASSUME KTypeOK, ImageSane, CacheInv, CacheInv', ReadsBack, [KNext]_kvars
  PROVE  ReadsBack'
<1> USE DEF descriptors, cached, reading
<1>1. ASSUME asked'.name = NoName PROVE ReadsBack' BY <1>1 DEF ReadsBack
<1>2. ASSUME UNCHANGED vars PROVE \A n : Contents(n)' = Contents(n)
  <2>1. itab' = itab /\ data' = data BY <1>2 DEF vars, image
  <2> QED BY <2>1 DEF Contents, fs_read, fs_get_file_inode, Matches, fs_offset_to_block, IndirectPtr
<1>3. ASSUME NotRead \/ ~on' PROVE ReadsBack'
  BY <1>1, <1>3 DEF NotRead, NotAsked, CacheInv, Empty
<1>4. CASE Tools BY <1>3, <1>4 DEF Tools, kernel
<1>5. CASE files_system_init \/ ForeignChanges \/ PowerOff \/ file_iterator \/ file_next
  BY <1>3, <1>5 DEF files_system_init, ForeignChanges, PowerOff, file_iterator, file_next
<1>6. ASSUME NEW n \in Names, file_open(n) \/ file_open_fails(n) \/ file_remove(n)
      PROVE  ReadsBack'
  BY <1>3, <1>6 DEF file_open, file_open_fails, file_remove
<1>7. ASSUME NEW fd \in Fds, NEW o, file_close(fd) \/ file_seek(fd, o) PROVE ReadsBack'
  BY <1>3, <1>7 DEF file_close, file_seek
<1>8. ASSUME NEW fd \in Fds, NEW count \in Counts(fd), file_read(fd, count) PROVE ReadsBack'
  <2>1. asked'.name = opened[fd] /\ removed' = removed /\ UNCHANGED vars BY <1>8 DEF file_read
  <2>2. \A n : Contents(n)' = fs_read(n) BY <1>2, <2>1 DEF Contents
  <2> QED BY <1>8, <2>1, <2>2, ReadIsRight DEF ReadsBack
<1>9. CASE UNCHANGED kvars
  <2>1. UNCHANGED <<vars, buf, asked, removed>> BY <1>9 DEF kvars, kernel
  <2> QED BY <1>2, <2>1 DEF ReadsBack
<1> QED BY <1>4, <1>5, <1>6, <1>7, <1>8, <1>9 DEF KNext, MachineNext

\* What file_read puts into its buffer starts with the file that fs_cat shows,
\* for every file that fits the direct blocks and was not removed.
THEOREM KernelReadsBack == KSpec => []ReadsBack
<1>1. KInit => ReadsBack BY DEF KInit, Empty, NotAsked, ReadsBack
<1>2. ImageSane /\ KTypeOK /\ CacheInv /\ CacheInv' /\ ReadsBack /\ [KNext]_kvars
        => ReadsBack'
  BY ReadsKept
<1> QED BY <1>1, <1>2, KernelInvariant, ImageSaneAlways, PTL DEF KSpec
=============================================================================
