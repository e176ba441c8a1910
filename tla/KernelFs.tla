------------------------------ MODULE KernelFs ------------------------------
(***************************************************************************)
(* The kernel's file system, kernel/fs/fs.c, on the images the host tools  *)
(* make.  The machine and the tools take turns: the tools change the image *)
(* while the machine is off, the kernel loads it when it boots.            *)
(*                                                                         *)
(* The kernel caches the superblock and one sector each of the inode       *)
(* bitmap and of the inode table, and never writes to the disk.  It takes  *)
(* the table to be as long as that of the image, wherever the memory it    *)
(* read the sector to ends.  It uses block numbers as sector numbers: this *)
(* module is about images whose blocks are a sector long, as those of      *)
(* RathalFS.img are; the tools make images with larger blocks, too.        *)
(***************************************************************************)
EXTENDS BfsTools

CONSTANTS FILE_DESCRIPTOR_TAB_SIZE,
          buffer_inodes, \* inodes from the start of the table to the end of
                         \* global_buffer (124)
          Foreign,       \* what the memory behind it looks like, read as inodes
          Offsets,       \* bound: arguments of file_seek
          MaxCommands    \* bound: commands of the tools in a behaviour

ASSUME KernelAssumption ==
  /\ INODE_DIRECT_PTR_CNT > 0
  /\ FILE_DESCRIPTOR_TAB_SIZE \in Nat /\ Offsets \subseteq Nat /\ MaxCommands \in Nat
  /\ buffer_inodes \in Nat /\ inodes_per_block <= buffer_inodes

\* Nothing in the code keeps foreign memory from looking like a file that is
\* asked for; that it does not is taken for granted here.
ASSUME ForeignAssumption == Foreign \subseteq {node0 \in Inode : node0.name = NoName}

VARIABLES
  on,                    \* the machine runs
  commands,              \* commands that were started on the host
  inode_bitmap,          \* the kernel's copies
  inode_table,
  file_descriptor_tab,
  it,                    \* the iterator of a listing
  buf,                   \* what a file_read has just stored in its buffer
  opened,                \* history: the file each descriptor was opened for
  removed,               \* history: files removed since the machine booted
  asked                  \* history: file and count of that file_read

descriptors == <<file_descriptor_tab, opened>>
cached == <<inode_bitmap, inode_table, removed>>
reading == <<buf, asked>>
kernel == <<on, descriptors, cached, it, reading>>
kvars == <<vars, kernel, commands>>

Fds == 0 .. FILE_DESCRIPTOR_TAB_SIZE - 1
Closed == [status |-> 0, inode |-> 0, offset |-> 0]
NotAsked == [name |-> NoName, count |-> 0]

\* The memory of the machine: .bss until files_system_init has run.
Empty ==
  /\ on = FALSE
  /\ inode_bitmap = {}
  /\ inode_table = [i \in Inodes |-> ClearInode]
  /\ file_descriptor_tab = [fd \in Fds |-> Closed]
  /\ it = 0 /\ buf = << >>
  /\ opened = [fd \in Fds |-> NoName] /\ removed = {} /\ asked = NotAsked

KInit == Init /\ Empty /\ commands = 0

-----------------------------------------------------------------------------
\* The inodes of the kernel's table that are not in global_buffer.
Outside == {i \in Inodes : i >= buffer_inodes}

\* inode_table_init reads one sector; the rest of the buffer stays 0, and
\* behind it the table goes on in foreign memory.
inode_table_init(memory) ==
  [i \in Inodes |-> IF i < inodes_per_block THEN itab[i]
                    ELSE IF i \in Outside THEN memory[i] ELSE ClearInode]

\* The buffer of file_read is its caller's: it is looked at when the call
\* returns, before any other.
NotRead == buf' = << >> /\ asked' = NotAsked

files_system_init ==
  /\ ~on /\ pc = "idle"
  /\ on' = TRUE
  /\ inode_bitmap' = ibm
  /\ \E memory \in [Outside -> Foreign] : inode_table' = inode_table_init(memory)
  /\ NotRead
  /\ UNCHANGED <<descriptors, it, removed, vars>>

\* The rest of the kernel changes its variables.
ForeignChanges ==
  /\ on
  /\ \E i \in Outside, node0 \in Foreign : inode_table' = [inode_table EXCEPT ![i] = node0]
  /\ NotRead
  /\ UNCHANGED <<on, descriptors, inode_bitmap, removed, it, vars>>

PowerOff ==
  /\ on
  /\ on' = FALSE
  /\ inode_bitmap' = {}
  /\ inode_table' = [i \in Inodes |-> ClearInode]
  /\ file_descriptor_tab' = [fd \in Fds |-> Closed]
  /\ it' = 0 /\ buf' = << >>
  /\ opened' = [fd \in Fds |-> NoName] /\ removed' = {} /\ asked' = NotAsked
  /\ UNCHANGED vars

-----------------------------------------------------------------------------
\* inode_get_from_filename on the cached table.
Found(n) == {i \in Inodes : inode_table[i].number > 0 /\ inode_table[i].name = n}
inode_get_from_filename(n) == Min(Found(n))
Free == {fd \in Fds : file_descriptor_tab[fd].status = 0}

\* A slip: the slot before the inode is cleared.
file_remove_previous(n) ==
  /\ on /\ Found(n) # {}
  /\ LET number == inode_table[inode_get_from_filename(n)].number
     IN  /\ inode_bitmap' = inode_bitmap \ {number}
         /\ inode_table' = [inode_table EXCEPT ![number - 1] = ClearInode]
  /\ removed' = removed \cup {n}
  /\ NotRead
  /\ UNCHANGED <<on, descriptors, it, vars>>

\* A slip: the inode is freed and its slot forgotten.
file_remove_freed(n) ==
  /\ on /\ Found(n) # {}
  /\ inode_bitmap' = inode_bitmap \ {inode_table[inode_get_from_filename(n)].number}
  /\ removed' = removed \cup {n}
  /\ NotRead
  /\ UNCHANGED <<on, inode_table, descriptors, it, vars>>

\* The inode is found by name and cleared by number.  Open descriptors and
\* the disk are left alone.
file_remove(n) ==
  /\ on /\ Found(n) # {}
  /\ LET number == inode_table[inode_get_from_filename(n)].number
     IN  /\ inode_bitmap' = inode_bitmap \ {number}
         /\ inode_table' = [inode_table EXCEPT ![number] = ClearInode]
  /\ removed' = removed \cup {n}
  /\ NotRead
  /\ UNCHANGED <<on, descriptors, it, vars>>

file_open(n) ==
  /\ on /\ Found(n) # {} /\ Free # {}
  /\ LET fd == Min(Free)
     IN  /\ file_descriptor_tab' = [file_descriptor_tab EXCEPT ![fd] =
              [status |-> 1, inode |-> inode_get_from_filename(n), offset |-> 0]]
         /\ opened' = [opened EXCEPT ![fd] = n]
  /\ NotRead
  /\ UNCHANGED <<on, cached, it, vars>>

\* No such file, or no free descriptor: -1.
file_open_fails(n) ==
  /\ on /\ (Found(n) = {} \/ Free = {})
  /\ NotRead
  /\ UNCHANGED <<on, descriptors, cached, it, vars>>

\* A slip: the status counts down.
file_close_counting(fd) ==
  /\ on
  /\ file_descriptor_tab' = [file_descriptor_tab EXCEPT ![fd].status = @ - 1]
  /\ NotRead
  /\ UNCHANGED <<on, opened, cached, it, vars>>

file_close(fd) ==
  /\ on
  /\ file_descriptor_tab' = [file_descriptor_tab EXCEPT ![fd].status = 0]
  /\ NotRead
  /\ UNCHANGED <<on, opened, cached, it, vars>>

\* The offset is stored; no reader uses it.
file_seek(fd, offset) ==
  /\ on /\ file_descriptor_tab[fd].status = 1
  /\ file_descriptor_tab' = [file_descriptor_tab EXCEPT ![fd].offset = offset]
  /\ NotRead
  /\ UNCHANGED <<on, opened, cached, it, vars>>

-----------------------------------------------------------------------------
\* A data block past the end of the disk comes back as an empty one.
Sector(b) == IF b \in DataBlocks THEN data[b] ELSE EmptyBlock

\* The data block file_read takes for block b of a file: behind the direct
\* blocks it does not follow the pointers of the indirect block, it reads the
\* block itself plus twice the index plus one.
Behind(b) == 2 * ((b - INODE_DIRECT_PTR_CNT) % pointers_per_block)
Covered(b) == b \in INODE_DIRECT_PTR_CNT .. INODE_INDIRECT_PTR_CNT * pointers_per_block - 1

IndirectBlockOf(node0, b) ==
  node0.indirect_ptr[(b - INODE_DIRECT_PTR_CNT) \div pointers_per_block]

\* A slip: the direct pointers are numbered from 1.
block_of_late(node0, b) ==
  IF b < INODE_DIRECT_PTR_CNT
  THEN node0.direct_ptr[(b + 1) % INODE_DIRECT_PTR_CNT]
  ELSE IndirectBlockOf(node0, b) + Behind(b) + 1

block_of(node0, b) ==
  IF b < INODE_DIRECT_PTR_CNT
  THEN node0.direct_ptr[b]
  ELSE IndirectBlockOf(node0, b) + Behind(b) + 1

\* The sectors the loop stores, from block 0 on, whatever the offset of the
\* descriptor; a block it does not cover leaves the buffer as it is.
Stored(node0, count) ==
  [b \in 1 .. count + 1 |->
     IF b - 1 < INODE_DIRECT_PTR_CNT \/ Covered(b - 1)
     THEN Sector(block_of(node0, b - 1)) ELSE EmptyBlock]

\* One more sector follows: the last direct block plus an index that is not
\* initialised unless the loop went behind the direct blocks.
ExtraSectors(node0, count) ==
  LET last == node0.direct_ptr[Min({count, INODE_DIRECT_PTR_CNT - 1})]
      behind == {b \in 0 .. count : Covered(b)}
  IN  IF behind = {} THEN {Sector(b) : b \in DataBlocks}
      ELSE {Sector(last + Behind(Max(behind)))}

\* count is the number of whole sectors asked for: a file of s blocks has s,
\* or s - 1 when its last block is not full.
file_read(fd, count) ==
  /\ on /\ file_descriptor_tab[fd].status = 1
  /\ LET node0 == inode_table[file_descriptor_tab[fd].inode]
     IN  \E extra \in ExtraSectors(node0, count) :
           buf' = Append(Stored(node0, count), extra)
  /\ asked' = [name |-> opened[fd], count |-> count]
  /\ UNCHANGED <<on, descriptors, cached, it, vars>>

\* exec() asks for the size of the file.
Counts(fd) ==
  LET size == inode_table[file_descriptor_tab[fd].inode].size
  IN  {size, size - 1} \cap Nat

-----------------------------------------------------------------------------
\* inode_get_next looks from the given index on, that index included: once it
\* has come to a file, file_next stays there.
NextLive(index) == {i \in Inodes : i >= index /\ inode_table[i].number > 0}
file_has_next == NextLive(inode_table[it].number) # {}

file_iterator ==
  /\ on
  /\ it' = 0
  /\ NotRead
  /\ UNCHANGED <<on, descriptors, cached, vars>>

file_next ==
  /\ on /\ file_has_next
  /\ it' = Min(NextLive(inode_table[it].number))
  /\ NotRead
  /\ UNCHANGED <<on, descriptors, cached, vars>>

file_stat(n) == inode_table[inode_get_from_filename(n)].size

-----------------------------------------------------------------------------
Tools ==
  /\ ~on /\ (pc = "idle" => commands < MaxCommands)
  /\ Next
  /\ commands' = commands + (IF pc = "idle" /\ pc' # "idle" THEN 1 ELSE 0)
  /\ UNCHANGED kernel

MachineNext ==
  \/ files_system_init \/ ForeignChanges \/ PowerOff
  \/ \E n \in Names : file_open(n) \/ file_open_fails(n) \/ file_remove(n)
  \/ \E fd \in Fds :
       \/ file_close(fd)
       \/ \E o \in Offsets : file_seek(fd, o)
       \/ \E count \in Counts(fd) : file_read(fd, count)
  \/ file_iterator \/ file_next

KNext == Tools \/ (MachineNext /\ UNCHANGED commands)

KSpec == KInit /\ [][KNext]_kvars

-----------------------------------------------------------------------------
(* Properties *)

\* The kernel's copies keep their types.
KTypeOK ==
  /\ on \in BOOLEAN /\ commands \in 0 .. MaxCommands /\ inode_bitmap \in SUBSET Inodes
  /\ inode_table \in [Inodes -> Inode]
  /\ file_descriptor_tab \in
       [Fds -> [status : {0, 1}, inode : Inodes, offset : Offsets \cup {0}]]
  /\ it \in Inodes
  /\ buf \in Seq(Block)
  /\ opened \in [Fds -> Names \cup {NoName}] /\ removed \in SUBSET Names
  /\ asked \in [name : Names \cup {NoName}, count : Nat]

\* What the kernel finds under a name is a file of the image, with its size,
\* that was not removed since the machine booted; and it finds those whose
\* inodes lie in the sector it has read.
InFirstSector(n) == file_exists(n) /\ fs_get_file_inode(n) < inodes_per_block

SeesFiles ==
  on => \A n \in Names :
    /\ Found(n) # {} => /\ file_exists(n) /\ n \notin removed
                        /\ file_stat(n) = Len(fs_read(n))
    /\ InFirstSector(n) /\ n \notin removed => Found(n) # {}

\* file_read returns what fs_add stored, whatever happened to the image and
\* to the descriptors, for a file that fits the direct blocks.
Contents(n) == fs_read(n)

ReadsBack ==
  LET n == asked.name
  IN  n # NoName /\ n \notin removed /\ Len(Contents(n)) <= INODE_DIRECT_PTR_CNT =>
        SubSeq(buf, 1, Len(Contents(n))) = Contents(n)

\* A descriptor stays with the file it was opened for, and with a cleared
\* inode once that is removed: it never comes to name another file.
OpenFilesStay ==
  \A fd \in Fds : file_descriptor_tab[fd].status = 1 =>
    LET i == file_descriptor_tab[fd].inode
    IN  IF opened[fd] \in removed
        THEN inode_table[i] = ClearInode
        ELSE inode_table[i].number = i /\ inode_table[i].name = opened[fd]

\* user/shell_bak.c:11: "In order to validate the file_read function, it is
\* strongly advised to try various sizes here (> than block sizes as well)":
\* the whole file is read back, whatever its size.
ReadsWholeFile ==
  LET n == asked.name
  IN  n # NoName /\ n \notin removed =>
        SubSeq(buf, 1, Len(Contents(n))) = Contents(n)
=============================================================================
