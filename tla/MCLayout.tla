------------------------------ MODULE MCLayout ------------------------------
(***************************************************************************)
(* Images for TLC: bytes of three bits, blocks of one, three or four       *)
(* bytes, file names of two characters.                                    *)
(***************************************************************************)
EXTENDS Layout

G(bs, inodes, blocks) ==
  [block_size |-> bs, inode_count |-> inodes, datablock_count |-> blocks]

MCGeometries ==
  { G(3, 3, 9),    \* bitmaps of less than a block and of exactly one
    G(3, 13, 4),   \* the inode bitmap overruns the data bitmap
    G(4, 3, 19),   \* the data bitmap overruns inodes 0 and 1
    G(1, 3, 6),    \* blocks of a single byte: no padding
    G(1, 3, 4),    \* the last bit of the data bitmap is in the inode table
    G(4, 3, 2) }   \* and the whole of it, for less than a byte

\* The last two are one name.
MCNames == { <<1>>, <<2, 3>>, <<2, 3, 4>> }

\* An empty file, one of direct blocks that fills the smallest images, and one
\* with three indirect blocks that fills the largest.
MCHostFiles == { << >>, <<1, 2, 3>>, [k \in 1 .. 15 |-> k + 3] }

\* Nothing, or the blocks of another file.
MCWrongPointers == { {}, {1, 2} }
=============================================================================
