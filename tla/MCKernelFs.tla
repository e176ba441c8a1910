----------------------------- MODULE MCKernelFs -----------------------------
(***************************************************************************)
(* Images for the machine: an inode has two indirect pointers, and either  *)
(* two direct ones with one pointer per block or one with two.             *)
(***************************************************************************)
EXTENDS KernelFs, MCBfsTools

\* An empty file, one that fits the direct blocks, one that needs both
\* indirect blocks and one that does not fit an inode.
MCKernelFiles ==
  { << >>, <<Text(1), Text(2)>>, <<Text(4), Text(5), Text(6), Text(7)>>,
    <<Text(1), Text(1), Text(1), Text(1), Text(1)>> }

\* For one direct pointer: an indirect block of two pointers.
MCLongFiles == { <<Text(1), Text(2), Text(3)>> }

\* Memory that holds zeros, or the number of an inode.
MCForeign == {ClearInode, [ClearInode EXCEPT !.number = 1]}
=============================================================================
