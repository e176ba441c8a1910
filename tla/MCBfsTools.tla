----------------------------- MODULE MCBfsTools -----------------------------
(***************************************************************************)
(* Small images for TLC: one direct and one indirect pointer per inode and *)
(* two pointers per block, so that a file of two blocks already needs an   *)
(* indirect block and one of four no longer fits an inode.                 *)
(***************************************************************************)
EXTENDS BfsTools

\* Blocks of text, and of numbers that look like pointers.
Text(w) == [p \in PtrIdx |-> w]
Numbers == [p \in PtrIdx |-> p + 1]

Last == PtrMod - 1
MCHostFiles == { <<Text(Last)>>, <<Numbers, Text(Last)>>, <<Numbers, Numbers, Numbers, Numbers>> }
MCNameWords == {Last}
=============================================================================
