----------------------------- MODULE MCPrograms -----------------------------
(***************************************************************************)
(* Small sizes for TLC: nibbles of two values, so that addresses have      *)
(* eight bits and a descriptor splits them after the fourth and the sixth. *)
(***************************************************************************)
EXTENDS Programs

\* The tables cross the borders between the pieces of a base.
MCTableAddresses == {3, 50}

\* By chance the right base, or another one.
MCBehind == {0, 77}
=============================================================================
