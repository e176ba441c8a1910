------------------------------ MODULE Strings -------------------------------
(***************************************************************************)
(* The functions of common/func.c that file names go through.  Memory is a *)
(* function from offsets to characters, which are numbers; a string is     *)
(* given as the sequence of its characters and has a 0 behind them.        *)
(***************************************************************************)
EXTENDS Integers, Sequences, FiniteSetsExt

\* The character k of a string, up to its end.
CharAt(s, k) == IF k < Len(s) THEN s[k + 1] ELSE 0

\* The first count characters are written, zeros from the end of src on; the
\* rest of dst stays, and a long src leaves no 0 behind it.
strncpy(dst, src, count) ==
  [k \in DOMAIN dst |-> IF k < count THEN CharAt(src, k) ELSE dst[k]]

\* The loop stops at the end of p or at a difference.  If it does not before
\* count characters, the last two were the same.
strncmp(p, q, count) ==
  LET stops == {k \in 0 .. count - 1 : CharAt(p, k) = 0 \/ CharAt(p, k) # q[k]}
  IN  IF stops = {} THEN 0 ELSE CharAt(p, Min(stops)) - q[Min(stops)]
=============================================================================
