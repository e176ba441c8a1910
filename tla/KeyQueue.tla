------------------------------ MODULE KeyQueue ------------------------------
(***************************************************************************)
(* What keyboard.c promises to the callers of getc(): the keys accepted    *)
(* from the keyboard come out once each, in the order they were typed.  A  *)
(* key is accepted only if fewer than Capacity are waiting: otherwise it   *)
(* is dropped, which changes nothing here.                                 *)
(***************************************************************************)
EXTENDS Integers, Sequences

CONSTANTS Capacity,   \* keys the buffer can hold
          Chars       \* what a key is translated to

VARIABLES waiting,    \* accepted and not yet returned
          out         \* everything getc() has returned

vars == <<waiting, out>>

Init == waiting = << >> /\ out = << >>

Accept == /\ Len(waiting) < Capacity
          /\ \E c \in Chars : waiting' = Append(waiting, c)
          /\ UNCHANGED out

Return == /\ waiting # << >>
          /\ out' = Append(out, Head(waiting))
          /\ waiting' = Tail(waiting)

Next == Accept \/ Return

Spec == Init /\ [][Next]_vars
=============================================================================
