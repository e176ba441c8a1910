----------------------------- MODULE CallStack ------------------------------
(***************************************************************************)
(* What exec() promises about the order of programs: a program runs until  *)
(* it starts another one or returns, and a program that returns goes back  *)
(* to the one that started it.  Nobody is started twice at a time.         *)
(***************************************************************************)
EXTENDS Integers, Sequences

CONSTANTS Callees, Nobody

VARIABLES stack,   \* the programs that have been started, the latest last
          running  \* the program that runs

vars == <<stack, running>>

Init == stack = << >> /\ running = Nobody

Call == /\ running' \in Callees
        /\ \A i \in 1 .. Len(stack) : stack[i] # running'
        /\ stack' = Append(stack, running')

Return == /\ stack # << >>
          /\ LET n == Len(stack) - 1
             IN  /\ stack' = SubSeq(stack, 1, n)
                 /\ running' = IF n = 0 THEN Nobody ELSE stack[n]

Next == Call \/ Return

Spec == Init /\ [][Next]_vars
=============================================================================
