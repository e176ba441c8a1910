------------------------------ MODULE Terminal ------------------------------
(***************************************************************************)
(* What the text screen promises: lines of characters and a cursor.  A     *)
(* character appears at the cursor and moves it on; the last line scrolls. *)
(* One cell belongs to the clock and shows no text.  The promise holds     *)
(* until the screen is spoiled.                                            *)
(***************************************************************************)
EXTENDS Integers, Sequences

CONSTANTS Lines, Columns, Chars, Blank, ClockColumn

VARIABLES rows,         \* what the lines show, the first line first
          row, column,  \* the cursor
          spoiled       \* the promise no longer holds

vars == <<rows, row, column, spoiled>>

BlankRow == [x \in 1 .. Columns |-> Blank]

\* The clock covers what is written in its cell, in the first line.
Covered(r) == [r EXCEPT ![1][ClockColumn] = Blank]

Init == /\ rows = [y \in 1 .. Lines |-> BlankRow]
        /\ row = 1 /\ column = 1
        /\ spoiled = FALSE

\* The cursor goes to the start of the next line.
NextLine(r) ==
  /\ column' = 1
  /\ IF row = Lines
     THEN rows' = Covered(Append(Tail(r), BlankRow)) /\ UNCHANGED row
     ELSE rows' = Covered(r) /\ row' = row + 1

\* The last cell of the screen is never written: the cursor would not move on.
LineFull == column = Columns \/ (row = Lines /\ column = Columns - 1)

Put(c) ==
  LET r == [rows EXCEPT ![row][column] = c]
  IN  IF LineFull THEN NextLine(r)
      ELSE rows' = Covered(r) /\ column' = column + 1 /\ UNCHANGED row

NewLine == NextLine(rows)

Shows == /\ ~spoiled /\ ~spoiled'
         /\ NewLine \/ \E c \in Chars : Put(c)

Spoil == spoiled'

Next == Shows \/ Spoil

Spec == Init /\ [][Next]_vars
=============================================================================
