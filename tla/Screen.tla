------------------------------- MODULE Screen -------------------------------
(***************************************************************************)
(* The text screen, kernel/display/display.c, as the kernel and the system *)
(* calls use it: one access to the screen memory or to the registers of    *)
(* the CRT controller at a time, with interrupts enabled.                  *)
(*                                                                         *)
(* The controller has an index register, which selects the register behind *)
(* its data port.  Only the two halves of the cursor's location matter.    *)
(* Colours are left out: programs have but one, and the handlers, which    *)
(* use another, set it back before they end.                               *)
(***************************************************************************)
EXTENDS Integers, Sequences

CONSTANTS LINE_SIZE, COLUMN_SIZE,  \* 80 and 25
          BYTE,                    \* values of a byte (256)
          Chars, Blank,            \* what a cell shows
          GoOn                     \* bound: whether printing goes on when torn

SCREEN_SIZE == LINE_SIZE * COLUMN_SIZE
Cells == 0 .. SCREEN_SIZE - 1
Bytes == 0 .. BYTE - 1
Words == 0 .. BYTE * BYTE - 1
Halves == {"hi", "lo"}

ASSUME ScreenAssumption ==
  /\ LINE_SIZE \in Nat /\ LINE_SIZE > 1 /\ LINE_SIZE % 2 = 0
  /\ COLUMN_SIZE \in Nat /\ COLUMN_SIZE > 1
  /\ BYTE \in Nat /\ BYTE % 2 = 0 /\ SCREEN_SIZE <= BYTE * BYTE
  /\ Blank \in Chars /\ GoOn \in BOOLEAN

\* What a printing function can be asked for: a character, a newline that
\* printf() finds in its format, one that puts() or putc() displays like any
\* other character, or the line before the cursor.
Jobs == (Chars \ {Blank}) \cup {"printf newline", "newline", "read_line"}

VARIABLES
  cells,          \* the screen memory
  selected,       \* the index register of the controller
  location,       \* the cursor location: high and low byte
  pc, job, pos, x, \* the running function: where it is, and its variables
  terminator,     \* where the last read_line() has ended its buffer
  shown,          \* history: the screen when nobody was printing
  torn,           \* history: an interrupt has printed while somebody did
  outside         \* history: a character was written outside of the screen

video == <<cells, selected, location>>
locals == <<job, pos, x>>
screenHistory == <<shown, torn, outside>>
screenVars == <<video, pc, locals, terminator, screenHistory>>

At(l) == l.hi * BYTE + l.lo
View(m, l) == [text |-> m, at |-> At(l)]

\* init_screen: clean_screen, and change_cursor_pos(0) selects the low byte last.
init_screen ==
  /\ cells = [c \in Cells |-> Blank]
  /\ selected = "lo" /\ location = [hi |-> 0, lo |-> 0]

ScreenInit ==
  /\ init_screen
  /\ pc = "idle" /\ job = "none" /\ pos = 0 /\ x = 0 /\ terminator = 0
  /\ shown = View(cells, location) /\ torn = FALSE /\ outside = FALSE

-----------------------------------------------------------------------------
\* A step of the running function from p to q.
Step(p, q) ==
  /\ pc = p /\ pc' = q
  /\ UNCHANGED torn

\* The function returns.
Return(p) ==
  /\ Step(p, "idle")
  /\ shown' = View(cells', location')
  /\ job' = "none" /\ pos' = 0 /\ x' = 0

\* Any text, character by character; the keys read_string() echoes, and its
\* read_line() at the end.
Display(j) ==
  /\ torn => GoOn
  /\ Step("idle", "select hi")
  /\ job' = j
  /\ UNCHANGED <<video, pos, x, terminator, shown, outside>>

(* get_cursor_pos *)

Select(p, half, q) ==
  /\ Step(p, q)
  /\ selected' = half
  /\ UNCHANGED <<cells, location, locals, terminator, shown, outside>>

GetSelectHi == Select("select hi", "hi", "get hi")
GetSelectLo == Select("select lo", "lo", "get lo")

GetHi == /\ Step("get hi", "select lo")
         /\ pos' = location[selected] * BYTE
         /\ UNCHANGED <<video, job, x, terminator, shown, outside>>

GetLo == /\ Step("get lo", "got")
         /\ pos' = pos + location[selected]
         /\ UNCHANGED <<video, job, x, terminator, shown, outside>>

(* What is done at the cursor *)

\* A slip: the last line is left one cell too late.
MoveLate(p) == IF p < SCREEN_SIZE THEN "set select hi" ELSE "scroll"

\* change_cursor_pos moves the cursor, or scrolls at the bottom.
Move(p) == IF p < SCREEN_SIZE - 1 THEN "set select hi" ELSE "scroll"

display_carac ==
  /\ job \in Chars
  /\ pos' = (pos + 1) % (BYTE * BYTE)
  /\ Step("got", Move(pos'))
  /\ IF pos \in Cells
     THEN cells' = [cells EXCEPT ![pos] = job] /\ UNCHANGED outside
     ELSE outside' = TRUE /\ UNCHANGED cells
  /\ UNCHANGED <<selected, location, job, x, terminator, shown>>

\* The newline leaves the switch before the cursor is moved.
display_newline ==
  /\ job = "newline"
  /\ UNCHANGED <<video, terminator, outside>>
  /\ Return("got")

printf_newline ==
  /\ job = "printf newline"
  /\ pos' = (pos + LINE_SIZE - (pos % LINE_SIZE)) % (BYTE * BYTE)
  /\ Step("got", Move(pos'))
  /\ UNCHANGED <<video, job, x, terminator, shown, outside>>

\* A slip: the reading starts with the line itself.
LineCharFirst(line_start, n) == (line_start + n) % BYTE

\* The n-th byte read_line() copies: it takes the low byte of the address
\* for the character.
LineChar(line_start, n) == (line_start + 1 + n) % BYTE

\* read_line stops behind a 0 and at the end of a line, and puts the
\* terminator over the last byte copied.
read_line ==
  /\ job = "read_line"
  /\ UNCHANGED <<video, outside>>
  /\ Return("got")
  /\ LET start == pos - (pos % LINE_SIZE)
         zeros == {n \in 0 .. LINE_SIZE - 1 : LineChar(start, n) = 0}
     IN  terminator' = IF zeros = {} THEN LINE_SIZE - 1
                       ELSE IF 0 \in zeros THEN -1
                       ELSE CHOOSE n \in zeros : \A m \in zeros : n <= m

(* change_cursor_pos *)

SetSelectHi == Select("set select hi", "hi", "set hi")
SetSelectLo == Select("set select lo", "lo", "set lo")

SetHi == /\ Step("set hi", "set select lo")
         /\ location' = [location EXCEPT ![selected] = pos \div BYTE]
         /\ UNCHANGED <<cells, selected, locals, terminator, shown, outside>>

SetLo == /\ location' = [location EXCEPT ![selected] = pos % BYTE]
         /\ UNCHANGED <<cells, selected, terminator, outside>>
         /\ Return("set lo")

\* A slip: the first line is kept.
ScrolledFrozen(m, c) ==
  IF c < LINE_SIZE THEN m[c]
  ELSE IF c < SCREEN_SIZE - LINE_SIZE THEN m[c + LINE_SIZE]
  ELSE Blank

\* What scrolling puts in a cell: the one below, and the last line is cleared.
Scrolled(m, c) ==
  IF c < SCREEN_SIZE - LINE_SIZE THEN m[c + LINE_SIZE]
  ELSE Blank

\* Cell by cell, from the top.
Scroll ==
  LET last == x = SCREEN_SIZE - 1
  IN  /\ Step("scroll", IF last THEN "set select hi" ELSE "scroll")
      /\ cells' = [cells EXCEPT ![x] = Scrolled(cells, x)]
      /\ x' = IF last THEN 0 ELSE x + 1
      /\ pos' = IF last THEN SCREEN_SIZE - LINE_SIZE ELSE pos
      /\ UNCHANGED <<selected, location, job, terminator, shown, outside>>

printing ==
  \/ GetSelectHi \/ GetHi \/ GetSelectLo \/ GetLo
  \/ display_carac \/ display_newline \/ printf_newline \/ read_line
  \/ SetSelectHi \/ SetHi \/ SetSelectLo \/ SetLo
  \/ Scroll
=============================================================================
