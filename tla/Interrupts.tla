----------------------------- MODULE Interrupts -----------------------------
(***************************************************************************)
(* The interrupt and exception handlers of kernel/idt, the timer, and what *)
(* they do to the screen and to sleep() under the running code.            *)
(*                                                                         *)
(* The gates of the handlers are interrupt gates: a handler runs to its    *)
(* end.  Those of IRQ 1 and 14 leave the screen and the timer alone; the   *)
(* other ones but the timer's print a message, of one character here.      *)
(***************************************************************************)
EXTENDS Screen

CONSTANTS freq,     \* timer.freq
          TICKS,    \* values of timer.tick (2^32)
          MS,       \* milliseconds of a second (1000)
          Delays,   \* bound: the milliseconds a program sleeps
          Alarm     \* the text of the handlers

CLOCK == LINE_SIZE - 2  \* the cell of the clock (78)
Faces == {"face 1", "face 2"}

ASSUME TimerAssumption ==
  /\ freq \in Nat \ {0} /\ TICKS \in Nat \ {0}
  /\ MS \in Nat \ {0} /\ Delays \subseteq Nat
  /\ Alarm \in Chars /\ Faces \cap Chars = {}

VARIABLES
  tick, state,     \* the timer, and the face of the clock
  total            \* sleep(): the tick it waits for

timer == <<tick, state>>
vars == <<screenVars, timer, total>>

\* timer_init
Init ==
  /\ ScreenInit
  /\ tick = 0 /\ state = 1
  /\ total = 0

-----------------------------------------------------------------------------
(* Handlers *)

\* printf of a handler, which nothing interrupts.  It leaves the low byte
\* selected.
printf(text) ==
  LET p == At(location)
      moved == (p + 1) % (BYTE * BYTE)
      bottom == moved >= SCREEN_SIZE - 1
      set == IF bottom THEN SCREEN_SIZE - LINE_SIZE ELSE moved
      written == IF p \in Cells THEN [cells EXCEPT ![p] = text] ELSE cells
  IN  /\ selected' = "lo"
      /\ location' = [hi |-> set \div BYTE, lo |-> set % BYTE]
      /\ cells' = IF ~bottom THEN written
                  ELSE [c \in Cells |-> IF c < SCREEN_SIZE - LINE_SIZE THEN written[c + LINE_SIZE]
                                        ELSE Blank]
      /\ outside' = (outside \/ p \notin Cells)

\* The stubs turn interrupts off, the wrappers save and restore all registers:
\* the code below goes on as it was, but for memory and the devices.
Interrupted ==
  /\ pc # "halted"
  /\ UNCHANGED <<locals, terminator, total>>

\* What a handler that prints does, whatever the code below it is doing.
Message ==
  /\ Interrupted
  /\ printf(Alarm)
  /\ LET whole == pc \in {"idle", "sleep"}
     IN  /\ torn' = (torn \/ ~whole)
         /\ shown' = IF whole THEN View(cells', location') ELSE shown
  /\ UNCHANGED timer

\* IRQ 2 to 13 and 15.
PrintingIrq ==
  /\ torn => GoOn
  /\ Message
  /\ UNCHANGED pc

\* time_graphic turns the clock once a second.
time_graphic ==
  IF tick' % freq = 0
  THEN /\ state' = 1 - state
       /\ cells' = [cells EXCEPT ![CLOCK] =
                     IF state' = 0 THEN "face 1" ELSE "face 2"]
  ELSE UNCHANGED <<state, cells>>

timer_handler ==
  /\ Interrupted
  /\ tick' = (tick + 1) % TICKS
  /\ time_graphic
  /\ shown' = IF pc \in {"idle", "sleep"} THEN View(cells', location) ELSE shown
  /\ UNCHANGED <<selected, location, pc, torn, outside>>

\* The message, and halt() for good.
exception_handler ==
  /\ Message
  /\ pc' = "halted"

-----------------------------------------------------------------------------
(* sleep *)

\* A slip: an end that is too large for the counter.
sleep_unwrapped(ms) ==
  /\ pc = "idle" /\ pc' = "sleep"
  /\ total' = tick + freq * (ms \div MS)
  /\ UNCHANGED <<video, locals, terminator, screenHistory, timer>>

\* The whole seconds of the delay are turned into a number of ticks ahead, in
\* the arithmetic of the counter: a delay of less than a second is none.
sleep(ms) ==
  /\ pc = "idle" /\ pc' = "sleep"
  /\ total' = (tick + freq * (ms \div MS)) % TICKS
  /\ UNCHANGED <<video, locals, terminator, screenHistory, timer>>

WakeUp ==
  /\ pc = "sleep" /\ pc' = "idle" /\ total' = 0
  /\ UNCHANGED <<video, locals, terminator, screenHistory, timer>>

\* A slip: the loop waits for the very tick.
SleepReturnExact == tick = total + 1 /\ WakeUp

\* The loop reads the ticks until they have reached the total.
SleepReturn == tick >= total /\ WakeUp

-----------------------------------------------------------------------------
Next ==
  \/ \E j \in Jobs : Display(j) /\ UNCHANGED <<timer, total>>
  \/ printing /\ UNCHANGED <<timer, total>>
  \/ \E ms \in Delays : sleep(ms)
  \/ SleepReturn
  \/ timer_handler
  \/ PrintingIrq
  \/ exception_handler

Spec == Init /\ [][Next]_vars

\* The timer never stops.  sleep() polls many times within a tick, so it does
\* not miss all the ticks behind its total for ever.
FairSpec == Spec /\ WF_vars(timer_handler) /\ SF_vars(SleepReturn)

-----------------------------------------------------------------------------
(* Properties *)

\* The variables of the screen, the controller and the timer have their types.
TypeOK ==
  /\ cells \in [Cells -> Chars \cup Faces]
  /\ selected \in Halves /\ location \in [Halves -> Bytes]
  /\ pc \in {"idle", "select hi", "get hi", "select lo", "get lo", "got", "set select hi",
             "set hi", "set select lo", "set lo", "scroll", "sleep", "halted"}
  /\ job \in Jobs \cup {"none"} /\ pos \in Words /\ x \in Cells /\ terminator \in Int
  /\ tick \in 0 .. TICKS - 1 /\ state \in {0, 1} /\ total \in 0 .. TICKS - 1
  /\ torn \in BOOLEAN /\ outside \in BOOLEAN

\* As long as no interrupt prints in the middle of a text, nothing is written
\* outside of the screen, the cursor always has a cell to move on to, and the
\* two halves of its location are never those of two positions.
StaysOnScreen ==
  ~torn =>
    /\ ~outside
    /\ pc = "got" => pos = At(location)
    /\ pc \in {"idle", "sleep", "got"} => At(location) < SCREEN_SIZE - 1

\* read_line() ends its buffer inside of it, wherever the cursor is.
ReadLineFits == terminator \in 0 .. LINE_SIZE - 1

\* The lines of text scroll and wrap as on a terminal, each character in one
\* piece, whatever the timer and its clock do meanwhile.
CodeRow(y) == [c \in 1 .. LINE_SIZE |->
                 LET p == (y - 1) * LINE_SIZE + c - 1
                 IN  IF p = CLOCK THEN Blank ELSE shown.text[p]]

Text == INSTANCE Terminal WITH
  Lines <- COLUMN_SIZE, Columns <- LINE_SIZE, ClockColumn <- CLOCK + 1,
  rows <- [y \in 1 .. COLUMN_SIZE |-> CodeRow(y)],
  row <- (shown.at \div LINE_SIZE) + 1,
  column <- (shown.at % LINE_SIZE) + 1,
  spoiled <- torn

ImplementsTerminal == Text!Spec

\* A program that sleeps wakes up, even if the ticks wrap around under it.
SleepEnds == pc = "sleep" ~> pc # "sleep"

\* kernel/display/display.h:32: "Display a caracter at the cursor current
\* location": nothing is ever displayed outside of the screen.
WritesOnScreen == ~outside
=============================================================================
