-------------------------- MODULE InterruptsProofs --------------------------
(***************************************************************************)
(* Theorems about the screen and the timer under interrupts, for screens,  *)
(* bytes and counters of every size.                                       *)
(***************************************************************************)
EXTENDS Interrupts, ModuloLemmas, TLAPS, SequenceTheorems

-----------------------------------------------------------------------------
(* Sizes and bytes *)

\* The screen has at least two lines of two cells, fits in two bytes, and has
\* room for the clock.
LEMMA Sizes ==
  /\ SCREEN_SIZE \in Nat /\ 2 * LINE_SIZE <= SCREEN_SIZE /\ LINE_SIZE >= 2
  /\ BYTE \in Nat \ {0} /\ BYTE * BYTE \in Nat /\ SCREEN_SIZE <= BYTE * BYTE
  /\ Cells \subseteq Words /\ CLOCK \in Cells /\ LINE_SIZE \in Nat
<1>1. LINE_SIZE \in Nat /\ LINE_SIZE >= 2 /\ COLUMN_SIZE \in Nat /\ COLUMN_SIZE >= 2
      /\ BYTE \in Nat /\ LINE_SIZE * COLUMN_SIZE <= BYTE * BYTE
  BY ScreenAssumption DEF SCREEN_SIZE
<1>2. PICK more \in Nat : COLUMN_SIZE = 2 + more
  <2>1. COLUMN_SIZE - 2 \in Nat /\ COLUMN_SIZE = 2 + (COLUMN_SIZE - 2) BY <1>1
  <2> QED BY <2>1
<1>3. LINE_SIZE * COLUMN_SIZE = 2 * LINE_SIZE + LINE_SIZE * more /\ LINE_SIZE * more \in Nat
  BY <1>1, <1>2
<1>4. BYTE # 0 BY <1>1, <1>3
<1> QED BY <1>1, <1>3, <1>4 DEF SCREEN_SIZE, Cells, Words, CLOCK

\* What lines and cells need of it.
LEMMA Lines ==
  /\ SCREEN_SIZE \in Nat /\ LINE_SIZE \in Nat
  /\ LINE_SIZE >= 2 /\ 2 * LINE_SIZE <= SCREEN_SIZE
  /\ SCREEN_SIZE - LINE_SIZE < SCREEN_SIZE - 1
BY Sizes

\* The cells scrolling goes through.
LEMMA NextCell ==
  ASSUME NEW c \in Cells
  PROVE  /\ c # SCREEN_SIZE - 1 => c + 1 \in Cells
         /\ c < SCREEN_SIZE - LINE_SIZE => c + LINE_SIZE \in Cells
BY Lines DEF Cells

\* The positions before the last one.
LEMMA InCells == ASSUME NEW p \in Nat, p < SCREEN_SIZE - 1 PROVE p \in Cells
BY Lines DEF Cells

\* Numbers the code assigns, and what they are modulo the values of a word.
LEMMA Numbers ==
  /\ 0 \in Words /\ 0 \in Cells /\ SCREEN_SIZE - LINE_SIZE \in Words
  /\ Words \subseteq Nat /\ \A n \in Nat : n % (BYTE * BYTE) \in Words
<1>1. PICK w \in Nat : w = BYTE * BYTE /\ w >= SCREEN_SIZE BY Sizes
<1>2. Words = 0 .. w - 1 BY <1>1 DEF Words
<1> QED BY <1>1, <1>2, Sizes DEF Cells

\* A byte times the values of a byte, and another one added, is a word.
LEMMA Together ==
  ASSUME NEW h \in Bytes, NEW l \in Bytes
  PROVE  h * BYTE + l \in Words /\ h * BYTE \in Words
<1>1. PICK n \in Nat : BYTE = h + 1 + n
  <2>1. BYTE - 1 - h \in Nat /\ BYTE = h + 1 + (BYTE - 1 - h) BY Sizes DEF Bytes
  <2> QED BY <2>1
<1>2. BYTE * BYTE = h * BYTE + BYTE + n * BYTE /\ n * BYTE \in Nat /\ h * BYTE \in Nat
  BY <1>1, Sizes DEF Bytes
<1> QED BY <1>2, Sizes DEF Words, Bytes

\* The two bytes of a word.
LEMMA Apart ==
  ASSUME NEW p \in Words
  PROVE  p \div BYTE \in Bytes /\ p % BYTE \in Bytes /\ (p \div BYTE) * BYTE + (p % BYTE) = p
<1>1. p \in Nat /\ BYTE \in Nat \ {0} /\ p < BYTE * BYTE BY Sizes DEF Words
<1>2. p = BYTE * (p \div BYTE) + (p % BYTE) /\ p % BYTE \in 0 .. BYTE - 1 /\ p \div BYTE \in Nat
  BY <1>1
<1>3. p \div BYTE < BYTE
  <2> SUFFICES ASSUME p \div BYTE >= BYTE PROVE FALSE BY <1>1, <1>2
  <2>1. PICK n \in Nat : p \div BYTE = BYTE + n
    <3>1. (p \div BYTE) - BYTE \in Nat /\ p \div BYTE = BYTE + ((p \div BYTE) - BYTE)
      BY <1>1, <1>2
    <3> QED BY <3>1
  <2>2. BYTE * (p \div BYTE) = BYTE * BYTE + BYTE * n /\ BYTE * n \in Nat BY <1>1, <2>1
  <2> QED BY <1>1, <1>2, <2>2
<1> QED BY <1>1, <1>2, <1>3 DEF Bytes

\* A factor of two can be taken out.
LEMMA TwoTimes ==
  ASSUME NEW m \in Nat, NEW n \in Nat
  PROVE  (2 * m) * n = 2 * (m * n) /\ m * n \in Nat
OBVIOUS

\* An odd number is no multiple of an even one.
LEMMA OddRemainder ==
  ASSUME NEW s \in Nat, NEW b \in Nat \ {0}, s % 2 = 0, b % 2 = 0
  PROVE  (s + 1) % b # 0
<1>1. PICK u \in Nat : s = 2 * u
  <2>1. s \div 2 \in Nat /\ s = 2 * (s \div 2) OBVIOUS
  <2> QED BY <2>1
<1>2. PICK v \in Nat : b = 2 * v
  <2>1. b \div 2 \in Nat /\ b = 2 * (b \div 2) OBVIOUS
  <2> QED BY <2>1
<1> SUFFICES ASSUME (s + 1) % b = 0 PROVE FALSE OBVIOUS
<1>3. PICK q \in Nat : s + 1 = b * q
  <2>1. (s + 1) \div b \in Nat /\ s + 1 = b * ((s + 1) \div b) OBVIOUS
  <2> QED BY <2>1
<1>4. b * q = 2 * (v * q) /\ v * q \in Nat BY <1>2, TwoTimes
<1>5. PICK w \in Nat : s + 1 = 2 * w BY <1>3, <1>4
<1> QED BY <1>1, <1>5

\* The start of the line of a cell is an even number.
LEMMA LineStartEven ==
  ASSUME NEW p \in Nat
  PROVE  p - (p % LINE_SIZE) \in Nat /\ (p - (p % LINE_SIZE)) % 2 = 0
<1>1. LINE_SIZE \in Nat \ {0} /\ LINE_SIZE % 2 = 0 BY ScreenAssumption
<1>2. p = LINE_SIZE * (p \div LINE_SIZE) + (p % LINE_SIZE) /\ p \div LINE_SIZE \in Nat
      /\ p % LINE_SIZE \in 0 .. LINE_SIZE - 1
  BY <1>1
<1>3. PICK u \in Nat : LINE_SIZE = 2 * u
  <2>1. LINE_SIZE \div 2 \in Nat /\ LINE_SIZE = 2 * (LINE_SIZE \div 2) BY <1>1
  <2> QED BY <2>1
<1>4. LINE_SIZE * (p \div LINE_SIZE) = 2 * (u * (p \div LINE_SIZE))
      /\ u * (p \div LINE_SIZE) \in Nat
  BY <1>2, <1>3, TwoTimes
<1> QED BY <1>1, <1>2, <1>4

\* A newline leads to a word.
LEMMA LineAfter ==
  ASSUME NEW p \in Nat
  PROVE  (p + LINE_SIZE - (p % LINE_SIZE)) % (BYTE * BYTE) \in Words
<1>1. p - (p % LINE_SIZE) \in Nat /\ p % LINE_SIZE \in Int BY LineStartEven, Lines
<1>2. p + LINE_SIZE - (p % LINE_SIZE) \in Nat BY <1>1, Lines
<1> QED BY <1>2, Numbers

\* A set of numbers that is not empty has a least element.
LEMMA LeastNumber ==
  ASSUME NEW S \in SUBSET Nat, S # {}
  PROVE  \E n \in S : \A m \in S : n <= m
BY MinIsLeast

\* read_line() finds its end inside of the buffer: the first number it stores
\* is odd, so it is not a 0 that stops it.
LEMMA ReadLineEnd ==
  ASSUME pos \in Nat, read_line
  PROVE  terminator' \in 0 .. LINE_SIZE - 1 /\ terminator' \in Int
<1> DEFINE start == pos - (pos % LINE_SIZE)
           zeros == {n \in 0 .. LINE_SIZE - 1 : LineChar(start, n) = 0}
           least == CHOOSE n \in zeros : \A m \in zeros : n <= m
<1>1. start \in Nat /\ start % 2 = 0 BY LineStartEven
<1>2. LineChar(start, 0) = (start + 1) % BYTE BY <1>1 DEF LineChar
<1>3. (start + 1) % BYTE # 0
  <2>1. BYTE \in Nat \ {0} /\ BYTE % 2 = 0 BY Sizes, ScreenAssumption
  <2> HIDE DEF start
  <2> QED BY <1>1, <2>1, OddRemainder
<1>4. 0 \notin zeros BY <1>2, <1>3
<1>5. terminator' = IF zeros = {} THEN LINE_SIZE - 1 ELSE least
  BY <1>4 DEF read_line
<1>6. zeros \in SUBSET Nat /\ zeros \subseteq 0 .. LINE_SIZE - 1 OBVIOUS
<1> HIDE DEF zeros
<1>7. zeros # {} => least \in zeros BY <1>6, LeastNumber
<1> HIDE DEF least
<1>8. LINE_SIZE - 1 \in 0 .. LINE_SIZE - 1 /\ 0 .. LINE_SIZE - 1 \subseteq Int BY Lines
<1>9. CASE zeros = {} BY <1>5, <1>8, <1>9, Zenon
<1>10. CASE zeros # {} BY <1>5, <1>6, <1>7, <1>8, <1>10, Zenon
<1> QED BY <1>9, <1>10

-----------------------------------------------------------------------------
(* Types *)

\* While the low byte of the cursor is fetched, pos is the high byte alone,
\* shifted: adding any byte to it keeps it a word.
HighByte == pc \in {"select lo", "get lo"} => \E h \in Bytes : pos = h * BYTE

TypeInv == TypeOK /\ HighByte

\* Where a cursor is, is a word.
LEMMA AtWord ==
  ASSUME TypeOK
  PROVE  At(location) \in Words
BY Together, Zenon DEF TypeOK, At, Halves

\* The printing functions keep the types, whatever they are interrupted by.
LEMMA PrintingType ==
  ASSUME TypeInv, printing, UNCHANGED <<timer, total>>
  PROVE  TypeInv'
<1> USE DEF TypeInv, TypeOK, HighByte, Step, video, locals, timer
<1>1. CASE GetSelectHi
  BY <1>1 DEF GetSelectHi, Select, Halves
<1>2. CASE GetHi
  <2>1. location[selected] \in Bytes BY DEF Halves
  <2>2. location[selected] * BYTE \in Words BY <2>1, Together
  <2> QED BY <1>2, <2>1, <2>2 DEF GetHi
<1>3. CASE GetSelectLo
  BY <1>3 DEF GetSelectLo, Select, Halves
<1>4. CASE GetLo
  <2>1. location[selected] \in Bytes BY DEF Halves
  <2>2. PICK h \in Bytes : pos = h * BYTE BY <1>4 DEF GetLo
  <2>3. pos + location[selected] \in Words BY <2>1, <2>2, Together
  <2> QED BY <1>4, <2>3 DEF GetLo
<1>5. CASE display_carac
  <2>1. pos' \in Words BY <1>5, Numbers DEF display_carac
  <2>2. cells' \in [Cells -> Chars \cup Faces] /\ outside' \in BOOLEAN
    BY <1>5 DEF display_carac
  <2> QED BY <1>5, <2>1, <2>2 DEF display_carac, Move
<1>6. CASE display_newline
  BY <1>6, Numbers DEF display_newline, Return
<1>7. CASE printf_newline
  <2>1. pos \in Nat BY Numbers
  <2>2. pos' \in Words BY <1>7, <2>1, LineAfter DEF printf_newline
  <2> QED BY <1>7, <2>2 DEF printf_newline, Move
<1>8. CASE read_line
  <2>1. pos \in Nat BY Numbers
  <2>2. terminator' \in Int BY <1>8, <2>1, ReadLineEnd
  <2> QED BY <1>8, <2>2, Numbers DEF read_line, Return
<1>9. CASE SetSelectHi
  BY <1>9 DEF SetSelectHi, Select, Halves
<1>10. CASE SetHi
  <2>1. pos \div BYTE \in Bytes BY Apart
  <2> QED BY <1>10, <2>1 DEF SetHi
<1>11. CASE SetSelectLo
  BY <1>11 DEF SetSelectLo, Select, Halves
<1>12. CASE SetLo
  <2>1. pos % BYTE \in Bytes BY Apart
  <2> QED BY <1>12, <2>1, Numbers DEF SetLo, Return
<1>13. CASE Scroll
  <2>1. Scrolled(cells, x) \in Chars \cup Faces BY NextCell, ScreenAssumption DEF Scrolled
  <2>2. pos' \in Words BY <1>13, Numbers DEF Scroll
  <2>4. x' \in Cells BY <1>13, NextCell, Numbers DEF Scroll
  <2>3. cells' \in [Cells -> Chars \cup Faces] BY <1>13, <2>1 DEF Scroll
  <2> QED BY <1>13, <2>2, <2>3, <2>4 DEF Scroll
<1> QED BY <1>1, <1>2, <1>3, <1>4, <1>5, <1>6, <1>7, <1>8, <1>9, <1>10, <1>11, <1>12, <1>13
        DEF printing

\* A handler that prints keeps the screen's types.
LEMMA MessageType ==
  ASSUME TypeOK, Message
  PROVE  /\ cells' \in [Cells -> Chars \cup Faces] /\ selected' \in Halves
         /\ location' \in [Halves -> Bytes] /\ torn' \in BOOLEAN /\ outside' \in BOOLEAN
<1> DEFINE p == At(location)
           moved == (p + 1) % (BYTE * BYTE)
           bottom == moved >= SCREEN_SIZE - 1
           set == IF bottom THEN SCREEN_SIZE - LINE_SIZE ELSE moved
           written == IF p \in Cells THEN [cells EXCEPT ![p] = Alarm] ELSE cells
<1>1. p \in Words BY AtWord
<1>2. set \in Words
  <2>1. p \in Nat BY <1>1, Numbers
  <2> HIDE DEF p
  <2>2. p + 1 \in Nat BY <2>1
  <2> QED BY <2>2, Numbers
<1>3. location' = [hi |-> set \div BYTE, lo |-> set % BYTE] /\ selected' = "lo"
  BY DEF Message, printf
<1>4. location' \in [Halves -> Bytes]
  <2> HIDE DEF set
  <2> QED BY <1>2, <1>3, Apart DEF Halves
<1>5. written \in [Cells -> Chars \cup Faces]
  BY TimerAssumption DEF TypeOK
<1>6. cells' \in [Cells -> Chars \cup Faces]
  <2>1. cells' = IF ~bottom THEN written
                 ELSE [c \in Cells |-> IF c < SCREEN_SIZE - LINE_SIZE
                                       THEN written[c + LINE_SIZE] ELSE Blank]
    BY DEF Message, printf
  <2> HIDE DEF written, bottom
  <2>2. ASSUME NEW c \in Cells
        PROVE  (IF c < SCREEN_SIZE - LINE_SIZE THEN written[c + LINE_SIZE] ELSE Blank)
                 \in Chars \cup Faces
    BY <1>5, NextCell, ScreenAssumption
  <2> QED BY <1>5, <2>1, <2>2
<1>7. outside' = (outside \/ p \notin Cells) /\ torn' = (torn \/ ~(pc \in {"idle", "sleep"}))
  BY DEF Message, printf
<1> QED BY <1>3, <1>4, <1>6, <1>7 DEF Halves, TypeOK

\* The counter stays in its range.
LEMMA InCounter == ASSUME NEW t \in Nat, NEW n \in Nat PROVE (t + n) % TICKS \in 0 .. TICKS - 1
BY TimerAssumption

\* The screen and the timer keep their types.
THEOREM TypeCorrect == Spec => []TypeOK
<1>1. Init => TypeInv
  <2>1. 0 \in Bytes /\ 0 \in 0 .. TICKS - 1
    BY Sizes, TimerAssumption DEF Bytes
  <2> SUFFICES ASSUME Init PROVE TypeInv OBVIOUS
  <2>2. cells \in [Cells -> Chars \cup Faces] /\ selected \in Halves
        /\ location \in [Halves -> Bytes]
    BY <2>1, ScreenAssumption DEF Init, ScreenInit, init_screen, Halves
  <2>3. HighByte BY DEF Init, ScreenInit, HighByte
  <2>4. 0 \in Words /\ 0 \in Cells BY Numbers
  <2>5. pos \in Words /\ x \in Cells BY <2>4 DEF Init, ScreenInit
  <2>6. tick \in 0 .. TICKS - 1 /\ total \in 0 .. TICKS - 1
    BY <2>1, Zenon DEF Init
  <2>7. job = "none" /\ terminator \in Int /\ state \in {0, 1}
    BY DEF Init, ScreenInit
  <2>8. pc = "idle" /\ torn \in BOOLEAN /\ outside \in BOOLEAN
    BY DEF Init, ScreenInit
  <2>9. TypeOK BY <2>2, <2>5, <2>6, <2>7, <2>8 DEF TypeOK
  <2> QED BY <2>3, <2>9 DEF TypeInv
<1>2. TypeInv /\ [Next]_vars => TypeInv'
  <2> SUFFICES ASSUME TypeInv, [Next]_vars PROVE TypeInv' OBVIOUS
  <2>1. ASSUME NEW jb \in Jobs, Display(jb), UNCHANGED <<timer, total>> PROVE TypeInv'
    BY <2>1 DEF Display, Step, TypeInv, TypeOK, HighByte, video, timer
  <2>2. CASE printing /\ UNCHANGED <<timer, total>>
    BY <2>2, PrintingType
  <2>3. ASSUME NEW ms \in Delays, sleep(ms) PROVE TypeInv'
    <3>1. ms \div MS \in Nat BY TimerAssumption
    <3>2. freq * (ms \div MS) \in Nat BY <3>1, TimerAssumption
    <3>3. tick \in Nat
      <4>1. tick \in 0 .. TICKS - 1 BY DEF TypeInv, TypeOK
      <4> QED BY <4>1, TimerAssumption
    <3>4. total' = (tick + freq * (ms \div MS)) % TICKS BY <2>3 DEF sleep
    <3>5. total' \in 0 .. TICKS - 1 BY <3>2, <3>3, <3>4, InCounter
    <3> QED BY <2>3, <3>5
            DEF sleep, TypeInv, TypeOK, HighByte, video, locals, screenHistory, timer
  <2>4. CASE SleepReturn
    <3>1. 0 \in 0 .. TICKS - 1 BY TimerAssumption
    <3> QED BY <2>4, <3>1
            DEF SleepReturn, WakeUp, TypeInv, TypeOK, HighByte, video, locals, screenHistory, timer
  <2>5. CASE timer_handler
    <3>0. TypeOK BY DEF TypeInv
    <3>1. tick \in Nat
      <4>1. tick \in 0 .. TICKS - 1 BY <3>0 DEF TypeOK
      <4> QED BY <4>1, TimerAssumption
    <3>2. tick' \in 0 .. TICKS - 1 BY <2>5, <3>1, InCounter DEF timer_handler
    <3>3. state' \in {0, 1}
      <4>1. state \in {0, 1} /\ (state' = state \/ state' = 1 - state)
        BY <2>5, <3>0 DEF timer_handler, time_graphic, TypeOK
      <4> QED BY <4>1
    <3>4. cells' \in [Cells -> Chars \cup Faces]
      BY <2>5 DEF timer_handler, time_graphic, TypeInv, TypeOK, Faces
    <3> QED BY <2>5, <3>2, <3>3, <3>4
            DEF timer_handler, Interrupted, TypeInv, TypeOK, HighByte, locals
  <2>6. CASE PrintingIrq
    BY <2>6, MessageType
       DEF PrintingIrq, Message, Interrupted, TypeInv, TypeOK, HighByte, locals, timer
  <2>7. CASE exception_handler
    BY <2>7, MessageType
       DEF exception_handler, Message, Interrupted, TypeInv, TypeOK, HighByte, locals, timer
  <2>8. CASE UNCHANGED vars
    BY <2>8 DEF vars, screenVars, video, locals, screenHistory, timer,
                TypeInv, TypeOK, HighByte
  <2> QED BY <2>1, <2>2, <2>3, <2>4, <2>5, <2>6, <2>7, <2>8 DEF Next
<1>3. TypeInv => TypeOK BY DEF TypeInv
<1> QED BY <1>1, <1>2, <1>3, PTL DEF Spec

-----------------------------------------------------------------------------
(* The cursor and the screen *)

\* What each point of a printing function relies on, as long as nobody else
\* has printed meanwhile: which half is selected, which one pos holds already,
\* and that there is a cell to write to and one to move on to.
Fetching == {"idle", "sleep", "select hi", "get hi", "select lo", "get lo", "got"}
Storing == {"set select hi", "set hi", "set select lo", "set lo"}

CursorInv ==
  /\ pc \in Fetching => At(location) < SCREEN_SIZE - 1
  /\ pc \in Storing => pos < SCREEN_SIZE - 1
  /\ pc \in {"get hi", "set hi"} => selected = "hi"
  /\ pc \in {"get lo", "set lo"} => selected = "lo"
  /\ pc \in {"select lo", "get lo"} => pos = location.hi * BYTE
  /\ pc = "got" => pos = At(location)
  /\ pc \in {"set select lo", "set lo"} => location.hi = pos \div BYTE

ScreenInv == ~torn => ~outside /\ CursorInv

\* A printing function that nobody disturbs keeps the cursor and the halves of
\* its location in order.
LEMMA PrintingOnScreen ==
  ASSUME TypeOK, CursorInv, ~outside, printing
  PROVE  ~outside' /\ CursorInv'
<1> USE DEF CursorInv, Step, video, locals, Fetching, Storing
<1>1. CASE GetSelectHi
  BY <1>1 DEF GetSelectHi, Select
<1>2. CASE GetHi
  BY <1>2 DEF GetHi
<1>3. CASE GetSelectLo
  BY <1>3 DEF GetSelectLo, Select
<1>4. CASE GetLo
  BY <1>4 DEF GetLo, At
<1>5. CASE display_carac
  <2>1. pos \in Cells
    <3>1. pos \in Nat /\ pos < SCREEN_SIZE - 1 BY <1>5, Numbers DEF display_carac, TypeOK
    <3> QED BY <3>1, InCells
  <2> QED BY <1>5, <2>1 DEF display_carac, Move
<1>6. CASE display_newline
  BY <1>6 DEF display_newline, Return
<1>7. CASE printf_newline
  BY <1>7 DEF printf_newline, Move
<1>8. CASE read_line
  BY <1>8 DEF read_line, Return
<1>9. CASE SetSelectHi
  BY <1>9 DEF SetSelectHi, Select
<1>10. CASE SetHi
  BY <1>10 DEF SetHi, TypeOK, Halves
<1>11. CASE SetSelectLo
  BY <1>11 DEF SetSelectLo, Select
<1>12. CASE SetLo
  <2>1. pos < SCREEN_SIZE - 1 /\ location' = [location EXCEPT !["lo"] = pos % BYTE]
        /\ location.hi = pos \div BYTE /\ pc' = "idle" /\ outside' = outside
    BY <1>12 DEF SetLo, Return
  <2>2. location'.hi = pos \div BYTE /\ location'.lo = pos % BYTE
    BY <2>1 DEF TypeOK, Halves
  <2>3. At(location') = pos BY <2>2, Apart DEF At, TypeOK
  <2> QED BY <2>1, <2>3
<1>13. CASE Scroll
  <2>1. SCREEN_SIZE - LINE_SIZE < SCREEN_SIZE - 1 BY Lines, Zenon
  <2> QED BY <1>13, <2>1 DEF Scroll
<1> QED BY <1>1, <1>2, <1>3, <1>4, <1>5, <1>6, <1>7, <1>8, <1>9, <1>10, <1>11, <1>12, <1>13
        DEF printing

\* A handler that prints between two texts leaves a cursor that can move on.
LEMMA MessageOnScreen ==
  ASSUME TypeOK, At(location) < SCREEN_SIZE - 1, Message
  PROVE  outside' = outside /\ At(location') < SCREEN_SIZE - 1
<1> DEFINE p == At(location)
           moved == (p + 1) % (BYTE * BYTE)
           set == IF moved >= SCREEN_SIZE - 1 THEN SCREEN_SIZE - LINE_SIZE ELSE moved
<1>1. p \in Words /\ p \in Nat BY AtWord, Numbers
<1>2. outside' = (outside \/ p \notin Cells)
      /\ location' = [hi |-> set \div BYTE, lo |-> set % BYTE]
  BY DEF Message, printf
<1>3. p < SCREEN_SIZE - 1 OBVIOUS
<1> HIDE DEF p
<1>4. p \in Cells BY <1>1, <1>3, InCells
<1>5. moved \in Words /\ moved \in Nat
  <2>1. p + 1 \in Nat BY <1>1
  <2> QED BY <2>1, Numbers
<1> HIDE DEF moved
<1>6. set \in Words /\ set < SCREEN_SIZE - 1 BY <1>5, Numbers, Lines
<1> HIDE DEF set
<1>7. At(location') = set BY <1>2, <1>6, Apart DEF At
<1> QED BY <1>2, <1>4, <1>6, <1>7 DEF TypeOK

\* The invariant of the screen, as a theorem of the specification.
LEMMA ScreenInvariant == Spec => []ScreenInv
<1>1. Init => ScreenInv
  <2> SUFFICES ASSUME Init PROVE ScreenInv OBVIOUS
  <2>1. At(location) = 0 /\ pc = "idle" /\ outside = FALSE
    BY Sizes DEF Init, ScreenInit, init_screen, At
  <2> QED BY <2>1, Lines DEF ScreenInv, CursorInv, Fetching, Storing
<1>2. TypeOK /\ ScreenInv /\ [Next]_vars => ScreenInv'
  <2> SUFFICES ASSUME TypeOK, ScreenInv, [Next]_vars, ~torn' PROVE ~outside' /\ CursorInv'
    BY DEF ScreenInv
  <2>1. ASSUME NEW jb \in Jobs, Display(jb) PROVE ~outside' /\ CursorInv'
    BY <2>1 DEF Display, Step, ScreenInv, CursorInv, Fetching, Storing, video
  <2>2. CASE printing
    <3>1. ~torn BY <2>2 DEF printing, GetSelectHi, GetHi, GetSelectLo, GetLo, display_carac,
            display_newline, printf_newline, read_line, SetSelectHi, SetHi, SetSelectLo,
            SetLo, Scroll, Select, Return, Step
    <3> QED BY <2>2, <3>1, PrintingOnScreen DEF ScreenInv
  <2>3. ASSUME NEW ms \in Delays, sleep(ms) PROVE ~outside' /\ CursorInv'
    BY <2>3 DEF sleep, ScreenInv, CursorInv, Fetching, Storing, video, locals, screenHistory
  <2>4. CASE SleepReturn
    BY <2>4 DEF SleepReturn, WakeUp, ScreenInv, CursorInv, Fetching, Storing, video, locals,
                screenHistory
  <2>5. CASE timer_handler
    BY <2>5 DEF timer_handler, Interrupted, ScreenInv, CursorInv, Fetching, Storing, locals
  <2>6. ASSUME Message PROVE pc \in {"idle", "sleep"} /\ ~outside' /\ At(location') < SCREEN_SIZE - 1
    <3>1. pc \in {"idle", "sleep"} /\ ~torn BY <2>6 DEF Message
    <3>2. At(location) < SCREEN_SIZE - 1 /\ ~outside
      BY <3>1 DEF ScreenInv, CursorInv, Fetching
    <3> QED BY <2>6, <3>1, <3>2, MessageOnScreen
  <2>7. CASE PrintingIrq
    BY <2>6, <2>7 DEF PrintingIrq, CursorInv, Fetching, Storing
  <2>8. CASE exception_handler
    BY <2>6, <2>8 DEF exception_handler, CursorInv, Fetching, Storing
  <2>9. CASE UNCHANGED vars
    BY <2>9 DEF vars, screenVars, video, locals, screenHistory, ScreenInv, CursorInv
  <2> QED BY <2>1, <2>2, <2>3, <2>4, <2>5, <2>7, <2>8, <2>9 DEF Next
<1> QED BY <1>1, <1>2, TypeCorrect, PTL DEF Spec

\* As long as no interrupt prints in the middle of a text, no character is
\* written outside of a screen of any size, and the cursor is never the high
\* byte of one position and the low byte of another.
THEOREM OnScreen == Spec => []StaysOnScreen
<1>1. ScreenInv => StaysOnScreen
  BY DEF ScreenInv, CursorInv, Fetching, StaysOnScreen
<1> QED BY <1>1, ScreenInvariant, PTL

\* read_line() never ends its buffer outside of it.
THEOREM LineFits == Spec => []ReadLineFits
<1>1. Init => ReadLineFits
  BY Lines DEF Init, ScreenInit, ReadLineFits
<1>2. TypeOK /\ ReadLineFits /\ [Next]_vars => ReadLineFits'
  <2> SUFFICES ASSUME TypeOK, ReadLineFits, [Next]_vars PROVE ReadLineFits' OBVIOUS
  <2>1. pos \in Nat BY Numbers DEF TypeOK
  <2>2. CASE read_line
    BY <2>1, <2>2, ReadLineEnd DEF ReadLineFits
  <2>3. CASE UNCHANGED terminator
    BY <2>3 DEF ReadLineFits
  <2>4. [Next]_vars => read_line \/ UNCHANGED terminator
    BY DEF Next, vars, screenVars, Display, printing, GetSelectHi, GetHi, GetSelectLo, GetLo,
           display_carac, display_newline, printf_newline, SetSelectHi, SetHi, SetSelectLo,
           SetLo, Scroll, Select, sleep, SleepReturn, WakeUp, timer_handler, PrintingIrq,
           exception_handler, Message, Interrupted
  <2> QED BY <2>2, <2>3, <2>4
<1> QED BY <1>1, <1>2, TypeCorrect, PTL DEF Spec

-----------------------------------------------------------------------------
(* The screen as lines of text *)

\* The cell of a line and a column, counted from 1.
CellAt(y, c) == (y - 1) * LINE_SIZE + c - 1

\* What the lines show of a text, without the cell of the clock.
LinesOf(t) == [y \in 1 .. COLUMN_SIZE |-> [c \in 1 .. LINE_SIZE |->
                 IF CellAt(y, c) = CLOCK THEN Blank ELSE t[CellAt(y, c)]]]

\* Texts that differ in the cell of the clock at most.
SameText(m, w) == \A c \in Cells \ {CLOCK} : m[c] = w[c]

\* A cell has one line and one column.
LEMMA CellHasPlace ==
  ASSUME NEW p \in Cells
  PROVE  /\ (p \div LINE_SIZE) + 1 \in 1 .. COLUMN_SIZE /\ (p % LINE_SIZE) + 1 \in 1 .. LINE_SIZE
         /\ CellAt((p \div LINE_SIZE) + 1, (p % LINE_SIZE) + 1) = p
         /\ p = LINE_SIZE * (p \div LINE_SIZE) + (p % LINE_SIZE)
<1> DEFINE q == p \div LINE_SIZE
           r == p % LINE_SIZE
<1>1. /\ LINE_SIZE \in Nat \ {0} /\ COLUMN_SIZE \in Nat \ {0} /\ p \in 0 .. LINE_SIZE * COLUMN_SIZE - 1
      /\ LINE_SIZE * COLUMN_SIZE \in Nat
  BY ScreenAssumption, Sizes DEF SCREEN_SIZE, Cells
<1>2. p = LINE_SIZE * q + r /\ q \in Int /\ r \in 0 .. LINE_SIZE - 1
  BY <1>1, ModDef, ModRange
<1>3. q \in Nat BY <1>1
<1> HIDE DEF q, r
<1>4. q < COLUMN_SIZE
  <2>1. LINE_SIZE * q < LINE_SIZE * COLUMN_SIZE
    <3>1. LINE_SIZE * q \in Int BY <1>1, <1>2
    <3> QED BY <3>1, <1>1, <1>2
  <2> SUFFICES ASSUME q >= COLUMN_SIZE PROVE FALSE BY <1>1, <1>2
  <2>2. PICK d \in Nat : q = COLUMN_SIZE + d
    <3>1. q - COLUMN_SIZE \in Nat /\ q = COLUMN_SIZE + (q - COLUMN_SIZE) BY <1>1, <1>2
    <3> QED BY <3>1
  <2>3. LINE_SIZE * q = LINE_SIZE * COLUMN_SIZE + LINE_SIZE * d /\ LINE_SIZE * d \in Nat
    BY <1>1, <2>2, Z3
  <2>4. LINE_SIZE * q \in Int /\ LINE_SIZE * COLUMN_SIZE \in Int BY <1>1, <1>2
  <2> QED BY <2>1, <2>3, <2>4
<1>5. q * LINE_SIZE = LINE_SIZE * q /\ LINE_SIZE * q \in Int BY <1>1, <1>2
<1>6. CellAt(q + 1, r + 1) = p
  <2>1. (q + 1) - 1 = q BY <1>2
  <2> QED BY <1>2, <1>5, <2>1 DEF CellAt
<1>7. q + 1 \in 1 .. COLUMN_SIZE /\ r + 1 \in 1 .. LINE_SIZE BY <1>1, <1>2, <1>3, <1>4
<1> QED BY <1>2, <1>6, <1>7 DEF q, r

\* And a line and a column have a cell, of their own.
LEMMA PlaceHasCell ==
  ASSUME NEW y \in 1 .. COLUMN_SIZE, NEW c \in 1 .. LINE_SIZE
  PROVE  /\ CellAt(y, c) \in Cells
         /\ CellAt(y, c) \div LINE_SIZE = y - 1 /\ CellAt(y, c) % LINE_SIZE = c - 1
         /\ CellAt(y, c) = LINE_SIZE * (y - 1) + (c - 1) /\ LINE_SIZE * (y - 1) \in Nat
         /\ y < COLUMN_SIZE => CellAt(y + 1, c) = CellAt(y, c) + LINE_SIZE
                               /\ CellAt(y, c) < SCREEN_SIZE - LINE_SIZE
         /\ y = COLUMN_SIZE => CellAt(y, c) >= SCREEN_SIZE - LINE_SIZE
<1> DEFINE q == y - 1
           r == c - 1
           L == LINE_SIZE * q
<1>1. LINE_SIZE \in Nat \ {0} /\ COLUMN_SIZE \in Nat \ {0} /\ q \in 0 .. COLUMN_SIZE - 1
      /\ r \in 0 .. LINE_SIZE - 1
  BY ScreenAssumption
<1>2. PICK d \in Nat : COLUMN_SIZE = q + 1 + d
  <2>1. COLUMN_SIZE - 1 - q \in Nat /\ COLUMN_SIZE = q + 1 + (COLUMN_SIZE - 1 - q) BY <1>1
  <2> QED BY <2>1
<1>3. LINE_SIZE * COLUMN_SIZE = L + LINE_SIZE + LINE_SIZE * d /\ LINE_SIZE * d \in Nat /\ L \in Nat
  BY <1>1, <1>2, Z3
<1>4. CellAt(y, c) = L + r
  <2>1. q * LINE_SIZE = L BY <1>1, Z3
  <2> QED BY <1>1, <1>3, <2>1 DEF CellAt
<1>5. d # 0 => LINE_SIZE * d >= LINE_SIZE BY <1>1, TimesMonotone
<1>6. d = 0 => LINE_SIZE * d = 0 BY <1>1
<1>7. y < COLUMN_SIZE => CellAt(y + 1, c) = L + LINE_SIZE + r
  <2>1. ((y + 1) - 1) * LINE_SIZE = L + LINE_SIZE
    <3>1. (y + 1) - 1 = q + 1 OBVIOUS
    <3>2. (q + 1) * LINE_SIZE = LINE_SIZE * q + LINE_SIZE BY <1>1, Z3
    <3> QED BY <3>1, <3>2
  <2> QED BY <1>1, <1>3, <2>1 DEF CellAt
<1>8. L + r \in Int BY <1>1, <1>3
<1>9. y < COLUMN_SIZE <=> d # 0 BY <1>1, <1>2
<1>10. SCREEN_SIZE = L + LINE_SIZE + LINE_SIZE * d BY <1>3 DEF SCREEN_SIZE
<1>11. (L + r) \div LINE_SIZE = q /\ (L + r) % LINE_SIZE = r
  <2>1. q \in Int BY <1>1
  <2>2. L + r = LINE_SIZE * q + r OBVIOUS
  <2> HIDE DEF L, q, r
  <2> QED BY <1>1, <1>8, <2>1, <2>2, DivUnique, ModUnique
<1>12. L = LINE_SIZE * (y - 1) /\ r = c - 1 /\ q = y - 1 OBVIOUS
<1> HIDE DEF L, q, r
<1>13. L + r \in Cells BY <1>1, <1>3, <1>10 DEF Cells
<1>14. y < COLUMN_SIZE => L + LINE_SIZE + r = (L + r) + LINE_SIZE /\ L + r < SCREEN_SIZE - LINE_SIZE
  BY <1>1, <1>3, <1>5, <1>9, <1>10
<1>15. y = COLUMN_SIZE => L + r >= SCREEN_SIZE - LINE_SIZE
  <2>1. y = COLUMN_SIZE => d = 0 BY <1>1, <1>2, <1>12
  <2> QED BY <1>1, <1>3, <1>6, <1>10, <2>1
<1> QED BY <1>3, <1>4, <1>7, <1>11, <1>12, <1>13, <1>14, <1>15

\* The cell of the clock is in the first line.
LEMMA ClockPlace ==
  ASSUME NEW y \in 1 .. COLUMN_SIZE, NEW c \in 1 .. LINE_SIZE
  PROVE  CellAt(y, c) = CLOCK <=> y = 1 /\ c = CLOCK + 1
<1>1. LINE_SIZE \in Nat /\ LINE_SIZE >= 2 /\ CLOCK = LINE_SIZE - 2 BY Sizes DEF CLOCK
<1>2. 1 \in 1 .. COLUMN_SIZE BY ScreenAssumption
<1>3. LINE_SIZE * 0 = 0 BY <1>1
<1>4. CellAt(1, CLOCK + 1) = CLOCK
  <2>1. CLOCK + 1 \in 1 .. LINE_SIZE BY <1>1
  <2>2. 1 - 1 = 0 /\ (CLOCK + 1) - 1 = CLOCK BY <1>1
  <2>3. CellAt(1, CLOCK + 1) = LINE_SIZE * (1 - 1) + ((CLOCK + 1) - 1) BY <1>2, <2>1, PlaceHasCell
  <2> QED BY <1>1, <1>3, <2>2, <2>3
<1>5. ASSUME CellAt(y, c) = CLOCK PROVE y = 1 /\ c = CLOCK + 1
  <2>1. CLOCK + 1 \in 1 .. LINE_SIZE BY <1>1
  <2>2. CellAt(1, CLOCK + 1) \div LINE_SIZE = 1 - 1
        /\ CellAt(1, CLOCK + 1) % LINE_SIZE = (CLOCK + 1) - 1
    BY <1>2, <2>1, PlaceHasCell
  <2>3. CellAt(y, c) \div LINE_SIZE = y - 1 /\ CellAt(y, c) % LINE_SIZE = c - 1 BY PlaceHasCell
  <2> QED BY <1>1, <1>4, <1>5, <2>2, <2>3
<1> QED BY <1>4, <1>5

\* Nobody sees what is under the clock.
LEMMA SameLines == ASSUME NEW m, NEW w, SameText(m, w) PROVE LinesOf(m) = LinesOf(w)
<1>1. \A y \in 1 .. COLUMN_SIZE, c \in 1 .. LINE_SIZE :
        CellAt(y, c) # CLOCK => m[CellAt(y, c)] = w[CellAt(y, c)]
  BY PlaceHasCell DEF SameText
<1> QED BY <1>1 DEF LinesOf

\* Covering touches a single cell.
LEMMA CoveredLines ==
  ASSUME NEW V, NEW r \in [1 .. COLUMN_SIZE -> [1 .. LINE_SIZE -> V]]
  PROVE  Text!Covered(r) = [y \in 1 .. COLUMN_SIZE |-> [c \in 1 .. LINE_SIZE |->
                              IF y = 1 /\ c = CLOCK + 1 THEN Blank ELSE r[y][c]]]
<1>1. 1 \in 1 .. COLUMN_SIZE /\ CLOCK + 1 \in 1 .. LINE_SIZE
  BY ScreenAssumption, Sizes DEF CLOCK
<1>2. Text!Covered(r) = [r EXCEPT ![1] = [r[1] EXCEPT ![CLOCK + 1] = Blank]]
  BY DEF Text!Covered
<1> DEFINE g == [y \in 1 .. COLUMN_SIZE |-> [c \in 1 .. LINE_SIZE |->
                   IF y = 1 /\ c = CLOCK + 1 THEN Blank ELSE r[y][c]]]
<1>3. [r[1] EXCEPT ![CLOCK + 1] = Blank] = g[1] BY <1>1
<1>4. ASSUME NEW y \in 1 .. COLUMN_SIZE, y # 1 PROVE r[y] = g[y] BY <1>4
<1> QED BY <1>1, <1>2, <1>3, <1>4

\* A character in its cell is one in its line and column, or is covered.
LEMMA WrittenLines ==
  ASSUME NEW V, NEW t \in [Cells -> V], NEW p \in Cells, NEW ch
  PROVE  LinesOf([t EXCEPT ![p] = ch])
           = Text!Covered([LinesOf(t) EXCEPT ![(p \div LINE_SIZE) + 1][(p % LINE_SIZE) + 1] = ch])
<1> DEFINE row == (p \div LINE_SIZE) + 1
           col == (p % LINE_SIZE) + 1
           m == [t EXCEPT ![p] = ch]
           r == [LinesOf(t) EXCEPT ![row][col] = ch]
<1>1. row \in 1 .. COLUMN_SIZE /\ col \in 1 .. LINE_SIZE /\ CellAt(row, col) = p BY CellHasPlace
<1>2. 1 \in 1 .. COLUMN_SIZE /\ CLOCK + 1 \in 1 .. LINE_SIZE
  BY ScreenAssumption, Sizes DEF CLOCK
<1>3. ASSUME NEW y \in 1 .. COLUMN_SIZE, NEW c \in 1 .. LINE_SIZE
      PROVE  CellAt(y, c) = p <=> y = row /\ c = col
  <2>1. CellAt(y, c) = p => y - 1 = p \div LINE_SIZE /\ c - 1 = p % LINE_SIZE BY PlaceHasCell
  <2> QED BY <1>1, <2>1
<1> HIDE DEF row, col
<1>4. ASSUME NEW y \in 1 .. COLUMN_SIZE, NEW c \in 1 .. LINE_SIZE
      PROVE  r[y][c] = IF y = row /\ c = col THEN ch
                       ELSE IF CellAt(y, c) = CLOCK THEN Blank ELSE t[CellAt(y, c)]
  BY <1>1 DEF LinesOf
<1> DEFINE W == V \cup {ch, Blank}
<1>5. r \in [1 .. COLUMN_SIZE -> [1 .. LINE_SIZE -> W]]
  <2>1. LinesOf(t) \in [1 .. COLUMN_SIZE -> [1 .. LINE_SIZE -> W]] BY PlaceHasCell DEF LinesOf
  <2>2. [LinesOf(t)[row] EXCEPT ![col] = ch] \in [1 .. LINE_SIZE -> W] BY <1>1, <2>1
  <2> QED BY <1>1, <2>1, <2>2
<1>6. ASSUME NEW y \in 1 .. COLUMN_SIZE, NEW c \in 1 .. LINE_SIZE
      PROVE  LinesOf(m)[y][c] = IF CellAt(y, c) = CLOCK THEN Blank
                                ELSE IF CellAt(y, c) = p THEN ch ELSE t[CellAt(y, c)]
  BY PlaceHasCell DEF LinesOf
<1> HIDE DEF m, r, W
<1>7. Text!Covered(r) = [y \in 1 .. COLUMN_SIZE |-> [c \in 1 .. LINE_SIZE |->
                           IF y = 1 /\ c = CLOCK + 1 THEN Blank ELSE r[y][c]]]
  BY <1>5, CoveredLines
<1>8. ASSUME NEW y \in 1 .. COLUMN_SIZE, NEW c \in 1 .. LINE_SIZE
      PROVE  LinesOf(m)[y][c] = IF y = 1 /\ c = CLOCK + 1 THEN Blank ELSE r[y][c]
  BY <1>3, <1>4, <1>6, ClockPlace
<1>9. LinesOf(m) = [y \in 1 .. COLUMN_SIZE |-> [c \in 1 .. LINE_SIZE |-> LinesOf(m)[y][c]]]
  BY DEF LinesOf
<1>10. LinesOf(m) = [y \in 1 .. COLUMN_SIZE |-> [c \in 1 .. LINE_SIZE |->
                       IF y = 1 /\ c = CLOCK + 1 THEN Blank ELSE r[y][c]]]
  <2> DEFINE g == [y \in 1 .. COLUMN_SIZE |-> [c \in 1 .. LINE_SIZE |->
                    IF y = 1 /\ c = CLOCK + 1 THEN Blank ELSE r[y][c]]]
  <2>1. ASSUME NEW y \in 1 .. COLUMN_SIZE PROVE LinesOf(m)[y] = g[y]
    BY <1>8, <1>9
  <2> QED BY <1>9, <2>1
<1> QED BY <1>7, <1>10 DEF m, r, row, col

\* Every text covers the cell of the clock itself.
LEMMA LinesCovered == ASSUME NEW t PROVE Text!Covered(LinesOf(t)) = LinesOf(t)
<1>1. 1 \in 1 .. COLUMN_SIZE /\ CLOCK + 1 \in 1 .. LINE_SIZE
  BY ScreenAssumption, Sizes DEF CLOCK
<1>2. LinesOf(t)[1][CLOCK + 1] = Blank BY <1>1, ClockPlace DEF LinesOf
<1>3. LinesOf(t)[1] = [LinesOf(t)[1] EXCEPT ![CLOCK + 1] = Blank] BY <1>1, <1>2 DEF LinesOf
<1>4. LinesOf(t) = [LinesOf(t) EXCEPT ![1] = LinesOf(t)[1]] BY <1>1 DEF LinesOf
<1> QED BY <1>1, <1>3, <1>4 DEF Text!Covered

\* A list without its first element and with another one behind it.
LEMMA MovedUp ==
  ASSUME NEW S, NEW n \in Nat \ {0}, NEW f \in [1 .. n -> S], NEW b \in S
  PROVE  Append(Tail(f), b) = [k \in 1 .. n |-> IF k = n THEN b ELSE f[k + 1]]
<1>1. f \in Seq(S) /\ Len(f) = n /\ f # << >>
  OBVIOUS
<1>2. Tail(f) \in Seq(S) /\ Len(Tail(f)) = n - 1 /\ \A k \in 1 .. n - 1 : Tail(f)[k] = f[k + 1]
  BY <1>1
<1>3. /\ Append(Tail(f), b) \in Seq(S) /\ Len(Append(Tail(f), b)) = n
      /\ \A k \in 1 .. n : Append(Tail(f), b)[k] = IF k = n THEN b ELSE f[k + 1]
  BY <1>2
<1>4. Append(Tail(f), b) \in [1 .. n -> S] BY <1>3, LenProperties
<1>5. Append(Tail(f), b) = [k \in 1 .. n |-> Append(Tail(f), b)[k]] BY <1>4
<1> QED BY <1>3, <1>5

\* What is scrolled has each line in the place of the one above it.
LEMMA ScrolledLines ==
  ASSUME NEW w, NEW V, NEW r \in [1 .. COLUMN_SIZE -> [1 .. LINE_SIZE -> V]], Blank \in V,
         \A y \in 2 .. COLUMN_SIZE, c \in 1 .. LINE_SIZE : r[y][c] = w[CellAt(y, c)]
  PROVE  LinesOf([c \in Cells |-> Scrolled(w, c)])
           = Text!Covered(Append(Tail(r), Text!BlankRow))
<1> DEFINE up == [y \in 1 .. COLUMN_SIZE |->
                    IF y = COLUMN_SIZE THEN Text!BlankRow ELSE r[y + 1]]
           m == [c \in Cells |-> Scrolled(w, c)]
<1>0. COLUMN_SIZE \in Nat \ {0} /\ LINE_SIZE \in Nat \ {0} BY ScreenAssumption
<1>1. Text!BlankRow \in [1 .. LINE_SIZE -> V] BY DEF Text!BlankRow
<1>2. Append(Tail(r), Text!BlankRow) = up
  <2> DEFINE S == [1 .. LINE_SIZE -> V]
  <2>1. r \in [1 .. COLUMN_SIZE -> S] /\ Text!BlankRow \in S BY <1>1
  <2> HIDE DEF S
  <2> QED BY <1>0, <2>1, MovedUp
<1>3. ASSUME NEW y \in 1 .. COLUMN_SIZE, NEW c \in 1 .. LINE_SIZE
      PROVE  m[CellAt(y, c)] = up[y][c]
  <2>1. CellAt(y, c) \in Cells BY PlaceHasCell
  <2>2. m[CellAt(y, c)] = Scrolled(w, CellAt(y, c)) BY <2>1
  <2>3. CASE y = COLUMN_SIZE
    <3>1. CellAt(y, c) >= SCREEN_SIZE - LINE_SIZE BY <2>3, PlaceHasCell
    <3>2. ~(CellAt(y, c) < SCREEN_SIZE - LINE_SIZE) BY <2>1, <3>1, Lines DEF Cells
    <3>3. m[CellAt(y, c)] = Blank BY <2>2, <3>2 DEF Scrolled
    <3> QED BY <2>3, <3>3 DEF Text!BlankRow
  <2>4. CASE y # COLUMN_SIZE
    <3>1. y < COLUMN_SIZE /\ y + 1 \in 2 .. COLUMN_SIZE BY <2>4, <1>0
    <3>2. CellAt(y + 1, c) = CellAt(y, c) + LINE_SIZE
          /\ CellAt(y, c) < SCREEN_SIZE - LINE_SIZE
      BY <3>1, PlaceHasCell
    <3>3. m[CellAt(y, c)] = w[CellAt(y + 1, c)] BY <2>2, <3>2 DEF Scrolled
    <3> QED BY <2>4, <3>1, <3>3
  <2> QED BY <2>3, <2>4
<1>4. up \in [1 .. COLUMN_SIZE -> [1 .. LINE_SIZE -> V]] BY <1>0, <1>1
<1>5. 1 \in 1 .. COLUMN_SIZE /\ CLOCK + 1 \in 1 .. LINE_SIZE
  BY ScreenAssumption, Sizes DEF CLOCK
<1> HIDE DEF m, up
<1>6. Text!Covered(up) = [y \in 1 .. COLUMN_SIZE |-> [c \in 1 .. LINE_SIZE |->
                           IF y = 1 /\ c = CLOCK + 1 THEN Blank ELSE up[y][c]]]
  BY <1>4, CoveredLines
<1>7. ASSUME NEW y \in 1 .. COLUMN_SIZE, NEW c \in 1 .. LINE_SIZE
      PROVE  (IF CellAt(y, c) = CLOCK THEN Blank ELSE m[CellAt(y, c)])
               = IF y = 1 /\ c = CLOCK + 1 THEN Blank ELSE up[y][c]
  BY <1>3, ClockPlace
<1>8. LinesOf(m) = Text!Covered(up) BY <1>6, <1>7 DEF LinesOf
<1> QED BY <1>2, <1>8 DEF m

-----------------------------------------------------------------------------
(* What a printing function does to the text it was called on *)

\* A character at the cursor moves it on by one, a newline to the next line:
\* the text w it leaves and the position n before the screen is scrolled.
Edited(s, w, n) ==
  \/ \E c \in Chars : w = [s.text EXCEPT ![s.at] = c] /\ n = s.at + 1
  \/ w = s.text /\ n = s.at + LINE_SIZE - (s.at % LINE_SIZE)

\* The screen m and the cursor p it ends with.
Results(s, m, p) ==
  \E w, n :
    /\ Edited(s, w, n)
    /\ IF n < SCREEN_SIZE - 1 THEN p = n /\ SameText(m, w)
       ELSE p = SCREEN_SIZE - LINE_SIZE /\ SameText(m, [c \in Cells |-> Scrolled(w, c)])

\* A screen between two texts.
Views == [text : [Cells -> Chars \cup Faces], at : {p \in Nat : p < SCREEN_SIZE - 1}]

\* The place of the next character.
LEMMA NextPlace ==
  ASSUME NEW p \in Nat, p < SCREEN_SIZE - 1
  PROVE  LET y == (p \div LINE_SIZE) + 1
             c == (p % LINE_SIZE) + 1
         IN  /\ c = LINE_SIZE \/ (y = COLUMN_SIZE /\ c = LINE_SIZE - 1)
                  <=> p + 1 >= SCREEN_SIZE - 1 \/ (p + 1) % LINE_SIZE = 0
             /\ p + 1 >= SCREEN_SIZE - 1 <=> y = COLUMN_SIZE /\ c = LINE_SIZE - 1
             /\ c = LINE_SIZE => y < COLUMN_SIZE /\ (p + 1) \div LINE_SIZE = y
                                 /\ (p + 1) % LINE_SIZE = 0
             /\ c # LINE_SIZE => (p + 1) \div LINE_SIZE = y - 1 /\ (p + 1) % LINE_SIZE = c
<1> DEFINE q == p \div LINE_SIZE
           r == p % LINE_SIZE
           L == LINE_SIZE * q
<1>0. p \in Cells BY InCells
<1>1. /\ LINE_SIZE \in Nat \ {0} /\ LINE_SIZE >= 2 /\ COLUMN_SIZE \in Nat \ {0}
      /\ q + 1 \in 1 .. COLUMN_SIZE /\ r + 1 \in 1 .. LINE_SIZE /\ p = L + r
  BY <1>0, ScreenAssumption, CellHasPlace
<1>2. q \in 0 .. COLUMN_SIZE - 1 /\ r \in 0 .. LINE_SIZE - 1
  <2>1. p \div LINE_SIZE \in Int /\ p % LINE_SIZE \in Int BY <1>1, ModDef, ModRange
  <2> QED BY <1>1, <2>1
<1>3. PICK d \in Nat : COLUMN_SIZE = q + 1 + d
  <2>1. COLUMN_SIZE - 1 - q \in Nat /\ COLUMN_SIZE = q + 1 + (COLUMN_SIZE - 1 - q)
    BY <1>1, <1>2
  <2> QED BY <2>1
<1>4. LINE_SIZE * COLUMN_SIZE = L + LINE_SIZE + LINE_SIZE * d /\ LINE_SIZE * d \in Nat /\ L \in Nat
  BY <1>1, <1>2, <1>3, Z3
<1>5. SCREEN_SIZE = L + LINE_SIZE + LINE_SIZE * d BY <1>4 DEF SCREEN_SIZE
<1>6. d # 0 => LINE_SIZE * d >= LINE_SIZE BY <1>1, TimesMonotone
<1>7. d = 0 => LINE_SIZE * d = 0 BY <1>1
<1>8. q + 1 = COLUMN_SIZE <=> d = 0 BY <1>1, <1>2, <1>3
<1>9. r # LINE_SIZE - 1 => (p + 1) \div LINE_SIZE = q /\ (p + 1) % LINE_SIZE = r + 1
  <2>1. r # LINE_SIZE - 1 => r + 1 \in 0 .. LINE_SIZE - 1 BY <1>1, <1>2
  <2>2. p + 1 = LINE_SIZE * q + (r + 1) BY <1>1, <1>2, <1>4
  <2>3. q \in Int /\ p + 1 \in Int BY <1>2
  <2> HIDE DEF q, r, L
  <2> QED BY <1>1, <2>1, <2>2, <2>3, DivUnique, ModUnique
<1>10. r = LINE_SIZE - 1 => (p + 1) \div LINE_SIZE = q + 1 /\ (p + 1) % LINE_SIZE = 0
  <2>1. LINE_SIZE * (q + 1) = L + LINE_SIZE BY <1>1, <1>2, Z3
  <2>2. r = LINE_SIZE - 1 => p + 1 = LINE_SIZE * (q + 1) + 0 BY <1>1, <1>2, <1>4, <2>1
  <2>3. q + 1 \in Int /\ p + 1 \in Int /\ 0 \in 0 .. LINE_SIZE - 1 BY <1>1, <1>2
  <2> HIDE DEF q, r, L
  <2> QED BY <1>1, <2>2, <2>3, DivUnique, ModUnique
<1> HIDE DEF L, q, r
<1>11. p + 1 >= SCREEN_SIZE - 1 <=> q + 1 = COLUMN_SIZE /\ r + 1 = LINE_SIZE - 1
  BY <1>1, <1>2, <1>4, <1>5, <1>6, <1>7, <1>8
<1>12. r + 1 = LINE_SIZE => q + 1 < COLUMN_SIZE
  BY <1>1, <1>2, <1>4, <1>5, <1>7, <1>8
<1>13. r + 1 = LINE_SIZE <=> r = LINE_SIZE - 1 BY <1>1, <1>2
<1>14. (p + 1) % LINE_SIZE = 0 <=> r + 1 = LINE_SIZE BY <1>1, <1>2, <1>9, <1>10
<1> QED BY <1>2, <1>9, <1>10, <1>11, <1>12, <1>13, <1>14 DEF q, r

\* The place after a newline.
LEMMA NextLinePlace ==
  ASSUME NEW p \in Nat, p < SCREEN_SIZE - 1
  PROVE  LET y == (p \div LINE_SIZE) + 1
             n == p + LINE_SIZE - (p % LINE_SIZE)
         IN  /\ n \in Nat /\ n <= SCREEN_SIZE
             /\ n >= SCREEN_SIZE - 1 <=> y = COLUMN_SIZE
             /\ n \div LINE_SIZE = y /\ n % LINE_SIZE = 0
<1> DEFINE q == p \div LINE_SIZE
           r == p % LINE_SIZE
           L == LINE_SIZE * q
<1>0. p \in Cells BY InCells
<1>1. /\ LINE_SIZE \in Nat \ {0} /\ LINE_SIZE >= 2 /\ COLUMN_SIZE \in Nat \ {0}
      /\ q + 1 \in 1 .. COLUMN_SIZE /\ r + 1 \in 1 .. LINE_SIZE /\ p = L + r
  BY <1>0, ScreenAssumption, CellHasPlace
<1>2. q \in 0 .. COLUMN_SIZE - 1 /\ r \in 0 .. LINE_SIZE - 1
  <2>1. p \div LINE_SIZE \in Int /\ p % LINE_SIZE \in Int BY <1>1, ModDef, ModRange
  <2> QED BY <1>1, <2>1
<1>3. PICK d \in Nat : COLUMN_SIZE = q + 1 + d
  <2>1. COLUMN_SIZE - 1 - q \in Nat /\ COLUMN_SIZE = q + 1 + (COLUMN_SIZE - 1 - q)
    BY <1>1, <1>2
  <2> QED BY <2>1
<1>4. LINE_SIZE * COLUMN_SIZE = L + LINE_SIZE + LINE_SIZE * d /\ LINE_SIZE * d \in Nat /\ L \in Nat
  BY <1>1, <1>2, <1>3, Z3
<1>5. SCREEN_SIZE = L + LINE_SIZE + LINE_SIZE * d BY <1>4 DEF SCREEN_SIZE
<1>6. d # 0 => LINE_SIZE * d >= LINE_SIZE BY <1>1, TimesMonotone
<1>7. d = 0 => LINE_SIZE * d = 0 BY <1>1
<1>8. q + 1 = COLUMN_SIZE <=> d = 0 BY <1>1, <1>2, <1>3
<1>9. p + LINE_SIZE - r = LINE_SIZE * (q + 1) + 0
  <2>1. LINE_SIZE * (q + 1) = L + LINE_SIZE BY <1>1, <1>2, Z3
  <2> HIDE DEF L, q, r
  <2> QED BY <1>1, <1>2, <1>4, <2>1
<1>10. p + LINE_SIZE - r = L + LINE_SIZE BY <1>1, <1>2, <1>4
<1>11. q + 1 \in Int /\ 0 \in 0 .. LINE_SIZE - 1 /\ p + LINE_SIZE - r \in Int BY <1>1, <1>2
<1> HIDE DEF L, q, r
<1> DEFINE n == p + LINE_SIZE - r
<1>12. n \div LINE_SIZE = q + 1 /\ n % LINE_SIZE = 0
  <2>1. n = LINE_SIZE * (q + 1) + 0 /\ n \in Int BY <1>9, <1>11
  <2> HIDE DEF n
  <2> QED BY <1>1, <1>11, <2>1, DivUnique, ModUnique
<1>13. n \in Nat /\ n <= SCREEN_SIZE /\ (n >= SCREEN_SIZE - 1 <=> q + 1 = COLUMN_SIZE)
  BY <1>1, <1>4, <1>5, <1>6, <1>7, <1>8, <1>10
<1> QED BY <1>12, <1>13 DEF q, r

\* The variables of the terminal are those of a view.
LEMMA MappedRows ==
  /\ [y \in 1 .. COLUMN_SIZE |-> CodeRow(y)] = LinesOf(shown.text)
  /\ [y \in 1 .. COLUMN_SIZE |-> CodeRow(y)]' = LinesOf(shown'.text)
BY DEF CodeRow, LinesOf, CellAt

\* The terminal's step to the next line, in these terms.
LEMMA MappedNextLine ==
  ASSUME NEW r,
         shown'.at % LINE_SIZE = 0,
         IF (shown.at \div LINE_SIZE) + 1 = COLUMN_SIZE
         THEN /\ LinesOf(shown'.text) = Text!Covered(Append(Tail(r), Text!BlankRow))
              /\ shown'.at \div LINE_SIZE = shown.at \div LINE_SIZE
         ELSE /\ LinesOf(shown'.text) = Text!Covered(r)
              /\ shown'.at \div LINE_SIZE = (shown.at \div LINE_SIZE) + 1
  PROVE  Text!NextLine(r)
BY MappedRows DEF Text!NextLine

\* What a printing function makes of the screen is a step of the terminal.
LEMMA StepOfTerminal ==
  ASSUME ~torn, ~torn', shown \in Views, Results(shown, shown'.text, shown'.at)
  PROVE  Text!Shows
<1> DEFINE y == (shown.at \div LINE_SIZE) + 1
           k == (shown.at % LINE_SIZE) + 1
           V == Chars \cup Faces
           R == LinesOf(shown.text)
<1>1. /\ shown.text \in [Cells -> V] /\ shown.at \in Nat /\ shown.at < SCREEN_SIZE - 1
      /\ shown.at \in Cells
  BY InCells DEF Views
<1>2. /\ y \in 1 .. COLUMN_SIZE /\ k \in 1 .. LINE_SIZE
      /\ LINE_SIZE \in Nat \ {0} /\ COLUMN_SIZE \in Nat \ {0}
  BY <1>1, CellHasPlace, ScreenAssumption
<1>3. PICK w, n :
        /\ Edited(shown, w, n)
        /\ IF n < SCREEN_SIZE - 1 THEN shown'.at = n /\ SameText(shown'.text, w)
           ELSE /\ shown'.at = SCREEN_SIZE - LINE_SIZE
                /\ SameText(shown'.text, [c \in Cells |-> Scrolled(w, c)])
  BY DEF Results
<1>4. /\ SameText(shown'.text, w) => LinesOf(shown'.text) = LinesOf(w)
      /\ SameText(shown'.text, [c \in Cells |-> Scrolled(w, c)])
           => LinesOf(shown'.text) = LinesOf([c \in Cells |-> Scrolled(w, c)])
  BY SameLines
<1>5. R \in [1 .. COLUMN_SIZE -> [1 .. LINE_SIZE -> V]] /\ Blank \in V
  BY <1>1, PlaceHasCell, ScreenAssumption DEF LinesOf
\* A line below the first one has no clock in it.
<1>6. ASSUME NEW z \in 2 .. COLUMN_SIZE, NEW c \in 1 .. LINE_SIZE
      PROVE  z \in 1 .. COLUMN_SIZE /\ R[z][c] = shown.text[CellAt(z, c)]
  <2>1. z \in 1 .. COLUMN_SIZE /\ z # 1 BY <1>2
  <2> QED BY <2>1, ClockPlace DEF LinesOf
\* The first cell of the last line.
<1>7. y = COLUMN_SIZE
        => /\ (SCREEN_SIZE - LINE_SIZE) \div LINE_SIZE = shown.at \div LINE_SIZE
           /\ (SCREEN_SIZE - LINE_SIZE) % LINE_SIZE = 0
  <2> DEFINE q == COLUMN_SIZE - 1
  <2>1. SCREEN_SIZE - LINE_SIZE = LINE_SIZE * q + 0
    <3>1. LINE_SIZE * COLUMN_SIZE = LINE_SIZE * q + LINE_SIZE /\ LINE_SIZE * q \in Int
      BY <1>2, Z3
    <3> HIDE DEF q
    <3> QED BY <1>2, <3>1 DEF SCREEN_SIZE
  <2>2. q \in Int /\ 0 \in 0 .. LINE_SIZE - 1 /\ SCREEN_SIZE - LINE_SIZE \in Int
    BY <1>2, Lines
  <2>3. shown.at \div LINE_SIZE \in Int BY <1>1, <1>2, ModDef
  <2>4. y = COLUMN_SIZE => q = shown.at \div LINE_SIZE BY <1>2, <2>3
  <2> HIDE DEF q, y
  <2>5. (SCREEN_SIZE - LINE_SIZE) \div LINE_SIZE = q /\ (SCREEN_SIZE - LINE_SIZE) % LINE_SIZE = 0
    BY <1>2, <2>1, <2>2, DivUnique, ModUnique
  <2> QED BY <2>4, <2>5
<1>8. shown.at \div LINE_SIZE \in Int BY <1>1, <1>2, ModDef
\* A newline.
<1>9. CASE w = shown.text /\ n = shown.at + LINE_SIZE - (shown.at % LINE_SIZE)
  <2>1. /\ n \in Nat /\ (n >= SCREEN_SIZE - 1 <=> y = COLUMN_SIZE)
        /\ n \div LINE_SIZE = y /\ n % LINE_SIZE = 0
    BY <1>1, <1>9, NextLinePlace
  <2>2. n < SCREEN_SIZE - 1 <=> y # COLUMN_SIZE BY <2>1, Lines
  <2>3. CASE y = COLUMN_SIZE
    <3>1. LinesOf(shown'.text) = Text!Covered(Append(Tail(R), Text!BlankRow))
      <4>1. LinesOf([c \in Cells |-> Scrolled(w, c)])
              = Text!Covered(Append(Tail(R), Text!BlankRow))
        <5>1. \A z \in 2 .. COLUMN_SIZE, c \in 1 .. LINE_SIZE : R[z][c] = w[CellAt(z, c)]
          BY <1>6, <1>9
        <5> HIDE DEF R, V
        <5> QED BY <1>5, <5>1, ScrolledLines
      <4>2. LinesOf(shown'.text) = LinesOf([c \in Cells |-> Scrolled(w, c)])
        BY <1>3, <1>4, <2>2, <2>3
      <4> QED BY <4>1, <4>2
    <3> HIDE DEF R
    <3>2. Text!NextLine(R) BY <1>3, <1>7, <2>2, <2>3, <3>1, MappedNextLine
    <3> QED BY <3>2, MappedRows DEF Text!Shows, Text!NewLine, R
  <2>4. CASE y # COLUMN_SIZE
    <3>1. LinesOf(shown'.text) = Text!Covered(R) BY <1>3, <1>4, <1>9, <2>2, <2>4, LinesCovered
    <3> HIDE DEF R
    <3>2. Text!NextLine(R) BY <1>3, <2>1, <2>2, <2>4, <3>1, MappedNextLine
    <3> QED BY <3>2, MappedRows DEF Text!Shows, Text!NewLine, R
  <2> QED BY <2>3, <2>4
\* A character.
<1>10. ASSUME NEW ch \in Chars, w = [shown.text EXCEPT ![shown.at] = ch], n = shown.at + 1
       PROVE  Text!Put(ch)
  <2> DEFINE r == [R EXCEPT ![y][k] = ch]
  <2>1. LinesOf(w) = Text!Covered(r) BY <1>1, <1>10, WrittenLines
  <2>2. /\ n >= SCREEN_SIZE - 1 <=> y = COLUMN_SIZE /\ k = LINE_SIZE - 1
        /\ k = LINE_SIZE => y < COLUMN_SIZE /\ n \div LINE_SIZE = y /\ n % LINE_SIZE = 0
        /\ k # LINE_SIZE => n \div LINE_SIZE = y - 1 /\ n % LINE_SIZE = k
    BY <1>1, <1>10, NextPlace
  <2>3. n \in Nat /\ (n < SCREEN_SIZE - 1 <=> ~(y = COLUMN_SIZE /\ k = LINE_SIZE - 1))
    BY <1>1, <1>10, <2>2, Lines
  <2>4. LINE_SIZE - 1 # LINE_SIZE BY <1>2
  <2>5. CASE y = COLUMN_SIZE /\ k = LINE_SIZE - 1
    <3>1. r \in [1 .. COLUMN_SIZE -> [1 .. LINE_SIZE -> V]] BY <1>2, <1>5
    <3>2. ASSUME NEW z \in 2 .. COLUMN_SIZE, NEW c \in 1 .. LINE_SIZE
          PROVE  r[z][c] = w[CellAt(z, c)]
      <4>1. z \in 1 .. COLUMN_SIZE /\ CellAt(z, c) \in Cells BY <1>6, PlaceHasCell
      <4>2. CellAt(z, c) = shown.at <=> z = y /\ c = k
        <5>1. CellAt(z, c) \div LINE_SIZE = z - 1 /\ CellAt(z, c) % LINE_SIZE = c - 1
          BY <4>1, PlaceHasCell
        <5>2. shown.at % LINE_SIZE \in Int
          <6>1. shown.at \in Int BY <1>1
          <6>2. shown.at % LINE_SIZE \in 0 .. LINE_SIZE - 1 BY <1>2, <6>1, ModRange
          <6> QED BY <1>2, <6>2
        <5>3. CellAt(y, k) = shown.at BY <1>1, CellHasPlace
        <5> QED BY <1>8, <4>1, <5>1, <5>2, <5>3
      <4>3. r[z][c] = IF z = y /\ c = k THEN ch ELSE R[z][c]
        <5> HIDE DEF R, y, k
        <5> QED BY <1>2, <1>5, <4>1
      <4>4. w[CellAt(z, c)] = IF CellAt(z, c) = shown.at THEN ch ELSE shown.text[CellAt(z, c)]
        BY <1>1, <1>10, <4>1
      <4>5. R[z][c] = shown.text[CellAt(z, c)] BY <1>6
      <4> QED BY <4>2, <4>3, <4>4, <4>5, Zenon
    <3> HIDE DEF r
    <3>3. LinesOf(shown'.text) = Text!Covered(Append(Tail(r), Text!BlankRow))
      <4>1. LinesOf([c \in Cells |-> Scrolled(w, c)])
              = Text!Covered(Append(Tail(r), Text!BlankRow))
        <5> HIDE DEF R, V
        <5> QED BY <1>5, <3>1, <3>2, ScrolledLines
      <4>2. LinesOf(shown'.text) = LinesOf([c \in Cells |-> Scrolled(w, c)])
        BY <1>3, <1>4, <2>3, <2>5
      <4> QED BY <4>1, <4>2
    <3>4. Text!NextLine(r) BY <1>3, <1>7, <2>3, <2>5, <3>3, MappedNextLine
    <3> QED BY <2>5, <3>4, MappedRows DEF Text!Put, Text!LineFull, r
  <2>6. CASE k = LINE_SIZE
    <3>1. LinesOf(shown'.text) = Text!Covered(r) BY <1>3, <1>4, <2>1, <2>3, <2>4, <2>6
    <3> HIDE DEF r
    <3>2. y # COLUMN_SIZE BY <1>2, <2>2, <2>6
    <3>3. Text!NextLine(r) BY <1>3, <2>2, <2>3, <2>4, <2>6, <3>1, <3>2, MappedNextLine
    <3> QED BY <2>6, <3>3, MappedRows DEF Text!Put, Text!LineFull, r
  <2>7. CASE k # LINE_SIZE /\ ~(y = COLUMN_SIZE /\ k = LINE_SIZE - 1)
    <3>1. LinesOf(shown'.text) = Text!Covered(r) BY <1>3, <1>4, <2>1, <2>3, <2>7
    <3>2. (shown'.at \div LINE_SIZE) + 1 = y /\ (shown'.at % LINE_SIZE) + 1 = k + 1
      BY <1>2, <1>3, <1>8, <2>2, <2>3, <2>7
    <3> QED BY <2>7, <3>1, <3>2, MappedRows DEF Text!Put, Text!LineFull
  <2> QED BY <2>5, <2>6, <2>7
<1> QED BY <1>3, <1>9, <1>10 DEF Edited, Text!Shows

\* Scrolling copies nothing out of the cell of the clock.
LEMMA SameAfter ==
  ASSUME NEW m, NEW w, SameText(m, w)
  PROVE  SameText([c \in Cells |-> Scrolled(m, c)], [c \in Cells |-> Scrolled(w, c)])
<1>1. ASSUME NEW c \in Cells \ {CLOCK} PROVE Scrolled(m, c) = Scrolled(w, c)
  <2>1. c < SCREEN_SIZE - LINE_SIZE => c + LINE_SIZE \in Cells \ {CLOCK}
    <3>1. c < SCREEN_SIZE - LINE_SIZE => c + LINE_SIZE \in Cells BY NextCell
    <3>2. c \in Nat /\ LINE_SIZE \in Nat BY Sizes DEF Cells
    <3>3. c + LINE_SIZE # CLOCK BY <3>2 DEF CLOCK
    <3> QED BY <3>1, <3>3
  <2> QED BY <2>1 DEF Scrolled, SameText
<1> QED BY <1>1 DEF SameText

-----------------------------------------------------------------------------
(* The text while somebody prints *)

\* What a function that prints has done so far: nothing until it has fetched
\* the cursor; then it has edited the text, scrolled it from the top to cell x,
\* and knows where the cursor goes.  The last view is the text it started from.
TextInv ==
  /\ shown \in Views
  /\ pc \notin {"scroll", "halted"} => x = 0
  /\ pc \in Fetching => shown.at = At(location) /\ SameText(cells, shown.text)
  /\ pc = "scroll" =>
       \E w, n : /\ Edited(shown, w, n) /\ n >= SCREEN_SIZE - 1
                 /\ \A c \in Cells \ {CLOCK} :
                      cells[c] = IF c < x THEN Scrolled(w, c) ELSE w[c]
  /\ pc \in Storing => Results(shown, cells, pos)

\* The position behind the last cell can be told from the first one: 2000 is
\* less than 65536.
PastEnd == SCREEN_SIZE < BYTE * BYTE

\* The steps before a function has edited the text, and those after it.
LEMMA CursorKeepsText ==
  ASSUME TypeOK, TextInv,
         \/ GetSelectHi \/ GetHi \/ GetSelectLo \/ GetLo
         \/ SetSelectHi \/ SetHi \/ SetSelectLo
  PROVE  TextInv' /\ shown' = shown
<1> USE DEF TextInv, Step, video, locals, Fetching, Storing
<1>1. CASE GetSelectHi \/ GetSelectLo \/ SetSelectHi \/ SetSelectLo
  BY <1>1 DEF GetSelectHi, GetSelectLo, SetSelectHi, SetSelectLo, Select
<1>2. CASE GetHi \/ GetLo
  BY <1>2 DEF GetHi, GetLo
<1>3. CASE SetHi
  BY <1>3 DEF SetHi
<1> QED BY <1>1, <1>2, <1>3

\* Where a function goes that has edited the text.
LEMMA MovedOn ==
  ASSUME TextInv, pc \in Fetching, NEW w, Edited(shown, w, pos'), SameText(cells', w),
         pos' \in Nat, shown' = shown, x' = x, pc' = Move(pos')
  PROVE  TextInv'
<1>1. CASE pos' < SCREEN_SIZE - 1
  <2>1. pc' = "set select hi" BY <1>1 DEF Move
  <2>2. Results(shown, cells', pos') BY <1>1 DEF Results
  <2> QED BY <2>1, <2>2 DEF TextInv, Fetching, Storing
<1>2. CASE ~(pos' < SCREEN_SIZE - 1)
  <2>1. pc' = "scroll" /\ pos' >= SCREEN_SIZE - 1 BY <1>2, Lines DEF Move
  <2>2. x' = 0 /\ shown \in Views BY DEF TextInv, Fetching
  <2>3. ASSUME NEW c \in Cells \ {CLOCK}
        PROVE  cells'[c] = IF c < x' THEN Scrolled(w, c) ELSE w[c]
    <3>1. ~(c < x') BY <2>2 DEF Cells
    <3> QED BY <3>1 DEF SameText
  <2> QED BY <2>1, <2>2, <2>3 DEF TextInv, Fetching, Storing
<1> QED BY <1>1, <1>2

\* A character appears in the cell of the cursor, which is one of the screen.
LEMMA CharacterEdits ==
  ASSUME TypeOK, CursorInv, TextInv, display_carac
  PROVE  TextInv' /\ shown' = shown
<1>1. /\ pc = "got" /\ pc \in Fetching /\ job \in Chars /\ shown' = shown /\ x' = x
      /\ pc' = Move(pos') /\ pos' = (pos + 1) % (BYTE * BYTE)
  BY DEF display_carac, Step, Fetching
<1>2. pos = shown.at /\ SameText(cells, shown.text) /\ pos \in Nat /\ pos < SCREEN_SIZE - 1
      /\ shown.text \in [Cells -> Chars \cup Faces]
  BY <1>1 DEF CursorInv, TextInv, Fetching, Views
<1>3. pos \in Cells BY <1>2, InCells
<1>4. pos' = pos + 1
  <2>1. pos + 1 \in 0 .. BYTE * BYTE - 1 /\ BYTE * BYTE \in Nat \ {0}
    <3>1. PICK b \in Nat : b = BYTE * BYTE BY Sizes
    <3> QED BY <1>2, <3>1, Sizes
  <2> QED BY <1>1, <2>1, ModSmall
<1>5. cells' = [cells EXCEPT ![pos] = job] BY <1>3 DEF display_carac
<1> DEFINE w == [shown.text EXCEPT ![shown.at] = job]
<1>6. SameText(cells', w)
  BY <1>2, <1>5 DEF SameText, TypeOK
<1>7. Edited(shown, w, pos') BY <1>1, <1>2, <1>4 DEF Edited
<1>8. pos' \in Nat BY <1>2, <1>4
<1> HIDE DEF w
<1> QED BY <1>1, <1>6, <1>7, <1>8, MovedOn

\* A newline leads to the next line, and never past the last word.
LEMMA NewlineEdits ==
  ASSUME PastEnd, TypeOK, CursorInv, TextInv, printf_newline
  PROVE  TextInv' /\ shown' = shown
<1> DEFINE n == pos + LINE_SIZE - (pos % LINE_SIZE)
<1>1. /\ pc = "got" /\ pc \in Fetching /\ shown' = shown /\ x' = x /\ cells' = cells
      /\ pc' = Move(pos') /\ pos' = n % (BYTE * BYTE)
  BY DEF printf_newline, Step, Fetching, video
<1>2. pos = shown.at /\ SameText(cells, shown.text) /\ pos \in Nat /\ pos < SCREEN_SIZE - 1
  BY <1>1 DEF CursorInv, TextInv, Fetching, Views
<1>3. n \in Nat /\ n <= SCREEN_SIZE BY <1>2, NextLinePlace
<1> HIDE DEF n
<1>4. pos' = n
  <2>1. PICK b \in Nat : b = BYTE * BYTE BY Sizes
  <2>2. n \in 0 .. b - 1 /\ b \in Nat \ {0} BY <1>3, <2>1, Sizes DEF PastEnd
  <2> QED BY <1>1, <2>1, <2>2, ModSmall
<1>5. Edited(shown, shown.text, pos') BY <1>2, <1>4 DEF Edited, n
<1> QED BY <1>1, <1>2, <1>3, <1>4, <1>5, MovedOn

\* A turn of the scrolling loop copies from a cell that is not scrolled yet.
LEMMA ScrollKeepsText ==
  ASSUME TypeOK, TextInv, Scroll
  PROVE  TextInv' /\ shown' = shown
<1>1. /\ pc = "scroll" /\ shown' = shown /\ x \in Cells /\ x \in Nat
      /\ cells' = [cells EXCEPT ![x] = Scrolled(cells, x)]
      /\ cells \in [Cells -> Chars \cup Faces]
  <2>1. x \in Cells /\ cells \in [Cells -> Chars \cup Faces] BY DEF TypeOK
  <2>2. x \in Nat BY <2>1 DEF Cells
  <2> QED BY <2>1, <2>2 DEF Scroll, Step
<1>2. PICK w, n : /\ Edited(shown, w, n) /\ n >= SCREEN_SIZE - 1
                  /\ \A c \in Cells \ {CLOCK} :
                       cells[c] = IF c < x THEN Scrolled(w, c) ELSE w[c]
  BY <1>1 DEF TextInv
<1>3. ASSUME NEW c \in Cells \ {CLOCK}
      PROVE  cells'[c] = IF c <= x THEN Scrolled(w, c) ELSE w[c]
  <2>1. c \in Nat BY DEF Cells
  <2>2. CASE c = x
    <3>1. cells'[c] = Scrolled(cells, c) BY <1>1, <2>2
    <3>2. c < SCREEN_SIZE - LINE_SIZE => cells[c + LINE_SIZE] = w[c + LINE_SIZE]
      <4>1. c < SCREEN_SIZE - LINE_SIZE => c + LINE_SIZE \in Cells BY NextCell
      <4>2. c + LINE_SIZE # CLOCK /\ ~(c + LINE_SIZE < x) BY <2>1, <2>2, Sizes DEF CLOCK
      <4> QED BY <1>2, <4>1, <4>2
    <3>3. Scrolled(cells, c) = Scrolled(w, c) BY <3>2 DEF Scrolled
    <3> QED BY <1>1, <2>2, <3>1, <3>3
  <2>3. CASE c # x
    <3>1. cells'[c] = cells[c] BY <1>1, <2>3
    <3>2. c < x <=> c <= x BY <1>1, <2>1, <2>3
    <3> QED BY <1>2, <3>1, <3>2
  <2> QED BY <2>2, <2>3
<1>4. CASE x = SCREEN_SIZE - 1
  <2>1. pc' = "set select hi" /\ x' = 0 /\ pos' = SCREEN_SIZE - LINE_SIZE
    BY <1>4 DEF Scroll, Step
  <2>2. SameText(cells', [c \in Cells |-> Scrolled(w, c)])
    <3>1. \A c \in Cells : c <= x BY <1>4, Lines DEF Cells
    <3> QED BY <1>3, <3>1 DEF SameText
  <2>3. Results(shown, cells', pos')
    <3>1. ~(n < SCREEN_SIZE - 1)
      <4>1. n \in Int
        <5>1. shown.at \in Nat BY DEF TextInv, Views
        <5>2. shown.at - (shown.at % LINE_SIZE) \in Nat /\ shown.at % LINE_SIZE \in Int
          BY <5>1, LineStartEven, Lines
        <5> HIDE DEF TextInv
        <5> QED BY <1>2, <5>1, <5>2, Lines DEF Edited
      <4> QED BY <1>2, <4>1, Lines
    <3> QED BY <1>2, <2>1, <2>2, <3>1 DEF Results
  <2> QED BY <1>1, <2>1, <2>3 DEF TextInv, Fetching, Storing
<1>5. CASE x # SCREEN_SIZE - 1
  <2>1. pc' = "scroll" /\ x' = x + 1
    BY <1>5 DEF Scroll, Step
  <2>2. ASSUME NEW c \in Cells \ {CLOCK}
        PROVE  cells'[c] = IF c < x' THEN Scrolled(w, c) ELSE w[c]
    <3>1. c \in Nat BY DEF Cells
    <3>2. c < x' <=> c <= x BY <1>1, <2>1, <3>1
    <3> QED BY <1>3, <3>2
  <2> QED BY <1>1, <1>2, <2>1, <2>2 DEF TextInv, Fetching, Storing
<1> QED BY <1>4, <1>5

\* The function sets the cursor and returns.
LEMMA SetLoShows ==
  ASSUME TypeOK, CursorInv, TextInv, SetLo
  PROVE  TextInv' /\ Results(shown, shown'.text, shown'.at)
<1>1. /\ pc = "set lo" /\ pc' = "idle" /\ cells' = cells /\ x' = 0
      /\ shown' = View(cells', location')
      /\ location' = [location EXCEPT !["lo"] = pos % BYTE] /\ location.hi = pos \div BYTE
      /\ pos < SCREEN_SIZE - 1
  BY DEF SetLo, Return, Step, CursorInv, Storing
<1>2. At(location') = pos
  <2>1. location'.hi = pos \div BYTE /\ location'.lo = pos % BYTE BY <1>1 DEF TypeOK, Halves
  <2> QED BY <2>1, Apart DEF At, TypeOK
<1>3. shown'.text = cells /\ shown'.at = pos /\ shown' = [text |-> cells, at |-> pos]
  BY <1>1, <1>2 DEF View
<1>4. Results(shown, shown'.text, shown'.at) BY <1>1, <1>3 DEF TextInv, Storing
<1>5. shown' \in Views BY <1>1, <1>3, Numbers DEF Views, TypeOK
<1>6. shown'.at = At(location') /\ SameText(cells', shown'.text) BY <1>1, <1>2, <1>3 DEF SameText
<1> QED BY <1>1, <1>4, <1>5, <1>6 DEF TextInv, Fetching, Storing

\* A newline of puts(), and read_line(), leave the text as they found it.
LEMMA NothingShows ==
  ASSUME TypeOK, CursorInv, TextInv, display_newline \/ read_line
  PROVE  /\ TextInv'
         /\ shown'.at = shown.at /\ SameText(shown'.text, shown.text)
<1>1. /\ pc = "got" /\ pc' = "idle" /\ cells' = cells /\ location' = location /\ x' = 0
      /\ shown' = View(cells', location')
  BY DEF display_newline, read_line, Return, Step, video
<1>2. shown.at = At(location) /\ SameText(cells, shown.text) /\ shown \in Views
  BY <1>1 DEF TextInv, Fetching
<1>3. shown'.text = cells /\ shown'.at = At(location)
      /\ shown' = [text |-> cells, at |-> At(location)]
  BY <1>1 DEF View
<1>4. shown' \in Views BY <1>2, <1>3 DEF Views, TypeOK
<1>5. shown'.at = At(location') /\ SameText(cells', shown'.text) BY <1>1, <1>3 DEF SameText
<1> QED BY <1>1, <1>2, <1>3, <1>4, <1>5 DEF TextInv, Fetching, Storing

\* The timer draws into the cell of the clock.
LEMMA TimerKeepsText ==
  ASSUME TypeOK, TypeOK', CursorInv, TextInv, timer_handler
  PROVE  /\ TextInv'
         /\ shown'.at = shown.at /\ SameText(shown'.text, shown.text)
<1>1. /\ pc' = pc /\ pc # "halted" /\ location' = location /\ x' = x /\ pos' = pos
      /\ shown' = IF pc \in {"idle", "sleep"} THEN View(cells', location) ELSE shown
  BY DEF timer_handler, Interrupted, locals
<1>2. SameText(cells', cells)
  BY DEF timer_handler, time_graphic, SameText, TypeOK
<1>3. CASE pc \in {"idle", "sleep"}
  <2>1. shown.at = At(location) /\ SameText(cells, shown.text) /\ shown \in Views
    BY <1>3 DEF TextInv, Fetching
  <2>2. shown'.text = cells' /\ shown'.at = At(location)
        /\ shown' = [text |-> cells', at |-> At(location)]
    BY <1>1, <1>3 DEF View
  <2>3. shown' \in Views BY <2>1, <2>2 DEF Views, TypeOK
  <2>4. shown'.at = At(location') /\ SameText(cells', shown'.text) BY <1>1, <2>2 DEF SameText
  <2>5. SameText(shown'.text, shown.text) BY <1>2, <2>1, <2>2 DEF SameText
  <2> QED BY <1>1, <1>3, <2>1, <2>2, <2>3, <2>4, <2>5 DEF TextInv, Fetching, Storing
<1>4. CASE pc \notin {"idle", "sleep"}
  <2>1. shown' = shown BY <1>1, <1>4
  <2>2. pc \in Fetching => SameText(cells', shown.text)
    BY <1>2 DEF TextInv, SameText
  <2>3. ASSUME NEW s, NEW p, Results(s, cells, p) PROVE Results(s, cells', p)
    BY <1>2, <2>3 DEF Results, SameText
  <2>4. \A c \in Cells \ {CLOCK} : cells'[c] = cells[c] BY <1>2 DEF SameText
  <2>5. pc = "scroll" =>
          \E w, n : /\ Edited(shown, w, n) /\ n >= SCREEN_SIZE - 1
                    /\ \A c \in Cells \ {CLOCK} :
                         cells'[c] = IF c < x THEN Scrolled(w, c) ELSE w[c]
    BY <2>4 DEF TextInv
  <2>6. SameText(shown.text, shown.text) BY DEF SameText
  <2> QED BY <1>1, <2>1, <2>2, <2>3, <2>5, <2>6 DEF TextInv
<1> QED BY <1>3, <1>4

\* A message between two texts is one more character.
LEMMA MessageShows ==
  ASSUME TypeOK, TypeOK', CursorInv, TextInv, Message, pc \in {"idle", "sleep"},
         pc' \in {pc, "halted"}
  PROVE  TextInv' /\ Results(shown, shown'.text, shown'.at)
<1> DEFINE p == At(location)
           moved == (p + 1) % (BYTE * BYTE)
           bottom == moved >= SCREEN_SIZE - 1
           set == IF bottom THEN SCREEN_SIZE - LINE_SIZE ELSE moved
           written == IF p \in Cells THEN [cells EXCEPT ![p] = Alarm] ELSE cells
           w == [shown.text EXCEPT ![shown.at] = Alarm]
<1>1. /\ shown.at = p /\ SameText(cells, shown.text) /\ shown \in Views /\ x = 0
      /\ p \in Nat /\ p < SCREEN_SIZE - 1
  BY DEF TextInv, Fetching, Views
<1>2. /\ location' = [hi |-> set \div BYTE, lo |-> set % BYTE]
      /\ cells' = IF ~bottom THEN written
                  ELSE [c \in Cells |-> IF c < SCREEN_SIZE - LINE_SIZE
                                        THEN written[c + LINE_SIZE] ELSE Blank]
      /\ shown' = View(cells', location') /\ x' = x
  BY DEF Message, printf, Interrupted, locals
<1>3. p \in Cells BY <1>1, InCells
<1>4. moved = p + 1
  <2> HIDE DEF p
  <2>1. PICK b \in Nat : b = BYTE * BYTE BY Sizes
  <2>2. p + 1 \in 0 .. b - 1 /\ b \in Nat \ {0} BY <1>1, <2>1, Sizes
  <2> QED BY <2>1, <2>2, ModSmall
<1>5. SameText(written, w)
  <2>1. cells \in [Cells -> Chars \cup Faces] /\ shown.text \in [Cells -> Chars \cup Faces]
    BY <1>1 DEF TypeOK, Views
  <2>2. ASSUME NEW c \in Cells \ {CLOCK} PROVE written[c] = w[c]
    <3>1. cells[c] = shown.text[c] BY <1>1 DEF SameText
    <3>2. written[c] = IF c = p THEN Alarm ELSE cells[c] BY <1>3, <2>1
    <3>3. w[c] = IF c = p THEN Alarm ELSE shown.text[c] BY <1>1, <2>1
    <3> QED BY <3>1, <3>2, <3>3
  <2> QED BY <2>2 DEF SameText
<1>6. Edited(shown, w, moved) BY <1>1, <1>4, TimerAssumption DEF Edited
<1>7. set \in Words /\ set < SCREEN_SIZE - 1 /\ set \in Nat
  <2> HIDE DEF p
  <2>1. p + 1 \in Nat /\ moved \in Nat BY <1>1, <1>4
  <2>2. moved \in Words BY <2>1, Numbers
  <2> HIDE DEF moved
  <2> QED BY <2>1, <2>2, Numbers, Lines
<1>8. bottom <=> ~(moved < SCREEN_SIZE - 1)
  <2> HIDE DEF p
  <2>1. moved \in Nat BY <1>1, <1>4
  <2> HIDE DEF moved
  <2> QED BY <2>1, Lines
<1> HIDE DEF moved, p, w, written, bottom
<1>9. At(location') = set
  <2> HIDE DEF set
  <2> QED BY <1>2, <1>7, Apart DEF At
<1>10. shown'.text = cells' /\ shown'.at = set /\ shown' = [text |-> cells', at |-> set]
  BY <1>2, <1>9 DEF View
<1>11. Results(shown, cells', set)
  <2>1. CASE bottom
    <3>1. cells' = [c \in Cells |-> Scrolled(written, c)] BY <1>2, <2>1 DEF Scrolled
    <3>2. SameText(cells', [c \in Cells |-> Scrolled(w, c)]) BY <1>5, <3>1, SameAfter
    <3> QED BY <1>6, <1>8, <2>1, <3>2 DEF Results
  <2>2. CASE ~bottom
    BY <1>2, <1>5, <1>6, <1>8, <2>2 DEF Results
  <2> QED BY <2>1, <2>2
<1> HIDE DEF set
<1>12. shown' \in Views BY <1>7, <1>10 DEF Views, TypeOK
<1>13. SameText(cells', shown'.text) BY <1>10 DEF SameText
<1> QED BY <1>1, <1>2, <1>9, <1>10, <1>11, <1>12, <1>13 DEF TextInv, Fetching, Storing

\* Views that show the same text are no step of the terminal.
LEMMA NothingMoves ==
  ASSUME shown'.at = shown.at, SameText(shown'.text, shown.text), torn' = torn
  PROVE  UNCHANGED Text!vars
<1>1. LinesOf(shown'.text) = LinesOf(shown.text) BY SameLines
<1> QED BY <1>1, MappedRows DEF Text!vars

\* Each step keeps the invariant, and is one of the terminal or none.
LEMMA StepKeepsText ==
  ASSUME PastEnd, TypeOK, TypeOK', ScreenInv, ~torn, ~torn', TextInv, [Next]_vars
  PROVE  TextInv' /\ [Text!Next]_(Text!vars)
<1>1. CursorInv BY DEF ScreenInv
<1>2. torn' = torn BY DEF TypeOK
<1>3. ASSUME shown' = shown PROVE UNCHANGED Text!vars
  <2>1. SameText(shown.text, shown.text) BY DEF SameText
  <2> QED BY <1>2, <1>3, <2>1, NothingMoves
<1>4. ASSUME Results(shown, shown'.text, shown'.at) PROVE Text!Next
  <2>1. shown \in Views BY DEF TextInv
  <2> QED BY <1>4, <2>1, StepOfTerminal DEF Text!Next
<1>5. ASSUME NEW jb \in Jobs, Display(jb) PROVE TextInv' /\ shown' = shown
  BY <1>5 DEF Display, Step, TextInv, Fetching, Storing, video
<1>6. CASE printing
  <2>1. CASE \/ GetSelectHi \/ GetHi \/ GetSelectLo \/ GetLo
             \/ SetSelectHi \/ SetHi \/ SetSelectLo
    BY <2>1, <1>3, CursorKeepsText
  <2>2. CASE display_carac
    BY <2>2, <1>1, <1>3, CharacterEdits
  <2>3. CASE printf_newline
    BY <2>3, <1>1, <1>3, NewlineEdits
  <2>4. CASE display_newline \/ read_line
    BY <2>4, <1>1, <1>2, NothingShows, NothingMoves
  <2>5. CASE SetLo
    BY <2>5, <1>1, <1>4, SetLoShows
  <2>6. CASE Scroll
    BY <2>6, <1>3, ScrollKeepsText
  <2> QED BY <1>6, <2>1, <2>2, <2>3, <2>4, <2>5, <2>6 DEF printing
<1>7. ASSUME NEW ms \in Delays, sleep(ms) PROVE TextInv' /\ shown' = shown
  BY <1>7 DEF sleep, TextInv, Fetching, Storing, video, locals, screenHistory
<1>8. CASE SleepReturn
  <2>1. TextInv' /\ shown' = shown
    BY <1>8 DEF SleepReturn, WakeUp, TextInv, Fetching, Storing, video, locals, screenHistory
  <2> QED BY <2>1, <1>3
<1>9. CASE timer_handler
  BY <1>9, <1>1, <1>2, TimerKeepsText, NothingMoves
<1>10. CASE PrintingIrq \/ exception_handler
  <2>1. Message /\ pc' \in {pc, "halted"} BY <1>10 DEF PrintingIrq, exception_handler
  <2>2. pc \in {"idle", "sleep"} BY <2>1 DEF Message
  <2> QED BY <2>1, <2>2, <1>1, <1>4, MessageShows
<1>11. CASE UNCHANGED vars
  <2>1. TextInv' /\ shown' = shown
    BY <1>11 DEF vars, screenVars, video, locals, screenHistory, TextInv
  <2> QED BY <2>1, <1>3
<1> QED BY <1>3, <1>5, <1>6, <1>7, <1>8, <1>9, <1>10, <1>11 DEF Next

\* The screen starts as the terminal does: empty, and the cursor at its start.
LEMMA StartOfTerminal == Init => TextInv /\ Text!Init
<1> SUFFICES ASSUME Init PROVE TextInv /\ Text!Init OBVIOUS
<1>1. /\ cells = [c \in Cells |-> Blank] /\ location = [hi |-> 0, lo |-> 0]
      /\ pc = "idle" /\ x = 0 /\ torn = FALSE /\ shown = View(cells, location)
  BY DEF Init, ScreenInit, init_screen
<1>2. At(location) = 0 BY <1>1, Sizes DEF At
<1>3. shown.text = cells /\ shown.at = 0 /\ shown = [text |-> cells, at |-> 0]
  BY <1>1, <1>2 DEF View
<1>4. shown \in Views BY <1>1, <1>3, ScreenAssumption, Lines DEF Views
<1>5. TextInv BY <1>1, <1>2, <1>3, <1>4 DEF TextInv, Fetching, Storing, SameText
<1>6. LinesOf(shown.text) = [y \in 1 .. COLUMN_SIZE |-> Text!BlankRow]
  BY <1>1, <1>3, PlaceHasCell DEF LinesOf, Text!BlankRow
<1>7. 0 \div LINE_SIZE = 0 /\ 0 % LINE_SIZE = 0
  <2>1. LINE_SIZE \in Nat \ {0} /\ 0 = LINE_SIZE * 0 + 0 /\ 0 \in 0 .. LINE_SIZE - 1 BY Lines
  <2> QED BY <2>1, DivUnique, ModUnique
<1> QED BY <1>1, <1>3, <1>5, <1>6, <1>7, MappedRows DEF Text!Init

\* A screen of any size that a word can address scrolls and wraps as a
\* terminal does, each character in one piece, whatever the timer and its clock
\* do between any two accesses, until an interrupt prints inside a text.
THEOREM ScreenIsTerminal == ASSUME PastEnd PROVE Spec => ImplementsTerminal
<1> DEFINE I == ~torn => TextInv
<1>1. Init => I /\ Text!Init BY StartOfTerminal
<1>2. TypeOK /\ TypeOK' /\ ScreenInv /\ I /\ [Next]_vars => I' /\ [Text!Next]_(Text!vars)
  <2> SUFFICES ASSUME TypeOK, TypeOK', ScreenInv, I, [Next]_vars
               PROVE  I' /\ [Text!Next]_(Text!vars)
    OBVIOUS
  <2>1. CASE torn'
    BY <2>1 DEF Text!Next, Text!Spoil
  <2>2. CASE ~torn'
    <3>1. ~torn
      BY <2>2 DEF Next, vars, screenVars, screenHistory, Display, printing, GetSelectHi, GetHi,
              GetSelectLo, GetLo, display_carac, display_newline, printf_newline, read_line,
              SetSelectHi, SetHi, SetSelectLo, SetLo, Scroll, Select, Return, Step, sleep,
              SleepReturn, WakeUp, timer_handler, PrintingIrq, exception_handler, Message
    <3> QED BY <2>2, <3>1, StepKeepsText
  <2> QED BY <2>1, <2>2
<1> QED BY <1>1, <1>2, TypeCorrect, ScreenInvariant, PTL DEF Spec, ImplementsTerminal, Text!Spec
=============================================================================
