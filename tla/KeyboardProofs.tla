--------------------------- MODULE KeyboardProofs ---------------------------
EXTENDS Keyboard, ModuloLemmas, TLAPS

\* The rows of both tables hold characters.
LEMMA RowsType ==
  /\ digits \in Seq(Chars) /\ upper \in Seq(Chars)
  /\ home \in Seq(Chars) /\ lower \in Seq(Chars)
  /\ shift_digits \in Seq(Chars) /\ shift_upper \in Seq(Chars)
  /\ shift_home \in Seq(Chars) /\ shift_lower \in Seq(Chars)
  /\ \A c \in Chars : <<c>> \in Seq(Chars)
<1>1. digits \in Seq(Chars) /\ upper \in Seq(Chars) BY DEF digits, upper, Chars
<1>2. home \in Seq(Chars) /\ lower \in Seq(Chars) BY DEF home, lower, Chars
<1>3. shift_digits \in Seq(Chars) /\ shift_upper \in Seq(Chars)
  BY DEF shift_digits, shift_upper, Chars
<1>4. shift_home \in Seq(Chars) /\ shift_lower \in Seq(Chars)
  BY DEF shift_home, shift_lower, Chars
<1> QED BY <1>1, <1>2, <1>3, <1>4

\* scan2char returns a character for every scan code.
LEMMA scan2charType == ASSUME NEW code \in ScanCodes, NEW s \in BOOLEAN
                       PROVE  scan2char(code, s) \in Chars
<1> DEFINE OK(r) == r.first \in Nat /\ r.chars \in Seq(Chars)
<1>1. \A first \in Nat, chars \in Seq(Chars) : OK(Row(first, chars)) BY DEF Row
<1>3. {8, 24, 25, 26, 27, 60} \subseteq Chars BY DEF Chars
<1>4. \A r \in map : OK(r)
  <2> HIDE DEF OK
  <2>1. OK(Row(1, digits)) /\ OK(Row(16, upper)) /\ OK(Row(30, home)) /\ OK(Row(44, lower))
    BY <1>1, RowsType
  <2>2. \A c \in Chars, first \in Nat : OK(Row(first, <<c>>)) BY <1>1, RowsType
  <2>3. /\ OK(Row(14, <<8>>)) /\ OK(Row(72, <<24>>)) /\ OK(Row(75, <<27>>))
        /\ OK(Row(77, <<26>>)) /\ OK(Row(80, <<25>>)) /\ OK(Row(86, <<60>>))
    BY <1>3, <2>2
  <2> QED BY <2>1, <2>3, Zenon DEF map
<1>5. \A r \in shift_map : OK(r)
  BY <1>1, <1>3, RowsType DEF shift_map
<1>6. ASSUME NEW t, \A r \in t : OK(r) PROVE Lookup(t, code) \in Chars
  <2>1. 0 \in Chars BY DEF Chars
  <2>2. ASSUME NEW r, OK(r), InRow(r, code) PROVE r.chars[code - r.first + 1] \in Chars
    BY <2>2 DEF InRow, ScanCodes
  <2> QED BY <1>6, <2>1, <2>2 DEF Lookup
<1> QED BY <1>4, <1>5, <1>6 DEF scan2char

-----------------------------------------------------------------------------
(* Type correctness *)

\* An index that advances stays inside the buffer.
LEMMA AdvanceType == ASSUME NEW i \in Slots PROVE Advance(i) \in Slots
<1>1. (i + 1) % UCHAR \in Int
  BY SizesAssumption, ModRange DEF Slots
<1> QED BY <1>1, SizesAssumption, ModRange DEF Advance, Slots

\* Both wraps of the counter stay in the range of an uchar_t.
LEMMA ByteType == ASSUME NEW i \in Bytes
                  PROVE  (i + 1) % UCHAR \in Bytes /\ (i - 1) % UCHAR \in Bytes
<1> DEFINE j == i + 1
           k == i - 1
<1>1. j \in Int /\ k \in Int BY DEF Bytes
<1> HIDE DEF j, k
<1>2. j % UCHAR \in Bytes /\ k % UCHAR \in Bytes
  BY <1>1, SizesAssumption, ModRange DEF Bytes
<1> QED BY <1>2 DEF j, k

\* The static variables, the registers and the histories keep their types.
THEOREM TypeCorrect == Spec => []TypeOK
<1>1. Init => TypeOK
  BY SizesAssumption DEF Init, keyboard_init, TypeOK, Slots, Bytes, Chars, Codes, ScanCodes
<1>2. TypeOK /\ [Next]_vars => TypeOK'
  <2> SUFFICES ASSUME TypeOK, [Next]_vars PROVE TypeOK' OBVIOUS
  <2> USE DEF TypeOK
  <2>1. ASSUME NEW k \in ScanCodes, NEW r \in BOOLEAN, Raise([key |-> k, release |-> r]),
               held' \in SUBSET Shifts
        PROVE  TypeOK'
    BY <2>1 DEF Raise, driver, reader, history, Codes
  <2>2. ASSUME NEW k \in Keys, PressKey(k) \/ ReleaseKey(k) PROVE TypeOK'
    BY <2>1, <2>2, KeysAssumption DEF PressKey, ReleaseKey
  <2>3. ASSUME NEW k \in Shifts, PressShift(k) \/ ReleaseShift(k) PROVE TypeOK'
    <3>1. k \in ScanCodes BY DEF Shifts, LSHIFT, RSHIFT, ScanCodes
    <3> QED BY <2>1, <2>3, <3>1 DEF PressShift, ReleaseShift
  <2>4. CASE StrayIrq \/ HandlerIgnored
    BY <2>4 DEF StrayIrq, HandlerIgnored, driver, reader, history
  <2>5. CASE HandlerRelease \/ HandlerShift \/ HandlerFull
    BY <2>5 DEF HandlerRelease, HandlerShift, HandlerFull, ReadScanCode, driver, reader
  <2>6. CASE HandlerPut
    <3>1. data.key \in ScanCodes BY DEF Codes
    <3>2. scan2char(data.key, shift) \in Chars BY <3>1, scan2charType
    <3>3. Advance(head) \in Slots BY AdvanceType
    <3>4. (size + 1) % UCHAR \in Bytes BY ByteType
    <3>5. /\ fifo_buffer' \in [Slots -> Chars] /\ accepted' \in Seq(Chars)
          /\ head' \in Slots /\ size' \in Bytes /\ overrun' \in BOOLEAN
      BY <2>6, <3>2, <3>3, <3>4 DEF HandlerPut
    <3> QED BY <2>6, <3>5 DEF HandlerPut, ReadScanCode, reader
  <2>7. CASE getc
    <3>1. Advance(tail) \in Slots BY AdvanceType
    <3>2. (rSize - 1) % UCHAR \in Bytes BY ByteType
    <3> USE DEF At, controller
    <3>3. CASE GetcCall \/ GetcWait BY <3>3 DEF GetcCall, GetcWait
    <3>4. CASE GetcTake BY <3>4, <3>1 DEF GetcTake
    <3>5. CASE GetcSlot
      <4>1. fifo_buffer[rTail] \in Chars OBVIOUS
      <4>2. delivered' \in Seq(Chars) BY <3>5, <4>1 DEF GetcSlot
      <4> QED BY <3>5, <4>2 DEF GetcSlot
    <3>6. CASE GetcLoad BY <3>6 DEF GetcLoad
    <3>7. CASE GetcStore BY <3>7, <3>2 DEF GetcStore
    <3> QED BY <2>7, <3>3, <3>4, <3>5, <3>6, <3>7 DEF getc
  <2>8. CASE UNCHANGED vars
    BY <2>8 DEF vars, driver, controller, reader, history
  <2> QED BY <2>2, <2>3, <2>4, <2>5, <2>6, <2>7, <2>8 DEF Next, keyboard_handler, HandlerKey
<1> QED BY <1>1, <1>2, PTL DEF Spec

-----------------------------------------------------------------------------
(* The ring buffer *)

\* An index stays the count of the keys it has passed, modulo the buffer: the
\* wrap of the uchar_t does not disturb it, the buffer being no larger.
LEMMA AdvanceCounts ==
  ASSUME NEW n \in Nat
  PROVE  Advance(n % KEY_BUFFER_SIZE) = (n + 1) % KEY_BUFFER_SIZE
<1> DEFINE B == KEY_BUFFER_SIZE
           r == n % B
           c == r + 1
<1>1. r \in 0 .. B - 1 BY SizesAssumption, ModRange
<1>2. (n + 1) % B = IF r = B - 1 THEN 0 ELSE c
  <2>1. B \in Nat \ {0} /\ n \in Int BY SizesAssumption
  <2> HIDE DEF B
  <2> QED BY <2>1, ModNext
<1>3. Advance(r) = (c % UCHAR) % B BY DEF Advance
<1> HIDE DEF r
<1>4. CASE r # B - 1
  <2>1. c \in 0 .. UCHAR - 1 /\ c \in 0 .. B - 1 BY <1>1, <1>4, SizesAssumption
  <2> HIDE DEF c
  <2>2. c % UCHAR = c /\ c % B = c BY <2>1, SizesAssumption, ModSmall
  <2> QED BY <1>2, <1>3, <1>4, <2>2 DEF r
<1>5. CASE r = B - 1 /\ B < UCHAR
  <2>1. c = B /\ c \in 0 .. UCHAR - 1 BY <1>5, SizesAssumption
  <2> HIDE DEF c
  <2>2. c % UCHAR = c BY <2>1, SizesAssumption, ModSmall
  <2>3. B % B = 0 BY SizesAssumption, ModZero
  <2> QED BY <1>2, <1>3, <1>5, <2>1, <2>2, <2>3 DEF r
<1>6. CASE r = B - 1 /\ B = UCHAR
  <2>1. c = UCHAR BY <1>6, SizesAssumption
  <2> HIDE DEF c
  <2>2. c % UCHAR = 0 /\ 0 % B = 0 BY <2>1, SizesAssumption, ModZero
  <2> QED BY <1>2, <1>3, <1>6, <2>2 DEF r
<1> QED BY <1>4, <1>5, <1>6, SizesAssumption

\* The two wraps of the counter.
LEMMA SizeUp == ASSUME NEW s \in Bytes
                PROVE  (s + 1) % UCHAR = IF s = UCHAR - 1 THEN 0 ELSE s + 1
<1>1. UCHAR \in Nat \ {0} /\ s \in Int BY SizesAssumption DEF Bytes
<1>2. s % UCHAR = s BY <1>1, ModSmall DEF Bytes
<1> QED BY <1>1, <1>2, ModNext

\* "size--" takes one from a counter that is not 0, and wraps a 0 to the top.
LEMMA SizeDown == ASSUME NEW s \in Bytes
                  PROVE  (s - 1) % UCHAR = IF s = 0 THEN UCHAR - 1 ELSE s - 1
<1> DEFINE t == s - 1
<1>1. t \in Int BY DEF Bytes
<1>2. CASE s = 0
  <2>1. t = UCHAR * (-1) + (UCHAR - 1) /\ UCHAR - 1 \in 0 .. UCHAR - 1
    BY <1>2, SizesAssumption
  <2> HIDE DEF t
  <2>2. t % UCHAR = UCHAR - 1 BY <1>1, <2>1, SizesAssumption, ModUnique
  <2> QED BY <1>2, <2>2 DEF t
<1>3. CASE s # 0
  <2>1. t \in 0 .. UCHAR - 1 BY <1>3, SizesAssumption DEF Bytes
  <2> HIDE DEF t
  <2>2. t % UCHAR = t BY <2>1, SizesAssumption, ModSmall
  <2> QED BY <1>3, <2>2 DEF t
<1> QED BY <1>2, <1>3

\* A step that leaves the buffer, its indices and getc() alone.
LEMMA RingUntouched ==
  ASSUME RingInv,
         UNCHANGED <<fifo_buffer, head, tail, size, reader, accepted, delivered, overrun>>
  PROVE  RingInv'
  BY DEF RingInv, IndexInv, ContentInv, SizeInv, Unread, Taken, reader

\* A key the handler stores lands in the slot after the unread ones: it keeps
\* what the driver maintains, or it overruns.
LEMMA PutKeepsRing ==
  ASSUME TypeOK, RingInv, HandlerPut PROVE RingInv'
<1> SUFFICES ASSUME ~overrun' PROVE IndexInv' /\ ContentInv' /\ SizeInv'
  BY DEF RingInv
<1> DEFINE B == KEY_BUFFER_SIZE
           a == Len(accepted)
           d == Len(delivered)
           c == scan2char(data.key, shift)
<1>1. ~overrun /\ Unread < B /\ IndexInv /\ ContentInv /\ SizeInv
  <2>1. ~overrun /\ ~ (Unread >= B) BY DEF HandlerPut
  <2>2. IndexInv /\ ContentInv /\ SizeInv BY <2>1 DEF RingInv
  <2>3. Unread \in Nat /\ B \in Nat BY <2>2, SizesAssumption DEF IndexInv
  <2> QED BY <2>1, <2>2, <2>3
<1>2. a \in Nat /\ d \in Nat /\ B \in Nat \ {0}
  BY SizesAssumption DEF TypeOK
<1>3. /\ accepted' = Append(accepted, c) /\ accepted' \in Seq(Chars)
      /\ Len(accepted') = a + 1 /\ accepted'[a + 1] = c
      /\ \A i \in 1 .. a : accepted'[i] = accepted[i]
  <2>1. data.key \in ScanCodes BY DEF TypeOK, Codes
  <2>2. c \in Chars BY <2>1, scan2charType DEF TypeOK
  <2> HIDE DEF c
  <2>3. accepted' = Append(accepted, c) BY DEF HandlerPut, c
  <2> QED BY <2>2, <2>3 DEF TypeOK
<1>4. /\ delivered' = delivered /\ tail' = tail /\ rpc' = rpc /\ rTail' = rTail /\ rSize' = rSize
      /\ Unread' = Unread + 1
  BY <1>2, <1>3 DEF HandlerPut, reader, Unread
<1>5. IndexInv'
  <2>1. head' = (a + 1) % B BY <1>1, <1>2, AdvanceCounts DEF HandlerPut, IndexInv
  <2>2. Unread' \in 0 .. B BY <1>1, <1>2, <1>4 DEF IndexInv, Unread
  <2>3. tail' = Taken' % B BY <1>1, <1>4 DEF IndexInv, Taken
  <2>4. rpc' = "slot" => rTail' = Len(delivered') % B BY <1>1, <1>4 DEF IndexInv
  <2> QED BY <1>3, <2>1, <2>2, <2>3, <2>4 DEF IndexInv
<1>6. ContentInv'
  <2>1. d <= a /\ a - d < B BY <1>1, <1>2 DEF IndexInv, Unread
  <2>2. \A i \in 1 .. d : delivered'[i] = accepted'[i]
    BY <1>1, <1>2, <1>3, <1>4, <2>1 DEF ContentInv
  <2>3. a % B \in Slots BY <1>2, ModRange DEF Slots
  <2>4. fifo_buffer' = [fifo_buffer EXCEPT ![a % B] = c]
    BY <1>1 DEF HandlerPut, IndexInv
  <2>5. ASSUME NEW i \in d + 1 .. a PROVE fifo_buffer'[(i - 1) % B] = accepted'[i]
    <3> DEFINE j == i - 1
    <3>1. j \in Nat /\ j < a /\ a - j < B /\ i \in 1 .. a BY <1>2, <2>1
    <3>2. fifo_buffer[j % B] = accepted[i] BY <1>1 DEF ContentInv
    <3> HIDE DEF j
    <3>3. j % B # a % B /\ j % B \in Slots BY <1>2, <3>1, ModApart, ModRange DEF Slots
    <3>4. fifo_buffer'[j % B] = fifo_buffer[j % B] BY <2>4, <3>3 DEF TypeOK
    <3> QED BY <1>3, <3>1, <3>2, <3>4 DEF j
  <2>6. fifo_buffer'[((a + 1) - 1) % B] = accepted'[a + 1]
    <3>1. (a + 1) - 1 = a BY <1>2
    <3>2. fifo_buffer'[a % B] = c BY <2>3, <2>4 DEF TypeOK
    <3> QED BY <1>3, <3>1, <3>2
  <2>7. \A i \in d + 1 .. a + 1 : i \in d + 1 .. a \/ i = a + 1 BY <1>2
  <2> HIDE DEF a, d, c, B
  <2> QED BY <1>3, <1>4, <2>2, <2>5, <2>6, <2>7 DEF ContentInv, B, d, a
<1>7. SizeInv'
  <2>1. size' = IF size = UCHAR - 1 THEN 0 ELSE size + 1
    BY SizeUp DEF HandlerPut, TypeOK
  <2>2. Unread \in Int /\ size \in Bytes /\ rSize \in Bytes BY <1>2 DEF Unread, TypeOK
  <2> QED BY <1>1, <1>4, <2>1, <2>2, SizesAssumption DEF SizeInv, Bytes
<1> QED BY <1>5, <1>6, <1>7

\* Every access of getc() keeps what the driver maintains.
LEMMA GetcKeepsRing ==
  ASSUME TypeOK, RingInv, getc PROVE RingInv'
<1> SUFFICES ASSUME ~overrun' PROVE IndexInv' /\ ContentInv' /\ SizeInv'
  BY DEF RingInv
<1> DEFINE B == KEY_BUFFER_SIZE
           a == Len(accepted)
           d == Len(delivered)
<1>1. ~overrun /\ IndexInv /\ ContentInv /\ SizeInv
  BY DEF RingInv, getc, GetcCall, GetcWait, GetcTake, GetcSlot, GetcLoad, GetcStore, At
<1>2. a \in Nat /\ d \in Nat /\ Unread = a - d /\ B \in Nat \ {0}
  BY SizesAssumption DEF TypeOK, Unread
<1>3. accepted' = accepted /\ head' = head /\ fifo_buffer' = fifo_buffer
  BY DEF getc, GetcCall, GetcWait, GetcTake, GetcSlot, GetcLoad, GetcStore, At
<1>4. CASE GetcCall \/ GetcWait
  <2>1. /\ delivered' = delivered /\ tail' = tail /\ size' = size /\ rSize' = rSize
        /\ rpc' # "slot" /\ rpc # "slot" /\ rpc' \notin {"load", "store"}
        /\ rpc' = "take" => rpc = "wait" /\ size # 0
        /\ rpc' = "wait" => rpc = "idle"
    BY <1>4 DEF GetcCall, GetcWait, At
  <2>2. IndexInv' /\ ContentInv'
    BY <1>1, <1>3, <2>1 DEF IndexInv, ContentInv, Unread, Taken
  <2>3. SizeInv'
    BY <1>1, <1>2, <1>3, <1>4, <2>1 DEF SizeInv, Unread, TypeOK, Bytes, GetcCall, GetcWait, At
  <2> QED BY <2>2, <2>3
<1>5. CASE GetcTake
  <2>1. /\ delivered' = delivered /\ size' = size /\ rpc' = "slot" /\ rpc = "take"
        /\ rTail' = tail /\ tail' = Advance(tail)
    BY <1>5 DEF GetcTake, At
  <2>2. tail = d % B BY <1>1, <1>2, <2>1 DEF IndexInv, Taken
  <2>3. tail' = (d + 1) % B BY <1>2, <2>1, <2>2, AdvanceCounts
  <2>4. IndexInv' BY <1>1, <1>3, <2>1, <2>2, <2>3 DEF IndexInv, Unread, Taken
  <2> QED BY <1>1, <1>3, <2>1, <2>4 DEF ContentInv, SizeInv, Unread
<1>6. CASE GetcSlot
  <2>1. /\ delivered' = Append(delivered, fifo_buffer[rTail]) /\ tail' = tail /\ size' = size
        /\ rpc' = "load" /\ rpc = "slot"
    BY <1>6 DEF GetcSlot, At
  <2>2. rTail = d % B /\ tail = (d + 1) % B /\ d < a /\ a - d <= B
    BY <1>1, <1>2, <2>1 DEF IndexInv, Taken, SizeInv
  <2>3. fifo_buffer[rTail] = accepted[d + 1]
    <3>1. (d + 1) - 1 = d /\ d + 1 \in d + 1 .. a BY <1>2, <2>2
    <3> QED BY <1>1, <2>2, <3>1 DEF ContentInv
  <2>4. /\ delivered' \in Seq(Chars) /\ Len(delivered') = d + 1
        /\ delivered'[d + 1] = accepted[d + 1]
        /\ \A i \in 1 .. d : delivered'[i] = delivered[i]
    <3>1. fifo_buffer[rTail] \in Chars BY DEF TypeOK
    <3> QED BY <2>1, <2>3, <3>1 DEF TypeOK
  <2>5. Unread' = Unread - 1 BY <1>2, <1>3, <2>4 DEF Unread
  <2>6. IndexInv'
    BY <1>1, <1>2, <1>3, <2>1, <2>2, <2>4, <2>5 DEF IndexInv, Taken
  <2>7. ContentInv'
    <3>1. \A i \in 1 .. d + 1 : i \in 1 .. d \/ i = d + 1 BY <1>2
    <3>2. \A i \in (d + 1) + 1 .. a : i \in d + 1 .. a BY <1>2
    <3> HIDE DEF a, d
    <3> QED BY <1>1, <1>3, <2>4, <3>1, <3>2 DEF ContentInv, a, d
  <2>8. SizeInv'
    BY <1>1, <1>2, <2>1, <2>5 DEF SizeInv, TypeOK, Bytes
  <2> QED BY <2>6, <2>7, <2>8
<1>7. CASE GetcLoad
  <2>1. /\ delivered' = delivered /\ size' = size /\ tail' = tail /\ rSize' = size
        /\ rpc' = "store" /\ rpc = "load"
    BY <1>7 DEF GetcLoad, At
  <2> QED BY <1>1, <1>3, <2>1 DEF IndexInv, ContentInv, SizeInv, Unread, Taken
<1>8. CASE GetcStore
  <2>1. /\ delivered' = delivered /\ tail' = tail /\ rpc' = "idle" /\ rpc = "store"
        /\ size' = IF rSize = 0 THEN UCHAR - 1 ELSE rSize - 1
    BY <1>8, SizeDown DEF GetcStore, At, TypeOK
  <2>2. size' <= Unread BY <1>1, <1>2, <2>1, SizesAssumption DEF SizeInv, TypeOK, Bytes
  <2> QED BY <1>1, <1>3, <2>1, <2>2 DEF IndexInv, ContentInv, SizeInv, Unread, Taken
<1> QED BY <1>4, <1>5, <1>6, <1>7, <1>8 DEF getc

\* RingInv is inductive.
THEOREM RingCorrect == Spec => []RingInv
<1>1. Init => RingInv
  <2> SUFFICES ASSUME Init PROVE IndexInv /\ ContentInv /\ SizeInv BY DEF RingInv
  <2>1. 0 % KEY_BUFFER_SIZE = 0 BY SizesAssumption, ModZero
  <2> QED BY <2>1, SizesAssumption
      DEF Init, keyboard_init, IndexInv, ContentInv, SizeInv, Unread, Taken
<1>2. TypeOK /\ RingInv /\ [Next]_vars => RingInv'
  <2> SUFFICES ASSUME TypeOK, RingInv, [Next]_vars PROVE RingInv' OBVIOUS
  <2>1. CASE HandlerPut BY <2>1, PutKeepsRing
  <2>2. CASE getc BY <2>2, GetcKeepsRing
  <2>3. ASSUME NEW k \in ScanCodes \cup Keys \cup Shifts, PressKey(k) \/ ReleaseKey(k) \/ PressShift(k) \/ ReleaseShift(k)
        PROVE  RingInv'
    BY <2>3, RingUntouched
       DEF PressKey, ReleaseKey, PressShift, ReleaseShift, Raise, driver, reader, history
  <2>4. CASE StrayIrq \/ HandlerIgnored \/ HandlerRelease \/ HandlerShift \/ HandlerFull
    BY <2>4, RingUntouched
       DEF StrayIrq, HandlerIgnored, HandlerRelease, HandlerShift, HandlerFull, ReadScanCode,
           driver, reader, history
  <2>5. CASE UNCHANGED vars
    BY <2>5, RingUntouched DEF vars, driver, history
  <2> QED BY <2>1, <2>2, <2>3, <2>4, <2>5 DEF Next, keyboard_handler, HandlerKey
<1> QED BY <1>1, <1>2, TypeCorrect, PTL DEF Spec

\* getc() returns the stored characters once each and in order until a key
\* overwrites an unread one.
THEOREM InOrder == Spec => []KeysInOrder
<1>1. TypeOK /\ RingInv => KeysInOrder
  BY DEF TypeOK, RingInv, IndexInv, ContentInv, KeysInOrder, Unread
<1> QED BY <1>1, TypeCorrect, RingCorrect, PTL

-----------------------------------------------------------------------------
(* Shift *)

\* With every scan code handled and no shift key down the driver is out of
\* shift, whatever the order of the two shift keys.
THEOREM ShiftNeverSticks == Spec => []ShiftReleased
<1> USE DEF ShiftInv
<1>1. Init => ShiftInv
  BY DEF Init, keyboard_init, Shifts, LSHIFT, RSHIFT
<1>2. TypeOK /\ ShiftInv /\ [Next]_vars => ShiftInv'
  <2> SUFFICES ASSUME TypeOK, ShiftInv, [Next]_vars PROVE ShiftInv' OBVIOUS
  <2>1. ASSUME NEW k \in Keys, PressKey(k) \/ ReleaseKey(k) PROVE ShiftInv'
    BY <2>1, KeysAssumption DEF PressKey, ReleaseKey, Raise, driver
  <2>2. ASSUME NEW k \in Shifts, PressShift(k) \/ ReleaseShift(k) PROVE ShiftInv'
    BY <2>2 DEF PressShift, ReleaseShift, Raise, driver
  <2>3. CASE StrayIrq \/ HandlerIgnored
    BY <2>3 DEF StrayIrq, HandlerIgnored, driver
  <2>4. CASE HandlerRelease \/ HandlerShift
    BY <2>4 DEF HandlerRelease, HandlerShift, ReadScanCode
  <2>5. CASE HandlerFull \/ HandlerPut
    BY <2>5 DEF HandlerFull, HandlerPut, ReadScanCode, driver
  <2>6. CASE getc
    BY <2>6 DEF getc, GetcCall, GetcWait, GetcTake, GetcSlot, GetcLoad, GetcStore, At, controller
  <2>7. CASE UNCHANGED vars
    BY <2>7 DEF vars, driver, controller
  <2> QED BY <2>1, <2>2, <2>3, <2>4, <2>5, <2>6, <2>7 DEF Next, keyboard_handler, HandlerKey
<1>3. ShiftInv => ShiftReleased BY DEF ShiftReleased
<1> QED BY <1>1, <1>2, <1>3, TypeCorrect, PTL DEF Spec

-----------------------------------------------------------------------------
(* The driver implements KeyQueue *)

waitingBar == SubSeq(accepted, Len(delivered) + 1, Len(accepted))

\* The unread keys as a sequence.
LEMMA WaitingType ==
  ASSUME TypeOK, RingInv, ~overrun
  PROVE  /\ waitingBar \in Seq(Chars)
         /\ Len(waitingBar) = Unread
         /\ \A i \in 1 .. Unread : waitingBar[i] = accepted[Len(delivered) + i]
  BY DEF waitingBar, TypeOK, RingInv, IndexInv, Unread

\* What remains of a sequence after its first d elements.
LEMMA RestOf ==
  ASSUME NEW S, NEW s \in Seq(S), NEW d \in Nat, d <= Len(s)
  PROVE  /\ SubSeq(s, d + 1, Len(s)) \in Seq(S)
         /\ Len(SubSeq(s, d + 1, Len(s))) = Len(s) - d
         /\ \A i \in 1 .. Len(s) - d : SubSeq(s, d + 1, Len(s))[i] = s[d + i]
  OBVIOUS

\* A sequence is another with one more element.
LEMMA IsAppend ==
  ASSUME NEW S, NEW s \in Seq(S), NEW t \in Seq(S), NEW c \in S,
         Len(t) = Len(s) + 1, t[Len(s) + 1] = c, \A i \in 1 .. Len(s) : t[i] = s[i]
  PROVE  t = Append(s, c)
  OBVIOUS

\* Storing a key that overruns nothing is an Accept of the queue.
LEMMA PutImplements ==
  ASSUME TypeOK, TypeOK', RingInv, RingInv', HandlerPut, ~overrun'
  PROVE  Queue!Accept
<1> DEFINE c == scan2char(data.key, shift)
<1>1. c \in Chars
  <2>1. data.key \in ScanCodes BY DEF TypeOK, Codes
  <2> QED BY <2>1, scan2charType DEF TypeOK
<1> HIDE DEF c
<1>2. accepted' = Append(accepted, c) /\ delivered' = delivered
  BY DEF HandlerPut, c
<1>3. ~overrun /\ Unread \in Nat /\ Unread < KEY_BUFFER_SIZE
  <2>1. ~overrun /\ ~ (Unread >= KEY_BUFFER_SIZE) BY DEF HandlerPut
  <2>2. Unread \in Nat BY <2>1 DEF RingInv, IndexInv
  <2> QED BY <2>1, <2>2, SizesAssumption
<1>4. /\ waitingBar' \in Seq(Chars) /\ Len(waitingBar') = Unread + 1
      /\ \A i \in 1 .. Unread + 1 : waitingBar'[i] = accepted'[Len(delivered) + i]
  <2> DEFINE s == accepted'
             d == Len(delivered)
  <2>1. s \in Seq(Chars) /\ Len(s) = Len(accepted) + 1
    BY <1>1, <1>2 DEF TypeOK
  <2>2. d \in Nat /\ d <= Len(s) /\ Len(s) - d = Unread + 1
    BY <1>3, <2>1 DEF TypeOK, Unread
  <2>3. waitingBar' = SubSeq(s, d + 1, Len(s)) BY <1>2 DEF waitingBar
  <2>4. /\ SubSeq(s, d + 1, Len(s)) \in Seq(Chars)
        /\ Len(SubSeq(s, d + 1, Len(s))) = Len(s) - d
        /\ \A i \in 1 .. Len(s) - d : SubSeq(s, d + 1, Len(s))[i] = s[d + i]
    <3> HIDE DEF s, d
    <3> QED BY <2>1, <2>2, RestOf
  <2> QED BY <2>2, <2>3, <2>4
<1>5. \A i \in 1 .. Unread : accepted'[Len(delivered) + i] = accepted[Len(delivered) + i]
  BY <1>1, <1>2, <1>3 DEF TypeOK, Unread
<1>6. accepted'[Len(delivered) + (Unread + 1)] = c
  BY <1>1, <1>2, <1>3 DEF TypeOK, Unread
<1>7. waitingBar' = Append(waitingBar, c)
  <2>1. waitingBar \in Seq(Chars) /\ Len(waitingBar) = Unread BY <1>3, WaitingType
  <2>2. \A i \in 1 .. Unread : waitingBar'[i] = waitingBar[i]
    <3>1. \A i \in 1 .. Unread : waitingBar[i] = accepted[Len(delivered) + i]
      BY <1>3, WaitingType
    <3>2. \A i \in 1 .. Unread : i \in 1 .. Unread + 1 BY <1>3
    <3> QED BY <1>4, <1>5, <3>1, <3>2
  <2>3. waitingBar'[Unread + 1] = c BY <1>3, <1>4, <1>6
  <2> QED BY <1>1, <1>4, <2>1, <2>2, <2>3, IsAppend
<1> QED BY <1>1, <1>2, <1>3, <1>7, WaitingType DEF Queue!Accept, waitingBar

\* Taking a key from its slot is a Return of the queue.
LEMMA SlotImplements ==
  ASSUME TypeOK, TypeOK', RingInv, RingInv', GetcSlot, ~overrun
  PROVE  Queue!Return
<1>1. /\ accepted' = accepted /\ overrun' = overrun /\ rpc = "slot"
      /\ delivered' = Append(delivered, fifo_buffer[rTail])
  BY DEF GetcSlot, At
<1>2. Unread \in Nat /\ Unread >= 1 BY <1>1 DEF RingInv, IndexInv, SizeInv
<1>3. fifo_buffer[rTail] \in Chars BY DEF TypeOK
<1>4. /\ Len(delivered') = Len(delivered) + 1
      /\ delivered'[Len(delivered) + 1] = fifo_buffer[rTail]
  BY <1>1, <1>3 DEF TypeOK
<1>5. Len(delivered) + 1 \in 1 .. Len(delivered') BY <1>4 DEF TypeOK
<1>6. fifo_buffer[rTail] = accepted[Len(delivered) + 1]
  BY <1>1, <1>4, <1>5 DEF RingInv, ContentInv
<1>7. waitingBar # << >> /\ Head(waitingBar) = accepted[Len(delivered) + 1]
  BY <1>2, WaitingType
<1>8. waitingBar' = Tail(waitingBar)
  <2>1. /\ waitingBar' \in Seq(Chars) /\ Len(waitingBar') = Unread - 1
        /\ \A i \in 1 .. Unread - 1 : waitingBar'[i] = accepted[(Len(delivered) + 1) + i]
    BY <1>1, <1>2, <1>4 DEF waitingBar, TypeOK, Unread
  <2>2. /\ Tail(waitingBar) \in Seq(Chars) /\ Len(Tail(waitingBar)) = Unread - 1
        /\ \A i \in 1 .. Unread - 1 : Tail(waitingBar)[i] = waitingBar[i + 1]
    BY <1>2, WaitingType
  <2>3. \A i \in 1 .. Unread - 1 : waitingBar[i + 1] = accepted[(Len(delivered) + 1) + i]
    <3>1. ASSUME NEW i \in 1 .. Unread - 1
          PROVE  i + 1 \in 1 .. Unread /\ Len(delivered) + (i + 1) = (Len(delivered) + 1) + i
      BY <1>2 DEF TypeOK
    <3> QED BY <3>1, WaitingType
  <2> QED BY <1>2, <2>1, <2>2, <2>3
<1> QED BY <1>1, <1>6, <1>7, <1>8 DEF Queue!Return, waitingBar

\* Up to an overrun every step of the driver is a step of the abstract queue
\* or changes nothing of it.
THEOREM Refinement == Spec => ImplementsQueue
<1>1. Init => Queue!Init
  BY DEF Init, Queue!Init
<1>2. TypeOK /\ TypeOK' /\ RingInv /\ RingInv' /\ [Next]_vars
        => [overrun' \/ Queue!Next]_(Queue!vars)
  <2> SUFFICES ASSUME TypeOK, TypeOK', RingInv, RingInv', [Next]_vars, ~overrun'
               PROVE  Queue!Next \/ UNCHANGED Queue!vars
    OBVIOUS
  <2>1. ASSUME UNCHANGED <<accepted, delivered>> PROVE UNCHANGED Queue!vars
    BY <2>1 DEF Queue!vars
  <2>2. CASE HandlerPut BY <2>2, PutImplements DEF Queue!Next
  <2>3. CASE GetcSlot
    <3>1. ~overrun BY <2>3 DEF GetcSlot, At
    <3> QED BY <2>3, <3>1, SlotImplements DEF Queue!Next
  <2>4. CASE GetcCall \/ GetcWait \/ GetcTake \/ GetcLoad \/ GetcStore
    BY <2>1, <2>4 DEF GetcCall, GetcWait, GetcTake, GetcLoad, GetcStore, At
  <2>5. CASE StrayIrq \/ HandlerIgnored \/ HandlerRelease \/ HandlerShift \/ HandlerFull
    BY <2>1, <2>5 DEF StrayIrq, HandlerIgnored, HandlerRelease, HandlerShift, HandlerFull, history
  <2>6. ASSUME NEW k, PressKey(k) \/ ReleaseKey(k) \/ PressShift(k) \/ ReleaseShift(k)
        PROVE  UNCHANGED Queue!vars
    BY <2>1, <2>6 DEF PressKey, ReleaseKey, PressShift, ReleaseShift, Raise, history
  <2>7. CASE UNCHANGED vars BY <2>1, <2>7 DEF vars, history
  <2> QED BY <2>2, <2>3, <2>4, <2>5, <2>6, <2>7 DEF Next, keyboard_handler, HandlerKey, getc
<1> QED BY <1>1, <1>2, TypeCorrect, RingCorrect, PTL DEF Spec, ImplementsQueue
=============================================================================
