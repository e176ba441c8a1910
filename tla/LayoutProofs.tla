---------------------------- MODULE LayoutProofs ----------------------------
(***************************************************************************)
(* Theorems about the layout of an image, for bytes, blocks and images of  *)
(* any size, whatever is added, deleted or killed.                         *)
(***************************************************************************)
EXTENDS Layout, ModuloLemmas, TLAPS, FiniteSetTheorems

(* The bits of a byte *)

\* The recursive definition of Shift defines something: a table of n entries
\* can be continued by one.
LEMMA ShiftTable ==
  ASSUME NEW n \in Nat
  PROVE  \E f : f = [k \in 0 .. n |-> IF k = 0 THEN 1 ELSE 2 * f[k - 1]]
<1> DEFINE Defined(m) == \E f : f = [k \in 0 .. m |-> IF k = 0 THEN 1 ELSE 2 * f[k - 1]]
           missing == {m \in Nat : ~Defined(m)}
<1>1. Defined(0)
  <2> DEFINE f == [k \in 0 .. 0 |-> 1]
  <2>1. f = [k \in 0 .. 0 |-> IF k = 0 THEN 1 ELSE 2 * f[k - 1]] OBVIOUS
  <2> QED BY <2>1
<1>2. ASSUME NEW m \in Nat, Defined(m) PROVE Defined(m + 1)
  <2>1. PICK f : f = [k \in 0 .. m |-> IF k = 0 THEN 1 ELSE 2 * f[k - 1]] BY <1>2
  <2> DEFINE g == [k \in 0 .. m + 1 |-> IF k = m + 1 THEN 2 * f[m] ELSE f[k]]
  <2>2. ASSUME NEW k \in 0 .. m + 1
        PROVE  g[k] = IF k = 0 THEN 1 ELSE 2 * g[k - 1]
    <3>1. CASE k = m + 1 BY <3>1
    <3>2. CASE k # m + 1
      <4>1. k \in 0 .. m /\ (k # 0 => k - 1 \in 0 .. m /\ k - 1 # m + 1) BY <3>2
      <4>2. f[k] = IF k = 0 THEN 1 ELSE 2 * f[k - 1] BY <2>1, <4>1
      <4> QED BY <3>2, <4>1, <4>2
    <3> QED BY <3>1, <3>2
  <2>3. g = [k \in 0 .. m + 1 |-> IF k = 0 THEN 1 ELSE 2 * g[k - 1]] BY <2>2
  <2> QED BY <2>3
<1> HIDE DEF Defined
<1>3. missing = {}
  <2> SUFFICES ASSUME missing # {} PROVE FALSE OBVIOUS
  <2> DEFINE m == Min(missing)
  <2>1. m \in missing /\ \A x \in missing : m <= x BY MinIsLeast
  <2> HIDE DEF m
  <2>2. m \in Nat /\ m # 0 /\ ~Defined(m) BY <1>1, <2>1
  <2>3. m - 1 \in Nat /\ (m - 1) + 1 = m /\ ~(m <= m - 1) BY <2>2
  <2>4. Defined(m - 1) BY <2>1, <2>3
  <2>5. Defined((m - 1) + 1) BY <1>2, <2>3, <2>4
  <2> QED BY <2>2, <2>3, <2>5
<1> QED BY <1>3 DEF Defined

\* 1 << k doubles with k.
LEMMA ShiftDoubles ==
  /\ Shift[0] = 1
  /\ \A k \in 0 .. BITS : Shift[k] \in Nat \ {0}
  /\ \A k \in 0 .. BITS - 1 : Shift[k + 1] = 2 * Shift[k]
<1>1. BITS \in Nat \ {0} BY LayoutAssumption
<1>2. Shift = [k \in 0 .. BITS |-> IF k = 0 THEN 1 ELSE 2 * Shift[k - 1]]
  BY <1>1, ShiftTable DEF Shift
<1> DEFINE wrong == {k \in 0 .. BITS : Shift[k] \notin Nat \ {0}}
<1>3. wrong = {}
  <2> SUFFICES ASSUME wrong # {} PROVE FALSE OBVIOUS
  <2> DEFINE m == Min(wrong)
  <2>1. wrong \in SUBSET Nat OBVIOUS
  <2>2. m \in wrong /\ \A x \in wrong : m <= x BY <2>1, MinIsLeast
  <2> HIDE DEF m
  <2>3. m \in 0 .. BITS /\ Shift[m] \notin Nat \ {0} BY <2>2
  <2>4. m # 0 BY <1>2, <2>3
  <2>5. m - 1 \in 0 .. BITS /\ ~(m <= m - 1) BY <2>3, <2>4, <1>1
  <2>6. Shift[m - 1] \in Nat \ {0} BY <2>2, <2>5
  <2>7. Shift[m] = 2 * Shift[m - 1] BY <1>2, <2>3, <2>4
  <2> QED BY <2>3, <2>6, <2>7
<1>4. ASSUME NEW k \in 0 .. BITS - 1 PROVE Shift[k + 1] = 2 * Shift[k]
  <2>1. k + 1 \in 0 .. BITS /\ k + 1 # 0 /\ (k + 1) - 1 = k BY <1>1
  <2> QED BY <1>2, <2>1
<1>5. Shift[0] = 1 BY <1>1, <1>2
<1>6. \A k \in 0 .. BITS : Shift[k] \in Nat \ {0} BY <1>3
<1> QED BY <1>4, <1>5, <1>6

\* A multiple of the divisor goes over to the quotient.
LEMMA DivSum ==
  ASSUME NEW m \in Nat \ {0}, NEW a \in Nat, NEW q \in Nat
  PROVE  (a + m * q) \div m = a \div m + q
<1> DEFINE d == a \div m
           r == a % m
           s == a + m * q
<1>1. r \in 0 .. m - 1 BY ModRange
<1>2. a = m * d + r /\ d \in Int BY ModDef
<1> HIDE DEF d, r
<1>3. m * (d + q) = m * d + m * q BY <1>2, Z3
<1>4. m * q \in Nat /\ m * d \in Int /\ d + q \in Int BY <1>2
<1>5. s \in Int /\ s = m * (d + q) + r BY <1>1, <1>2, <1>3, <1>4
<1> HIDE DEF s
<1>6. s \div m = d + q BY <1>1, <1>4, <1>5, DivUnique
<1> QED BY <1>6 DEF s, d

\* The value of a higher bit is a multiple of twice the value of a lower one.
LEMMA ShiftMultiple ==
  ASSUME NEW m \in 0 .. BITS, NEW k \in 0 .. m - 1
  PROVE  \E q \in Nat : Shift[m] = Shift[k] * (2 * q)
<1>1. BITS \in Nat \ {0} BY LayoutAssumption
<1> DEFINE Times(j) == \E q \in Nat : Shift[j] = Shift[k] * (2 * q)
           other == {j \in k + 1 .. BITS : ~Times(j)}
<1>2. Shift[k] \in Nat /\ k \in Nat BY <1>1, ShiftDoubles
<1>3. Times(k + 1)
  <2>1. Shift[k + 1] = 2 * Shift[k] BY <1>1, ShiftDoubles
  <2>2. Shift[k + 1] = Shift[k] * (2 * 1) BY <1>2, <2>1
  <2> QED BY <2>2
<1>4. ASSUME NEW j \in k + 1 .. BITS - 1, Times(j) PROVE Times(j + 1)
  <2>1. PICK q \in Nat : Shift[j] = Shift[k] * (2 * q) BY <1>4
  <2>2. Shift[j + 1] = 2 * Shift[j] BY <1>1, <1>2, ShiftDoubles
  <2> DEFINE a == Shift[k]
  <2>3. a \in Nat BY <1>2
  <2> HIDE DEF a
  <2>4. 2 * (a * (2 * q)) = a * (2 * (2 * q)) BY <2>3, Z3
  <2>5. Shift[j + 1] = Shift[k] * (2 * (2 * q)) BY <2>1, <2>2, <2>4 DEF a
  <2>6. 2 * q \in Nat OBVIOUS
  <2> QED BY <2>5, <2>6, Zenon
<1> HIDE DEF Times
<1>5. other = {}
  <2> SUFFICES ASSUME other # {} PROVE FALSE OBVIOUS
  <2> DEFINE j == Min(other)
  <2>1. other \in SUBSET Nat BY <1>2
  <2>2. j \in other /\ \A x \in other : j <= x BY <2>1, MinIsLeast
  <2> HIDE DEF j
  <2>3. j \in k + 1 .. BITS /\ ~Times(j) BY <2>2
  <2>4. j # k + 1 BY <1>3, <2>3
  <2>5. j - 1 \in k + 1 .. BITS - 1 /\ (j - 1) + 1 = j /\ ~(j <= j - 1)
    BY <1>1, <1>2, <2>3, <2>4
  <2>6. j - 1 \in k + 1 .. BITS BY <2>5, <1>1, <1>2
  <2>7. Times(j - 1) BY <2>2, <2>5, <2>6
  <2>8. Times((j - 1) + 1) BY <1>4, <2>5, <2>7
  <2> QED BY <2>3, <2>5, <2>8
<1>6. m \in k + 1 .. BITS BY <1>1
<1>7. Times(m) BY <1>5, <1>6
<1> QED BY <1>7 DEF Times

\* Adding the value of a bit to a smaller number sets this bit and keeps those
\* below.
LEMMA SetBit ==
  ASSUME NEW m \in 0 .. BITS - 1, NEW v \in 0 .. Shift[m] - 1
  PROVE  /\ Bit(v + Shift[m], m) /\ ~Bit(v, m)
         /\ \A k \in 0 .. m - 1 : Bit(v + Shift[m], k) <=> Bit(v, k)
<1>1. BITS \in Nat \ {0} BY LayoutAssumption
<1>2. m \in 0 .. BITS /\ Shift[m] \in Nat \ {0} /\ v \in Nat BY <1>1, ShiftDoubles
<1>3. ~Bit(v, m)
  <2> DEFINE s == Shift[m]
  <2>1. s \in Nat \ {0} /\ v \in 0 .. s - 1 BY <1>2
  <2> HIDE DEF s
  <2>2. v = s * 0 + v BY <2>1
  <2>3. v \div s = 0 BY <2>1, <2>2, DivUnique
  <2> QED BY <2>3 DEF Bit, s
<1>4. Bit(v + Shift[m], m)
  <2> DEFINE s == Shift[m]
             w == v + s
  <2>1. s \in Nat \ {0} /\ v \in 0 .. s - 1 /\ w \in Int BY <1>2
  <2>2. w = s * 1 + v BY <2>1
  <2> HIDE DEF s, w
  <2>3. w \div s = 1 BY <2>1, <2>2, DivUnique
  <2> QED BY <2>3 DEF Bit, s, w
<1>5. ASSUME NEW k \in 0 .. m - 1
      PROVE  Bit(v + Shift[m], k) <=> Bit(v, k)
  <2>1. PICK q \in Nat : Shift[m] = Shift[k] * (2 * q) BY <1>2, ShiftMultiple
  <2> DEFINE s == Shift[k]
             d == v \div s
             t == 2 * q
  <2>2. k \in 0 .. BITS BY <1>1
  <2>3. s \in Nat \ {0} /\ t \in Nat BY <2>2, ShiftDoubles
  <2> HIDE DEF s, t
  <2>4. (v + s * t) \div s = d + t BY <1>2, <2>3, DivSum
  <2>5. d \in Int BY <1>2, <2>3, ModDef
  <2> HIDE DEF d
  <2>6. (d + 2 * q) % 2 = d % 2 BY <2>5, Z3
  <2>7. (v + Shift[m]) \div s = d + t BY <2>1, <2>4 DEF s, t
  <2> QED BY <2>6, <2>7 DEF Bit, s, d, t
<1> QED BY <1>3, <1>4, <1>5

\* There is a byte for each set of bits.
LEMMA ByteExists ==
  ASSUME NEW S, NEW m \in 0 .. BITS
  PROVE  \E v \in 0 .. Shift[m] - 1 : \A k \in 0 .. m - 1 : Bit(v, k) <=> k \in S
<1>1. BITS \in Nat \ {0} BY LayoutAssumption
<1> DEFINE Number(j) ==
             \E v \in 0 .. Shift[j] - 1 : \A k \in 0 .. j - 1 : Bit(v, k) <=> k \in S
           none == {j \in 0 .. BITS : ~Number(j)}
<1>2. Number(0)
  <2>1. 0 \in 0 .. Shift[0] - 1 BY ShiftDoubles
  <2>2. 0 .. 0 - 1 = {} OBVIOUS
  <2> QED BY <2>1, <2>2
<1>3. ASSUME NEW j \in 0 .. BITS - 1, Number(j) PROVE Number(j + 1)
  <2>1. PICK v \in 0 .. Shift[j] - 1 : \A k \in 0 .. j - 1 : Bit(v, k) <=> k \in S BY <1>3
  <2> DEFINE w == IF j \in S THEN v + Shift[j] ELSE v
  <2>2. Shift[j] \in Nat \ {0} /\ Shift[j + 1] = 2 * Shift[j] BY <1>1, ShiftDoubles
  <2>3. w \in 0 .. Shift[j + 1] - 1 BY <2>2
  <2>4. /\ Bit(v + Shift[j], j) /\ ~Bit(v, j)
        /\ \A k \in 0 .. j - 1 : Bit(v + Shift[j], k) <=> Bit(v, k)
    BY SetBit
  <2>5. \A k \in 0 .. (j + 1) - 1 : k = j \/ k \in 0 .. j - 1 BY <1>1
  <2>6. \A k \in 0 .. (j + 1) - 1 : Bit(w, k) <=> k \in S
    <3>1. CASE j \in S BY <3>1, <2>1, <2>4, <2>5, Zenon
    <3>2. CASE j \notin S BY <3>2, <2>1, <2>4, <2>5, Zenon
    <3> QED BY <3>1, <3>2
  <2> QED BY <2>3, <2>6
<1> HIDE DEF Number
<1>4. none = {}
  <2> SUFFICES ASSUME none # {} PROVE FALSE OBVIOUS
  <2> DEFINE j == Min(none)
  <2>1. none \in SUBSET Nat OBVIOUS
  <2>2. j \in none /\ \A x \in none : j <= x BY <2>1, MinIsLeast
  <2> HIDE DEF j
  <2>3. j \in 0 .. BITS /\ ~Number(j) BY <2>2
  <2>4. j # 0 BY <1>2, <2>3
  <2>5. j - 1 \in 0 .. BITS - 1 /\ j - 1 \in 0 .. BITS /\ (j - 1) + 1 = j /\ ~(j <= j - 1)
    BY <1>1, <2>3, <2>4
  <2>6. Number(j - 1) BY <2>2, <2>5
  <2>7. Number((j - 1) + 1) BY <1>3, <2>5, <2>6
  <2> QED BY <2>3, <2>5, <2>7
<1>5. Number(m) BY <1>4
<1> QED BY <1>5 DEF Number

\* The byte that is made of a set of bits has these bits.
LEMMA ByteBits ==
  ASSUME NEW S
  PROVE  /\ ByteOf(S) \in Nat
         /\ \A k \in 0 .. BITS - 1 : Bit(ByteOf(S), k) <=> k \in S
<1>1. BITS \in 0 .. BITS BY LayoutAssumption
<1>2. \E v \in 0 .. Shift[BITS] - 1 : \A k \in 0 .. BITS - 1 : Bit(v, k) <=> k \in S
  BY <1>1, ByteExists
<1>3. /\ ByteOf(S) \in 0 .. Shift[BITS] - 1
      /\ \A k \in 0 .. BITS - 1 : Bit(ByteOf(S), k) <=> k \in S
  BY <1>2, Zenon DEF ByteOf
<1>4. Shift[BITS] \in Nat BY <1>1, ShiftDoubles
<1> QED BY <1>3, <1>4

-----------------------------------------------------------------------------
(* Bitmaps and tables of an image *)

\* Byte and bit of a bit of n bytes.
LEMMA BitPlace ==
  ASSUME NEW n \in Nat, NEW b \in 0 .. BITS * n - 1
  PROVE  /\ b \in Nat /\ b \div BITS \in 0 .. n - 1 /\ b % BITS \in 0 .. BITS - 1
         /\ BITS * (b \div BITS) + (b % BITS) = b
<1>1. BITS \in Nat \ {0} BY LayoutAssumption
<1> DEFINE q == b \div BITS
           r == b % BITS
<1>2. b \in Nat /\ BITS * n \in Nat /\ b < BITS * n BY <1>1
<1>3. r \in 0 .. BITS - 1 BY <1>1, <1>2, ModRange
<1>4. b = BITS * q + r /\ q \in Int BY <1>1, <1>2, ModDef
<1>5. q >= 0 BY <1>1, <1>2, Z3
<1> HIDE DEF q, r
<1>6. q < n
  <2> SUFFICES ASSUME ~(q < n) PROVE FALSE OBVIOUS
  <2> DEFINE d == q - n
  <2>1. d \in Nat BY <1>4
  <2>2. BITS * q = BITS * n + BITS * d BY <1>1, <1>4, <2>1, Z3
  <2>3. BITS * d \in Nat /\ BITS * q \in Int BY <1>1, <1>4, <2>1
  <2> HIDE DEF d
  <2> QED BY <1>1, <1>2, <1>3, <1>4, <2>2, <2>3
<1> QED BY <1>2, <1>3, <1>4, <1>5, <1>6 DEF q, r

\* A cell of what is written holds it; a cell outside, padding included, stays.
LEMMA CellWritten ==
  ASSUME NEW s, NEW img, NEW block, NEW cells, NEW c \in Cells, Offset(s, block) \in Nat,
         c - Offset(s, block) + 1 \in 1 .. Len(cells)
  PROVE  blocks_write(s, img, block, cells)[c] = cells[c - Offset(s, block) + 1]
BY DEF blocks_write

LEMMA CellBefore ==
  ASSUME NEW s, NEW img, NEW block, NEW cells, NEW c \in Cells, Offset(s, block) \in Nat,
         c < Offset(s, block), Len(cells) \in Nat
  PROVE  blocks_write(s, img, block, cells)[c] = img[c]
<1>1. c \in Int BY LayoutAssumption DEF Cells
<1>2. /\ c - Offset(s, block) + 1 \notin 1 .. Len(cells)
      /\ c - Offset(s, block) + 1 \notin Len(cells) + 1 .. Len(cells) + Padding(s, Len(cells))
  BY <1>1
<1> QED BY <1>2 DEF blocks_write

LEMMA CellBehind ==
  ASSUME NEW s, NEW img, NEW block, NEW cells, NEW c \in Cells, Offset(s, block) \in Nat,
         Len(cells) \in Nat, Padding(s, Len(cells)) \in Nat,
         Offset(s, block) + Len(cells) + Padding(s, Len(cells)) <= c
  PROVE  blocks_write(s, img, block, cells)[c] = img[c]
<1>1. c \in Int BY LayoutAssumption DEF Cells
<1>2. /\ c - Offset(s, block) + 1 \notin 1 .. Len(cells)
      /\ c - Offset(s, block) + 1 \notin Len(cells) + 1 .. Len(cells) + Padding(s, Len(cells))
  BY <1>1
<1> QED BY <1>2 DEF blocks_write

\* Numbers of cells that do not change are the same bitmap.
LEMMA SameBitmap ==
  ASSUME NEW s, NEW img, NEW new, NEW block, NEW count, Bytes(count) \in Nat,
         Offset(s, block) \in Nat, Offset(s, block) + Bytes(count) <= WORD,
         \A c \in Cells : Offset(s, block) <= c /\ c < Offset(s, block) + Bytes(count)
                            => new[c] = img[c]
  PROVE  bitmap_read(s, new, block, count) = bitmap_read(s, img, block, count)
<1>1. WORD \in Nat BY LayoutAssumption
<1> SUFFICES ASSUME NEW b \in 0 .. BITS * Bytes(count) - 1
             PROVE  new[Offset(s, block) + b \div BITS] = img[Offset(s, block) + b \div BITS]
  BY DEF bitmap_read
<1>2. b \div BITS \in 0 .. Bytes(count) - 1 BY BitPlace
<1>3. Offset(s, block) + b \div BITS \in Cells BY <1>1, <1>2 DEF Cells
<1> QED BY <1>2, <1>3

\* A bitmap that has been written is the one that is read.
LEMMA BitmapReadBack ==
  ASSUME NEW s, NEW img, NEW block, NEW count, Bytes(count) \in Nat,
         NEW bits \in SUBSET (0 .. BITS * Bytes(count) - 1),
         Offset(s, block) \in Nat, Offset(s, block) + Bytes(count) <= WORD,
         \A c \in Cells : img[c] \in Cell
  PROVE  bitmap_read(s, bitmap_write(s, img, block, count, bits), block, count) = bits
<1>1. WORD \in Nat BY LayoutAssumption
<1> DEFINE o == Offset(s, block)
           byte(j) == ByteOf({k \in 0 .. BITS - 1 : BITS * j + k \in bits})
           cells == [j \in 1 .. Bytes(count) |-> [img[o + j - 1] EXCEPT !.number = byte(j - 1)]]
           written == bitmap_write(s, img, block, count, bits)
<1>2. written = blocks_write(s, img, block, cells) BY DEF bitmap_write
<1>3. Len(cells) = Bytes(count) OBVIOUS
<1>4. ASSUME NEW b \in 0 .. BITS * Bytes(count) - 1
      PROVE  Bit(written[o + b \div BITS].number, b % BITS) <=> b \in bits
  <2> DEFINE q == b \div BITS
             r == b % BITS
             c == o + q
             S == {k \in 0 .. BITS - 1 : BITS * q + k \in bits}
  <2>1. /\ q \in 0 .. Bytes(count) - 1 /\ r \in 0 .. BITS - 1
        /\ BITS * q + r = b
    BY BitPlace
  <2> HIDE DEF q, r
  <2>2. c \in Cells /\ c - o + 1 = q + 1 /\ q + 1 \in 1 .. Bytes(count) /\ o + (q + 1) - 1 = c
        /\ (q + 1) - 1 = q
    BY <1>1, <2>1 DEF Cells
  <2>3. written[c] = cells[q + 1]
    <3> HIDE DEF cells, written, c, o
    <3> QED BY <1>2, <1>3, <2>2, CellWritten DEF o
  <2>4. cells[q + 1] = [img[c] EXCEPT !.number = ByteOf(S)] BY <2>2
  <2>5. img[c] \in Cell BY <2>2
  <2> HIDE DEF c, S, cells, written
  <2>6. written[c].number = ByteOf(S) BY <2>3, <2>4, <2>5 DEF Cell
  <2>7. Bit(ByteOf(S), r) <=> r \in S BY <2>1, ByteBits
  <2>8. r \in S <=> b \in bits BY <2>1 DEF S
  <2> QED BY <2>6, <2>7, <2>8 DEF c, q, r
<1> HIDE DEF written, o
<1>5. bitmap_read(s, written, block, count)
        = {b \in 0 .. BITS * Bytes(count) - 1 : Bit(written[o + b \div BITS].number, b % BITS)}
  BY DEF bitmap_read, o
<1> QED BY <1>4, <1>5 DEF written

\* Writing a bitmap keeps the types of the cells.
LEMMA BitmapWriteType ==
  ASSUME NEW s, NEW img, NEW block, NEW count, Bytes(count) \in Nat, NEW bits,
         Offset(s, block) \in Nat, \A c \in Cells : img[c] \in Cell
  PROVE  LET new == bitmap_write(s, img, block, count, bits)
         IN  DOMAIN new = Cells /\ \A c \in Cells : new[c] \in Cell
<1> DEFINE o == Offset(s, block)
           byte(j) == ByteOf({k \in 0 .. BITS - 1 : BITS * j + k \in bits})
           cells == [j \in 1 .. Bytes(count) |-> [img[o + j - 1] EXCEPT !.number = byte(j - 1)]]
           new == bitmap_write(s, img, block, count, bits)
<1>1. new = blocks_write(s, img, block, cells) BY DEF bitmap_write
<1>2. DOMAIN new = Cells BY <1>1 DEF blocks_write
<1>3. Len(cells) = Bytes(count) OBVIOUS
<1>4. ASSUME NEW c \in Cells PROVE new[c] \in Cell
  <2> DEFINE j == c - o + 1
  <2>1. c \in Nat BY LayoutAssumption DEF Cells
  <2>2. o + j - 1 = c BY <2>1
  <2>3. CASE j \in 1 .. Bytes(count)
    <3>1. new[c] = cells[j]
      <4> HIDE DEF cells, new
      <4> QED BY <1>1, <1>3, <2>3, CellWritten
    <3>2. cells[j] = [img[c] EXCEPT !.number = byte(j - 1)]
      <4> HIDE DEF j
      <4> QED BY <2>2, <2>3
    <3>3. byte(j - 1) \in Nat BY ByteBits, Zenon
    <3> HIDE DEF cells, new, byte, j
    <3> QED BY <3>1, <3>2, <3>3 DEF Cell
  <2>4. CASE j \notin 1 .. Bytes(count)
    <3>1. new[c] \in {Free, img[c]}
      <4> HIDE DEF cells
      <4> QED BY <1>1, <1>3, <2>4 DEF blocks_write
    <3>2. Free \in Cell
      <4>1. NoChars \in [DOMAIN NoChars -> Characters] BY DEF NoChars, Characters
      <4> QED BY <4>1 DEF Free, Cell
    <3> QED BY <3>1, <3>2
  <2> QED BY <2>3, <2>4
<1> HIDE DEF new
<1> QED BY <1>2, <1>4 DEF new

-----------------------------------------------------------------------------
(* The free blocks in order *)

\* How many elements lie up to b: the next one counts if it is one.
LEMMA UptoNext ==
  ASSUME NEW n \in Nat, NEW S \in SUBSET (0 .. n - 1), NEW b \in Nat
  PROVE  /\ IsFiniteSet(S) /\ Upto(S, b) \in Nat
         /\ Upto(S, b + 1) = IF b + 1 \in S THEN Upto(S, b) + 1 ELSE Upto(S, b)
         /\ Upto(S, 0) = IF 0 \in S THEN 1 ELSE 0
         /\ Upto(S, n) = Cardinality(S)
<1>1. IsFiniteSet(S)
  <2>1. IsFiniteSet(0 .. n - 1) BY FS_Interval
  <2> QED BY <2>1, FS_Subset
<1> DEFINE T(c) == {x \in S : x <= c}
<1>2. \A c \in Nat : IsFiniteSet(T(c)) /\ Cardinality(T(c)) \in Nat
  <2> SUFFICES ASSUME NEW c \in Nat
               PROVE  IsFiniteSet(T(c)) /\ Cardinality(T(c)) \in Nat
    OBVIOUS
  <2>1. T(c) \in SUBSET S OBVIOUS
  <2> HIDE DEF T
  <2> QED BY <1>1, <2>1, FS_Subset, FS_CardinalityType
<1>0. \A x \in S : x \in Nat /\ x <= n /\ (x <= b + 1 <=> x <= b \/ x = b + 1)
                    /\ (x <= 0 <=> x = 0)
  OBVIOUS
<1>3. T(b + 1) = IF b + 1 \in S THEN T(b) \cup {b + 1} ELSE T(b)
  <2>1. CASE b + 1 \in S BY <1>0, <2>1, Zenon
  <2>2. CASE b + 1 \notin S BY <1>0, <2>2, Zenon
  <2> QED BY <2>1, <2>2
<1>4. b + 1 \notin T(b) OBVIOUS
<1>5. T(0) = IF 0 \in S THEN {0} ELSE {}
  <2>1. CASE 0 \in S BY <1>0, <2>1, Zenon
  <2>2. CASE 0 \notin S BY <1>0, <2>2, Zenon
  <2> QED BY <2>1, <2>2
<1>6. T(n) = S BY <1>0, Zenon
<1>7. \A c : Upto(S, c) = Cardinality(T(c)) BY DEF Upto
<1> HIDE DEF T
<1>8. Cardinality(T(b + 1)) = IF b + 1 \in S THEN Cardinality(T(b)) + 1 ELSE Cardinality(T(b))
  BY <1>2, <1>3, <1>4, FS_AddElement
<1>9. Cardinality(T(0)) = IF 0 \in S THEN 1 ELSE 0
  BY <1>5, FS_EmptySet, FS_Singleton
<1> QED BY <1>1, <1>2, <1>6, <1>7, <1>8, <1>9

\* Ascending lists the elements of a set of numbers, each once.
LEMMA AscendingFacts ==
  ASSUME NEW n \in Nat, NEW S \in SUBSET (0 .. n - 1)
  PROVE  /\ IsFiniteSet(S) /\ Cardinality(S) \in Nat
         /\ Ascending(S) \in Seq(S) /\ Len(Ascending(S)) = Cardinality(S)
         /\ \A k \in 1 .. Cardinality(S) : Upto(S, Ascending(S)[k]) = k
<1>1. IsFiniteSet(S) BY UptoNext
<1>2. Cardinality(S) \in Nat BY <1>1, FS_CardinalityType
<1>3. ASSUME NEW k \in 1 .. Cardinality(S) PROVE \E b \in S : Upto(S, b) = k
  <2> DEFINE M == {c \in Nat : Upto(S, c) >= k}
             b == Min(M)
  <2>1. n \in M BY UptoNext, <1>2
  <2>2. M \in SUBSET Nat /\ M # {} BY <2>1
  <2>3. b \in M /\ \A x \in M : b <= x
    <3> HIDE DEF M
    <3> QED BY <2>2, MinIsLeast
  <2> HIDE DEF b
  <2>4. b \in Nat /\ Upto(S, b) >= k BY <2>3
  <2>5. CASE b = 0
    <3>1. Upto(S, 0) = IF 0 \in S THEN 1 ELSE 0 BY UptoNext
    <3> QED BY <2>4, <2>5, <3>1, <1>2
  <2>6. CASE b # 0
    <3> DEFINE p == b - 1
    <3>1. p \in Nat /\ p + 1 = b /\ ~(b <= p) BY <2>4, <2>6
    <3>2. Upto(S, p) \in Nat
          /\ Upto(S, p + 1) = IF p + 1 \in S THEN Upto(S, p) + 1 ELSE Upto(S, p)
      BY <3>1, UptoNext
    <3>3. ~(Upto(S, p) >= k) BY <2>3, <3>1
    <3> HIDE DEF p
    <3> QED BY <2>4, <3>1, <3>2, <3>3, <1>2
  <2> QED BY <2>5, <2>6
<1>4. \A k \in 1 .. Cardinality(S) :
        Ascending(S)[k] \in S /\ Upto(S, Ascending(S)[k]) = k
  <2> SUFFICES ASSUME NEW k \in 1 .. Cardinality(S)
               PROVE  Ascending(S)[k] \in S /\ Upto(S, Ascending(S)[k]) = k
    OBVIOUS
  <2>1. Ascending(S)[k] = CHOOSE b \in S : Upto(S, b) = k BY DEF Ascending
  <2> QED BY <1>3, <2>1, Zenon
<1>5. Ascending(S) = [k \in 1 .. Cardinality(S) |-> Ascending(S)[k]] BY DEF Ascending
<1>6. Ascending(S) \in Seq(S) /\ Len(Ascending(S)) = Cardinality(S)
  <2> DEFINE a == Ascending(S)
             m == Cardinality(S)
  <2>1. a = [k \in 1 .. m |-> a[k]] /\ m \in Nat /\ \A k \in 1 .. m : a[k] \in S
    BY <1>2, <1>4, <1>5
  <2> HIDE DEF a, m
  <2>2. a \in Seq(S) /\ Len(a) = m BY <2>1
  <2> QED BY <2>2 DEF a, m
<1> QED BY <1>1, <1>2, <1>4, <1>6

-----------------------------------------------------------------------------
(* Types *)

\* Rounding up a size in [1, WORD] reaches it; and any size gets a block.
LEMMA RoundUp ==
  ASSUME NEW m \in Nat \ {0}, NEW size \in Int
  PROVE  /\ ROUND_UP(size, m) \in Nat \ {0}
         /\ size \in 1 .. WORD => size <= m * ROUND_UP(size, m)
<1> DEFINE a == size - 1
           low == a % WORD
           d == low \div m
           r == low % m
<1>1. WORD \in Nat \ {0} BY LayoutAssumption
<1>2. low \in Nat /\ (size \in 1 .. WORD => low = size - 1)
  <2>1. a \in Int /\ (size \in 1 .. WORD => a \in 0 .. WORD - 1) BY <1>1
  <2> HIDE DEF a
  <2>2. low \in 0 .. WORD - 1 BY <1>1, <2>1, ModRange
  <2>3. a \in 0 .. WORD - 1 => low = a BY <1>1, ModSmall
  <2> QED BY <1>1, <2>1, <2>2, <2>3 DEF a
<1> HIDE DEF low
<1>3. low = m * d + r /\ d \in Int /\ r \in 0 .. m - 1 BY <1>2, ModDef, ModRange
<1>4. d >= 0 BY <1>2, Z3
<1> HIDE DEF d, r
<1>5. ROUND_UP(size, m) = 1 + d BY DEF ROUND_UP, d, low, a
<1>6. m * (1 + d) = m + m * d /\ m * d \in Int BY <1>3, Z3
<1> QED BY <1>2, <1>3, <1>4, <1>5, <1>6

\* The bytes of a bitmap hold its bits.
LEMMA EnoughBytes ==
  ASSUME NEW n \in 1 .. WORD
  PROVE  Bytes(n) \in Nat \ {0} /\ 0 .. n - 1 \subseteq 0 .. BITS * Bytes(n) - 1
<1>1. BITS \in Nat \ {0} /\ WORD \in Nat /\ n \in Int BY LayoutAssumption
<1>2. Bytes(n) \in Nat \ {0} /\ n <= BITS * Bytes(n) BY <1>1, RoundUp DEF Bytes
<1>3. BITS * Bytes(n) \in Nat BY <1>1, <1>2
<1> QED BY <1>1, <1>2, <1>3

\* The numbers of a superblock, and where its parts start.
Superblocks == {superblock_create(g) : g \in Geometries}

LEMMA SuperblockType ==
  ASSUME NEW s \in Superblocks
  PROVE  /\ s.block_size \in Nat \ {0} /\ WORD % s.block_size = 0
         /\ s.inode_count \in 1 .. WORD /\ s.datablock_count \in 1 .. WORD
         /\ s.inode_count \in Nat \ {0} /\ s.datablock_count \in Nat \ {0}
         /\ s.inode_bitmap_start = 1
         /\ s.datablock_bitmap_start
              = 1 + ROUND_UP(s.inode_count \div BITS, s.block_size)
         /\ s.inode_start
              = s.datablock_bitmap_start + ROUND_UP(s.datablock_count \div BITS, s.block_size)
         /\ s.datablocks_start = s.inode_start + ROUND_UP(s.inode_count, s.block_size)
         /\ ROUND_UP(s.inode_count \div BITS, s.block_size) \in Nat \ {0}
         /\ ROUND_UP(s.datablock_count \div BITS, s.block_size) \in Nat \ {0}
         /\ ROUND_UP(s.inode_count, s.block_size) \in Nat \ {0}
         /\ s.datablock_bitmap_start \in Nat /\ s.inode_start \in Nat /\ s.datablocks_start \in Nat
<1>1. PICK g \in Geometries : s = superblock_create(g) BY DEF Superblocks
<1>2. /\ WORD \in Nat \ {0} /\ BITS \in Nat \ {0}
      /\ g.inode_count \in 1 .. WORD /\ g.datablock_count \in 1 .. WORD
      /\ g.block_size \in Nat \ {0} /\ WORD % g.block_size = 0
  BY LayoutAssumption
<1>3. /\ s.block_size = g.block_size
      /\ s.inode_count = g.inode_count /\ s.datablock_count = g.datablock_count
      /\ s.inode_bitmap_start = 1
      /\ s.datablock_bitmap_start
           = 1 + ROUND_UP(s.inode_count \div BITS, s.block_size)
      /\ s.inode_start
           = s.datablock_bitmap_start + ROUND_UP(s.datablock_count \div BITS, s.block_size)
      /\ s.datablocks_start = s.inode_start + ROUND_UP(s.inode_count, s.block_size)
  BY <1>1 DEF superblock_create
<1>4. /\ s.inode_count \in Int /\ s.datablock_count \in Int
      /\ s.inode_count \in Nat \ {0} /\ s.datablock_count \in Nat \ {0} BY <1>2, <1>3
<1>5. s.inode_count \div BITS \in Int /\ s.datablock_count \div BITS \in Int
  BY <1>2, <1>4, ModDef
<1>6. /\ ROUND_UP(s.inode_count \div BITS, s.block_size) \in Nat \ {0}
      /\ ROUND_UP(s.datablock_count \div BITS, s.block_size) \in Nat \ {0}
      /\ ROUND_UP(s.inode_count, s.block_size) \in Nat \ {0}
  BY <1>2, <1>3, <1>4, <1>5, RoundUp
<1> QED BY <1>2, <1>3, <1>4, <1>6

LEMMA PartStarts ==
  ASSUME NEW s \in Superblocks
  PROVE  /\ Offset(s, s.inode_bitmap_start) \in Nat
         /\ Offset(s, s.datablock_bitmap_start) \in Nat
         /\ Offset(s, s.inode_start) \in Nat
         /\ Bytes(s.inode_count) \in Nat \ {0} /\ Bytes(s.datablock_count) \in Nat \ {0}
         /\ \A i \in 0 .. s.inode_count - 1 : Offset(s, s.inode_start) + i \in Cells
<1> DEFINE bs == s.block_size
<1>1. bs \in Nat /\ WORD \in Nat \ {0} BY SuperblockType, LayoutAssumption
<1>2. s.inode_bitmap_start \in Nat /\ s.datablock_bitmap_start \in Nat /\ s.inode_start \in Nat
  BY SuperblockType
<1> HIDE DEF bs
<1>3. \A k \in Nat : (bs * k) % WORD \in Nat
  <2> SUFFICES ASSUME NEW k \in Nat PROVE (bs * k) % WORD \in Nat OBVIOUS
  <2>1. bs * k \in Int BY <1>1
  <2>2. (bs * k) % WORD \in 0 .. WORD - 1 BY <1>1, <2>1, ModRange
  <2> QED BY <2>2, <1>1
<1>4. Offset(s, s.inode_start) + s.inode_count <= WORD
  <2>1. PICK g \in Geometries : s = superblock_create(g) BY DEF Superblocks
  <2> QED BY <2>1, ReachAssumption, Zenon
<1>5. s.inode_count \in Nat /\ Offset(s, s.inode_start) \in Nat
  BY <1>2, <1>3, SuperblockType DEF Offset, bs
<1>6. \A i \in 0 .. s.inode_count - 1 : Offset(s, s.inode_start) + i \in Cells
  BY <1>1, <1>4, <1>5 DEF Cells
<1> QED BY <1>2, <1>3, <1>6, SuperblockType, EnoughBytes DEF Offset, bs

\* The free cell, and the name of a file in an inode.
LEMMA FreeCell == Free \in Cell
<1>1. NoChars \in [DOMAIN NoChars -> Characters] BY DEF NoChars, Characters
<1> QED BY <1>1 DEF Free, Cell

LEMMA NameCopied ==
  ASSUME NEW n \in Names, NEW old \in [DOMAIN NoChars -> Characters]
  PROVE  strncpy(old, n, INODE_FILENAME_LENGTH - 1) \in [DOMAIN NoChars -> Characters]
<1>1. n \in Seq(Nat \ {0}) /\ DOMAIN n = 1 .. Len(n) /\ Len(n) \in Nat BY LayoutAssumption
<1>2. ASSUME NEW k \in DOMAIN NoChars PROVE CharAt(n, k) \in Characters
  <2>1. k \in Nat BY LayoutAssumption DEF NoChars
  <2>2. CASE k < Len(n)
    <3>1. k + 1 \in DOMAIN n BY <1>1, <2>1, <2>2
    <3>2. n[k + 1] \in Range(n) BY <3>1 DEF Range
    <3> QED BY <2>2, <3>2 DEF CharAt, Characters
  <2>3. CASE ~(k < Len(n)) BY <2>3 DEF CharAt, Characters
  <2> QED BY <2>2, <2>3
<1> QED BY <1>2 DEF strncpy

\* A table that is written keeps the types of the cells.
LEMMA TableWriteType ==
  ASSUME NEW s \in Superblocks, NEW img, NEW tab, \A c \in Cells : img[c] \in Cell,
         \A i \in 0 .. s.inode_count - 1 : tab[i] \in Cell
  PROVE  LET new == inode_table_write(s, img, tab)
         IN  DOMAIN new = Cells /\ \A c \in Cells : new[c] \in Cell
<1> DEFINE o == Offset(s, s.inode_start)
           cells == [i \in 1 .. s.inode_count |-> tab[i - 1]]
           new == inode_table_write(s, img, tab)
<1>1. new = blocks_write(s, img, s.inode_start, cells) BY DEF inode_table_write
<1>2. DOMAIN new = Cells BY <1>1 DEF blocks_write
<1>3. s.inode_count \in Nat /\ o \in Nat BY SuperblockType, PartStarts
<1>4. Len(cells) = s.inode_count BY <1>3
<1>5. ASSUME NEW c \in Cells PROVE new[c] \in Cell
  <2> DEFINE j == c - o + 1
  <2>1. c \in Nat BY LayoutAssumption DEF Cells
  <2>2. CASE j \in 1 .. s.inode_count
    <3>1. j - 1 \in 0 .. s.inode_count - 1 /\ o + (j - 1) = c BY <1>3, <2>1, <2>2
    <3>2. tab[j - 1] \in Cell BY <3>1
    <3>3. new[c] = cells[j]
      <4> HIDE DEF cells, new
      <4> QED BY <1>1, <1>3, <1>4, <2>2, CellWritten
    <3>4. cells[j] = tab[j - 1] BY <2>2
    <3> QED BY <3>2, <3>3, <3>4
  <2>3. CASE j \notin 1 .. s.inode_count
    <3> HIDE DEF cells
    <3>1. new[c] \in {Free, img[c]} BY <1>1, <1>4, <2>3 DEF blocks_write
    <3> QED BY <3>1, FreeCell
  <2> QED BY <2>2, <2>3
<1> HIDE DEF new
<1> QED BY <1>2, <1>5 DEF new

LEMMA SbType == ASSUME TypeOK PROVE sb \in Superblocks
BY DEF TypeOK, Superblocks

\* The image fs_create writes.
LEMMA InitType == ASSUME Init PROVE TypeOK
<1>1. PICK g \in Geometries :
        LET s == superblock_create(g)
            blank == [c \in Cells |-> Free]
        IN  /\ sb = s
            /\ image = inode_table_write(s, dbm_write(s, ibm_write(s, blank, {0}), {0}),
                                         [i \in 0 .. s.inode_count - 1 |-> Free])
            /\ data = [b \in 0 .. s.datablock_count - 1 |-> 0]
  BY DEF Init
<1> DEFINE blank == [c \in Cells |-> Free]
           one == ibm_write(sb, blank, {0})
           two == dbm_write(sb, one, {0})
           none == [i \in 0 .. sb.inode_count - 1 |-> Free]
<1>2. sb \in Superblocks BY <1>1 DEF Superblocks
<1>3. image = inode_table_write(sb, two, none) /\ data = [b \in 0 .. sb.datablock_count - 1 |-> 0]
  BY <1>1
<1>4. \A c \in Cells : blank[c] \in Cell BY FreeCell
<1>5. \A i \in 0 .. sb.inode_count - 1 : none[i] \in Cell BY FreeCell
<1> HIDE DEF blank, none
<1>6. \A c \in Cells : one[c] \in Cell
  BY <1>2, <1>4, PartStarts, BitmapWriteType DEF ibm_write
<1> HIDE DEF one
<1>7. \A c \in Cells : two[c] \in Cell
  BY <1>2, <1>6, PartStarts, BitmapWriteType DEF dbm_write
<1> HIDE DEF two
<1>8. DOMAIN image = Cells /\ \A c \in Cells : image[c] \in Cell
  BY <1>2, <1>3, <1>5, <1>7, TableWriteType
<1>9. DOMAIN data = 0 .. sb.datablock_count - 1 BY <1>3
<1>10. pc = "idle" /\ op = "add" /\ name = << >> /\ src = << >> /\ mibm = {} /\ mdbm = {}
  BY DEF Init, NoCommand
<1> QED BY <1>2, <1>8, <1>9, <1>10 DEF TypeOK, Superblocks

\* What fs_add and fs_del read of an image.
LEMMA ReadType ==
  ASSUME TypeOK
  PROVE  /\ ibm_read(sb, image) \subseteq 0 .. BITS * Bytes(sb.inode_count) - 1
         /\ dbm_read(sb, image) \subseteq 0 .. BITS * Bytes(sb.datablock_count) - 1
         /\ FreeInodes \subseteq 0 .. sb.inode_count - 1
         /\ FreeBlocks \subseteq 0 .. sb.datablock_count - 1
         /\ 0 .. sb.inode_count - 1 \subseteq 0 .. BITS * Bytes(sb.inode_count) - 1
         /\ 0 .. sb.datablock_count - 1 \subseteq 0 .. BITS * Bytes(sb.datablock_count) - 1
         /\ DOMAIN itab = 0 .. sb.inode_count - 1 /\ itab \in [DOMAIN itab -> Cell]
<1>1. sb.inode_count \in 1 .. WORD /\ sb.datablock_count \in 1 .. WORD
  BY SbType, SuperblockType
<1>2. /\ 0 .. sb.inode_count - 1 \subseteq 0 .. BITS * Bytes(sb.inode_count) - 1
      /\ 0 .. sb.datablock_count - 1 \subseteq 0 .. BITS * Bytes(sb.datablock_count) - 1
  BY <1>1, EnoughBytes
<1>3. DOMAIN itab = 0 .. sb.inode_count - 1 /\ itab \in [DOMAIN itab -> Cell]
  <2>1. \A i \in 0 .. sb.inode_count - 1 : Offset(sb, sb.inode_start) + i \in Cells
    BY SbType, PartStarts
  <2> QED BY <2>1 DEF TypeOK, itab, inode_table_read
<1> QED BY <1>2, <1>3 DEF ibm_read, dbm_read, bitmap_read, FreeInodes, FreeBlocks

\* The blocks for contents and the blocks for pointers are free blocks.
LEMMA BlocksOfFile ==
  /\ ContentBlocks \subseteq FreeBlocks /\ PointerBlocks \subseteq FreeBlocks
  /\ ContentBlocks \cap PointerBlocks = {}
BY Zenon DEF ContentBlocks, PointerBlocks, PointersIn, InReach

\* The inode and the blocks that fs_add takes: free ones, each block once.
LEMMA AddTakes ==
  ASSUME TypeOK, FreeInodes # {}, NEW f \in HostFiles, Cardinality(ContentBlocks) >= Len(f)
  PROVE  LET i == Min(FreeInodes)
             blocks == SubSeq(Ascending(ContentBlocks), 1, Len(f))
         IN  /\ i \in FreeInodes /\ i \in 0 .. sb.inode_count - 1
             /\ Len(f) \in Nat /\ DOMAIN blocks = 1 .. Len(f)
             /\ \A k \in 1 .. Len(f) : blocks[k] \in ContentBlocks
             /\ \A j, k \in 1 .. Len(f) : blocks[j] = blocks[k] => j = k
<1> DEFINE blocks == SubSeq(Ascending(ContentBlocks), 1, Len(f))
           m == Cardinality(ContentBlocks)
<1>1. Min(FreeInodes) \in FreeInodes /\ Min(FreeInodes) \in 0 .. sb.inode_count - 1
  <2>1. FreeInodes \in SUBSET Nat /\ FreeInodes \subseteq 0 .. sb.inode_count - 1
    BY DEF FreeInodes
  <2> QED BY <2>1, MinIsLeast
<1>2. sb.datablock_count \in Nat /\ ContentBlocks \in SUBSET (0 .. sb.datablock_count - 1)
  BY SbType, SuperblockType, ReadType, BlocksOfFile
<1>3. /\ m \in Nat /\ Ascending(ContentBlocks) \in Seq(ContentBlocks)
      /\ Len(Ascending(ContentBlocks)) = m
      /\ \A k \in 1 .. m : Upto(ContentBlocks, Ascending(ContentBlocks)[k]) = k
  BY <1>2, AscendingFacts
<1>4. f \in Seq(Nat) /\ Len(f) \in Nat BY LayoutAssumption
<1> DEFINE a == Ascending(ContentBlocks)
<1> HIDE DEF m, a
<1>5. DOMAIN blocks = 1 .. Len(f) /\ \A k \in 1 .. Len(f) : blocks[k] = a[k] /\ k \in 1 .. m
  BY <1>3, <1>4 DEF m, a
<1>6. \A k \in 1 .. m : a[k] \in ContentBlocks BY <1>3 DEF a
<1> HIDE DEF blocks
<1>7. \A j, k \in 1 .. Len(f) : blocks[j] = blocks[k] => j = k
  BY <1>3, <1>5 DEF a
<1> QED BY <1>1, <1>4, <1>5, <1>6, <1>7 DEF blocks

LEMMA AddStartType ==
  ASSUME TypeOK, NEW n \in Names, NEW f \in HostFiles, AddStart(n, f)
  PROVE  TypeOK'
<1> DEFINE i == Min(FreeInodes)
           blocks == SubSeq(Ascending(ContentBlocks), 1, Len(f))
           pointers == {b \in PointerBlocks : \E c \in Range(blocks) : b < c}
           ptrs == [k \in DOMAIN blocks |-> blocks[k] % PtrMod]
           new == [number |-> i,
                   name |-> strncpy(itab[i].name, n, INODE_FILENAME_LENGTH - 1),
                   ptrs |-> ptrs, indirect_ptr |-> {b % PtrMod : b \in pointers}]
<1>1. /\ pc = "idle" /\ FreeInodes # {} /\ Cardinality(ContentBlocks) >= Len(f)
      /\ data' = Store(f, blocks, pointers)
      /\ mibm' = ibm_read(sb, image) \cup {i}
      /\ mdbm' = dbm_read(sb, image) \cup Range(blocks) \cup pointers
      /\ mitab' = [itab EXCEPT ![i] = new]
      /\ seen' = itab
      /\ pc' = "write inode bitmap" /\ op' = "add" /\ name' = n /\ src' = f
      /\ sb' = sb /\ image' = image
  BY DEF AddStart
<1>2. TypeOK OBVIOUS
<1>3. /\ i \in 0 .. sb.inode_count - 1
      /\ Len(f) \in Nat /\ DOMAIN blocks = 1 .. Len(f)
      /\ \A k \in 1 .. Len(f) : blocks[k] \in ContentBlocks
  BY <1>1, <1>2, AddTakes
<1>4. ptrs \in Seq(0 .. PtrMod - 1)
  <2>1. \A k \in 1 .. Len(f) : blocks[k] \in Int BY <1>2, <1>3, ReadType, BlocksOfFile
  <2> HIDE DEF blocks
  <2>2. \A k \in 1 .. Len(f) : blocks[k] % PtrMod \in 0 .. PtrMod - 1
    BY <2>1, LayoutAssumption, ModRange
  <2>3. ptrs = [k \in 1 .. Len(f) |-> blocks[k] % PtrMod] BY <1>3
  <2> HIDE DEF ptrs
  <2> QED BY <1>3, <2>2, <2>3
<1>5. /\ Range(blocks) \subseteq 0 .. sb.datablock_count - 1
      /\ pointers \subseteq 0 .. sb.datablock_count - 1
  BY <1>2, <1>3, ReadType, BlocksOfFile DEF Range
<1> HIDE DEF blocks, pointers, ptrs, i
<1>10. {b % PtrMod : b \in pointers} \subseteq 0 .. PtrMod - 1
  <2>1. \A b \in pointers : b \in Int BY <1>5
  <2> QED BY <2>1, LayoutAssumption, ModRange
<1>6. mitab' \in [DOMAIN itab -> Cell] /\ seen' \in [DOMAIN itab -> Cell]
  <2>1. i \in DOMAIN itab /\ itab \in [DOMAIN itab -> Cell] BY <1>2, <1>3, ReadType
  <2> HIDE DEF itab
  <2>2. itab[i].name \in [DOMAIN NoChars -> Characters] BY <2>1 DEF Cell
  <2>3. new \in Cell BY <1>3, <1>4, <1>10, <2>2, NameCopied DEF Cell
  <2> HIDE DEF new
  <2> QED BY <1>1, <2>1, <2>3
<1>7. itab' = itab BY <1>1 DEF itab
<1>8. DOMAIN data' = 0 .. sb.datablock_count - 1
  BY <1>1, <1>2 DEF TypeOK, Store
<1>9. /\ mibm' \subseteq 0 .. BITS * Bytes(sb.inode_count) - 1
      /\ mdbm' \subseteq 0 .. BITS * Bytes(sb.datablock_count) - 1
  BY <1>1, <1>2, <1>3, <1>5, ReadType
<1> QED BY <1>1, <1>2, <1>6, <1>7, <1>8, <1>9 DEF TypeOK

LEMMA DelStartType ==
  ASSUME TypeOK, NEW n \in Names, DelStart(n)
  PROVE  TypeOK'
<1> DEFINE i == fs_get_file_inode(n)
<1>1. /\ pc = "idle"
      /\ mibm' = ibm_read(sb, image) \ {itab[i].number}
      /\ mdbm' \subseteq dbm_read(sb, image)
      /\ mitab' = [itab EXCEPT ![i] = Free]
      /\ seen' = itab
      /\ pc' = "write inode bitmap" /\ op' = "del" /\ name' = n
      /\ UNCHANGED <<sb, image, data, src>>
  BY DEF DelStart
<1> HIDE DEF i
<1>2. TypeOK OBVIOUS
<1>3. itab' = itab BY <1>1 DEF itab
<1>4. mitab' \in [DOMAIN itab -> Cell] /\ seen' \in [DOMAIN itab -> Cell]
  <2>1. itab \in [DOMAIN itab -> Cell] BY <1>2, ReadType
  <2> HIDE DEF itab
  <2> QED BY <1>1, <2>1, FreeCell
<1>5. /\ mibm' \subseteq 0 .. BITS * Bytes(sb.inode_count) - 1
      /\ mdbm' \subseteq 0 .. BITS * Bytes(sb.datablock_count) - 1
  BY <1>1, <1>2, ReadType
<1> QED BY <1>1, <1>2, <1>3, <1>4, <1>5 DEF TypeOK

LEMMA WriteType ==
  ASSUME TypeOK, WriteIbm \/ WriteDbm \/ WriteItab
  PROVE  TypeOK'
<1>1. TypeOK /\ sb \in Superblocks /\ pc # "idle"
  BY SbType DEF TypeOK, WriteIbm, WriteDbm, WriteItab
<1>2. DOMAIN image' = Cells /\ \A c \in Cells : image'[c] \in Cell
  <2>1. CASE WriteIbm
    <3>1. image' = ibm_write(sb, image, mibm) BY <2>1 DEF WriteIbm
    <3> QED BY <1>1, <3>1, PartStarts, BitmapWriteType DEF ibm_write, TypeOK
  <2>2. CASE WriteDbm
    <3>1. image' = dbm_write(sb, image, mdbm) BY <2>2 DEF WriteDbm
    <3> QED BY <1>1, <3>1, PartStarts, BitmapWriteType DEF dbm_write, TypeOK
  <2>3. CASE WriteItab
    <3>1. image' = inode_table_write(sb, image, mitab) BY <2>3 DEF WriteItab
    <3>2. \A c \in Cells : image[c] \in Cell BY <1>1 DEF TypeOK
    <3>3. \A j \in 0 .. sb.inode_count - 1 : mitab[j] \in Cell
      BY <1>1, ReadType DEF TypeOK
    <3> QED BY <1>1, <3>1, <3>2, <3>3, TableWriteType
  <2> QED BY <2>1, <2>2, <2>3
<1>3. DOMAIN itab' = DOMAIN itab /\ sb' = sb /\ data' = data
  BY DEF WriteIbm, WriteDbm, WriteItab, itab, inode_table_read
<1>4. \/ /\ pc' \in {"write data bitmap", "write inodes"}
         /\ UNCHANGED <<op, name, src, copies>>
      \/ /\ EndCommand
  BY DEF WriteIbm, WriteDbm, WriteItab
<1>5. CASE pc' \in {"write data bitmap", "write inodes"} /\ UNCHANGED <<op, name, src, copies>>
  BY <1>1, <1>2, <1>3, <1>5 DEF TypeOK, copies
<1>6. CASE EndCommand
  BY <1>1, <1>2, <1>3, <1>6 DEF TypeOK, EndCommand
<1> QED BY <1>4, <1>5, <1>6

\* An image and the copies of a command keep the types of their structures: a
\* byte of a bitmap that is written over an inode makes it no other kind of cell.
THEOREM TypeCorrect == Spec => []TypeOK
<1>1. Init => TypeOK BY InitType
<1>2. TypeOK /\ [Next]_vars => TypeOK'
  <2> SUFFICES ASSUME TypeOK, [Next]_vars PROVE TypeOK' OBVIOUS
  <2>1. ASSUME NEW n \in Names, NEW f \in HostFiles, AddFailed(n, f) PROVE TypeOK'
    <3>1. DOMAIN data' = DOMAIN data BY <2>1 DEF AddFailed, Store
    <3>2. itab' = itab BY <2>1 DEF AddFailed, itab
    <3> QED BY <2>1, <3>1, <3>2 DEF AddFailed, TypeOK, command, copies
  <2>2. CASE Kill
    <3>1. itab' = itab BY <2>2 DEF Kill, itab
    <3> QED BY <2>2, <3>1 DEF Kill, EndCommand, TypeOK
  <2>3. CASE UNCHANGED vars
    <3>1. itab' = itab BY <2>3 DEF vars, itab
    <3> QED BY <2>3, <3>1 DEF vars, TypeOK, command, copies
  <2>4. ASSUME NEW n \in Names, AddRefused(n) \/ DelRefused(n) PROVE TypeOK'
    BY <2>3, <2>4 DEF AddRefused, DelRefused
  <2> QED BY <2>1, <2>2, <2>3, <2>4, AddStartType, DelStartType, WriteType DEF Next
<1> QED BY <1>1, <1>2, PTL DEF Spec

-----------------------------------------------------------------------------
(* The parts of an image *)

IbmAt == Offset(sb, sb.inode_bitmap_start)
DbmAt == Offset(sb, sb.datablock_bitmap_start)
ItabAt == Offset(sb, sb.inode_start)

\* A part that starts before the end of an image is where its number says.
LEMMA NoWrap ==
  ASSUME NEW b \in Nat \ {0}, NEW k \in Nat, NEW n \in Nat, k < n, b * n <= WORD
  PROVE  (b * k) % WORD = b * k /\ b * k \in Nat
<1>1. WORD \in Nat \ {0} BY LayoutAssumption
<1> DEFINE d == n - k
<1>2. d \in Int /\ d >= 1 BY Z3
<1>3. b * n = b * k + b * d BY <1>2, Z3
<1>4. b * d \in Int /\ b * d >= b /\ b * k \in Nat BY <1>2, TimesMonotone
<1> HIDE DEF d
<1>5. b * k \in 0 .. WORD - 1 BY <1>1, <1>3, <1>4
<1> QED BY <1>1, <1>5, ModSmall

\* On an image whose bitmaps fit, the three parts follow one another.
LEMMA Regions ==
  ASSUME TypeOK, Fits
  PROVE  /\ IbmAt \in Nat /\ DbmAt \in Nat /\ ItabAt \in Nat
         /\ DbmAt = IbmAt + sb.block_size * ROUND_UP(sb.inode_count \div BITS, sb.block_size)
         /\ ItabAt = DbmAt + sb.block_size * ROUND_UP(sb.datablock_count \div BITS, sb.block_size)
         /\ IbmAt + Bytes(sb.inode_count) <= DbmAt
         /\ DbmAt + Bytes(sb.datablock_count) <= ItabAt
         /\ ItabAt + sb.inode_count <= WORD
         /\ DbmAt + sb.block_size <= ItabAt
<1> DEFINE b == sb.block_size
           u == ROUND_UP(sb.inode_count \div BITS, b)
           v == ROUND_UP(sb.datablock_count \div BITS, b)
           w == ROUND_UP(sb.inode_count, b)
<1>1. sb \in Superblocks BY SbType
<1>2. /\ b \in Nat \ {0} /\ u \in Nat \ {0} /\ v \in Nat \ {0} /\ w \in Nat \ {0}
      /\ sb.inode_bitmap_start = 1 /\ sb.datablock_bitmap_start = 1 + u
      /\ sb.inode_start = (1 + u) + v /\ sb.datablocks_start = ((1 + u) + v) + w
      /\ sb.inode_count \in 1 .. WORD /\ sb.inode_count \in Nat
  BY <1>1, SuperblockType
<1>3. /\ sb.inode_count >= BITS /\ Bytes(sb.inode_count) <= b * u
      /\ sb.datablock_count >= BITS /\ Bytes(sb.datablock_count) <= b * v
  BY DEF Fits, BitmapFits
<1>4. b * (((1 + u) + v) + w) <= WORD
  <2>1. PICK g \in Geometries : sb = superblock_create(g) BY <1>1 DEF Superblocks
  <2>2. sb.inode_count >= BITS /\ sb.datablock_count >= BITS
          => sb.block_size * sb.datablocks_start <= WORD
    BY <2>1, ReachAssumption, Zenon
  <2>3. sb.block_size * sb.datablocks_start <= WORD BY <1>3, <2>2
  <2> QED BY <1>2, <2>3
<1>5. sb.inode_count <= b * w
  <2>1. sb.inode_count \in Int BY <1>2
  <2> QED BY <1>2, <2>1, RoundUp, Zenon
<1>6. Bytes(sb.inode_count) \in Nat /\ Bytes(sb.datablock_count) \in Nat BY <1>1, PartStarts
<1> DEFINE n == ((1 + u) + v) + w
<1>7. /\ IbmAt = (b * 1) % WORD /\ DbmAt = (b * (1 + u)) % WORD
      /\ ItabAt = (b * ((1 + u) + v)) % WORD
  BY <1>2 DEF IbmAt, DbmAt, ItabAt, Offset
<1> HIDE DEF b, u, v, w
<1>8. /\ n \in Nat /\ 1 \in Nat /\ 1 + u \in Nat /\ (1 + u) + v \in Nat
      /\ 1 < n /\ 1 + u < n /\ (1 + u) + v < n
  BY <1>2
<1>9. b * n <= WORD BY <1>4
<1> HIDE DEF n
<1>10. IbmAt = b * 1 /\ DbmAt = b * (1 + u) /\ ItabAt = b * ((1 + u) + v)
       /\ b * 1 \in Nat /\ b * (1 + u) \in Nat /\ b * ((1 + u) + v) \in Nat
  BY <1>2, <1>7, <1>8, <1>9, NoWrap
<1>11. /\ b * (1 + u) = b * 1 + b * u
       /\ b * ((1 + u) + v) = b * (1 + u) + b * v
       /\ b * (((1 + u) + v) + w) = b * ((1 + u) + v) + b * w
  BY <1>2, Z3
<1>12. b * u \in Int /\ b * v \in Int /\ b * w \in Int /\ b * v >= b BY <1>2, TimesMonotone
<1>13. WORD \in Nat BY LayoutAssumption
<1>14. DbmAt = IbmAt + b * u /\ ItabAt = DbmAt + b * v BY <1>10, <1>11
<1>15. ItabAt + sb.inode_count <= WORD BY <1>2, <1>4, <1>5, <1>10, <1>11, <1>12, <1>13
<1>16. IbmAt + Bytes(sb.inode_count) <= DbmAt /\ DbmAt + Bytes(sb.datablock_count) <= ItabAt
       /\ DbmAt + b <= ItabAt
  BY <1>2, <1>3, <1>6, <1>10, <1>12, <1>14
<1> QED BY <1>10, <1>14, <1>15, <1>16 DEF b, u, v

\* The padding of a bitmap goes at most one block beyond its blocks.
LEMMA OneBlockBehind ==
  ASSUME NEW s, s.block_size \in Nat \ {0}, NEW len \in Nat, NEW n \in Nat \ {0},
         len <= s.block_size * n
  PROVE  Padding(s, len) \in Nat /\ len + Padding(s, len) <= s.block_size * n + s.block_size
<1> DEFINE b == s.block_size
<1>1. len % b \in 0 .. b - 1
  <2>1. len \in Int /\ b \in Nat \ {0} OBVIOUS
  <2> QED BY <2>1, ModRange, Zenon
<1>2. b * n \in Int /\ b * n >= b BY TimesMonotone
<1>3. CASE len < b
  <2>1. Padding(s, len) = b - len BY <1>3 DEF Padding
  <2> QED BY <1>2, <1>3, <2>1
<1>4. CASE ~(len < b)
  <2>1. Padding(s, len) = len % b BY <1>4 DEF Padding
  <2> QED BY <1>1, <1>2, <2>1
<1> QED BY <1>3, <1>4

\* The three writes: each part is what has been written, those before it stay,
\* and those behind it if it does not overrun them.
LEMMA IbmWritten ==
  ASSUME TypeOK, Fits, NEW img, \A c \in Cells : img[c] \in Cell,
         NEW bits \in SUBSET (0 .. BITS * Bytes(sb.inode_count) - 1),
         NEW new, new = ibm_write(sb, img, bits)
  PROVE  /\ ibm_read(sb, new) = bits
         /\ inode_table_read(sb, new) = inode_table_read(sb, img)
         /\ ~Overruns(sb.inode_count) => dbm_read(sb, new) = dbm_read(sb, img)
<1> DEFINE b == sb.block_size
           u == ROUND_UP(sb.inode_count \div BITS, b)
           len == Bytes(sb.inode_count)
<1>1. sb \in Superblocks BY SbType
<1>2. /\ IbmAt \in Nat /\ DbmAt \in Nat /\ ItabAt \in Nat /\ DbmAt = IbmAt + b * u
      /\ IbmAt + len <= DbmAt /\ DbmAt + Bytes(sb.datablock_count) <= ItabAt
      /\ ItabAt + sb.inode_count <= WORD /\ DbmAt + b <= ItabAt
  BY Regions
<1>3. /\ b \in Nat \ {0} /\ u \in Nat \ {0} /\ len \in Nat /\ WORD \in Nat
      /\ Bytes(sb.datablock_count) \in Nat /\ sb.inode_count \in Nat
  BY <1>1, SuperblockType, PartStarts, LayoutAssumption
<1>4. len <= b * u BY DEF Fits, BitmapFits
<1>5. new = ibm_write(sb, img, bits) OBVIOUS
<1>6. ibm_read(sb, new) = bits
  <2>1. IbmAt + len <= WORD BY <1>2, <1>3
  <2> QED BY <1>2, <1>3, <1>5, <2>1, BitmapReadBack DEF ibm_read, ibm_write, IbmAt
<1> DEFINE byte(j) == ByteOf({k \in 0 .. BITS - 1 : BITS * j + k \in bits})
           cells == [j \in 1 .. len |-> [img[IbmAt + j - 1] EXCEPT !.number = byte(j - 1)]]
<1>7. new = blocks_write(sb, img, sb.inode_bitmap_start, cells) /\ Len(cells) = len
  BY <1>3, <1>5 DEF ibm_write, bitmap_write, IbmAt
<1>8. Padding(sb, len) \in Nat /\ len + Padding(sb, len) <= b * u + b
  BY <1>3, <1>4, OneBlockBehind
<1>9. b * u \in Int BY <1>3
<1> HIDE DEF cells, b, u, len
<1>10. ASSUME NEW c \in Cells, IbmAt + len + Padding(sb, len) <= c PROVE new[c] = img[c]
  <2>1. /\ Len(cells) \in Nat /\ Padding(sb, Len(cells)) \in Nat
        /\ IbmAt + Len(cells) + Padding(sb, Len(cells)) <= c
    BY <1>3, <1>7, <1>8, <1>10
  <2> QED BY <1>2, <1>7, <2>1, CellBehind DEF IbmAt
<1>11. inode_table_read(sb, new) = inode_table_read(sb, img)
  <2>1. ASSUME NEW i \in 0 .. sb.inode_count - 1 PROVE new[ItabAt + i] = img[ItabAt + i]
    <3>1. ItabAt + i \in Cells /\ IbmAt + len + Padding(sb, len) <= ItabAt + i
      BY <1>2, <1>3, <1>8, <1>9 DEF Cells
    <3> QED BY <1>10, <3>1
  <2> QED BY <1>5, <2>1 DEF inode_table_read, ItabAt
<1>12. ASSUME ~Overruns(sb.inode_count) PROVE dbm_read(sb, new) = dbm_read(sb, img)
  <2>1. len + Padding(sb, len) <= b * u
    BY <1>3, <1>8, <1>9, <1>12 DEF Overruns, b, u, len
  <2>2. DbmAt + Bytes(sb.datablock_count) <= WORD BY <1>2, <1>3
  <2>3. \A c \in Cells : DbmAt <= c => IbmAt + len + Padding(sb, len) <= c
    BY <1>2, <1>3, <1>8, <1>9, <2>1 DEF Cells
  <2> QED BY <1>2, <1>3, <1>10, <2>2, <2>3, SameBitmap DEF dbm_read, DbmAt
<1> QED BY <1>6, <1>11, <1>12

LEMMA DbmWritten ==
  ASSUME TypeOK, Fits, NEW img, \A c \in Cells : img[c] \in Cell,
         NEW bits \in SUBSET (0 .. BITS * Bytes(sb.datablock_count) - 1),
         NEW new, new = dbm_write(sb, img, bits)
  PROVE  /\ ibm_read(sb, new) = ibm_read(sb, img)
         /\ dbm_read(sb, new) = bits
         /\ ~Overruns(sb.datablock_count) => inode_table_read(sb, new) = inode_table_read(sb, img)
<1> DEFINE b == sb.block_size
           v == ROUND_UP(sb.datablock_count \div BITS, b)
           len == Bytes(sb.datablock_count)
<1>1. sb \in Superblocks BY SbType
<1>2. /\ IbmAt \in Nat /\ DbmAt \in Nat /\ ItabAt \in Nat /\ ItabAt = DbmAt + b * v
      /\ IbmAt + Bytes(sb.inode_count) <= DbmAt /\ DbmAt + len <= ItabAt
      /\ ItabAt + sb.inode_count <= WORD
  BY Regions
<1>3. /\ b \in Nat \ {0} /\ v \in Nat \ {0} /\ len \in Nat /\ WORD \in Nat
      /\ Bytes(sb.inode_count) \in Nat /\ sb.inode_count \in Nat
  BY <1>1, SuperblockType, PartStarts, LayoutAssumption
<1>4. len <= b * v BY DEF Fits, BitmapFits
<1>5. new = dbm_write(sb, img, bits) OBVIOUS
<1>6. dbm_read(sb, new) = bits
  <2>1. DbmAt + len <= WORD BY <1>2, <1>3
  <2> QED BY <1>2, <1>3, <1>5, <2>1, BitmapReadBack DEF dbm_read, dbm_write, DbmAt
<1> DEFINE byte(j) == ByteOf({k \in 0 .. BITS - 1 : BITS * j + k \in bits})
           cells == [j \in 1 .. len |-> [img[DbmAt + j - 1] EXCEPT !.number = byte(j - 1)]]
<1>7. new = blocks_write(sb, img, sb.datablock_bitmap_start, cells) /\ Len(cells) = len
  BY <1>3, <1>5 DEF dbm_write, bitmap_write, DbmAt
<1>8. Padding(sb, len) \in Nat BY <1>3, <1>4, OneBlockBehind
<1>9. b * v \in Int BY <1>3
<1> HIDE DEF cells, b, v, len
<1>10. ibm_read(sb, new) = ibm_read(sb, img)
  <2>1. ASSUME NEW c \in Cells, c < DbmAt PROVE new[c] = img[c]
    BY <1>2, <1>3, <1>7, <2>1, CellBefore DEF DbmAt
  <2>2. IbmAt + Bytes(sb.inode_count) <= WORD BY <1>2, <1>3
  <2>3. \A c \in Cells : c < IbmAt + Bytes(sb.inode_count) => c < DbmAt
    BY <1>2, <1>3 DEF Cells
  <2> QED BY <1>2, <1>3, <2>1, <2>2, <2>3, SameBitmap DEF ibm_read, IbmAt
<1>11. ASSUME ~Overruns(sb.datablock_count)
       PROVE  inode_table_read(sb, new) = inode_table_read(sb, img)
  <2>1. len + Padding(sb, len) <= b * v
    BY <1>3, <1>8, <1>9, <1>11 DEF Overruns, b, v, len
  <2>2. ASSUME NEW i \in 0 .. sb.inode_count - 1 PROVE new[ItabAt + i] = img[ItabAt + i]
    <3>1. ItabAt + i \in Cells /\ DbmAt + len + Padding(sb, len) <= ItabAt + i
      BY <1>2, <1>3, <1>8, <1>9, <2>1 DEF Cells
    <3>2. /\ Len(cells) \in Nat /\ Padding(sb, Len(cells)) \in Nat
          /\ DbmAt + Len(cells) + Padding(sb, Len(cells)) <= ItabAt + i
      BY <1>3, <1>7, <1>8, <3>1
    <3> QED BY <1>2, <1>7, <3>1, <3>2, CellBehind DEF DbmAt
  <2> QED BY <1>5, <2>2 DEF inode_table_read, ItabAt
<1> QED BY <1>6, <1>10, <1>11

\* A table is read as it was written, on every image.
LEMMA TableReadBack ==
  ASSUME TypeOK, NEW img, NEW tab, NEW new, new = inode_table_write(sb, img, tab)
  PROVE  inode_table_read(sb, new) = [i \in 0 .. sb.inode_count - 1 |-> tab[i]]
<1> DEFINE cells == [i \in 1 .. sb.inode_count |-> tab[i - 1]]
<1>1. sb \in Superblocks BY SbType
<1>2. /\ sb.inode_count \in Nat /\ ItabAt \in Nat
      /\ \A i \in 0 .. sb.inode_count - 1 : ItabAt + i \in Cells
  BY <1>1, SuperblockType, PartStarts DEF ItabAt
<1>3. new = blocks_write(sb, img, sb.inode_start, cells) BY DEF inode_table_write
<1>4. Len(cells) = sb.inode_count BY <1>2
<1>5. ASSUME NEW i \in 0 .. sb.inode_count - 1 PROVE new[ItabAt + i] = tab[i]
  <2> DEFINE c == ItabAt + i
  <2>1. c \in Cells /\ c - ItabAt + 1 = i + 1 /\ i + 1 \in 1 .. sb.inode_count
    BY <1>2
  <2>2. cells[i + 1] = tab[i] BY <2>1
  <2> HIDE DEF cells, c
  <2>3. new[c] = cells[i + 1] BY <1>2, <1>3, <1>4, <2>1, CellWritten DEF ItabAt
  <2> QED BY <2>2, <2>3 DEF c
<1> QED BY <1>5 DEF inode_table_read, ItabAt

LEMMA ItabWritten ==
  ASSUME TypeOK, Fits, NEW img, NEW tab, NEW new, new = inode_table_write(sb, img, tab)
  PROVE  /\ ibm_read(sb, new) = ibm_read(sb, img)
         /\ dbm_read(sb, new) = dbm_read(sb, img)
         /\ inode_table_read(sb, new) = [i \in 0 .. sb.inode_count - 1 |-> tab[i]]
<1> DEFINE cells == [i \in 1 .. sb.inode_count |-> tab[i - 1]]
<1>1. sb \in Superblocks BY SbType
<1>2. /\ IbmAt \in Nat /\ DbmAt \in Nat /\ ItabAt \in Nat
      /\ IbmAt + Bytes(sb.inode_count) <= DbmAt
      /\ DbmAt + Bytes(sb.datablock_count) <= ItabAt
      /\ ItabAt + sb.inode_count <= WORD
  BY Regions
<1>3. /\ WORD \in Nat /\ sb.inode_count \in Nat
      /\ Bytes(sb.inode_count) \in Nat /\ Bytes(sb.datablock_count) \in Nat
  BY <1>1, SuperblockType, PartStarts, LayoutAssumption
<1>4. new = blocks_write(sb, img, sb.inode_start, cells)
  BY DEF inode_table_write
<1>5. Len(cells) = sb.inode_count BY <1>3
<1>6. inode_table_read(sb, new) = [i \in 0 .. sb.inode_count - 1 |-> tab[i]]
  BY TableReadBack
<1> HIDE DEF cells
<1>7. ASSUME NEW c \in Cells, c < ItabAt PROVE new[c] = img[c]
  BY <1>2, <1>3, <1>4, <1>5, <1>7, CellBefore DEF ItabAt
<1>8. /\ IbmAt + Bytes(sb.inode_count) <= WORD /\ DbmAt + Bytes(sb.datablock_count) <= WORD
      /\ \A c \in Cells : c < IbmAt + Bytes(sb.inode_count) => c < ItabAt
      /\ \A c \in Cells : c < DbmAt + Bytes(sb.datablock_count) => c < ItabAt
  BY <1>2, <1>3 DEF Cells
<1>9. ibm_read(sb, new) = ibm_read(sb, img)
  BY <1>2, <1>3, <1>7, <1>8, SameBitmap DEF ibm_read, IbmAt
<1>10. dbm_read(sb, new) = dbm_read(sb, img)
  BY <1>2, <1>3, <1>7, <1>8, SameBitmap DEF dbm_read, DbmAt
<1> QED BY <1>6, <1>9, <1>10

\* A part that has been written reads back what a command wrote, also when the
\* padding of the part before it overruns it, which is always written earlier.
PartsInv == TypeOK /\ PartsStay

\* The superblock stays, and with it all sizes.
LEMMA SameFits ==
  ASSUME sb' = sb
  PROVE  /\ Fits' = Fits
         /\ Overruns(sb.inode_count)' = Overruns(sb.inode_count)
         /\ Overruns(sb.datablock_count)' = Overruns(sb.datablock_count)
BY DEF Fits, BitmapFits, Overruns, Padding

LEMMA PartsInvariant == Spec => []PartsInv
<1>1. Init => PartsInv
  <2>1. Init => pc = "idle" BY DEF Init, NoCommand
  <2> QED BY <2>1, InitType DEF PartsInv, PartsStay
<1>2. PartsInv /\ TypeOK' /\ [Next]_vars => PartsInv'
  <2> SUFFICES ASSUME PartsInv, TypeOK', [Next]_vars PROVE PartsStay' BY DEF PartsInv
  <2>1. TypeOK /\ PartsStay BY DEF PartsInv
  <2>2. sb' = sb => Fits' = Fits BY SameFits
  <2>3. CASE WriteIbm
    <3>1. /\ sb' = sb /\ pc' = "write data bitmap" /\ mibm' = mibm
          /\ image' = ibm_write(sb, image, mibm)
      BY <2>3 DEF WriteIbm, copies
    <3>2. Fits => ibm_read(sb, image') = mibm BY <2>1, <3>1, IbmWritten DEF TypeOK
    <3> QED BY <2>2, <3>1, <3>2 DEF PartsStay
  <2>4. CASE WriteDbm
    <3>1. /\ sb' = sb /\ mibm' = mibm /\ mdbm' = mdbm /\ pc = "write data bitmap"
          /\ image' = dbm_write(sb, image, mdbm)
      BY <2>4 DEF WriteDbm, copies
    <3>2. Fits => ibm_read(sb, image') = ibm_read(sb, image) /\ dbm_read(sb, image') = mdbm
      BY <2>1, <3>1, DbmWritten DEF TypeOK
    <3> QED BY <2>1, <2>2, <3>1, <3>2 DEF PartsStay
  <2>5. CASE pc' \notin {"write data bitmap", "write inodes"} BY <2>5 DEF PartsStay
  <2>6. CASE UNCHANGED <<sb, image, pc, mibm, mdbm>>
    BY <2>1, <2>2, <2>6 DEF PartsStay, ibm_read, dbm_read
  <2>7. ASSUME NEW n \in Names, NEW f \in HostFiles, AddStart(n, f) \/ AddFailed(n, f)
        PROVE  PartsStay'
    BY <2>5, <2>6, <2>7 DEF AddStart, AddFailed, command, copies
  <2>8. ASSUME NEW n \in Names, AddRefused(n) \/ DelStart(n) \/ DelRefused(n)
        PROVE  PartsStay'
    BY <2>5, <2>6, <2>8 DEF AddRefused, DelStart, DelRefused, vars, command, copies
  <2>9. CASE WriteItab \/ Kill BY <2>5, <2>9 DEF WriteItab, Kill, EndCommand
  <2>10. CASE UNCHANGED vars BY <2>6, <2>10 DEF vars, command, copies
  <2> QED BY <2>3, <2>4, <2>7, <2>8, <2>9, <2>10 DEF Next
<1> QED BY <1>1, <1>2, TypeCorrect, PTL DEF Spec

\* For every block size and all counts for which the bitmaps fit their blocks,
\* whatever the padding of a write overruns, each bitmap reads back as the
\* command wrote it until the command ends.
THEOREM PartsKept == Spec => []PartsStay
<1>1. PartsInv => PartsStay BY DEF PartsInv
<1> QED BY <1>1, PartsInvariant, PTL

-----------------------------------------------------------------------------
(* File names *)

Text == Seq(Nat \ {0})
Field(n) == strncpy(NoChars, n, INODE_FILENAME_LENGTH - 1)

\* Two names with the same characters in the part of the field that counts.
Alike(n, m) == \A k \in 0 .. INODE_FILENAME_LENGTH - 2 : CharAt(n, k) = CharAt(m, k)

\* A string ends at its only 0.
LEMMA StringEnds ==
  ASSUME NEW n \in Text, NEW k \in Nat
  PROVE  (CharAt(n, k) = 0 <=> Len(n) <= k) /\ CharAt(n, k) \in Nat
<1>1. Len(n) \in Nat /\ \A j \in 1 .. Len(n) : n[j] \in Nat \ {0} BY DEF Text
<1>2. CASE k < Len(n)
  <2>1. k + 1 \in 1 .. Len(n) BY <1>1, <1>2
  <2>2. CharAt(n, k) = n[k + 1] BY <1>2 DEF CharAt
  <2> QED BY <1>1, <1>2, <2>1, <2>2
<1>3. CASE ~(k < Len(n)) BY <1>1, <1>3 DEF CharAt
<1> QED BY <1>2, <1>3

\* Names that are alike fill the field in the same way.
LEMMA AlikeFields ==
  ASSUME NEW n \in Text, NEW m \in Text
  PROVE  Alike(n, m) <=> Field(n) = Field(m)
<1>1. INODE_FILENAME_LENGTH \in Nat \ {0, 1} BY LayoutAssumption
<1> DEFINE L == INODE_FILENAME_LENGTH
<1>2. \A x : Field(x) = [k \in 0 .. L - 1 |-> IF k < L - 1 THEN CharAt(x, k) ELSE 0]
  BY DEF Field, strncpy, NoChars
<1>3. \A k \in 0 .. L - 1 : k < L - 1 <=> k \in 0 .. L - 2 BY <1>1
<1>4. \A k \in 0 .. L - 2 : k \in 0 .. L - 1 BY <1>1
<1>5. ASSUME Alike(n, m) PROVE Field(n) = Field(m)
  BY <1>2, <1>3, <1>5 DEF Alike
<1>6. ASSUME Field(n) = Field(m), NEW k \in 0 .. L - 2 PROVE CharAt(n, k) = CharAt(m, k)
  <2>1. Field(n)[k] = CharAt(n, k) /\ Field(m)[k] = CharAt(m, k) BY <1>2, <1>3, <1>4
  <2> QED BY <1>6, <2>1
<1> QED BY <1>5, <1>6 DEF Alike

\* strncmp finds a name in the field of another exactly if they are alike.
LEMMA ComparesAlike ==
  ASSUME NEW n \in Text, NEW m \in Text
  PROVE  strncmp(n, Field(m), INODE_FILENAME_LENGTH - 1) = 0 <=> Alike(n, m)
<1>1. INODE_FILENAME_LENGTH \in Nat \ {0, 1} BY LayoutAssumption
<1> DEFINE L == INODE_FILENAME_LENGTH
           q == Field(m)
           stops == {k \in 0 .. (L - 1) - 1 : CharAt(n, k) = 0 \/ CharAt(n, k) # q[k]}
           e == Min(stops)
<1>2. \A k \in 0 .. L - 2 : q[k] = CharAt(m, k)
  <2>1. q = [k \in 0 .. L - 1 |-> IF k < L - 1 THEN CharAt(m, k) ELSE 0]
    BY DEF Field, strncpy, NoChars
  <2> HIDE DEF q
  <2> QED BY <1>1, <2>1
<1>3. 0 .. (L - 1) - 1 = 0 .. L - 2 BY <1>1
<1>4. strncmp(n, q, L - 1) = IF stops = {} THEN 0 ELSE CharAt(n, e) - q[e] BY DEF strncmp
<1>5. stops # {} => e \in stops /\ \A x \in stops : e <= x
  <2>1. stops \in SUBSET Nat OBVIOUS
  <2> HIDE DEF stops
  <2> QED BY <2>1, MinIsLeast
<1> HIDE DEF q, e
<1>6. CASE stops = {}
  <2>1. Alike(n, m) BY <1>2, <1>3, <1>6 DEF Alike
  <2> QED BY <1>4, <1>6, <2>1 DEF q
<1>7. CASE stops # {}
  <2>1. e \in 0 .. L - 2 /\ e \in Nat /\ q[e] = CharAt(m, e)
    <3>1. e \in 0 .. L - 2 BY <1>3, <1>5, <1>7
    <3> QED BY <1>2, <3>1
  <2>2. CharAt(n, e) \in Nat /\ CharAt(m, e) \in Nat BY <2>1, StringEnds
  <2>3. strncmp(n, q, L - 1) = 0 <=> CharAt(n, e) = CharAt(m, e)
    <3> HIDE DEF stops
    <3> QED BY <1>4, <1>7, <2>1, <2>2
  <2>4. Alike(n, m) => CharAt(n, e) = CharAt(m, e) BY <2>1 DEF Alike
  <2>5. ASSUME CharAt(n, e) = CharAt(m, e), NEW k \in 0 .. L - 2
        PROVE  CharAt(n, k) = CharAt(m, k)
    <3>1. CharAt(n, e) = 0 BY <1>5, <1>7, <2>1, <2>5
    <3>2. Len(n) <= e /\ Len(m) <= e BY <2>1, <2>5, <3>1, StringEnds
    <3>3. k \in Nat /\ Len(n) \in Nat /\ Len(m) \in Nat BY DEF Text
    <3>4. CASE e <= k
      <4>1. Len(n) <= k /\ Len(m) <= k BY <2>1, <3>2, <3>3, <3>4
      <4>2. CharAt(n, k) = 0 /\ CharAt(m, k) = 0 BY <3>3, <4>1, StringEnds
      <4> QED BY <4>2
    <3>5. CASE ~(e <= k)
      <4>1. k \notin stops BY <1>5, <1>7, <3>5
      <4> QED BY <1>2, <1>3, <4>1
    <3> QED BY <3>4, <3>5
  <2> QED BY <2>3, <2>4, <2>5 DEF Alike, q
<1> QED BY <1>6, <1>7

\* The characters of a name that fit the field.
LEMMA NameFacts ==
  ASSUME NEW n \in Text
  PROVE  /\ Name(n) \in Text /\ Len(Name(n)) = Min({Len(n), INODE_FILENAME_LENGTH - 1})
         /\ \/ Len(n) <= INODE_FILENAME_LENGTH - 1 /\ Len(Name(n)) = Len(n)
            \/ INODE_FILENAME_LENGTH - 1 <= Len(n) /\ Len(Name(n)) = INODE_FILENAME_LENGTH - 1
         /\ \A k \in 1 .. Len(Name(n)) : Name(n)[k] = n[k]
         /\ Alike(Name(n), n)
<1>1. INODE_FILENAME_LENGTH \in Nat \ {0, 1} BY LayoutAssumption
<1> DEFINE L == INODE_FILENAME_LENGTH
           p == Min({Len(n), L - 1})
<1>2. Len(n) \in Nat BY DEF Text
<1>3. p \in {Len(n), L - 1} /\ p <= Len(n) /\ p <= L - 1
  <2>1. {Len(n), L - 1} \in SUBSET Nat /\ {Len(n), L - 1} # {} BY <1>1, <1>2
  <2>2. p \in {Len(n), L - 1} /\ \A x \in {Len(n), L - 1} : p <= x BY <2>1, MinIsLeast
  <2> QED BY <2>2
<1>4. Name(n) = SubSeq(n, 1, p) BY DEF Name
<1> HIDE DEF p
<1>5. p \in Nat BY <1>1, <1>2, <1>3
<1>6. Name(n) \in Text /\ Len(Name(n)) = p /\ \A k \in 1 .. p : Name(n)[k] = n[k]
  BY <1>1, <1>2, <1>3, <1>4, <1>5 DEF Text
<1>7. ASSUME NEW k \in 0 .. L - 2 PROVE CharAt(Name(n), k) = CharAt(n, k)
  <2>1. k \in Nat /\ k < L - 1 BY <1>1
  <2>2. k < p <=> k < Len(n) BY <1>1, <1>2, <1>3, <2>1
  <2>3. CASE k < p
    <3>1. k + 1 \in 1 .. p BY <1>5, <2>1, <2>3
    <3> QED BY <1>6, <2>2, <2>3, <3>1 DEF CharAt
  <2>4. CASE ~(k < p) BY <1>6, <2>2, <2>4 DEF CharAt
  <2> QED BY <2>3, <2>4
<1> QED BY <1>1, <1>2, <1>3, <1>6, <1>7 DEF Alike, p

\* Names are alike exactly if the characters that fit are the same.
LEMMA AlikeNames ==
  ASSUME NEW n \in Text, NEW m \in Text
  PROVE  Alike(n, m) <=> Name(n) = Name(m)
<1>1. INODE_FILENAME_LENGTH \in Nat \ {0, 1} BY LayoutAssumption
<1> DEFINE L == INODE_FILENAME_LENGTH
           a == Name(n)
           b == Name(m)
<1>2. /\ a \in Text /\ b \in Text /\ Alike(a, n) /\ Alike(b, m)
      /\ Len(a) \in Nat /\ Len(b) \in Nat /\ Len(a) <= L - 1 /\ Len(b) <= L - 1
  <2>1. a \in Text /\ b \in Text /\ Alike(a, n) /\ Alike(b, m) BY NameFacts
  <2>2. Len(a) <= L - 1 /\ Len(b) <= L - 1
    <3>1. Len(n) \in Nat /\ Len(m) \in Nat BY DEF Text
    <3>2. \/ Len(n) <= L - 1 /\ Len(a) = Len(n)
          \/ L - 1 <= Len(n) /\ Len(a) = L - 1
      BY NameFacts
    <3>3. \/ Len(m) <= L - 1 /\ Len(b) = Len(m)
          \/ L - 1 <= Len(m) /\ Len(b) = L - 1
      BY NameFacts
    <3> HIDE DEF a, b
    <3> QED BY <1>1, <3>1, <3>2, <3>3
  <2> QED BY <2>1, <2>2 DEF Text
<1> HIDE DEF a, b
<1>3. Alike(n, m) <=> Alike(a, b) BY <1>2 DEF Alike
<1>4. ASSUME Alike(a, b) PROVE a = b
  <2>1. ASSUME NEW x \in Text, NEW y \in Text, Alike(x, y), Len(x) \in Nat, Len(y) \in Nat,
               Len(x) <= L - 1, Len(y) <= L - 1, Len(x) < Len(y)
        PROVE  FALSE
    <3>1. Len(x) \in 0 .. L - 2 BY <1>1, <2>1
    <3>2. CharAt(x, Len(x)) = CharAt(y, Len(x)) BY <2>1, <3>1 DEF Alike
    <3>3. CharAt(x, Len(x)) = 0 BY <2>1, StringEnds
    <3>4. CharAt(y, Len(x)) # 0 BY <2>1, StringEnds
    <3> QED BY <3>2, <3>3, <3>4
  <2>2. Alike(b, a) BY <1>4 DEF Alike
  <2>3. ~(Len(a) < Len(b)) BY <1>2, <1>4, <2>1
  <2>4. ~(Len(b) < Len(a)) BY <1>2, <2>1, <2>2
  <2>5. Len(a) = Len(b) BY <1>2, <2>3, <2>4
  <2>6. ASSUME NEW k \in 1 .. Len(a) PROVE a[k] = b[k]
    <3> DEFINE j == k - 1
    <3>1. j \in 0 .. L - 2 /\ j < Len(a) /\ j < Len(b) /\ j + 1 = k BY <1>1, <1>2, <2>5
    <3> HIDE DEF j
    <3>2. CharAt(a, j) = CharAt(b, j) BY <1>4, <3>1 DEF Alike
    <3> QED BY <3>1, <3>2 DEF CharAt
  <2>7. a = [k \in 1 .. Len(a) |-> a[k]] /\ b = [k \in 1 .. Len(b) |-> b[k]]
    BY <1>2 DEF Text
  <2> QED BY <2>5, <2>6, <2>7
<1>5. a = b => Alike(a, b) BY DEF Alike
<1> QED BY <1>3, <1>4, <1>5 DEF a, b

-----------------------------------------------------------------------------
(* Files *)

LiveIn(tab) == {i \in DOMAIN tab : tab[i].number > 0}

\* The blocks of a file.
BlocksOf(node) == Range(node.ptrs) \cup node.indirect_ptr

\* A table and two bitmaps that go together: an inode in use has its number,
\* one of the names and blocks of its own, all marked; the others are clear.
Proper(tab, ib, db) ==
  /\ \A i \in LiveIn(tab) :
       /\ tab[i].number = i /\ i \in ib
       /\ \E n \in Names : tab[i].name = Field(n)
       /\ BlocksOf(tab[i]) \subseteq db \cap 0 .. sb.datablock_count - 1
  /\ \A a, b \in LiveIn(tab) :
       a # b => /\ tab[a].name # tab[b].name
                /\ BlocksOf(tab[a]) \cap BlocksOf(tab[b]) = {}
  /\ \A i \in DOMAIN tab \ LiveIn(tab) : tab[i] = Free
  /\ 0 \in ib /\ 0 \in db

Ibm == ibm_read(sb, image)
Dbm == dbm_read(sb, image)

\* What is proper at each point of a command: what it read, what it will leave,
\* and if it adds a file everything it can leave on the way, unless a part
\* overruns the next.
FilesInv ==
  Intact =>
    /\ pc = "idle" => Proper(itab, Ibm, Dbm)
    /\ pc # "idle" => Proper(mitab, mibm, mdbm) /\ (op = "add" => Proper(seen, mibm, mdbm))
    /\ pc = "write inode bitmap" =>
         /\ itab = seen /\ Proper(seen, Ibm, Dbm)
         /\ op = "add" => Ibm \subseteq mibm /\ Dbm \subseteq mdbm
    /\ pc = "write data bitmap" =>
         /\ itab = seen
         /\ op = "add" /\ ~Overruns(sb.inode_count) => Proper(seen, mibm, Dbm)
    /\ pc = "write inodes" /\ ~Overruns(sb.datablock_count) => itab = seen

\* Marking more keeps a table proper.
LEMMA ProperGrows ==
  ASSUME NEW tab, NEW ib, NEW db, NEW ib2, NEW db2,
         Proper(tab, ib, db), ib \subseteq ib2, db \subseteq db2
  PROVE  Proper(tab, ib2, db2)
<1>1. /\ \A i \in LiveIn(tab) :
           /\ tab[i].number = i /\ i \in ib2
           /\ \E n \in Names : tab[i].name = Field(n)
           /\ BlocksOf(tab[i]) \subseteq db2 \cap 0 .. sb.datablock_count - 1
      /\ 0 \in ib2 /\ 0 \in db2
  BY Zenon DEF Proper
<1> QED BY <1>1, Zenon DEF Proper

\* Names are strings.
LEMMA NamesAreText == Names \subseteq Text
BY LayoutAssumption DEF Text

\* A lookup in a proper table finds the inode with this name.
LEMMA MatchesAre ==
  ASSUME NEW tab, NEW ib, NEW db, Proper(tab, ib, db), NEW n \in Text
  PROVE  Matches(n, tab) = {i \in LiveIn(tab) : tab[i].name = Field(n)}
<1>1. ASSUME NEW i \in LiveIn(tab)
      PROVE  strncmp(n, tab[i].name, INODE_FILENAME_LENGTH - 1) = 0 <=> tab[i].name = Field(n)
  <2>1. PICK m \in Names : tab[i].name = Field(m) BY DEF Proper
  <2>2. m \in Text BY NamesAreText
  <2>3. strncmp(n, Field(m), INODE_FILENAME_LENGTH - 1) = 0 <=> Alike(n, m)
    BY <2>2, ComparesAlike
  <2>4. Alike(n, m) <=> Field(n) = Field(m) BY <2>2, AlikeFields
  <2> HIDE DEF Field
  <2> QED BY <2>1, <2>3, <2>4
<1> QED BY <1>1 DEF Matches, LiveIn

\* fs_add makes a proper table and proper bitmaps.
LEMMA AddProper ==
  ASSUME TypeOK, Intact, FilesInv, NEW n \in Names, NEW f \in HostFiles, AddStart(n, f)
  PROVE  LET i == Min(FreeInodes)
             blocks == SubSeq(Ascending(ContentBlocks), 1, Len(f))
             pointers == {b \in PointerBlocks : \E c \in Range(blocks) : b < c}
         IN  /\ Proper(mitab', mibm', mdbm')
             /\ i \in DOMAIN itab /\ i \notin LiveIn(itab)
             /\ DOMAIN mitab' = DOMAIN itab
             /\ \A j \in DOMAIN itab : j # i => mitab'[j] = itab[j]
             /\ mitab'[i] = [number |-> i, name |-> Field(n),
                            ptrs |-> blocks, indirect_ptr |-> pointers] /\ i > 0
<1> DEFINE i == Min(FreeInodes)
           blocks == SubSeq(Ascending(ContentBlocks), 1, Len(f))
           pointers == {b \in PointerBlocks : \E c \in Range(blocks) : b < c}
           ptrs == [k \in DOMAIN blocks |-> blocks[k] % PtrMod]
           new == [number |-> i,
                   name |-> strncpy(itab[i].name, n, INODE_FILENAME_LENGTH - 1),
                   ptrs |-> ptrs, indirect_ptr |-> {b % PtrMod : b \in pointers}]
<1>1. /\ pc = "idle" /\ FreeInodes # {} /\ Cardinality(ContentBlocks) >= Len(f)
      /\ ~file_exists(n)
      /\ mibm' = Ibm \cup {i} /\ mdbm' = Dbm \cup Range(blocks) \cup pointers
      /\ mitab' = [itab EXCEPT ![i] = new]
  BY DEF AddStart, Ibm, Dbm
<1>2. TypeOK /\ sb.datablock_count <= PtrMod /\ sb.datablock_count \in Nat
  BY SbType, SuperblockType DEF Intact, Fits
<1>3. Proper(itab, Ibm, Dbm) BY <1>1 DEF FilesInv
<1>4. /\ i \in FreeInodes /\ i \in 0 .. sb.inode_count - 1
      /\ Len(f) \in Nat /\ DOMAIN blocks = 1 .. Len(f)
      /\ \A k \in 1 .. Len(f) : blocks[k] \in ContentBlocks
      /\ \A j, k \in 1 .. Len(f) : blocks[j] = blocks[k] => j = k
  BY <1>1, <1>2, AddTakes
<1>5. blocks = [k \in DOMAIN blocks |-> blocks[k]]
  <2>1. ContentBlocks \in SUBSET (0 .. sb.datablock_count - 1) BY <1>2, ReadType, BlocksOfFile
  <2>2. Ascending(ContentBlocks) \in Seq(ContentBlocks) /\ Cardinality(ContentBlocks) \in Nat
        /\ Len(Ascending(ContentBlocks)) = Cardinality(ContentBlocks)
    BY <1>2, <2>1, AscendingFacts
  <2>3. blocks \in Seq(ContentBlocks) BY <1>1, <1>4, <2>2
  <2> HIDE DEF blocks
  <2> QED BY <2>3
<1>6. ptrs = blocks /\ {b % PtrMod : b \in pointers} = pointers
  <2>1. FreeBlocks \subseteq 0 .. sb.datablock_count - 1 BY <1>2, ReadType
  <2>2. PtrMod \in Nat \ {0} BY LayoutAssumption
  <2>3. ASSUME NEW b \in FreeBlocks PROVE b % PtrMod = b
    <3>1. b \in 0 .. sb.datablock_count - 1 BY <2>1
    <3>2. b \in 0 .. PtrMod - 1 BY <1>2, <2>2, <3>1
    <3> QED BY <2>2, <3>2, ModSmall
  <2>4. \A k \in 1 .. Len(f) : blocks[k] % PtrMod = blocks[k]
    <3> HIDE DEF blocks
    <3> QED BY <1>4, <2>3, BlocksOfFile
  <2>5. {b % PtrMod : b \in pointers} = pointers
    <3>1. pointers \subseteq FreeBlocks BY BlocksOfFile
    <3> HIDE DEF pointers
    <3> QED BY <2>3, <3>1
  <2> HIDE DEF blocks
  <2> QED BY <1>4, <1>5, <2>4, <2>5
<1>7. Range(blocks) \cup pointers \subseteq FreeBlocks /\ FreeBlocks \cap Dbm = {}
      /\ FreeBlocks \subseteq 0 .. sb.datablock_count - 1
  BY <1>2, <1>4, ReadType, BlocksOfFile DEF Range, FreeBlocks, Dbm
<1> HIDE DEF blocks, pointers, ptrs, i
<1>8. i \notin Ibm /\ i \in DOMAIN itab /\ i \notin LiveIn(itab) /\ i > 0
  <2>1. i \notin Ibm BY <1>4 DEF FreeInodes, Ibm
  <2>2. i # 0 /\ i \notin LiveIn(itab) BY <1>3, <2>1 DEF Proper
  <2> QED BY <1>2, <1>4, <2>1, <2>2, ReadType
<1>9. new.name = Field(n)
  <2>1. itab[i] = Free BY <1>3, <1>8 DEF Proper
  <2> QED BY <2>1 DEF Free, Field
<1>10. /\ mitab'[i] = [number |-> i, name |-> Field(n),
                      ptrs |-> blocks, indirect_ptr |-> pointers]
       /\ \A j \in DOMAIN itab : j # i => mitab'[j] = itab[j]
       /\ DOMAIN mitab' = DOMAIN itab
  BY <1>1, <1>6, <1>8, <1>9
<1>11. LiveIn(mitab') = LiveIn(itab) \cup {i}
  BY <1>8, <1>10 DEF LiveIn
<1>12. \A a \in LiveIn(itab) : itab[a].name # Field(n)
  <2>1. n \in Text BY NamesAreText
  <2>2. Matches(n, itab) = {} BY <1>1 DEF file_exists
  <2> QED BY <1>3, <2>1, <2>2, MatchesAre
<1>13. \A a \in LiveIn(itab) : a \in DOMAIN itab /\ a # i
                               /\ BlocksOf(itab[a]) \cap (Range(blocks) \cup pointers) = {}
  BY <1>3, <1>7, <1>8 DEF Proper, LiveIn
<1> DEFINE mt == mitab'
           mi == mibm'
           md == mdbm'
<1>14. Proper(mt, mi, md)
  <2>1. mi = Ibm \cup {i} /\ md = Dbm \cup Range(blocks) \cup pointers BY <1>1
  <2>2. LiveIn(mt) = LiveIn(itab) \cup {i} BY <1>11
  <2>3. /\ mt[i].number = i /\ mt[i].name = Field(n) 
        /\ BlocksOf(mt[i]) = Range(blocks) \cup pointers
        /\ \A j \in DOMAIN itab : j # i => mt[j] = itab[j]
        /\ DOMAIN mt = DOMAIN itab
    BY <1>10 DEF BlocksOf
  <2> HIDE DEF mt, mi, md
  <2>4. \A a \in LiveIn(mt) :
          /\ mt[a].number = a /\ a \in mi
          /\ \E m \in Names : mt[a].name = Field(m)
          /\ BlocksOf(mt[a]) \subseteq md \cap 0 .. sb.datablock_count - 1
    <3>1. ASSUME NEW a \in LiveIn(itab)
          PROVE  /\ mt[a].number = a /\ a \in mi
                 /\ \E m \in Names : mt[a].name = Field(m)
                 /\ BlocksOf(mt[a]) \subseteq md \cap 0 .. sb.datablock_count - 1
      <4>1. mt[a] = itab[a] BY <1>13, <2>3
      <4> QED BY <1>3, <2>1, <4>1 DEF Proper
    <3>2. /\ mt[i].number = i /\ i \in mi
          /\ \E m \in Names : mt[i].name = Field(m)
          /\ BlocksOf(mt[i]) \subseteq md \cap 0 .. sb.datablock_count - 1
      BY <1>7, <2>1, <2>3
    <3> QED BY <2>2, <3>1, <3>2
  <2>5. \A a, c \in LiveIn(mt) :
          a # c => /\ mt[a].name # mt[c].name
                   /\ BlocksOf(mt[a]) \cap BlocksOf(mt[c]) = {}
    <3>1. \A a \in LiveIn(itab) :
            mt[a].name # mt[i].name /\ BlocksOf(mt[a]) \cap BlocksOf(mt[i]) = {}
      BY <1>12, <1>13, <2>3
    <3>2. \A a, c \in LiveIn(itab) :
            a # c => /\ mt[a].name # mt[c].name
                     /\ BlocksOf(mt[a]) \cap BlocksOf(mt[c]) = {}
      BY <1>3, <1>13, <2>3 DEF Proper
    <3> QED BY <2>2, <3>1, <3>2
  <2>6. \A j \in DOMAIN mt \ LiveIn(mt) : mt[j] = Free
    BY <1>3, <2>2, <2>3 DEF Proper
  <2>7. 0 \in mi /\ 0 \in md BY <1>3, <2>1 DEF Proper
  <2> QED BY <2>4, <2>5, <2>6, <2>7 DEF Proper
<1> QED BY <1>8, <1>10, <1>14 DEF i, blocks, pointers

\* So does fs_del.
LEMMA DelProper ==
  ASSUME TypeOK, Intact, FilesInv, NEW n \in Names, DelStart(n), Intact'
  PROVE  LET i == fs_get_file_inode(n)
         IN  /\ Proper(mitab', mibm', mdbm')
             /\ i \in LiveIn(itab) /\ itab[i].name = Field(n)
             /\ mitab' = [itab EXCEPT ![i] = Free]
<1> DEFINE i == fs_get_file_inode(n)
<1>1. /\ pc = "idle" /\ file_exists(n)
      /\ mibm' = Ibm \ {itab[i].number}
      /\ mdbm' \subseteq Dbm /\ Dbm \ (BlocksOf(itab[i]) \ {0}) \subseteq mdbm'
      /\ mitab' = [itab EXCEPT ![i] = Free]
  <2> DEFINE ptrs == itab[i].ptrs
             direct == {ptrs[k] : k \in {l \in DOMAIN ptrs : l <= INODE_DIRECT_PTR_CNT}}
             long == Len(ptrs) > INODE_DIRECT_PTR_CNT
  <2>1. /\ pc = "idle" /\ file_exists(n)
        /\ mibm' = Ibm \ {itab[i].number}
        /\ \E wrong \in IF long THEN WrongPointers ELSE {{}} :
             mdbm' = Dbm \ ((direct \cup itab[i].indirect_ptr \cup wrong) \ {0})
        /\ mitab' = [itab EXCEPT ![i] = Free]
        /\ damaged' = (damaged \/ long)
    BY DEF DelStart, Ibm, Dbm
  <2>2. ~long BY <2>1 DEF Intact
  <2>3. direct \subseteq Range(ptrs) BY DEF Range
  <2> HIDE DEF i, direct, long
  <2> QED BY <2>1, <2>2, <2>3 DEF BlocksOf
<1>2. Proper(itab, Ibm, Dbm) BY <1>1 DEF FilesInv
<1>3. i \in LiveIn(itab) /\ itab[i].name = Field(n)
  <2>1. n \in Text BY NamesAreText
  <2>2. Matches(n, itab) = {a \in LiveIn(itab) : itab[a].name = Field(n)}
    BY <1>2, <2>1, MatchesAre
  <2>3. DOMAIN itab \subseteq Nat BY DEF itab, inode_table_read
  <2>4. Matches(n, itab) \in SUBSET Nat BY <2>3 DEF Matches
  <2>5. i \in Matches(n, itab) BY <1>1, <2>4, MinIsLeast DEF file_exists, fs_get_file_inode
  <2> QED BY <2>2, <2>5
<1> HIDE DEF i
<1>4. itab[i].number = i /\ i \in DOMAIN itab /\ 0 < i BY <1>2, <1>3 DEF Proper, LiveIn
<1> DEFINE mt == mitab'
           mi == mibm'
           md == mdbm'
<1>5. Proper(mt, mi, md)
  <2>1. mi = Ibm \ {i} /\ Dbm \ (BlocksOf(itab[i]) \ {0}) \subseteq md BY <1>1, <1>4
  <2>2. mt[i] = Free /\ DOMAIN mt = DOMAIN itab
        /\ \A j \in DOMAIN itab : j # i => mt[j] = itab[j]
    BY <1>1, <1>4
  <2> HIDE DEF mt, mi, md
  <2>3. LiveIn(mt) = LiveIn(itab) \ {i} BY <2>2 DEF LiveIn, Free
  <2>4. \A a \in LiveIn(mt) : mt[a] = itab[a] /\ a # i BY <2>2, <2>3 DEF LiveIn
  <2>5. \A a \in LiveIn(mt) :
          /\ mt[a].number = a /\ a \in mi
          /\ \E m \in Names : mt[a].name = Field(m)
          /\ BlocksOf(mt[a]) \subseteq md \cap 0 .. sb.datablock_count - 1
    <3> SUFFICES ASSUME NEW a \in LiveIn(mt)
                 PROVE  /\ mt[a].number = a /\ a \in mi
                        /\ \E m \in Names : mt[a].name = Field(m)
                        /\ BlocksOf(mt[a]) \subseteq md \cap 0 .. sb.datablock_count - 1
      OBVIOUS
    <3>1. mt[a] = itab[a] /\ a # i /\ a \in LiveIn(itab) BY <2>3, <2>4
    <3>2. /\ itab[a].number = a /\ a \in Ibm
          /\ \E m \in Names : itab[a].name = Field(m)
          /\ BlocksOf(itab[a]) \subseteq Dbm \cap 0 .. sb.datablock_count - 1
          /\ BlocksOf(itab[a]) \cap BlocksOf(itab[i]) = {}
      BY <1>2, <1>3, <3>1 DEF Proper
    <3>3. BlocksOf(mt[a]) \subseteq md \cap 0 .. sb.datablock_count - 1
      BY <2>1, <3>1, <3>2
    <3> QED BY <2>1, <3>1, <3>2, <3>3
  <2>6. \A a, c \in LiveIn(mt) :
          a # c => /\ mt[a].name # mt[c].name
                   /\ BlocksOf(mt[a]) \cap BlocksOf(mt[c]) = {}
    BY <1>2, <2>3, <2>4 DEF Proper
  <2>7. \A j \in DOMAIN mt \ LiveIn(mt) : mt[j] = Free BY <1>2, <2>2, <2>3 DEF Proper
  <2>8. 0 \in mi /\ 0 \in md BY <1>2, <1>4, <2>1 DEF Proper
  <2> QED BY <2>5, <2>6, <2>7, <2>8 DEF Proper
<1> QED BY <1>1, <1>3, <1>5 DEF i

\* fs_create leaves empty parts.
LEMMA Created ==
  ASSUME Init, Fits
  PROVE  /\ Ibm = {0} /\ Dbm = {0}
         /\ itab = [i \in 0 .. sb.inode_count - 1 |-> Free]
<1>1. PICK g \in Geometries :
        LET s == superblock_create(g)
            blank == [c \in Cells |-> Free]
        IN  /\ sb = s
            /\ image = inode_table_write(s, dbm_write(s, ibm_write(s, blank, {0}), {0}),
                                         [i \in 0 .. s.inode_count - 1 |-> Free])
  BY DEF Init
<1> DEFINE blank == [c \in Cells |-> Free]
           one == ibm_write(sb, blank, {0})
           two == dbm_write(sb, one, {0})
           none == [i \in 0 .. sb.inode_count - 1 |-> Free]
<1>2. TypeOK /\ sb \in Superblocks BY InitType, SbType
<1>3. image = inode_table_write(sb, two, none) BY <1>1
<1>4. \A c \in Cells : blank[c] \in Cell BY FreeCell
<1> HIDE DEF blank
<1>5. \A c \in Cells : one[c] \in Cell
  BY <1>2, <1>4, PartStarts, BitmapWriteType DEF ibm_write
<1>6. /\ {0} \in SUBSET (0 .. BITS * Bytes(sb.inode_count) - 1)
      /\ {0} \in SUBSET (0 .. BITS * Bytes(sb.datablock_count) - 1)
  <2>1. /\ sb.inode_count \in 1 .. WORD /\ sb.datablock_count \in 1 .. WORD
        /\ 0 \in 0 .. sb.inode_count - 1 /\ 0 \in 0 .. sb.datablock_count - 1
    BY <1>2, SuperblockType
  <2> QED BY <2>1, EnoughBytes, Zenon
<1> HIDE DEF one
<1>7. ibm_read(sb, one) = {0}
  <2>1. one = ibm_write(sb, blank, {0}) BY DEF one
  <2> QED BY <1>2, <1>4, <1>6, <2>1, IbmWritten
<1> HIDE DEF two
<1>8. ibm_read(sb, two) = {0} /\ dbm_read(sb, two) = {0}
  <2>1. two = dbm_write(sb, one, {0}) BY DEF two
  <2> QED BY <1>2, <1>5, <1>6, <1>7, <2>1, DbmWritten
<1> HIDE DEF none
<1>9. /\ ibm_read(sb, image) = {0} /\ dbm_read(sb, image) = {0}
      /\ inode_table_read(sb, image) = [i \in 0 .. sb.inode_count - 1 |-> none[i]]
  BY <1>2, <1>3, <1>8, ItabWritten
<1> QED BY <1>9 DEF Ibm, Dbm, itab, none

LEMMA InitFiles == ASSUME Init PROVE FilesInv
<1> SUFFICES ASSUME Intact PROVE Proper(itab, Ibm, Dbm)
  BY DEF Init, NoCommand, FilesInv
<1>1. Ibm = {0} /\ Dbm = {0} /\ itab = [i \in 0 .. sb.inode_count - 1 |-> Free]
  BY Created DEF Intact
<1> HIDE DEF itab, Ibm, Dbm
<1>2. LiveIn(itab) = {} BY <1>1 DEF LiveIn, Free
<1>3. \A i \in DOMAIN itab \ LiveIn(itab) : itab[i] = Free BY <1>1
<1> QED BY <1>1, <1>2, <1>3, Zenon DEF Proper

LEMMA AddFiles ==
  ASSUME TypeOK, FilesInv, NEW n \in Names, NEW f \in HostFiles, AddStart(n, f)
  PROVE  FilesInv'
<1> SUFFICES ASSUME Intact' PROVE FilesInv' BY DEF FilesInv
<1>1. /\ pc = "idle" /\ pc' = "write inode bitmap" /\ op' = "add" /\ seen' = itab
      /\ sb' = sb /\ image' = image /\ damaged' = damaged
      /\ \E X, Y : mibm' = Ibm \cup X /\ mdbm' = Dbm \cup Y
  BY DEF AddStart, Ibm, Dbm
<1>2. Intact BY <1>1, SameFits DEF Intact
<1>3. Proper(itab, Ibm, Dbm) BY <1>1, <1>2 DEF FilesInv
<1>4. itab' = itab /\ Ibm' = Ibm /\ Dbm' = Dbm BY <1>1 DEF itab, Ibm, Dbm
<1>5. Proper(mitab', mibm', mdbm') BY <1>2, AddProper
<1>6. Ibm \subseteq mibm' /\ Dbm \subseteq mdbm' BY <1>1
<1>7. Proper(itab, mibm', mdbm') BY <1>3, <1>6, ProperGrows
<1> HIDE DEF itab, Ibm, Dbm
<1>8. Proper(mitab, mibm, mdbm)' BY <1>1, <1>5 DEF Proper
<1>9. Proper(seen, mibm, mdbm)' BY <1>1, <1>7 DEF Proper
<1>10. Proper(seen, Ibm, Dbm)' BY <1>1, <1>3, <1>4 DEF Proper
<1>11. itab' = seen' /\ (Ibm \subseteq mibm)' /\ (Dbm \subseteq mdbm)' BY <1>1, <1>4, <1>6
<1> QED BY <1>1, <1>8, <1>9, <1>10, <1>11 DEF FilesInv

LEMMA DelFiles ==
  ASSUME TypeOK, FilesInv, NEW n \in Names, DelStart(n)
  PROVE  FilesInv'
<1> SUFFICES ASSUME Intact' PROVE FilesInv' BY DEF FilesInv
<1>1. /\ pc = "idle" /\ pc' = "write inode bitmap" /\ op' = "del" /\ seen' = itab
      /\ sb' = sb /\ image' = image /\ (damaged => damaged')
  BY DEF DelStart
<1>2. Intact BY <1>1, SameFits DEF Intact
<1>3. Proper(itab, Ibm, Dbm) BY <1>1, <1>2 DEF FilesInv
<1>4. itab' = itab /\ Ibm' = Ibm /\ Dbm' = Dbm BY <1>1 DEF itab, Ibm, Dbm
<1>5. Proper(mitab', mibm', mdbm') BY <1>2, DelProper
<1> HIDE DEF itab, Ibm, Dbm
<1>6. Proper(mitab, mibm, mdbm)' BY <1>1, <1>5 DEF Proper
<1>7. Proper(seen, Ibm, Dbm)' BY <1>1, <1>3, <1>4 DEF Proper
<1> QED BY <1>1, <1>4, <1>6, <1>7 DEF FilesInv

\* The last write makes the table of the command that of the image.
LEMMA TableWritten == ASSUME TypeOK, WriteItab PROVE itab' = mitab
<1>1. sb' = sb /\ pc # "idle" /\ image' = inode_table_write(sb, image, mitab)
  BY DEF WriteItab
<1>2. inode_table_read(sb, image') = [i \in 0 .. sb.inode_count - 1 |-> mitab[i]]
  BY <1>1, TableReadBack
<1>3. DOMAIN mitab = 0 .. sb.inode_count - 1 /\ mitab = [i \in DOMAIN mitab |-> mitab[i]]
  BY <1>1, ReadType DEF TypeOK
<1> QED BY <1>1, <1>2, <1>3 DEF itab

\* Each of the writes leaves what a killed command may leave, or what it made.
LEMMA WriteFiles ==
  ASSUME PartsInv, FilesInv, WriteIbm \/ WriteDbm \/ WriteItab
  PROVE  FilesInv'
<1> SUFFICES ASSUME Intact' PROVE FilesInv' BY DEF FilesInv
<1>1. sb' = sb /\ damaged' = damaged BY DEF WriteIbm, WriteDbm, WriteItab
<1>2. Intact /\ Fits BY <1>1, SameFits DEF Intact
<1>3. TypeOK /\ PartsStay BY DEF PartsInv
<1>4. /\ \A c \in Cells : image[c] \in Cell
      /\ mibm \in SUBSET (0 .. BITS * Bytes(sb.inode_count) - 1)
      /\ mdbm \in SUBSET (0 .. BITS * Bytes(sb.datablock_count) - 1)
  BY <1>3 DEF TypeOK
<1>5. CASE WriteIbm
  <2>1. /\ pc = "write inode bitmap" /\ pc' = "write data bitmap"
        /\ op' = op /\ mibm' = mibm /\ mdbm' = mdbm /\ mitab' = mitab /\ seen' = seen
        /\ image' = ibm_write(sb, image, mibm)
    BY <1>5 DEF WriteIbm, copies
  <2>2. /\ inode_table_read(sb, image') = inode_table_read(sb, image)
        /\ ~Overruns(sb.inode_count) => dbm_read(sb, image') = dbm_read(sb, image)
    BY <1>2, <1>3, <1>4, <2>1, IbmWritten
  <2>3. itab' = itab /\ (~Overruns(sb.inode_count) => Dbm' = Dbm)
    BY <1>1, <2>2 DEF itab, Dbm
  <2>4. /\ itab = seen /\ Proper(seen, Ibm, Dbm) /\ Proper(mitab, mibm, mdbm)
        /\ op = "add" => Proper(seen, mibm, mdbm) /\ Ibm \subseteq mibm
    BY <1>2, <2>1 DEF FilesInv
  <2> HIDE DEF itab, Ibm, Dbm
  <2>5. op = "add" => Proper(seen, mibm, Dbm) BY <2>4, ProperGrows
  <2>6. Proper(mitab, mibm, mdbm)' /\ (op' = "add" => Proper(seen, mibm, mdbm)')
    <3>1. UNCHANGED <<sb, mibm, mdbm, mitab, seen>> BY <1>1, <2>1
    <3>2. /\ Proper(mitab, mibm, mdbm)' = Proper(mitab, mibm, mdbm)
          /\ Proper(seen, mibm, mdbm)' = Proper(seen, mibm, mdbm)
      BY <3>1 DEF Proper
    <3> QED BY <2>1, <2>4, <3>2
  <2>7. op' = "add" /\ ~Overruns(sb.inode_count) => Proper(seen, mibm, Dbm)'
    BY <1>1, <2>1, <2>3, <2>5 DEF Proper
  <2>8. itab' = seen' BY <2>1, <2>3, <2>4
  <2> QED BY <1>1, <2>1, <2>6, <2>7, <2>8, SameFits DEF FilesInv
<1>6. CASE WriteDbm
  <2>1. /\ pc = "write data bitmap" /\ pc' = "write inodes"
        /\ op' = op /\ mibm' = mibm /\ mdbm' = mdbm /\ mitab' = mitab /\ seen' = seen
        /\ image' = dbm_write(sb, image, mdbm)
    BY <1>6 DEF WriteDbm, copies
  <2>2. ~Overruns(sb.datablock_count) => inode_table_read(sb, image') = inode_table_read(sb, image)
    BY <1>2, <1>3, <1>4, <2>1, DbmWritten
  <2>3. ~Overruns(sb.datablock_count) => itab' = itab BY <1>1, <2>2 DEF itab
  <2>4. /\ itab = seen /\ Proper(mitab, mibm, mdbm) /\ (op = "add" => Proper(seen, mibm, mdbm))
    BY <1>2, <2>1 DEF FilesInv
  <2> HIDE DEF itab
  <2>5. Proper(mitab, mibm, mdbm)' /\ (op' = "add" => Proper(seen, mibm, mdbm)')
    <3>1. UNCHANGED <<sb, mibm, mdbm, mitab, seen>> BY <1>1, <2>1
    <3>2. /\ Proper(mitab, mibm, mdbm)' = Proper(mitab, mibm, mdbm)
          /\ Proper(seen, mibm, mdbm)' = Proper(seen, mibm, mdbm)
      BY <3>1 DEF Proper
    <3> QED BY <2>1, <2>4, <3>2
  <2> QED BY <1>1, <2>1, <2>3, <2>4, <2>5, SameFits DEF FilesInv
<1>7. CASE WriteItab
  <2>1. /\ pc = "write inodes" /\ pc' = "idle" /\ image' = inode_table_write(sb, image, mitab)
    BY <1>7 DEF WriteItab, EndCommand
  <2>2. /\ ibm_read(sb, image') = ibm_read(sb, image)
        /\ dbm_read(sb, image') = dbm_read(sb, image)
    <3>1. image' = inode_table_write(sb, image, mitab) BY <2>1
    <3> QED BY <1>2, <1>3, <3>1, ItabWritten
  <2>3. Ibm' = mibm /\ Dbm' = mdbm
    BY <1>1, <1>2, <1>3, <2>1, <2>2 DEF Ibm, Dbm, PartsStay
  <2>4. itab' = mitab BY <1>3, <1>7, TableWritten
  <2>5. Proper(mitab, mibm, mdbm) BY <1>2, <2>1 DEF FilesInv
  <2> HIDE DEF itab, Ibm, Dbm
  <2>6. Proper(itab, Ibm, Dbm)' BY <1>1, <2>3, <2>4, <2>5 DEF Proper
  <2> QED BY <2>1, <2>6 DEF FilesInv
<1> QED BY <1>5, <1>6, <1>7

\* A command that is killed leaves the table it read and all its bits, or only
\* bits more; the moments when it does not are those that damage the image.
LEMMA KillFiles == ASSUME PartsInv, FilesInv, Kill PROVE FilesInv'
<1> SUFFICES ASSUME Intact' PROVE FilesInv' BY DEF FilesInv
<1>1. /\ pc # "idle" /\ pc' = "idle" /\ sb' = sb /\ image' = image
      /\ ~damaged /\ ~(op = "del" /\ pc # "write inode bitmap")
      /\ ~(pc = "write data bitmap" /\ Overruns(sb.inode_count))
      /\ ~(pc = "write inodes" /\ Overruns(sb.datablock_count))
  BY DEF Kill, EndCommand, Intact
<1>2. Intact /\ Fits BY <1>1, SameFits DEF Intact
<1>3. /\ pc \in {"write inode bitmap", "write data bitmap", "write inodes"}
      /\ op \in {"add", "del"}
  BY <1>1 DEF PartsInv, TypeOK
<1>4. itab' = itab /\ Ibm' = Ibm /\ Dbm' = Dbm BY <1>1 DEF itab, Ibm, Dbm
<1>5. /\ pc \in {"write data bitmap", "write inodes"} => Ibm = mibm
      /\ pc = "write inodes" => Dbm = mdbm
  BY <1>2 DEF PartsInv, PartsStay, Ibm, Dbm
<1> HIDE DEF itab, Ibm, Dbm
<1>6. Proper(itab, Ibm, Dbm)
  <2>1. CASE pc = "write inode bitmap" BY <1>2, <2>1 DEF FilesInv
  <2>2. CASE pc = "write data bitmap" BY <1>1, <1>2, <1>3, <1>5, <2>2 DEF FilesInv
  <2>3. CASE pc = "write inodes" BY <1>1, <1>2, <1>3, <1>5, <2>3 DEF FilesInv
  <2> QED BY <1>3, <2>1, <2>2, <2>3
<1>7. Proper(itab, Ibm, Dbm)' BY <1>1, <1>4, <1>6 DEF Proper
<1> QED BY <1>1, <1>7 DEF FilesInv

\* Nothing of the files changes in any other step.
LEMMA OtherFiles ==
  ASSUME FilesInv, UNCHANGED <<sb, image, command, copies, damaged>>
  PROVE  FilesInv'
<1>1. UNCHANGED <<sb, image, pc, op, mibm, mdbm, mitab, seen, damaged>> BY DEF command, copies
<1>2. itab' = itab /\ Ibm' = Ibm /\ Dbm' = Dbm BY <1>1 DEF itab, Ibm, Dbm
<1>3. Intact' = Intact BY <1>1, SameFits DEF Intact
<1>4. Proper(itab, Ibm, Dbm)' = Proper(itab, Ibm, Dbm)
      /\ Proper(mitab, mibm, mdbm)' = Proper(mitab, mibm, mdbm)
      /\ Proper(seen, mibm, mdbm)' = Proper(seen, mibm, mdbm)
      /\ Proper(seen, Ibm, Dbm)' = Proper(seen, Ibm, Dbm)
      /\ Proper(seen, mibm, Dbm)' = Proper(seen, mibm, Dbm)
  <2> HIDE DEF itab, Ibm, Dbm
  <2> QED BY <1>1, <1>2 DEF Proper
<1> HIDE DEF itab, Ibm, Dbm
<1> QED BY <1>1, <1>2, <1>3, <1>4, SameFits DEF FilesInv

LEMMA FilesStep == ASSUME PartsInv, FilesInv, [Next]_vars PROVE FilesInv'
<1>1. ASSUME NEW n \in Names, NEW f \in HostFiles, AddFailed(n, f) PROVE FilesInv'
  BY <1>1, OtherFiles DEF AddFailed
<1>2. ASSUME NEW n \in Names, AddRefused(n) \/ DelRefused(n) PROVE FilesInv'
  BY <1>2, OtherFiles DEF AddRefused, DelRefused, vars
<1>3. CASE UNCHANGED vars BY <1>3, OtherFiles DEF vars
<1>4. TypeOK BY DEF PartsInv
<1> QED BY <1>1, <1>2, <1>3, <1>4, AddFiles, DelFiles, WriteFiles, KillFiles DEF Next

LEMMA FilesInvariant == Spec => [](PartsInv /\ FilesInv)
<1>1. Init => FilesInv BY InitFiles
<1>2. PartsInv /\ FilesInv /\ [Next]_vars => FilesInv' BY FilesStep
<1> QED BY <1>1, <1>2, PartsInvariant, PTL DEF Spec

\* For all sizes of an image whose bitmaps fit and whose blocks an uint16_t can
\* number, between commands no two files share a block or an inode, and all they
\* use is marked, whatever was added, deleted or killed before.
THEOREM FilesKeptApart == Spec => []FilesApart
<1>1. FilesInv => FilesApart
  <2> SUFFICES ASSUME FilesInv, Intact, pc = "idle" PROVE Apart BY DEF FilesApart
  <2>1. Proper(itab, Ibm, Dbm) BY DEF FilesInv
  <2>2. Live = LiveIn(itab) BY DEF Live, LiveIn
  <2> QED BY <2>1, <2>2 DEF Proper, BlocksOf, Apart, Used, Ibm, Dbm
<1> QED BY <1>1, FilesInvariant, PTL

-----------------------------------------------------------------------------
(* The store of files *)

\* What an inode points to, and tables with names and blocks that are not shared.
HeldBy(tab, dat, i) == [k \in DOMAIN tab[i].ptrs |-> dat[tab[i].ptrs[k]]]
Sound(tab) == Proper(tab, {0} \cup LiveIn(tab), {0} \cup (0 .. sb.datablock_count - 1))

\* The command that runs adds or deletes this inode.
AddsFile(i) ==
  /\ i \notin LiveIn(seen) /\ mitab = [seen EXCEPT ![i] = mitab[i]]
  /\ mitab[i].number > 0 /\ mitab[i].name = Field(name)
  /\ HeldBy(mitab, data, i) = src /\ src \in HostFiles

DeletesFile(i) ==
  i \in LiveIn(seen) /\ seen[i].name = Field(name) /\ mitab = [seen EXCEPT ![i] = Free]

\* The files of an intact image are whole, and a command changes one of them.
StoreInv ==
  Intact =>
    /\ Sound(Table) /\ \A i \in LiveIn(Table) : HeldBy(Table, data, i) \in HostFiles
    /\ pc # "idle" =>
         /\ name \in Names
         /\ op = "add" => \E i \in DOMAIN seen : AddsFile(i)
         /\ op = "del" => \E i \in DOMAIN seen : DeletesFile(i)

LEMMA ProperIsSound ==
  ASSUME NEW tab, NEW ib, NEW db, Proper(tab, ib, db) PROVE Sound(tab)
BY Zenon DEF Proper, Sound

\* What fs_add writes to free blocks changes no file and can be read from them.
LEMMA StoreKeeps ==
  ASSUME TypeOK, Proper(itab, Ibm, Dbm), NEW f, NEW blocks, NEW pointers \in SUBSET FreeBlocks,
         \A k \in DOMAIN blocks : blocks[k] \in FreeBlocks, NEW i \in LiveIn(itab)
  PROVE  HeldBy(itab, Store(f, blocks, pointers), i) = HeldBy(itab, data, i)
<1> DEFINE ptrs == itab[i].ptrs
<1>1. Range(ptrs) \subseteq Dbm \cap 0 .. sb.datablock_count - 1 BY DEF Proper, BlocksOf
<1>2. ASSUME NEW k \in DOMAIN ptrs PROVE Store(f, blocks, pointers)[ptrs[k]] = data[ptrs[k]]
  <2>1. ptrs[k] \in Range(ptrs) BY DEF Range
  <2>2. ptrs[k] \in DOMAIN data /\ ptrs[k] \notin FreeBlocks
    BY <1>1, <2>1 DEF TypeOK, FreeBlocks, Dbm
  <2> HIDE DEF ptrs
  <2> QED BY <2>2 DEF Store
<1> QED BY <1>2 DEF HeldBy

LEMMA StoreHolds ==
  ASSUME TypeOK, NEW f \in HostFiles, NEW blocks, NEW pointers, DOMAIN blocks = 1 .. Len(f),
         \A k \in 1 .. Len(f) : blocks[k] \in FreeBlocks,
         \A j, k \in 1 .. Len(f) : blocks[j] = blocks[k] => j = k
  PROVE  [k \in DOMAIN blocks |-> Store(f, blocks, pointers)[blocks[k]]] = f
<1>1. f = [k \in 1 .. Len(f) |-> f[k]] /\ Len(f) \in Nat BY LayoutAssumption
<1>2. FreeBlocks \subseteq DOMAIN data BY DEF TypeOK, FreeBlocks
<1>3. ASSUME NEW k \in 1 .. Len(f) PROVE Store(f, blocks, pointers)[blocks[k]] = f[k]
  <2> DEFINE b == blocks[k]
             at == CHOOSE j \in DOMAIN blocks : blocks[j] = b
  <2>1. at \in 1 .. Len(f) /\ blocks[at] = b OBVIOUS
  <2>2. at = k BY <2>1, Zenon
  <2>3. \E j \in DOMAIN blocks : blocks[j] = b /\ j <= Len(f) BY <1>1
  <2>4. b \in DOMAIN data BY <1>2
  <2>5. Store(f, blocks, pointers)[b] = f[at] BY <2>3, <2>4, Zenon DEF Store
  <2> QED BY <2>2, <2>5
<1> QED BY <1>1, <1>3

\* A command that is killed without damage leaves the table it has read.
LEMMA KillDropsTable == ASSUME PartsInv, FilesInv, Kill, Intact, Intact' PROVE Table' = Table
<1>1. /\ pc # "idle" /\ pc' = "idle" /\ itab' = itab
      /\ ~(pc = "write inodes" /\ Overruns(sb.datablock_count))
  BY DEF Kill, EndCommand, Intact, itab
<1>2. pc \in {"write inode bitmap", "write data bitmap", "write inodes"}
  BY <1>1 DEF PartsInv, TypeOK
<1>3. itab = seen BY <1>1, <1>2 DEF FilesInv
<1> QED BY <1>1, <1>3 DEF Table

LEMMA StaysIntact == ASSUME Next PROVE sb' = sb /\ (Intact' => Intact)
<1>1. ASSUME NEW n \in Names, NEW f \in HostFiles, AddStart(n, f) \/ AddFailed(n, f)
      PROVE  sb' = sb /\ (~damaged' => ~damaged)
  <2>1. sb' = sb /\ damaged' = damaged BY <1>1 DEF AddStart, AddFailed
  <2> QED BY <2>1
<1>2. ASSUME NEW n \in Names, AddRefused(n) \/ DelStart(n) \/ DelRefused(n)
      PROVE  sb' = sb /\ (~damaged' => ~damaged)
  <2>1. CASE AddRefused(n) \/ DelRefused(n)
    <3>1. sb' = sb /\ damaged' = damaged BY <2>1 DEF AddRefused, DelRefused, vars
    <3> QED BY <3>1
  <2>2. CASE DelStart(n)
    <3>1. sb' = sb BY <2>2 DEF DelStart
    <3>2. damaged => damaged' BY <2>2, Zenon DEF DelStart
    <3> QED BY <3>1, <3>2
  <2> QED BY <1>2, <2>1, <2>2
<1>3. ASSUME WriteIbm \/ WriteDbm \/ WriteItab PROVE sb' = sb /\ (~damaged' => ~damaged)
  <2>1. sb' = sb /\ damaged' = damaged BY <1>3 DEF WriteIbm, WriteDbm, WriteItab
  <2> QED BY <2>1
<1>4. ASSUME Kill PROVE sb' = sb /\ (~damaged' => ~damaged)
  <2>1. sb' = sb BY <1>4 DEF Kill
  <2>2. ~damaged' => ~damaged BY <1>4 DEF Kill
  <2> QED BY <2>1, <2>2
<1>5. sb' = sb /\ (~damaged' => ~damaged) BY <1>1, <1>2, <1>3, <1>4 DEF Next
<1> QED BY <1>5, SameFits DEF Intact

LEMMA AddStores ==
  ASSUME PartsInv, FilesInv, Intact, NEW n \in Names, NEW f \in HostFiles, AddStart(n, f)
  PROVE  /\ \A i \in LiveIn(itab) : HeldBy(itab, data', i) = HeldBy(itab, data, i)
         /\ \E i \in DOMAIN itab : AddsFile(i)'
<1> DEFINE i == Min(FreeInodes)
           blocks == SubSeq(Ascending(ContentBlocks), 1, Len(f))
           pointers == {b \in PointerBlocks : \E c \in Range(blocks) : b < c}
           ptrs == [k \in DOMAIN blocks |-> blocks[k] % PtrMod]
           new == [number |-> i,
                   name |-> strncpy(itab[i].name, n, INODE_FILENAME_LENGTH - 1),
                   ptrs |-> ptrs, indirect_ptr |-> {b % PtrMod : b \in pointers}]
<1>1. /\ pc = "idle" /\ FreeInodes # {} /\ Cardinality(ContentBlocks) >= Len(f)
      /\ data' = Store(f, blocks, pointers) /\ mitab' = [itab EXCEPT ![i] = new]
      /\ seen' = itab /\ name' = n /\ src' = f /\ sb' = sb
  BY DEF AddStart
<1>2. TypeOK /\ Proper(itab, Ibm, Dbm) BY <1>1 DEF PartsInv, FilesInv
<1>3. /\ i \in DOMAIN itab /\ i \notin LiveIn(itab) /\ i > 0
      /\ mitab'[i] = [number |-> i, name |-> Field(n),
                     ptrs |-> blocks, indirect_ptr |-> pointers]
  BY <1>2, AddProper
<1>4. /\ DOMAIN blocks = 1 .. Len(f)
      /\ \A k \in 1 .. Len(f) : blocks[k] \in ContentBlocks
      /\ \A j, k \in 1 .. Len(f) : blocks[j] = blocks[k] => j = k
  BY <1>1, <1>2, AddTakes
<1>10. /\ \A k \in 1 .. Len(f) : blocks[k] \in FreeBlocks
       /\ pointers \in SUBSET FreeBlocks
  BY <1>4, BlocksOfFile
<1> HIDE DEF i, blocks, pointers, new, itab
<1>5. ASSUME NEW a \in LiveIn(itab) PROVE HeldBy(itab, data', a) = HeldBy(itab, data, a)
  BY <1>1, <1>2, <1>4, <1>10, StoreKeeps
<1>6. mitab' = [itab EXCEPT ![i] = mitab'[i]] BY <1>1, <1>3
<1>7. HeldBy(mitab', data', i) = f
  <2>1. [k \in DOMAIN blocks |-> data'[blocks[k]]] = f BY <1>1, <1>2, <1>4, <1>10, StoreHolds
  <2> QED BY <1>3, <2>1 DEF HeldBy
<1>8. mitab'[i].number > 0 /\ mitab'[i].name = Field(n) BY <1>3
<1>9. \E a \in DOMAIN itab : AddsFile(a)'
  <2>1. PICK a \in DOMAIN itab : a = i BY <1>3
  <2>2. AddsFile(a)' BY <1>1, <1>3, <1>6, <1>7, <1>8, <2>1 DEF AddsFile
  <2> QED BY <2>2
<1> QED BY <1>5, <1>9

\* A file that is too large is written to the free blocks all the same.
LEMMA FailedKeeps ==
  ASSUME PartsInv, FilesInv, Intact, NEW n \in Names, NEW f \in HostFiles, AddFailed(n, f)
  PROVE  \A i \in LiveIn(itab) : HeldBy(itab, data', i) = HeldBy(itab, data, i)
<1>1. pc = "idle" /\ data' = Store(f, Ascending(ContentBlocks), PointerBlocks) BY DEF AddFailed
<1>2. TypeOK /\ Proper(itab, Ibm, Dbm) BY <1>1 DEF PartsInv, FilesInv
<1>3. sb.datablock_count \in Nat BY <1>2, SbType, SuperblockType
<1>4. ContentBlocks \in SUBSET (0 .. sb.datablock_count - 1) BY <1>2, ReadType, BlocksOfFile
<1>5. Ascending(ContentBlocks) \in Seq(ContentBlocks) BY <1>3, <1>4, AscendingFacts
<1>6. \A k \in DOMAIN Ascending(ContentBlocks) : Ascending(ContentBlocks)[k] \in FreeBlocks
  BY <1>5, BlocksOfFile
<1>7. PointerBlocks \in SUBSET FreeBlocks BY BlocksOfFile
<1> QED BY <1>1, <1>2, <1>6, <1>7, StoreKeeps, Zenon

LEMMA StoreStep ==
  ASSUME PartsInv, FilesInv, FilesInv', StoreInv, [Next]_vars
  PROVE  StoreInv'
<1>0. CASE UNCHANGED vars
  <2>1. UNCHANGED <<sb, image, data, pc, op, name, src, mibm, mdbm, mitab, seen, damaged>>
    BY <1>0 DEF vars, command, copies
  <2>2. Table' = Table /\ Intact' = Intact BY <2>1, SameFits DEF Table, itab, Intact
  <2>3. Sound(Table)' = Sound(Table)
    <3> HIDE DEF Table
    <3> QED BY <2>1, <2>2 DEF Sound, Proper
  <2>4. /\ \A i : AddsFile(i)' = AddsFile(i)
        /\ \A i : DeletesFile(i)' = DeletesFile(i)
    BY <2>1 DEF AddsFile, DeletesFile, HeldBy
  <2> HIDE DEF Table
  <2> QED BY <2>1, <2>2, <2>3, <2>4 DEF StoreInv, HeldBy
<1> SUFFICES ASSUME Next, Intact' PROVE StoreInv' BY <1>0 DEF StoreInv
<1>1. sb' = sb /\ Intact BY StaysIntact
<1>2. TypeOK BY DEF PartsInv
<1>3. Sound(Table) /\ \A i \in LiveIn(Table) : HeldBy(Table, data, i) \in HostFiles
  BY <1>1 DEF StoreInv
<1>4. ASSUME Table' = Table,
             \A i \in LiveIn(Table) : HeldBy(Table, data', i) = HeldBy(Table, data, i)
      PROVE  Sound(Table)' /\ \A i \in LiveIn(Table') : HeldBy(Table', data', i) \in HostFiles
  <2> HIDE DEF Table
  <2>1. Sound(Table)' BY <1>1, <1>3, <1>4 DEF Sound, Proper
  <2> QED BY <1>3, <1>4, <2>1
<1>5. ASSUME Table' = Table, data' = data
      PROVE  Sound(Table)' /\ \A i \in LiveIn(Table') : HeldBy(Table', data', i) \in HostFiles
  BY <1>4, <1>5
<1>6. ASSUME NEW n \in Names, NEW f \in HostFiles, AddStart(n, f) PROVE StoreInv'
  <2>1. pc = "idle" /\ pc' # "idle" /\ seen' = itab /\ name' = n /\ op' = "add"
    BY <1>6 DEF AddStart
  <2>2. Table = itab BY <2>1 DEF Table
  <2>3. /\ \A i \in LiveIn(itab) : HeldBy(itab, data', i) = HeldBy(itab, data, i)
        /\ \E i \in DOMAIN itab : AddsFile(i)'
    BY <1>1, <1>6, AddStores
  <2>4. Table' = Table BY <1>6, <2>1 DEF AddStart, Table
  <2>5. Sound(Table)' /\ \A i \in LiveIn(Table') : HeldBy(Table', data', i) \in HostFiles
    BY <1>4, <2>2, <2>3, <2>4
  <2>6. \E i \in DOMAIN seen' : AddsFile(i)' BY <2>1, <2>3
  <2> QED BY <2>1, <2>5, <2>6 DEF StoreInv
<1>7. ASSUME NEW n \in Names, NEW f \in HostFiles, AddFailed(n, f) PROVE StoreInv'
  <2>1. pc = "idle" /\ UNCHANGED <<sb, image, pc>> BY <1>7 DEF AddFailed, command
  <2>2. Table = itab /\ Table' = Table BY <2>1 DEF Table, itab
  <2>3. \A i \in LiveIn(itab) : HeldBy(itab, data', i) = HeldBy(itab, data, i)
    BY <1>1, <1>7, FailedKeeps
  <2>4. Sound(Table)' /\ \A i \in LiveIn(Table') : HeldBy(Table', data', i) \in HostFiles
    BY <1>4, <2>2, <2>3
  <2> QED BY <2>1, <2>4 DEF StoreInv
<1>8. ASSUME NEW n \in Names, DelStart(n) PROVE StoreInv'
  <2> DEFINE i == fs_get_file_inode(n)
  <2>1. /\ pc = "idle" /\ pc' # "idle" /\ seen' = itab /\ name' = n /\ op' = "del"
        /\ data' = data
    BY <1>8 DEF DelStart
  <2>2. i \in LiveIn(itab) /\ itab[i].name = Field(n) /\ mitab' = [itab EXCEPT ![i] = Free]
    BY <1>1, <1>2, <1>8, DelProper
  <2>3. Table' = Table BY <1>8, <2>1 DEF DelStart, Table
  <2>4. Sound(Table)' /\ \A a \in LiveIn(Table') : HeldBy(Table', data', a) \in HostFiles
    BY <1>5, <2>1, <2>3
  <2> HIDE DEF i, itab
  <2>5. \E a \in DOMAIN itab : DeletesFile(a)'
    <3>1. PICK a \in DOMAIN itab : a = i BY <2>2 DEF LiveIn
    <3>2. DeletesFile(a)' BY <2>1, <2>2, <3>1 DEF DeletesFile
    <3> QED BY <3>2
  <2>6. \E a \in DOMAIN seen' : DeletesFile(a)' BY <2>1, <2>5
  <2> QED BY <2>1, <2>4, <2>5, <2>6 DEF StoreInv
<1>9. ASSUME NEW n \in Names, AddRefused(n) \/ DelRefused(n) PROVE StoreInv'
  BY <1>0, <1>9 DEF AddRefused, DelRefused
<1>10. CASE WriteIbm \/ WriteDbm
  <2>1. /\ pc # "idle" /\ pc' # "idle"
        /\ UNCHANGED <<sb, data, op, name, src, mitab, seen>>
    BY <1>10 DEF WriteIbm, WriteDbm, copies
  <2>2. Table' = Table BY <2>1 DEF Table
  <2>3. Sound(Table)' /\ \A a \in LiveIn(Table') : HeldBy(Table', data', a) \in HostFiles
    BY <1>5, <2>1, <2>2
  <2>4. /\ \A i : AddsFile(i)' = AddsFile(i)
        /\ \A i : DeletesFile(i)' = DeletesFile(i)
    BY <2>1 DEF AddsFile, DeletesFile, HeldBy
  <2> HIDE DEF Table
  <2> QED BY <1>1, <2>1, <2>3, <2>4 DEF StoreInv
<1>11. CASE WriteItab
  <2>1. pc = "write inodes" /\ pc' = "idle" /\ data' = data
    BY <1>11 DEF WriteItab, EndCommand
  <2>2. Table' = mitab BY <1>2, <1>11, <2>1, TableWritten DEF Table
  <2>3. Table = seen BY <2>1 DEF Table
  <2>4. Sound(mitab) BY <1>1, <2>1, ProperIsSound DEF FilesInv
  <2> HIDE DEF Table
  <2>5. Sound(Table)' BY <1>1, <2>2, <2>4 DEF Sound, Proper
  <2>6. /\ \/ op = "add" /\ \E i \in DOMAIN seen : AddsFile(i)
           \/ op = "del" /\ \E i \in DOMAIN seen : DeletesFile(i)
    BY <1>1, <1>2, <2>1 DEF StoreInv, TypeOK
  <2>7. ASSUME NEW a \in LiveIn(mitab) PROVE HeldBy(mitab, data, a) \in HostFiles
    <3>1. ASSUME NEW i \in DOMAIN seen, AddsFile(i) PROVE HeldBy(mitab, data, a) \in HostFiles
      <4>1. a = i \/ (a \in LiveIn(seen) /\ mitab[a] = seen[a]) BY <3>1 DEF AddsFile, LiveIn
      <4> QED BY <1>3, <2>3, <3>1, <4>1 DEF AddsFile, HeldBy
    <3>2. ASSUME NEW i \in DOMAIN seen, DeletesFile(i) PROVE HeldBy(mitab, data, a) \in HostFiles
      <4>1. a \in LiveIn(seen) /\ mitab[a] = seen[a]
        BY <3>2 DEF DeletesFile, LiveIn, Free
      <4> QED BY <1>3, <2>3, <4>1 DEF HeldBy
    <3> QED BY <2>6, <3>1, <3>2
  <2>8. \A a \in LiveIn(Table') : HeldBy(Table', data', a) \in HostFiles
    BY <2>1, <2>2, <2>7
  <2> QED BY <2>1, <2>5, <2>8 DEF StoreInv
<1>12. CASE Kill
  <2>1. pc' = "idle" /\ data' = data BY <1>12 DEF Kill, EndCommand
  <2>2. Table' = Table BY <1>1, <1>12, KillDropsTable
  <2>3. Sound(Table)' /\ \A a \in LiveIn(Table') : HeldBy(Table', data', a) \in HostFiles
    BY <1>5, <2>1, <2>2
  <2> QED BY <2>1, <2>3 DEF StoreInv
<1> QED BY <1>6, <1>7, <1>8, <1>9, <1>10, <1>11, <1>12 DEF Next

\* fs_create leaves an empty table on every image.
LEMMA CreatedTable == ASSUME Init PROVE LiveIn(itab) = {}
<1> DEFINE none == [i \in 0 .. sb.inode_count - 1 |-> Free]
<1>1. PICK img : image = inode_table_write(sb, img, none) BY DEF Init
<1>2. TypeOK BY InitType
<1> HIDE DEF none
<1>3. itab = [i \in 0 .. sb.inode_count - 1 |-> none[i]] BY <1>1, <1>2, TableReadBack DEF itab
<1> HIDE DEF itab
<1>4. \A i \in DOMAIN itab : itab[i] = Free BY <1>3 DEF none
<1> QED BY <1>4 DEF LiveIn, Free

LEMMA StoreInvariant == Spec => [](PartsInv /\ FilesInv /\ StoreInv)
<1>1. Init => StoreInv
  <2> SUFFICES ASSUME Init, Intact PROVE StoreInv BY DEF StoreInv
  <2>1. pc = "idle" /\ Table = itab BY DEF Init, NoCommand, Table
  <2>2. Sound(itab) BY <2>1, InitFiles, ProperIsSound DEF FilesInv
  <2>3. LiveIn(itab) = {} BY CreatedTable
  <2> HIDE DEF itab, Table
  <2> QED BY <2>1, <2>2, <2>3 DEF StoreInv
<1>2. PartsInv /\ FilesInv /\ FilesInv' /\ StoreInv /\ [Next]_vars => StoreInv' BY StoreStep
<1> QED BY <1>1, <1>2, FilesInvariant, PTL DEF Spec

\* The store as the image shows it.
FilesNow == [n \in {Name(m) : m \in Names} |-> Shown(n)]
RequestNow == IF pc = "idle" THEN NoRequest
              ELSE [op |-> op, name |-> Name(name),
                    contents |-> IF op = "add" THEN src ELSE NoFile]

\* What fs_cat prints of a table and blocks.
ShownIn(n, tab, dat) ==
  IF Matches(n, tab) = {} THEN NoFile ELSE HeldBy(tab, dat, Min(Matches(n, tab)))

LEMMA ShownNow == \A n : Shown(n) = ShownIn(n, Table, data)
BY DEF Shown, fs_read, ShownIn, HeldBy

LEMMA ShownFacts ==
  ASSUME NEW tab, DOMAIN tab \subseteq Nat, Sound(tab), NEW dat, NEW n \in Text
  PROVE  /\ (\A i \in LiveIn(tab) : tab[i].name # Field(n)) => ShownIn(n, tab, dat) = NoFile
         /\ \A i \in LiveIn(tab) :
              tab[i].name = Field(n) => ShownIn(n, tab, dat) = HeldBy(tab, dat, i)
<1>1. Matches(n, tab) = {i \in LiveIn(tab) : tab[i].name = Field(n)}
  BY MatchesAre DEF Sound
<1>2. ASSUME NEW i \in LiveIn(tab), tab[i].name = Field(n)
      PROVE  ShownIn(n, tab, dat) = HeldBy(tab, dat, i)
  <2>1. Matches(n, tab) \in SUBSET Nat BY <1>1 DEF LiveIn
  <2>2. Min(Matches(n, tab)) \in Matches(n, tab) BY <1>1, <1>2, <2>1, MinIsLeast
  <2>3. \A a \in LiveIn(tab) : tab[a].name = Field(n) => a = i BY <1>2 DEF Sound, Proper
  <2>4. Min(Matches(n, tab)) = i /\ Matches(n, tab) # {} BY <1>1, <1>2, <2>2, <2>3
  <2> QED BY <2>4 DEF ShownIn
<1> QED BY <1>1, <1>2 DEF ShownIn

\* The characters of a name that fit are the same as those of the name.
LEMMA NameField ==
  ASSUME NEW n \in Names
  PROVE  /\ n \in Text /\ Name(n) \in Text /\ Field(Name(n)) = Field(n)
         /\ \A m \in Names : Name(m) = Name(n) <=> Field(m) = Field(n)
<1>1. n \in Text /\ \A m \in Names : m \in Text BY NamesAreText
<1>2. Name(n) \in Text /\ Alike(Name(n), n) BY <1>1, NameFacts
<1>3. Field(Name(n)) = Field(n) BY <1>1, <1>2, AlikeFields
<1>4. ASSUME NEW m \in Names PROVE Name(m) = Name(n) <=> Field(m) = Field(n)
  <2>1. m \in Text BY <1>1
  <2>2. Alike(m, n) <=> Name(m) = Name(n) BY <1>1, <2>1, AlikeNames
  <2>3. Alike(m, n) <=> Field(m) = Field(n) BY <1>1, <2>1, AlikeFields
  <2> QED BY <2>2, <2>3
<1> QED BY <1>1, <1>2, <1>3, <1>4

\* A file of the store is what the inode with its name holds.
LEMMA StoreShows ==
  ASSUME NEW tab, DOMAIN tab \subseteq Nat, Sound(tab), NEW dat, NEW n \in Names
  PROVE  /\ (\A i \in LiveIn(tab) : tab[i].name # Field(n))
              => ShownIn(Name(n), tab, dat) = NoFile
         /\ \A i \in LiveIn(tab) :
              tab[i].name = Field(n) => ShownIn(Name(n), tab, dat) = HeldBy(tab, dat, i)
<1>1. Name(n) \in Text /\ Field(Name(n)) = Field(n) BY NameField
<1> QED BY <1>1, ShownFacts

\* It is the same in two tables if one inode holds it in both, or none.
LEMMA SameShown ==
  ASSUME NEW tab, DOMAIN tab \subseteq Nat, Sound(tab), NEW dat,
         NEW tab2, DOMAIN tab2 \subseteq Nat, Sound(tab2), NEW dat2, NEW n \in Names,
         \A i \in LiveIn(tab) : tab[i].name = Field(n) =>
           /\ i \in LiveIn(tab2) /\ tab2[i].name = Field(n)
           /\ HeldBy(tab2, dat2, i) = HeldBy(tab, dat, i),
         \A i \in LiveIn(tab2) : tab2[i].name = Field(n) =>
           \E j \in LiveIn(tab) : tab[j].name = Field(n)
  PROVE  ShownIn(Name(n), tab2, dat2) = ShownIn(Name(n), tab, dat)
<1>1. CASE \A i \in LiveIn(tab) : tab[i].name # Field(n)
  <2>1. ShownIn(Name(n), tab, dat) = NoFile BY <1>1, StoreShows
  <2>2. \A i \in LiveIn(tab2) : tab2[i].name # Field(n) BY <1>1
  <2>3. ShownIn(Name(n), tab2, dat2) = NoFile BY <2>2, StoreShows
  <2> QED BY <2>1, <2>3
<1>2. ASSUME NEW i \in LiveIn(tab), tab[i].name = Field(n)
      PROVE  ShownIn(Name(n), tab2, dat2) = ShownIn(Name(n), tab, dat)
  <2>1. ShownIn(Name(n), tab, dat) = HeldBy(tab, dat, i) BY <1>2, StoreShows
  <2>2. i \in LiveIn(tab2) /\ tab2[i].name = Field(n) BY <1>2
  <2>3. ShownIn(Name(n), tab2, dat2) = HeldBy(tab2, dat2, i) BY <2>2, StoreShows
  <2> QED BY <1>2, <2>1, <2>3
<1> QED BY <1>1, <1>2

LEMMA TableNumbers == ASSUME TypeOK PROVE DOMAIN Table \subseteq Nat
<1>1. DOMAIN itab \subseteq Nat BY DEF itab, inode_table_read
<1>2. pc # "idle" => DOMAIN seen = DOMAIN itab
  <2> HIDE DEF itab
  <2> QED BY DEF TypeOK
<1> QED BY <1>1, <1>2 DEF Table

\* The files stay if the table does and what its inodes hold.
LEMMA FilesStay ==
  ASSUME TypeOK, Sound(Table), Table' = Table,
         \A i \in LiveIn(Table) : HeldBy(Table, data', i) = HeldBy(Table, data, i)
  PROVE  FilesNow' = FilesNow
<1>1. DOMAIN Table \subseteq Nat BY TableNumbers
<1>2. \A n : Shown(n) = ShownIn(n, Table, data) BY ShownNow
<1>3. \A n : Shown(n)' = ShownIn(n, Table', data')
  BY DEF Shown, fs_read, ShownIn, HeldBy
<1> HIDE DEF Table
<1>4. ASSUME NEW n \in Names PROVE ShownIn(Name(n), Table, data') = ShownIn(Name(n), Table, data)
  <2>1. /\ \A i \in LiveIn(Table) : Table[i].name = Field(n) =>
             /\ i \in LiveIn(Table) /\ Table[i].name = Field(n)
             /\ HeldBy(Table, data', i) = HeldBy(Table, data, i)
        /\ \A i \in LiveIn(Table) : Table[i].name = Field(n) =>
             \E j \in LiveIn(Table) : Table[j].name = Field(n)
    OBVIOUS
  <2> QED BY <1>1, <2>1, SameShown
<1> QED BY <1>2, <1>3, <1>4 DEF FilesNow

\* A running command is a request of the store.
LEMMA RequestIsFor ==
  ASSUME PartsInv, StoreInv, Intact, pc # "idle"
  PROVE  /\ RequestNow # NoRequest /\ RequestNow.name = Name(name) /\ name \in Names
         /\ RequestNow.contents = IF op = "add" THEN src ELSE NoFile
<1>1. op \in {"add", "del"} /\ name \in Names BY DEF PartsInv, TypeOK, StoreInv
<1>2. (IF op = "add" THEN src ELSE NoFile) \in HostFiles \cup {NoFile}
  BY <1>1 DEF StoreInv, AddsFile
<1>3. RequestNow \in [op : {"add", "del"}, name : {Name(n) : n \in Names},
                      contents : HostFiles \cup {NoFile}]
  BY <1>1, <1>2 DEF RequestNow
<1>4. RequestNow # NoRequest BY <1>3, StoreAssumption
<1> QED BY <1>1, <1>4 DEF RequestNow

\* The last write of a command changes its file and no other.
LEMMA WriteCommits ==
  ASSUME PartsInv, FilesInv, StoreInv, Intact, WriteItab
  PROVE  FilesNow' = [FilesNow EXCEPT ![Name(name)] = IF op = "add" THEN src ELSE NoFile]
<1>1. /\ pc = "write inodes" /\ pc' = "idle" /\ data' = data
  BY DEF WriteItab, EndCommand
<1>2. TypeOK /\ op \in {"add", "del"} /\ name \in Names
  BY <1>1 DEF PartsInv, TypeOK, StoreInv
<1>3. Table = seen /\ Sound(seen) BY <1>1 DEF Table, StoreInv
<1>4. Table' = mitab BY <1>1, <1>2, TableWritten DEF Table
<1>5. Sound(mitab) BY <1>1, ProperIsSound DEF FilesInv
<1>6. DOMAIN seen \subseteq Nat /\ DOMAIN mitab \subseteq Nat
  <2>1. DOMAIN seen = DOMAIN mitab BY <1>1, <1>2 DEF TypeOK
  <2> QED BY <1>2, <1>3, <2>1, TableNumbers
<1>7. \A n : Shown(n) = ShownIn(n, seen, data) BY <1>3, ShownNow
<1>8. \A n : Shown(n)' = ShownIn(n, mitab, data)
  BY <1>1, <1>4 DEF Shown, fs_read, ShownIn, HeldBy
<1> DEFINE result == IF op = "add" THEN src ELSE NoFile
<1>9. /\ ShownIn(Name(name), mitab, data) = result
      /\ \A n \in Names : Field(n) # Field(name)
           => ShownIn(Name(n), mitab, data) = ShownIn(Name(n), seen, data)
  <2>1. CASE op = "add"
    <3>1. PICK i \in DOMAIN seen : AddsFile(i) BY <1>1, <2>1 DEF StoreInv
    <3>2. i \in LiveIn(mitab) /\ mitab[i].name = Field(name) /\ HeldBy(mitab, data, i) = src
          /\ LiveIn(mitab) = LiveIn(seen) \cup {i}
          /\ \A a \in LiveIn(seen) : mitab[a] = seen[a]
      BY <3>1 DEF AddsFile, LiveIn
    <3>3. ShownIn(Name(name), mitab, data) = src BY <1>2, <1>5, <1>6, <3>2, StoreShows
    <3>4. ASSUME NEW n \in Names, Field(n) # Field(name)
          PROVE  ShownIn(Name(n), mitab, data) = ShownIn(Name(n), seen, data)
      <4>1. \A a \in LiveIn(seen) : HeldBy(mitab, data, a) = HeldBy(seen, data, a)
        BY <3>2 DEF HeldBy
      <4>2. \A a \in LiveIn(mitab) : mitab[a].name = Field(n) =>
              \E b \in LiveIn(seen) : seen[b].name = Field(n)
        BY <3>2, <3>4
      <4>3. \A a \in LiveIn(seen) : a \in LiveIn(mitab) /\ mitab[a] = seen[a] BY <3>2
      <4> QED BY <1>3, <1>5, <1>6, <4>1, <4>2, <4>3, SameShown
    <3> QED BY <2>1, <3>3, <3>4
  <2>2. CASE op = "del"
    <3>1. PICK i \in DOMAIN seen : DeletesFile(i) BY <1>1, <2>2 DEF StoreInv
    <3>2. /\ i \in LiveIn(seen) /\ seen[i].name = Field(name)
          /\ LiveIn(mitab) = LiveIn(seen) \ {i}
          /\ \A a \in LiveIn(seen) : a # i => mitab[a] = seen[a]
      BY <3>1 DEF DeletesFile, LiveIn, Free
    <3>3. \A a \in LiveIn(mitab) : mitab[a].name # Field(name)
      BY <1>3, <3>2 DEF Sound, Proper
    <3>4. ShownIn(Name(name), mitab, data) = NoFile BY <1>2, <1>5, <1>6, <3>3, StoreShows
    <3>5. ASSUME NEW n \in Names, Field(n) # Field(name)
          PROVE  ShownIn(Name(n), mitab, data) = ShownIn(Name(n), seen, data)
      <4>1. \A a \in LiveIn(mitab) :
              /\ a \in LiveIn(seen) /\ mitab[a] = seen[a]
              /\ HeldBy(mitab, data, a) = HeldBy(seen, data, a)
        BY <3>2 DEF HeldBy
      <4>2. \A a \in LiveIn(seen) : seen[a].name = Field(n) => a \in LiveIn(mitab)
        BY <3>2, <3>5
      <4> QED BY <1>3, <1>5, <1>6, <4>1, <4>2, SameShown
    <3> QED BY <2>2, <3>4, <3>5
  <2> QED BY <1>2, <2>1, <2>2
<1>10. ASSUME NEW n \in Names
       PROVE  Shown(Name(n))' = IF Name(n) = Name(name) THEN result ELSE Shown(Name(n))
  <2>1. Name(n) = Name(name) <=> Field(n) = Field(name) BY <1>2, NameField
  <2> HIDE DEF result
  <2> QED BY <1>7, <1>8, <1>9, <2>1
<1>11. \A m \in {Name(n) : n \in Names} :
         Shown(m)' = IF m = Name(name) THEN result ELSE Shown(m)
  <2> HIDE DEF result
  <2> QED BY <1>10
<1> HIDE DEF result
<1>12. FilesNow' = [m \in {Name(n) : n \in Names} |->
                      IF m = Name(name) THEN result ELSE Shown(m)]
  BY <1>11 DEF FilesNow
<1> QED BY <1>12 DEF FilesNow, result

\* Every step of an intact image is a step of the store, or none.
LEMMA StepOfStore ==
  ASSUME PartsInv, FilesInv, StoreInv, StoreInv', Intact, Intact', Next
  PROVE  \/ UNCHANGED <<FilesNow, RequestNow>>
         \/ /\ RequestNow = NoRequest /\ UNCHANGED FilesNow
            /\ \E m \in {Name(n) : n \in Names} :
                 \/ FilesNow[m] = NoFile
                    /\ \E c \in HostFiles : RequestNow' = Files!AddRequest(m, c)
                 \/ FilesNow[m] # NoFile /\ RequestNow' = Files!DelRequest(m)
         \/ /\ RequestNow # NoRequest /\ RequestNow' = NoRequest
            /\ \/ FilesNow' = [FilesNow EXCEPT ![RequestNow.name] = RequestNow.contents]
               \/ UNCHANGED FilesNow
<1>1. TypeOK /\ Sound(Table) BY DEF PartsInv, StoreInv
<1>2. ASSUME Table' = Table, data' = data PROVE FilesNow' = FilesNow
  BY <1>1, <1>2, FilesStay
<1>3. ASSUME NEW n \in Names, pc = "idle"
      PROVE  /\ file_exists(n) => FilesNow[Name(n)] # NoFile
             /\ ~file_exists(n) => FilesNow[Name(n)] = NoFile
  <2>1. n \in Text /\ Table = itab BY <1>3, NamesAreText DEF Table
  <2>2. Matches(n, itab) = {i \in LiveIn(itab) : itab[i].name = Field(n)}
    BY <1>1, <2>1, MatchesAre DEF Sound
  <2>3. FilesNow[Name(n)] = ShownIn(Name(n), itab, data) BY <2>1, ShownNow DEF FilesNow
  <2>4. DOMAIN itab \subseteq Nat BY <1>1, <2>1, TableNumbers
  <2>5. ASSUME NEW i \in LiveIn(itab), itab[i].name = Field(n)
        PROVE  FilesNow[Name(n)] \in HostFiles
    <3>1. HeldBy(itab, data, i) \in HostFiles BY <2>1 DEF StoreInv
    <3>2. ShownIn(Name(n), itab, data) = HeldBy(itab, data, i)
      BY <1>1, <2>1, <2>4, <2>5, StoreShows
    <3> QED BY <2>3, <3>1, <3>2
  <2>6. (\A i \in LiveIn(itab) : itab[i].name # Field(n)) => FilesNow[Name(n)] = NoFile
    BY <1>1, <2>1, <2>3, <2>4, StoreShows
  <2> HIDE DEF itab
  <2> QED BY <2>2, <2>5, <2>6, StoreAssumption DEF file_exists
<1>4. ASSUME NEW n \in Names, NEW f \in HostFiles, AddStart(n, f)
      PROVE  /\ RequestNow = NoRequest /\ UNCHANGED FilesNow
             /\ FilesNow[Name(n)] = NoFile /\ RequestNow' = Files!AddRequest(Name(n), f)
  <2>1. /\ pc = "idle" /\ pc' # "idle" /\ op' = "add" /\ name' = n /\ src' = f
        /\ seen' = itab /\ ~file_exists(n)
    BY <1>4 DEF AddStart
  <2>2. FilesNow[Name(n)] = NoFile BY <1>3, <2>1
  <2>3. Table' = Table /\ Table = itab BY <2>1 DEF Table
  <2>4. \A i \in LiveIn(itab) : HeldBy(itab, data', i) = HeldBy(itab, data, i)
    BY <1>4, AddStores
  <2>5. FilesNow' = FilesNow BY <1>1, <2>3, <2>4, FilesStay
  <2> QED BY <2>1, <2>2, <2>5 DEF RequestNow, Files!AddRequest
<1>5. ASSUME NEW n \in Names, NEW f \in HostFiles, AddFailed(n, f)
      PROVE  UNCHANGED <<FilesNow, RequestNow>>
  <2>1. /\ UNCHANGED <<image, sb, pc, op, name, src>>
        /\ pc = "idle" /\ data' = Store(f, Ascending(ContentBlocks), PointerBlocks)
    BY <1>5 DEF AddFailed, command
  <2>2. Table' = Table /\ Table = itab BY <2>1 DEF Table, itab
  <2>3. \A i \in LiveIn(itab) : HeldBy(itab, data', i) = HeldBy(itab, data, i)
    BY <1>5, FailedKeeps
  <2>4. FilesNow' = FilesNow BY <1>1, <2>2, <2>3, FilesStay
  <2> QED BY <2>1, <2>4 DEF RequestNow
<1>6. ASSUME NEW n \in Names, DelStart(n)
      PROVE  /\ RequestNow = NoRequest /\ UNCHANGED FilesNow
             /\ FilesNow[Name(n)] # NoFile /\ RequestNow' = Files!DelRequest(Name(n))
  <2>1. /\ pc = "idle" /\ pc' # "idle" /\ op' = "del" /\ name' = n /\ data' = data
        /\ seen' = itab /\ file_exists(n)
    BY <1>6 DEF DelStart
  <2>2. FilesNow[Name(n)] # NoFile BY <1>3, <2>1
  <2>3. Table' = Table BY <2>1 DEF Table
  <2> QED BY <1>2, <2>1, <2>2, <2>3 DEF RequestNow, Files!DelRequest
<1>7. ASSUME NEW n \in Names, AddRefused(n) \/ DelRefused(n)
      PROVE  UNCHANGED <<FilesNow, RequestNow>>
  <2>1. UNCHANGED <<sb, image, data, pc, op, name, src, seen>>
    BY <1>7 DEF AddRefused, DelRefused, vars, command, copies
  <2>2. Table' = Table BY <2>1 DEF Table, itab
  <2> QED BY <1>2, <2>1, <2>2 DEF RequestNow
<1>8. CASE WriteIbm \/ WriteDbm
  <2>1. pc # "idle" /\ pc' # "idle" /\ UNCHANGED <<data, op, name, src, seen>>
    BY <1>8 DEF WriteIbm, WriteDbm, copies
  <2>2. Table' = Table BY <2>1 DEF Table
  <2> QED BY <1>2, <2>1, <2>2 DEF RequestNow
<1>9. CASE WriteItab
  <2>1. pc # "idle" /\ pc' = "idle" BY <1>9 DEF WriteItab, EndCommand
  <2>2. RequestNow' = NoRequest BY <2>1 DEF RequestNow
  <2> QED BY <1>9, <2>1, <2>2, WriteCommits, RequestIsFor
<1>10. CASE Kill
  <2>1. pc # "idle" /\ pc' = "idle" /\ data' = data BY <1>10 DEF Kill, EndCommand
  <2>2. RequestNow' = NoRequest BY <2>1 DEF RequestNow
  <2>3. FilesNow' = FilesNow BY <1>2, <1>10, <2>1, KillDropsTable
  <2> QED BY <2>1, <2>2, <2>3, RequestIsFor
<1> QED BY <1>4, <1>5, <1>6, <1>7, <1>8, <1>9, <1>10 DEF Next

\* For all sizes of blocks and counts, and names of any length, an image whose
\* bitmaps fit is a store of files, read back byte by byte: every command,
\* however it ends, changes the file of its name completely or not at all, and
\* what fs_cat prints is what was added.
THEOREM LayoutImplementsStore == Spec => ImplementsFileStore
<1>1. Init => Files!Init
  <2> SUFFICES ASSUME Init PROVE Files!Init OBVIOUS
  <2>1. Table = itab BY DEF Init, NoCommand, Table
  <2>2. LiveIn(itab) = {} BY CreatedTable
  <2> HIDE DEF Table, itab
  <2>3. \A n : Shown(n) = NoFile BY <2>1, <2>2 DEF Shown, Matches, LiveIn
  <2>4. Intact \in BOOLEAN BY DEF Intact, Fits, BitmapFits
  <2>5. pc = "idle" BY DEF Init, NoCommand
  <2> QED BY <2>3, <2>4, <2>5 DEF Files!Init
<1>2. PartsInv /\ FilesInv /\ StoreInv /\ StoreInv' /\ [Next]_vars
        => [Files!Next]_(Files!vars)
  <2> SUFFICES ASSUME PartsInv, FilesInv, StoreInv, StoreInv', [Next]_vars
               PROVE  Files!Next \/ UNCHANGED Files!vars
    OBVIOUS
  <2>1. CASE UNCHANGED vars
    <3>1. UNCHANGED <<sb, image, data, pc, op, name, src, seen, damaged>>
      BY <2>1 DEF vars, command, copies
    <3>2. Table' = Table BY <3>1 DEF Table, itab
    <3>3. FilesNow' = FilesNow
      <4> HIDE DEF Table
      <4> QED BY <3>1, <3>2 DEF FilesNow, Shown, fs_read
    <3>4. RequestNow' = RequestNow /\ Intact' = Intact
      BY <3>1, SameFits DEF RequestNow, Intact
    <3> QED BY <3>3, <3>4 DEF Files!vars, FilesNow, RequestNow
  <2>2. CASE Next /\ ~Intact
    BY <2>2, StaysIntact DEF Files!Next, Files!Anything
  <2>3. CASE Intact /\ ~Intact' BY <2>3 DEF Files!Next, Files!Damage
  <2>4. CASE Next /\ Intact /\ Intact'
    <3>1. CASE UNCHANGED <<FilesNow, RequestNow>>
      <4>1. Intact' = Intact BY <2>4, StaysIntact, SameFits DEF Intact
      <4> QED BY <3>1, <4>1 DEF Files!vars, FilesNow, RequestNow
    <3>2. CASE /\ RequestNow = NoRequest /\ UNCHANGED FilesNow
               /\ \E m \in {Name(n) : n \in Names} :
                    \/ FilesNow[m] = NoFile
                       /\ \E c \in HostFiles : RequestNow' = Files!AddRequest(m, c)
                    \/ FilesNow[m] # NoFile /\ RequestNow' = Files!DelRequest(m)
      BY <2>4, <3>2 DEF Files!Next, Files!Ask, FilesNow, RequestNow
    <3>3. CASE /\ RequestNow # NoRequest /\ RequestNow' = NoRequest
               /\ FilesNow' = [FilesNow EXCEPT ![RequestNow.name] = RequestNow.contents]
      BY <2>4, <3>3 DEF Files!Next, Files!Commit, FilesNow, RequestNow
    <3>4. CASE /\ RequestNow # NoRequest /\ RequestNow' = NoRequest /\ UNCHANGED FilesNow
      BY <2>4, <3>4 DEF Files!Next, Files!Abandon, FilesNow, RequestNow
    <3> QED BY <2>4, <3>1, <3>2, <3>3, <3>4, StepOfStore
  <2> QED BY <2>1, <2>2, <2>3, <2>4
<1> QED BY <1>1, <1>2, StoreInvariant, PTL DEF Spec, ImplementsFileStore, Files!Spec
=============================================================================
