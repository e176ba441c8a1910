---------------------------- MODULE ModuloLemmas ----------------------------
(***************************************************************************)
(* Facts about numbers: % with a variable modulus, for the proofs about    *)
(* ring buffers and counters of fixed width, and least numbers, for those  *)
(* by induction.                                                           *)
(***************************************************************************)
EXTENDS Integers, FiniteSetsExt, TLAPS, WellFoundedInduction

\* A remainder lies below the modulus.
LEMMA ModRange == ASSUME NEW a \in Int, NEW m \in Nat \ {0}
                  PROVE  a % m \in 0 .. m - 1
  BY Z3

\* Division with remainder.
LEMMA ModDef == ASSUME NEW a \in Int, NEW m \in Nat \ {0}
                PROVE  a = m * (a \div m) + (a % m) /\ a \div m \in Int
  BY Z3

\* A number below the modulus is its own remainder.
LEMMA ModSmall == ASSUME NEW m \in Nat \ {0}, NEW a \in 0 .. m - 1
                  PROVE  a % m = a
  BY Z3

\* A multiple has no remainder.
LEMMA ModZero == ASSUME NEW m \in Nat \ {0}
                 PROVE  m % m = 0 /\ 0 % m = 0
  BY Z3

\* The product with a positive number is at least the factor.
LEMMA TimesMonotone == ASSUME NEW m \in Nat \ {0}, NEW d \in Int, d >= 1
                       PROVE  m * d \in Int /\ m * d >= m
  BY Z3

\* Of two decompositions of one number, neither quotient is smaller.
LEMMA QuotientLess == ASSUME NEW m \in Nat \ {0}, NEW p \in Int, NEW q \in Int,
                             NEW r \in 0 .. m - 1, NEW s \in 0 .. m - 1,
                             m * p + r = m * q + s
                      PROVE  ~ (p < q)
<1> SUFFICES ASSUME p < q PROVE FALSE OBVIOUS
<1> DEFINE d == q - p
<1>1. d \in Int /\ d >= 1 OBVIOUS
<1>2. m * d \in Int /\ m * d >= m BY <1>1, TimesMonotone
<1>3. m * d = m * q - m * p BY Z3
<1>4. m * p \in Int /\ m * q \in Int OBVIOUS
<1> HIDE DEF d
<1> QED BY <1>2, <1>3, <1>4

\* A number has one quotient.
LEMMA DivUnique == ASSUME NEW m \in Nat \ {0}, NEW a \in Int, NEW q \in Int,
                          NEW r \in 0 .. m - 1, a = m * q + r
                   PROVE  a \div m = q
<1>1. a % m \in 0 .. m - 1 BY ModRange
<1>2. a = m * (a \div m) + (a % m) /\ a \div m \in Int BY ModDef
<1>3. ~ (q < a \div m) BY <1>1, <1>2, QuotientLess
<1>4. ~ (a \div m < q) BY <1>1, <1>2, QuotientLess
<1> QED BY <1>2, <1>3, <1>4

\* A number has one remainder.
LEMMA ModUnique == ASSUME NEW m \in Nat \ {0}, NEW a \in Int, NEW q \in Int,
                          NEW r \in 0 .. m - 1, a = m * q + r
                   PROVE  a % m = r
<1>1. a % m \in 0 .. m - 1 BY ModRange
<1>2. a = m * (a \div m) + (a % m) /\ a \div m \in Int BY ModDef
<1>3. q = a \div m BY DivUnique
<1> QED BY <1>1, <1>2, <1>3

\* The remainder of the next number: one more, or 0 after the last.
LEMMA ModNext == ASSUME NEW m \in Nat \ {0}, NEW a \in Int
                 PROVE  (a + 1) % m = IF a % m = m - 1 THEN 0 ELSE (a % m) + 1
<1> DEFINE q == a \div m
           r == a % m
<1>1. r \in 0 .. m - 1 BY ModRange
<1>2. a = m * q + r /\ q \in Int BY ModDef
<1>3. m * q \in Int BY <1>2
<1> HIDE DEF q, r
<1>4. CASE r = m - 1
  <2>1. m * (q + 1) = m * q + m BY <1>2, Z3
  <2>2. a + 1 = m * (q + 1) + 0 BY <1>2, <1>3, <1>4, <2>1
  <2>3. (a + 1) % m = 0 BY <1>2, <2>2, ModUnique
  <2> QED BY <2>3, <1>4 DEF r
<1>5. CASE r # m - 1
  <2> DEFINE s == r + 1
             c == a + 1
  <2>1. s \in 0 .. m - 1 /\ c \in Int BY <1>1, <1>5
  <2>2. c = m * q + s BY <1>1, <1>2, <1>3
  <2> HIDE DEF s, c
  <2>3. c % m = s BY <1>2, <2>1, <2>2, ModUnique
  <2> QED BY <2>3, <1>5 DEF r, s, c
<1> QED BY <1>4, <1>5

\* Numbers less than the modulus apart have different remainders.
LEMMA ModApart == ASSUME NEW m \in Nat \ {0}, NEW a \in Int, NEW b \in Int,
                         a < b, b - a < m
                  PROVE  a % m # b % m
<1> SUFFICES ASSUME a % m = b % m PROVE FALSE OBVIOUS
<1> DEFINE p == a \div m
           q == b \div m
           r == a % m
<1>1. r \in 0 .. m - 1 BY ModRange
<1>2. a = m * p + r /\ p \in Int BY ModDef
<1>3. b = m * q + r /\ q \in Int BY ModDef
<1>4. m * p \in Int /\ m * q \in Int BY <1>2, <1>3
<1> HIDE DEF p, q, r
<1>5. m * q - m * p = b - a BY <1>1, <1>2, <1>3, <1>4
<1>6. CASE p < q
  <2>1. q - p \in Int /\ q - p >= 1 BY <1>2, <1>3, <1>6
  <2>2. m * (q - p) >= m BY <2>1, TimesMonotone
  <2>3. m * (q - p) = m * q - m * p BY <1>2, <1>3, Z3
  <2> QED BY <1>5, <2>2, <2>3
<1>7. CASE q < p
  <2>1. p - q \in Int /\ p - q >= 1 BY <1>2, <1>3, <1>7
  <2>2. m * (p - q) >= m BY <2>1, TimesMonotone
  <2>3. m * (p - q) = m * p - m * q BY <1>2, <1>3, Z3
  <2> QED BY <1>4, <1>5, <2>2, <2>3
<1>8. CASE p = q
  BY <1>4, <1>5, <1>8
<1> QED BY <1>2, <1>3, <1>6, <1>7, <1>8

\* A number with a quotient below n lies below n times the divisor.
LEMMA QuotientBound == ASSUME NEW m \in Nat \ {0}, NEW a \in Nat, NEW n \in Nat,
                              a \div m \in 0 .. n - 1
                       PROVE  n * m \in Nat /\ a < n * m
<1> DEFINE q == a \div m
           r == a % m
<1>1. r \in 0 .. m - 1 BY ModRange
<1>2. a = m * q + r /\ q \in Int BY ModDef
<1>3. q \in 0 .. n - 1 OBVIOUS
<1> HIDE DEF q, r
<1> DEFINE d == n - q
<1>4. d \in Int /\ d >= 1 BY <1>3
<1>5. n * m = m * q + m * d BY <1>3, Z3
<1> HIDE DEF d
<1>6. m * d \in Int /\ m * d >= m BY <1>4, TimesMonotone
<1>7. m * q \in Int /\ n * m \in Nat BY <1>2
<1> QED BY <1>1, <1>2, <1>5, <1>6, <1>7

\* A set of numbers that is not empty has a least element, and Min is it.
LEMMA MinIsLeast ==
  ASSUME NEW S \in SUBSET Nat, S # {}
  PROVE  Min(S) \in S /\ \A x \in S : Min(S) <= x
<1> DEFINE R == OpToRel(<, Nat)
<1>1. IsWellFoundedOn(R, Nat) BY NatLessThanWellFounded
<1>2. \A y, x \in Nat : y < x => <<y, x>> \in R BY Zenon DEF OpToRel
<1> HIDE DEF R
<1>3. PICK x \in S : \A y \in S : ~(<<y, x>> \in R) BY <1>1, WFMin
<1>4. ASSUME NEW y \in S PROVE x <= y
  <2>1. x \in Nat /\ y \in Nat OBVIOUS
  <2>2. ~(y < x) BY <2>1, <1>2, <1>3, Zenon
  <2> QED BY <2>1, <2>2
<1> QED BY <1>4 DEF Min
=============================================================================
