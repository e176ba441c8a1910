------------------------------- MODULE KeyMap -------------------------------
(***************************************************************************)
(* The two character tables of kernel/drivers/key_map.c.  A table is a set *)
(* of rows, each the characters of consecutive scan codes.  A scan code in *)
(* no row is translated to 0 ("empty").                                    *)
(***************************************************************************)
EXTENDS Integers, Sequences

ScanCodes == 0 .. 127
Chars == 0 .. 255

Row(first, chars) == [first |-> first, chars |-> chars]
InRow(r, code) == code - r.first + 1 \in 1 .. Len(r.chars)

\* The plain keys, the arrows and the '<' key.
digits == <<2, 49, 50, 51, 52, 53, 54, 55, 56, 57, 48, 39>>
upper  == <<113, 119, 101, 114, 116, 122, 117, 105, 111, 112, 138, 33, 13>>
home   == <<97, 115, 100, 102, 103, 104, 106, 107, 108, 130, 133>>
lower  == <<121, 120, 99, 118, 98, 110, 109, 44, 46, 45>>

map ==
  { Row(1, digits), Row(14, <<8>>), Row(16, upper), Row(30, home), Row(44, lower),
    Row(72, <<24>>), Row(75, <<27>>), Row(77, <<26>>), Row(80, <<25>>), Row(86, <<60>>) }

\* Shift and a key: no arrows and no '<'.
shift_digits == <<27, 43, 34, 42, 128, 37, 38, 47, 40, 41, 61, 63>>
shift_upper  == <<81, 87, 69, 82, 84, 90, 85, 73, 79, 80, 129, 34, 13>>
shift_home   == <<65, 83, 68, 70, 71, 72, 74, 75, 76, 148, 132>>
shift_lower  == <<89, 88, 67, 86, 66, 78, 77, 59, 58, 95>>

shift_map ==
  { Row(1, shift_digits), Row(14, <<8>>), Row(16, shift_upper),
    Row(30, shift_home), Row(44, shift_lower) }

Lookup(table, code) ==
  IF \E r \in table : InRow(r, code)
  THEN LET r == CHOOSE r \in table : InRow(r, code)
       IN  r.chars[code - r.first + 1]
  ELSE 0

scan2char(key_code, shift) ==
  IF shift THEN Lookup(shift_map, key_code) ELSE Lookup(map, key_code)
=============================================================================
