---------------------------- MODULE Descriptors -----------------------------
(***************************************************************************)
(* Segment descriptors, kernel/gdt/gdt.c.  A descriptor holds its base in  *)
(* three pieces and its limit in two; the processor, and the handler of    *)
(* the system calls, put them together again.  Flags that are the same in  *)
(* every descriptor are left out.                                          *)
(***************************************************************************)
EXTENDS Integers

CONSTANT NIBBLE  \* values of four bits (16)

ASSUME NibbleAssumption == NIBBLE \in Nat \ {0}

BYTE == NIBBLE * NIBBLE
HALF == BYTE * BYTE
WORD == HALF * HALF
Words == 0 .. WORD - 1

Types == {"null", "code", "data", "tss", "ldt"}

Entry == [type : Types, dpl : {"kernel", "user"}, granularity : {0, 1},
          lim15_0 : 0 .. HALF - 1, lim19_16 : 0 .. NIBBLE - 1,
          base15_0 : 0 .. HALF - 1, base23_16 : 0 .. BYTE - 1, base31_24 : 0 .. BYTE - 1]

\* A slip: the upper piece of the base is the middle one again.
build_entry_shifted(base, limit, type, granularity, dpl) ==
  [type |-> type, dpl |-> dpl, granularity |-> granularity,
   lim15_0 |-> limit % HALF, lim19_16 |-> (limit \div HALF) % NIBBLE,
   base15_0 |-> base % HALF,
   base23_16 |-> (base \div HALF) % BYTE,
   base31_24 |-> (base \div HALF) % BYTE]

build_entry(base, limit, type, granularity, dpl) ==
  [type |-> type, dpl |-> dpl, granularity |-> granularity,
   lim15_0 |-> limit % HALF, lim19_16 |-> (limit \div HALF) % NIBBLE,
   base15_0 |-> base % HALF,
   base23_16 |-> (base \div HALF) % BYTE,
   base31_24 |-> (base \div (HALF * BYTE)) % BYTE]

gdt_make_null_segment ==
  [type |-> "null", dpl |-> "kernel", granularity |-> 0, lim15_0 |-> 0, lim19_16 |-> 0,
   base15_0 |-> 0, base23_16 |-> 0, base31_24 |-> 0]

gdt_make_code_segment(base, limit, dpl) == build_entry(base, limit, "code", 1, dpl)
gdt_make_data_segment(base, limit, dpl) == build_entry(base, limit, "data", 1, dpl)
gdt_make_tss(tss, size) == build_entry(tss, size - 1, "tss", 0, "kernel")
gdt_make_ldt(base, limit) == build_entry(base, limit, "ldt", 0, "kernel")

GDT_INDEX_TO_SELECTOR(idx) == 8 * idx
SelectorToIndex(selector) == selector \div 8

\* The three pieces of the base, and the two of the limit, joined.
Base(e) == e.base31_24 * (HALF * BYTE) + e.base23_16 * HALF + e.base15_0
Limit(e) == e.lim19_16 * HALF + e.lim15_0
=============================================================================
