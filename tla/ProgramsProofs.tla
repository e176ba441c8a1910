--------------------------- MODULE ProgramsProofs ---------------------------
(***************************************************************************)
(* Theorems about Programs.tla, for any number of tasks, any place of the  *)
(* task table in memory, and any width of a byte.                          *)
(***************************************************************************)
EXTENDS Programs, TasksProofs, ModuloLemmas

-----------------------------------------------------------------------------
(* Numbers cut into pieces *)

\* A product is less than another one with a factor in common only if its
\* other factor is less.
LEMMA FactorLess == ASSUME NEW m \in Nat \ {0}, NEW n \in Nat, NEW a \in Int, m * a < m * n
                    PROVE  a < n
<1> SUFFICES ASSUME n <= a PROVE FALSE OBVIOUS
<1> DEFINE d == a - n
<1>1. d \in Nat OBVIOUS
<1>2. m * a = m * n + m * d BY Z3
<1>3. m * d >= 0 BY <1>1, Z3
<1>4. m * a \in Int /\ m * n \in Int /\ m * d \in Int OBVIOUS
<1> HIDE DEF d
<1> QED BY <1>2, <1>3, <1>4

\* Two pieces of a number, the upper one as wide as it needs to be.
LEMMA SplitTwo == ASSUME NEW H \in Nat \ {0}, NEW B \in Nat \ {0}, NEW x \in 0 .. H * B - 1
                  PROVE  /\ x = ((x \div H) % B) * H + (x % H)
                         /\ x \div H \in 0 .. B - 1
<1> DEFINE q == x \div H
           r == x % H
<1>0. H * B \in Int OBVIOUS
<1>1. x = H * q + r /\ q \in Int BY <1>0, ModDef
<1>2. r \in 0 .. H - 1 BY <1>0, ModRange
<1>3. H * q \in Int BY <1>1
<1> HIDE DEF q, r
<1>4. H * q < H * B BY <1>0, <1>1, <1>2, <1>3
<1>5. q < B BY <1>1, <1>4, FactorLess
<1>6. ~ (q < 0)
  <2> SUFFICES ASSUME q < 0 PROVE FALSE OBVIOUS
  <2> DEFINE p == -q
  <2>1. p \in Int /\ p >= 1 BY <1>1
  <2>2. H * p \in Int /\ H * p >= H BY <2>1, TimesMonotone
  <2>3. H * q = -(H * p) BY <1>1, Z3
  <2> HIDE DEF p
  <2> QED BY <1>0, <1>1, <1>2, <1>3, <2>2, <2>3
<1>7. q \in 0 .. B - 1 BY <1>1, <1>5, <1>6
<1>8. q % B = q BY <1>7, ModSmall
<1>9. q * H = H * q BY <1>1, Z3
<1> QED BY <1>1, <1>3, <1>7, <1>8, <1>9 DEF q, r

\* Three pieces of a number.
LEMMA SplitThree ==
  ASSUME NEW H \in Nat \ {0}, NEW B \in Nat \ {0}, NEW x \in 0 .. H * (B * B) - 1
  PROVE  x = ((x \div (H * B)) % B) * (H * B) + ((x \div H) % B) * H + (x % H)
<1> DEFINE q == x \div H
           r == x % H
           q1 == q \div B
           r1 == q % B
           C == B * B
           D == H * B
           s == H * r1 + r
<1>0. C \in Nat \ {0} /\ D \in Nat \ {0} BY Z3
<1>1. x = H * q + r /\ q \in 0 .. C - 1 /\ r \in 0 .. H - 1
  <2>1. x \in 0 .. H * C - 1 OBVIOUS
  <2> HIDE DEF C
  <2>2. x \div H \in 0 .. C - 1 BY <1>0, <2>1, SplitTwo
  <2>3. H * C \in Int BY <1>0
  <2>4. x = H * (x \div H) + (x % H) BY <2>1, <2>3, ModDef
  <2>5. x % H \in 0 .. H - 1 BY <2>1, <2>3, ModRange
  <2> QED BY <2>2, <2>4, <2>5
<1>2. q = q1 * B + r1 /\ q1 \in 0 .. B - 1 /\ r1 \in 0 .. B - 1 /\ q1 % B = q1
  <2> HIDE DEF q
  <2>1. q \div B \in 0 .. B - 1 /\ q = ((q \div B) % B) * B + (q % B) BY <1>1, SplitTwo
  <2>2. q % B \in 0 .. B - 1 BY <1>1, <1>0, ModRange
  <2>3. (q \div B) % B = q \div B BY <2>1, ModSmall
  <2> QED BY <2>1, <2>2, <2>3
<1> HIDE DEF q, r, q1, r1, C
<1>3. x = D * q1 + s
  <2>1. H * (q1 * B + r1) + r = (H * B) * q1 + (H * r1 + r) BY <1>1, <1>2, Z3
  <2> QED BY <1>1, <1>2, <2>1
<1>4. s \in 0 .. D - 1
  <2> DEFINE p == B - r1
  <2>1. p \in Int /\ p >= 1 BY <1>2
  <2>2. H * p \in Int /\ H * p >= H BY <2>1, TimesMonotone
  <2>3. H * p = D - H * r1 BY <1>2, Z3
  <2>4. H * r1 \in Int /\ H * r1 >= 0 BY <1>2, Z3
  <2> HIDE DEF p, D
  <2> QED BY <1>0, <1>1, <2>2, <2>3, <2>4
<1>5. x \in Int
  <2>1. H * C \in Int BY <1>0
  <2> QED BY <2>1 DEF C
<1> HIDE DEF D, s
<1>6. x \div D = q1 BY <1>0, <1>2, <1>3, <1>4, <1>5, DivUnique
<1>7. x = q1 * D + r1 * H + r
  <2>1. q1 * D = D * q1 /\ r1 * H = H * r1 BY <1>0, <1>2, Z3
  <2>2. D * q1 \in Int /\ H * r1 \in Int BY <1>0, <1>2
  <2> QED BY <1>1, <1>3, <2>1, <2>2 DEF s
<1>8. x = ((x \div D) % B) * D + ((x \div H) % B) * H + (x % H)
  BY <1>2, <1>6, <1>7 DEF q, r, r1
<1> QED BY <1>8 DEF D

\* The sizes of the pieces.
LEMMA Widths == /\ BYTE \in Nat \ {0} /\ HALF \in Nat \ {0} /\ WORD \in Nat \ {0}
                /\ WORD = HALF * (BYTE * BYTE)
<1>1. BYTE \in Nat \ {0} BY NibbleAssumption, Z3 DEF BYTE
<1>2. HALF \in Nat \ {0} BY <1>1, Z3 DEF HALF
<1>3. WORD \in Nat \ {0} BY <1>2, Z3 DEF WORD
<1> QED BY <1>1, <1>2, <1>3 DEF WORD, HALF

\* What gdt.c:19 puts into a descriptor is what the processor, and
\* syscall.c:221, get out of it.
THEOREM EntryKeepsAddress ==
  ASSUME NEW base \in Words, NEW limit \in 0 .. NIBBLE * HALF - 1,
         NEW type, NEW granularity, NEW dpl
  PROVE  LET e == build_entry(base, limit, type, granularity, dpl)
         IN  Base(e) = base /\ Limit(e) = limit /\ e.type = type
<1>1. base = ((base \div (HALF * BYTE)) % BYTE) * (HALF * BYTE)
             + ((base \div HALF) % BYTE) * HALF + (base % HALF)
  BY Widths, SplitThree DEF Words
<1>2. limit = ((limit \div HALF) % NIBBLE) * HALF + (limit % HALF)
  <2>1. NIBBLE * HALF = HALF * NIBBLE BY Widths, NibbleAssumption, Z3
  <2>2. limit \in 0 .. HALF * NIBBLE - 1 BY <2>1
  <2> QED BY <2>2, Widths, NibbleAssumption, SplitTwo
<1> QED BY <1>1, <1>2, Zenon DEF build_entry, Base, Limit

-----------------------------------------------------------------------------
(* Programs do nothing that Tasks does not *)

\* Whatever name reaches exec, it is one Tasks allows for.
LEMMA NamesAreNames ==
  ASSUME NEW f \in Files \cup {Shell, NoProgram}, NEW base, NEW g \in Named(f, base)
  PROVE  g \in Files \cup {Shell, NoProgram}
BY DEF Named

\* A step is one of the task system, or leaves it alone.
LEMMA StepIsStep == [PNext]_pvars => [Next]_vars
<1> SUFFICES ASSUME [PNext]_pvars PROVE [Next]_vars OBVIOUS
<1>1. CASE boot
  BY <1>1 DEF boot, Next
<1>2. ASSUME NEW f \in Files \cup {Shell, NoProgram}, exec_fails(f) PROVE Next
  <2>1. PICK base \in CallerBases(tr) : \E g \in Named(f, base) : exec_no_file(g) \/ exec_no_task(g)
    BY <1>2 DEF exec_fails
  <2>2. PICK g \in Named(f, base) : exec_no_file(g) \/ exec_no_task(g) BY <2>1
  <2> QED BY <2>2, NamesAreNames DEF Next
<1>3. ASSUME NEW f \in Files \cup {Shell, NoProgram}, exec_starts(f) PROVE Next
  <2>1. PICK base \in CallerBases(tr) : \E g \in Named(f, base) : exec(g)
    BY <1>3 DEF exec_starts
  <2>2. PICK g \in Named(f, base) : exec(g) BY <2>1
  <2> QED BY <2>2, NamesAreNames DEF Next
<1>4. CASE program_ends
  BY <1>4 DEF program_ends, Next
<1>5. CASE lib_file_open
  BY <1>5 DEF lib_file_open, Next
<1>6. ASSUME NEW fd \in Fds, lib_file_close(fd) PROVE [Next]_vars
  <2>1. PICK c : IF c \in Fds THEN syscall_file_close(c) ELSE UNCHANGED vars
    BY <1>6 DEF lib_file_close
  <2> QED BY <2>1 DEF Next
<1>7. CASE lib_exit
  BY <1>7 DEF lib_exit, Next
<1>8. CASE \E f \in Others : lib_call(f)
  BY <1>8 DEF lib_call
<1>9. CASE UNCHANGED pvars
  BY <1>9 DEF pvars
<1> QED BY <1>1, <1>2, <1>3, <1>4, <1>5, <1>6, <1>7, <1>8, <1>9 DEF PNext

\* The system with its library and descriptors is the task system: all that
\* is proved of Tasks holds of it.
THEOREM ProgramsAreTasks == PSpec => Spec
<1>1. PInit => Init BY DEF PInit
<1> QED BY <1>1, StepIsStep, PTL DEF PSpec, Spec

LEMMA ProgramsNest == PSpec => []NestInv
BY ProgramsAreTasks, NestInvariant, PTL

-----------------------------------------------------------------------------
(* The tables *)

\* Once the machine is up the tables are what gdt_init has made of them, and
\* nothing runs before.
TablesInv ==
  /\ task_table \in TableAddresses
  /\ IF machine = "boot" THEN tr = Kernel /\ busy = {}
     ELSE gdt_table = gdt_init /\ slots = task_setup

\* What gdt_init computes depends on the place of the task table only.
LEMMA TablesStay ==
  ASSUME UNCHANGED task_table
  PROVE  gdt_init' = gdt_init /\ task_setup' = task_setup
BY DEF gdt_init, task_setup, LdtEntry, LdtAddress, SlotAddress, UserBase, TssIndex, LdtIndex, Gdt

\* Every step but the boot finds the machine up and leaves the tables alone.
LEMMA TablesUntouched ==
  ASSUME PNext, ~boot
  PROVE  machine = "up" /\ machine' # "boot" /\ UNCHANGED kernel_tables
<1>1. ASSUME NEW f, exec_fails(f)
      PROVE  machine = "up" /\ machine' # "boot" /\ UNCHANGED kernel_tables
  <2>1. PICK g : exec_no_file(g) \/ exec_no_task(g) BY <1>1 DEF exec_fails
  <2>2. machine = "up" /\ machine' \in {"up", "halted"}
    BY <2>1 DEF exec_no_file, exec_no_task, Runs, BackInKernel
  <2> QED BY <1>1, <2>2 DEF exec_fails
<1>2. ASSUME NEW f, exec_starts(f)
      PROVE  machine = "up" /\ machine' # "boot" /\ UNCHANGED kernel_tables
  <2>1. PICK g : exec(g) BY <1>2 DEF exec_starts
  <2> QED BY <1>2, <2>1 DEF exec_starts, exec, Runs
<1>3. CASE program_ends
  BY <1>3 DEF program_ends, iret
<1>4. CASE lib_file_open
  BY <1>4 DEF lib_file_open, syscall_file_open
<1>5. ASSUME NEW fd, lib_file_close(fd)
      PROVE  machine = "up" /\ machine' # "boot" /\ UNCHANGED kernel_tables
  <2>1. machine = "up" /\ UNCHANGED kernel_tables BY <1>5 DEF lib_file_close
  <2>2. PICK c : IF c \in Fds THEN syscall_file_close(c) ELSE UNCHANGED vars
    BY <1>5 DEF lib_file_close
  <2>3. UNCHANGED machine BY <2>2 DEF syscall_file_close, vars
  <2> QED BY <2>1, <2>3
<1>6. CASE lib_exit
  BY <1>6 DEF lib_exit, syscall_exit
<1>7. ASSUME NEW f, lib_call(f)
      PROVE  machine = "up" /\ machine' # "boot" /\ UNCHANGED kernel_tables
  BY <1>7 DEF lib_call, vars
<1> QED BY <1>1, <1>2, <1>3, <1>4, <1>5, <1>6, <1>7 DEF PNext

LEMMA TablesInvariant == PSpec => []TablesInv
<1>1. PInit => TablesInv
  BY DEF PInit, Init, TablesInv
<1>2. TablesInv /\ [PNext]_pvars => TablesInv'
  <2> SUFFICES ASSUME TablesInv, [PNext]_pvars PROVE TablesInv' OBVIOUS
  <2>1. CASE boot
    <3>1. UNCHANGED task_table /\ machine' = "up" BY <2>1 DEF boot, kernel_main
    <3>2. gdt_init' = gdt_init /\ task_setup' = task_setup BY <3>1, TablesStay
    <3> QED BY <2>1, <3>1, <3>2 DEF boot, TablesInv
  <2>2. CASE PNext /\ ~boot
    <3>1. machine # "boot" /\ machine' # "boot" /\ UNCHANGED kernel_tables
      BY <2>2, TablesUntouched
    <3>2. gdt_init' = gdt_init /\ task_setup' = task_setup
      BY <3>1, TablesStay DEF kernel_tables
    <3> QED BY <3>1, <3>2 DEF TablesInv, kernel_tables
  <2>3. CASE UNCHANGED pvars
    <3>1. UNCHANGED <<machine, cpu, kernel_tables>> BY <2>3 DEF pvars, vars
    <3>2. gdt_init' = gdt_init /\ task_setup' = task_setup
      BY <3>1, TablesStay DEF kernel_tables
    <3> QED BY <3>1, <3>2 DEF TablesInv, kernel_tables, cpu
  <2> QED BY <2>1, <2>2, <2>3
<1> QED BY <1>1, <1>2, PTL DEF PSpec

\* The entries of a task in the two tables.
LEMMA EntriesOf ==
  ASSUME NEW t \in Tasks
  PROVE  /\ SelectorToIndex(task_setup[t].tss_selector) = TssIndex(t)
         /\ SelectorToIndex(task_setup[t].ldt_selector) = LdtIndex(t)
         /\ gdt_init[TssIndex(t)] = gdt_make_tss(SlotAddress(t), TSS_SIZE)
         /\ gdt_init[LdtIndex(t)] = LdtEntry(t)
<1>1. t \in Nat /\ t <= MAX_TASK_COUNT - 1 /\ MAX_TASK_COUNT \in Nat
  BY TasksAssumption DEF Tasks
<1>2. /\ TssIndex(t) \in Int /\ LdtIndex(t) \in Int /\ LdtIndex(t) # TssIndex(t)
      /\ TssIndex(t) \in Gdt /\ LdtIndex(t) \in Gdt
      /\ TssIndex(t) >= GDT_RESERVED_ENTRIES /\ LdtIndex(t) >= GDT_RESERVED_ENTRIES
      /\ (TssIndex(t) - GDT_RESERVED_ENTRIES) \div 2 = t
      /\ (LdtIndex(t) - GDT_RESERVED_ENTRIES) \div 2 = t
  BY <1>1 DEF TssIndex, LdtIndex, Gdt, GDT_RESERVED_ENTRIES
<1>3. \A i \in Int : SelectorToIndex(GDT_INDEX_TO_SELECTOR(i)) = i
  BY DEF SelectorToIndex, GDT_INDEX_TO_SELECTOR
<1>4. /\ task_setup[t].tss_selector = GDT_INDEX_TO_SELECTOR(TssIndex(t))
      /\ task_setup[t].ldt_selector = GDT_INDEX_TO_SELECTOR(LdtIndex(t))
  BY DEF task_setup
<1>5. gdt_init[TssIndex(t)] = gdt_make_tss(SlotAddress(t), TSS_SIZE)
  BY <1>2, Zenon DEF gdt_init
<1>6. gdt_init[LdtIndex(t)] = LdtEntry(t)
  BY <1>2, Zenon DEF gdt_init
<1> QED BY <1>2, <1>3, <1>4, <1>5, <1>6

\* Wherever the task table is, a far call finds the task it is made for.
THEOREM FarCallsFind == PSpec => []FarCallFindsTask
<1>1. TablesInv => FarCallFindsTask
  <2> SUFFICES ASSUME TablesInv, machine # "boot", NEW t \in Tasks
               PROVE  /\ Finds(slots[t].tss_selector, "tss", SlotAddress(t), TSS_SIZE)
                      /\ Finds(slots[t].ldt_selector, "ldt", LdtAddress(t), LDT_SIZE)
    BY DEF FarCallFindsTask
  <2>1. gdt_table = gdt_init /\ slots = task_setup /\ task_table \in TableAddresses
    BY DEF TablesInv
  <2>2. SlotAddress(t) \in Words /\ LdtAddress(t) \in Words
    BY <2>1, ProgramsAssumption DEF SlotAddress, LdtAddress
  <2>3. NIBBLE * HALF \in Nat BY Widths, NibbleAssumption
  <2>4. /\ TSS_SIZE - 1 \in 0 .. NIBBLE * HALF - 1 /\ LDT_SIZE - 1 \in 0 .. NIBBLE * HALF - 1
    BY <2>3, ProgramsAssumption
  <2>5. LET e == gdt_make_tss(SlotAddress(t), TSS_SIZE)
        IN  e.type = "tss" /\ Base(e) = SlotAddress(t) /\ Limit(e) = TSS_SIZE - 1
    BY <2>2, <2>4, EntryKeepsAddress DEF gdt_make_tss
  <2>6. LET e == LdtEntry(t)
        IN  e.type = "ldt" /\ Base(e) = LdtAddress(t) /\ Limit(e) = LDT_SIZE - 1
    BY <2>2, <2>4, EntryKeepsAddress DEF LdtEntry, gdt_make_ldt
  <2> QED BY <2>1, <2>5, <2>6, EntriesOf, Zenon DEF Finds
<1> QED BY <1>1, TablesInvariant, PTL

-----------------------------------------------------------------------------
(* The tasks the kernel can locate *)

\* For them the two mistakes cancel out: the base that is found is theirs.
LEMMA LocatedBase ==
  ASSUME TablesInv, machine # "boot", NEW t \in Located, NEW base \in CallerBases(t)
  PROVE  base = OwnBase(t)
<1>1. t \in Tasks /\ 2 * t \in Tasks /\ t \in Nat
  BY TasksAssumption DEF Located, Tasks
<1>2. slots = task_setup BY DEF TablesInv
<1>3. CallerSlot(t) = 2 * t
  BY <1>1, <1>2, EntriesOf DEF CallerSlot, TssIndex, GDT_RESERVED_ENTRIES
<1>4. slots[2 * t].data = slots[t].data
  BY <1>1, <1>2 DEF task_setup, UserBase
<1>5. t # Kernel BY <1>1 DEF Kernel
<1> QED BY <1>1, <1>3, <1>4, <1>5, Zenon DEF CallerBases, OwnBase

\* The names they pass reach exec().
LEMMA LocatedArguments ==
  ASSUME TablesInv, machine # "boot", tr \in Located, NEW base \in CallerBases(tr)
  PROVE  \A f : Named(f, base) = {f}
BY LocatedBase DEF Named

\* The step of a call that starts a program: who waits now has asked for it,
\* and who waited before is not asked for another one.
LEMMA StartKeepsAsked ==
  ASSUME NestInv, TablesInv, ExecStartsWhatWasAsked,
         NEW f \in Files \cup {Shell, NoProgram}, exec_starts(f)
  PROVE  ExecStartsWhatWasAsked'
<1>1. PICK base \in CallerBases(tr) : \E g \in Named(f, base) : exec(g)
  BY DEF exec_starts
<1>2. PICK g \in Named(f, base) : exec(g) BY <1>1
<1> DEFINE n == Min(FreeTasks)
<1>3. n \in Tasks /\ status[n] = 0 BY <1>2, FirstFreeTask DEF exec
<1>4. /\ tr' = n /\ busy' = busy \cup {n} /\ link' = [link EXCEPT ![n] = tr]
      /\ program' = [program EXCEPT ![n] = g]
  BY <1>2 DEF exec, Start, task_switch
<1>5. asked' = [t \in Tasks |-> IF t = tr THEN f ELSE asked[t]] BY DEF exec_starts
<1>6. tr \in Located => g = f
  <2>1. machine # "boot" BY <1>2 DEF exec, Runs
  <2> QED BY <1>2, <2>1, LocatedArguments
<1> HIDE DEF n
<1>7. /\ n \notin busy /\ tr # n /\ tr \in busy \cup {Kernel}
      /\ \A t \in busy : link[t] # tr
      /\ busy \subseteq Tasks /\ link \in [Tasks -> Tasks \cup {Kernel}]
      /\ program \in [Tasks -> Files \cup {NoProgram}]
  <2>1. Kernel \notin Tasks BY TasksAssumption DEF Kernel, Tasks
  <2> QED BY <1>3, <2>1 DEF NestInv, Nest, TypeOK
<1>8. ASSUME NEW t \in busy', link'[t] \in Located PROVE program'[t] = asked'[link'[t]]
  <2>0. link'[t] \in Tasks BY <1>8 DEF Located
  <2>1. CASE t = n
    <3>1. link'[t] = tr /\ program'[t] = g BY <2>1, <1>3, <1>4, <1>7
    <3>2. asked'[tr] = f BY <2>0, <3>1, <1>5
    <3> QED BY <3>1, <3>2, <1>6, <1>8
  <2>2. CASE t # n
    <3>1. t \in busy /\ t \in Tasks BY <2>2, <1>4, <1>7
    <3>2. link'[t] = link[t] /\ program'[t] = program[t] BY <2>2, <3>1, <1>4, <1>7
    <3>3. link[t] # tr BY <3>1, <1>7
    <3>4. asked'[link[t]] = asked[link[t]] BY <2>0, <3>2, <3>3, <1>5
    <3>5. program[t] = asked[link[t]] BY <3>1, <3>2, <1>8 DEF ExecStartsWhatWasAsked
    <3> QED BY <3>2, <3>4, <3>5
  <2> QED BY <2>1, <2>2
<1>9. ASSUME NEW t \in Tasks, t \notin busy' \/ t = tr' PROVE asked'[t] = NoProgram
  <2>1. t \notin busy /\ t # tr
    <3>1. Kernel \notin Tasks BY TasksAssumption DEF Kernel, Tasks
    <3> QED BY <1>4, <1>7, <1>9, <3>1
  <2> QED BY <2>1, <1>5 DEF ExecStartsWhatWasAsked
<1>10. Located' = Located BY DEF Located
<1> QED BY <1>8, <1>9, <1>10 DEF ExecStartsWhatWasAsked

\* The end of a program: the call of its caller is over, and no other one is.
LEMMA EndKeepsAsked ==
  ASSUME NestInv, ExecStartsWhatWasAsked, program_ends
  PROVE  ExecStartsWhatWasAsked'
<1>1. tr # Kernel /\ tr' = link[tr] /\ busy' = busy \ {tr} /\ UNCHANGED <<link, program>>
  BY DEF program_ends, iret
<1>2. asked' = [t \in Tasks |-> IF t = link[tr] THEN NoProgram ELSE asked[t]]
  BY DEF program_ends
<1>3. tr \in busy /\ \A t \in busy : link[t] = link[tr] => t = tr
  BY <1>1 DEF NestInv, Nest
<1>4. ASSUME NEW t \in busy', link'[t] \in Located PROVE program'[t] = asked'[link'[t]]
  <2>1. t \in busy /\ link[t] # link[tr] BY <1>1, <1>3
  <2>2. link[t] \in Tasks BY <1>1, <1>4 DEF Located
  <2>3. asked'[link[t]] = asked[link[t]] BY <1>2, <2>1, <2>2
  <2>4. program[t] = asked[link[t]] BY <1>1, <1>4, <2>1 DEF ExecStartsWhatWasAsked
  <2> QED BY <1>1, <2>3, <2>4
<1>5. ASSUME NEW t \in Tasks, t \notin busy' \/ t = tr' PROVE asked'[t] = NoProgram
  BY <1>1, <1>2, <1>5 DEF ExecStartsWhatWasAsked
<1>6. Located' = Located BY DEF Located
<1> QED BY <1>4, <1>5, <1>6 DEF ExecStartsWhatWasAsked

\* A step that starts and ends no program.
LEMMA AskedUntouched ==
  ASSUME ExecStartsWhatWasAsked, UNCHANGED <<cpu, program, asked>>
  PROVE  ExecStartsWhatWasAsked'
BY DEF ExecStartsWhatWasAsked, Located, cpu

\* Each program that has not returned is the one its caller named, as far as
\* the kernel can locate the caller.
THEOREM StartsWhatWasAsked == PSpec => []ExecStartsWhatWasAsked
<1>1. PInit => ExecStartsWhatWasAsked
  BY DEF PInit, Init, ExecStartsWhatWasAsked
<1>2. NestInv /\ TablesInv /\ ExecStartsWhatWasAsked /\ [PNext]_pvars
        => ExecStartsWhatWasAsked'
  <2> SUFFICES ASSUME NestInv, TablesInv, ExecStartsWhatWasAsked, [PNext]_pvars
               PROVE  ExecStartsWhatWasAsked'
    OBVIOUS
  <2>1. CASE boot
    BY <2>1, AskedUntouched DEF boot, kernel_main
  <2>2. ASSUME NEW f, exec_fails(f) PROVE ExecStartsWhatWasAsked'
    <3>1. UNCHANGED <<cpu, program, asked>>
      BY <2>2 DEF exec_fails, exec_no_file, exec_no_task
    <3> QED BY <3>1, AskedUntouched
  <2>3. ASSUME NEW f \in Files \cup {Shell, NoProgram}, exec_starts(f)
        PROVE  ExecStartsWhatWasAsked'
    BY <2>3, StartKeepsAsked
  <2>4. CASE program_ends
    BY <2>4, EndKeepsAsked
  <2>5. CASE lib_file_open
    BY <2>5, AskedUntouched DEF lib_file_open, syscall_file_open
  <2>6. ASSUME NEW fd \in Fds, lib_file_close(fd) PROVE ExecStartsWhatWasAsked'
    <3>1. PICK c : IF c \in Fds THEN syscall_file_close(c) ELSE UNCHANGED vars
      BY <2>6 DEF lib_file_close
    <3>2. UNCHANGED <<cpu, program>> BY <3>1 DEF syscall_file_close, vars
    <3> QED BY <2>6, <3>2, AskedUntouched DEF lib_file_close
  <2>7. CASE lib_exit
    BY <2>7, AskedUntouched DEF lib_exit, syscall_exit
  <2>8. ASSUME NEW f, lib_call(f) PROVE ExecStartsWhatWasAsked'
    BY <2>8, AskedUntouched DEF lib_call, vars
  <2>9. CASE UNCHANGED pvars
    BY <2>9, AskedUntouched DEF pvars, vars
  <2> QED BY <2>1, <2>2, <2>3, <2>4, <2>5, <2>6, <2>7, <2>8, <2>9 DEF PNext
<1> QED BY <1>1, <1>2, ProgramsNest, TablesInvariant, PTL DEF PSpec

-----------------------------------------------------------------------------
(* The library and the handlers *)

\* A wrapper and a handler of the function f: what they do for each other is
\* what CallsArrive says of f.
Fits(f, w, h) ==
  /\ h.function = f
  /\ Matched(w.args, h.args) <=> f \notin Misfits
  /\ h.ret = w.ret <=> f \notin NoResult
  /\ Spills(w, h) <=> f = "file_has_next"

\* Lists of arguments that match, and lists that do not.
LEMMA Matching ==
  /\ Same("itself", "as is") /\ Same("address", "dereferenced")
  /\ ~Same("address", "as is") /\ ~Same("list", "first of list")
  /\ Matched(<< >>, << >>)
  /\ \A a : ~Matched(<<a>>, << >>)
  /\ \A a, b : Matched(<<a>>, <<b>>) <=> Same(a, b)
  /\ \A a, b, c, d : Matched(<<a, c>>, <<b, d>>) <=> Same(a, b) /\ Same(c, d)
  /\ \A a, b, c, d, e, f : Matched(<<a, c, e>>, <<b, d, f>>) => Same(a, b)
<1>1. /\ Same("itself", "as is") /\ Same("address", "dereferenced")
      /\ ~Same("address", "as is") /\ ~Same("list", "first of list")
  BY DEF Same
<1>2. Matched(<< >>, << >>) BY DEF Matched
<1>3. ASSUME NEW a PROVE ~Matched(<<a>>, << >>) BY DEF Matched
<1>4. ASSUME NEW a, NEW b PROVE Matched(<<a>>, <<b>>) <=> Same(a, b) BY DEF Matched
<1>5. ASSUME NEW a, NEW b, NEW c, NEW d
      PROVE  Matched(<<a, c>>, <<b, d>>) <=> Same(a, b) /\ Same(c, d)
  BY DEF Matched
<1>6. ASSUME NEW a, NEW b, NEW c, NEW d, NEW e, NEW f, Matched(<<a, c, e>>, <<b, d, f>>)
      PROVE  Same(a, b)
  BY <1>6 DEF Matched
<1> QED BY <1>1, <1>2, <1>3, <1>4, <1>5, <1>6

\* Both return nothing.
LEMMA AlikeVoid ==
  ASSUME NEW a, NEW b, NEW nb, NEW f, Matched(a, b) <=> f \notin Misfits,
         f # "file_has_next", f # "srand", f # "rand"
  PROVE  Fits(f, WrapperVoid(nb, a), HandlerVoid(f, b))
BY DEF Fits, Spills, WrapperVoid, HandlerVoid, NoResult

\* Both have a result of the same type.
LEMMA Alike ==
  ASSUME NEW a, NEW b, NEW nb, NEW f, NEW type, type # "bool",
         Matched(a, b) <=> f \notin Misfits, Len(a) = Len(b),
         f # "file_has_next", f # "srand", f # "rand"
  PROVE  Fits(f, WrapperOf(type, nb, a), HandlerOf(type, f, b))
BY Zenon DEF Fits, Spills, WrapperOf, HandlerOf, NoResult

\* The handler of a result stores nothing.
LEMMA Silent ==
  ASSUME NEW a, NEW b, NEW nb, NEW f, Matched(a, b) <=> f \notin Misfits,
         Len(a) \in Nat, f \in NoResult
  PROVE  Fits(f, Wrapper(nb, a), HandlerVoid(f, b))
<1>1. Len(a) + 1 # 0 OBVIOUS
<1> QED BY <1>1 DEF Fits, Spills, Wrapper, WrapperOf, HandlerVoid, NoResult

\* A wrapper finds its handler by the number.
LEMMA NumberJoins ==
  ASSUME NEW a, NEW nb, NEW type, NEW f, NEW h, func_syscalls(nb) = h,
         \/ Library[f] = WrapperVoid(nb, a) /\ Fits(f, WrapperVoid(nb, a), h)
         \/ Library[f] = WrapperOf(type, nb, a) /\ Fits(f, WrapperOf(type, nb, a), h)
  PROVE  Fits(f, Library[f], func_syscalls(Library[f].nb))
<1>1. Library[f].nb = nb BY DEF WrapperOf, WrapperVoid
<1> QED BY <1>1

\* The two tables, function by function.
LEMMA TablesFit ==
  ASSUME NEW f \in DOMAIN Library
  PROVE  Fits(f, Library[f], func_syscalls(Library[f].nb))
<1>0. DOMAIN Library = {"puts", "exec", "keypressed", "getc", "file_stat", "file_open",
        "file_read", "file_close", "file_seek", "file_remove", "file_iterator",
        "file_has_next", "file_next", "get_ticks", "putc", "printf", "srand",
        "rand", "sleep", "exit", "strlen", "strcmp", "read_string"}
  BY DEF Library
<1>2. CASE f = "puts"
  <2>1. Library[f] = WrapperVoid(0, <<"itself">>)
    BY <1>2 DEF Library
  <2>2. func_syscalls(0) = HandlerVoid(f, <<"as is">>)
    BY <1>2 DEF func_syscalls, Handlers
  <2>3. Matched(<<"itself">>, <<"as is">>) <=> f \notin Misfits
    BY <1>2, Matching DEF Misfits
  <2>4. Fits(f, WrapperVoid(0, <<"itself">>), HandlerVoid(f, <<"as is">>))
    BY <1>2, <2>3, AlikeVoid
  <2> QED BY <2>1, <2>2, <2>4, NumberJoins
<1>3. CASE f = "exec"
  <2>1. Library[f] = WrapperOf("int", 1, <<"itself">>)
    BY <1>3 DEF Library, Wrapper
  <2>2. func_syscalls(1) = HandlerOf("int", f, <<"as is">>)
    BY <1>3 DEF func_syscalls, Handlers, Handler
  <2>3. Matched(<<"itself">>, <<"as is">>) <=> f \notin Misfits
    BY <1>3, Matching DEF Misfits
  <2>4. Fits(f, WrapperOf("int", 1, <<"itself">>), HandlerOf("int", f, <<"as is">>))
    BY <1>3, <2>3, Alike
  <2> QED BY <2>1, <2>2, <2>4, NumberJoins
<1>4. CASE f = "keypressed"
  <2>1. Library[f] = WrapperOf("int", 2, << >>)
    BY <1>4 DEF Library, Wrapper
  <2>2. func_syscalls(2) = HandlerOf("int", f, << >>)
    BY <1>4 DEF func_syscalls, Handlers, Handler
  <2>3. Matched(<< >>, << >>) <=> f \notin Misfits
    BY <1>4, Matching DEF Misfits
  <2>4. Fits(f, WrapperOf("int", 2, << >>), HandlerOf("int", f, << >>))
    BY <1>4, <2>3, Alike
  <2> QED BY <2>1, <2>2, <2>4, NumberJoins
<1>5. CASE f = "getc"
  <2>1. Library[f] = WrapperOf("int", 3, << >>)
    BY <1>5 DEF Library, Wrapper
  <2>2. func_syscalls(3) = HandlerOf("int", f, << >>)
    BY <1>5 DEF func_syscalls, Handlers, Handler
  <2>3. Matched(<< >>, << >>) <=> f \notin Misfits
    BY <1>5, Matching DEF Misfits
  <2>4. Fits(f, WrapperOf("int", 3, << >>), HandlerOf("int", f, << >>))
    BY <1>5, <2>3, Alike
  <2> QED BY <2>1, <2>2, <2>4, NumberJoins
<1>6. CASE f = "file_stat"
  <2>1. Library[f] = WrapperOf("int", 4, <<"itself", "itself">>)
    BY <1>6 DEF Library, Wrapper
  <2>2. func_syscalls(4) = HandlerOf("int", f, <<"as is", "as is">>)
    BY <1>6 DEF func_syscalls, Handlers, Handler
  <2>3. Matched(<<"itself", "itself">>, <<"as is", "as is">>) <=> f \notin Misfits
    BY <1>6, Matching DEF Misfits
  <2>4. Fits(f, WrapperOf("int", 4, <<"itself", "itself">>),
             HandlerOf("int", f, <<"as is", "as is">>))
    BY <1>6, <2>3, Alike
  <2> QED BY <2>1, <2>2, <2>4, NumberJoins
<1>7. CASE f = "file_open"
  <2>1. Library[f] = WrapperOf("int", 5, <<"itself">>)
    BY <1>7 DEF Library, Wrapper
  <2>2. func_syscalls(5) = HandlerOf("int", f, <<"as is">>)
    BY <1>7 DEF func_syscalls, Handlers, Handler
  <2>3. Matched(<<"itself">>, <<"as is">>) <=> f \notin Misfits
    BY <1>7, Matching DEF Misfits
  <2>4. Fits(f, WrapperOf("int", 5, <<"itself">>), HandlerOf("int", f, <<"as is">>))
    BY <1>7, <2>3, Alike
  <2> QED BY <2>1, <2>2, <2>4, NumberJoins
<1>8. CASE f = "file_read"
  <2>1. Library[f] = WrapperOf("int", 6, <<"address", "itself", "address">>)
    BY <1>8 DEF Library, Wrapper
  <2>2. func_syscalls(6) = HandlerOf("int", f, <<"as is", "as is", "as is">>)
    BY <1>8 DEF func_syscalls, Handlers, Handler
  <2>3. Matched(<<"address", "itself", "address">>, <<"as is", "as is", "as is">>)
        <=> f \notin Misfits
    BY <1>8, Matching DEF Misfits
  <2>4. Fits(f, WrapperOf("int", 6, <<"address", "itself", "address">>),
             HandlerOf("int", f, <<"as is", "as is", "as is">>))
    BY <1>8, <2>3, Alike
  <2> QED BY <2>1, <2>2, <2>4, NumberJoins
<1>9. CASE f = "file_close"
  <2>1. Library[f] = WrapperVoid(7, <<"address">>)
    BY <1>9 DEF Library
  <2>2. func_syscalls(7) = HandlerVoid(f, <<"as is">>)
    BY <1>9 DEF func_syscalls, Handlers
  <2>3. Matched(<<"address">>, <<"as is">>) <=> f \notin Misfits
    BY <1>9, Matching DEF Misfits
  <2>4. Fits(f, WrapperVoid(7, <<"address">>), HandlerVoid(f, <<"as is">>))
    BY <1>9, <2>3, AlikeVoid
  <2> QED BY <2>1, <2>2, <2>4, NumberJoins
<1>10. CASE f = "file_seek"
  <2>1. Library[f] = WrapperOf("int", 8, <<"address", "address">>)
    BY <1>10 DEF Library, Wrapper
  <2>2. func_syscalls(8) = HandlerOf("int", f, <<"as is", "as is">>)
    BY <1>10 DEF func_syscalls, Handlers, Handler
  <2>3. Matched(<<"address", "address">>, <<"as is", "as is">>) <=> f \notin Misfits
    BY <1>10, Matching DEF Misfits
  <2>4. Fits(f, WrapperOf("int", 8, <<"address", "address">>),
             HandlerOf("int", f, <<"as is", "as is">>))
    BY <1>10, <2>3, Alike
  <2> QED BY <2>1, <2>2, <2>4, NumberJoins
<1>11. CASE f = "file_remove"
  <2>1. Library[f] = WrapperOf("int", 9, <<"itself">>)
    BY <1>11 DEF Library, Wrapper
  <2>2. func_syscalls(9) = HandlerOf("int", f, <<"as is">>)
    BY <1>11 DEF func_syscalls, Handlers, Handler
  <2>3. Matched(<<"itself">>, <<"as is">>) <=> f \notin Misfits
    BY <1>11, Matching DEF Misfits
  <2>4. Fits(f, WrapperOf("int", 9, <<"itself">>), HandlerOf("int", f, <<"as is">>))
    BY <1>11, <2>3, Alike
  <2> QED BY <2>1, <2>2, <2>4, NumberJoins
<1>12. CASE f = "file_iterator"
  <2>1. Library[f] = WrapperOf("file_iterator_t", 10, << >>)
    BY <1>12 DEF Library
  <2>2. func_syscalls(10) = HandlerOf("file_iterator_t", f, << >>)
    BY <1>12 DEF func_syscalls, Handlers
  <2>3. Matched(<< >>, << >>) <=> f \notin Misfits
    BY <1>12, Matching DEF Misfits
  <2>4. Fits(f, WrapperOf("file_iterator_t", 10, << >>),
             HandlerOf("file_iterator_t", f, << >>))
    BY <1>12, <2>3, Alike
  <2> QED BY <2>1, <2>2, <2>4, NumberJoins
<1>13. CASE f = "file_has_next"
  <2>1. Library[f] = WrapperOf("bool", 11, <<"itself">>)
    BY <1>13 DEF Library
  <2>2. func_syscalls(11) = HandlerOf("int", f, <<"as is">>)
    BY <1>13 DEF func_syscalls, Handlers, Handler
  <2>3. Matched(<<"itself">>, <<"as is">>) <=> f \notin Misfits
    BY <1>13, Matching DEF Misfits
  <2>4. Fits(f, WrapperOf("bool", 11, <<"itself">>), HandlerOf("int", f, <<"as is">>))
    BY <1>13, <2>3 DEF Fits, Spills, WrapperOf, HandlerOf, NoResult
  <2> QED BY <2>1, <2>2, <2>4, NumberJoins
<1>14. CASE f = "file_next"
  <2>1. Library[f] = WrapperVoid(12, <<"itself", "itself">>)
    BY <1>14 DEF Library
  <2>2. func_syscalls(12) = HandlerVoid(f, <<"as is", "as is">>)
    BY <1>14 DEF func_syscalls, Handlers
  <2>3. Matched(<<"itself", "itself">>, <<"as is", "as is">>) <=> f \notin Misfits
    BY <1>14, Matching DEF Misfits
  <2>4. Fits(f, WrapperVoid(12, <<"itself", "itself">>),
             HandlerVoid(f, <<"as is", "as is">>))
    BY <1>14, <2>3, AlikeVoid
  <2> QED BY <2>1, <2>2, <2>4, NumberJoins
<1>15. CASE f = "get_ticks"
  <2>1. Library[f] = WrapperOf("int", 13, << >>)
    BY <1>15 DEF Library, Wrapper
  <2>2. func_syscalls(13) = HandlerOf("int", f, << >>)
    BY <1>15 DEF func_syscalls, Handlers, Handler
  <2>3. Matched(<< >>, << >>) <=> f \notin Misfits
    BY <1>15, Matching DEF Misfits
  <2>4. Fits(f, WrapperOf("int", 13, << >>), HandlerOf("int", f, << >>))
    BY <1>15, <2>3, Alike
  <2> QED BY <2>1, <2>2, <2>4, NumberJoins
<1>16. CASE f = "putc"
  <2>1. Library[f] = WrapperVoid(14, <<"address">>)
    BY <1>16 DEF Library
  <2>2. func_syscalls(14) = HandlerVoid(f, <<"dereferenced">>)
    BY <1>16 DEF func_syscalls, Handlers
  <2>3. Matched(<<"address">>, <<"dereferenced">>) <=> f \notin Misfits
    BY <1>16, Matching DEF Misfits
  <2>4. Fits(f, WrapperVoid(14, <<"address">>), HandlerVoid(f, <<"dereferenced">>))
    BY <1>16, <2>3, AlikeVoid
  <2> QED BY <2>1, <2>2, <2>4, NumberJoins
<1>17. CASE f = "printf"
  <2>1. Library[f] = WrapperVoid(15, <<"itself", "list">>)
    BY <1>17 DEF Library
  <2>2. func_syscalls(15) = HandlerVoid(f, <<"as is", "first of list">>)
    BY <1>17 DEF func_syscalls, Handlers
  <2>3. Matched(<<"itself", "list">>, <<"as is", "first of list">>) <=> f \notin Misfits
    BY <1>17, Matching DEF Misfits
  <2>4. Fits(f, WrapperVoid(15, <<"itself", "list">>),
             HandlerVoid(f, <<"as is", "first of list">>))
    BY <1>17, <2>3, AlikeVoid
  <2> QED BY <2>1, <2>2, <2>4, NumberJoins
<1>18. CASE f = "srand"
  <2>1. Library[f] = WrapperOf("int", 16, <<"address">>)
    BY <1>18 DEF Library, Wrapper
  <2>2. func_syscalls(16) = HandlerVoid(f, << >>)
    BY <1>18 DEF func_syscalls, Handlers
  <2>3. Matched(<<"address">>, << >>) <=> f \notin Misfits
    BY <1>18, Matching DEF Misfits
  <2>4. Fits(f, WrapperOf("int", 16, <<"address">>), HandlerVoid(f, << >>))
    BY <1>18, <2>3, Silent DEF Wrapper, NoResult
  <2> QED BY <2>1, <2>2, <2>4, NumberJoins
<1>19. CASE f = "rand"
  <2>1. Library[f] = WrapperOf("int", 17, << >>)
    BY <1>19 DEF Library, Wrapper
  <2>2. func_syscalls(17) = HandlerVoid(f, << >>)
    BY <1>19 DEF func_syscalls, Handlers
  <2>3. Matched(<< >>, << >>) <=> f \notin Misfits
    BY <1>19, Matching DEF Misfits
  <2>4. Fits(f, WrapperOf("int", 17, << >>), HandlerVoid(f, << >>))
    BY <1>19, <2>3, Silent DEF Wrapper, NoResult
  <2> QED BY <2>1, <2>2, <2>4, NumberJoins
<1>20. CASE f = "sleep"
  <2>1. Library[f] = WrapperVoid(18, <<"address">>)
    BY <1>20 DEF Library
  <2>2. func_syscalls(18) = HandlerVoid(f, <<"as is">>)
    BY <1>20 DEF func_syscalls, Handlers
  <2>3. Matched(<<"address">>, <<"as is">>) <=> f \notin Misfits
    BY <1>20, Matching DEF Misfits
  <2>4. Fits(f, WrapperVoid(18, <<"address">>), HandlerVoid(f, <<"as is">>))
    BY <1>20, <2>3, AlikeVoid
  <2> QED BY <2>1, <2>2, <2>4, NumberJoins
<1>21. CASE f = "exit"
  <2>1. Library[f] = WrapperVoid(19, << >>)
    BY <1>21 DEF Library
  <2>2. func_syscalls(19) = HandlerVoid(f, << >>)
    BY <1>21 DEF func_syscalls, Handlers
  <2>3. Matched(<< >>, << >>) <=> f \notin Misfits
    BY <1>21, Matching DEF Misfits
  <2>4. Fits(f, WrapperVoid(19, << >>), HandlerVoid(f, << >>))
    BY <1>21, <2>3, AlikeVoid
  <2> QED BY <2>1, <2>2, <2>4, NumberJoins
<1>22. CASE f = "strlen"
  <2>1. Library[f] = WrapperOf("int", 20, <<"address">>)
    BY <1>22 DEF Library, Wrapper
  <2>2. func_syscalls(20) = HandlerOf("int", f, <<"as is">>)
    BY <1>22 DEF func_syscalls, Handlers, Handler
  <2>3. Matched(<<"address">>, <<"as is">>) <=> f \notin Misfits
    BY <1>22, Matching DEF Misfits
  <2>4. Fits(f, WrapperOf("int", 20, <<"address">>), HandlerOf("int", f, <<"as is">>))
    BY <1>22, <2>3, Alike
  <2> QED BY <2>1, <2>2, <2>4, NumberJoins
<1>23. CASE f = "strcmp"
  <2>1. Library[f] = WrapperOf("int", 21, <<"address", "address">>)
    BY <1>23 DEF Library, Wrapper
  <2>2. func_syscalls(21) = HandlerOf("int", f, <<"as is", "as is">>)
    BY <1>23 DEF func_syscalls, Handlers, Handler
  <2>3. Matched(<<"address", "address">>, <<"as is", "as is">>) <=> f \notin Misfits
    BY <1>23, Matching DEF Misfits
  <2>4. Fits(f, WrapperOf("int", 21, <<"address", "address">>),
             HandlerOf("int", f, <<"as is", "as is">>))
    BY <1>23, <2>3, Alike
  <2> QED BY <2>1, <2>2, <2>4, NumberJoins
<1>24. CASE f = "read_string"
  <2>1. Library[f] = WrapperVoid(22, <<"address">>)
    BY <1>24 DEF Library
  <2>2. func_syscalls(22) = HandlerVoid(f, <<"as is">>)
    BY <1>24 DEF func_syscalls, Handlers
  <2>3. Matched(<<"address">>, <<"as is">>) <=> f \notin Misfits
    BY <1>24, Matching DEF Misfits
  <2>4. Fits(f, WrapperVoid(22, <<"address">>), HandlerVoid(f, <<"as is">>))
    BY <1>24, <2>3, AlikeVoid
  <2> QED BY <2>1, <2>2, <2>4, NumberJoins
<1> QED BY <1>0, <1>2, <1>3, <1>4, <1>5, <1>6, <1>7, <1>8, <1>9, <1>10, <1>11,
          <1>12, <1>13, <1>14, <1>15, <1>16, <1>17, <1>18, <1>19, <1>20, <1>21,
          <1>22, <1>23, <1>24

\* A call that returns to a task the kernel can locate has arrived.
LEMMA ReturnArrives ==
  ASSUME TablesInv, machine # "boot", NEW f \in DOMAIN Library, NEW t,
         NEW base \in CallerBases(t), Returns(f, base, t)
  PROVE  CallsArrive'
<1> DEFINE w == Library[f]
           h == func_syscalls(w.nb)
<1>1. Located' = Located /\ Library' = Library
  BY DEF Located, Library, Wrapper, WrapperOf, WrapperVoid
<1>2. SUFFICES ASSUME call'.task \in Located
               PROVE  /\ call'.did = call'.asked
                      /\ call'.arrived <=> call'.asked \notin Misfits
                      /\ call'.returned <=> call'.asked \notin NoResult
                      /\ call'.spilled <=> call'.asked = "file_has_next"
  BY <1>1 DEF CallsArrive, Misfits, NoResult
<1>3. t # Kernel
  <2>1. NoCall.task \notin Located
    BY TasksAssumption DEF NoCall, Nobody, Located, Tasks
  <2> QED BY <1>2, <2>1 DEF Returns
<1>4. /\ call'.task = t /\ call'.asked = f /\ call'.did = h.function
      /\ call'.arrived = Arrives(w, h, base, t)
      /\ call'.returned = Returned(w, h, base, t) /\ call'.spilled = Spills(w, h)
  BY <1>3 DEF Returns
<1>5. base = OwnBase(t) BY <1>2, <1>4, LocatedBase
<1>6. Fits(f, w, h) BY TablesFit
<1> HIDE DEF w, h
<1>7. call'.arrived <=> call'.asked \notin Misfits
  BY <1>4, <1>5, <1>6, Zenon DEF Fits, Arrives
<1>8. call'.returned <=> call'.asked \notin NoResult
  BY <1>4, <1>5, <1>6, Zenon DEF Fits, Returned
<1>9. call'.did = call'.asked /\ (call'.spilled <=> call'.asked = "file_has_next")
  BY <1>4, <1>6, Zenon DEF Fits
<1> QED BY <1>4, <1>7, <1>8, <1>9 DEF w

\* Every other step forgets the last call or remembers it.
LEMMA CallForgotten == ASSUME call' = NoCall PROVE CallsArrive'
<1>1. NoCall.task \notin Located
  BY TasksAssumption DEF NoCall, Nobody, Located, Tasks
<1> QED BY <1>1 DEF CallsArrive, Located, NoCall

\* Whatever runs in between, a call of a task the kernel can locate reaches
\* the function it is named for, with its arguments and its result.
THEOREM CallsReachKernel == PSpec => []CallsArrive
<1>1. PInit => CallsArrive
  <2>1. NoCall.task \notin Located
    BY TasksAssumption DEF NoCall, Nobody, Located, Tasks
  <2> QED BY <2>1 DEF PInit, CallsArrive
<1>2. TablesInv /\ CallsArrive /\ [PNext]_pvars => CallsArrive'
  <2> SUFFICES ASSUME TablesInv, CallsArrive, [PNext]_pvars PROVE CallsArrive' OBVIOUS
  <2>1. CASE boot
    BY <2>1, CallForgotten DEF boot
  <2>2. ASSUME NEW f \in Files \cup {Shell, NoProgram}, exec_fails(f) PROVE CallsArrive'
    <3>1. machine # "boot"
      BY <2>2 DEF exec_fails, exec_no_file, exec_no_task, Runs
    <3>2. PICK base \in CallerBases(tr) : Returns("exec", base, tr)
      BY <2>2 DEF exec_fails
    <3>3. "exec" \in DOMAIN Library BY DEF Library
    <3> QED BY <3>1, <3>2, <3>3, ReturnArrives
  <2>3. ASSUME NEW f, exec_starts(f) PROVE CallsArrive'
    BY <2>3, CallForgotten DEF exec_starts
  <2>4. CASE program_ends
    <3>1. machine # "boot" BY <2>4 DEF program_ends, iret
    <3>2. PICK base \in CallerBases(link[tr]) : Returns("exec", base, link[tr])
      BY <2>4 DEF program_ends
    <3>3. "exec" \in DOMAIN Library BY DEF Library
    <3> QED BY <3>1, <3>2, <3>3, ReturnArrives
  <2>5. CASE lib_file_open
    <3>1. machine # "boot" BY <2>5 DEF lib_file_open, syscall_file_open
    <3>2. PICK base \in CallerBases(tr) : Returns("file_open", base, tr)
      BY <2>5 DEF lib_file_open
    <3>3. "file_open" \in DOMAIN Library BY DEF Library
    <3> QED BY <3>1, <3>2, <3>3, ReturnArrives
  <2>6. ASSUME NEW fd, lib_file_close(fd) PROVE CallsArrive'
    <3>1. machine # "boot" BY <2>6 DEF lib_file_close
    <3>2. PICK base \in CallerBases(tr) : Returns("file_close", base, tr)
      BY <2>6 DEF lib_file_close
    <3>3. "file_close" \in DOMAIN Library BY DEF Library
    <3> QED BY <3>1, <3>2, <3>3, ReturnArrives
  <2>7. CASE lib_exit
    BY <2>7, CallForgotten DEF lib_exit
  <2>8. ASSUME NEW f \in Others, lib_call(f) PROVE CallsArrive'
    <3>1. machine # "boot" BY <2>8 DEF lib_call
    <3>2. PICK base \in CallerBases(tr) : Returns(f, base, tr)
      BY <2>8 DEF lib_call
    <3>3. f \in DOMAIN Library BY DEF Others
    <3> QED BY <3>1, <3>2, <3>3, ReturnArrives
  <2>9. CASE UNCHANGED pvars
    <3>1. call' = call BY <2>9 DEF pvars
    <3> QED BY <3>1 DEF CallsArrive, Located, Misfits, NoResult
  <2> QED BY <2>1, <2>2, <2>3, <2>4, <2>5, <2>6, <2>7, <2>8, <2>9 DEF PNext
<1> QED BY <1>1, <1>2, TablesInvariant, PTL DEF PSpec
=============================================================================
