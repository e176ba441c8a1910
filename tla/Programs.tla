------------------------------ MODULE Programs ------------------------------
(***************************************************************************)
(* Programs and what lies between them and the kernel: the library they    *)
(* are linked with (user/wrapper.c), the table of system calls             *)
(* (kernel/syscalls/syscall.c) and the descriptors of the tasks            *)
(* (task_setup, gdt_init).  The actions of Tasks.tla happen as before, but *)
(* with the arguments that reach the kernel.                               *)
(*                                                                         *)
(* A program passes addresses of its own segment, and the kernel adds the  *)
(* base it finds for the caller.  Two mistakes cancel out for half of the  *)
(* tasks: the base of every user segment is the first byte of the address  *)
(* space, which is 0, and the caller's slot is looked up at twice its      *)
(* number.  For the others the slot is behind the table.                   *)
(*                                                                         *)
(* What is stored in memory outside of the variables below is left out: a  *)
(* program that is larger than its address space, which nothing checks     *)
(* (task.c:84), and the descriptor that file_close() closes when it is     *)
(* given an address (syscall.c:66).                                        *)
(***************************************************************************)
EXTENDS Tasks, Descriptors

CONSTANTS
  TableAddresses,  \* where the linker may put task_table
  TASK_SIZE, LDT_OFFSET, SPACE_OFFSET, TSS_SIZE, LDT_SIZE,  \* of task_t
  SPACE_SIZE,      \* of an address space (16834)
  PAGE_SIZE,       \* (4096)
  Behind           \* bases that can be read behind task_table

ASSUME ProgramsAssumption ==
  /\ TASK_SIZE \in Nat /\ LDT_OFFSET \in Nat /\ SPACE_OFFSET \in Nat
  /\ TSS_SIZE \in 1 .. NIBBLE * HALF /\ LDT_SIZE \in 1 .. NIBBLE * HALF
  /\ SPACE_SIZE \in Nat \ {0} /\ PAGE_SIZE \in Nat \ {0}
  /\ \A t \in Tasks, a \in TableAddresses :
       a \in Nat /\ a + t * TASK_SIZE + LDT_OFFSET \in Words /\ a + t * TASK_SIZE \in Words
  /\ Behind \subseteq Words /\ Behind # {}

VARIABLES
  task_table,  \* its address
  gdt_table,
  slots,       \* task_table[]: selectors, LDT and the eip of the TSS
  asked,       \* history: what the exec() a task is in was called with
  call         \* history: the library call that has just returned

kernel_tables == <<task_table, gdt_table, slots>>
pvars == <<vars, kernel_tables, asked, call>>

Nobody == -2  \* no task, and not the kernel
NoCall == [task |-> Nobody, asked |-> "nothing"]

-----------------------------------------------------------------------------
(* gdt_init and task_setup *)

GDT_RESERVED_ENTRIES == 4
Gdt == 0 .. GDT_RESERVED_ENTRIES + 2 * MAX_TASK_COUNT - 1
TssIndex(t) == GDT_RESERVED_ENTRIES + 2 * t
LdtIndex(t) == GDT_RESERVED_ENTRIES + 2 * t + 1

SlotAddress(t) == task_table + t * TASK_SIZE
LdtAddress(t) == SlotAddress(t) + LDT_OFFSET
SpaceAddress(t) == SlotAddress(t) + SPACE_OFFSET

\* *task_table[index].task_addr_space, before any program is loaded.
UserBase(t) == 0

LdtEntry(t) == gdt_make_ldt(LdtAddress(t), LDT_SIZE - 1)

\* The kernel's own task is entry 3; where its segment is does not matter.
gdt_init ==
  [i \in Gdt |->
     IF i >= GDT_RESERVED_ENTRIES
     THEN LET t == (i - GDT_RESERVED_ENTRIES) \div 2
          IN  IF i = TssIndex(t) THEN gdt_make_tss(SlotAddress(t), TSS_SIZE) ELSE LdtEntry(t)
     ELSE IF i = 1 THEN gdt_make_code_segment(0, NIBBLE * HALF - 1, "kernel")
     ELSE IF i = 2 THEN gdt_make_data_segment(0, NIBBLE * HALF - 1, "kernel")
     ELSE IF i = 3 THEN gdt_make_tss(0, TSS_SIZE)
     ELSE gdt_make_null_segment]

task_setup ==
  [t \in Tasks |->
    [tss_selector |-> GDT_INDEX_TO_SELECTOR(TssIndex(t)),
     ldt_selector |-> GDT_INDEX_TO_SELECTOR(LdtIndex(t)),
     code |-> gdt_make_code_segment(UserBase(t), SPACE_SIZE \div PAGE_SIZE, "user"),
     data |-> gdt_make_data_segment(UserBase(t), SPACE_SIZE \div PAGE_SIZE, "user"),
     eip |-> 0]]

NoSetup == [tss_selector |-> 0, ldt_selector |-> 0, code |-> gdt_make_null_segment,
            data |-> gdt_make_null_segment, eip |-> 0]

PInit ==
  /\ Init
  /\ task_table \in TableAddresses
  /\ gdt_table = [i \in Gdt |-> gdt_make_null_segment]
  /\ slots = [t \in Tasks |-> NoSetup]
  /\ asked = [t \in Tasks |-> NoProgram] /\ call = NoCall

-----------------------------------------------------------------------------
(* The library, the table of system calls, and what arrives *)

\* A wrapper passes each argument itself, or its address, and the address of
\* its result after them.  The result is a variable of a type.
WrapperOf(type, nb, args) == [nb |-> nb, args |-> args, ret |-> Len(args) + 1, type |-> type]
Wrapper(nb, args) == WrapperOf("int", nb, args)
WrapperVoid(nb, args) == [nb |-> nb, args |-> args, ret |-> 0, type |-> "void"]

\* printf passes the address of the list of its further arguments.
Library ==
  [puts          |-> WrapperVoid(0, <<"itself">>),
   exec          |-> Wrapper(1, <<"itself">>),
   keypressed    |-> Wrapper(2, << >>),
   getc          |-> Wrapper(3, << >>),
   file_stat     |-> Wrapper(4, <<"itself", "itself">>),
   file_open     |-> Wrapper(5, <<"itself">>),
   file_read     |-> Wrapper(6, <<"address", "itself", "address">>),
   file_close    |-> WrapperVoid(7, <<"address">>),
   file_seek     |-> Wrapper(8, <<"address", "address">>),
   file_remove   |-> Wrapper(9, <<"itself">>),
   file_iterator |-> WrapperOf("file_iterator_t", 10, << >>),
   file_has_next |-> WrapperOf("bool", 11, <<"itself">>),
   file_next     |-> WrapperVoid(12, <<"itself", "itself">>),
   get_ticks     |-> Wrapper(13, << >>),
   putc          |-> WrapperVoid(14, <<"address">>),
   printf        |-> WrapperVoid(15, <<"itself", "list">>),
   srand         |-> Wrapper(16, <<"address">>),
   rand          |-> Wrapper(17, << >>),
   sleep         |-> WrapperVoid(18, <<"address">>),
   exit          |-> WrapperVoid(19, << >>),
   strlen        |-> Wrapper(20, <<"address">>),
   strcmp        |-> Wrapper(21, <<"address", "address">>),
   read_string   |-> WrapperVoid(22, <<"address">>)]

\* A handler takes an argument as it is, or what it points to, and stores
\* the result through the one after them, as a value of a type.  printf gets
\* the first argument of the list; srand and rand do nothing.
HandlerOf(type, function, args) ==
  [function |-> function, args |-> args, ret |-> Len(args) + 1, type |-> type]
Handler(function, args) == HandlerOf("int", function, args)
HandlerVoid(function, args) ==
  [function |-> function, args |-> args, ret |-> 0, type |-> "void"]

Handlers ==
  << HandlerVoid("puts", <<"as is">>),
     Handler("exec", <<"as is">>),
     Handler("keypressed", << >>),
     Handler("getc", << >>),
     Handler("file_stat", <<"as is", "as is">>),
     Handler("file_open", <<"as is">>),
     Handler("file_read", <<"as is", "as is", "as is">>),
     HandlerVoid("file_close", <<"as is">>),
     Handler("file_seek", <<"as is", "as is">>),
     Handler("file_remove", <<"as is">>),
     HandlerOf("file_iterator_t", "file_iterator", << >>),
     Handler("file_has_next", <<"as is">>),
     HandlerVoid("file_next", <<"as is", "as is">>),
     Handler("get_ticks", << >>),
     HandlerVoid("putc", <<"dereferenced">>),
     HandlerVoid("printf", <<"as is", "first of list">>),
     HandlerVoid("srand", << >>),
     HandlerVoid("rand", << >>),
     HandlerVoid("sleep", <<"as is">>),
     HandlerVoid("exit", << >>),
     Handler("strlen", <<"as is">>),
     Handler("strcmp", <<"as is", "as is">>),
     HandlerVoid("read_string", <<"as is">>) >>

\* A slip: the first system call is number 1.
func_syscalls_from_one(nb) == Handlers[IF nb = 0 THEN 1 ELSE nb]

func_syscalls(nb) == Handlers[nb + 1]

\* A slip: the first task is taken to be entry 0.
CallerSlotUnreserved(t) == SelectorToIndex(slots[t].tss_selector)

\* The bases syscall_handler may find for a task: the entry 2t of the table,
\* or whatever is behind it.  The kernel calls its functions directly.
CallerSlot(t) == SelectorToIndex(slots[t].tss_selector) - GDT_RESERVED_ENTRIES
CallerBases(t) ==
  IF t = Kernel THEN {0}
  ELSE IF CallerSlot(t) \in Tasks THEN {Base(slots[CallerSlot(t)].data)}
  ELSE Behind

\* The base the processor adds to the addresses of the running code.
OwnBase(t) == IF t = Kernel THEN Base(gdt_table[2]) ELSE Base(slots[t].data)

\* What the handler takes is what the wrapper passes.
Same(passed, taken) == <<passed, taken>> \in {<<"itself", "as is">>, <<"address", "dereferenced">>}
Matched(passed, taken) ==
  Len(passed) = Len(taken) /\ \A k \in 1 .. Len(passed) : Same(passed[k], taken[k])

\* The arguments the program gave are those the kernel's function gets.
Arrives(w, h, base, t) == base = OwnBase(t) /\ Matched(w.args, h.args)

\* The kernel's result, if there is one, is in the variable of the wrapper.
Returned(w, h, base, t) == base = OwnBase(t) /\ h.ret = w.ret

\* The result is stored over what lies next to its variable: an int has four
\* bytes and a bool has one.
Spills(w, h) == h.type = "int" /\ w.type = "bool"

Returns(f, base, t) ==
  LET w == Library[f]
      h == func_syscalls(w.nb)
  IN  call' = IF t = Kernel THEN NoCall ELSE
              [task |-> t, asked |-> f, did |-> h.function,
               arrived |-> Arrives(w, h, base, t), returned |-> Returned(w, h, base, t),
               spilled |-> Spills(w, h)]

-----------------------------------------------------------------------------
(* kernel_main and the calls with an effect on tasks and descriptors *)

boot ==
  /\ kernel_main
  /\ gdt_table' = gdt_init /\ slots' = task_setup
  /\ call' = NoCall
  /\ UNCHANGED <<task_table, asked>>

\* A name behind a wrong base is any string.
Named(f, base) == IF base = OwnBase(tr) THEN {f} ELSE Files \cup {NoProgram}

\* A program that does not exist, or no free task.  The kernel calls exec
\* itself, programs through the library.
exec_fails(f) ==
  /\ \E base \in CallerBases(tr) :
       /\ \E g \in Named(f, base) : exec_no_file(g) \/ exec_no_task(g)
       /\ Returns("exec", base, tr)
  /\ UNCHANGED <<kernel_tables, asked>>

exec_starts(f) ==
  /\ \E base \in CallerBases(tr) : \E g \in Named(f, base) : exec(g)
  /\ asked' = [t \in Tasks |-> IF t = tr THEN f ELSE asked[t]]
  /\ call' = NoCall
  /\ UNCHANGED kernel_tables

\* The program ends, and the exec() of its caller returns.
program_ends ==
  /\ iret
  /\ \E base \in CallerBases(link[tr]) : Returns("exec", base, link[tr])
  /\ asked' = [t \in Tasks |-> IF t = link[tr] THEN NoProgram ELSE asked[t]]
  /\ UNCHANGED kernel_tables

lib_file_open ==
  /\ syscall_file_open
  /\ \E base \in CallerBases(tr) : Returns("file_open", base, tr)
  /\ UNCHANGED <<kernel_tables, asked>>

\* What file_close gets for a descriptor: the address of the wrapper's
\* parameter, on the stack of the program, plus the base.  With the right
\* base it is no descriptor: nothing is closed, and the wrapper's misfit (see
\* Misfits) has the kernel store a 0 somewhere else.
ClosedBy(fd, base) == IF base = OwnBase(tr) THEN {Nobody} ELSE Fds

lib_file_close(fd) ==
  /\ machine = "up" /\ tr # Kernel /\ fd \in fds
  /\ \E base \in CallerBases(tr) :
       /\ \E c \in ClosedBy(fd, base) :
            IF c \in Fds THEN syscall_file_close(c) ELSE UNCHANGED vars
       /\ Returns("file_close", base, tr)
  /\ UNCHANGED <<kernel_tables, asked>>

lib_exit ==
  /\ syscall_exit /\ call' = NoCall
  /\ UNCHANGED <<kernel_tables, asked>>

\* The others: whatever they do, it is nothing the tasks depend on.  Bound:
\* one at a time, a second one in a row would add nothing.
Others == DOMAIN Library \ {"exec", "file_close", "exit"}

lib_call(f) ==
  /\ machine = "up" /\ tr # Kernel
  /\ call.asked \notin Others
  /\ f = "file_open" => FreeFds = {}
  /\ \E base \in CallerBases(tr) : Returns(f, base, tr)
  /\ UNCHANGED <<vars, kernel_tables, asked>>

PNext ==
  \/ boot
  \/ \E f \in Files \cup {Shell, NoProgram} : exec_fails(f) \/ exec_starts(f)
  \/ program_ends
  \/ lib_file_open \/ \E fd \in Fds : lib_file_close(fd)
  \/ lib_exit
  \/ \E f \in Others : lib_call(f)

PSpec == PInit /\ [][PNext]_pvars

-----------------------------------------------------------------------------
(* Properties *)

\* The tasks whose calls the kernel can tell the base of.
Located == {t \in Tasks : 2 * t \in Tasks}

\* A far call with the selector of a slot makes the processor find the
\* task-state segment of that slot and its descriptor table, wherever the
\* table is in memory.
Finds(selector, type, address, size) ==
  LET e == gdt_table[SelectorToIndex(selector)]
  IN  e.type = type /\ Base(e) = address /\ Limit(e) = size - 1

FarCallFindsTask ==
  machine # "boot" => \A t \in Tasks :
    /\ Finds(slots[t].tss_selector, "tss", SlotAddress(t), TSS_SIZE)
    /\ Finds(slots[t].ldt_selector, "ldt", LdtAddress(t), LDT_SIZE)

\* Every program that runs or waits is the one its caller asked for, and
\* whoever waits for nobody has asked for nothing.
ExecStartsWhatWasAsked ==
  /\ \A t \in busy : link[t] \in Located => program[t] = asked[link[t]]
  /\ \A t \in Tasks : t \notin busy \/ t = tr => asked[t] = NoProgram

\* The functions whose arguments the handler takes for something else, or
\* leaves out, and those whose handler stores no result.
Misfits == {"file_read", "file_close", "file_seek", "printf", "srand", "sleep",
            "strlen", "strcmp", "read_string"}
NoResult == {"srand", "rand"}

\* Wrappers and handlers are written by hand in two files that only a number
\* joins.  Whatever has run in between, a call reaches the function of the
\* kernel that it is named for; its arguments arrive, and its result comes
\* back, but for the functions above and for no more; and only file_has_next()
\* has its result stored over something else.
CallsArrive ==
  call.task \in Located =>
    /\ call.did = call.asked
    /\ call.arrived <=> call.asked \notin Misfits
    /\ call.returned <=> call.asked \notin NoResult
    /\ call.spilled <=> call.asked = "file_has_next"

\* user/app.ld:6: "entry point: must be located at 0": a task starts at
\* address 0 of the program that was loaded for it.
EntersProgram ==
  machine = "up" /\ tr # Kernel => Base(slots[tr].code) + slots[tr].eip = SpaceAddress(tr)
=============================================================================
