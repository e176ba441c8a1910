------------------------------- MODULE Tasks --------------------------------
(***************************************************************************)
(* Programs: exec() of kernel/task/task.c, the task-state segments of the  *)
(* processor it switches with, and the system calls a program can make.    *)
(*                                                                         *)
(* A program is an arbitrary user of the system calls.  It is started by a *)
(* far call to the descriptor of a task-state segment: the processor marks *)
(* it busy and links it to the caller's; the program's final iret follows  *)
(* the link back.  There is one processor and no preemption.               *)
(*                                                                         *)
(* The module says which program an address space holds, not what the      *)
(* processor fetches: task_setup takes the first byte of the address space *)
(* for its base, which makes it 0 for all tasks.                           *)
(***************************************************************************)
EXTENDS Integers, Sequences, FiniteSets, FiniteSetsExt

CONSTANTS MAX_TASK_COUNT,            \* 10
          FILE_DESCRIPTOR_TAB_SIZE,  \* 50
          Files,                     \* programs on the disk
          Shell,                     \* the one kernel_main starts
          NoProgram                  \* what an address space holds at first

Tasks == 0 .. MAX_TASK_COUNT - 1
Fds == 0 .. FILE_DESCRIPTOR_TAB_SIZE - 1
Kernel == -1  \* the initial task, gdt[3]

ASSUME TasksAssumption ==
  /\ MAX_TASK_COUNT \in Nat \ {0}
  /\ FILE_DESCRIPTOR_TAB_SIZE \in Nat \ {0}
  /\ NoProgram \notin Files

VARIABLES
  machine,      \* "boot", "up" or "halted"
  status,       \* task_table[].status
  space,        \* task_table[].task_addr_space: the program it holds
  fds,          \* descriptors in use
  tr, link, busy, \* the processor: task register, links and busy bits
  program,      \* history: what each task was started for
  blind,        \* history: tasks started without a descriptor
  leaked        \* history: descriptors exec() has not closed

table == <<status, space>>
cpu == <<tr, link, busy>>
vars == <<machine, table, fds, cpu, program, blind, leaked>>

\* task_setup
Init ==
  /\ machine = "boot"
  /\ status = [t \in Tasks |-> 0]
  /\ space = [t \in Tasks |-> NoProgram]
  /\ fds = {}
  /\ tr = Kernel /\ link = [t \in Tasks |-> Kernel] /\ busy = {}
  /\ program = [t \in Tasks |-> NoProgram] /\ blind = {} /\ leaked = {}

\* kernel_main opens splash.txt, if there is one, and never closes it.
kernel_main ==
  /\ machine = "boot"
  /\ machine' = "up"
  /\ fds' \in {fds, fds \cup {0}}
  /\ UNCHANGED <<table, cpu, program, blind, leaked>>

\* Who can call exec: kernel_main for the shell, then any running program.
Runs(f) == machine = "up" /\ (tr = Kernel => f = Shell)

FreeTasks == {t \in Tasks : status[t] = 0}

\* A slip: one descriptor more than the table has.
FreeFdsPastEnd == (0 .. FILE_DESCRIPTOR_TAB_SIZE) \ fds

FreeFds == Fds \ fds

\* When exec() fails in kernel_main, the machine comes to its final loop.
BackInKernel == machine' = IF tr = Kernel THEN "halted" ELSE machine

exec_no_file(f) ==
  /\ Runs(f) /\ f \notin Files
  /\ BackInKernel
  /\ UNCHANGED <<table, fds, cpu, program, blind, leaked>>

\* The file is opened before the task table is searched.
exec_no_task(f) ==
  /\ Runs(f) /\ f \in Files
  /\ FreeTasks = {}
  /\ LET opened == IF FreeFds = {} THEN {} ELSE {Min(FreeFds)}
     IN  fds' = fds \cup opened /\ leaked' = leaked \cup opened
  /\ BackInKernel
  /\ UNCHANGED <<table, cpu, program, blind>>

\* A slip: jmp far, which leaves the old task for good.
task_jump(t) ==
  /\ tr' = t
  /\ busy' = (busy \ {tr}) \cup {t}
  /\ UNCHANGED link

\* call far: the processor links the new task to the old one.  A busy task
\* would raise a general protection exception; none is ever called.
task_switch(t) ==
  /\ tr' = t
  /\ link' = [link EXCEPT ![t] = tr]
  /\ busy' = busy \cup {t}

\* A slip: the first address space is loaded, whatever the slot.
load_first(t, f) ==
  IF FreeFds # {}
  THEN space' = [space EXCEPT ![0] = f] /\ UNCHANGED blind
  ELSE blind' = blind \cup {t} /\ UNCHANGED space

\* file_read through the descriptor of the file.  Without a free descriptor
\* file_read(-1, ..) goes by the memory before the table: what it loads, if
\* anything, is no program.
load(t, f) ==
  IF FreeFds # {}
  THEN space' = [space EXCEPT ![t] = f] /\ UNCHANGED blind
  ELSE blind' = blind \cup {t} /\ UNCHANGED space

Start(f) ==
  LET t == Min(FreeTasks)
  IN  /\ load(t, f)
      /\ program' = [program EXCEPT ![t] = f]
      /\ task_switch(t)

\* A slip: the slot is not marked as used.
exec_unmarked(f) ==
  /\ Runs(f) /\ f \in Files /\ FreeTasks # {}
  /\ Start(f)
  /\ UNCHANGED <<machine, status, fds, leaked>>

\* A slip: the descriptor is not closed.
exec_unclosed(f) ==
  /\ Runs(f) /\ f \in Files /\ FreeTasks # {} /\ FreeFds # {}
  /\ status' = [status EXCEPT ![Min(FreeTasks)] = 1]
  /\ Start(f)
  /\ fds' = fds \cup {Min(FreeFds)} /\ leaked' = leaked \cup {Min(FreeFds)}
  /\ UNCHANGED machine

\* The descriptor is closed again before the switch.
exec(f) ==
  /\ Runs(f) /\ f \in Files /\ FreeTasks # {}
  /\ status' = [status EXCEPT ![Min(FreeTasks)] = 1]
  /\ Start(f)
  /\ UNCHANGED <<machine, fds, leaked>>

\* The iret of the entry point: back to the caller, in the middle of its
\* exec().  The status of the slot stays.  kernel_main ends when the shell
\* has returned.
iret ==
  /\ machine = "up" /\ tr # Kernel
  /\ tr' = link[tr]
  /\ busy' = busy \ {tr}
  /\ machine' = IF link[tr] = Kernel THEN "halted" ELSE machine
  /\ UNCHANGED <<table, fds, link, program, blind, leaked>>

-----------------------------------------------------------------------------
(* The other system calls that matter here *)

syscall_file_open ==
  /\ machine = "up" /\ tr # Kernel /\ FreeFds # {}
  /\ fds' = fds \cup {Min(FreeFds)}
  /\ UNCHANGED <<machine, table, cpu, program, blind, leaked>>

\* Any descriptor, not only the caller's.
syscall_file_close(fd) ==
  /\ machine = "up" /\ tr # Kernel
  /\ fds' = fds \ {fd} /\ leaked' = leaked \ {fd}
  /\ UNCHANGED <<machine, table, cpu, program, blind>>

\* exit(), or an exception: interrupts off and hlt, for good.
syscall_exit ==
  /\ machine = "up" /\ tr # Kernel
  /\ machine' = "halted"
  /\ UNCHANGED <<table, fds, cpu, program, blind, leaked>>

Next ==
  \/ kernel_main
  \/ \E f \in Files \cup {Shell, NoProgram} : exec_no_file(f) \/ exec_no_task(f) \/ exec(f)
  \/ iret
  \/ syscall_file_open
  \/ \E fd \in Fds : syscall_file_close(fd)
  \/ syscall_exit

Spec == Init /\ [][Next]_vars

-----------------------------------------------------------------------------
(* Properties *)

\* The table, the descriptors and the processor's registers have their types.
TypeOK ==
  /\ machine \in {"boot", "up", "halted"}
  /\ status \in [Tasks -> {0, 1}] /\ space \in [Tasks -> Files \cup {NoProgram}]
  /\ fds \in SUBSET Fds /\ leaked \in SUBSET fds
  /\ tr \in Tasks \cup {Kernel} /\ link \in [Tasks -> Tasks \cup {Kernel}]
  /\ busy \in SUBSET Tasks
  /\ program \in [Tasks -> Files \cup {NoProgram}] /\ blind \in SUBSET Tasks

\* The links of the processor form one chain from the running task down to
\* the kernel: every task on it is marked used, and each but the running one
\* has been left for exactly one other, started after it.
Nest ==
  /\ tr \in busy \cup {Kernel}
  /\ \A t \in busy : status[t] = 1 /\ link[t] < t /\ link[t] \in busy \cup {Kernel}
  /\ \A t, u \in busy : link[t] = link[u] => t = u
  /\ \A t \in busy : link[t] # tr
  /\ \A t \in Tasks : status[t] = 0 => \A u \in Tasks : status[u] = 1 => u < t

\* exec() never loads a program over one that is running or waits for the
\* return of another.
NoOverwrite == [][\A t \in busy : space'[t] = space[t]]_vars

\* The address space of a task that has not returned holds the program its
\* caller asked for, unless exec() found no free descriptor to read it with.
HoldsWhatWasAsked == \A t \in busy \ blind : space[t] = program[t]

\* exec() gives its descriptor back as long as a task is free.
LeaksOnlyWhenFull == FreeTasks # {} => leaked = {}

\* Programs call and return like functions, whatever their number.  The
\* programs that have not returned, in the order they were started, are the
\* busy tasks in the order of their slots.
Upto(S, t) == Cardinality({u \in S : u <= t})
Sorted(S) == [i \in 1 .. Cardinality(S) |-> CHOOSE t \in S : Upto(S, t) = i]

Calls == INSTANCE CallStack WITH
  Callees <- Tasks, Nobody <- Kernel, running <- tr, stack <- Sorted(busy)

ImplementsCallStack == Calls!Spec
=============================================================================
