---------------------------- MODULE TasksProofs -----------------------------
(***************************************************************************)
(* Theorems about the programs of Tasks.tla, for any number of task slots, *)
(* descriptors and programs.                                               *)
(***************************************************************************)
EXTENDS Tasks, ModuloLemmas, TLAPS, FiniteSetTheorems

\* The slot exec() picks is free, and no free one comes before it.
LEMMA FirstFreeTask ==
  ASSUME FreeTasks # {}
  PROVE  /\ Min(FreeTasks) \in Tasks /\ status[Min(FreeTasks)] = 0
         /\ \A t \in Tasks : status[t] = 0 => Min(FreeTasks) <= t
<1>1. FreeTasks \in SUBSET Nat BY TasksAssumption DEF FreeTasks, Tasks
<1> QED BY <1>1, MinIsLeast DEF FreeTasks

\* The descriptor file_open returns is one of the table.
LEMMA FirstFreeFd == ASSUME FreeFds # {} PROVE Min(FreeFds) \in Fds
<1>1. FreeFds \in SUBSET Nat BY TasksAssumption DEF FreeFds, Fds
<1> QED BY <1>1, MinIsLeast DEF FreeFds

-----------------------------------------------------------------------------
(* Types *)

\* Starting a task keeps the types of everything it changes.
LEMMA StartType ==
  ASSUME TypeOK, NEW f \in Files, FreeTasks # {}, Start(f)
  PROVE  /\ space' \in [Tasks -> Files \cup {NoProgram}] /\ blind' \in SUBSET Tasks
         /\ tr' \in Tasks /\ link' \in [Tasks -> Tasks \cup {Kernel}]
         /\ busy' \in SUBSET Tasks
         /\ program' \in [Tasks -> Files \cup {NoProgram}]
BY FirstFreeTask DEF TypeOK, Start, load, task_switch

\* The task table, the descriptors and the registers keep their types.
THEOREM TypeCorrect == Spec => []TypeOK
<1>1. Init => TypeOK
  BY DEF Init, TypeOK
<1>2. TypeOK /\ [Next]_vars => TypeOK'
  <2> SUFFICES ASSUME TypeOK, [Next]_vars PROVE TypeOK' OBVIOUS
  <2> USE DEF table, cpu
  <2>1. CASE kernel_main
    <3>1. 0 \in Fds BY TasksAssumption DEF Fds
    <3> QED BY <2>1, <3>1 DEF kernel_main, TypeOK
  <2>2. ASSUME NEW f \in Files \cup {Shell, NoProgram}, exec_no_file(f) PROVE TypeOK'
    BY <2>2 DEF exec_no_file, BackInKernel, TypeOK
  <2>3. ASSUME NEW f \in Files \cup {Shell, NoProgram}, exec_no_task(f) PROVE TypeOK'
    <3> DEFINE opened == IF FreeFds = {} THEN {} ELSE {Min(FreeFds)}
    <3>1. opened \in SUBSET Fds BY FirstFreeFd
    <3>2. fds' = fds \cup opened /\ leaked' = leaked \cup opened BY <2>3 DEF exec_no_task
    <3> HIDE DEF opened
    <3> QED BY <2>3, <3>1, <3>2 DEF exec_no_task, BackInKernel, TypeOK
  <2>4. ASSUME NEW f \in Files \cup {Shell, NoProgram}, exec(f) PROVE TypeOK'
    <3>1. f \in Files /\ FreeTasks # {} BY <2>4 DEF exec
    <3>2. status' \in [Tasks -> {0, 1}] BY <2>4 DEF exec, TypeOK
    <3> QED BY <2>4, <3>1, <3>2, StartType DEF exec, TypeOK
  <2>5. CASE iret
    BY <2>5 DEF iret, TypeOK
  <2>6. CASE syscall_file_open
    BY <2>6, FirstFreeFd DEF syscall_file_open, TypeOK
  <2>7. ASSUME NEW fd \in Fds, syscall_file_close(fd) PROVE TypeOK'
    BY <2>7 DEF syscall_file_close, TypeOK
  <2>8. CASE syscall_exit
    BY <2>8 DEF syscall_exit, TypeOK
  <2>9. CASE UNCHANGED vars
    BY <2>9 DEF vars, TypeOK
  <2> QED BY <2>1, <2>2, <2>3, <2>4, <2>5, <2>6, <2>7, <2>8, <2>9 DEF Next
<1> QED BY <1>1, <1>2, PTL DEF Spec

-----------------------------------------------------------------------------
(* Nesting *)

\* What makes Nest inductive: tasks are started in the order of their slots,
\* so the running one is the latest and each was started from the one before.
InOrder ==
  /\ \A t \in busy : t <= tr
  /\ \A t, u \in busy : u < t => u <= link[t]

NestInv == TypeOK /\ Nest /\ InOrder

\* A step that leaves the table and the processor alone.
LEMMA NestUntouched ==
  ASSUME NestInv, TypeOK', UNCHANGED <<status, cpu>>
  PROVE  NestInv'
BY DEF NestInv, Nest, InOrder, cpu

\* A started task is linked to the one that was running, and comes after all.
LEMMA ExecKeepsNest ==
  ASSUME NestInv, TypeOK', NEW f \in Files \cup {Shell, NoProgram}, exec(f)
  PROVE  NestInv'
<1> DEFINE n == Min(FreeTasks)
<1>1. FreeTasks # {} BY DEF exec
<1>2. /\ n \in Tasks /\ status[n] = 0
      /\ \A t \in Tasks : status[t] = 0 => n <= t
  BY <1>1, FirstFreeTask
<1>3. /\ status' = [status EXCEPT ![n] = 1]
      /\ tr' = n /\ link' = [link EXCEPT ![n] = tr] /\ busy' = busy \cup {n}
  BY DEF exec, Start, task_switch
<1> HIDE DEF n
<1>4. /\ status \in [Tasks -> {0, 1}] /\ link \in [Tasks -> Tasks \cup {Kernel}]
      /\ busy \subseteq Tasks /\ tr \in busy \cup {Kernel}
  BY DEF NestInv, TypeOK, Nest
<1>5. \A t \in Tasks : t \in Nat BY TasksAssumption DEF Tasks
<1>6. ASSUME NEW t \in busy PROVE status[t] = 1 /\ t < n /\ t # n /\ link[t] # n
  <2>1. status[t] = 1 /\ t \in Tasks BY <1>4 DEF NestInv, Nest
  <2>2. t < n BY <2>1, <1>2 DEF NestInv, Nest
  <2>3. t \in Nat /\ n \in Nat BY <2>1, <1>2, <1>5
  <2>4. link[t] < t /\ link[t] \in Int
    BY <1>4, <1>5 DEF NestInv, Nest, Kernel
  <2> QED BY <2>1, <2>2, <2>3, <2>4
<1>7. tr < n /\ n # Kernel /\ tr # n
  BY <1>2, <1>4, <1>5, <1>6 DEF Kernel
<1>8. /\ link'[n] = tr /\ status'[n] = 1
      /\ \A t \in busy : link'[t] = link[t] /\ status'[t] = status[t]
  BY <1>2, <1>3, <1>4, <1>6
<1>9. Nest'
  <2>1. \A t \in busy' : status'[t] = 1 /\ link'[t] < t /\ link'[t] \in busy' \cup {Kernel}
    BY <1>3, <1>4, <1>6, <1>7, <1>8 DEF NestInv, Nest
  <2>2. \A t, u \in busy' : link'[t] = link'[u] => t = u
    BY <1>3, <1>8 DEF NestInv, Nest
  <2>3. \A t \in busy' : link'[t] # tr'
    BY <1>3, <1>6, <1>7, <1>8
  <2>4. ASSUME NEW t \in Tasks, status'[t] = 0, NEW u \in Tasks, status'[u] = 1
        PROVE  u < t
    <3>1. t # n /\ status[t] = 0 BY <2>4, <1>2, <1>3, <1>4
    <3>2. CASE u = n BY <3>1, <3>2, <1>2, <1>5
    <3>3. CASE u # n BY <3>1, <3>3, <2>4, <1>3, <1>4 DEF NestInv, Nest
    <3> QED BY <3>2, <3>3
  <2> QED BY <1>3, <2>1, <2>2, <2>3, <2>4 DEF Nest
<1>10. InOrder'
  <2>1. \A t \in busy' : t <= tr' BY <1>2, <1>3, <1>4, <1>5, <1>6
  <2>2. ASSUME NEW t \in busy', NEW u \in busy', u < t PROVE u <= link'[t]
    <3>1. CASE t = n BY <3>1, <2>2, <1>2, <1>3, <1>5, <1>8 DEF NestInv, InOrder
    <3>2. CASE t # n
      <4>1. t \in busy /\ u \in busy BY <3>2, <2>2, <1>2, <1>3, <1>4, <1>5, <1>6
      <4> QED BY <4>1, <2>2, <1>8 DEF NestInv, InOrder
    <3> QED BY <3>1, <3>2
  <2> QED BY <2>1, <2>2 DEF InOrder
<1> QED BY <1>9, <1>10 DEF NestInv

\* A return takes the latest task off the chain.
LEMMA IretKeepsNest ==
  ASSUME NestInv, TypeOK', iret
  PROVE  NestInv'
<1>1. /\ tr' = link[tr] /\ busy' = busy \ {tr} /\ link' = link /\ status' = status
  BY DEF iret, table
<1>2. tr \in busy /\ busy \subseteq Tasks BY DEF iret, NestInv, Nest, TypeOK
<1>3. \A t \in Tasks : t \in Nat BY TasksAssumption DEF Tasks
<1>4. Nest'
  <2>1. link[tr] \in busy' \cup {Kernel}
    BY <1>1, <1>2, <1>3 DEF NestInv, Nest
  <2>2. \A t \in busy' : status'[t] = 1 /\ link'[t] < t /\ link'[t] \in busy' \cup {Kernel}
    BY <1>1 DEF NestInv, Nest
  <2>3. \A t, u \in busy' : link'[t] = link'[u] => t = u
    BY <1>1 DEF NestInv, Nest
  <2>4. \A t \in busy' : link'[t] # tr'
    BY <1>1, <1>2 DEF NestInv, Nest
  <2>5. \A t \in Tasks : status'[t] = 0 => \A u \in Tasks : status'[u] = 1 => u < t
    BY <1>1 DEF NestInv, Nest
  <2> QED BY <1>1, <2>1, <2>2, <2>3, <2>4, <2>5 DEF Nest
<1>5. InOrder'
  <2>1. ASSUME NEW t \in busy' PROVE t <= tr'
    <3>1. t \in busy /\ t < tr BY <1>1, <1>2, <1>3 DEF NestInv, InOrder
    <3> QED BY <3>1, <1>1, <1>2 DEF NestInv, InOrder
  <2> QED BY <2>1, <1>1 DEF NestInv, InOrder
<1> QED BY <1>4, <1>5 DEF NestInv

\* The invariant of the chain of links, as a theorem of the specification.
LEMMA NestInvariant == Spec => []NestInv
<1>1. Init => NestInv
  <2> SUFFICES ASSUME Init PROVE NestInv OBVIOUS
  <2>1. TypeOK BY DEF Init, TypeOK
  <2>2. Nest BY DEF Init, Nest
  <2>3. InOrder BY DEF Init, InOrder
  <2> QED BY <2>1, <2>2, <2>3 DEF NestInv
<1>2. NestInv /\ TypeOK' /\ [Next]_vars => NestInv'
  <2> SUFFICES ASSUME NestInv, TypeOK', [Next]_vars PROVE NestInv' OBVIOUS
  <2>1. CASE \E f \in Files \cup {Shell, NoProgram} : exec(f)
    BY <2>1, ExecKeepsNest
  <2>2. CASE iret
    BY <2>2, IretKeepsNest
  <2>3. CASE \E f \in Files \cup {Shell, NoProgram} : exec_no_file(f) \/ exec_no_task(f)
    BY <2>3, NestUntouched DEF exec_no_file, exec_no_task, table
  <2>4. CASE kernel_main \/ syscall_file_open \/ syscall_exit
    BY <2>4, NestUntouched DEF kernel_main, syscall_file_open, syscall_exit, table
  <2>5. CASE \E fd \in Fds : syscall_file_close(fd)
    BY <2>5, NestUntouched DEF syscall_file_close, table
  <2>6. CASE UNCHANGED vars
    BY <2>6, NestUntouched DEF vars, table
  <2> QED BY <2>1, <2>2, <2>3, <2>4, <2>5, <2>6 DEF Next
<1> QED BY <1>1, <1>2, TypeCorrect, PTL DEF Spec

\* The links of the processor always form one chain down to the kernel.
THEOREM NestCorrect == Spec => []Nest
<1>1. NestInv => Nest BY DEF NestInv
<1> QED BY <1>1, NestInvariant, PTL

-----------------------------------------------------------------------------
(* What the slots hold *)

\* Only exec() loads a program, into a slot nobody runs in.
LEMMA LoadedElsewhere ==
  ASSUME NestInv, [Next]_vars, NEW t \in busy
  PROVE  space'[t] = space[t]
<1> USE DEF table
<1>1. CASE \E f \in Files \cup {Shell, NoProgram} : exec(f)
  <2>1. FreeTasks # {} /\ status[t] = 1 BY <1>1 DEF exec, NestInv, Nest
  <2>2. t # Min(FreeTasks) BY <2>1, FirstFreeTask
  <2> QED BY <1>1, <2>2 DEF exec, Start, load, NestInv, TypeOK
<1>2. CASE \E f \in Files \cup {Shell, NoProgram} : exec_no_file(f) \/ exec_no_task(f)
  BY <1>2 DEF exec_no_file, exec_no_task
<1>3. CASE kernel_main \/ iret \/ syscall_file_open \/ syscall_exit \/ UNCHANGED vars
  BY <1>3 DEF kernel_main, iret, syscall_file_open, syscall_exit, vars
<1>4. CASE \E fd \in Fds : syscall_file_close(fd)
  BY <1>4 DEF syscall_file_close
<1> QED BY <1>1, <1>2, <1>3, <1>4 DEF Next

\* No step loads a program over one that runs or waits for a return.
THEOREM NeverOverwritten == Spec => NoOverwrite
<1>1. NestInv /\ [Next]_vars => [\A t \in busy : space'[t] = space[t]]_vars
  BY LoadedElsewhere
<1> QED BY <1>1, NestInvariant, PTL DEF Spec, NoOverwrite

\* The slot of every task that has not returned holds what was asked for.
THEOREM HoldsProgram == Spec => []HoldsWhatWasAsked
<1>1. Init => HoldsWhatWasAsked
  BY DEF Init, HoldsWhatWasAsked
<1>2. HoldsWhatWasAsked /\ NestInv /\ [Next]_vars => HoldsWhatWasAsked'
  <2> SUFFICES ASSUME HoldsWhatWasAsked, NestInv, [Next]_vars PROVE HoldsWhatWasAsked' OBVIOUS
  <2> USE DEF HoldsWhatWasAsked, table, cpu
  <2>1. ASSUME NEW f \in Files \cup {Shell, NoProgram}, exec(f) PROVE HoldsWhatWasAsked'
    <3> DEFINE n == Min(FreeTasks)
    <3>1. FreeTasks # {} BY <2>1 DEF exec
    <3>2. n \in Tasks /\ status[n] = 0 BY <3>1, FirstFreeTask
    <3>3. n \notin busy BY <3>2 DEF NestInv, Nest
    <3>4. /\ busy' = busy \cup {n} /\ program' = [program EXCEPT ![n] = f] /\ load(n, f)
      BY <2>1 DEF exec, Start, task_switch
    <3> HIDE DEF n
    <3>5. /\ space \in [Tasks -> Files \cup {NoProgram}]
          /\ program \in [Tasks -> Files \cup {NoProgram}] /\ busy \subseteq Tasks
      BY DEF NestInv, TypeOK
    <3>6. \A t \in busy : space'[t] = space[t] /\ program'[t] = program[t]
      BY <3>2, <3>3, <3>4, <3>5 DEF load
    <3>7. n \notin blind' => space'[n] = program'[n]
      BY <3>2, <3>4, <3>5 DEF load
    <3>8. blind \subseteq blind' BY <3>4 DEF load
    <3> QED BY <3>4, <3>6, <3>7, <3>8
  <2>2. CASE \E f \in Files \cup {Shell, NoProgram} : exec_no_file(f) \/ exec_no_task(f)
    BY <2>2 DEF exec_no_file, exec_no_task
  <2>3. CASE kernel_main \/ syscall_file_open \/ syscall_exit \/ UNCHANGED vars
    BY <2>3 DEF kernel_main, syscall_file_open, syscall_exit, vars
  <2>4. CASE iret
    BY <2>4 DEF iret
  <2>5. CASE \E fd \in Fds : syscall_file_close(fd)
    BY <2>5 DEF syscall_file_close
  <2> QED BY <2>1, <2>2, <2>3, <2>4, <2>5 DEF Next
<1> QED BY <1>1, <1>2, NestInvariant, PTL DEF Spec

\* As long as a slot is free, exec() has closed every file it opened.
THEOREM LeaksLate == Spec => []LeaksOnlyWhenFull
<1>1. Init => LeaksOnlyWhenFull
  BY DEF Init, LeaksOnlyWhenFull
<1>2. LeaksOnlyWhenFull /\ TypeOK /\ [Next]_vars => LeaksOnlyWhenFull'
  <2> SUFFICES ASSUME LeaksOnlyWhenFull, TypeOK, [Next]_vars PROVE LeaksOnlyWhenFull' OBVIOUS
  <2> USE DEF LeaksOnlyWhenFull, FreeTasks, table
  <2>1. ASSUME NEW f \in Files \cup {Shell, NoProgram}, exec(f) PROVE LeaksOnlyWhenFull'
    BY <2>1 DEF exec
  <2>2. CASE \E f \in Files \cup {Shell, NoProgram} : exec_no_file(f) \/ exec_no_task(f)
    BY <2>2 DEF exec_no_file, exec_no_task
  <2>3. CASE kernel_main \/ iret \/ syscall_file_open \/ syscall_exit \/ UNCHANGED vars
    BY <2>3 DEF kernel_main, iret, syscall_file_open, syscall_exit, vars
  <2>4. CASE \E fd \in Fds : syscall_file_close(fd)
    BY <2>4 DEF syscall_file_close
  <2> QED BY <2>1, <2>2, <2>3, <2>4 DEF Next
<1> QED BY <1>1, <1>2, TypeCorrect, PTL DEF Spec

-----------------------------------------------------------------------------
(* A set of numbers in increasing order *)

\* The elements up to one of them number between one and all of them.
LEMMA UptoRange ==
  ASSUME NEW S \in SUBSET Nat, IsFiniteSet(S), NEW t \in S
  PROVE  /\ Upto(S, t) \in 1 .. Cardinality(S)
         /\ IsFiniteSet({u \in S : u <= t})
<1> DEFINE U == {u \in S : u <= t}
<1>1. U \in SUBSET S /\ t \in U OBVIOUS
<1>2. IsFiniteSet(U) /\ Cardinality(U) <= Cardinality(S) BY <1>1, FS_Subset
<1>3. Cardinality(U) \in Nat /\ Cardinality(S) \in Nat BY <1>2, FS_CardinalityType
<1>4. Cardinality(U) # 0 BY <1>1, <1>2, FS_EmptySet
<1> QED BY <1>2, <1>3, <1>4 DEF Upto

\* There are more elements up to the greater of two.
LEMMA UptoStrict ==
  ASSUME NEW S \in SUBSET Nat, IsFiniteSet(S), NEW t \in S, NEW u \in S, t < u
  PROVE  Upto(S, t) < Upto(S, u)
<1> DEFINE T == {x \in S : x <= t}  U == {x \in S : x <= u}
<1>0. t \in Nat /\ u \in Nat /\ \A x \in S : x \in Nat OBVIOUS
<1>1. T \in SUBSET U /\ u \in U /\ u \notin T
  <2>1. \A x \in S : x <= t => x <= u BY <1>0
  <2>2. u <= u /\ ~(u <= t) BY <1>0
  <2> QED BY <2>1, <2>2
<1>2. IsFiniteSet(U) BY UptoRange
<1>3. Cardinality(T) <= Cardinality(U) /\ Cardinality(T) # Cardinality(U)
  BY <1>1, <1>2, FS_Subset
<1>4. Cardinality(T) \in Nat /\ Cardinality(U) \in Nat
  BY <1>1, <1>2, FS_Subset, FS_CardinalityType
<1> QED BY <1>3, <1>4 DEF Upto

\* Every place in the order is taken by an element.
LEMMA UptoOnto ==
  ASSUME NEW S \in SUBSET Nat, IsFiniteSet(S), NEW i \in 1 .. Cardinality(S)
  PROVE  \E t \in S : Upto(S, t) = i
<1> DEFINE N == 1 .. Cardinality(S)  f == [t \in S |-> Upto(S, t)]
<1>1. Cardinality(S) \in Nat BY FS_CardinalityType
<1>2. IsFiniteSet(N) /\ Cardinality(N) = Cardinality(S) BY <1>1, FS_Interval
<1>3. f \in [S -> N] BY UptoRange
<1>4. \A t, u \in S : t # u => f[t] # f[u]
  <2>1. ASSUME NEW t \in S, NEW u \in S, t < u PROVE f[t] # f[u]
    <3>1. f[t] \in Nat /\ f[u] \in Nat BY <1>1, <1>3
    <3> QED BY <2>1, <3>1, UptoStrict
  <2>2. ASSUME NEW t \in S, NEW u \in S, t # u PROVE t < u \/ u < t BY <2>2
  <2> QED BY <2>1, <2>2
<1>5. f \in Injection(S, N)
  <2> HIDE DEF f
  <2> QED BY <1>3, <1>4 DEF Injection, IsInjective
<1>6. f \in Surjection(S, N) BY <1>2, <1>5, FS_Injection
<1> QED BY <1>6 DEF Surjection

\* Sorted names, at each place, the one element that belongs there.
LEMMA SortedFacts ==
  ASSUME NEW S \in SUBSET Nat, IsFiniteSet(S)
  PROVE  /\ Sorted(S) \in Seq(S) /\ Sorted(S) \in Seq(Nat)
         /\ Len(Sorted(S)) = Cardinality(S)
         /\ \A i \in 1 .. Cardinality(S) : Sorted(S)[i] \in S /\ Upto(S, Sorted(S)[i]) = i
         /\ \A t \in S : Sorted(S)[Upto(S, t)] = t
<1>1. Cardinality(S) \in Nat BY FS_CardinalityType
<1>2. \A i \in 1 .. Cardinality(S) : Sorted(S)[i] \in S /\ Upto(S, Sorted(S)[i]) = i
  BY UptoOnto DEF Sorted
<1>3. /\ Sorted(S) \in [1 .. Cardinality(S) -> S]
      /\ Sorted(S) \in [1 .. Cardinality(S) -> Nat]
  BY <1>2 DEF Sorted
<1>4. /\ Sorted(S) \in Seq(S) /\ Sorted(S) \in Seq(Nat)
      /\ Len(Sorted(S)) = Cardinality(S)
  BY <1>1, <1>3
<1>5. ASSUME NEW t \in S, NEW s \in S, Upto(S, s) = Upto(S, t) PROVE s = t
  <2>1. t \in Nat /\ s \in Nat OBVIOUS
  <2>2. Upto(S, s) \in Nat /\ Upto(S, t) \in Nat
    <3>1. Upto(S, s) \in 1 .. Cardinality(S) /\ Upto(S, t) \in 1 .. Cardinality(S)
      BY UptoRange
    <3> QED BY <3>1, <1>1
  <2>3. ~(s < t) /\ ~(t < s) BY <1>5, <2>2, UptoStrict
  <2> QED BY <2>1, <2>3
<1>6. ASSUME NEW t \in S PROVE Sorted(S)[Upto(S, t)] = t
  BY <1>2, <1>5, UptoRange
<1> QED BY <1>2, <1>4, <1>6

\* A number greater than all others comes last.
LEMMA AddGreatest ==
  ASSUME NEW T \in SUBSET Nat, IsFiniteSet(T), NEW n \in Nat, \A t \in T : t < n
  PROVE  Sorted(T \cup {n}) = Append(Sorted(T), n)
<1> DEFINE S == T \cup {n}  c == Cardinality(T)
<1>1. c \in Nat BY FS_CardinalityType
<1>2. n \notin T
  <2>1. ~(n < n) OBVIOUS
  <2> QED BY <2>1
<1>3. S \in SUBSET Nat /\ IsFiniteSet(S) /\ Cardinality(S) = c + 1
  BY <1>2, FS_AddElement
<1>4. ASSUME NEW t \in T PROVE Upto(S, t) = Upto(T, t)
  <2>1. t \in Nat /\ ~(n <= t) OBVIOUS
  <2>2. {u \in S : u <= t} = {u \in T : u <= t} BY <2>1
  <2> QED BY <2>2 DEF Upto
<1>5. Upto(S, n) = c + 1
  <2>1. \A u \in S : u <= n OBVIOUS
  <2>2. {u \in S : u <= n} = S BY <2>1
  <2> QED BY <2>2, <1>3 DEF Upto
<1> HIDE DEF S, c
<1>6. /\ Sorted(S) \in Seq(S) /\ Len(Sorted(S)) = c + 1
      /\ \A t \in S : Sorted(S)[Upto(S, t)] = t
  BY <1>3, SortedFacts
<1>7. /\ Sorted(T) \in Seq(T) /\ Len(Sorted(T)) = c
      /\ \A i \in 1 .. c : Sorted(T)[i] \in T /\ Upto(T, Sorted(T)[i]) = i
  BY SortedFacts DEF c
<1>8. \A i \in 1 .. c : Sorted(S)[i] = Sorted(T)[i]
  BY <1>4, <1>6, <1>7 DEF S
<1>9. Sorted(S)[c + 1] = n BY <1>5, <1>6 DEF S
<1>10. Sorted(T) \in Seq(S) /\ n \in S BY <1>7 DEF S
<1>11. /\ Append(Sorted(T), n) \in Seq(S) /\ Len(Append(Sorted(T), n)) = c + 1
       /\ Append(Sorted(T), n)[c + 1] = n
       /\ \A i \in 1 .. c : Append(Sorted(T), n)[i] = Sorted(T)[i]
  BY <1>7, <1>10
<1> DEFINE a == Sorted(S)  b == Append(Sorted(T), n)
<1>12. a \in Seq(S) /\ b \in Seq(S) /\ Len(a) = c + 1 /\ Len(b) = c + 1
  BY <1>6, <1>11
<1>13. \A i \in 1 .. c + 1 : a[i] = b[i]
  BY <1>1, <1>8, <1>9, <1>11
<1> HIDE DEF a, b
<1>14. a = b BY <1>12, <1>13
<1> QED BY <1>14 DEF a, b, S

-----------------------------------------------------------------------------
(* The refinement *)

\* The busy tasks are finitely many numbers.
LEMMA BusyFinite == ASSUME TypeOK PROVE busy \in SUBSET Nat /\ IsFiniteSet(busy)
<1>1. MAX_TASK_COUNT \in Nat BY TasksAssumption
<1>2. Tasks \in SUBSET Nat /\ IsFiniteSet(Tasks)
  BY <1>1, FS_Interval DEF Tasks
<1> QED BY <1>2, FS_Subset DEF TypeOK

\* exec() is a call: the task started comes after all that have not returned.
LEMMA ExecIsCall ==
  ASSUME NestInv, NEW f \in Files \cup {Shell, NoProgram}, exec(f)
  PROVE  Calls!Call
<1> DEFINE n == Min(FreeTasks)
<1>1. n \in Tasks /\ status[n] = 0 BY FirstFreeTask DEF exec
<1>2. tr' = n /\ busy' = busy \cup {n} BY DEF exec, Start, task_switch
<1> HIDE DEF n
<1>3. TypeOK BY DEF NestInv
<1>4. busy \in SUBSET Nat /\ IsFiniteSet(busy) BY <1>3, BusyFinite
<1>5. n \in Nat BY <1>1, TasksAssumption DEF Tasks
<1>6. \A t \in busy : t < n BY <1>1, <1>3 DEF NestInv, Nest, TypeOK
<1>7. Sorted(busy') = Append(Sorted(busy), n) BY <1>2, <1>4, <1>5, <1>6, AddGreatest
<1>8. \A i \in 1 .. Len(Sorted(busy)) : Sorted(busy)[i] # n
  <2>1. \A i \in 1 .. Len(Sorted(busy)) : Sorted(busy)[i] \in busy
    BY <1>4, SortedFacts
  <2>2. n \notin busy BY <1>4, <1>5, <1>6
  <2> QED BY <2>1, <2>2
<1> QED BY <1>1, <1>2, <1>7, <1>8 DEF Calls!Call

\* Without its last element a sequence is what it was before.
LEMMA UndoAppend ==
  ASSUME NEW S, NEW s \in Seq(S), NEW e \in S
  PROVE  /\ Len(Append(s, e)) = Len(s) + 1
         /\ SubSeq(Append(s, e), 1, Len(s)) = s
         /\ Len(s) # 0 => Append(s, e)[Len(s)] = s[Len(s)]
<1> DEFINE a == Append(s, e)  b == SubSeq(a, 1, Len(s))
<1>1. /\ a \in Seq(S) /\ Len(a) = Len(s) + 1 /\ Len(s) \in Nat
      /\ \A i \in 1 .. Len(s) : a[i] = s[i]
  OBVIOUS
<1> HIDE DEF a
<1>2. b \in Seq(S) /\ Len(b) = Len(s) /\ \A i \in 1 .. Len(s) : b[i] = a[i]
  BY <1>1
<1> HIDE DEF b
<1>3. \A i \in 1 .. Len(s) : b[i] = s[i] BY <1>1, <1>2
<1>4. b = s BY <1>2, <1>3
<1>5. Len(s) # 0 => a[Len(s)] = s[Len(s)] BY <1>1
<1> QED BY <1>1, <1>4, <1>5 DEF a, b

\* iret is a return: the link leads to the latest of the tasks left.
LEMMA IretIsReturn ==
  ASSUME NestInv, iret
  PROVE  Calls!Return
<1> DEFINE T == busy \ {tr}  n == Cardinality(T)  l == link[tr]
<1>1. tr' = l /\ busy' = T BY DEF iret
<1>2. TypeOK /\ tr \in busy BY DEF NestInv, Nest, iret
<1>3. busy \in SUBSET Nat /\ IsFiniteSet(busy) BY <1>2, BusyFinite
<1>4. T \in SUBSET Nat /\ IsFiniteSet(T) /\ busy = T \cup {tr} /\ tr \in Nat
  <2>1. T \in SUBSET busy OBVIOUS
  <2> QED BY <1>2, <1>3, <2>1, FS_Subset
<1>5. \A t \in T : t < tr BY <1>2, <1>3 DEF NestInv, InOrder
<1>6. \A t \in T : t <= l BY <1>2, <1>5 DEF NestInv, InOrder
<1>7. l \in T \cup {Kernel}
  <2>1. l \in busy \cup {Kernel} /\ l < tr BY <1>2 DEF NestInv, Nest
  <2>2. l # tr BY <2>1, <1>4 DEF Kernel
  <2> QED BY <2>1, <2>2
<1> HIDE DEF T, n, l
<1>8. n \in Nat BY <1>4, FS_CardinalityType DEF n
<1>9. Sorted(busy) = Append(Sorted(T), tr)
  BY <1>4, <1>5, AddGreatest
<1>10. Sorted(T) \in Seq(T) /\ Len(Sorted(T)) = n BY <1>4, SortedFacts DEF n
<1>11. /\ Len(Sorted(busy)) = n + 1
       /\ SubSeq(Sorted(busy), 1, n) = Sorted(T)
       /\ n # 0 => Sorted(busy)[n] = Sorted(T)[n]
  <2> DEFINE s == Sorted(T)
  <2>1. s \in Seq(Nat) BY <1>4, SortedFacts
  <2>2. Len(s) = n /\ Sorted(busy) = Append(s, tr) BY <1>9, <1>10
  <2> HIDE DEF s
  <2>3. /\ Len(Append(s, tr)) = Len(s) + 1
        /\ SubSeq(Append(s, tr), 1, Len(s)) = s
        /\ Len(s) # 0 => Append(s, tr)[Len(s)] = s[Len(s)]
    BY <1>4, <2>1, UndoAppend
  <2>4. /\ Len(Sorted(busy)) = n + 1 /\ SubSeq(Sorted(busy), 1, n) = s
        /\ n # 0 => Sorted(busy)[n] = s[n]
    BY <2>2, <2>3
  <2> QED BY <2>4 DEF s
<1>12. CASE n = 0
  <2>1. T = {} BY <1>4, <1>12, FS_EmptySet DEF n
  <2>2. tr' = Kernel BY <1>1, <1>7, <2>1
  <2> QED BY <1>1, <1>8, <1>11, <1>12, <2>2 DEF Calls!Return
<1>13. CASE n # 0
  <2>1. T # {} BY <1>13, FS_EmptySet DEF n
  <2>2. l \in T
    <3>1. PICK t \in T : TRUE BY <2>1
    <3>2. t \in Nat /\ t <= l BY <1>4, <1>6, <3>1
    <3>3. l # Kernel BY <3>2 DEF Kernel
    <3> QED BY <1>7, <3>3
  <2>3. {t \in T : t <= l} = T BY <1>6
  <2>4. Upto(T, l) = n BY <2>3 DEF Upto, n
  <2>5. Sorted(T)[n] = l BY <1>4, <2>2, <2>4, SortedFacts
  <2> QED BY <1>1, <1>8, <1>11, <1>13, <2>5 DEF Calls!Return
<1> QED BY <1>12, <1>13

\* Programs call and return like functions.
THEOREM Refinement == Spec => ImplementsCallStack
<1>1. Init => Calls!Init
  <2>1. Cardinality({}) = 0 BY FS_EmptySet
  <2>2. Sorted({}) = << >> BY <2>1 DEF Sorted
  <2> QED BY <2>2 DEF Init, Calls!Init
<1>2. NestInv /\ [Next]_vars => [Calls!Next]_(Calls!vars)
  <2> SUFFICES ASSUME NestInv, [Next]_vars PROVE Calls!Next \/ UNCHANGED Calls!vars
    OBVIOUS
  <2> USE DEF cpu
  <2>1. CASE \E f \in Files \cup {Shell, NoProgram} : exec(f)
    BY <2>1, ExecIsCall DEF Calls!Next
  <2>2. CASE iret
    BY <2>2, IretIsReturn DEF Calls!Next
  <2>3. ASSUME tr' = tr, busy' = busy PROVE UNCHANGED Calls!vars
    BY <2>3 DEF Calls!vars
  <2>4. CASE \E f \in Files \cup {Shell, NoProgram} : exec_no_file(f) \/ exec_no_task(f)
    BY <2>3, <2>4 DEF exec_no_file, exec_no_task
  <2>5. CASE kernel_main \/ syscall_file_open \/ syscall_exit \/ UNCHANGED vars
    BY <2>3, <2>5 DEF kernel_main, syscall_file_open, syscall_exit, vars
  <2>6. CASE \E fd \in Fds : syscall_file_close(fd)
    BY <2>3, <2>6 DEF syscall_file_close
  <2> QED BY <2>1, <2>2, <2>4, <2>5, <2>6 DEF Next
<1> QED BY <1>1, <1>2, NestInvariant, PTL DEF Spec, ImplementsCallStack, Calls!Spec
=============================================================================
