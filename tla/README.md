# RathalOS: a formal model

RathalOS is a small 32-bit operating system for the PC: a kernel with a text screen, a keyboard, a
timer and an IDE disk, programs that start one another with `exec()`, and a file system (BFS) whose
images are made on a host by a set of command-line tools. This directory holds TLA+ modules that
model its core, TLC configurations that check them on small instances, and proofs, checked by TLAPS,
of the results that hold for every size.

Paths below are relative to the source tree (`src/`).

## 1. Inventory

### Who runs when

There is one processor. The code that runs is the kernel's `kernel_main` or a program in a task of
its own; a program enters the kernel with `int 48`, through a **trap gate** (`idt.c:192`), so
interrupts stay enabled during system calls. Interrupt and exception handlers come in through
**interrupt gates** and run to their end. Nothing is preempted: the timer only counts. So the
concurrency of the system is

* handler against running code, for what both touch: the keyboard buffer (`keyboard.c`), the screen
  and the registers of the CRT controller (`display.c`), the tick counter (`timer.c`);
* program against program, as nested calls (`task.c`);
* host tool against host tool and against the machine, one after the other, over the image file,
  where a tool can be stopped between two writes.

The makefiles compile without optimisation: each C operator is its own load or store, in program
order. The models rely on that.

### Components

| Component | State | Operations | Interacts with | What must hold |
|---|---|---|---|---|
| Keyboard driver, `kernel/drivers/keyboard.c` | `fifo_buffer`, `head`, `tail`, `size`, `shift` | `keyboard_handler` (IRQ 1), `getc`, `keypressed` | 8042 controller; `read_string` and the `getc` system call | every key once, in order; a full buffer keeps its keys; a waiting `getc` returns; shift does not stick |
| Key map, `key_map.c` | two constant tables | `scan2char` | keyboard driver | a character for every scan code |
| Screen, `kernel/display/display.c`, `drivers/shell_drivers.c` | screen memory, cursor in the CRT controller, `CURRENT_COLOR`; `state` of the clock | `init_screen`, `clean_screen`, `display_carac`, `display_string`, `printf`, `change_cursor_pos` (which scrolls), `get_cursor_pos`, `display_carac_at_pos`, `time_graphic`, `read_line`, `change_color`, `get_color`; `read_string`, `exit` | handlers that print; the clock of the timer | text as on a terminal; nothing outside of the screen; `read_line` inside its buffer |
| Timer, `timer.c` | `tick`, `freq` | `timer_init`, `timer_handler` (IRQ 0), `get_ticks`, `sleep` | screen (clock, `time_graphic`); programs | a `sleep` ends |
| Interrupts, `kernel/idt`, `drivers/pic.c` | IDT, PIC | `irq_handler`, `exception_handler` | everything above | handlers do not disturb the code below |
| Programs and tasks, `kernel/task` | `task_table`, one TSS per task; the processor's task register, links and busy bits | `exec`, `task_setup`, `task_switch`, final `iret` | file system (loads the program), GDT | programs nest like calls; none is loaded over another |
| System calls, `kernel/syscalls` | none | dispatch on the call number | all of the kernel | each call reaches its function with its arguments, and its caller's memory |
| Segment descriptors, `kernel/gdt` | GDT | `gdt_init`, descriptor builders | tasks, system calls | a task's segments are its address space |
| Kernel file system, `kernel/fs/fs.c` | cached superblock, one sector each of the inode bitmap and table, `file_descriptor_tab`, iterator | `files_system_init`, `file_open`, `file_close`, `file_read`, `file_seek`, `file_remove`, `file_stat`, `file_iterator`, `file_has_next`, `file_next` | IDE driver; images of the tools | a file read back is the file stored; a descriptor stays with its file |
| IDE driver, `drivers/ide.c` | none | `ide_read_sector`, `ide_write_sector` (not called) | file system | |
| Image tools, `tools/` | image file, copies of bitmaps and inode table | `fs_create`, `fs_add`, `fs_del`, `fs_cat`/`fs_read`, `fs_info`, `fs_list` | kernel file system, through the image | files disjoint; commands atomic under a kill; no block lost |
| BFS common code, `common/fs` | bitmaps, inodes | `bitmap_*`, `inode_*` | tools and kernel | |
| C library and programs, `user/`, `common/func.c` | none | wrappers of the system calls, strings, shell | system calls | |

`PROJECT.json` lists the same components with what is modelled of each, and the hazards of the code,
each at its line.

## 2. Modules

| Module | Models | Composes |
|---|---|---|
| `KeyMap` | `key_map.c`: both tables and `scan2char` | |
| `KeyQueue` | *abstract*: a bounded FIFO of keys | |
| `Keyboard` | `keyboard.c`, the 8042 controller, the keyboard | `KeyMap`; refines `KeyQueue` |
| `FileStore` | *abstract*: a map from names to contents with atomic commands | |
| `BfsTools`, `MCBfsTools` | the image, `fs_create`, `fs_add`, `fs_del`, `fs_read` | refines `FileStore` |
| `KernelFs`, `MCKernelFs` | `kernel/fs/fs.c`, booting and switching off | `BfsTools` (the same image) |
| `CallStack` | *abstract*: call and return | |
| `Strings` | `strncpy`, `strncmp` of `common/func.c` | |
| `Layout`, `MCLayout` | the image cell by cell: `superblock_create`, `blocks_write`, the bitmaps' bytes, `fs_add` and `fs_del` on it | `Strings`; refines `FileStore` |
| `Tasks` | `exec()`, the processor's task switching, file descriptors | refines `CallStack` |
| `Descriptors` | `gdt.c`: how a segment descriptor is cut up, and put together again | |
| `Programs`, `MCPrograms` | `task_setup`, `gdt_init`, the library `user/wrapper.c`, the table of system calls | `Tasks`, `Descriptors` |
| `Terminal` | *abstract*: lines of text and a cursor | |
| `Screen` | `display.c`, `read_string`, access by access | |
| `Interrupts` | handlers, timer, `sleep()` | `Screen`; refines `Terminal` |
| `ModuloLemmas`, `KeyboardProofs`, `BfsProofs`, `KernelFsProofs`, `LayoutProofs`, `TasksProofs`, `ProgramsProofs`, `InterruptsProofs` | proofs | |

Definitions have the name of the function they stand for wherever there is one; the `map` of
`PROJECT.json` gives the lines of each. Definitions whose comment begins with "A slip" are in no
specification: each is a plausible bug in the definition that follows it, and the `mutants` of
`PROJECT.json` say which property notices it.

### Keyboard

The handler is one action for each way through `keyboard_handler` (`HandlerIgnored`,
`HandlerRelease`, `HandlerShift`, `HandlerKey`), since nothing interrupts it. `HandlerKey` holds the
test for room of `keyboard.c:40`, which an `uchar_t` never fails when the buffer has as many slots
as it has values. `KeyQueue` only accepts a key when it has room; the driver implements it as long
as no key was stored over an unread one (`overrun`, history). `getc()` is cut at each access to a
variable the handler shares: the loop's test (`GetcWait`), `tail++` (`GetcTake`), the read of the
slot (`GetcSlot`), the load and the store of `size--` (`GetcLoad`, `GetcStore`). `size` is an
`uchar_t` and counts modulo `UCHAR`. `accepted` and `delivered` are history: what went in and what
came out. `StrayIrq` is an IRQ 1 without a new scan code, which makes the handler take the last one
again. It is there because nothing in the driver empties the controller before interrupts are
enabled. `MaxKeys` bounds the keys of a behaviour.

### BfsTools and KernelFs

The image is `ibm`, `dbm` (sets of set bits), `itab` and `data`. Sizes are counted in blocks, a
block is the 16-bit words it holds. A command works on copies (`mibm`, `mdbm`, `node`); `fs_add`
writes each data block at once (`AddDirect`, `AddIndirect`, `AddInner`, `InnerDone`: the three loops
of `add_file`, one turn per action), then both tools write inode bitmap, data bitmap and inode
table, in this order (`WriteIbm`, `WriteDbm`, `WriteItab`). `Kill` can end a command anywhere in
between.

`fs_del` reads the indirect block at the wrong place of the image; `ImageWords` says what is there:
words of bitmaps, inodes, or other data blocks.

`KernelFs` runs on the same variables. While the machine is off the tools run (`Tools`);
`files_system_init` copies the inode bitmap and the *first sector* of the inode table to
`global_buffer`. The kernel takes the table to be as long as that of the image (`fs.c:30`): behind
the sector there are the zeros of the buffer, and behind the buffer, which has room for
`buffer_inodes` (124), whatever other variables hold (`Foreign`), which can change at any time
(`ForeignChanges`). From then on every function of `fs.c` is an action on the kernel's copies. The
kernel never writes to the disk. The iterator `it` starts to look at the inode it is at, as
`inode_get_next` does. The kernel uses block numbers as sector numbers (`fs.c:21`, `28`, `98`): the
module is about images whose blocks are a sector long, such as the repository's. `file_read` is
modelled as the code is: the sector behind a direct pointer, for the blocks after those the indirect
block's own number plus twice the index plus one, and one more sector at the end.

### Layout

`BfsTools` takes for granted that the parts of an image are separate and are written independently.
`Layout` does not: the image is an array of cells (a byte of a bitmap, or an inode), its parts are
where `superblock_create` puts them for a block size and two counts, and `blocks_write` pads what it
writes. The bitmaps get `count / 8` bytes rounded *down*, then rounded up to blocks, so that the
last byte of a bitmap can lie in the next part; the padding of a write can go beyond the part; and
for less than 8 bits `ROUND_UP` computes with an unsigned -1. Commands are one step up to their
first write, then write the three parts with a kill between any two. File names are real strings
here, since `strncpy` and `strncmp` stop one character before the end of the field. An inode is one
cell. It keeps the pointers of its file in their order (`ptrs`), those behind the direct ones too,
and the blocks that hold these (`indirect_ptr`). `fs_add` takes the free blocks in their order,
every `pointers_per_block + 1`-th one behind the direct ones for pointers. `fs_del` frees the direct
blocks and the blocks of pointers, and, as it reads the latter at the wrong place (`fs_del.c:53`),
not what they point to but any set of `WrongPointers`; this sets `damaged`. `BfsTools` says which
blocks these are.

### Tasks and Programs

`exec` is one action up to the far call, because no program runs in between. The processor keeps
`tr`, a link per task and the busy bits; `task_switch` is the far call to a TSS, `iret` the end of a
program's entry point. In `Tasks` a program is an arbitrary user of `exec`, `file_open`,
`file_close` (of *any* descriptor) and `exit`. `program`, `blind` and `leaked` are history.

`Programs` is `Tasks` with what lies between a program and the kernel. Each of its actions is an
action of `Tasks` or leaves `Tasks` alone, so it says *which* of these calls happen:

* `Library` and `Handlers` are the two sides of a system call: which arguments the wrapper passes,
  and whether the argument, its address or the address of a list; of what type the result is; how
  the handler of that number takes the arguments, and where and as what it stores a result. The
  handler of `printf` passes on the first argument of the list only (`syscall.c:125`), and that of
  `file_has_next` stores an `int` where the wrapper has a `bool` (`wrapper.c:69`).
* `CallerBases` is what `syscall_handler` finds for the caller's base: it looks up entry `2t` of the
  task table for task `t`, since the index of a GDT entry is not divided by two (`syscall.c:219`).
  For half of the tasks that is another task's slot, for the others it lies behind the table, where
  any base can be read (`Behind`).
* `task_setup` gives all tasks the base 0, because it takes the first byte of the address space
  instead of its address (`task.c:44`).

The two mistakes cancel: as all bases are 0, a wrong slot of the table has the right base. For the
other half of the tasks an `exec` may start a program by any name and `file_close` may close any
descriptor, and the properties are about the first half (`Located`). `asked` and `call` are history.
Descriptors are real numbers cut into the pieces of `gdt.c`, of nibbles with `NIBBLE` values.

### Screen and Interrupts

The CRT controller has one index register. Reading or setting the cursor takes two selections and
two accesses; each is an action (`GetSelectHi` ... `SetLo`), as is each cell that scrolling copies.
The body of a text is any sequence of characters, newlines and `read_line`s. `Interrupts` adds what
may happen between any two of these steps: `timer_handler` (with the clock in the first line), the
IRQs and exceptions that print, and `sleep(ms)`, which waits for whole seconds (`MS` is 1000;
`timer.c:24`). The message of a handler is one character.

`torn` is history: an interrupt has printed while another text was under way. `GoOn` (FALSE in both
runs) bounds the model: no further text or message is started after that.

## 3. Runs

Properties are invariants unless said otherwise.

**keyboard** (`Keyboard.cfg`; 3 slots, an `uchar_t` of 3 values, one plain key and both shift keys,
stray interrupts, 5 keys). The real sizes are 256 and 256: what matters is that they are equal, so
that `size` wraps exactly when the buffer is full. Five keys overrun three slots with every
interleaving. `KeysInOrder`: what `getc()` returned is a prefix of what was stored until a key is
stored over an unread one. `RingInv`: the indices are counts modulo the size, the unread keys lie
between them, `size` promises no more than there is, so that a `getc()` that finds `size` not 0 has
a key to take. `ShiftReleased`. `ImplementsQueue` (temporal): the driver refines `KeyQueue`, until
the same moment. `GetcReturns` (liveness): a `getc()` that keeps seeing a key returns.

**keyboard_lost** (violation, `keyboard.c:61`): an interrupt inside `size--` loses the count of a
key, and `getc()` waits for another one although the key is in the buffer.

**keyboard_overrun** (violation, `keyboard.c:40`): `size` never reaches `KEY_BUFFER_SIZE`, so the
handler stores a key over an unread one when the buffer is full. The comment above the test says
that it makes sure of room.

**bfs_tools** (3 inodes, 5 data blocks, one direct and one indirect pointer, two pointers per block,
two names, files of one, two and four blocks). The second file needs an indirect block, the last
does not fit an inode, and the image is too small for two of the second. One block of contents looks
like pointers, so that a block that is followed by mistake leads to blocks in use. `FreeCountExact`:
`add_file`'s counter is the number of clear bits, so an allocation never gets the -1 of a full
bitmap. `InodesSane`: also in a damaged image. `NoSharedBlocks`, `NoLostBlocks`.
`ImplementsFileStore` (temporal): what `fs_cat` reads back is what was added, and each command takes
place completely or not at all. The last three hold as long as the image is `Intact`: no `fs_del`
was killed after its first write, and no file with an indirect block was deleted. Both exceptions
are needed; the second is the next run.

**bfs_delete** (violation, `fs_del.c:53`): the indirect block is read without the start of the data
blocks, so the blocks behind it stay allocated.

**bfs_layout** (`BfsLayout.cfg`; bytes of 3 bits, blocks of 1, 3 or 4 bytes, 36 addresses; three
direct pointers and three to blocks of four pointers; three names of which two agree in the
characters that fit; an empty file, one of three blocks and one of fifteen, with three indirect
blocks). Six geometries: bitmaps that end before their block, exactly with it, and one bit behind
it, where the first inode lies; padding that runs over the data bitmap, or over inodes; a bitmap of
less than a byte. The files fill the smallest and the largest image. What `fs_del` takes for
indirect blocks leads to no block, or to two of another file (`WrongPointers`). `PartsStay`: on an
image whose bitmaps fit (`Fits`), what a command has written it can read back until it ends.
`FilesApart`: between commands, files share nothing, their blocks of pointers included, and are
marked. `ImplementsFileStore` (temporal): such an image is a store by names cut to the field. The
last two hold until a command is killed at one of the moments that `damaged` records, or a file with
indirect blocks is deleted. `MaxMarked` bounds the inodes that killed commands lose.

**kernel_fs** (4 inodes in sectors of three; the buffer ends with the sector, so that one inode lies
in foreign memory, which holds zeros or the number of an inode; two direct and two indirect
pointers; two names; an empty file, one of the direct blocks, one that uses both indirect blocks,
one that does not fit; one descriptor, which is enough for it to be opened for one file, kept while
that is removed, and opened for the other; three commands of the tools). `SeesFiles`: what the
kernel finds under a name is a file of the image, with its size, that was not removed since the
boot; and it finds every such file whose inode lies in the first sector. `ReadsBack`: a file that
fits the direct blocks is read as it was stored, whatever image the machine started from.
`OpenFilesStay`: a descriptor never comes to name another file. `ImplementsFileStore` again, for the
files of this image and with the machine in between.

**kernel_reads** (violation, `fs.c:104`): behind the direct blocks `file_read` returns other
sectors.

**programs** (`Programs.cfg`; 3 slots, 2 descriptors, 2 programs, two places of the task table, so
that a descriptor's address crosses the borders of all of its pieces, and two bases behind the
table, by chance the right one or another). Slots are never given back, so three are enough for
nesting, returns, restarts and a full table; slots 0 and 1 can be located, slot 2 cannot. One call
without an effect on tasks at a time. `Nest`: the links form one chain. `HoldsWhatWasAsked`,
`LeaksOnlyWhenFull`. `NoOverwrite` (action property): `exec` never loads a program over one that has
not returned. `ImplementsCallStack` (temporal). `FarCallFindsTask`: a selector leads through the GDT
to the task's own TSS and LDT, wherever the table is. `ExecStartsWhatWasAsked`: the name of a
program arrives, and the call that returns is the one that was made, with other programs in between.
`CallsArrive`: a call reaches the function of the kernel that it is named for; its arguments arrive
for all functions but the nine `Misfits` and for none of these; its result comes back for all but
`srand` and `rand`; and only `file_has_next` has its result stored over something else. Deadlock is
not checked: a halted machine does nothing.

**programs_entry** (violation, `task.c:44`): with all bases 0, a task starts at address 0 of the
machine and not of the program that was loaded.

**interrupts** (3 lines of 4 cells, a byte of 4 values, 2 ticks per second, a counter of 4 ticks,
seconds of two units and sleeps of one and of three). Three lines scroll with text in each; 12 cells
need both halves of the location; a sleep of two ticks wraps the counter, and one of less than a
second is among them. `StaysOnScreen` (until torn): the cursor always has a cell to move on to, and
its two halves belong together, however often it was interrupted. `ReadLineFits`.
`ImplementsTerminal` (temporal): the text scrolls and wraps as on a terminal, and the clock, which
is drawn into the first line and copied by nobody, never ends up in it. `SleepEnds` (liveness): a
sleeper wakes up. Deadlock is not checked: an exception halts the machine.

**interrupts_torn** (violation, `display.c:124`): an interrupt that prints between the selection and
the access leaves another register selected; the location that is then read is no position of the
cursor, and characters are written outside of the screen.

### Fairness

* `Keyboard!FairSpec`: weak fairness of the handler (the processor takes pending interrupts), of the
  loop's test and of the rest of `getc()` (a called function is executed). Nobody has to press a key
  or to call `getc()`.
* `Interrupts!FairSpec`: weak fairness of the timer, and strong fairness of `SleepReturn`: the
  condition of `sleep()` is true and false in turns, and its loop reads the counter many times per
  tick, so it cannot miss it for ever. The strong form is needed because the counter wraps.

## 4. Proofs

TLAPS proves these for *every* value of the constants that satisfies the named assumptions of the
modules; a theorem with a further assumption states it.

**KeyboardProofs.** `TypeCorrect`; `RingCorrect`, from which `InOrder` (`KeysInOrder`) follows;
`ShiftNeverSticks`; `Refinement` (`ImplementsQueue`: until a key is stored over an unread one, the
driver implements `KeyQueue`). `SizesAssumption` only asks that the buffer is no larger than an
`uchar_t` counts, so the theorems hold of the real sizes and of the corrected ones. `KeysInOrder` is
not inductive: it says nothing of the keys in the buffer. `RingInv` adds where they are (`IndexInv`,
`ContentInv`), and `SizeInv` adds what makes `getc()` find a key in its slot: the shared counter may
lag behind the unread keys, because of the lost increment, but never promises more than there are,
at each point of `getc()`. In particular, the clause for "store" is about the register, not the
variable. `ShiftReleased` needs `ShiftInv`, which relates the flag, the last scan code and the keys
that are down. `ModuloLemmas` has the arithmetic of indices: neighbours modulo m, and two numbers
less than m apart that are equal modulo m; and that a set of numbers has a least one, which stands
in for induction in the few places that need it.

**BfsProofs.** `TypeCorrect`, `FreeCount` and `SaneInodes` (`TypeOK`, `FreeCountExact`,
`InodesSane`) come from one inductive invariant, `BaseInv`. It adds `CommandInv`, what the running
command knows: the inode it holds has a number and a name that no live inode has, its copies keep
the reserved bits, what is left of the file is part of it, and a free inode is cleared.
`FreeCountExact` is a counting argument: reserving the first clear bit takes one off the cardinality
(`OneLess`), and there is a clear bit as long as the counter is not 0 (`ClearBits`). These hold of
every image, also after kills that damage it.

`NothingShared` (`NoSharedBlocks`) and `NothingLost` (`NoLostBlocks`) have a premise,
`PointersReach`: a pointer can hold the number of every data block. It is the limit of 65536 blocks
that no tool checks; behind it the properties are false. The invariants are `ApartInv` and
`ExactInv`. `ApartInv` adds `AddMarks`: the blocks that the inode under construction leads to
(`NodeBlocks`, with the indirect block that is filled in memory and not written yet) are marked in
the copy and in no other file; `DelMarks`; `FreePointers`: what the loops have not come to is 0, so
that a turn adds one block and loses none; and which copies are written in which phase. `ExactInv`
says that nothing else is marked. One lemma (`LoopsApart`) covers all turns of the three loops: a
turn that takes new blocks and writes to no block of another file keeps both.

`ToolsImplementStore` (`ImplementsFileStore`, with the same premise): the tools and `fs_cat`
implement `FileStore`. What is missing in `ApartInv` is that blocks hold contents, in order;
`StoreInv` says it, on an intact image, of every file (`Whole`) and of the file that is being added,
as far as the loops have come: which position of the file is written next (`PositionInv`), and that
all positions before it can be reached from the inode, or from the indirect block in memory, and
hold the blocks of the host's file (`CopiesInv`). `DeletesFile` says that `fs_del` holds the inode
of its file. The abstract command takes effect with `WriteItab` and nowhere else; every other step,
and a kill before it, is a stutter.

**KernelFsProofs.** `KernelRunsTools`: a run of machine and tools is a run of the tools, so that all
of `BfsProofs` holds of it; `KernelKeepsStore` is one consequence. `KTypeCorrect`, `KernelSees`
(`SeesFiles`) and `DescriptorsStay` (`OpenFilesStay`) come from `CacheInv`: while the machine is on
no command runs, the cached table is the first sector of the disk's without the removed files, what
lies behind it has no name of a file, and an open descriptor has the inode of the file it was opened
for. `OpenFilesStay` alone is not inductive: it does not say what is in the table the kernel opens
files from. `KernelReadsBack` (`ReadsBack`) needs no premise about pointers: what `file_read` stores
is compared with what `fs_cat` shows on the same image, and both follow the direct pointers. They
agree on a damaged image too. For that, every inode, live or not, must have direct pointers inside
the data blocks (`ImageInv`).

**LayoutProofs.** `TypeCorrect`; `PartsKept` (`PartsStay`); `FilesKeptApart` (`FilesApart`);
`LayoutImplementsStore` (`ImplementsFileStore`). They go from bits upwards. A byte is a number, and
its bits are found with `1 << k` (`Shift`, `Bit`); `ByteBits` says that each set of bits has its
byte, so a bitmap that was written is read back (`BitmapReadBack`), if the bytes it needs are within
its own part and nothing else is written there. The blocks `fs_add` takes are free and distinct,
those for pointers apart from the others. The order of the parts (`Regions`) follows from
`superblock_create`; `IbmWritten`, `DbmWritten` and `ItabWritten` say which cells a write with its
padding can reach: never a part that was written before. `PartsInv` is inductive. `FilesInv`
strengthens `FilesApart` by what holds at each point of a command: the copies are `Proper` (files
apart, marked, with a name that fits the field), the image is what was read or what is to be
written, and for `fs_add` whatever a kill can leave on the way is proper too, unless a part overruns
the next; that is what `damaged` records. For names, `strncmp` over the length of the field answers
0 exactly if `strncpy` has stored the same characters. `StoreInv` adds that the files are whole and
that a command adds or deletes one of them.

Of `WrongPointers` nothing is assumed.

The assumptions of `Layout` are `LayoutAssumption` and `PointersAssumption`, sizes only;
`ReachAssumption`, that the addresses reach the end of the inode table. `fs_create` accepts at most
65535 inodes (`fs_create.c:52`), the number of data blocks is an `int`, and blocks have at most 8192
bytes (`tools/bitmap.c:8`), so this part of an image is far below the 2^32 addresses. Where a bitmap
has less bits than a byte, `ROUND_UP` gives it more blocks than there are addresses, and only the
first condition is asked for. `StoreAssumption` says that the two model values that mean "no file"
and "no command" are none; `BfsTools` has the same one.

**TasksProofs.** `TypeCorrect`; `NestCorrect`; `NeverOverwritten`; `HoldsProgram`; `LeaksLate`;
`Refinement` (`exec` and `iret` implement `CallStack`). The inductive invariant is `NestInv`: types,
`Nest`, and that a busy task is linked to the *greatest* busy task below it (`InOrder`). A new task
takes the first free slot, above all that were ever used; so the stack is the set of busy slots,
sorted, a call appends the greatest and a return removes it. `Upto...`, `SortedFacts` and
`AddGreatest` are the lemmas about that sorting.

**ProgramsProofs.** `EntryKeepsAddress`: a descriptor gives back the base and the limit it was made
of, for nibbles of any size (`SplitTwo`, `SplitThree`). `ProgramsAreTasks`: every behaviour of
`Programs` is one of `Tasks`, which carries all theorems of `TasksProofs` over. `FarCallsFind` and
`StartsWhatWasAsked` for any number of slots, descriptors and programs, any sizes within
`ProgramsAssumption` and any place of the table; the inductive invariant is `TablesInv` (the tables
are what `gdt_init` and `task_setup` made) with `NestInv`. `CallsReachKernel` (`CallsArrive`): the
two tables of a call's arguments and results, written by hand in two files, are compared entry by
entry (`TablesFit`), and the base of a caller that can be located is its own, so addresses are taken
in the right program. What arrives from the tasks that are not `Located` it leaves open: their slot
is read behind the table.

**InterruptsProofs.** `TypeCorrect`: an interrupt in the middle of a cursor access leaves a location
made of two halves, so the type of the register needs that each half is a byte (`HighByte`).
`OnScreen` (`StaysOnScreen`): `CursorInv` says at each of the steps of a cursor access what is
selected and what has been read, until an interrupt prints inside a text. `LineFits`
(`ReadLineFits`): the numbers that are stored in the buffer start at an odd one, so the 0 that ends
the loop is never the first. `ScreenIsTerminal` (`ImplementsTerminal`): `TextInv` keeps the text
that a function has started from, and says how far the screen is from it at each step: not at all
before the cursor is fetched, edited and scrolled up to the cell that is copied next, then finished,
with the cursor still to be stored. The cells the clock is drawn into are compared by nobody. Its
premise, `PastEnd`, is that the position behind the last cell is a location that differs from 0:
2000 cells are fewer than 65536.

**Only model-checked.** Liveness: `GetcReturns` and `SleepEnds` need fairness and ENABLED, which
TLAPS does not handle. Every invariant, action property and refinement that a passing run checks is
also a theorem. The properties of the "violation" runs are false.

## 5. Findings

Six statements of the repository are violated by what the code does: the six "violation" runs above.
`PROJECT.json` quotes the statements.

The models have more behaviour that disagrees with what the repository says, but no run of its own:

* `user/shell_bak.c:45` has the shell list the files of the disk; a listing comes back to its first
  file for ever, as `file_next` starts at the inode it is at (`fs.c:144`, `inode_get_next`;
  `KernelFs!file_next`).
* `user/shell_bak.c:33` prints with three arguments behind the format; only the first one arrives
  (`syscall.c:125`; `CallsArrive`).
* `user/shell_bak.c:49` says "sleep for N milliseconds": `sleep` waits for whole seconds, so for
  less than 1000 it returns at once, and so it does when the sum with the counter wraps around
  (`timer.c:24`; `Interrupts!sleep`).
* `user/shell_bak.c:47` has the shell delete a file: it is deleted until the machine is switched
  off, as the kernel does not write to the disk (`KernelFs!PowerOff`).
* `tools/superblock.c:71` allows blocks of 1024 to 8192 bytes; the kernel uses block numbers as
  sector numbers (`fs.c:21`, `28`, `98`) and reads such an image at the wrong places. Not modelled.

And behaviour of which the repository says nothing:

* Bitmaps of fewer than 8 bits, or of 4096k + 1 to 4096k + 7 with blocks of 512 bytes, do not fit
  their place in the image. An image of more than 65536 data blocks has block numbers that do not
  fit the 16-bit pointers of an inode.
* All segments of all programs have the base 0, so programs that call one another share their
  memory; and tasks in the upper half of the table are looked up behind it.
* `file_close`, `file_read`, `file_seek`, `sleep`, `strlen`, `strcmp` and `read_string` of the
  library pass an address that the kernel takes for the value, or pass one address too many
  (`Misfits`); the handlers of `srand` and `rand` do nothing; that of `file_has_next` stores the
  four bytes of an `int` over a `bool`.
* The kernel's inode table has room for 124 inodes in `global_buffer` and is given the count of the
  image (`fs.c:30`): for a larger image lookups, listings and removals go on in the kernel's other
  variables.
* A program larger than the 16834 bytes of an address space is loaded over what lies behind it
  (`task.c:84`).
* A task slot is never given back: after ten programs no other one starts. `exec` with a full task
  table leaves its file open.
* A newline given to `display_carac()`, and so to `puts` and `putc` of a program, moves no cursor,
  as `change_cursor_pos` is called in the other branch only; `read_line` fills its buffer with
  consecutive numbers instead of the characters of the line.
* The interrupt descriptor table is a local array of a function that returns (`idt.c:137`); later
  calls write over its upper entries, which are not used, and over the others if they take more than
  1.6 KB of stack.

## 6. Limits, and what is left

### Assumptions of the models

* One store or load per C operator, in program order (the build uses no optimisation).
* The tools' writes reach the image in the order of the program: each is preceded by an `fseek`,
  which flushes the stream.
* A command's data block is written whole. In `BfsTools` the padding of longer writes is left out;
  `Layout` has it.
* In `Layout` an inode is one cell, and a byte that a bitmap stores over it changes its number. The
  pointers behind the direct ones are kept with the inode and not in the data blocks that hold them:
  as nobody else has these blocks (`FilesApart`), they hold them.
* What is read behind the task table is one of the bases in `Behind`. What is stored outside of the
  variables of the model is left out: a result that goes to a wrong address, the 0 that the kernel's
  `file_close` stores when it gets an address (`wrapper.c:42`, `syscall.c:66`), a program behind the
  end of its address space. What these hit depends on where the linker puts things; if it is the
  task table or the descriptors, the theorems about them do not hold.
* The memory behind `global_buffer` never looks like a file that is asked for (`ForeignAssumption`),
  and what the kernel's `file_remove` clears by number lies in the table.
* In `KernelFs` a block is a sector.
* Nobody changes the image while the machine is on.
* A file descriptor of -1 (a full table in `exec`) reads and closes by the memory before the table:
  the program that is started then holds nothing in particular.
* The copy of one cell when the screen scrolls is one step, and a handler's message one character.

### Bounds

`MaxKeys`, `Offsets`, `MaxCommands`, `MaxMarked`, `Delays`, `GoOn`, the one call in a row of
`lib_call` and the values of `Names`, `HostFiles`, `WrongPointers`, `Foreign` and `Behind` are
bounds of the model; all other constants are sizes of the code, made small. Proved theorems do not
depend on them.

### Not modelled, and why

* Colours, and how numbers and messages are formatted: no property is about them.
* The programming of the PIC and the PIT, the gates of the IDT and the multiboot header: straight
  lines of assignments and port accesses. Handlers run to their end.
* `trim`, `starts_with` and `atoi` of the library: they change nothing but a string of the caller,
  and no code of the repository that is built uses them. `shell_bak.c` is not built.
* `fs_info`, `fs_list`: print only. `ide_write_sector`: never called. Status polling of the disk.
* Linker scripts and makefiles.

### Plan

Done, in this order: the keyboard with its proofs; the image and its tools; the kernel's file system
on that image; programs and tasks with their proofs; screen, timer and interrupts; the layout of
images and file names; descriptors, the library and the table of system calls, with proofs; the
invariants of the screen and of the tools for every size. The file store of the tools, of the kernel
and of the layout, the terminal and the system calls followed, with the theorems of section 4.

What is left is outside of what can be proved here, or small:

1. Liveness stays with TLC.
2. `Layout` with inodes of several cells, so that a bitmap's last byte overwrites a part of an inode
   and not its number alone; `FilesApart` and the refinement do not speak of the geometries in which
   that happens (`Fits`).
3. The 16-bit pointers as a check that `fs_create` could make: `PointersReach` is the premise it
   would establish.
