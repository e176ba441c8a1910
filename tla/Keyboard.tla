------------------------------ MODULE Keyboard ------------------------------
(***************************************************************************)
(* The keyboard driver, kernel/drivers/keyboard.c: the interrupt handler   *)
(* that fills a ring buffer and the getc() system call that empties it.    *)
(*                                                                         *)
(* The handler is entered through an interrupt gate and runs to its end.   *)
(* getc() is entered through a trap gate, interrupts stay enabled, and it  *)
(* shares size, head and the buffer with the handler without masking it.   *)
(* The kernel is compiled without optimisation: every C operator is its    *)
(* own load or store, so the handler can run between the load and the      *)
(* store of "size--".                                                      *)
(***************************************************************************)
EXTENDS KeyMap

CONSTANTS KEY_BUFFER_SIZE,  \* slots of the ring buffer (256)
          UCHAR,            \* values of an uchar_t (256)
          Keys,             \* scan codes the keyboard can send, shifts excluded
          StrayIrqs,        \* whether IRQ 1 can fire without a new scan code
          MaxKeys           \* bound: keys put in the buffer in a behaviour

LSHIFT == 42
RSHIFT == 54
Shifts == {LSHIFT, RSHIFT}

ASSUME SizesAssumption ==
  /\ KEY_BUFFER_SIZE \in Nat \ {0}
  /\ UCHAR \in Nat
  /\ KEY_BUFFER_SIZE <= UCHAR

ASSUME KeysAssumption == Keys \subseteq ScanCodes \ Shifts

ASSUME BoundAssumption == MaxKeys \in Nat /\ StrayIrqs \in BOOLEAN

Slots == 0 .. KEY_BUFFER_SIZE - 1
Bytes == 0 .. UCHAR - 1

VARIABLES
  fifo_buffer, head, tail, size, shift,  \* the driver's static variables
  obf, data, other,  \* 8042: output buffer full, data register, other status bits
  irq,               \* IRQ 1 is pending at the PIC
  rpc, rTail, rSize, \* getc(): where it is, and the registers it uses
  accepted,          \* history: characters the handler stored, in order
  delivered,         \* history: characters getc() took, in order
  overrun,           \* history: an unread slot has been written over
  held               \* history: the shift keys that are down

driver == <<fifo_buffer, head, tail, size, shift>>
controller == <<obf, data, other, irq, held>>
reader == <<rpc, rTail, rSize>>
history == <<accepted, delivered, overrun>>
vars == <<driver, controller, reader, history>>

\* A scan code as the controller sends it: the key and make or break.
Codes == [key : ScanCodes, release : BOOLEAN]

\* keyboard_init, called once before interrupts are enabled.  It leaves size
\* alone: the variable is zero because it lies in .bss, as the buffer does.
keyboard_init ==
  /\ fifo_buffer = [s \in Slots |-> 0]
  /\ head = 0
  /\ tail = 0
  /\ size = 0
  /\ shift = FALSE

Init ==
  /\ keyboard_init
  /\ obf = FALSE
  /\ data = [key |-> 0, release |-> FALSE]
  /\ other \in BOOLEAN
  /\ irq = FALSE
  /\ rpc = "idle" /\ rTail = 0 /\ rSize = 0
  /\ accepted = << >> /\ delivered = << >>
  /\ overrun = FALSE /\ held = {}

-----------------------------------------------------------------------------
(* The keyboard and its controller *)

Raise(code) ==
  /\ ~obf /\ ~irq
  /\ obf' = TRUE
  /\ irq' = TRUE
  /\ data' = code
  /\ UNCHANGED <<other, driver, reader, history>>

PressKey(k) ==
  /\ Len(accepted) < MaxKeys
  /\ Raise([key |-> k, release |-> FALSE])
  /\ UNCHANGED held

ReleaseKey(k) ==
  /\ Raise([key |-> k, release |-> TRUE])
  /\ UNCHANGED held

\* A key held down repeats its make code.
PressShift(k) ==
  /\ Raise([key |-> k, release |-> FALSE])
  /\ held' = held \cup {k}

ReleaseShift(k) ==
  /\ k \in held
  /\ Raise([key |-> k, release |-> TRUE])
  /\ held' = held \ {k}

\* IRQ 1 without a new scan code: an edge latched by the PIC before the boot
\* loader emptied the controller, for instance.
StrayIrq ==
  /\ StrayIrqs
  /\ Len(accepted) < MaxKeys
  /\ ~obf /\ ~irq
  /\ irq' = TRUE
  /\ UNCHANGED <<obf, data, other, held, driver, reader, history>>

-----------------------------------------------------------------------------
(* keyboard_handler: one action for each way through the function. *)

Unread == Len(accepted) - Len(delivered)

\* "!inb(STATE) & 0x1" is "(!inb(STATE)) & 0x1": true only for a zero status.
StateIsZero == ~obf /\ ~other

HandlerIgnored ==
  /\ irq /\ StateIsZero
  /\ irq' = FALSE
  /\ UNCHANGED <<obf, data, other, held, driver, reader, history>>

\* inb(DATA) empties the controller's output buffer.
ReadScanCode ==
  /\ irq /\ ~StateIsZero
  /\ irq' = FALSE
  /\ obf' = FALSE
  /\ UNCHANGED <<data, other, held>>

\* A slip the properties notice: only the left shift key is recognised.
HandlerReleaseLeftOnly ==
  /\ ReadScanCode
  /\ data.release
  /\ shift' = (shift /\ data.key # LSHIFT)
  /\ UNCHANGED <<fifo_buffer, head, tail, size, reader, accepted, delivered, overrun>>

HandlerRelease ==
  /\ ReadScanCode
  /\ data.release
  /\ shift' = (shift /\ data.key \notin Shifts)
  /\ UNCHANGED <<fifo_buffer, head, tail, size, reader, accepted, delivered, overrun>>

HandlerShift ==
  /\ ReadScanCode
  /\ ~data.release
  /\ data.key \in Shifts
  /\ shift' = TRUE
  /\ UNCHANGED <<fifo_buffer, head, tail, size, reader, accepted, delivered, overrun>>

\* "size >= KEY_BUFFER_SIZE": never true when an uchar_t cannot hold the
\* size of the buffer.
BufferFull == size >= KEY_BUFFER_SIZE

HandlerFull ==
  /\ ReadScanCode
  /\ ~data.release
  /\ data.key \notin Shifts
  /\ BufferFull
  /\ UNCHANGED <<driver, reader, accepted, delivered, overrun>>

\* A slip: the index wraps one slot too late.
AdvancePastEnd(i) == IF i = KEY_BUFFER_SIZE THEN 0 ELSE i + 1

\* The index after "i++" and "i = i % KEY_BUFFER_SIZE" on an uchar_t.
Advance(i) == ((i + 1) % UCHAR) % KEY_BUFFER_SIZE

HandlerPut ==
  /\ ReadScanCode
  /\ ~data.release
  /\ data.key \notin Shifts
  /\ ~BufferFull
  /\ LET c == scan2char(data.key, shift)
     IN  /\ fifo_buffer' = [fifo_buffer EXCEPT ![head] = c]
         /\ accepted' = Append(accepted, c)
  /\ head' = Advance(head)
  /\ size' = (size + 1) % UCHAR
  /\ overrun' = (overrun \/ Unread >= KEY_BUFFER_SIZE)
  /\ UNCHANGED <<tail, shift, reader, delivered>>

\* Any other key is dropped when the buffer is found full.
HandlerKey == IF BufferFull THEN HandlerFull ELSE HandlerPut

keyboard_handler ==
  HandlerIgnored \/ HandlerRelease \/ HandlerShift \/ HandlerKey

-----------------------------------------------------------------------------
(* getc, one action per access to a variable the handler shares. *)

At(p, q) ==
  /\ rpc = p
  /\ rpc' = q
  /\ UNCHANGED <<controller, fifo_buffer, head, shift, accepted, overrun>>

GetcCall == At("idle", "wait") /\ UNCHANGED <<tail, size, rTail, rSize, delivered>>

\* A slip: the last key in the buffer does not wake the reader.
GetcWaitForTwo == /\ At("wait", "take")
                  /\ size > 1
                  /\ UNCHANGED <<tail, size, rTail, rSize, delivered>>

\* The busy loop ends when it reads a size other than 0.
GetcWait == /\ At("wait", "take")
            /\ size # 0
            /\ UNCHANGED <<tail, size, rTail, rSize, delivered>>

\* A slip: "++tail" for "tail++".
GetcTakeNext == /\ At("take", "slot")
                /\ rTail' = Advance(tail)
                /\ tail' = Advance(tail)
                /\ UNCHANGED <<size, rSize, delivered>>

\* "tail++" and the later "tail % KEY_BUFFER_SIZE": only getc uses tail.
GetcTake == /\ At("take", "slot")
            /\ rTail' = tail
            /\ tail' = Advance(tail)
            /\ UNCHANGED <<size, rSize, delivered>>

GetcSlot == /\ At("slot", "load")
            /\ delivered' = Append(delivered, fifo_buffer[rTail])
            /\ UNCHANGED <<tail, size, rTail, rSize>>

\* "size--" is a load, a decrement in a register and a store.
GetcLoad == /\ At("load", "store")
            /\ rSize' = size
            /\ UNCHANGED <<tail, size, rTail, delivered>>

\* A slip: size is not decremented.
GetcStoreSame == /\ At("store", "idle")
                 /\ size' = rSize
                 /\ UNCHANGED <<tail, rTail, rSize, delivered>>

GetcStore == /\ At("store", "idle")
             /\ size' = (rSize - 1) % UCHAR
             /\ UNCHANGED <<tail, rTail, rSize, delivered>>

getc == GetcCall \/ GetcWait \/ GetcTake \/ GetcSlot \/ GetcLoad \/ GetcStore

-----------------------------------------------------------------------------
Next ==
  \/ \E k \in Keys : PressKey(k) \/ ReleaseKey(k)
  \/ \E k \in Shifts : PressShift(k) \/ ReleaseShift(k)
  \/ StrayIrq
  \/ keyboard_handler
  \/ getc

Spec == Init /\ [][Next]_vars

\* The processor executes getc() once it is called and takes pending
\* interrupts.  Nothing obliges anyone to call getc() or to press a key.
Fairness ==
  /\ WF_vars(keyboard_handler)
  /\ WF_vars(GetcWait)
  /\ WF_vars(GetcTake \/ GetcSlot \/ GetcLoad \/ GetcStore)

FairSpec == Spec /\ Fairness

-----------------------------------------------------------------------------
(* Properties *)

\* The static variables of keyboard.c keep the ranges of their types and
\* both indices stay inside the buffer.
TypeOK ==
  /\ fifo_buffer \in [Slots -> Chars]
  /\ head \in Slots /\ tail \in Slots /\ size \in Bytes /\ shift \in BOOLEAN
  /\ obf \in BOOLEAN /\ data \in Codes /\ other \in BOOLEAN /\ irq \in BOOLEAN
  /\ rpc \in {"idle", "wait", "take", "slot", "load", "store"}
  /\ rTail \in Slots /\ rSize \in Bytes
  /\ accepted \in Seq(Chars) /\ delivered \in Seq(Chars)
  /\ overrun \in BOOLEAN /\ held \in SUBSET Shifts

\* getc() returns the characters the handler stored, each once and in order,
\* however the handler cuts into "size--": until a key is stored over an
\* unread one, what was delivered is a prefix of what was accepted.
KeysInOrder ==
  ~overrun =>
    /\ Len(delivered) <= Len(accepted)
    /\ \A i \in 1 .. Len(delivered) : delivered[i] = accepted[i]

\* Shift does not stick: when every scan code has been handled and no shift
\* key is down, the driver is back to the plain character table.
ShiftReleased == ~obf /\ held = {} => ~shift

\* What the driver maintains until it overruns, and why KeysInOrder holds.  The
\* indices are the counts of keys stored and taken; the unread keys are in the
\* slots between them; size may only lag behind the number of unread keys, and
\* is 0 under a getc() that has seen a key only if it wrapped.
Taken == Len(delivered) + (IF rpc = "slot" THEN 1 ELSE 0)

IndexInv ==
  /\ Unread \in 0 .. KEY_BUFFER_SIZE
  /\ head = Len(accepted) % KEY_BUFFER_SIZE
  /\ tail = Taken % KEY_BUFFER_SIZE
  /\ rpc = "slot" => rTail = Len(delivered) % KEY_BUFFER_SIZE

ContentInv ==
  /\ \A i \in 1 .. Len(delivered) : delivered[i] = accepted[i]
  /\ \A i \in Len(delivered) + 1 .. Len(accepted) :
       fifo_buffer[(i - 1) % KEY_BUFFER_SIZE] = accepted[i]

SizeInv ==
  /\ rpc \in {"idle", "wait"} => size <= Unread
  /\ rpc \in {"take", "slot"} =>
       Unread >= 1 /\ size <= Unread /\ (size = 0 => Unread >= UCHAR)
  /\ rpc = "load" => size <= Unread + 1 /\ (size = 0 => Unread + 1 >= UCHAR)
  /\ rpc = "store" => rSize <= Unread + 1 /\ (rSize = 0 => Unread + 1 >= UCHAR)

RingInv == ~overrun => IndexInv /\ ContentInv /\ SizeInv

\* Why it does not: a shift key whose press was the last scan code is still
\* down, and with none down the driver is in shift only until the handler
\* has taken the release.
ShiftInv ==
  /\ ~data.release /\ data.key \in Shifts => data.key \in held
  /\ shift /\ held = {} => obf /\ data.release /\ data.key \in Shifts

\* A getc() that can see a key returns, as long as fewer keys than the buffer
\* holds are unread: the 256th would wrap size to 0 under its loop.
GetcReturns ==
  [](Unread < KEY_BUFFER_SIZE) => ((rpc = "wait" /\ size # 0) ~> rpc = "idle")

\* The driver is a queue of keys as long as it has not overrun: every step up
\* to there is one of the queue.  A step that stores a key over an unread one is
\* none; that the code takes it is HandlerMakesRoom, below.
Queue == INSTANCE KeyQueue WITH
  Capacity <- KEY_BUFFER_SIZE,
  waiting <- SubSeq(accepted, Len(delivered) + 1, Len(accepted)),
  out <- delivered

ImplementsQueue == Queue!Init /\ [][overrun' \/ Queue!Next]_(Queue!vars)

\* keyboard.c:39: "if all checks failed, make sure the buffer has room to add
\* the new key": a key is not stored while every slot holds an unread one.
HandlerMakesRoom == [][Unread = KEY_BUFFER_SIZE => accepted' = accepted]_vars

\* keyboard.c:57: "wait for a key to be pressed": a getc() called with a key
\* in the buffer does not wait for another one (below the buffer's limit).
GetcSeesKeys ==
  [](Unread < KEY_BUFFER_SIZE) => ((rpc = "wait" /\ Unread > 0) ~> rpc = "idle")
=============================================================================
