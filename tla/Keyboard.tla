------------------------------ MODULE Keyboard ------------------------------
(***************************************************************************)
(* The keyboard HAL (hal/keyboard.cpp) between its two users: the PS/2     *)
(* interrupt handler, which queues scancodes, and the thread that calls    *)
(* getchar_async, which takes them out and turns them into characters.     *)
(* The handler runs with interrupts off and so in one step; it may land    *)
(* anywhere in scancode_queue_pop, which nothing protects.                 *)
(*                                                                         *)
(* memmove is one step with the reads before it: a handler that lands      *)
(* among them or in the middle of it writes only past the bytes it moves.  *)
(* The statements after it are one load of scancode_queue_sz, which both   *)
(* use, and two stores: what g++ -Og makes of them, since it may assume    *)
(* that an array store leaves the next member alone.                       *)
(***************************************************************************)
EXTENDS Integers, Sequences, FiniteSets

CONSTANTS Keys,        \* the keys of the keyboard
          LShift,      \* the left shift key, scancode 0x2A
          Unmapped,    \* keys for which both layout tables hold 0
          Zero,        \* the byte 0
          QueueMax,    \* scancode_queue_max (128 in the code)
          MaxCodes,    \* bound: scancodes the keyboard sends
          MaxPending,  \* environment: unread scancodes at any time
          MaxIrqInPop  \* environment: interrupts that land in one pop

ASSUME KeysAssumption ==
    /\ LShift \in Unmapped /\ Unmapped \subseteq Keys
    /\ Zero \notin [key: Keys, up: BOOLEAN]

ASSUME QueueAssumption ==
    /\ QueueMax \in Nat \ {0}
    /\ MaxCodes \in Nat /\ MaxPending \in Nat /\ MaxIrqInPop \in Nat

VARIABLES
    scancode_queue,     \* scancode_queue, from 0
    scancode_queue_sz,  \* scancode_queue_sz
    mod_shift_set,      \* mod_shift_set
    pc,                 \* where the reader is in scancode_queue_pop
    val,                \* its local val
    reg,                \* scancode_queue_sz, as the store of the 0 read it
    irqs,               \* interrupts that landed in this pop
    raced,              \* history: an interrupt landed in some pop
    sent,               \* history: every scancode the keyboard sent
    taken,              \* history: every scancode the reader took
    chars,              \* history: every character getchar_async returned
    panicked            \* the kernel stopped

vars == <<scancode_queue, scancode_queue_sz, mod_shift_set, pc, val, reg, irqs, raced,
          sent, taken, chars, panicked>>

Scancode == [key: Keys, up: BOOLEAN] \union {Zero}

Char == [key: Keys \ Unmapped, shift: BOOLEAN]

Init ==
    /\ scancode_queue = [i \in 0 .. (QueueMax - 1) |-> Zero]
    /\ scancode_queue_sz = 0
    /\ mod_shift_set = FALSE
    /\ pc = "idle" /\ val = Zero /\ reg = 0 /\ irqs = 0 /\ raced = FALSE
    /\ sent = <<>> /\ taken = <<>> /\ chars = <<>>
    /\ panicked = FALSE

-----------------------------------------------------------------------------
\* Faulty variant: ++scancode_queue_sz where the code has scancode_queue_sz++.
ReceivePreIncrement(s) ==
    /\ ~panicked
    /\ Len(sent) < MaxCodes /\ Len(sent) - Len(taken) < MaxPending
    /\ pc # "idle" => irqs < MaxIrqInPop
    /\ scancode_queue_sz + 1 < QueueMax
    /\ sent' = Append(sent, s)
    /\ irqs' = IF pc = "idle" THEN 0 ELSE irqs + 1
    /\ raced' = (raced \/ pc # "idle")
    /\ scancode_queue' = [scancode_queue EXCEPT ![scancode_queue_sz + 1] = s]
    /\ scancode_queue_sz' = scancode_queue_sz + 1
    /\ UNCHANGED <<mod_shift_set, pc, val, reg, taken, chars, panicked>>

\* ps2_keyboard::on_interrupt and recieve_scancode, whose assertion panics
recieve_scancode(s) ==
    /\ ~panicked
    /\ Len(sent) < MaxCodes /\ Len(sent) - Len(taken) < MaxPending
    /\ pc # "idle" => irqs < MaxIrqInPop
    /\ sent' = Append(sent, s)
    /\ irqs' = IF pc = "idle" THEN 0 ELSE irqs + 1
    /\ raced' = (raced \/ pc # "idle")
    /\ \/ /\ scancode_queue_sz < QueueMax
          /\ scancode_queue' = [scancode_queue EXCEPT ![scancode_queue_sz] = s]
          /\ scancode_queue_sz' = scancode_queue_sz + 1
          /\ UNCHANGED panicked
       \/ /\ scancode_queue_sz >= QueueMax
          /\ panicked' = TRUE
          /\ UNCHANGED <<scancode_queue, scancode_queue_sz>>
    /\ UNCHANGED <<mod_shift_set, pc, val, reg, taken, chars>>

\* Faulty variant: the bytes are moved one place too few.
PopMoveShort ==
    /\ ~panicked /\ pc = "idle"
    /\ scancode_queue_sz > 0
    /\ val' = scancode_queue[0]
    /\ taken' = Append(taken, scancode_queue[0])
    /\ scancode_queue' = [i \in 0 .. (QueueMax - 1) |->
          IF i < scancode_queue_sz - 2 THEN scancode_queue[i + 1] ELSE scancode_queue[i]]
    /\ pc' = "clear" /\ irqs' = 0
    /\ UNCHANGED <<scancode_queue_sz, mod_shift_set, reg, raced, sent, chars, panicked>>

\* val = scancode_queue[0]; memmove(...)
PopMove ==
    /\ ~panicked /\ pc = "idle"
    /\ scancode_queue_sz > 0
    /\ val' = scancode_queue[0]
    /\ taken' = Append(taken, scancode_queue[0])
    /\ scancode_queue' = [i \in 0 .. (QueueMax - 1) |->
          IF i < scancode_queue_sz - 1 THEN scancode_queue[i + 1] ELSE scancode_queue[i]]
    /\ pc' = "clear" /\ irqs' = 0
    /\ UNCHANGED <<scancode_queue_sz, mod_shift_set, reg, raced, sent, chars, panicked>>

\* scancode_queue[scancode_queue_sz] = 0.  With a full queue this is the byte
\* after the array, the low byte of scancode_queue_sz itself.
PopClear ==
    /\ ~panicked /\ pc = "clear"
    /\ reg' = scancode_queue_sz
    /\ \/ /\ scancode_queue_sz < QueueMax
          /\ scancode_queue' = [scancode_queue EXCEPT ![scancode_queue_sz] = Zero]
          /\ UNCHANGED scancode_queue_sz
       \/ /\ scancode_queue_sz = QueueMax
          /\ scancode_queue_sz' = 0
          /\ UNCHANGED scancode_queue
    /\ pc' = "dec"
    /\ UNCHANGED <<mod_shift_set, val, irqs, raced, sent, taken, chars, panicked>>

\* Faulty variant: the release of left shift is ignored like the others.
DecodeStickyShift ==
    LET shift == mod_shift_set \/ (val.key = LShift /\ ~val.up)
    IN  /\ mod_shift_set' = shift
        /\ chars' = IF val.up \/ val.key \in Unmapped THEN chars
                    ELSE Append(chars, [key |-> val.key, shift |-> shift])

\* What getchar_async makes of val: a release changes at most the modifier,
\* a press returns the key's character unless the layout table holds 0.
Decode ==
    LET shift == IF val.key = LShift THEN ~val.up ELSE mod_shift_set
    IN  /\ mod_shift_set' = shift
        /\ chars' = IF val.up \/ val.key \in Unmapped THEN chars
                    ELSE Append(chars, [key |-> val.key, shift |-> shift])

\* Faulty variant: the size is decremented in memory, not in the register.
PopDecInMemory ==
    /\ ~panicked /\ pc = "dec"
    /\ scancode_queue_sz' = scancode_queue_sz - 1
    /\ Decode
    /\ pc' = "idle" /\ val' = Zero /\ reg' = 0 /\ irqs' = 0
    /\ UNCHANGED <<scancode_queue, raced, sent, taken, panicked>>

\* Faulty variant: the size is decremented twice.
PopDecTwice ==
    /\ ~panicked /\ pc = "dec"
    /\ scancode_queue_sz' = IF reg > 1 THEN reg - 2 ELSE 0
    /\ Decode
    /\ pc' = "idle" /\ val' = Zero /\ reg' = 0 /\ irqs' = 0
    /\ UNCHANGED <<scancode_queue, raced, sent, taken, panicked>>

\* scancode_queue_sz--; return val
PopDec ==
    /\ ~panicked /\ pc = "dec"
    /\ scancode_queue_sz' = reg - 1
    /\ Decode
    /\ pc' = "idle" /\ val' = Zero /\ reg' = 0 /\ irqs' = 0
    /\ UNCHANGED <<scancode_queue, raced, sent, taken, panicked>>

getchar_async == PopMove \/ PopClear \/ PopDec

Next ==
    \/ \E s \in Scancode \ {Zero} : recieve_scancode(s)
    \/ getchar_async

Spec == Init /\ [][Next]_vars

\* The reading thread goes on executing (Scheduler's EveryThreadRuns).
FairSpec == Spec /\ WF_vars(getchar_async)

-----------------------------------------------------------------------------
(* Properties *)

\* The keyboard's fields hold values of their types, and the size stays within
\* the array even though a pop stores a byte at index scancode_queue_sz.
TypeOK ==
    /\ scancode_queue \in [0 .. (QueueMax - 1) -> Scancode]
    /\ scancode_queue_sz \in 0 .. QueueMax
    /\ mod_shift_set \in BOOLEAN
    /\ pc \in {"idle", "clear", "dec"}
    /\ val \in Scancode
    /\ reg \in 0 .. QueueMax
    /\ irqs \in Nat /\ raced \in BOOLEAN
    /\ sent \in Seq(Scancode) /\ taken \in Seq(Scancode) /\ chars \in Seq(Char)
    /\ panicked \in BOOLEAN

\* The scancodes waiting in the queue, oldest first.
Unread == [i \in 1 .. scancode_queue_sz |-> scancode_queue[i - 1]]

\* "We have something in the queue": between two calls of read_scancode what was
\* taken, followed by what waits, is what the keyboard sent.
FifoAlways == pc = "idle" /\ ~panicked => sent = taken \o Unread

\* Nothing is lost, duplicated or reordered by recieve_scancode and
\* scancode_queue_pop as long as no interrupt lands inside a pop.
Fifo == ~raced => FifoAlways

\* A scancode taken from the queue, or waiting in it, is one the keyboard sent:
\* getchar_async never decodes the 0 that a pop writes, nor a stale slot.
OnlySentCodes ==
    LET Sent == {sent[i] : i \in 1 .. Len(sent)}
    IN  /\ \A i \in 1 .. Len(taken) : taken[i] \in Sent
        /\ pc = "idle" => \A i \in 1 .. scancode_queue_sz : Unread[i] \in Sent

\* Left shift is down after the first n scancodes of codes: the last of them
\* that is about it is a press.
ShiftDown(codes, n) ==
    \E i \in 1 .. n :
        /\ codes[i] = [key |-> LShift, up |-> FALSE]
        /\ \A j \in (i + 1) .. n : codes[j].key # LShift

\* Where in a sequence of scancodes a key with a character is pressed.
Presses(codes) ==
    {i \in 1 .. Len(codes) : ~codes[i].up /\ codes[i].key \notin Unmapped}

\* The only element of a set that has one.
The(S) == CHOOSE x \in S : TRUE

\* Where the k-th of them is.
NthPress(codes, k) ==
    The({i \in Presses(codes) : Cardinality(Presses(codes) \intersect (1 .. i)) = k})

\* The characters a sequence of scancodes types, stated without state.
Typed(codes) ==
    [k \in 1 .. Cardinality(Presses(codes)) |->
        [key   |-> codes[NthPress(codes, k)].key,
         shift |-> ShiftDown(codes, NthPress(codes, k))]]

\* getchar_async's incremental decoding of the scancodes it took yields the
\* characters they type, with shift applied as of the press of each key.
CharsMatchTyping == pc = "idle" => chars = Typed(taken)

\* Every scancode the keyboard sends is eventually taken by the reader, unless
\* an interrupt landed inside a pop, or recieve_scancode's assertion stopped the
\* kernel, which it may only when the reader is more than a queue behind.
EveryCodeRead ==
    \A n \in 1 .. MaxCodes :
        Len(sent) >= n ~> \/ Len(taken) >= n \/ raced
                          \/ panicked /\ Len(sent) - Len(taken) > QueueMax
=============================================================================
