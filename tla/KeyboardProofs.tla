--------------------------- MODULE KeyboardProofs ---------------------------
(***************************************************************************)
(* What holds of the scancode queue and of the decoding for every set of   *)
(* keys, every size of the queue and any number of interrupts, wherever    *)
(* in a pop they land.                                                     *)
(***************************************************************************)
EXTENDS Keyboard, FiniteSetTheorems, SequenceTheorems, TLAPS

-----------------------------------------------------------------------------
(* The inductive invariant *)

\* What the keyboard sends: the byte 0 is not among it.
Code == [key: Keys, up: BOOLEAN]

\* How many slots hold scancodes that no pop has taken.
Waiting ==
    IF pc = "idle" THEN scancode_queue_sz
    ELSE IF pc = "clear" THEN scancode_queue_sz - 1 ELSE reg - 1

\* A pop in progress has a scancode, and took it from a queue that had one.
PopOK ==
    /\ pc = "clear" => scancode_queue_sz >= 1
    /\ pc = "dec" => reg >= 1
    /\ pc # "idle" => taken # <<>> /\ val = taken[Len(taken)]

\* Only codes are sent and only codes are taken.
CodesOK == sent \in Seq(Code) /\ taken \in Seq(Code)

\* c is one of the codes.
OneOf(codes, c) == \E i \in 1 .. Len(codes) : codes[i] = c

\* Every slot up to where the next pop may read holds a code that was sent.
SlotsSent ==
    /\ \A i \in 1 .. Len(taken) : OneOf(sent, taken[i])
    /\ \A i \in 0 .. (Waiting - 1) : OneOf(sent, scancode_queue[i])
    /\ pc = "clear" => OneOf(sent, scancode_queue[scancode_queue_sz - 1])

\* Until an interrupt lands in a pop the taken codes and the waiting ones are
\* the sent ones, and after the store of the 0 the register has the size.
InOrder ==
    ~raced =>
        /\ ~panicked =>
              /\ Len(sent) = Len(taken) + Waiting
              /\ \A i \in 1 .. Len(taken) : sent[i] = taken[i]
              /\ \A i \in 1 .. Waiting : sent[Len(taken) + i] = scancode_queue[i - 1]
        /\ panicked => Len(sent) - Len(taken) > QueueMax

\* The codes getchar_async has turned into characters.
Decoded == IF pc = "idle" THEN taken ELSE SubSeq(taken, 1, Len(taken) - 1)

\* The characters and the shift flag are those of the codes decoded so far.
DecodingOK ==
    /\ chars = Typed(Decoded)
    /\ mod_shift_set = ShiftDown(Decoded, Len(Decoded))

\* The inductive invariant of the queue.
QueueInv == TypeOK /\ PopOK /\ CodesOK /\ SlotsSent /\ InOrder

-----------------------------------------------------------------------------

\* The empty queue satisfies it.
LEMMA InitQueue == Init => QueueInv
  <1> SUFFICES ASSUME Init PROVE QueueInv
    OBVIOUS
  <1>1. TypeOK
    <2>1. scancode_queue \in [0 .. (QueueMax - 1) -> Scancode]
      BY DEF Init, Scancode
    <2>2. scancode_queue_sz \in 0 .. QueueMax /\ reg \in 0 .. QueueMax /\ irqs \in Nat
      BY QueueAssumption DEF Init
    <2>3. /\ mod_shift_set \in BOOLEAN /\ raced \in BOOLEAN /\ panicked \in BOOLEAN
          /\ pc \in {"idle", "clear", "dec"} /\ val \in Scancode
      BY DEF Init, Scancode
    <2>4. sent \in Seq(Scancode) /\ taken \in Seq(Scancode) /\ chars \in Seq(Char)
      BY DEF Init
    <2>. QED  BY <2>1, <2>2, <2>3, <2>4 DEF TypeOK
  <1>2. PopOK /\ CodesOK
    BY DEF Init, PopOK, CodesOK
  <1>3. SlotsSent /\ InOrder
    BY DEF Init, SlotsSent, InOrder, Waiting
  <1>. QED  BY <1>1, <1>2, <1>3 DEF QueueInv

\* What recieve_scancode adds is sent, and what was sent stays so.
LEMMA SentGrows ==
    ASSUME sent \in Seq(Code), NEW s \in Code, sent' = Append(sent, s)
    PROVE  /\ sent' \in Seq(Code)
           /\ Len(sent') = Len(sent) + 1 /\ Len(sent) \in Nat
           /\ sent'[Len(sent) + 1] = s
           /\ \A i \in 1 .. Len(sent) : sent'[i] = sent[i]
           /\ \A c : OneOf(sent, c) => OneOf(sent', c)
           /\ OneOf(sent', s)
  <1>1. /\ sent' \in Seq(Code)
        /\ Len(sent') = Len(sent) + 1 /\ Len(sent) \in Nat
        /\ sent'[Len(sent) + 1] = s
        /\ \A i \in 1 .. Len(sent) : sent'[i] = sent[i]
    OBVIOUS
  <1>. QED  BY <1>1 DEF OneOf

\* A scancode other than 0 is what the keyboard sends.
LEMMA CodeFacts ==
    /\ Scancode \ {Zero} = Code
    /\ Code \subseteq Scancode
    /\ Seq(Code) \subseteq Seq(Scancode)
  <1>1. Scancode \ {Zero} = Code /\ Code \subseteq Scancode
    BY KeysAssumption DEF Scancode, Code
  <1>. QED  BY <1>1

\* An interrupt, in a pop or outside one.
LEMMA ReceiveKeeps ==
    ASSUME QueueInv, NEW s \in Code, recieve_scancode(s)
    PROVE  QueueInv'
  <1> USE DEF QueueInv
  <1>1. /\ sent' \in Seq(Code) /\ Len(sent') = Len(sent) + 1 /\ Len(sent) \in Nat
        /\ sent'[Len(sent) + 1] = s
        /\ \A i \in 1 .. Len(sent) : sent'[i] = sent[i]
        /\ \A c : OneOf(sent, c) => OneOf(sent', c)
        /\ OneOf(sent', s)
    BY SentGrows DEF CodesOK, recieve_scancode
  <1>2. /\ UNCHANGED <<mod_shift_set, pc, val, reg, taken, chars>>
        /\ raced' = (raced \/ pc # "idle") /\ ~panicked
        /\ irqs' = IF pc = "idle" THEN 0 ELSE irqs + 1
    BY DEF recieve_scancode
  <1>3. CASE /\ scancode_queue_sz < QueueMax
             /\ scancode_queue' = [scancode_queue EXCEPT ![scancode_queue_sz] = s]
             /\ scancode_queue_sz' = scancode_queue_sz + 1
             /\ UNCHANGED panicked
    <2>1. TypeOK'
      <3>1. scancode_queue' \in [0 .. (QueueMax - 1) -> Scancode]
        BY <1>3, CodeFacts DEF TypeOK
      <3>2. scancode_queue_sz' \in 0 .. QueueMax /\ irqs' \in Nat
        BY <1>2, <1>3, QueueAssumption DEF TypeOK
      <3>3. raced' \in BOOLEAN
        BY <1>2
      <3>4. sent' \in Seq(Scancode)
        BY <1>1, CodeFacts
      <3>. QED  BY <1>2, <1>3, <3>1, <3>2, <3>3, <3>4 DEF TypeOK
    <2>2. PopOK' /\ CodesOK'
      BY <1>1, <1>2, <1>3 DEF PopOK, CodesOK, TypeOK
    <2>3. \A i \in 0 .. (QueueMax - 1) :
             scancode_queue'[i] = IF i = scancode_queue_sz THEN s ELSE scancode_queue[i]
      BY <1>3 DEF TypeOK
    <2>4. SlotsSent'
      <3>1. \A i \in 1 .. Len(taken') : OneOf(sent', taken'[i])
        BY <1>1, <1>2 DEF SlotsSent
      <3>2. \A i \in 0 .. (Waiting' - 1) : OneOf(sent', scancode_queue'[i])
        <4> SUFFICES ASSUME NEW i \in 0 .. (Waiting' - 1)
                     PROVE  OneOf(sent', scancode_queue'[i])
          OBVIOUS
        <4>1. i \in 0 .. (QueueMax - 1)
          BY <1>2, <1>3, QueueAssumption DEF Waiting, TypeOK, PopOK
        <4>2. \/ i = scancode_queue_sz
              \/ i \in 0 .. (Waiting - 1)
              \/ pc = "clear" /\ i = scancode_queue_sz - 1
          <5>1. scancode_queue_sz \in Nat /\ scancode_queue_sz' = scancode_queue_sz + 1
            BY <1>3 DEF TypeOK
          <5>2. CASE pc = "idle"
            BY <1>2, <4>1, <5>1, <5>2 DEF Waiting
          <5>3. CASE pc = "clear"
            BY <1>2, <4>1, <5>1, <5>3 DEF Waiting
          <5>4. CASE pc = "dec"
            BY <1>2, <4>1, <5>4 DEF Waiting
          <5>. QED  BY <5>2, <5>3, <5>4 DEF TypeOK
        <4>. QED  BY <1>1, <2>3, <4>1, <4>2 DEF SlotsSent
      <3>3. pc' = "clear" => OneOf(sent', scancode_queue'[scancode_queue_sz' - 1])
        <4>1. scancode_queue_sz' - 1 = scancode_queue_sz
              /\ scancode_queue_sz \in 0 .. (QueueMax - 1)
          BY <1>3, QueueAssumption DEF TypeOK
        <4>. QED  BY <1>1, <2>3, <4>1
      <3>. QED  BY <3>1, <3>2, <3>3 DEF SlotsSent
    <2>5. InOrder'
      <3> SUFFICES ASSUME ~raced' PROVE InOrder'
        BY DEF InOrder
      <3>1. pc = "idle" /\ ~raced /\ ~panicked'
        BY <1>2, <1>3
      <3>2. Waiting = scancode_queue_sz /\ Waiting' = scancode_queue_sz + 1
        BY <1>2, <1>3, <3>1 DEF Waiting
      <3>3. /\ Len(sent) = Len(taken) + scancode_queue_sz
            /\ \A i \in 1 .. Len(taken) : sent[i] = taken[i]
            /\ \A i \in 1 .. scancode_queue_sz : sent[Len(taken) + i] = scancode_queue[i - 1]
        BY <1>2, <3>1, <3>2 DEF InOrder
      <3>4. Len(taken) \in Nat /\ scancode_queue_sz \in Nat /\ QueueMax \in Nat
        BY QueueAssumption DEF CodesOK, TypeOK
      <3>5. Len(sent') = Len(taken') + Waiting'
        BY <1>1, <1>2, <3>2, <3>3, <3>4
      <3>6. \A i \in 1 .. Len(taken') : sent'[i] = taken'[i]
        BY <1>1, <1>2, <3>3, <3>4
      <3>7. \A i \in 1 .. Waiting' : sent'[Len(taken') + i] = scancode_queue'[i - 1]
        <4> SUFFICES ASSUME NEW i \in 1 .. (scancode_queue_sz + 1)
                     PROVE  sent'[Len(taken) + i] = scancode_queue'[i - 1]
          BY <1>2, <3>2
        <4>1. CASE i = scancode_queue_sz + 1
          BY <1>1, <1>3, <2>3, <3>3, <3>4, <4>1
        <4>2. CASE i # scancode_queue_sz + 1
          <5>1. i \in 1 .. scancode_queue_sz /\ i - 1 # scancode_queue_sz
                /\ i - 1 \in 0 .. (QueueMax - 1) /\ Len(taken) + i \in 1 .. Len(sent)
            BY <1>3, <3>3, <3>4, <4>2
          <5>. QED  BY <1>1, <2>3, <3>3, <5>1
        <4>. QED  BY <4>1, <4>2
      <3>. QED  BY <3>1, <3>5, <3>6, <3>7 DEF InOrder
    <2>. QED  BY <2>1, <2>2, <2>4, <2>5
  <1>4. CASE /\ scancode_queue_sz >= QueueMax
             /\ panicked' = TRUE
             /\ UNCHANGED <<scancode_queue, scancode_queue_sz>>
    <2>1. TypeOK'
      <3>1. irqs' \in Nat
        BY <1>2 DEF TypeOK
      <3>2. raced' \in BOOLEAN /\ panicked' \in BOOLEAN
        BY <1>2, <1>4
      <3>3. sent' \in Seq(Scancode)
        BY <1>1, CodeFacts
      <3>. QED  BY <1>2, <1>4, <3>1, <3>2, <3>3 DEF TypeOK
    <2>2. PopOK' /\ CodesOK'
      BY <1>1, <1>2, <1>4 DEF PopOK, CodesOK
    <2>3. Waiting' = Waiting
      BY <1>2, <1>4 DEF Waiting
    <2>4. SlotsSent'
      BY <1>1, <1>2, <1>4, <2>3 DEF SlotsSent
    <2>5. InOrder'
      <3>1. ~raced' => Len(sent') - Len(taken') > QueueMax
        <4> SUFFICES ASSUME ~raced' PROVE Len(sent') - Len(taken') > QueueMax
          OBVIOUS
        <4>1. pc = "idle" /\ ~raced
          BY <1>2
        <4>2. Len(sent) = Len(taken) + scancode_queue_sz
          BY <1>2, <4>1 DEF InOrder, Waiting
        <4>. QED  BY <1>1, <1>2, <1>4, <4>2, QueueAssumption DEF CodesOK, TypeOK
      <3>. QED  BY <1>4, <3>1 DEF InOrder
    <2>. QED  BY <2>1, <2>2, <2>4, <2>5
  <1>. QED  BY <1>3, <1>4 DEF recieve_scancode

\* The queue as PopMove leaves it, slot by slot.
LEMMA PopMoveKeeps ==
    ASSUME QueueInv, PopMove
    PROVE  QueueInv'
  <1> USE DEF QueueInv
  <1>1. /\ ~panicked /\ pc = "idle" /\ scancode_queue_sz > 0 /\ pc' = "clear"
        /\ val' = scancode_queue[0] /\ taken' = Append(taken, scancode_queue[0])
        /\ irqs' = 0
        /\ UNCHANGED <<scancode_queue_sz, mod_shift_set, reg, raced, sent, chars, panicked>>
    BY DEF PopMove
  <1>2. /\ scancode_queue_sz \in 1 .. QueueMax /\ QueueMax \in Nat
        /\ Waiting = scancode_queue_sz /\ Waiting' = scancode_queue_sz - 1
    BY <1>1, QueueAssumption DEF Waiting, TypeOK
  <1>3. \A i \in 0 .. (QueueMax - 1) :
           scancode_queue'[i] = IF i < scancode_queue_sz - 1 THEN scancode_queue[i + 1]
                                ELSE scancode_queue[i]
    BY DEF PopMove
  <1>4. OneOf(sent, scancode_queue[0]) /\ scancode_queue[0] \in Code
    BY <1>2 DEF SlotsSent, CodesOK, OneOf
  <1>5. /\ taken' \in Seq(Code) /\ Len(taken') = Len(taken) + 1 /\ Len(taken) \in Nat
        /\ taken'[Len(taken) + 1] = scancode_queue[0] /\ taken' # <<>>
        /\ \A i \in 1 .. Len(taken) : taken'[i] = taken[i]
    BY <1>1, <1>4 DEF CodesOK
  <1>6. TypeOK'
    <2>1. scancode_queue' \in [0 .. (QueueMax - 1) -> Scancode]
      <3>1. \A i \in 0 .. (QueueMax - 1) : scancode_queue'[i] \in Scancode
        BY <1>2, <1>3 DEF TypeOK
      <3>. QED  BY <3>1 DEF PopMove
    <2>2. val' \in Scancode /\ taken' \in Seq(Scancode)
      BY <1>1, <1>4, <1>5, CodeFacts
    <2>. QED  BY <1>1, <2>1, <2>2 DEF TypeOK
  <1>7. PopOK' /\ CodesOK'
    BY <1>1, <1>2, <1>5 DEF PopOK, CodesOK
  <1>8. SlotsSent'
    <2>1. \A i \in 1 .. Len(taken') : OneOf(sent', taken'[i])
      BY <1>1, <1>4, <1>5 DEF SlotsSent
    <2>2. \A i \in 0 .. (scancode_queue_sz - 1) : OneOf(sent, scancode_queue'[i])
      BY <1>2, <1>3 DEF SlotsSent
    <2>. QED  BY <1>1, <1>2, <2>1, <2>2 DEF SlotsSent
  <1>9. InOrder'
    <2> SUFFICES ASSUME ~raced PROVE InOrder'
      BY <1>1 DEF InOrder
    <2>1. /\ Len(sent) = Len(taken) + scancode_queue_sz
          /\ \A i \in 1 .. Len(taken) : sent[i] = taken[i]
          /\ \A i \in 1 .. scancode_queue_sz : sent[Len(taken) + i] = scancode_queue[i - 1]
      BY <1>1, <1>2 DEF InOrder
    <2>2. Len(sent') = Len(taken') + Waiting'
      BY <1>1, <1>2, <1>5, <2>1
    <2>3. \A i \in 1 .. Len(taken') : sent'[i] = taken'[i]
      BY <1>1, <1>2, <1>5, <2>1
    <2>4. \A i \in 1 .. Waiting' : sent'[Len(taken') + i] = scancode_queue'[i - 1]
      <3> SUFFICES ASSUME NEW i \in 1 .. (scancode_queue_sz - 1)
                   PROVE  sent[Len(taken) + 1 + i] = scancode_queue'[i - 1]
        BY <1>1, <1>2, <1>5
      <3>1. scancode_queue'[i - 1] = scancode_queue[i]
        BY <1>2, <1>3
      <3>2. i + 1 \in 1 .. scancode_queue_sz /\ (i + 1) - 1 = i
            /\ Len(taken) + 1 + i = Len(taken) + (i + 1)
        BY <1>2, <1>5
      <3>. QED  BY <2>1, <3>1, <3>2
    <2>. QED  BY <1>1, <2>2, <2>3, <2>4 DEF InOrder
  <1>. QED  BY <1>6, <1>7, <1>8, <1>9

\* The 0 goes behind the codes that wait, or into the size, which the register keeps.
LEMMA PopClearKeeps ==
    ASSUME QueueInv, PopClear
    PROVE  QueueInv'
  <1> USE DEF QueueInv
  <1>1. /\ ~panicked /\ pc = "clear" /\ pc' = "dec" /\ reg' = scancode_queue_sz
        /\ UNCHANGED <<mod_shift_set, val, irqs, raced, sent, taken, chars, panicked>>
    BY DEF PopClear
  <1>2. /\ scancode_queue_sz \in 1 .. QueueMax /\ QueueMax \in Nat \ {0}
        /\ Waiting = scancode_queue_sz - 1 /\ Waiting' = Waiting
    BY <1>1, QueueAssumption DEF Waiting, TypeOK, PopOK
  <1>3. /\ scancode_queue_sz' \in 0 .. QueueMax
        /\ scancode_queue' \in [0 .. (QueueMax - 1) -> Scancode]
        /\ \A i \in 0 .. (scancode_queue_sz - 1) : scancode_queue'[i] = scancode_queue[i]
    <2>1. CASE /\ scancode_queue_sz < QueueMax
               /\ scancode_queue' = [scancode_queue EXCEPT ![scancode_queue_sz] = Zero]
               /\ UNCHANGED scancode_queue_sz
      BY <1>2, <2>1 DEF TypeOK, Scancode
    <2>2. CASE /\ scancode_queue_sz' = 0
               /\ UNCHANGED scancode_queue
      BY <1>2, <2>2 DEF TypeOK
    <2>. QED  BY <2>1, <2>2 DEF PopClear
  <1>4. TypeOK'
    BY <1>1, <1>2, <1>3 DEF TypeOK
  <1>5. PopOK' /\ CodesOK'
    BY <1>1, <1>2 DEF PopOK, CodesOK
  <1>6. SlotsSent'
    BY <1>1, <1>2, <1>3 DEF SlotsSent
  <1>7. InOrder'
    <2> SUFFICES ASSUME ~raced PROVE InOrder'
      BY <1>1 DEF InOrder
    <2>1. /\ Len(sent) = Len(taken) + Waiting
          /\ \A i \in 1 .. Len(taken) : sent[i] = taken[i]
          /\ \A i \in 1 .. Waiting : sent[Len(taken) + i] = scancode_queue[i - 1]
      BY <1>1 DEF InOrder
    <2>2. \A i \in 1 .. Waiting : sent[Len(taken) + i] = scancode_queue'[i - 1]
      BY <1>2, <1>3, <2>1
    <2>. QED  BY <1>1, <1>2, <2>1, <2>2 DEF InOrder
  <1>. QED  BY <1>4, <1>5, <1>6, <1>7

\* The last step of a pop.
LEMMA PopDecKeeps ==
    ASSUME QueueInv, PopDec
    PROVE  QueueInv'
  <1> USE DEF QueueInv
  <1>1. /\ ~panicked /\ pc = "dec" /\ pc' = "idle" /\ scancode_queue_sz' = reg - 1
        /\ val' = Zero /\ reg' = 0 /\ irqs' = 0
        /\ UNCHANGED <<scancode_queue, raced, sent, taken, panicked>>
    BY DEF PopDec
  <1>2. reg \in 1 .. QueueMax /\ Waiting = reg - 1 /\ Waiting' = Waiting /\ QueueMax \in Nat
    BY <1>1, QueueAssumption DEF Waiting, TypeOK, PopOK
  <1>3. val \in Code
    BY <1>1 DEF PopOK, CodesOK
  <1>4. mod_shift_set' \in BOOLEAN
    BY <1>3 DEF PopDec, Decode, TypeOK, Code
  <1>5. chars' \in Seq(Char)
    <2> DEFINE shift == IF val.key = LShift THEN ~val.up ELSE mod_shift_set
    <2>1. chars' = IF val.up \/ val.key \in Unmapped THEN chars
                   ELSE Append(chars, [key |-> val.key, shift |-> shift])
      BY DEF PopDec, Decode
    <2>2. val.key \notin Unmapped => [key |-> val.key, shift |-> shift] \in Char
      BY <1>3 DEF Char, Code, TypeOK
    <2>3. chars \in Seq(Char)
      BY DEF TypeOK
    <2> HIDE DEF shift
    <2>. QED  BY <2>1, <2>2, <2>3
  <1>6. TypeOK'
    <2>1. scancode_queue_sz' \in 0 .. QueueMax /\ reg' \in 0 .. QueueMax /\ irqs' \in Nat
      BY <1>1, <1>2
    <2>2. val' \in Scancode /\ pc' \in {"idle", "clear", "dec"}
      BY <1>1 DEF Scancode
    <2>. QED  BY <1>1, <1>4, <1>5, <2>1, <2>2 DEF TypeOK
  <1>7. PopOK' /\ CodesOK'
    BY <1>1 DEF PopOK, CodesOK
  <1>8. SlotsSent' /\ InOrder'
    BY <1>1, <1>2 DEF SlotsSent, InOrder
  <1>. QED  BY <1>6, <1>7, <1>8

\* Every step keeps the invariant of the queue.
LEMMA NextQueue == QueueInv /\ [Next]_vars => QueueInv'
  <1> SUFFICES ASSUME QueueInv, [Next]_vars PROVE QueueInv'
    OBVIOUS
  <1>1. ASSUME NEW s \in Scancode \ {Zero}, recieve_scancode(s) PROVE QueueInv'
    BY <1>1, CodeFacts, ReceiveKeeps
  <1>2. CASE getchar_async
    BY <1>2, PopMoveKeeps, PopClearKeeps, PopDecKeeps DEF getchar_async
  <1>3. CASE UNCHANGED vars
    BY <1>3 DEF vars, QueueInv, TypeOK, PopOK, CodesOK, SlotsSent, InOrder, Waiting
  <1>. QED  BY <1>1, <1>2, <1>3 DEF Next

\* The inductive invariant of the queue.
THEOREM QueueInvariance == Spec => []QueueInv
  BY InitQueue, NextQueue, PTL DEF Spec

\* The size of the queue stays within the array and every field within its type,
\* although a pop of a full queue stores its 0 in the size.
THEOREM TypeCorrect == Spec => []TypeOK
  <1>1. QueueInv => TypeOK
    BY DEF QueueInv
  <1>. QED  BY <1>1, QueueInvariance, PTL

\* As long as no interrupt lands inside a pop, recieve_scancode and
\* scancode_queue_pop lose, repeat and reorder nothing.
THEOREM QueueIsFifo == Spec => []Fifo
  <1>1. QueueInv => Fifo
    <2> SUFFICES ASSUME QueueInv, ~raced, pc = "idle", ~panicked
                 PROVE  sent = taken \o Unread
      BY DEF Fifo, FifoAlways
    <2>1. /\ Len(sent) = Len(taken) + scancode_queue_sz
          /\ \A i \in 1 .. Len(taken) : sent[i] = taken[i]
          /\ \A i \in 1 .. scancode_queue_sz : sent[Len(taken) + i] = scancode_queue[i - 1]
      BY DEF QueueInv, InOrder, Waiting
    <2>2. sent \in Seq(Scancode) /\ taken \in Seq(Scancode) /\ scancode_queue_sz \in 0 .. QueueMax
          /\ Len(sent) \in Nat /\ Len(taken) \in Nat
      BY DEF QueueInv, TypeOK
    <2>3. Unread \in Seq(Scancode) /\ Len(Unread) = scancode_queue_sz
      <3>1. \A i \in 1 .. scancode_queue_sz : scancode_queue[i - 1] \in Scancode
        BY <2>2, QueueAssumption DEF QueueInv, TypeOK
      <3>. QED  BY <2>2, <3>1, QueueAssumption DEF Unread
    <2>4. \A i \in 1 .. scancode_queue_sz : Unread[i] = scancode_queue[i - 1]
      BY DEF Unread
    <2> DEFINE both == taken \o Unread
    <2>5. /\ both \in Seq(Scancode) /\ Len(both) = Len(taken) + scancode_queue_sz
          /\ \A i \in 1 .. Len(both) :
                both[i] = IF i <= Len(taken) THEN taken[i] ELSE Unread[i - Len(taken)]
      BY <2>2, <2>3
    <2> HIDE DEF both
    <2>6. \A i \in 1 .. Len(sent) : sent[i] = both[i]
      <3> SUFFICES ASSUME NEW i \in 1 .. Len(sent) PROVE sent[i] = both[i]
        OBVIOUS
      <3>1. CASE i <= Len(taken)
        BY <2>1, <2>2, <2>5, <3>1
      <3>2. CASE i > Len(taken)
        <4>1. i - Len(taken) \in 1 .. scancode_queue_sz /\ Len(taken) + (i - Len(taken)) = i
          BY <2>1, <2>2, <3>2
        <4>2. both[i] = Unread[i - Len(taken)]
          BY <2>1, <2>2, <2>5, <3>2
        <4>3. sent[Len(taken) + (i - Len(taken))] = Unread[i - Len(taken)]
          BY <2>1, <2>4, <4>1
        <4>. QED  BY <4>1, <4>2, <4>3
      <3>. QED  BY <2>2, <3>1, <3>2
    <2>7. sent = both
      BY <2>1, <2>2, <2>5, <2>6, SeqEqual
    <2>. QED  BY <2>7 DEF both
  <1>. QED  BY <1>1, QueueInvariance, PTL

\* Whatever interrupts land inside pops, getchar_async decodes only scancodes
\* that the keyboard sent.
THEOREM OnlySentRead == Spec => []OnlySentCodes
  <1>1. QueueInv => OnlySentCodes
    <2> SUFFICES ASSUME QueueInv PROVE OnlySentCodes
      OBVIOUS
    <2>1. \A c : OneOf(sent, c) => c \in {sent[i] : i \in 1 .. Len(sent)}
      BY DEF OneOf
    <2>2. \A i \in 1 .. Len(taken) : taken[i] \in {sent[j] : j \in 1 .. Len(sent)}
      BY <2>1 DEF QueueInv, SlotsSent
    <2>3. ASSUME pc = "idle", NEW i \in 1 .. scancode_queue_sz
          PROVE  Unread[i] \in {sent[j] : j \in 1 .. Len(sent)}
      <3>1. Unread[i] = scancode_queue[i - 1] /\ i - 1 \in 0 .. (Waiting - 1)
        BY <2>3 DEF Unread, Waiting, QueueInv, TypeOK
      <3>. QED  BY <2>1, <3>1 DEF QueueInv, SlotsSent
    <2>. QED  BY <2>2, <2>3 DEF OnlySentCodes
  <1>. QED  BY <1>1, QueueInvariance, PTL

\* As long as no interrupt lands inside a pop, recieve_scancode's assertion stops
\* the kernel only when the reader is more than a queue behind.
THEOREM OverflowMeansBehind ==
    Spec => [](panicked /\ ~raced => Len(sent) - Len(taken) > QueueMax)
  <1>1. QueueInv => (panicked /\ ~raced => Len(sent) - Len(taken) > QueueMax)
    BY DEF QueueInv, InOrder
  <1>. QED  BY <1>1, QueueInvariance, PTL

-----------------------------------------------------------------------------
(* The characters *)

\* The presses of a sequence with one more scancode.
LEMMA PressesAppend ==
    ASSUME NEW codes \in Seq(Code), NEW c \in Code
    PROVE  /\ Presses(Append(codes, c)) =
                  Presses(codes) \union (IF c.up \/ c.key \in Unmapped THEN {} ELSE {Len(codes) + 1})
           /\ Presses(codes) \subseteq 1 .. Len(codes)
           /\ IsFiniteSet(Presses(codes))
  <1> DEFINE longer == Append(codes, c)
  <1>1. /\ Len(longer) = Len(codes) + 1 /\ Len(codes) \in Nat
        /\ longer[Len(codes) + 1] = c
        /\ \A i \in 1 .. Len(codes) : longer[i] = codes[i]
    OBVIOUS
  <1> HIDE DEF longer
  <1>2. \A i : i \in Presses(longer) <=>
                   \/ i \in Presses(codes)
                   \/ i = Len(codes) + 1 /\ ~c.up /\ c.key \notin Unmapped
    BY <1>1 DEF Presses
  <1>3. Presses(codes) \subseteq 1 .. Len(codes)
    BY DEF Presses
  <1>4. IsFiniteSet(Presses(codes))
    <2>1. IsFiniteSet(1 .. Len(codes))
      BY <1>1, FS_Interval
    <2>. QED  BY <1>3, <2>1, FS_Subset
  <1>. QED  BY <1>2, <1>3, <1>4 DEF longer

\* The presses that count up to one of the first ones do not change.
LEMMA NthPressAppend ==
    ASSUME NEW codes \in Seq(Code), NEW c \in Code,
           ~c.up, c.key \notin Unmapped
    PROVE  /\ Cardinality(Presses(codes)) \in Nat
           /\ Cardinality(Presses(Append(codes, c))) = Cardinality(Presses(codes)) + 1
           /\ \A k \in 1 .. Cardinality(Presses(codes)) :
                 NthPress(Append(codes, c), k) = NthPress(codes, k)
           /\ NthPress(Append(codes, c), Cardinality(Presses(codes)) + 1) = Len(codes) + 1
  <1> DEFINE P == Presses(codes)
             Q == Presses(Append(codes, c))
             n == Len(codes)
             m == Cardinality(P)
             At(R, k) == {i \in R : Cardinality(R \intersect (1 .. i)) = k}
  <1>1. Q = P \union {n + 1} /\ P \subseteq 1 .. n /\ IsFiniteSet(P) /\ n \in Nat
    BY PressesAppend
  <1>2. \A k : NthPress(codes, k) = The(At(P, k)) /\ NthPress(Append(codes, c), k) = The(At(Q, k))
    BY DEF NthPress
  <1> HIDE DEF P, Q, n
  <1>3. n + 1 \notin P
    BY <1>1
  <1>4. m \in Nat /\ Cardinality(Q) = m + 1
    BY <1>1, <1>3, FS_CardinalityType, FS_AddElement
  <1>5. \A i \in P : Q \intersect (1 .. i) = P \intersect (1 .. i)
    BY <1>1
  <1>6. Q \intersect (1 .. (n + 1)) = Q
    <2>1. Q \subseteq 1 .. (n + 1)
      BY <1>1
    <2>. QED  BY <2>1
  <1>7. \A i \in P : Cardinality(P \intersect (1 .. i)) <= m
    BY <1>1, FS_Subset
  <1> HIDE DEF m
  <1>8. ASSUME NEW k \in 1 .. m PROVE At(Q, k) = At(P, k)
    <2>1. \A i \in P : i \in At(Q, k) <=> i \in At(P, k)
      BY <1>1, <1>5
    <2>2. n + 1 \notin At(Q, k)
      <3>1. Cardinality(Q \intersect (1 .. (n + 1))) = m + 1
        BY <1>4, <1>6
      <3>2. k # m + 1
        BY <1>4
      <3>. QED  BY <3>1, <3>2
    <2>3. At(Q, k) \subseteq P \union {n + 1} /\ At(P, k) \subseteq P
      BY <1>1
    <2>. QED  BY <2>1, <2>2, <2>3
  <1>9. At(Q, m + 1) = {n + 1}
    <2>1. ASSUME NEW i \in P PROVE Cardinality(Q \intersect (1 .. i)) # m + 1
      <3>1. Cardinality(P \intersect (1 .. i)) <= m
        BY <1>7
      <3>2. Cardinality(P \intersect (1 .. i)) \in Nat
        BY <1>1, FS_Subset, FS_CardinalityType
      <3>3. Cardinality(Q \intersect (1 .. i)) = Cardinality(P \intersect (1 .. i))
        BY <1>5
      <3>. QED  BY <1>4, <3>1, <3>2, <3>3
    <2>. QED  BY <1>1, <1>4, <1>6, <2>1
  <1> HIDE DEF At
  <1>10. \A k \in 1 .. m : NthPress(Append(codes, c), k) = NthPress(codes, k)
    BY <1>2, <1>8
  <1>11. The({n + 1}) = n + 1
    BY DEF The
  <1>. QED  BY <1>2, <1>4, <1>9, <1>10, <1>11 DEF P, Q, n, m

\* Where the k-th press is: among the scancodes.
LEMMA NthPressInRange ==
    ASSUME NEW codes \in Seq(Code), NEW c \in Code,
           \A k \in 1 .. Cardinality(Presses(codes)) : NthPress(codes, k) \in 1 .. Len(codes)
    PROVE  \A k \in 1 .. Cardinality(Presses(Append(codes, c))) :
              NthPress(Append(codes, c), k) \in 1 .. Len(Append(codes, c))
  <1> DEFINE longer == Append(codes, c)
  <1>1. Len(longer) = Len(codes) + 1 /\ Len(codes) \in Nat
    OBVIOUS
  <1>2. CASE c.up \/ c.key \in Unmapped
    <2>1. Presses(longer) = Presses(codes)
      BY <1>2, PressesAppend
    <2> HIDE DEF longer
    <2>2. \A k : NthPress(longer, k) = NthPress(codes, k)
      BY <2>1 DEF NthPress
    <2>. QED  BY <1>1, <2>1, <2>2 DEF longer
  <1>3. CASE ~(c.up \/ c.key \in Unmapped)
    <2> DEFINE m == Cardinality(Presses(codes))
    <2>1. /\ m \in Nat /\ Cardinality(Presses(longer)) = m + 1
          /\ \A k \in 1 .. m : NthPress(longer, k) = NthPress(codes, k)
          /\ NthPress(longer, m + 1) = Len(codes) + 1
      BY <1>3, NthPressAppend
    <2>2. \A k \in 1 .. m : NthPress(codes, k) \in 1 .. Len(codes)
      OBVIOUS
    <2> HIDE DEF longer, m
    <2>3. \A k \in 1 .. (m + 1) : k = m + 1 \/ k \in 1 .. m
      BY <2>1
    <2>. QED  BY <1>1, <2>1, <2>2, <2>3 DEF longer
  <1>. QED  BY <1>2, <1>3

\* Shift after one more scancode.
LEMMA ShiftDownAppend ==
    ASSUME NEW codes \in Seq(Code), NEW c \in Code
    PROVE  /\ ShiftDown(Append(codes, c), Len(codes) + 1) =
                  IF c.key = LShift THEN ~c.up ELSE ShiftDown(codes, Len(codes))
           /\ \A n \in 1 .. Len(codes) : ShiftDown(Append(codes, c), n) = ShiftDown(codes, n)
  <1> DEFINE longer == Append(codes, c)
             n == Len(codes)
  <1>1. /\ n \in Nat /\ longer[n + 1] = c
        /\ \A i \in 1 .. n : longer[i] = codes[i]
    OBVIOUS
  <1> HIDE DEF longer, n
  <1>2. c = [key |-> LShift, up |-> FALSE] <=> c.key = LShift /\ ~c.up
    BY DEF Code
  <1>3. \A k \in 1 .. n : ShiftDown(longer, k) = ShiftDown(codes, k)
    <2> SUFFICES ASSUME NEW k \in 1 .. n PROVE ShiftDown(longer, k) = ShiftDown(codes, k)
      OBVIOUS
    <2>1. \A i \in 1 .. k : longer[i] = codes[i] /\ \A j \in (i + 1) .. k : longer[j] = codes[j]
      BY <1>1
    <2>. QED  BY <2>1 DEF ShiftDown
  <1>4. CASE c.key = LShift
    <2>1. ASSUME ~c.up PROVE ShiftDown(longer, n + 1)
      <3>1. longer[n + 1] = [key |-> LShift, up |-> FALSE] /\ n + 1 \in 1 .. (n + 1)
            /\ (n + 1 + 1) .. (n + 1) = {}
        BY <1>1, <1>2, <1>4, <2>1
      <3>. QED  BY <3>1 DEF ShiftDown
    <2>2. ASSUME ShiftDown(longer, n + 1) PROVE ~c.up
      <3>1. PICK i \in 1 .. (n + 1) : /\ longer[i] = [key |-> LShift, up |-> FALSE]
                                      /\ \A j \in (i + 1) .. (n + 1) : longer[j].key # LShift
        BY <2>2 DEF ShiftDown
      <3>2. i = n + 1
        BY <1>1, <1>4, <3>1
      <3>. QED  BY <1>1, <1>2, <3>1, <3>2
    <2>3. ShiftDown(longer, n + 1) \in BOOLEAN /\ (~c.up) \in BOOLEAN
      BY DEF ShiftDown
    <2>. QED  BY <1>3, <1>4, <2>1, <2>2, <2>3 DEF longer, n
  <1>5. CASE c.key # LShift
    <2>1. ASSUME ShiftDown(codes, n) PROVE ShiftDown(longer, n + 1)
      <3>1. PICK i \in 1 .. n : /\ codes[i] = [key |-> LShift, up |-> FALSE]
                                /\ \A j \in (i + 1) .. n : codes[j].key # LShift
        BY <2>1 DEF ShiftDown
      <3>2. \A j \in (i + 1) .. (n + 1) : longer[j].key # LShift
        BY <1>1, <1>5, <3>1
      <3>. QED  BY <1>1, <3>1, <3>2 DEF ShiftDown
    <2>2. ASSUME ShiftDown(longer, n + 1) PROVE ShiftDown(codes, n)
      <3>1. PICK i \in 1 .. (n + 1) : /\ longer[i] = [key |-> LShift, up |-> FALSE]
                                      /\ \A j \in (i + 1) .. (n + 1) : longer[j].key # LShift
        BY <2>2 DEF ShiftDown
      <3>2. i \in 1 .. n
        BY <1>1, <1>5, <3>1
      <3>3. \A j \in (i + 1) .. n : codes[j].key # LShift
        BY <1>1, <3>1
      <3>. QED  BY <1>1, <3>1, <3>2, <3>3 DEF ShiftDown
    <2>3. ShiftDown(longer, n + 1) \in BOOLEAN /\ ShiftDown(codes, n) \in BOOLEAN
      BY DEF ShiftDown
    <2>. QED  BY <1>3, <1>5, <2>1, <2>2, <2>3 DEF longer, n
  <1>. QED  BY <1>4, <1>5

\* The characters that one more scancode types, in getchar_async's terms.
LEMMA TypedAppend ==
    ASSUME NEW codes \in Seq(Code), NEW c \in Code,
           \A k \in 1 .. Cardinality(Presses(codes)) : NthPress(codes, k) \in 1 .. Len(codes),
           NEW shift, shift = IF c.key = LShift THEN ~c.up ELSE ShiftDown(codes, Len(codes))
    PROVE  Typed(Append(codes, c)) =
              IF c.up \/ c.key \in Unmapped THEN Typed(codes)
              ELSE Append(Typed(codes), [key |-> c.key, shift |-> shift])
  <1> DEFINE longer == Append(codes, c)
             m == Cardinality(Presses(codes))
             Nth(k) == [key |-> codes[NthPress(codes, k)].key,
                        shift |-> ShiftDown(codes, NthPress(codes, k))]
             NthL(k) == [key |-> longer[NthPress(longer, k)].key,
                         shift |-> ShiftDown(longer, NthPress(longer, k))]
  <1>1. /\ Len(longer) = Len(codes) + 1 /\ Len(codes) \in Nat
        /\ longer[Len(codes) + 1] = c
        /\ \A i \in 1 .. Len(codes) : longer[i] = codes[i]
    OBVIOUS
  <1>2. /\ \A k \in 1 .. Len(codes) : ShiftDown(longer, k) = ShiftDown(codes, k)
        /\ ShiftDown(longer, Len(codes) + 1) = shift
    BY ShiftDownAppend
  <1>3. /\ Typed(codes) = [k \in 1 .. m |-> Nth(k)]
        /\ Typed(longer) = [k \in 1 .. Cardinality(Presses(longer)) |-> NthL(k)]
    BY DEF Typed
  <1>4. \A k \in 1 .. m : NthPress(codes, k) \in 1 .. Len(codes)
    OBVIOUS
  <1>5. CASE c.up \/ c.key \in Unmapped
    <2>1. Presses(longer) = Presses(codes)
      BY <1>5, PressesAppend
    <2>2. \A k : NthPress(longer, k) = NthPress(codes, k)
      BY <2>1 DEF NthPress
    <2> HIDE DEF longer
    <2>3. \A k \in 1 .. m : NthL(k) = Nth(k)
      BY <1>1, <1>2, <1>4, <2>2
    <2>4. Typed(longer) = [k \in 1 .. m |-> NthL(k)]
      BY <1>3, <2>1
    <2> HIDE DEF m, Nth, NthL
    <2>5. Typed(longer) = Typed(codes)
      BY <1>3, <2>3, <2>4
    <2>. QED  BY <1>5, <2>5 DEF longer
  <1>6. CASE ~(c.up \/ c.key \in Unmapped)
    <2>1. /\ m \in Nat /\ Cardinality(Presses(longer)) = m + 1
          /\ \A k \in 1 .. m : NthPress(longer, k) = NthPress(codes, k)
          /\ NthPress(longer, m + 1) = Len(codes) + 1
      BY <1>6, NthPressAppend
    <2> HIDE DEF longer
    <2>2. \A k \in 1 .. m : NthL(k) = Nth(k)
      BY <1>1, <1>2, <1>4, <2>1
    <2>3. NthL(m + 1) = [key |-> c.key, shift |-> shift]
      BY <1>1, <1>2, <2>1
    <2>4. Typed(longer) = [k \in 1 .. (m + 1) |-> NthL(k)]
      BY <1>3, <2>1
    <2> HIDE DEF m, Nth, NthL
    <2>5. Typed(longer) = Append(Typed(codes), [key |-> c.key, shift |-> shift])
      <3> DEFINE last == [key |-> c.key, shift |-> shift]
                 S == {Nth(k) : k \in 1 .. m} \union {last}
      <3>1. Typed(codes) \in Seq(S) /\ Len(Typed(codes)) = m
            /\ \A k \in 1 .. m : Typed(codes)[k] = Nth(k)
        BY <1>3, <2>1
      <3>2. last \in S
        OBVIOUS
      <3>3. \A k \in 1 .. (m + 1) : NthL(k) = IF k = m + 1 THEN last ELSE Typed(codes)[k]
        BY <2>1, <2>2, <2>3, <3>1
      <3> HIDE DEF last, S
      <3>4. /\ Append(Typed(codes), last) \in Seq(S)
            /\ Len(Append(Typed(codes), last)) = m + 1
            /\ \A k \in 1 .. (m + 1) :
                  Append(Typed(codes), last)[k] = IF k = m + 1 THEN last ELSE Typed(codes)[k]
        BY <2>1, <3>1, <3>2
      <3>5. Typed(longer) \in Seq(S) /\ Len(Typed(longer)) = m + 1
            /\ \A k \in 1 .. (m + 1) : Typed(longer)[k] = NthL(k)
        <4>1. \A k \in 1 .. (m + 1) : NthL(k) \in S
          BY <2>1, <2>2, <2>3 DEF S, last
        <4>. QED  BY <2>1, <2>4, <4>1
      <3>. QED  BY <3>3, <3>4, <3>5, SeqEqual DEF last
    <2>. QED  BY <1>6, <2>5 DEF longer
  <1>. QED  BY <1>5, <1>6

\* The invariant of the decoding: every press found lies among the scancodes, so
\* that what later scancodes add does not change the characters before them.
PressesFound ==
    \A k \in 1 .. Cardinality(Presses(Decoded)) : NthPress(Decoded, k) \in 1 .. Len(Decoded)

\* The inductive invariant of the decoding.
DecodingInv == DecodingOK /\ PressesFound

\* Initially nothing is decoded.
LEMMA InitDecoding == Init => DecodingInv
  <1> SUFFICES ASSUME Init PROVE DecodingInv
    OBVIOUS
  <1>1. Decoded = <<>> /\ Len(Decoded) = 0
    BY DEF Init, Decoded
  <1>2. Presses(Decoded) = {} /\ Cardinality(Presses(Decoded)) = 0
    <2>1. Presses(Decoded) = {}
      BY <1>1 DEF Presses
    <2>. QED  BY <2>1, FS_EmptySet
  <1>3. Typed(Decoded) = <<>>
    BY <1>2 DEF Typed
  <1>4. ShiftDown(Decoded, Len(Decoded)) = FALSE
    BY <1>1 DEF ShiftDown
  <1>5. chars = <<>> /\ mod_shift_set = FALSE
    BY DEF Init
  <1>6. DecodingOK
    BY <1>3, <1>4, <1>5 DEF DecodingOK
  <1>7. PressesFound
    BY <1>2 DEF PressesFound
  <1>. QED  BY <1>6, <1>7 DEF DecodingInv

\* A step that leaves the decoded scancodes alone.
LEMMA SameDecoded ==
    ASSUME DecodingInv, UNCHANGED <<chars, mod_shift_set>>, Decoded' = Decoded
    PROVE  DecodingInv'
  BY DEF DecodingInv, DecodingOK, PressesFound

\* Every step keeps the invariant of the decoding.
LEMMA NextDecoding == QueueInv /\ DecodingInv /\ [Next]_vars => DecodingInv'
  <1> SUFFICES ASSUME QueueInv, DecodingInv, [Next]_vars PROVE DecodingInv'
    OBVIOUS
  <1>1. taken \in Seq(Code)
    BY DEF QueueInv, CodesOK
  <1>2. ASSUME NEW s \in Scancode \ {Zero}, recieve_scancode(s) PROVE DecodingInv'
    BY <1>2, SameDecoded DEF recieve_scancode, Decoded
  <1>3. CASE PopMove
    <2>1. scancode_queue[0] \in Code
      BY <1>3 DEF PopMove, QueueInv, SlotsSent, CodesOK, OneOf, Waiting, TypeOK
    <2>2. Decoded = taken /\ Decoded' = SubSeq(taken', 1, Len(taken') - 1)
          /\ taken' = Append(taken, scancode_queue[0])
      BY <1>3 DEF PopMove, Decoded
    <2>3. Decoded' = Decoded
      BY <1>1, <2>1, <2>2
    <2>. QED  BY <1>3, <2>3, SameDecoded DEF PopMove
  <1>4. CASE PopClear
    BY <1>4, SameDecoded DEF PopClear, Decoded
  <1>5. CASE PopDec
    <2>1. /\ pc = "dec" /\ Decoded = SubSeq(taken, 1, Len(taken) - 1) /\ Decoded' = taken
          /\ taken # <<>> /\ val = taken[Len(taken)]
      BY <1>5 DEF PopDec, Decoded, QueueInv, PopOK
    <2>2. Decoded \in Seq(Code) /\ val \in Code /\ taken = Append(Decoded, val)
      <3>1. Len(taken) \in Nat /\ Len(taken) >= 1
        BY <1>1, <2>1
      <3>2. /\ Decoded \in Seq(Code) /\ Len(Decoded) = Len(taken) - 1
            /\ \A i \in 1 .. (Len(taken) - 1) : Decoded[i] = taken[i]
        <4> DEFINE n == Len(taken) - 1
        <4>1. n \in 0 .. Len(taken) /\ Decoded = SubSeq(taken, 1, n)
          BY <2>1, <3>1
        <4> HIDE DEF n
        <4>2. /\ SubSeq(taken, 1, n) \in Seq(Code) /\ Len(SubSeq(taken, 1, n)) = n
              /\ \A i \in 1 .. n : SubSeq(taken, 1, n)[i] = taken[i]
          BY <1>1, <4>1
        <4>. QED  BY <4>1, <4>2 DEF n
      <3>3. val \in Code
        <4>1. Len(taken) \in 1 .. Len(taken)
          BY <3>1
        <4>. QED  BY <1>1, <2>1, <4>1, ElementOfSeq
      <3> DEFINE again == Append(Decoded, val)
      <3>4. /\ again \in Seq(Code) /\ Len(again) = Len(taken)
            /\ \A i \in 1 .. Len(taken) : again[i] = taken[i]
        BY <2>1, <3>1, <3>2, <3>3
      <3> HIDE DEF again
      <3>5. again = taken
        BY <1>1, <3>4, SeqEqual
      <3>. QED  BY <3>2, <3>3, <3>5 DEF again
    <2> DEFINE shift == IF val.key = LShift THEN ~val.up ELSE mod_shift_set
    <2>3. /\ mod_shift_set' = shift
          /\ chars' = IF val.up \/ val.key \in Unmapped THEN chars
                      ELSE Append(chars, [key |-> val.key, shift |-> shift])
      BY <1>5 DEF PopDec, Decode
    <2>4. shift = IF val.key = LShift THEN ~val.up ELSE ShiftDown(Decoded, Len(Decoded))
      BY DEF DecodingInv, DecodingOK
    <2>5. chars' = Typed(Append(Decoded, val))
      <3> HIDE DEF shift
      <3>. QED  BY <2>2, <2>3, <2>4, TypedAppend DEF DecodingInv, DecodingOK, PressesFound
    <2>6. mod_shift_set' = ShiftDown(Append(Decoded, val), Len(Append(Decoded, val)))
      BY <2>2, <2>3, <2>4, ShiftDownAppend
    <2>7. \A k \in 1 .. Cardinality(Presses(Append(Decoded, val))) :
              NthPress(Append(Decoded, val), k) \in 1 .. Len(Append(Decoded, val))
      BY <2>2, NthPressInRange DEF DecodingInv, PressesFound
    <2>8. Decoded' = Append(Decoded, val)
      BY <2>1, <2>2
    <2>. QED  BY <2>5, <2>6, <2>7, <2>8 DEF DecodingInv, DecodingOK, PressesFound
  <1>6. CASE UNCHANGED vars
    BY <1>6, SameDecoded DEF vars, Decoded
  <1>. QED  BY <1>2, <1>3, <1>4, <1>5, <1>6 DEF Next, getchar_async

\* getchar_async's decoding, one scancode at a time and with one shift flag, yields
\* the characters that the scancodes it took type, whatever interrupts do.
THEOREM DecodingCorrect == Spec => []CharsMatchTyping
  <1>1. DecodingInv => CharsMatchTyping
    BY DEF DecodingInv, DecodingOK, CharsMatchTyping, Decoded
  <1>. QED  BY <1>1, InitDecoding, NextDecoding, QueueInvariance, PTL DEF Spec

=============================================================================
