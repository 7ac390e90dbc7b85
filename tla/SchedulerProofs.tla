--------------------------- MODULE SchedulerProofs ---------------------------
(***************************************************************************)
(* What holds of the scheduler however many ticks land inside Schedule:    *)
(* proofs for every set of threads, every MaxTries and every MaxDepth.     *)
(***************************************************************************)
EXTENDS Scheduler, TLAPS

-----------------------------------------------------------------------------
(* The inductive invariant *)

\* The pointers an activation is about to dereference are not null.
FrameOK(f) ==
    /\ f.pc \in {"test", "mark_cur", "mark_new"} => f.new # Null
    /\ f.pc \in {"load_cur", "set_cur", "save", "jump"} => f.arg # Null
    /\ f.pc \in {"set_cur", "save"} => f.cur # Null

\* No activation is about to dereference a null pointer.
FramesOK == \A t \in Threads : \A i \in DOMAIN frames[t] : FrameOK(frames[t][i])

\* A saved context lies within the live part of the stack it addresses.
ContextsOK ==
    \A t \in Threads :
        stackTop[t] # Dangling => stackTop[t].depth <= Len(frames[stackTop[t].stk])

\* An activation that will store an index past the end before it reads one.
Harmless(f) ==
    /\ f.pc \in {"check", "load", "store"}
    /\ f.pc = "store" => f.reg >= Len(threads)

\* currentThreadIndex is past the end only while an activation on the executing
\* stack is about to wrap it, and the ticks above that activation are harmless.
IndexOK ==
    currentThreadIndex >= Len(threads) =>
        \E k \in DOMAIN frames[rsp] :
            /\ frames[rsp][k].pc = "wrap"
            /\ \A j \in DOMAIN frames[rsp] : j > k => Harmless(frames[rsp][j])

\* While scheduling is disabled no activation on the executing stack is past
\* its first test.
GateOK ==
    ~schedulingEnabled => \A i \in DOMAIN frames[rsp] : frames[rsp][i].pc = "check"

\* Before boot ends, nothing is scheduled and nobody debugs.
BootOK == ~booted => ~schedulingEnabled /\ rsp = Idle /\ \A t \in Threads : dbg[t] = "out"

\* Who has the debugger open has stopped the scheduling, and executes.
DebuggerOK ==
    \A t \in Threads :
        /\ dbg[t] # "out" => was[t] /\ booted
        /\ dbg[t] = "open" => ~schedulingEnabled /\ rsp = t

\* The inductive invariant for any depth of nested ticks.
AnyDepthInv ==
    /\ TypeOK
    /\ FramesOK
    /\ ContextsOK
    /\ IndexOK
    /\ GateOK
    /\ BootOK
    /\ DebuggerOK
    /\ SchedulingNotLost

-----------------------------------------------------------------------------
(* Stacks of activations *)

\* ReplaceTop changes the last element and nothing else.
LEMMA ReplaceTopFacts ==
    ASSUME NEW S, NEW fs \in Seq(S), fs # <<>>, NEW f \in S
    PROVE  /\ ReplaceTop(fs, f) \in Seq(S)
           /\ Len(ReplaceTop(fs, f)) = Len(fs)
           /\ ReplaceTop(fs, f)[Len(fs)] = f
           /\ \A i \in 1 .. Len(fs) : i # Len(fs) => ReplaceTop(fs, f)[i] = fs[i]
  <1>1. Len(fs) \in 1 .. Len(fs) /\ DOMAIN fs = 1 .. Len(fs)
    <2>1. Len(fs) \in Nat /\ DOMAIN fs = 1 .. Len(fs) /\ Len(fs) # 0
      OBVIOUS
    <2>. QED  BY <2>1
  <1>2. ReplaceTop(fs, f) = [i \in 1 .. Len(fs) |-> IF i = Len(fs) THEN f ELSE fs[i]]
    BY <1>1 DEF ReplaceTop
  <1>3. Len(fs) \in Nat /\ \A i \in 1 .. Len(fs) : fs[i] \in S
    OBVIOUS
  <1>4. ReplaceTop(fs, f) \in Seq(S)
    <2> DEFINE n == Len(fs)
               g(i) == IF i = n THEN f ELSE fs[i]
    <2>1. \A i \in 1 .. n : g(i) \in S
      BY <1>3
    <2>2. n \in Nat
      BY <1>3
    <2>3. ReplaceTop(fs, f) = [i \in 1 .. n |-> g(i)]
      BY <1>2
    <2> HIDE DEF n, g
    <2>4. [i \in 1 .. n |-> g(i)] \in Seq(S)
      BY <2>1, <2>2
    <2>. QED  BY <2>3, <2>4
  <1>5. DOMAIN ReplaceTop(fs, f) = 1 .. Len(fs)
    BY <1>2
  <1>6. Len(ReplaceTop(fs, f)) = Len(fs)
    BY <1>3, <1>4, <1>5
  <1>. QED  BY <1>2, <1>4, <1>6

\* The same for activations, as one fact to be instantiated whole.
ReplacesTop(fs, f) ==
    /\ ReplaceTop(fs, f) \in Seq(Frame)
    /\ Len(ReplaceTop(fs, f)) = Len(fs)
    /\ ReplaceTop(fs, f)[Len(fs)] = f
    /\ \A i \in 1 .. Len(fs) : i # Len(fs) => ReplaceTop(fs, f)[i] = fs[i]

\* Step replaces the innermost activation whatever the stack.
LEMMA TopReplaced ==
    \A fs \in Seq(Frame), f \in Frame : fs # <<>> => ReplacesTop(fs, f)
  <1> SUFFICES ASSUME NEW fs \in Seq(Frame), NEW f \in Frame, fs # <<>>
               PROVE  ReplacesTop(fs, f)
    OBVIOUS
  <1> DEFINE S == Frame
  <1>1. fs \in Seq(S) /\ f \in S
    OBVIOUS
  <1> HIDE DEF S
  <1>2. /\ ReplaceTop(fs, f) \in Seq(S)
        /\ Len(ReplaceTop(fs, f)) = Len(fs)
        /\ ReplaceTop(fs, f)[Len(fs)] = f
        /\ \A i \in 1 .. Len(fs) : i # Len(fs) => ReplaceTop(fs, f)[i] = fs[i]
    BY <1>1, ReplaceTopFacts
  <1>. QED  BY <1>2 DEF ReplacesTop, S

\* A prefix of a sequence of activations.
LEMMA PrefixFacts ==
    ASSUME NEW S, NEW fs \in Seq(S), NEW n \in 0 .. Len(fs)
    PROVE  /\ SubSeq(fs, 1, n) \in Seq(S)
           /\ Len(SubSeq(fs, 1, n)) = n
           /\ \A i \in 1 .. n : SubSeq(fs, 1, n)[i] = fs[i]
  OBVIOUS

\* The innermost activation, where there is one.
LEMMA TopFacts ==
    ASSUME TypeOK, NEW t \in Threads, frames[t] # <<>>
    PROVE  /\ Len(frames[t]) \in Nat \ {0}
           /\ DOMAIN frames[t] = 1 .. Len(frames[t])
           /\ Len(frames[t]) \in DOMAIN frames[t]
           /\ Top(frames[t]) = frames[t][Len(frames[t])]
           /\ Top(frames[t]) \in Frame
  <1>1. frames[t] \in Seq(Frame)
    BY DEF TypeOK
  <1>. QED  BY <1>1 DEF Top

\* Step(f) rewrites the innermost activation of the executing stack only.
LEMMA StepFacts ==
    ASSUME TypeOK, frames[rsp] # <<>>, NEW f \in Frame, Step(f)
    PROVE  /\ frames' \in [Threads -> Seq(Frame)]
           /\ \A t \in Threads : Len(frames'[t]) = Len(frames[t])
           /\ \A t \in Threads : DOMAIN frames'[t] = DOMAIN frames[t]
           /\ frames'[rsp][Len(frames[rsp])] = f
           /\ \A t \in Threads : \A i \in DOMAIN frames[t] :
                 t # rsp \/ i # Len(frames[rsp]) => frames'[t][i] = frames[t][i]
  <1>1. rsp \in Threads /\ frames \in [Threads -> Seq(Frame)] /\ frames[rsp] \in Seq(Frame)
    BY DEF TypeOK
  <1>2. frames' = [t \in Threads |-> IF t = rsp THEN ReplaceTop(frames[rsp], f) ELSE frames[t]]
    BY <1>1 DEF Step
  <1>3. /\ ReplaceTop(frames[rsp], f) \in Seq(Frame)
        /\ Len(ReplaceTop(frames[rsp], f)) = Len(frames[rsp])
        /\ ReplaceTop(frames[rsp], f)[Len(frames[rsp])] = f
        /\ \A i \in 1 .. Len(frames[rsp]) :
              i # Len(frames[rsp]) => ReplaceTop(frames[rsp], f)[i] = frames[rsp][i]
    BY <1>1, ReplaceTopFacts
  <1>4. \A t \in Threads : DOMAIN frames[t] = 1 .. Len(frames[t])
    BY <1>1
  <1>5. frames' \in [Threads -> Seq(Frame)]
    BY <1>1, <1>2, <1>3
  <1>6. \A t \in Threads : Len(frames'[t]) = Len(frames[t])
    BY <1>1, <1>2, <1>3
  <1>7. \A t \in Threads : DOMAIN frames'[t] = DOMAIN frames[t]
    <2> TAKE t \in Threads
    <2>1. frames'[t] \in Seq(Frame)
      BY <1>5
    <2>. QED  BY <2>1, <1>4, <1>6
  <1>8. frames'[rsp][Len(frames[rsp])] = f
    BY <1>1, <1>2, <1>3
  <1>9. ASSUME NEW t \in Threads, NEW i \in DOMAIN frames[t],
               t # rsp \/ i # Len(frames[rsp])
        PROVE  frames'[t][i] = frames[t][i]
    BY <1>1, <1>2, <1>3, <1>4, <1>9
  <1>. QED  BY <1>5, <1>6, <1>7, <1>8, <1>9

-----------------------------------------------------------------------------
(* What the invariant says of the executing activation *)

\* An activation past its first test executes with scheduling enabled.
LEMMA PastGate ==
    ASSUME AnyDepthInv, frames[rsp] # <<>>, This.pc # "check"
    PROVE  schedulingEnabled /\ booted
  <1>1. rsp \in Threads
    BY DEF AnyDepthInv, TypeOK
  <1>2. Len(frames[rsp]) \in DOMAIN frames[rsp] /\ This = frames[rsp][Len(frames[rsp])]
    BY <1>1, TopFacts DEF AnyDepthInv, This
  <1>3. schedulingEnabled
    BY <1>2 DEF AnyDepthInv, GateOK
  <1>. QED  BY <1>3 DEF AnyDepthInv, BootOK

\* An activation that has its candidate, or is about to read it, finds the
\* index within the list.
LEMMA IndexInRange ==
    ASSUME AnyDepthInv, frames[rsp] # <<>>,
           This.pc \notin {"check", "load", "store", "wrap"}
    PROVE  currentThreadIndex < Len(threads)
  <1>1. rsp \in Threads /\ currentThreadIndex \in Nat /\ Len(threads) \in Nat
    BY DEF AnyDepthInv, TypeOK
  <1>2. /\ Len(frames[rsp]) \in Nat \ {0}
        /\ DOMAIN frames[rsp] = 1 .. Len(frames[rsp])
        /\ This = frames[rsp][Len(frames[rsp])]
    BY <1>1, TopFacts DEF AnyDepthInv, This
  <1>3. SUFFICES ASSUME currentThreadIndex >= Len(threads) PROVE FALSE
    BY <1>1
  <1>4. PICK k \in DOMAIN frames[rsp] :
            /\ frames[rsp][k].pc = "wrap"
            /\ \A j \in DOMAIN frames[rsp] : j > k => Harmless(frames[rsp][j])
    BY <1>3 DEF AnyDepthInv, IndexOK
  <1>5. CASE k = Len(frames[rsp])
    BY <1>2, <1>4, <1>5
  <1>6. CASE k # Len(frames[rsp])
    <2>1. Len(frames[rsp]) > k /\ Len(frames[rsp]) \in DOMAIN frames[rsp]
      BY <1>2, <1>6
    <2>2. Harmless(This)
      BY <1>2, <1>4, <2>1
    <2>. QED  BY <2>2 DEF Harmless
  <1>. QED  BY <1>5, <1>6

\* Rewriting the innermost activation keeps everything the invariant says that
\* is not about the variables the step assigns besides.
LEMMA StepKeeps ==
    ASSUME AnyDepthInv, frames[rsp] # <<>>, schedulingEnabled,
           NEW f \in Frame, FrameOK(f), Step(f),
           UNCHANGED <<booted, schedulingEnabled, rsp, dbg, was>>
    PROVE  /\ frames' \in [Threads -> Seq(Frame)]
           /\ FramesOK' /\ GateOK' /\ BootOK' /\ DebuggerOK' /\ SchedulingNotLost'
  <1>1. TypeOK /\ rsp \in Threads
    BY DEF AnyDepthInv, TypeOK
  <1>2. /\ frames' \in [Threads -> Seq(Frame)]
        /\ \A t \in Threads : DOMAIN frames'[t] = DOMAIN frames[t]
        /\ frames'[rsp][Len(frames[rsp])] = f
        /\ \A t \in Threads : \A i \in DOMAIN frames[t] :
              t # rsp \/ i # Len(frames[rsp]) => frames'[t][i] = frames[t][i]
    BY <1>1, StepFacts
  <1>3. FramesOK'
    <2> SUFFICES ASSUME NEW t \in Threads, NEW i \in DOMAIN frames'[t]
                 PROVE  FrameOK(frames'[t][i])
      BY DEF FramesOK, FrameOK
    <2>1. i \in DOMAIN frames[t]
      BY <1>2
    <2>2. CASE t = rsp /\ i = Len(frames[rsp])
      BY <1>2, <2>2
    <2>3. CASE t # rsp \/ i # Len(frames[rsp])
      BY <1>2, <2>1, <2>3 DEF AnyDepthInv, FramesOK
    <2>. QED  BY <2>2, <2>3
  <1>4. GateOK' /\ BootOK' /\ DebuggerOK' /\ SchedulingNotLost'
    BY DEF AnyDepthInv, GateOK, BootOK, DebuggerOK, SchedulingNotLost
  <1>. QED  BY <1>2, <1>3, <1>4

\* Contexts stay within their stacks when no stack changes its depth.
LEMMA StepKeepsContexts ==
    ASSUME AnyDepthInv, frames[rsp] # <<>>, NEW f \in Frame, Step(f), UNCHANGED stackTop
    PROVE  ContextsOK'
  <1>1. TypeOK
    BY DEF AnyDepthInv
  <1>2. \A t \in Threads : Len(frames'[t]) = Len(frames[t])
    BY <1>1, StepFacts
  <1>3. \A t \in Threads : stackTop[t] # Dangling => stackTop[t].stk \in Threads
    BY <1>1 DEF TypeOK, Context
  <1>. QED  BY <1>2, <1>3 DEF AnyDepthInv, ContextsOK

-----------------------------------------------------------------------------
(* The steps of Schedule, one lemma per group of actions *)

\* A step that changes the locals only.
LEMMA LocalKeeps ==
    ASSUME AnyDepthInv, frames[rsp] # <<>>, schedulingEnabled,
           NEW f \in Frame, FrameOK(f), Local(f), IndexOK'
    PROVE  AnyDepthInv'
  <1>1. Step(f) /\ UNCHANGED <<booted, threads, state, stackTop, currentThread,
                   currentThreadIndex, schedulingEnabled, rsp, dbg, was, halted>>
    BY DEF Local
  <1>2. /\ frames' \in [Threads -> Seq(Frame)]
        /\ FramesOK' /\ GateOK' /\ BootOK' /\ DebuggerOK' /\ SchedulingNotLost'
    BY <1>1, StepKeeps
  <1>3. ContextsOK'
    BY <1>1, StepKeepsContexts
  <1>4. TypeOK'
    BY <1>1, <1>2 DEF AnyDepthInv, TypeOK
  <1>. QED  BY <1>2, <1>3, <1>4 DEF AnyDepthInv

\* ... with the index in range before it.
LEMMA LocalInRange ==
    ASSUME AnyDepthInv, frames[rsp] # <<>>,
           This.pc \notin {"check", "load", "store", "wrap"},
           NEW f \in Frame, FrameOK(f), Local(f)
    PROVE  AnyDepthInv'
  <1>1. currentThreadIndex < Len(threads)
    BY IndexInRange
  <1>2. IndexOK'
    <2>1. UNCHANGED <<threads, currentThreadIndex>> /\ currentThreadIndex \in Nat
             /\ Len(threads) \in Nat
      BY DEF Local, AnyDepthInv, TypeOK
    <2>. QED  BY <1>1, <2>1 DEF IndexOK
  <1>3. schedulingEnabled
    BY PastGate
  <1>. QED  BY <1>2, <1>3, LocalKeeps

\* ... when the activation only goes on towards storing the index.
LEMMA LocalHarmless ==
    ASSUME AnyDepthInv, frames[rsp] # <<>>, schedulingEnabled,
           This.pc \in {"check", "load"},
           NEW f \in Frame, FrameOK(f), Local(f),
           f.pc = "load" \/ (f.pc = "store" /\ f.reg = currentThreadIndex + 1)
    PROVE  AnyDepthInv'
  <1>1. /\ TypeOK /\ rsp \in Threads /\ currentThreadIndex \in Nat /\ Len(threads) \in Nat
        /\ Step(f) /\ UNCHANGED <<threads, currentThreadIndex, rsp>>
    BY DEF AnyDepthInv, TypeOK, Local
  <1>2. /\ DOMAIN frames[rsp] = 1 .. Len(frames[rsp])
        /\ Len(frames[rsp]) \in DOMAIN frames[rsp]
        /\ This = frames[rsp][Len(frames[rsp])]
    BY <1>1, TopFacts DEF This
  <1>3. /\ DOMAIN frames'[rsp] = DOMAIN frames[rsp]
        /\ frames'[rsp][Len(frames[rsp])] = f
        /\ \A i \in DOMAIN frames[rsp] :
              i # Len(frames[rsp]) => frames'[rsp][i] = frames[rsp][i]
    BY <1>1, StepFacts
  <1>4. IndexOK'
    <2> SUFFICES ASSUME currentThreadIndex >= Len(threads)
                 PROVE  \E k \in DOMAIN frames'[rsp] :
                           /\ frames'[rsp][k].pc = "wrap"
                           /\ \A j \in DOMAIN frames'[rsp] : j > k =>
                                 /\ frames'[rsp][j].pc \in {"check", "load", "store"}
                                 /\ frames'[rsp][j].pc = "store"
                                       => frames'[rsp][j].reg >= Len(threads)
      BY <1>1 DEF IndexOK, Harmless
    <2>1. PICK k \in DOMAIN frames[rsp] :
              /\ frames[rsp][k].pc = "wrap"
              /\ \A j \in DOMAIN frames[rsp] : j > k => Harmless(frames[rsp][j])
      BY DEF AnyDepthInv, IndexOK
    <2>2. k # Len(frames[rsp])
      BY <1>2, <2>1
    <2>3. frames'[rsp][k].pc = "wrap"
      BY <1>3, <2>1, <2>2
    <2>4. ASSUME NEW j \in DOMAIN frames[rsp], j > k
          PROVE  frames'[rsp][j].pc \in {"check", "load", "store"}
                 /\ (frames'[rsp][j].pc = "store" => frames'[rsp][j].reg >= Len(threads))
      <3>1. Harmless(frames[rsp][j])
        BY <2>1, <2>4
      <3>. QED  BY <1>1, <1>3, <2>4, <3>1 DEF Harmless
    <2>. QED  BY <1>1, <1>3, <2>3, <2>4 DEF Harmless
  <1>. QED  BY <1>4, LocalKeeps

\* Invalidate keeps the type of the saved contexts, and what it keeps on stack s
\* is shallower than d.
LEMMA InvalidateFacts ==
    ASSUME NEW tops \in [Threads -> Context \union {Dangling}],
           NEW s \in Threads, NEW d \in Nat
    PROVE  /\ Invalidate(tops, s, d) \in [Threads -> Context \union {Dangling}]
           /\ \A t \in Threads : Invalidate(tops, s, d)[t] # Dangling =>
                 /\ Invalidate(tops, s, d)[t] = tops[t]
                 /\ tops[t] \in Context
                 /\ tops[t].stk = s => tops[t].depth < d
  BY DEF Invalidate, Context

\* Schedule returns: the innermost activation goes, and with it the contexts
\* saved inside it.
LEMMA ReturnKeeps ==
    ASSUME AnyDepthInv, frames[rsp] # <<>>, This.pc # "wrap", Return
    PROVE  AnyDepthInv'
  <1> DEFINE d == Len(frames[rsp])
  <1>1. /\ TypeOK /\ rsp \in Threads /\ frames \in [Threads -> Seq(Frame)]
        /\ stackTop \in [Threads -> Context \union {Dangling}]
    BY DEF AnyDepthInv, TypeOK
  <1>2. /\ d \in Nat \ {0} /\ DOMAIN frames[rsp] = 1 .. d
        /\ This = frames[rsp][d] /\ frames[rsp] \in Seq(Frame)
    BY <1>1, TopFacts DEF This
  <1>3. /\ frames' = [frames EXCEPT ![rsp] = SubSeq(frames[rsp], 1, d - 1)]
        /\ stackTop' = Invalidate(stackTop, rsp, d)
        /\ UNCHANGED <<booted, threads, state, currentThread, currentThreadIndex,
                       schedulingEnabled, rsp, dbg, was, halted>>
    BY DEF Return
  <1>4. /\ SubSeq(frames[rsp], 1, d - 1) \in Seq(Frame)
        /\ Len(SubSeq(frames[rsp], 1, d - 1)) = d - 1
        /\ \A i \in 1 .. (d - 1) : SubSeq(frames[rsp], 1, d - 1)[i] = frames[rsp][i]
    <2>1. d - 1 \in 0 .. Len(frames[rsp])
      BY <1>2
    <2>. QED  BY <1>2, <2>1, PrefixFacts
  <1> HIDE DEF d
  <1>5. /\ frames' \in [Threads -> Seq(Frame)]
        /\ frames'[rsp] = SubSeq(frames[rsp], 1, d - 1)
        /\ \A t \in Threads \ {rsp} : frames'[t] = frames[t]
    BY <1>1, <1>3, <1>4
  <1>6. /\ Len(frames'[rsp]) = d - 1
        /\ DOMAIN frames'[rsp] = 1 .. (d - 1)
        /\ \A i \in 1 .. (d - 1) : i \in DOMAIN frames[rsp] /\ frames'[rsp][i] = frames[rsp][i]
    BY <1>2, <1>4, <1>5
  <1>7. /\ stackTop' \in [Threads -> Context \union {Dangling}]
        /\ \A t \in Threads : stackTop'[t] # Dangling =>
              /\ stackTop'[t] = stackTop[t]
              /\ stackTop[t] \in Context
              /\ stackTop[t].stk = rsp => stackTop[t].depth < d
    BY <1>1, <1>2, <1>3, InvalidateFacts
  <1>8. TypeOK'
    BY <1>3, <1>5, <1>7 DEF AnyDepthInv, TypeOK
  <1>9. FramesOK'
    <2> SUFFICES ASSUME NEW t \in Threads, NEW i \in DOMAIN frames'[t]
                 PROVE  FrameOK(frames'[t][i])
      BY DEF FramesOK, FrameOK
    <2>1. i \in DOMAIN frames[t] /\ frames'[t][i] = frames[t][i]
      BY <1>5, <1>6
    <2>. QED  BY <2>1 DEF AnyDepthInv, FramesOK
  <1>10. ContextsOK'
    <2> SUFFICES ASSUME NEW t \in Threads, stackTop'[t] # Dangling
                 PROVE  stackTop'[t].depth <= Len(frames'[stackTop'[t].stk])
      BY DEF ContextsOK
    <2>1. /\ stackTop'[t] = stackTop[t] /\ stackTop[t].stk \in Threads
          /\ stackTop[t].depth \in Nat
          /\ stackTop[t].stk = rsp => stackTop[t].depth < d
      BY <1>7 DEF Context
    <2>2. stackTop[t].depth <= Len(frames[stackTop[t].stk])
      BY <2>1 DEF AnyDepthInv, ContextsOK
    <2>. QED  BY <1>2, <1>5, <1>6, <2>1, <2>2
  <1>11. IndexOK'
    <2> SUFFICES ASSUME currentThreadIndex >= Len(threads)
                 PROVE  \E k \in DOMAIN frames'[rsp] :
                           /\ frames'[rsp][k].pc = "wrap"
                           /\ \A j \in DOMAIN frames'[rsp] : j > k =>
                                 /\ frames'[rsp][j].pc \in {"check", "load", "store"}
                                 /\ frames'[rsp][j].pc = "store"
                                       => frames'[rsp][j].reg >= Len(threads)
      <3>1. UNCHANGED <<threads, currentThreadIndex, rsp>>
        BY <1>3
      <3>. QED  BY <3>1 DEF IndexOK, Harmless
    <2>1. PICK k \in DOMAIN frames[rsp] :
              /\ frames[rsp][k].pc = "wrap"
              /\ \A j \in DOMAIN frames[rsp] : j > k => Harmless(frames[rsp][j])
      BY DEF AnyDepthInv, IndexOK
    <2>2. k \in 1 .. (d - 1)
      BY <1>2, <2>1
    <2>. QED  BY <1>6, <2>1, <2>2 DEF Harmless
  <1>12. GateOK'
    BY <1>3, <1>6 DEF AnyDepthInv, GateOK
  <1>13. BootOK' /\ DebuggerOK' /\ SchedulingNotLost'
    <2>1. UNCHANGED <<booted, schedulingEnabled, rsp, dbg, was>>
      BY <1>3
    <2>. QED  BY <2>1 DEF AnyDepthInv, BootOK, DebuggerOK, SchedulingNotLost
  <1>. QED  BY <1>8, <1>9, <1>10, <1>11, <1>12, <1>13 DEF AnyDepthInv

\* if (!schedulingEnabled) return
LEMMA CheckKeeps ==
    ASSUME AnyDepthInv, Check
    PROVE  AnyDepthInv'
  <1>1. rsp \in Threads /\ frames[rsp] # <<>> /\ This.pc = "check" /\ This \in Frame
    BY TopFacts DEF AnyDepthInv, TypeOK, Check, At, This
  <1>2. CASE schedulingEnabled /\ Local([This EXCEPT !.pc = "load"])
    <2> DEFINE f == [This EXCEPT !.pc = "load"]
    <2>1. f \in Frame /\ f.pc = "load" /\ FrameOK(f)
      BY <1>1 DEF Frame, Pcs, FrameOK
    <2> HIDE DEF f
    <2>2. Local(f)
      BY <1>2 DEF f
    <2>. QED  BY <1>1, <1>2, <2>1, <2>2, LocalHarmless
  <1>3. CASE Return
    BY <1>1, <1>3, ReturnKeeps
  <1>. QED  BY <1>2, <1>3 DEF Check

\* ++currentThreadIndex, in a register
LEMMA LoadIndexKeeps ==
    ASSUME AnyDepthInv, LoadIndex
    PROVE  AnyDepthInv'
  <1>1. rsp \in Threads /\ frames[rsp] # <<>> /\ This.pc = "load" /\ This \in Frame
    BY TopFacts DEF AnyDepthInv, TypeOK, LoadIndex, At, This
  <1> DEFINE f == [This EXCEPT !.pc = "store", !.reg = currentThreadIndex + 1]
  <1>2. f \in Frame /\ f.pc = "store" /\ f.reg = currentThreadIndex + 1 /\ FrameOK(f)
    <2>1. currentThreadIndex + 1 \in Nat
      BY DEF AnyDepthInv, TypeOK
    <2>. QED  BY <1>1, <2>1 DEF Frame, Pcs, FrameOK
  <1> HIDE DEF f
  <1>3. Local(f)
    BY DEF f, LoadIndex
  <1>. QED  BY <1>1, <1>2, <1>3, LocalHarmless, PastGate

\* A step that writes the index: either it is in range afterwards, or the
\* activation that wrote it is about to wrap it.
LEMMA IndexStepKeeps ==
    ASSUME AnyDepthInv, frames[rsp] # <<>>, schedulingEnabled,
           NEW f \in Frame, FrameOK(f), Step(f),
           currentThreadIndex' \in Nat,
           currentThreadIndex' < Len(threads) \/ f.pc = "wrap",
           UNCHANGED <<booted, threads, state, stackTop, currentThread,
                       schedulingEnabled, rsp, dbg, was, halted>>
    PROVE  AnyDepthInv'
  <1>1. /\ frames' \in [Threads -> Seq(Frame)]
        /\ FramesOK' /\ GateOK' /\ BootOK' /\ DebuggerOK' /\ SchedulingNotLost'
    BY StepKeeps
  <1>2. ContextsOK'
    BY StepKeepsContexts
  <1>3. TypeOK'
    BY <1>1 DEF AnyDepthInv, TypeOK
  <1>4. IndexOK'
    <2>1. CASE currentThreadIndex' < Len(threads)
      <3>1. Len(threads) \in Nat
        BY DEF AnyDepthInv, TypeOK
      <3>. QED  BY <2>1, <3>1 DEF IndexOK
    <2>2. CASE f.pc = "wrap"
      <3>1. TypeOK /\ rsp \in Threads
        BY DEF AnyDepthInv, TypeOK
      <3>2. Len(frames[rsp]) \in Nat \ {0} /\ DOMAIN frames[rsp] = 1 .. Len(frames[rsp])
        BY <3>1, TopFacts
      <3>3. DOMAIN frames'[rsp] = 1 .. Len(frames[rsp]) /\ frames'[rsp][Len(frames[rsp])] = f
        BY <3>1, <3>2, StepFacts
      <3>4. rsp' = rsp
        OBVIOUS
      <3>. QED  BY <2>2, <3>2, <3>3, <3>4 DEF IndexOK
    <2>. QED  BY <2>1, <2>2
  <1>. QED  BY <1>1, <1>2, <1>3, <1>4 DEF AnyDepthInv

\* ++currentThreadIndex, stored
LEMMA StoreIndexKeeps ==
    ASSUME AnyDepthInv, StoreIndex
    PROVE  AnyDepthInv'
  <1>1. rsp \in Threads /\ frames[rsp] # <<>> /\ This.pc = "store" /\ This \in Frame
    BY TopFacts DEF AnyDepthInv, TypeOK, StoreIndex, At, This
  <1> DEFINE f == [This EXCEPT !.pc = IF This.reg >= Len(threads) THEN "wrap" ELSE "pick",
                               !.reg = 0]
  <1>2. f \in Frame /\ FrameOK(f) /\ (This.reg >= Len(threads) => f.pc = "wrap")
    BY <1>1 DEF Frame, Pcs, FrameOK
  <1> HIDE DEF f
  <1>3. Step(f)
    BY DEF f, StoreIndex
  <1>4. This.reg \in Nat /\ Len(threads) \in Nat
    BY <1>1 DEF Frame, AnyDepthInv, TypeOK
  <1>5. currentThreadIndex' \in Nat /\ (currentThreadIndex' < Len(threads) \/ f.pc = "wrap")
    BY <1>2, <1>4 DEF StoreIndex
  <1>6. schedulingEnabled
    BY <1>1, PastGate
  <1>. QED  BY <1>1, <1>2, <1>3, <1>5, <1>6, IndexStepKeeps DEF StoreIndex

\* currentThreadIndex = 0; the list holds at least k/idle
LEMMA WrapIndexKeeps ==
    ASSUME AnyDepthInv, WrapIndex
    PROVE  AnyDepthInv'
  <1>1. rsp \in Threads /\ frames[rsp] # <<>> /\ This.pc = "wrap" /\ This \in Frame
    BY TopFacts DEF AnyDepthInv, TypeOK, WrapIndex, At, This
  <1> DEFINE f == [This EXCEPT !.pc = "pick"]
  <1>2. f \in Frame /\ FrameOK(f)
    BY <1>1 DEF Frame, Pcs, FrameOK
  <1> HIDE DEF f
  <1>3. Step(f)
    BY DEF f, WrapIndex
  <1>4. 0 < Len(threads)
    BY DEF AnyDepthInv, TypeOK
  <1>5. currentThreadIndex' \in Nat /\ currentThreadIndex' < Len(threads)
    BY <1>4 DEF WrapIndex
  <1>6. schedulingEnabled
    BY <1>1, PastGate
  <1>. QED  BY <1>1, <1>2, <1>3, <1>5, <1>6, IndexStepKeeps DEF WrapIndex

\* new_thread = threads.at(currentThreadIndex)
LEMMA PickKeeps ==
    ASSUME AnyDepthInv, Pick
    PROVE  AnyDepthInv'
  <1>1. rsp \in Threads /\ frames[rsp] # <<>> /\ This.pc = "pick" /\ This \in Frame
    BY TopFacts DEF AnyDepthInv, TypeOK, Pick, At, This
  <1>2. ThreadAt(currentThreadIndex) \in Threads
    <2>1. currentThreadIndex < Len(threads)
      BY <1>1, IndexInRange
    <2>. QED  BY <2>1 DEF ThreadAt, AnyDepthInv, TypeOK
  <1> DEFINE f == [This EXCEPT !.pc = "test", !.new = ThreadAt(currentThreadIndex)]
  <1>3. f \in Frame /\ FrameOK(f)
    BY <1>1, <1>2, ThreadsAssumption DEF Frame, Pcs, FrameOK
  <1> HIDE DEF f
  <1>4. Local(f)
    BY DEF f, Pick
  <1>. QED  BY <1>1, <1>3, <1>4, LocalInRange

\* The candidate is Ready, or the next one is tried, or Schedule gives up.
LEMMA TestKeeps ==
    ASSUME AnyDepthInv, Test
    PROVE  AnyDepthInv'
  <1>1. /\ rsp \in Threads /\ frames[rsp] # <<>> /\ This.pc = "test" /\ This \in Frame
        /\ This.new # Null
    BY TopFacts DEF AnyDepthInv, TypeOK, Test, At, This
  <1>2. CASE Local([This EXCEPT !.pc = "mark_cur", !.tries = 0])
    <2> DEFINE f == [This EXCEPT !.pc = "mark_cur", !.tries = 0]
    <2>1. f \in Frame /\ FrameOK(f)
      BY <1>1 DEF Frame, Pcs, FrameOK
    <2> HIDE DEF f
    <2>2. Local(f)
      BY <1>2 DEF f
    <2>. QED  BY <1>1, <2>1, <2>2, LocalInRange
  <1>3. CASE Local([This EXCEPT !.pc = "load", !.tries = @ + 1, !.new = Null])
    <2> DEFINE f == [This EXCEPT !.pc = "load", !.tries = @ + 1, !.new = Null]
    <2>1. f \in Frame /\ FrameOK(f)
      <3>1. This.tries + 1 \in Nat
        BY <1>1 DEF Frame
      <3>. QED  BY <1>1, <3>1 DEF Frame, Pcs, FrameOK
    <2> HIDE DEF f
    <2>2. Local(f)
      BY <1>3 DEF f
    <2>. QED  BY <1>1, <2>1, <2>2, LocalInRange
  <1>4. CASE Return
    BY <1>1, <1>4, ReturnKeeps
  <1>. QED  BY <1>2, <1>3, <1>4 DEF Test

\* A step that writes fields the invariant only types, with the index in range.
LEMMA FieldStepKeeps ==
    ASSUME AnyDepthInv, frames[rsp] # <<>>,
           This.pc \notin {"check", "load", "store", "wrap"},
           NEW f \in Frame, FrameOK(f), Step(f),
           state' \in [Threads -> TCBState], currentThread' \in Threads,
           stackTop' \in [Threads -> Context \union {Dangling}], ContextsOK',
           UNCHANGED <<booted, threads, currentThreadIndex,
                       schedulingEnabled, rsp, dbg, was, halted>>
    PROVE  AnyDepthInv'
  <1>1. schedulingEnabled
    BY PastGate
  <1>2. /\ frames' \in [Threads -> Seq(Frame)]
        /\ FramesOK' /\ GateOK' /\ BootOK' /\ DebuggerOK' /\ SchedulingNotLost'
    BY <1>1, StepKeeps
  <1>3. TypeOK'
    BY <1>2 DEF AnyDepthInv, TypeOK
  <1>4. IndexOK'
    <2>1. currentThreadIndex < Len(threads)
      BY IndexInRange
    <2>2. currentThreadIndex \in Nat /\ Len(threads) \in Nat
      BY DEF AnyDepthInv, TypeOK
    <2>3. UNCHANGED <<currentThreadIndex, threads>>
      OBVIOUS
    <2>. QED  BY <2>1, <2>2, <2>3 DEF IndexOK
  <1>. QED  BY <1>2, <1>3, <1>4 DEF AnyDepthInv

\* currentThread->state = Ready
LEMMA MarkCurrentKeeps ==
    ASSUME AnyDepthInv, MarkCurrent
    PROVE  AnyDepthInv'
  <1>1. rsp \in Threads /\ frames[rsp] # <<>> /\ This.pc = "mark_cur" /\ This \in Frame
    BY TopFacts DEF AnyDepthInv, TypeOK, MarkCurrent, At, This
  <1>2. This.new # Null
    BY <1>1, TopFacts DEF AnyDepthInv, FramesOK, FrameOK, This
  <1> DEFINE f == [This EXCEPT !.pc = "mark_new"]
  <1>3. f \in Frame /\ FrameOK(f)
    BY <1>1, <1>2 DEF Frame, Pcs, FrameOK
  <1> HIDE DEF f
  <1>4. Step(f) /\ UNCHANGED stackTop
    BY DEF f, MarkCurrent
  <1>5. ContextsOK'
    BY <1>1, <1>3, <1>4, StepKeepsContexts
  <1>6. /\ state' \in [Threads -> TCBState] /\ currentThread' \in Threads
        /\ stackTop' \in [Threads -> Context \union {Dangling}]
    BY DEF MarkCurrent, AnyDepthInv, TypeOK, TCBState
  <1>. QED  BY <1>1, <1>3, <1>4, <1>5, <1>6, FieldStepKeeps DEF MarkCurrent

\* new_thread->state = Running
LEMMA MarkNewKeeps ==
    ASSUME AnyDepthInv, MarkNew
    PROVE  AnyDepthInv'
  <1>1. rsp \in Threads /\ frames[rsp] # <<>> /\ This.pc = "mark_new" /\ This \in Frame
    BY TopFacts DEF AnyDepthInv, TypeOK, MarkNew, At, This
  <1> DEFINE f == [This EXCEPT !.pc = "reread", !.new = Null]
  <1>3. f \in Frame /\ FrameOK(f)
    BY <1>1 DEF Frame, Pcs, FrameOK
  <1> HIDE DEF f
  <1>4. Step(f) /\ UNCHANGED stackTop
    BY DEF f, MarkNew
  <1>5. ContextsOK'
    BY <1>1, <1>3, <1>4, StepKeepsContexts
  <1>6. /\ state' \in [Threads -> TCBState] /\ currentThread' \in Threads
        /\ stackTop' \in [Threads -> Context \union {Dangling}]
    BY DEF MarkNew, AnyDepthInv, TypeOK, TCBState
  <1>. QED  BY <1>1, <1>3, <1>4, <1>5, <1>6, FieldStepKeeps DEF MarkNew

\* SwitchThread(threads.at(currentThreadIndex))
LEMMA RereadIndexKeeps ==
    ASSUME AnyDepthInv, RereadIndex
    PROVE  AnyDepthInv'
  <1>1. rsp \in Threads /\ frames[rsp] # <<>> /\ This.pc = "reread" /\ This \in Frame
    BY TopFacts DEF AnyDepthInv, TypeOK, RereadIndex, At, This
  <1>2. ThreadAt(currentThreadIndex) \in Threads
    <2>1. currentThreadIndex < Len(threads)
      BY <1>1, IndexInRange
    <2>. QED  BY <2>1 DEF ThreadAt, AnyDepthInv, TypeOK
  <1> DEFINE f == [This EXCEPT !.pc = "load_cur", !.arg = ThreadAt(currentThreadIndex)]
  <1>3. f \in Frame /\ FrameOK(f)
    BY <1>1, <1>2, ThreadsAssumption DEF Frame, Pcs, FrameOK
  <1> HIDE DEF f
  <1>4. Local(f)
    BY DEF f, RereadIndex
  <1>. QED  BY <1>1, <1>3, <1>4, LocalInRange

\* curThread = currentThread
LEMMA LoadCurrentKeeps ==
    ASSUME AnyDepthInv, LoadCurrent
    PROVE  AnyDepthInv'
  <1>1. /\ rsp \in Threads /\ frames[rsp] # <<>> /\ This.pc = "load_cur" /\ This \in Frame
        /\ This.arg # Null
    BY TopFacts DEF AnyDepthInv, TypeOK, LoadCurrent, At, This
  <1>2. currentThread \in Threads
    BY DEF AnyDepthInv, TypeOK
  <1> DEFINE f == [This EXCEPT !.pc = "set_cur", !.cur = currentThread]
  <1>3. f \in Frame /\ FrameOK(f)
    BY <1>1, <1>2, ThreadsAssumption DEF Frame, Pcs, FrameOK
  <1> HIDE DEF f
  <1>4. Local(f)
    BY DEF f, LoadCurrent
  <1>. QED  BY <1>1, <1>3, <1>4, LocalInRange

\* currentThread = newThread
LEMMA SetCurrentKeeps ==
    ASSUME AnyDepthInv, SetCurrent
    PROVE  AnyDepthInv'
  <1>1. rsp \in Threads /\ frames[rsp] # <<>> /\ This.pc = "set_cur" /\ This \in Frame
    BY TopFacts DEF AnyDepthInv, TypeOK, SetCurrent, At, This
  <1>2. This.arg # Null /\ This.cur # Null
    BY <1>1, TopFacts DEF AnyDepthInv, FramesOK, FrameOK, This
  <1>3. This.arg \in Threads
    BY <1>1, <1>2 DEF Frame
  <1> DEFINE f == [This EXCEPT !.pc = "save"]
  <1>4. f \in Frame /\ FrameOK(f)
    BY <1>1, <1>2 DEF Frame, Pcs, FrameOK
  <1> HIDE DEF f
  <1>5. Step(f) /\ UNCHANGED stackTop
    BY DEF f, SetCurrent
  <1>6. ContextsOK'
    BY <1>1, <1>4, <1>5, StepKeepsContexts
  <1>7. /\ state' \in [Threads -> TCBState] /\ currentThread' \in Threads
        /\ stackTop' \in [Threads -> Context \union {Dangling}]
    BY <1>3 DEF SetCurrent, AnyDepthInv, TypeOK
  <1>. QED  BY <1>1, <1>4, <1>5, <1>6, <1>7, FieldStepKeeps DEF SetCurrent

\* mov [rsi], rsp
LEMMA SaveContextKeeps ==
    ASSUME AnyDepthInv, SaveContext
    PROVE  AnyDepthInv'
  <1>1. rsp \in Threads /\ frames[rsp] # <<>> /\ This.pc = "save" /\ This \in Frame
    BY TopFacts DEF AnyDepthInv, TypeOK, SaveContext, At, This
  <1>2. This.arg # Null
    BY <1>1, TopFacts DEF AnyDepthInv, FramesOK, FrameOK, This
  <1> DEFINE f == [This EXCEPT !.pc = "jump", !.cur = Null]
             ctx == [stk |-> rsp, depth |-> Len(frames[rsp])]
  <1>3. f \in Frame /\ FrameOK(f)
    BY <1>1, <1>2 DEF Frame, Pcs, FrameOK
  <1>4. ctx \in Context /\ ctx.stk = rsp /\ ctx.depth = Len(frames[rsp])
    BY <1>1, TopFacts DEF Context, AnyDepthInv
  <1>5. Step(f) /\ stackTop' = [stackTop EXCEPT ![This.cur] = ctx]
    BY DEF SaveContext
  <1> HIDE DEF f, ctx
  <1>6. /\ stackTop' \in [Threads -> Context \union {Dangling}]
        /\ \A t \in Threads : stackTop'[t] = ctx \/ stackTop'[t] = stackTop[t]
    BY <1>4, <1>5 DEF AnyDepthInv, TypeOK
  <1>7. ContextsOK'
    <2>1. TypeOK
      BY DEF AnyDepthInv
    <2>2. \A t \in Threads : Len(frames'[t]) = Len(frames[t]) /\ Len(frames[t]) \in Nat
      BY <1>1, <1>3, <1>5, <2>1, StepFacts DEF TypeOK
    <2> SUFFICES ASSUME NEW t \in Threads, stackTop'[t] # Dangling
                 PROVE  stackTop'[t].depth <= Len(frames'[stackTop'[t].stk])
      BY DEF ContextsOK
    <2>3. CASE stackTop'[t] = ctx
      BY <1>1, <1>4, <2>2, <2>3
    <2>4. CASE stackTop'[t] = stackTop[t]
      <3>1. stackTop[t].stk \in Threads
        BY <2>1, <2>4 DEF TypeOK, Context
      <3>. QED  BY <2>2, <2>4, <3>1 DEF AnyDepthInv, ContextsOK
    <2>. QED  BY <1>6, <2>3, <2>4
  <1>8. state' \in [Threads -> TCBState] /\ currentThread' \in Threads
    BY DEF SaveContext, AnyDepthInv, TypeOK
  <1>. QED  BY <1>1, <1>3, <1>5, <1>6, <1>7, <1>8, FieldStepKeeps DEF SaveContext

\* Schedule's loop ends and it returns.
LEMMA ResumedKeeps ==
    ASSUME AnyDepthInv, Resumed
    PROVE  AnyDepthInv'
  <1>1. frames[rsp] # <<>> /\ This.pc = "resumed" /\ Return
    BY DEF Resumed, At, This
  <1>. QED  BY <1>1, ReturnKeeps

\* mov rsp, [rdi]: the context that is entered lies within its stack, so the
\* processor finds an activation there, or the start of the thread.
LEMMA LoadContextKeeps ==
    ASSUME AnyDepthInv, LoadContext
    PROVE  AnyDepthInv'
  <1>1. rsp \in Threads /\ frames[rsp] # <<>> /\ This.pc = "jump" /\ This \in Frame
    BY TopFacts DEF AnyDepthInv, TypeOK, LoadContext, At, This
  <1>2. /\ TypeOK /\ frames \in [Threads -> Seq(Frame)]
        /\ stackTop \in [Threads -> Context \union {Dangling}]
        /\ currentThreadIndex \in Nat /\ Len(threads) \in Nat
    BY DEF AnyDepthInv, TypeOK
  <1>3. schedulingEnabled /\ booted /\ currentThreadIndex < Len(threads)
    BY <1>1, PastGate, IndexInRange
  <1>4. This.arg \in Threads
    <2>1. This.arg # Null
      BY <1>1, TopFacts DEF AnyDepthInv, FramesOK, FrameOK, This
    <2>. QED  BY <1>1, <2>1 DEF Frame
  <1> DEFINE to    == stackTop[This.arg]
             left  == [This EXCEPT !.pc = "resumed", !.arg = Null]
             saved == [frames EXCEPT ![rsp] = ReplaceTop(@, left)]
             under == SubSeq(saved[to.stk], 1, to.depth)
             top   == [Top(under) EXCEPT !.pc = "resumed", !.arg = Null]
  <1>5. UNCHANGED <<booted, threads, state, currentThread, currentThreadIndex,
                    schedulingEnabled, dbg, was>>
    BY DEF LoadContext
  <1>6. CASE /\ to = Dangling /\ halted' = TRUE
             /\ UNCHANGED <<rsp, frames, stackTop>>
    <2>1. TypeOK'
      BY <1>2, <1>5, <1>6 DEF TypeOK
    <2>2. IndexOK'
      BY <1>2, <1>3, <1>5 DEF IndexOK
    <2>3. FramesOK' /\ ContextsOK'
      BY <1>6 DEF AnyDepthInv, FramesOK, FrameOK, ContextsOK
    <2>4. GateOK' /\ BootOK' /\ DebuggerOK' /\ SchedulingNotLost'
      BY <1>5, <1>6 DEF AnyDepthInv, GateOK, BootOK, DebuggerOK, SchedulingNotLost
    <2>. QED  BY <2>1, <2>2, <2>3, <2>4 DEF AnyDepthInv
  <1>7. CASE /\ to # Dangling /\ rsp' = to.stk
             /\ frames' = [saved EXCEPT ![to.stk] =
                              IF to.depth = 0 THEN <<>> ELSE ReplaceTop(under, top)]
             /\ stackTop' = Invalidate(stackTop, to.stk, to.depth)
             /\ UNCHANGED halted
    <2>1. /\ to \in Context /\ to.stk \in Threads /\ to.depth \in Nat
          /\ to.depth <= Len(frames[to.stk])
      BY <1>2, <1>4, <1>7 DEF Context, AnyDepthInv, ContextsOK
    <2>2. left \in Frame /\ left.pc = "resumed"
      BY <1>1 DEF Frame, Pcs
    <2> HIDE DEF to, left
    <2>3. /\ ReplaceTop(frames[rsp], left) \in Seq(Frame)
          /\ Len(ReplaceTop(frames[rsp], left)) = Len(frames[rsp])
          /\ ReplaceTop(frames[rsp], left)[Len(frames[rsp])] = left
          /\ \A i \in 1 .. Len(frames[rsp]) : i # Len(frames[rsp])
                => ReplaceTop(frames[rsp], left)[i] = frames[rsp][i]
      <3>1. frames[rsp] \in Seq(Frame)
        BY <1>1, <1>2
      <3>2. frames[rsp] # <<>> /\ left \in Frame
        BY <1>1, <2>2
      <3>3. ReplacesTop(frames[rsp], left)
        BY ONLY <3>1, <3>2, TopReplaced
      <3>. QED  BY <3>3 DEF ReplacesTop
    <2>4. saved \in [Threads -> Seq(Frame)]
      BY <1>1, <1>2, <2>3
    <2>5. \A t \in Threads : Len(saved[t]) = Len(frames[t]) /\ DOMAIN saved[t] = 1 .. Len(frames[t])
      BY <1>1, <1>2, <2>3
    <2>6. ASSUME NEW t \in Threads, NEW i \in DOMAIN saved[t]
          PROVE  FrameOK(saved[t][i])
      <3>1. CASE t = rsp /\ i = Len(frames[rsp])
        <4>1. saved[t][i] = left
          BY <1>1, <1>2, <2>3, <3>1
        <4>. QED  BY <2>2, <4>1 DEF FrameOK
      <3>2. CASE t # rsp \/ i # Len(frames[rsp])
        <4>1. i \in DOMAIN frames[t] /\ saved[t][i] = frames[t][i]
          BY <1>1, <1>2, <2>3, <2>5, <3>2
        <4>. QED  BY <4>1 DEF AnyDepthInv, FramesOK
      <3>. QED  BY <3>1, <3>2
    <2>7. /\ under \in Seq(Frame) /\ Len(under) = to.depth
          /\ \A i \in 1 .. to.depth : under[i] = saved[to.stk][i] /\ i \in DOMAIN saved[to.stk]
      <3>1. saved[to.stk] \in Seq(Frame) /\ to.depth \in 0 .. Len(saved[to.stk])
        BY <2>1, <2>4, <2>5
      <3>2. /\ SubSeq(saved[to.stk], 1, to.depth) \in Seq(Frame)
            /\ Len(SubSeq(saved[to.stk], 1, to.depth)) = to.depth
            /\ \A i \in 1 .. to.depth : SubSeq(saved[to.stk], 1, to.depth)[i] = saved[to.stk][i]
        BY <3>1, PrefixFacts
      <3>3. \A i \in 1 .. to.depth : i \in DOMAIN saved[to.stk]
        BY <3>1
      <3>. QED  BY <3>2, <3>3
    <2> HIDE DEF under
    <2> DEFINE entered == IF to.depth = 0 THEN <<>> ELSE ReplaceTop(under, top)
    <2>8. /\ entered \in Seq(Frame) /\ Len(entered) = to.depth
          /\ DOMAIN entered = 1 .. to.depth
          /\ \A i \in 1 .. to.depth : FrameOK(entered[i])
      <3>1. CASE to.depth = 0
        BY <3>1
      <3>2. CASE to.depth # 0
        <4>1. under # <<>> /\ to.depth \in 1 .. to.depth
          BY <2>1, <2>7, <3>2
        <4>2. Top(under) \in Frame
          BY <2>7, <4>1 DEF Top
        <4>3. top \in Frame /\ top.pc = "resumed"
          BY <4>2 DEF Frame, Pcs
        <4> HIDE DEF top
        <4>4. /\ ReplaceTop(under, top) \in Seq(Frame)
              /\ Len(ReplaceTop(under, top)) = Len(under)
              /\ ReplaceTop(under, top)[Len(under)] = top
              /\ \A i \in 1 .. Len(under) : i # Len(under)
                    => ReplaceTop(under, top)[i] = under[i]
          <5>1. under \in Seq(Frame) /\ under # <<>> /\ top \in Frame
            BY <2>7, <4>1, <4>3
          <5>2. ReplacesTop(under, top)
            BY ONLY <5>1, TopReplaced
          <5>. QED  BY <5>2 DEF ReplacesTop
        <4>5. entered = ReplaceTop(under, top)
          BY <3>2
        <4> HIDE DEF entered
        <4>6. ASSUME NEW i \in 1 .. to.depth
              PROVE  FrameOK(entered[i])
          <5>1. CASE i = to.depth
            BY <2>7, <4>3, <4>4, <4>5, <5>1 DEF FrameOK
          <5>2. CASE i # to.depth
            <6>1. entered[i] = saved[to.stk][i] /\ i \in DOMAIN saved[to.stk]
              BY <2>7, <4>4, <4>5, <5>2
            <6>. QED  BY <2>1, <2>6, <6>1
          <5>. QED  BY <5>1, <5>2
        <4>. QED  BY <2>1, <2>7, <4>4, <4>5, <4>6
      <3>. QED  BY <3>1, <3>2
    <2>9. frames' = [saved EXCEPT ![to.stk] = entered]
      BY <1>7
    <2> HIDE DEF entered, saved
    <2>10. /\ frames' \in [Threads -> Seq(Frame)] /\ frames'[to.stk] = entered
           /\ \A t \in Threads \ {to.stk} : frames'[t] = saved[t]
      BY <2>1, <2>4, <2>8, <2>9
    <2>11. FramesOK'
      <3> SUFFICES ASSUME NEW t \in Threads, NEW i \in DOMAIN frames'[t]
                   PROVE  FrameOK(frames'[t][i])
        BY DEF FramesOK, FrameOK
      <3>1. CASE t = to.stk
        BY <2>8, <2>10, <3>1
      <3>2. CASE t # to.stk
        BY <2>6, <2>10, <3>2
      <3>. QED  BY <3>1, <3>2
    <2>12. /\ stackTop' \in [Threads -> Context \union {Dangling}]
           /\ \A t \in Threads : stackTop'[t] # Dangling =>
                 /\ stackTop'[t] = stackTop[t]
                 /\ stackTop[t] \in Context
                 /\ stackTop[t].stk = to.stk => stackTop[t].depth < to.depth
      <3>1. stackTop' = Invalidate(stackTop, to.stk, to.depth)
        BY <1>7
      <3>. QED  BY <1>2, <2>1, <3>1, InvalidateFacts
    <2>13. ContextsOK'
      <3> SUFFICES ASSUME NEW t \in Threads, stackTop'[t] # Dangling
                   PROVE  stackTop'[t].depth <= Len(frames'[stackTop'[t].stk])
        BY DEF ContextsOK
      <3>1. /\ stackTop'[t] = stackTop[t] /\ stackTop[t].stk \in Threads
            /\ stackTop[t].depth \in Nat
            /\ stackTop[t].stk = to.stk => stackTop[t].depth < to.depth
        BY <2>12 DEF Context
      <3>2. stackTop[t].depth <= Len(frames[stackTop[t].stk])
        BY <3>1 DEF AnyDepthInv, ContextsOK
      <3>. QED  BY <2>1, <2>5, <2>8, <2>10, <3>1, <3>2
    <2>14. TypeOK'
      BY <1>2, <1>5, <1>7, <2>1, <2>10, <2>12 DEF TypeOK
    <2>15. IndexOK'
      BY <1>2, <1>3, <1>5 DEF IndexOK
    <2>16. GateOK' /\ BootOK' /\ DebuggerOK' /\ SchedulingNotLost'
      BY <1>3, <1>5 DEF AnyDepthInv, GateOK, BootOK, DebuggerOK, SchedulingNotLost
    <2>. QED  BY <2>11, <2>13, <2>14, <2>15, <2>16 DEF AnyDepthInv
  <1>. QED  BY <1>6, <1>7 DEF LoadContext

-----------------------------------------------------------------------------
(* The callers of Schedule, the boot code and the debugger *)

\* A tick or a Yield puts a new activation on the executing stack.
LEMMA CallScheduleKeeps ==
    ASSUME AnyDepthInv, CallSchedule
    PROVE  AnyDepthInv'
  <1> DEFINE d == Len(frames[rsp])
  <1>1. /\ TypeOK /\ rsp \in Threads /\ frames \in [Threads -> Seq(Frame)]
        /\ stackTop \in [Threads -> Context \union {Dangling}]
        /\ frames[rsp] \in Seq(Frame) /\ d \in Nat /\ DOMAIN frames[rsp] = 1 .. d
    BY DEF AnyDepthInv, TypeOK
  <1>2. NewFrame \in Frame /\ NewFrame.pc = "check"
    BY DEF NewFrame, Frame, Pcs
  <1>3. /\ frames' = [frames EXCEPT ![rsp] = Append(frames[rsp], NewFrame)]
        /\ UNCHANGED <<booted, threads, state, stackTop, currentThread,
                       currentThreadIndex, schedulingEnabled, rsp, dbg, was, halted>>
    BY DEF CallSchedule
  <1>4. /\ Append(frames[rsp], NewFrame) \in Seq(Frame)
        /\ Len(Append(frames[rsp], NewFrame)) = d + 1
        /\ Append(frames[rsp], NewFrame)[d + 1] = NewFrame
        /\ \A i \in 1 .. d : Append(frames[rsp], NewFrame)[i] = frames[rsp][i]
    BY <1>1, <1>2
  <1> HIDE DEF d
  <1>5. /\ frames' \in [Threads -> Seq(Frame)]
        /\ frames'[rsp] = Append(frames[rsp], NewFrame)
        /\ \A t \in Threads \ {rsp} : frames'[t] = frames[t]
    BY <1>1, <1>3, <1>4
  <1>6. /\ Len(frames'[rsp]) = d + 1 /\ DOMAIN frames'[rsp] = 1 .. (d + 1)
        /\ frames'[rsp][d + 1] = NewFrame
        /\ \A i \in 1 .. d : i \in DOMAIN frames[rsp] /\ frames'[rsp][i] = frames[rsp][i]
    BY <1>1, <1>4, <1>5
  <1>7. TypeOK'
    BY <1>1, <1>3, <1>5 DEF TypeOK
  <1>8. FramesOK'
    <2> SUFFICES ASSUME NEW t \in Threads, NEW i \in DOMAIN frames'[t]
                 PROVE  FrameOK(frames'[t][i])
      BY DEF FramesOK, FrameOK
    <2>1. CASE t = rsp /\ i = d + 1
      BY <1>2, <1>6, <2>1 DEF FrameOK
    <2>2. CASE t # rsp \/ i # d + 1
      <3>1. i \in DOMAIN frames[t] /\ frames'[t][i] = frames[t][i]
        <4>1. CASE t # rsp
          BY <1>5, <4>1
        <4>2. CASE t = rsp
          <5>1. d \in Nat /\ i \in 1 .. (d + 1) /\ i # d + 1
            BY <1>1, <1>6, <2>2, <4>2
          <5>2. i \in 1 .. d
            BY <5>1
          <5>. QED  BY <1>6, <4>2, <5>2
        <4>. QED  BY <4>1, <4>2
      <3>. QED  BY <3>1 DEF AnyDepthInv, FramesOK
    <2>. QED  BY <2>1, <2>2
  <1>9. ContextsOK'
    <2> SUFFICES ASSUME NEW t \in Threads, stackTop[t] # Dangling
                 PROVE  stackTop[t].depth <= Len(frames'[stackTop[t].stk])
      <3>1. UNCHANGED stackTop
        BY <1>3
      <3>. QED  BY <3>1 DEF ContextsOK
    <2>1. stackTop[t].stk \in Threads /\ stackTop[t].depth \in Nat
      BY <1>1 DEF Context
    <2>2. stackTop[t].depth <= Len(frames[stackTop[t].stk])
      BY DEF AnyDepthInv, ContextsOK
    <2>3. CASE stackTop[t].stk = rsp
      BY <1>1, <1>6, <2>1, <2>2, <2>3 DEF d
    <2>4. CASE stackTop[t].stk # rsp
      BY <1>5, <2>1, <2>2, <2>4
    <2>. QED  BY <2>3, <2>4
  <1>10. IndexOK'
    <2> SUFFICES ASSUME currentThreadIndex >= Len(threads)
                 PROVE  \E k \in DOMAIN frames'[rsp] :
                           /\ frames'[rsp][k].pc = "wrap"
                           /\ \A j \in DOMAIN frames'[rsp] : j > k =>
                                 /\ frames'[rsp][j].pc \in {"check", "load", "store"}
                                 /\ frames'[rsp][j].pc = "store"
                                       => frames'[rsp][j].reg >= Len(threads)
      <3>1. UNCHANGED <<threads, currentThreadIndex, rsp>>
        BY <1>3
      <3>. QED  BY <3>1 DEF IndexOK, Harmless
    <2>1. PICK k \in DOMAIN frames[rsp] :
              /\ frames[rsp][k].pc = "wrap"
              /\ \A j \in DOMAIN frames[rsp] : j > k => Harmless(frames[rsp][j])
      BY DEF AnyDepthInv, IndexOK
    <2>2. k \in 1 .. d /\ d \in Nat
      BY <1>1, <2>1
    <2>3. ASSUME NEW j \in DOMAIN frames'[rsp], j > k
          PROVE  /\ frames'[rsp][j].pc \in {"check", "load", "store"}
                 /\ frames'[rsp][j].pc = "store" => frames'[rsp][j].reg >= Len(threads)
      <3>1. CASE j = d + 1
        BY <1>2, <1>6, <3>1
      <3>2. CASE j # d + 1
        BY <1>6, <2>1, <2>2, <2>3, <3>2 DEF Harmless
      <3>. QED  BY <3>1, <3>2
    <2>. QED  BY <1>6, <2>1, <2>2, <2>3
  <1>11. GateOK'
    <2>1. \A i \in DOMAIN frames'[rsp] : i # d + 1 => i \in 1 .. d
      BY <1>1, <1>6
    <2>. QED  BY <1>2, <1>3, <1>6, <2>1 DEF AnyDepthInv, GateOK
  <1>12. BootOK' /\ DebuggerOK' /\ SchedulingNotLost'
    BY <1>3 DEF AnyDepthInv, BootOK, DebuggerOK, SchedulingNotLost
  <1>. QED  BY <1>7, <1>8, <1>9, <1>10, <1>11, <1>12 DEF AnyDepthInv

\* kernel_main creates a thread.
LEMMA CreateThreadKeeps ==
    ASSUME AnyDepthInv, NEW t \in Threads, CreateThread(t)
    PROVE  AnyDepthInv'
  <1>1. /\ threads \in Seq(Threads) /\ Len(threads) \in Nat /\ currentThreadIndex \in Nat
        /\ rsp = Idle /\ frames[rsp] = <<>> /\ Idle \in Threads
        /\ UNCHANGED <<booted, currentThread, currentThreadIndex, schedulingEnabled,
                       rsp, frames, dbg, was, halted>>
    BY ThreadsAssumption DEF CreateThread, AtThreadLevel, AnyDepthInv, TypeOK
  <1>2. /\ threads' \in Seq(Threads) /\ threads' # <<>> /\ Len(threads') = Len(threads) + 1
    BY <1>1 DEF CreateThread
  <1> DEFINE ctx == [stk |-> t, depth |-> 0]
  <1>3. ctx \in Context /\ ctx.stk = t /\ ctx.depth = 0
    BY DEF Context
  <1>4. stackTop' = [stackTop EXCEPT ![t] = ctx]
    BY DEF CreateThread
  <1> HIDE DEF ctx
  <1>5. /\ stackTop' \in [Threads -> Context \union {Dangling}]
        /\ \A u \in Threads : stackTop'[u] = ctx \/ stackTop'[u] = stackTop[u]
    BY <1>3, <1>4 DEF AnyDepthInv, TypeOK
  <1>6. state' \in [Threads -> TCBState]
    BY DEF CreateThread, AnyDepthInv, TypeOK, TCBState
  <1>7. TypeOK'
    BY <1>1, <1>2, <1>5, <1>6 DEF AnyDepthInv, TypeOK
  <1>8. ContextsOK'
    <2>1. \A u \in Threads : Len(frames[u]) \in Nat
      BY DEF AnyDepthInv, TypeOK
    <2>. QED  BY <1>1, <1>3, <1>5, <2>1 DEF AnyDepthInv, ContextsOK
  <1>9. IndexOK'
    <2>1. currentThreadIndex < Len(threads)
      BY <1>1 DEF AnyDepthInv, IndexOK
    <2>. QED  BY <1>1, <1>2, <2>1 DEF IndexOK
  <1>10. FramesOK' /\ GateOK' /\ BootOK' /\ DebuggerOK' /\ SchedulingNotLost'
    BY <1>1 DEF AnyDepthInv, FramesOK, FrameOK, GateOK, BootOK, DebuggerOK, SchedulingNotLost
  <1>. QED  BY <1>7, <1>8, <1>9, <1>10 DEF AnyDepthInv

\* kernel_main marks a thread Dead or Waiting, or enables scheduling.
LEMMA ParkKeeps ==
    ASSUME AnyDepthInv, NEW t \in Parkable, NEW s \in {"Dead", "Waiting"}, Park(t, s)
    PROVE  AnyDepthInv'
  <1>1. UNCHANGED <<booted, threads, stackTop, currentThread, currentThreadIndex,
                    schedulingEnabled, rsp, frames, dbg, was, halted>>
    BY DEF Park
  <1>2. TypeOK'
    <2>1. state' \in [Threads -> TCBState]
      BY DEF Park, AnyDepthInv, TypeOK, TCBState
    <2>. QED  BY <1>1, <2>1 DEF AnyDepthInv, TypeOK
  <1>3. FramesOK' /\ ContextsOK' /\ IndexOK' /\ GateOK' /\ BootOK' /\ DebuggerOK'
           /\ SchedulingNotLost'
    BY <1>1 DEF AnyDepthInv, FramesOK, FrameOK, ContextsOK, IndexOK, Harmless, GateOK,
                BootOK, DebuggerOK, SchedulingNotLost
  <1>. QED  BY <1>2, <1>3 DEF AnyDepthInv

\* kernel_main enables scheduling.
LEMMA EnableSchedulingKeeps ==
    ASSUME AnyDepthInv, EnableScheduling
    PROVE  AnyDepthInv'
  <1>1. /\ ~booted /\ booted' = TRUE /\ schedulingEnabled' = TRUE
        /\ UNCHANGED <<threads, state, stackTop, currentThread, currentThreadIndex,
                       rsp, frames, dbg, was, halted>>
    BY DEF EnableScheduling
  <1>2. TypeOK'
    BY <1>1 DEF AnyDepthInv, TypeOK
  <1>3. FramesOK' /\ ContextsOK' /\ IndexOK'
    BY <1>1 DEF AnyDepthInv, FramesOK, FrameOK, ContextsOK, IndexOK, Harmless
  <1>4. GateOK' /\ BootOK' /\ DebuggerOK' /\ SchedulingNotLost'
    BY <1>1 DEF AnyDepthInv, GateOK, BootOK, DebuggerOK, SchedulingNotLost
  <1>. QED  BY <1>2, <1>3, <1>4 DEF AnyDepthInv

\* A thread enters, opens or leaves the debugger.
LEMMA DebuggerKeeps ==
    ASSUME AnyDepthInv, NEW t \in Debuggers, Debugger(t)
    PROVE  AnyDepthInv'
  <1>1. t \in Threads /\ t # Idle
    BY ThreadsAssumption
  <1>2. rsp = t /\ frames[rsp] = <<>>
    BY DEF Debugger, EnterDebugger, OpenDebugger, ExitDebugger, AtThreadLevel
  <1>3. booted
    BY <1>1, <1>2 DEF AnyDepthInv, BootOK
  <1>4. UNCHANGED <<booted, threads, state, stackTop, currentThread,
                    currentThreadIndex, rsp, frames, halted>>
    BY DEF Debugger, EnterDebugger, OpenDebugger, ExitDebugger
  <1>5. FramesOK' /\ ContextsOK' /\ IndexOK'
    BY <1>4 DEF AnyDepthInv, FramesOK, FrameOK, ContextsOK, IndexOK, Harmless
  <1>6. GateOK'
    BY <1>2, <1>4 DEF GateOK
  <1>7. BootOK'
    BY <1>3, <1>4 DEF BootOK
  <1>8. /\ dbg \in [Threads -> {"out", "entering", "open"}] /\ was \in [Threads -> BOOLEAN]
        /\ schedulingEnabled \in BOOLEAN
    BY DEF AnyDepthInv, TypeOK
  <1>9. CASE EnterDebugger(t)
    <2>1. /\ dbg[t] = "out" /\ was' = [was EXCEPT ![t] = schedulingEnabled]
          /\ dbg' = [dbg EXCEPT ![t] = "entering"] /\ UNCHANGED schedulingEnabled
      BY <1>9 DEF EnterDebugger
    <2>2. schedulingEnabled
      BY <1>2, <1>3, <2>1 DEF AnyDepthInv, SchedulingNotLost
    <2>3. TypeOK'
      BY <1>4, <1>8, <2>1 DEF AnyDepthInv, TypeOK
    <2>4. DebuggerOK'
      BY <1>1, <1>3, <1>4, <1>8, <2>1, <2>2 DEF AnyDepthInv, DebuggerOK
    <2>5. SchedulingNotLost'
      BY <2>1, <2>2 DEF SchedulingNotLost
    <2>. QED  BY <1>5, <1>6, <1>7, <2>3, <2>4, <2>5 DEF AnyDepthInv
  <1>10. CASE OpenDebugger(t)
    <2>1. /\ dbg[t] = "entering" /\ schedulingEnabled' = FALSE
          /\ dbg' = [dbg EXCEPT ![t] = "open"] /\ UNCHANGED was
      BY <1>10 DEF OpenDebugger
    <2>2. was[t] /\ \A u \in Threads : dbg[u] = "open" => u = t
      BY <1>1, <1>2, <2>1 DEF AnyDepthInv, DebuggerOK
    <2>3. TypeOK'
      BY <1>4, <1>8, <2>1 DEF AnyDepthInv, TypeOK
    <2>4. DebuggerOK'
      BY <1>1, <1>2, <1>3, <1>4, <1>8, <2>1, <2>2 DEF AnyDepthInv, DebuggerOK
    <2>5. SchedulingNotLost'
      BY <1>1, <1>2, <1>4, <1>8, <2>1, <2>2 DEF SchedulingNotLost
    <2>. QED  BY <1>5, <1>6, <1>7, <2>3, <2>4, <2>5 DEF AnyDepthInv
  <1>11. CASE ExitDebugger(t)
    <2>1. /\ dbg[t] = "open" /\ schedulingEnabled' = (schedulingEnabled \/ was[t])
          /\ dbg' = [dbg EXCEPT ![t] = "out"] /\ was' = [was EXCEPT ![t] = FALSE]
      BY <1>11 DEF ExitDebugger
    <2>2. was[t] /\ \A u \in Threads : dbg[u] = "open" => u = t
      BY <1>1, <1>2, <2>1 DEF AnyDepthInv, DebuggerOK
    <2>3. schedulingEnabled' = TRUE
      BY <1>8, <2>1, <2>2
    <2>4. TypeOK'
      BY <1>4, <1>8, <2>1, <2>3 DEF AnyDepthInv, TypeOK
    <2>5. DebuggerOK'
      BY <1>1, <1>3, <1>4, <1>8, <2>1, <2>2 DEF AnyDepthInv, DebuggerOK
    <2>6. SchedulingNotLost'
      BY <2>3 DEF SchedulingNotLost
    <2>. QED  BY <1>5, <1>6, <1>7, <2>4, <2>5, <2>6 DEF AnyDepthInv
  <1>. QED  BY <1>9, <1>10, <1>11 DEF Debugger

\* The machine that Scheduler::Init leaves satisfies the invariant.
LEMMA InitInv == Init => AnyDepthInv
  <1> SUFFICES ASSUME Init PROVE AnyDepthInv
    OBVIOUS
  <1>1. TypeOK
    <2>1. threads \in Seq(Threads) /\ threads # <<>>
      BY ThreadsAssumption DEF Init
    <2>2. state \in [Threads -> TCBState] /\ stackTop \in [Threads -> Context \union {Dangling}]
      BY DEF Init, TCBState
    <2>3. frames \in [Threads -> Seq(Frame)]
      BY DEF Init
    <2>4. dbg \in [Threads -> {"out", "entering", "open"}] /\ was \in [Threads -> BOOLEAN]
      BY DEF Init
    <2>. QED  BY <2>1, <2>2, <2>3, <2>4, ThreadsAssumption DEF Init, TypeOK
  <1>2. FramesOK /\ ContextsOK
    BY ThreadsAssumption DEF Init, FramesOK, ContextsOK
  <1>3. IndexOK
    BY DEF Init, IndexOK
  <1>4. GateOK /\ BootOK /\ DebuggerOK /\ SchedulingNotLost
    BY ThreadsAssumption DEF Init, GateOK, BootOK, DebuggerOK, SchedulingNotLost
  <1>. QED  BY <1>1, <1>2, <1>3, <1>4 DEF AnyDepthInv

\* Every step keeps it.
LEMMA NextInv == AnyDepthInv /\ [Next]_vars => AnyDepthInv'
  <1> SUFFICES ASSUME AnyDepthInv, [Next]_vars PROVE AnyDepthInv'
    OBVIOUS
  <1>1. CASE Boot
    BY <1>1, CreateThreadKeeps, ParkKeeps, EnableSchedulingKeeps DEF Boot
  <1>2. CASE Tick
    BY <1>2, CallScheduleKeeps DEF Tick
  <1>3. CASE \E t \in Threads \ {Idle} : Yield(t)
    BY <1>3, CallScheduleKeeps DEF Yield
  <1>4. CASE Schedule
    BY <1>4, CheckKeeps, LoadIndexKeeps, StoreIndexKeeps, WrapIndexKeeps, PickKeeps,
       TestKeeps, MarkCurrentKeeps, MarkNewKeeps, RereadIndexKeeps, LoadCurrentKeeps,
       SetCurrentKeeps, SaveContextKeeps, LoadContextKeeps, ResumedKeeps DEF Schedule
  <1>5. CASE \E t \in Debuggers : Debugger(t)
    BY <1>5, DebuggerKeeps
  <1>6. CASE UNCHANGED vars
    BY <1>6 DEF vars, AnyDepthInv, TypeOK, FramesOK, FrameOK, ContextsOK, IndexOK, Harmless,
                GateOK, BootOK, DebuggerOK, SchedulingNotLost
  <1>. QED  BY <1>1, <1>2, <1>3, <1>4, <1>5, <1>6 DEF Next

\* AnyDepthInv holds in every reachable state, for any nesting of ticks.
THEOREM AnyDepthInvariance == Spec => []AnyDepthInv
  BY InitInv, NextInv, PTL DEF Spec

-----------------------------------------------------------------------------
(* The theorems *)

\* Type correctness of the scheduler, for any nesting of ticks: in particular
\* currentThread never becomes null and the list never loses k/idle.
THEOREM TypeCorrect == Spec => []TypeOK
  <1>1. AnyDepthInv => TypeOK
    BY DEF AnyDepthInv
  <1>. QED  BY <1>1, AnyDepthInvariance, PTL

\* threads.at(currentThreadIndex) never yields nullptr to Schedule, although a
\* tick may find the index past the end of the list.
THEOREM NullFree == Spec => []NoNullDispatch
  <1>1. AnyDepthInv => NoNullDispatch
    <2> SUFFICES ASSUME AnyDepthInv PROVE NoNullDispatch
      OBVIOUS
    <2>1. rsp \in Threads
      BY DEF AnyDepthInv, TypeOK
    <2>2. ASSUME frames[rsp] # <<>> PROVE FrameOK(This)
      BY <2>1, <2>2, TopFacts DEF AnyDepthInv, FramesOK, This
    <2>. QED  BY <2>2 DEF NoNullDispatch, At, FrameOK, This
  <1>. QED  BY <1>1, AnyDepthInvariance, PTL

\* Scheduling, once enabled, is off only while the executing thread sits at the
\* debugger's prompt and has recorded that it must turn it on again.
THEOREM SchedulingRestored == Spec => []SchedulingNotLost
  <1>1. AnyDepthInv => SchedulingNotLost
    BY DEF AnyDepthInv
  <1>. QED  BY <1>1, AnyDepthInvariance, PTL

\* No step switches threads or changes a thread's state while the debugger's
\* prompt is open, however the ticks fall.
THEOREM DebuggerHoldsProcessor == Spec => DebuggerFreezes
  <1>1. AnyDepthInv /\ [Next]_vars =>
            [dbg[rsp] = "open" =>
                UNCHANGED <<rsp, currentThread, state, currentThreadIndex>>]_vars
    <2> SUFFICES ASSUME AnyDepthInv, Next, dbg[rsp] = "open"
                 PROVE  UNCHANGED <<rsp, currentThread, state, currentThreadIndex>>
      BY DEF vars
    <2>1. rsp \in Threads /\ booted /\ ~schedulingEnabled
      BY DEF AnyDepthInv, TypeOK, DebuggerOK
    <2>2. frames[rsp] # <<>> => This.pc = "check"
      BY <2>1, PastGate
    <2>3. CASE Boot
      BY <2>1, <2>3 DEF Boot, CreateThread, Park, EnableScheduling
    <2>4. CASE Tick \/ (\E t \in Threads \ {Idle} : Yield(t))
      BY <2>4 DEF Tick, Yield, CallSchedule
    <2>5. CASE Schedule
      <3>1. At("check")
        BY <2>2, <2>5 DEF Schedule, At, This, Check, LoadIndex, StoreIndex, WrapIndex, Pick,
              Test, MarkCurrent, MarkNew, RereadIndex, LoadCurrent, SetCurrent, SaveContext,
              LoadContext, Resumed
      <3>2. Check
        BY <2>5, <3>1 DEF Schedule, At, LoadIndex, StoreIndex, WrapIndex, Pick,
              Test, MarkCurrent, MarkNew, RereadIndex, LoadCurrent, SetCurrent, SaveContext,
              LoadContext, Resumed
      <3>3. Return
        BY <2>1, <3>2 DEF Check
      <3>. QED  BY <3>3 DEF Return
    <2>6. CASE \E t \in Debuggers : Debugger(t)
      BY <2>6 DEF Debugger, EnterDebugger, OpenDebugger, ExitDebugger
    <2>. QED  BY <2>3, <2>4, <2>5, <2>6 DEF Next
  <1>. QED  BY <1>1, AnyDepthInvariance, PTL DEF Spec, DebuggerFreezes
=============================================================================
