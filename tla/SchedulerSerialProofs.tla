------------------------ MODULE SchedulerSerialProofs ------------------------
(***************************************************************************)
(* What holds of the scheduler when no tick lands inside Schedule          *)
(* (MaxDepth = 1): the algorithm keeps contexts and thread states right.   *)
(* With nested ticks all of these fail; see the runs with MaxDepth = 2.    *)
(*                                                                         *)
(* Then the order in which Schedule hands the processor round: its search  *)
(* passes over no thread that may run, gives up only when there is none,   *)
(* and so implements the round-robin promise of RoundRobin.tla.            *)
(***************************************************************************)
EXTENDS SchedulerProofs

-----------------------------------------------------------------------------
(* The inductive invariant *)

\* Where the executing thread is.
Where == IF frames[rsp] = <<>> THEN "thread" ELSE This.pc

\* Activations do not pile up, and a thread that was switched out is resumed
\* where it was left.
StacksOK ==
    /\ ~halted
    /\ rsp \in Created
    /\ \A t \in Threads : Len(frames[t]) <= 1
    /\ \A t \in Threads \ Created : frames[t] = <<>>
    /\ \A t \in Created \ {rsp} : stackTop[t] = [stk |-> t, depth |-> Len(frames[t])]
    /\ Where = "jump" => stackTop[rsp] = [stk |-> rsp, depth |-> 1]

\* currentThread names the executing thread until the switch assigns it.
CurrentOK ==
    /\ Where \notin {"save", "jump"} => currentThread = rsp
    /\ Where \in {"set_cur", "save"} => This.cur = rsp
    /\ Where \in {"save", "jump"} => currentThread = This.arg

\* The candidate is the thread the index names, and it may run.
CandidateOK ==
    /\ Where \in {"test", "mark_cur", "mark_new"} => This.new = ThreadAt(currentThreadIndex)
    /\ Where \in {"mark_cur", "mark_new"} => state[This.new] = "Ready"
    /\ Where = "reread" => state[ThreadAt(currentThreadIndex)] = "Running"
    /\ Where \in {"load_cur", "set_cur", "save", "jump"} =>
          This.arg \in Created /\ state[This.arg] = "Running"

\* The one thread that may be marked Running, as the switch goes on.
OnlyRunning(t) == \A u \in Created : state[u] = "Running" => u = t

\* Which thread is marked Running, at each statement of the switch.
RunningOK ==
    /\ state[rsp] \in {"Ready", "Running"}
    /\ Where \notin {"mark_new", "reread", "load_cur", "set_cur", "save", "jump"}
          => OnlyRunning(rsp)
    /\ Where = "mark_new" => \A u \in Created : state[u] # "Running"
    /\ Where = "reread" => OnlyRunning(ThreadAt(currentThreadIndex))
    /\ Where \in {"load_cur", "set_cur", "save", "jump"} => OnlyRunning(This.arg)

\* The inductive invariant when no tick lands inside Schedule.
SerialInv == AnyDepthInv /\ StacksOK /\ CurrentOK /\ CandidateOK /\ RunningOK

\* The part of SerialInv that is to be shown of each step.
SerialOK == StacksOK /\ CurrentOK /\ CandidateOK /\ RunningOK

-----------------------------------------------------------------------------
(* The executing activation *)

\* Where the executing activation is, and its type.
LEMMA WhereFacts ==
    ASSUME SerialInv, NEW pc, At(pc)
    PROVE  /\ frames[rsp] # <<>> /\ Where = pc /\ This.pc = pc /\ This \in Frame
           /\ rsp \in Threads /\ Len(frames[rsp]) = 1
  <1>1. rsp \in Threads /\ TypeOK /\ frames[rsp] # <<>> /\ This.pc = pc
    BY DEF SerialInv, AnyDepthInv, TypeOK, At, This
  <1>2. Len(frames[rsp]) \in Nat \ {0} /\ This \in Frame
    BY <1>1, TopFacts DEF This
  <1>3. Len(frames[rsp]) <= 1
    BY <1>1 DEF SerialInv, StacksOK
  <1>4. Len(frames[rsp]) = 1
    <2>1. \A n \in Nat \ {0} : n <= 1 => n = 1
      OBVIOUS
    <2>. QED  BY ONLY <1>2, <1>3, <2>1
  <1>5. Where = pc
    BY <1>1 DEF Where
  <1>. QED  BY <1>1, <1>2, <1>4, <1>5

\* After Step(f), f is the executing activation.
LEMMA WhereAfterStep ==
    ASSUME SerialInv, frames[rsp] # <<>>, NEW f \in Frame, Step(f), rsp' = rsp
    PROVE  /\ This' = f /\ Where' = f.pc
           /\ \A t \in Threads : Len(frames'[t]) = Len(frames[t])
           /\ \A t \in Threads \ {rsp} : frames'[t] = frames[t]
  <1>1. TypeOK /\ rsp \in Threads /\ frames \in [Threads -> Seq(Frame)]
    BY DEF SerialInv, AnyDepthInv, TypeOK
  <1>2. /\ \A t \in Threads : Len(frames'[t]) = Len(frames[t])
        /\ frames'[rsp][Len(frames[rsp])] = f
    BY <1>1, StepFacts
  <1>3. \A t \in Threads \ {rsp} : frames'[t] = frames[t]
    BY <1>1 DEF Step
  <1>4. Top(frames'[rsp]) = f
    BY <1>1, <1>2 DEF Top
  <1>5. This' = f
    BY <1>4 DEF This, Top
  <1>6. frames'[rsp] # <<>>
    BY <1>1, <1>2, TopFacts
  <1>. QED  BY <1>2, <1>3, <1>5, <1>6 DEF Where

\* Step(f) leaves the stacks and the saved contexts consistent.
LEMMA StepKeepsStacks ==
    ASSUME SerialInv, frames[rsp] # <<>>, NEW f \in Frame, Step(f), f.pc # "jump",
           UNCHANGED <<rsp, threads, stackTop, halted>>
    PROVE  StacksOK'
  <1>1. /\ Where' = f.pc
        /\ \A t \in Threads : Len(frames'[t]) = Len(frames[t])
        /\ \A t \in Threads \ {rsp} : frames'[t] = frames[t]
    BY WhereAfterStep
  <1>2. Created' = Created /\ Created \subseteq Threads
    BY DEF Created, SerialInv, AnyDepthInv, TypeOK
  <1>. QED  BY <1>1, <1>2 DEF SerialInv, StacksOK

\* The thread named by an index within the list has been created.
LEMMA ThreadAtCreated ==
    ASSUME TypeOK, currentThreadIndex < Len(threads)
    PROVE  ThreadAt(currentThreadIndex) \in Created
  BY DEF TypeOK, ThreadAt, Created

\* A search step: the activation stays outside the critical section, and the
\* candidate, where it has one, is the thread the index names.
LEMMA SearchKeeps ==
    ASSUME SerialInv, frames[rsp] # <<>>, NEW f \in Frame, Step(f),
           Where \in {"check", "load", "store", "wrap", "pick", "test"},
           f.pc \in {"load", "store", "wrap", "pick", "test"},
           f.pc = "test" => f.new = ThreadAt(currentThreadIndex)',
           UNCHANGED <<rsp, threads, state, stackTop, currentThread, halted>>
    PROVE  SerialOK'
  <1>1. This' = f /\ Where' = f.pc
    BY WhereAfterStep
  <1>2. StacksOK'
    BY StepKeepsStacks
  <1>3. CurrentOK'
    BY <1>1 DEF SerialInv, CurrentOK
  <1>4. CandidateOK'
    BY <1>1 DEF CandidateOK
  <1>5. RunningOK'
    BY <1>1 DEF SerialInv, RunningOK, OnlyRunning, Created
  <1>. QED  BY <1>2, <1>3, <1>4, <1>5 DEF SerialOK

\* Schedule returns to the thread that called it.
LEMMA ReturnSerial ==
    ASSUME SerialInv, Return, frames[rsp] # <<>>, Len(frames[rsp]) = 1,
           Where \in {"check", "test", "resumed"}
    PROVE  SerialOK' /\ Where' = "thread"
  <1>1. /\ rsp \in Threads /\ frames \in [Threads -> Seq(Frame)]
        /\ stackTop \in [Threads -> Context \union {Dangling}]
        /\ Created \subseteq Threads
    BY DEF SerialInv, AnyDepthInv, TypeOK, Created
  <1>2. /\ frames' = [frames EXCEPT ![rsp] = SubSeq(frames[rsp], 1, 0)]
        /\ stackTop' = Invalidate(stackTop, rsp, 1)
        /\ UNCHANGED <<threads, state, currentThread, currentThreadIndex, rsp, halted>>
    BY DEF Return
  <1>3. SubSeq(frames[rsp], 1, 0) = <<>>
    BY <1>1
  <1>4. frames'[rsp] = <<>> /\ \A t \in Threads \ {rsp} : frames'[t] = frames[t]
    BY <1>1, <1>2, <1>3
  <1>5. Where' = "thread" /\ Created' = Created
    BY <1>2, <1>4 DEF Where, Created
  <1>6. \A t \in Created \ {rsp} : stackTop'[t] = stackTop[t]
    <2> TAKE t \in Created \ {rsp}
    <2>1. stackTop[t] = [stk |-> t, depth |-> Len(frames[t])]
      BY DEF SerialInv, StacksOK
    <2>. QED  BY <1>1, <1>2, <2>1 DEF Invalidate
  <1>7. StacksOK'
    <2>1. Len(<<>>) <= 1
      OBVIOUS
    <2>. QED  BY <1>1, <1>2, <1>4, <1>5, <1>6, <2>1 DEF SerialInv, StacksOK
  <1>8. CurrentOK' /\ CandidateOK'
    BY <1>2, <1>5 DEF SerialInv, CurrentOK, CandidateOK
  <1>9. RunningOK'
    BY <1>2, <1>5 DEF SerialInv, RunningOK, OnlyRunning
  <1>. QED  BY <1>5, <1>7, <1>8, <1>9 DEF SerialOK

-----------------------------------------------------------------------------
(* One lemma per step of Schedule *)

\* if (!schedulingEnabled) return
LEMMA CheckSerial ==
    ASSUME SerialInv, Check
    PROVE  SerialOK'
  <1>1. /\ frames[rsp] # <<>> /\ Where = "check" /\ This \in Frame /\ Len(frames[rsp]) = 1
    BY WhereFacts DEF Check
  <1>2. CASE Local([This EXCEPT !.pc = "load"])
    <2> DEFINE f == [This EXCEPT !.pc = "load"]
    <2>1. f \in Frame /\ f.pc = "load"
      BY <1>1 DEF Frame, Pcs
    <2> HIDE DEF f
    <2>2. Step(f) /\ UNCHANGED <<rsp, threads, state, stackTop, currentThread, halted>>
      BY <1>2 DEF f, Local
    <2>. QED  BY <1>1, <2>1, <2>2, SearchKeeps
  <1>3. CASE Return
    BY <1>1, <1>3, ReturnSerial
  <1>. QED  BY <1>2, <1>3 DEF Check

\* ++currentThreadIndex, in a register
LEMMA LoadIndexSerial ==
    ASSUME SerialInv, LoadIndex
    PROVE  SerialOK'
  <1>1. frames[rsp] # <<>> /\ Where = "load" /\ This \in Frame
    BY WhereFacts DEF LoadIndex
  <1> DEFINE f == [This EXCEPT !.pc = "store", !.reg = currentThreadIndex + 1]
  <1>2. f \in Frame /\ f.pc = "store"
    <2>1. currentThreadIndex + 1 \in Nat
      BY DEF SerialInv, AnyDepthInv, TypeOK
    <2>. QED  BY <1>1, <2>1 DEF Frame, Pcs
  <1> HIDE DEF f
  <1>3. Step(f) /\ UNCHANGED <<rsp, threads, state, stackTop, currentThread, halted>>
    BY DEF f, LoadIndex, Local
  <1>. QED  BY <1>1, <1>2, <1>3, SearchKeeps

\* ++currentThreadIndex, stored
LEMMA StoreIndexSerial ==
    ASSUME SerialInv, StoreIndex
    PROVE  SerialOK'
  <1>1. frames[rsp] # <<>> /\ Where = "store" /\ This \in Frame
    BY WhereFacts DEF StoreIndex
  <1> DEFINE f == [This EXCEPT !.pc = IF This.reg >= Len(threads) THEN "wrap" ELSE "pick",
                               !.reg = 0]
  <1>2. f \in Frame /\ f.pc \in {"wrap", "pick"}
    BY <1>1 DEF Frame, Pcs
  <1> HIDE DEF f
  <1>3. Step(f) /\ UNCHANGED <<rsp, threads, state, stackTop, currentThread, halted>>
    BY DEF f, StoreIndex
  <1>. QED  BY <1>1, <1>2, <1>3, SearchKeeps

\* currentThreadIndex = 0
LEMMA WrapIndexSerial ==
    ASSUME SerialInv, WrapIndex
    PROVE  SerialOK'
  <1>1. frames[rsp] # <<>> /\ Where = "wrap" /\ This \in Frame
    BY WhereFacts DEF WrapIndex
  <1> DEFINE f == [This EXCEPT !.pc = "pick"]
  <1>2. f \in Frame /\ f.pc = "pick"
    BY <1>1 DEF Frame, Pcs
  <1> HIDE DEF f
  <1>3. Step(f) /\ UNCHANGED <<rsp, threads, state, stackTop, currentThread, halted>>
    BY DEF f, WrapIndex
  <1>. QED  BY <1>1, <1>2, <1>3, SearchKeeps

\* new_thread = threads.at(currentThreadIndex)
LEMMA PickSerial ==
    ASSUME SerialInv, Pick
    PROVE  SerialOK'
  <1>1. frames[rsp] # <<>> /\ Where = "pick" /\ This.pc = "pick" /\ This \in Frame
    BY WhereFacts DEF Pick
  <1>2. ThreadAt(currentThreadIndex) \in Threads
    BY <1>1, IndexInRange DEF ThreadAt, SerialInv, AnyDepthInv, TypeOK
  <1> DEFINE f == [This EXCEPT !.pc = "test", !.new = ThreadAt(currentThreadIndex)]
  <1>3. f \in Frame /\ f.pc = "test" /\ f.new = ThreadAt(currentThreadIndex)
    BY <1>1, <1>2 DEF Frame, Pcs
  <1> HIDE DEF f
  <1>4. /\ Step(f) /\ UNCHANGED <<rsp, threads, state, stackTop, currentThread, halted>>
        /\ UNCHANGED currentThreadIndex
    BY DEF f, Pick, Local
  <1>5. f.new = ThreadAt(currentThreadIndex)'
    BY <1>3, <1>4 DEF ThreadAt
  <1>. QED  BY <1>1, <1>3, <1>4, <1>5, SearchKeeps

\* The candidate is Ready, or the next one is tried, or Schedule gives up.
LEMMA TestSerial ==
    ASSUME SerialInv, Test
    PROVE  SerialOK'
  <1>1. /\ frames[rsp] # <<>> /\ Where = "test" /\ This \in Frame /\ Len(frames[rsp]) = 1
    BY WhereFacts DEF Test
  <1>2. CASE /\ state[This.new] = "Ready"
             /\ Local([This EXCEPT !.pc = "mark_cur", !.tries = 0])
    <2> DEFINE f == [This EXCEPT !.pc = "mark_cur", !.tries = 0]
    <2>1. f \in Frame /\ f.pc = "mark_cur" /\ f.new = This.new
      BY <1>1 DEF Frame, Pcs
    <2> HIDE DEF f
    <2>2. /\ Step(f)
          /\ UNCHANGED <<rsp, threads, state, stackTop, currentThread, currentThreadIndex, halted>>
      BY <1>2 DEF f, Local
    <2>3. This' = f /\ Where' = "mark_cur"
      BY <1>1, <2>1, <2>2, WhereAfterStep
    <2>4. StacksOK'
      BY <1>1, <2>1, <2>2, StepKeepsStacks
    <2>5. CurrentOK'
      BY <1>1, <2>2, <2>3 DEF SerialInv, CurrentOK
    <2>6. CandidateOK'
      BY <1>1, <1>2, <2>1, <2>2, <2>3 DEF SerialInv, CandidateOK, ThreadAt
    <2>7. RunningOK'
      BY <1>1, <2>2, <2>3 DEF SerialInv, RunningOK, OnlyRunning, Created
    <2>. QED  BY <2>4, <2>5, <2>6, <2>7 DEF SerialOK
  <1>3. CASE Local([This EXCEPT !.pc = "load", !.tries = @ + 1, !.new = Null])
    <2> DEFINE f == [This EXCEPT !.pc = "load", !.tries = @ + 1, !.new = Null]
    <2>1. f \in Frame /\ f.pc = "load"
      <3>1. This.tries + 1 \in Nat
        BY <1>1 DEF Frame
      <3>. QED  BY <1>1, <3>1 DEF Frame, Pcs
    <2> HIDE DEF f
    <2>2. Step(f) /\ UNCHANGED <<rsp, threads, state, stackTop, currentThread, halted>>
      BY <1>3 DEF f, Local
    <2>. QED  BY <1>1, <2>1, <2>2, SearchKeeps
  <1>4. CASE Return
    BY <1>1, <1>4, ReturnSerial
  <1>. QED  BY <1>2, <1>3, <1>4 DEF Test

\* currentThread->state = Ready: for a moment no thread is Running
LEMMA MarkCurrentSerial ==
    ASSUME SerialInv, MarkCurrent
    PROVE  SerialOK'
  <1>1. frames[rsp] # <<>> /\ Where = "mark_cur" /\ This \in Frame /\ rsp \in Threads
    BY WhereFacts DEF MarkCurrent
  <1> DEFINE f == [This EXCEPT !.pc = "mark_new"]
  <1>2. f \in Frame /\ f.pc = "mark_new" /\ f.new = This.new
    BY <1>1 DEF Frame, Pcs
  <1> HIDE DEF f
  <1>3. /\ Step(f)
        /\ UNCHANGED <<rsp, threads, stackTop, currentThread, currentThreadIndex, halted>>
    BY DEF f, MarkCurrent
  <1>4. This' = f /\ Where' = "mark_new"
    BY <1>1, <1>2, <1>3, WhereAfterStep
  <1>5. currentThread = rsp /\ state \in [Threads -> TCBState] /\ Created \subseteq Threads
    BY <1>1 DEF SerialInv, CurrentOK, AnyDepthInv, TypeOK, Created
  <1>6. state' = [state EXCEPT ![rsp] = "Ready"] /\ Created' = Created
    BY <1>3, <1>5 DEF MarkCurrent, Created
  <1>7. StacksOK'
    BY <1>1, <1>2, <1>3, StepKeepsStacks
  <1>8. CurrentOK'
    BY <1>3, <1>4, <1>5 DEF CurrentOK
  <1>9. CandidateOK'
    <2>1. This.new \in Threads
      <3>1. This.pc = "mark_cur"
        BY WhereFacts DEF MarkCurrent
      <3>2. This.new # Null
        BY <1>1, <3>1, TopFacts DEF SerialInv, AnyDepthInv, FramesOK, FrameOK, This
      <3>. QED  BY <1>1, <3>2 DEF Frame
    <2>2. This.new = ThreadAt(currentThreadIndex) /\ state[This.new] = "Ready"
      BY <1>1 DEF SerialInv, CandidateOK
    <2>3. state'[This.new] = "Ready"
      BY <1>5, <1>6, <2>1, <2>2
    <2>4. ThreadAt(currentThreadIndex)' = ThreadAt(currentThreadIndex)
      BY <1>3 DEF ThreadAt
    <2>. QED  BY <1>2, <1>4, <2>2, <2>3, <2>4 DEF CandidateOK
  <1>10. RunningOK'
    <2>1. \A u \in Created : state[u] = "Running" => u = rsp
      BY <1>1 DEF SerialInv, RunningOK, OnlyRunning
    <2>2. \A u \in Created : state'[u] # "Running"
      BY <1>1, <1>5, <1>6, <2>1
    <2>3. state'[rsp] = "Ready"
      BY <1>1, <1>5, <1>6
    <2>. QED  BY <1>3, <1>4, <1>6, <2>2, <2>3 DEF RunningOK
  <1>. QED  BY <1>7, <1>8, <1>9, <1>10 DEF SerialOK

\* new_thread->state = Running
LEMMA MarkNewSerial ==
    ASSUME SerialInv, MarkNew
    PROVE  SerialOK'
  <1>1. /\ frames[rsp] # <<>> /\ Where = "mark_new" /\ This.pc = "mark_new" /\ This \in Frame
        /\ rsp \in Threads
    BY WhereFacts DEF MarkNew
  <1> DEFINE f == [This EXCEPT !.pc = "reread", !.new = Null]
  <1>2. f \in Frame /\ f.pc = "reread"
    BY <1>1 DEF Frame, Pcs
  <1> HIDE DEF f
  <1>3. /\ Step(f)
        /\ UNCHANGED <<rsp, threads, stackTop, currentThread, currentThreadIndex, halted>>
    BY DEF f, MarkNew
  <1>4. This' = f /\ Where' = "reread"
    BY <1>1, <1>2, <1>3, WhereAfterStep
  <1>5. /\ This.new = ThreadAt(currentThreadIndex) /\ This.new \in Created
        /\ ThreadAt(currentThreadIndex)' = This.new
    <2>1. This.new = ThreadAt(currentThreadIndex)
      BY <1>1 DEF SerialInv, CandidateOK
    <2>2. currentThreadIndex < Len(threads)
      BY <1>1, IndexInRange DEF SerialInv
    <2>3. ThreadAt(currentThreadIndex)' = ThreadAt(currentThreadIndex)
      BY <1>3 DEF ThreadAt
    <2>. QED  BY <2>1, <2>2, <2>3, ThreadAtCreated DEF SerialInv, AnyDepthInv
  <1>6. state \in [Threads -> TCBState] /\ Created \subseteq Threads
    BY DEF SerialInv, AnyDepthInv, TypeOK, Created
  <1>7. state' = [state EXCEPT ![This.new] = "Running"] /\ Created' = Created
    BY <1>3 DEF MarkNew, Created
  <1>8. StacksOK'
    BY <1>1, <1>2, <1>3, StepKeepsStacks
  <1>9. CurrentOK'
    BY <1>1, <1>3, <1>4 DEF SerialInv, CurrentOK
  <1>10. CandidateOK'
    <2>1. state'[This.new] = "Running"
      BY <1>5, <1>6, <1>7
    <2>2. state'[ThreadAt(currentThreadIndex)'] = "Running"
      BY <1>5, <2>1
    <2>. QED  BY <1>4, <2>2 DEF CandidateOK
  <1>11. RunningOK'
    <2>1. \A u \in Created : state[u] # "Running"
      BY <1>1 DEF SerialInv, RunningOK
    <2>2. \A u \in Created : state'[u] = "Running" => u = This.new
      BY <1>5, <1>6, <1>7, <2>1
    <2>3. OnlyRunning(ThreadAt(currentThreadIndex))'
      BY <1>5, <1>7, <2>2 DEF OnlyRunning
    <2>4. state'[rsp] \in {"Ready", "Running"}
      BY <1>1, <1>6, <1>7 DEF SerialInv, RunningOK
    <2>. QED  BY <1>3, <1>4, <2>3, <2>4 DEF RunningOK
  <1>. QED  BY <1>8, <1>9, <1>10, <1>11 DEF SerialOK

\* The index still names the thread that was marked Running.
LEMMA RereadIndexSerial ==
    ASSUME SerialInv, RereadIndex
    PROVE  SerialOK'
  <1>1. /\ frames[rsp] # <<>> /\ Where = "reread" /\ This.pc = "reread" /\ This \in Frame
        /\ rsp \in Threads
    BY WhereFacts DEF RereadIndex
  <1> DEFINE n == ThreadAt(currentThreadIndex)
             f == [This EXCEPT !.pc = "load_cur", !.arg = n]
  <1>2. n \in Created /\ n \in Threads
    <2>1. currentThreadIndex < Len(threads)
      BY <1>1, IndexInRange DEF SerialInv
    <2>. QED  BY <2>1, ThreadAtCreated DEF SerialInv, AnyDepthInv, TypeOK, Created
  <1>3. f \in Frame /\ f.pc = "load_cur" /\ f.arg = n
    BY <1>1, <1>2 DEF Frame, Pcs
  <1>4. /\ Step(f)
        /\ UNCHANGED <<rsp, threads, state, stackTop, currentThread, currentThreadIndex, halted>>
    BY DEF RereadIndex, Local
  <1>5. state[n] = "Running" /\ OnlyRunning(n) /\ state[rsp] \in {"Ready", "Running"}
    BY <1>1 DEF SerialInv, CandidateOK, RunningOK
  <1> HIDE DEF f, n
  <1>6. This' = f /\ Where' = "load_cur" /\ Created' = Created
    BY <1>1, <1>3, <1>4, WhereAfterStep DEF Created
  <1>7. StacksOK'
    BY <1>1, <1>3, <1>4, StepKeepsStacks
  <1>8. CurrentOK'
    BY <1>1, <1>4, <1>6 DEF SerialInv, CurrentOK
  <1>9. CandidateOK'
    BY <1>2, <1>3, <1>4, <1>5, <1>6 DEF CandidateOK
  <1>10. RunningOK'
    BY <1>3, <1>4, <1>5, <1>6 DEF RunningOK, OnlyRunning
  <1>. QED  BY <1>7, <1>8, <1>9, <1>10 DEF SerialOK

\* curThread = currentThread
LEMMA LoadCurrentSerial ==
    ASSUME SerialInv, LoadCurrent
    PROVE  SerialOK'
  <1>1. frames[rsp] # <<>> /\ Where = "load_cur" /\ This \in Frame /\ rsp \in Threads
    BY WhereFacts DEF LoadCurrent
  <1>2. currentThread = rsp
    BY <1>1 DEF SerialInv, CurrentOK
  <1> DEFINE f == [This EXCEPT !.pc = "set_cur", !.cur = currentThread]
  <1>3. f \in Frame /\ f.pc = "set_cur" /\ f.arg = This.arg /\ f.cur = rsp
    BY <1>1, <1>2 DEF Frame, Pcs
  <1> HIDE DEF f
  <1>4. /\ Step(f)
        /\ UNCHANGED <<rsp, threads, state, stackTop, currentThread, currentThreadIndex, halted>>
    BY DEF f, LoadCurrent, Local
  <1>5. This' = f /\ Where' = "set_cur" /\ Created' = Created
    BY <1>1, <1>3, <1>4, WhereAfterStep DEF Created
  <1>6. StacksOK'
    BY <1>1, <1>3, <1>4, StepKeepsStacks
  <1>7. CurrentOK'
    BY <1>2, <1>3, <1>4, <1>5 DEF CurrentOK
  <1>8. CandidateOK'
    BY <1>1, <1>3, <1>4, <1>5 DEF SerialInv, CandidateOK
  <1>9. RunningOK'
    BY <1>1, <1>3, <1>4, <1>5 DEF SerialInv, RunningOK, OnlyRunning
  <1>. QED  BY <1>6, <1>7, <1>8, <1>9 DEF SerialOK

\* currentThread = newThread
LEMMA SetCurrentSerial ==
    ASSUME SerialInv, SetCurrent
    PROVE  SerialOK'
  <1>1. frames[rsp] # <<>> /\ Where = "set_cur" /\ This \in Frame /\ rsp \in Threads
    BY WhereFacts DEF SetCurrent
  <1> DEFINE f == [This EXCEPT !.pc = "save"]
  <1>2. f \in Frame /\ f.pc = "save" /\ f.arg = This.arg /\ f.cur = This.cur
    BY <1>1 DEF Frame, Pcs
  <1> HIDE DEF f
  <1>3. /\ Step(f) /\ currentThread' = This.arg
        /\ UNCHANGED <<rsp, threads, state, stackTop, currentThreadIndex, halted>>
    BY DEF f, SetCurrent
  <1>4. This' = f /\ Where' = "save" /\ Created' = Created
    BY <1>1, <1>2, <1>3, WhereAfterStep DEF Created
  <1>5. StacksOK'
    BY <1>1, <1>2, <1>3, StepKeepsStacks
  <1>6. CurrentOK'
    BY <1>1, <1>2, <1>3, <1>4 DEF SerialInv, CurrentOK
  <1>7. CandidateOK'
    BY <1>1, <1>2, <1>3, <1>4 DEF SerialInv, CandidateOK
  <1>8. RunningOK'
    BY <1>1, <1>2, <1>3, <1>4 DEF SerialInv, RunningOK, OnlyRunning
  <1>. QED  BY <1>5, <1>6, <1>7, <1>8 DEF SerialOK

\* The context is saved in the control block of the thread that executes.
LEMMA SaveContextSerial ==
    ASSUME SerialInv, SaveContext
    PROVE  SerialOK'
  <1>1. /\ frames[rsp] # <<>> /\ Where = "save" /\ This \in Frame /\ rsp \in Threads
        /\ Len(frames[rsp]) = 1
    BY WhereFacts DEF SaveContext
  <1>2. This.cur = rsp
    BY <1>1 DEF SerialInv, CurrentOK
  <1> DEFINE f == [This EXCEPT !.pc = "jump", !.cur = Null]
  <1>3. f \in Frame /\ f.pc = "jump" /\ f.arg = This.arg
    BY <1>1 DEF Frame, Pcs
  <1> HIDE DEF f
  <1>4. /\ Step(f) /\ stackTop' = [stackTop EXCEPT ![rsp] = [stk |-> rsp, depth |-> 1]]
        /\ UNCHANGED <<rsp, threads, state, currentThread, currentThreadIndex, halted>>
    BY <1>1, <1>2 DEF f, SaveContext
  <1>5. /\ This' = f /\ Where' = "jump" /\ Created' = Created
        /\ \A t \in Threads : Len(frames'[t]) = Len(frames[t])
        /\ \A t \in Threads \ {rsp} : frames'[t] = frames[t]
    BY <1>1, <1>3, <1>4, WhereAfterStep DEF Created
  <1>6. StacksOK'
    <2>1. stackTop \in [Threads -> Context \union {Dangling}] /\ Created \subseteq Threads
      BY DEF SerialInv, AnyDepthInv, TypeOK, Created
    <2>2. /\ stackTop'[rsp] = [stk |-> rsp, depth |-> 1]
          /\ \A t \in Created \ {rsp} : stackTop'[t] = stackTop[t]
      BY <1>1, <1>4, <2>1
    <2>3. ~halted' /\ rsp' \in Created' /\ (\A t \in Threads : Len(frames'[t]) <= 1)
             /\ (\A t \in Threads \ Created' : frames'[t] = <<>>)
      BY <1>4, <1>5 DEF SerialInv, StacksOK
    <2>4. \A t \in Created \ {rsp} : stackTop'[t] = [stk |-> t, depth |-> Len(frames'[t])]
      BY <1>5, <2>1, <2>2 DEF SerialInv, StacksOK
    <2>. QED  BY <1>4, <1>5, <2>2, <2>3, <2>4 DEF StacksOK
  <1>7. CurrentOK'
    BY <1>1, <1>3, <1>4, <1>5 DEF SerialInv, CurrentOK
  <1>8. CandidateOK'
    BY <1>1, <1>3, <1>4, <1>5 DEF SerialInv, CandidateOK
  <1>9. RunningOK'
    BY <1>1, <1>3, <1>4, <1>5 DEF SerialInv, RunningOK, OnlyRunning
  <1>. QED  BY <1>6, <1>7, <1>8, <1>9 DEF SerialOK

\* The processor enters the stack of the thread that currentThread names.
LEMMA LoadContextSerial ==
    ASSUME SerialInv, LoadContext
    PROVE  SerialOK' /\ Where' \in {"thread", "resumed"}
  <1>1. /\ frames[rsp] # <<>> /\ Where = "jump" /\ This \in Frame /\ rsp \in Threads
        /\ Len(frames[rsp]) = 1
    BY WhereFacts DEF LoadContext
  <1> DEFINE a     == This.arg
             left  == [This EXCEPT !.pc = "resumed", !.arg = Null]
             saved == [frames EXCEPT ![rsp] = ReplaceTop(@, left)]
             n     == Len(frames[a])
             under == SubSeq(saved[a], 1, n)
             top   == [Top(under) EXCEPT !.pc = "resumed", !.arg = Null]
             entered == IF n = 0 THEN <<>> ELSE ReplaceTop(under, top)
  <1>2. /\ a \in Created /\ a \in Threads /\ state[a] = "Running" /\ OnlyRunning(a)
        /\ currentThread = a
    BY <1>1 DEF SerialInv, CandidateOK, RunningOK, CurrentOK, AnyDepthInv, TypeOK, Created
  <1>3. /\ frames \in [Threads -> Seq(Frame)] /\ n \in {0, 1} /\ Created \subseteq Threads
        /\ stackTop \in [Threads -> Context \union {Dangling}]
    <2>1. frames[a] \in Seq(Frame) /\ Len(frames[a]) <= 1
      BY <1>2 DEF SerialInv, AnyDepthInv, TypeOK, StacksOK
    <2>2. n \in Nat /\ n <= 1
      BY <2>1
    <2> HIDE DEF n
    <2>. QED  BY <2>2 DEF SerialInv, AnyDepthInv, TypeOK, Created
  <1>4. stackTop[a] = [stk |-> a, depth |-> n]
    BY <1>1, <1>2 DEF SerialInv, StacksOK
  <1>5. stackTop[a] # Dangling
    <2>1. [stk |-> a, depth |-> n] \in [stk: Threads, depth: Nat]
      BY <1>2, <1>3
    <2>. QED  BY <1>4, <2>1, ThreadsAssumption
  <1>6. /\ rsp' = a
        /\ frames' = [saved EXCEPT ![a] = entered]
        /\ stackTop' = Invalidate(stackTop, a, n)
        /\ UNCHANGED <<booted, threads, state, currentThread, currentThreadIndex, halted>>
    BY <1>4, <1>5 DEF LoadContext
  <1>7. left \in Frame
    BY <1>1 DEF Frame, Pcs
  <1> HIDE DEF left
  <1>8. /\ ReplaceTop(frames[rsp], left) \in Seq(Frame)
        /\ Len(ReplaceTop(frames[rsp], left)) = 1
    <2>1. frames[rsp] \in Seq(Frame) /\ frames[rsp] # <<>>
      BY <1>1, <1>3
    <2>2. ReplacesTop(frames[rsp], left)
      BY ONLY <1>7, <2>1, TopReplaced
    <2>. QED  BY <1>1, <2>2 DEF ReplacesTop
  <1>9. /\ saved \in [Threads -> Seq(Frame)]
        /\ \A t \in Threads : Len(saved[t]) = Len(frames[t])
        /\ \A t \in Threads \ {rsp} : saved[t] = frames[t]
    BY <1>1, <1>3, <1>8
  <1> HIDE DEF saved
  <1>10. /\ entered \in Seq(Frame) /\ Len(entered) = n
         /\ n # 0 => entered # <<>> /\ Top(entered).pc = "resumed"
    <2>1. CASE n = 0
      BY <2>1
    <2>2. CASE n # 0
      <3>1. n = 1
        BY <1>3, <2>2
      <3>2. saved[a] \in Seq(Frame) /\ Len(saved[a]) = 1
        BY <1>2, <1>9, <3>1
      <3>3. under \in Seq(Frame) /\ Len(under) = 1
        <4>1. SubSeq(saved[a], 1, 1) \in Seq(Frame) /\ Len(SubSeq(saved[a], 1, 1)) = 1
          BY <3>2
        <4>. QED  BY <3>1, <4>1
      <3> HIDE DEF under
      <3>4. under # <<>> /\ Top(under) \in Frame
        BY <3>3 DEF Top
      <3>5. top \in Frame /\ top.pc = "resumed"
        BY <3>4 DEF Frame, Pcs
      <3> HIDE DEF top
      <3>6. /\ ReplaceTop(under, top) \in Seq(Frame)
            /\ Len(ReplaceTop(under, top)) = Len(under)
            /\ ReplaceTop(under, top)[Len(under)] = top
        <4>1. ReplacesTop(under, top)
          BY ONLY <3>3, <3>4, <3>5, TopReplaced
        <4>. QED  BY <4>1 DEF ReplacesTop
      <3>7. entered = ReplaceTop(under, top)
        BY <2>2
      <3>. QED  BY <3>1, <3>3, <3>5, <3>6, <3>7 DEF Top
    <2>. QED  BY <2>1, <2>2
  <1> HIDE DEF entered
  <1>11. /\ frames' \in [Threads -> Seq(Frame)] /\ frames'[a] = entered
         /\ \A t \in Threads \ {a} : frames'[t] = saved[t]
    BY <1>2, <1>6, <1>9, <1>10
  <1>12. \A t \in Threads : Len(frames'[t]) = Len(frames[t])
    BY <1>9, <1>10, <1>11
  <1>13. Created' = Created /\ Where' \in {"thread", "resumed"}
    <2>1. Created' = Created
      BY <1>6 DEF Created
    <2>2. CASE n = 0
      BY <1>6, <1>10, <1>11, <2>1, <2>2 DEF Where
    <2>3. CASE n # 0
      <3>1. frames'[rsp'] = entered /\ entered # <<>> /\ Top(entered).pc = "resumed"
        BY <1>6, <1>10, <1>11, <2>3
      <3>2. This'.pc = "resumed"
        BY <3>1 DEF This, Top
      <3>. QED  BY <2>1, <3>1, <3>2 DEF Where
    <2>. QED  BY <2>2, <2>3
  <1> HIDE DEF a
  <1>14. ASSUME NEW t \in Created \ {a}
         PROVE  stackTop'[t] = [stk |-> t, depth |-> Len(frames'[t])]
    <2>1. stackTop[t] = [stk |-> t, depth |-> Len(frames[t])]
      <3>1. CASE t = rsp
        BY <1>1, <3>1 DEF SerialInv, StacksOK
      <3>2. CASE t # rsp
        BY <3>2 DEF SerialInv, StacksOK
      <3>. QED  BY <3>1, <3>2
    <2>2. stackTop'[t] = stackTop[t]
      BY <1>3, <1>6, <2>1 DEF Invalidate
    <2>. QED  BY <1>3, <1>12, <2>1, <2>2
  <1>15. \A t \in Threads \ Created : frames'[t] = <<>>
    <2> TAKE t \in Threads \ Created
    <2>1. t # a /\ t # rsp /\ frames[t] = <<>>
      BY <1>2 DEF SerialInv, StacksOK
    <2>. QED  BY <1>9, <1>11, <2>1
  <1>16. StacksOK'
    <2>1. \A t \in Threads : Len(frames'[t]) <= 1
      BY <1>12 DEF SerialInv, StacksOK
    <2>2. ~halted'
      BY <1>6 DEF SerialInv, StacksOK
    <2>. QED  BY <1>2, <1>6, <1>13, <1>14, <1>15, <2>1, <2>2 DEF StacksOK
  <1>17. CurrentOK' /\ CandidateOK'
    BY <1>2, <1>6, <1>13 DEF CurrentOK, CandidateOK
  <1>18. RunningOK'
    BY <1>2, <1>6, <1>13 DEF RunningOK, OnlyRunning
  <1>. QED  BY <1>13, <1>16, <1>17, <1>18 DEF SerialOK

-----------------------------------------------------------------------------
(* The callers of Schedule, the boot code and the debugger *)

\* Schedule is called from a thread's own code.
LEMMA CallSerial ==
    ASSUME SerialInv, frames[rsp] = <<>>, CallSchedule
    PROVE  SerialOK' /\ Where' = "check" /\ This'.tries = 0
  <1>1. /\ rsp \in Threads /\ frames \in [Threads -> Seq(Frame)] /\ Created \subseteq Threads
    BY DEF SerialInv, AnyDepthInv, TypeOK, Created
  <1>2. /\ frames' = [frames EXCEPT ![rsp] = <<NewFrame>>]
        /\ UNCHANGED <<threads, state, stackTop, currentThread, currentThreadIndex, rsp, halted>>
    BY DEF CallSchedule
  <1>3. /\ frames'[rsp] = <<NewFrame>> /\ \A t \in Threads \ {rsp} : frames'[t] = frames[t]
    BY <1>1, <1>2
  <1>4. Created' = Created /\ Where = "thread" /\ Where' = "check" /\ This'.tries = 0
    <2>1. Len(<<NewFrame>>) = 1 /\ <<NewFrame>>[1] = NewFrame /\ <<NewFrame>> # <<>>
      OBVIOUS
    <2>2. NewFrame.pc = "check" /\ NewFrame.tries = 0
      BY DEF NewFrame
    <2>3. This' = NewFrame
      BY <1>2, <1>3, <2>1 DEF This, Top
    <2>. QED  BY <1>2, <1>3, <2>1, <2>2, <2>3 DEF Where, Created
  <1>5. StacksOK'
    <2>1. Len(<<NewFrame>>) = 1
      OBVIOUS
    <2>2. \A t \in Threads : Len(frames'[t]) <= 1
      <3> TAKE t \in Threads
      <3>1. CASE t = rsp
        <4>1. 1 <= 1
          OBVIOUS
        <4>2. frames'[t] = <<NewFrame>>
          BY <1>3, <3>1
        <4>. QED  BY <2>1, <4>1, <4>2, Zenon
      <3>2. CASE t # rsp
        BY <1>3, <3>2 DEF SerialInv, StacksOK
      <3>. QED  BY <3>1, <3>2
    <2>3. rsp \in Created
      BY DEF SerialInv, StacksOK
    <2>. QED  BY <1>1, <1>2, <1>3, <1>4, <2>2, <2>3 DEF SerialInv, StacksOK
  <1>6. CurrentOK' /\ CandidateOK'
    BY <1>2, <1>4 DEF SerialInv, CurrentOK, CandidateOK
  <1>7. RunningOK'
    BY <1>2, <1>4 DEF SerialInv, RunningOK, OnlyRunning
  <1>. QED  BY <1>4, <1>5, <1>6, <1>7 DEF SerialOK

\* kernel_main creates a thread; its stack holds the frame of its first switch.
LEMMA CreateThreadSerial ==
    ASSUME SerialInv, NEW t \in Threads, CreateThread(t)
    PROVE  SerialOK' /\ Created' = Created \union {t}
  <1>1. /\ rsp \in Threads /\ frames[rsp] = <<>> /\ t \notin Created
        /\ threads \in Seq(Threads) /\ state \in [Threads -> TCBState]
        /\ stackTop \in [Threads -> Context \union {Dangling}]
        /\ Created \subseteq Threads
    BY DEF SerialInv, AnyDepthInv, TypeOK, Created, CreateThread, AtThreadLevel
  <1>2. /\ threads' = Append(threads, t) /\ state' = [state EXCEPT ![t] = "Ready"]
        /\ stackTop' = [stackTop EXCEPT ![t] = [stk |-> t, depth |-> 0]]
        /\ UNCHANGED <<currentThread, currentThreadIndex, rsp, frames, halted>>
    BY DEF CreateThread
  <1>3. Created' = Created \union {t}
    <2>1. /\ Len(threads') = Len(threads) + 1 /\ threads'[Len(threads) + 1] = t
          /\ \A i \in 1 .. Len(threads) : threads'[i] = threads[i]
          /\ DOMAIN threads' = 1 .. (Len(threads) + 1) /\ DOMAIN threads = 1 .. Len(threads)
          /\ Len(threads) \in Nat
      BY <1>1, <1>2
    <2>2. ASSUME NEW u \in Created \union {t} PROVE u \in Created'
      <3>1. CASE u = t
        BY <2>1, <3>1 DEF Created
      <3>2. CASE u \in Created
        BY <2>1, <3>2 DEF Created
      <3>. QED  BY <3>1, <3>2
    <2>3. ASSUME NEW u \in Created' PROVE u \in Created \union {t}
      <3>1. PICK i \in DOMAIN threads' : u = threads'[i]
        BY DEF Created
      <3>2. i = Len(threads) + 1 \/ i \in 1 .. Len(threads)
        BY <2>1
      <3>. QED  BY <2>1, <3>1, <3>2 DEF Created
    <2>. QED  BY <2>2, <2>3
  <1>4. Where = "thread" /\ Where' = "thread" /\ rsp \in Created
    BY <1>1, <1>2 DEF Where, SerialInv, StacksOK
  <1>5. StacksOK'
    <2>1. frames[t] = <<>> /\ Len(<<>>) = 0
      BY <1>1 DEF SerialInv, StacksOK
    <2>2. /\ stackTop'[t] = [stk |-> t, depth |-> Len(frames[t])]
          /\ \A u \in Created : stackTop'[u] = stackTop[u]
      BY <1>1, <1>2, <2>1
    <2>3. \A u \in Created' \ {rsp} : stackTop'[u] = [stk |-> u, depth |-> Len(frames[u])]
      BY <1>3, <2>2 DEF SerialInv, StacksOK
    <2>. QED  BY <1>2, <1>3, <1>4, <2>3 DEF SerialInv, StacksOK
  <1>6. CurrentOK' /\ CandidateOK'
    BY <1>2, <1>4 DEF SerialInv, CurrentOK, CandidateOK
  <1>7. RunningOK'
    <2>1. state'[t] = "Ready" /\ \A u \in Created : state'[u] = state[u]
      BY <1>1, <1>2
    <2>2. state[rsp] \in {"Ready", "Running"} /\ OnlyRunning(rsp)
      BY <1>4 DEF SerialInv, RunningOK
    <2>. QED  BY <1>2, <1>3, <1>4, <2>1, <2>2 DEF RunningOK, OnlyRunning
  <1>. QED  BY <1>3, <1>5, <1>6, <1>7 DEF SerialOK

\* kernel_main marks a thread other than k/idle Dead or Waiting.
LEMMA ParkSerial ==
    ASSUME SerialInv, NEW t \in Parkable, NEW s \in {"Dead", "Waiting"}, Park(t, s)
    PROVE  SerialOK'
  <1>1. /\ rsp = Idle /\ t # Idle /\ t \in Threads /\ frames[rsp] = <<>>
        /\ state' = [state EXCEPT ![t] = s]
        /\ UNCHANGED <<threads, stackTop, currentThread, currentThreadIndex, rsp, frames, halted>>
    BY ThreadsAssumption DEF Park, AtThreadLevel
  <1>2. /\ Where = "thread" /\ Where' = "thread" /\ Created' = Created
        /\ state \in [Threads -> TCBState] /\ rsp \in Threads /\ Created \subseteq Threads
    BY <1>1 DEF Where, Created, SerialInv, AnyDepthInv, TypeOK
  <1>3. StacksOK' /\ CurrentOK' /\ CandidateOK'
    BY <1>1, <1>2 DEF SerialInv, StacksOK, CurrentOK, CandidateOK
  <1>4. RunningOK'
    <2>1. state'[rsp] = state[rsp] /\ \A u \in Created : state'[u] = "Running" => state[u] = "Running"
      BY <1>1, <1>2
    <2>. QED  BY <1>1, <1>2, <2>1 DEF SerialInv, RunningOK, OnlyRunning
  <1>. QED  BY <1>3, <1>4 DEF SerialOK

\* A step that touches neither the threads nor the stacks.
LEMMA ElsewhereSerial ==
    ASSUME SerialInv,
           UNCHANGED <<threads, state, stackTop, currentThread, currentThreadIndex,
                       rsp, frames, halted>>
    PROVE  SerialOK'
  BY DEF SerialInv, SerialOK, StacksOK, CurrentOK, CandidateOK, RunningOK, OnlyRunning,
         Where, This, Top, Created, ThreadAt

\* The machine that Scheduler::Init leaves.
LEMMA InitSerial == Init => SerialInv
  <1> SUFFICES ASSUME Init PROVE SerialInv
    OBVIOUS
  <1>1. AnyDepthInv
    BY InitInv
  <1>2. Created = {Idle} /\ Where = "thread"
    <2>1. threads = <<Idle>> /\ Idle \in Threads
      BY ThreadsAssumption DEF Init
    <2>. QED  BY <2>1, ThreadsAssumption DEF Init, Created, Where
  <1>3. StacksOK
    <2>1. \A t \in Threads : frames[t] = <<>>
      BY DEF Init
    <2>2. \A t \in Threads : Len(frames[t]) <= 1
      <3>1. Len(<<>>) = 0 /\ 0 <= 1
        OBVIOUS
      <3>. QED  BY <2>1, <3>1, Zenon
    <2>3. rsp = Idle /\ ~halted
      BY DEF Init
    <2>. QED  BY <1>2, <2>1, <2>2, <2>3 DEF StacksOK
  <1>4. CurrentOK /\ CandidateOK /\ RunningOK
    BY <1>2, ThreadsAssumption DEF Init, CurrentOK, CandidateOK, RunningOK, OnlyRunning
  <1>. QED  BY <1>1, <1>3, <1>4 DEF SerialInv

\* Every step of the serialised scheduler keeps the invariant.
LEMMA NextSerial ==
    ASSUME MaxDepth = 1
    PROVE  SerialInv /\ [Next]_vars => SerialInv'
  <1> SUFFICES ASSUME SerialInv, [Next]_vars PROVE SerialInv'
    OBVIOUS
  <1>1. AnyDepthInv'
    BY NextInv DEF SerialInv
  <1>2. SerialOK'
    <2>1. CASE Boot
      <3>1. CASE EnableScheduling
        BY <3>1, ElsewhereSerial DEF EnableScheduling
      <3>. QED  BY <2>1, <3>1, CreateThreadSerial, ParkSerial DEF Boot
    <2>2. CASE Tick
      <3>1. frames[rsp] \in Seq(Frame) /\ Len(frames[rsp]) < 1
        BY <2>2 DEF Tick, SerialInv, AnyDepthInv, TypeOK
      <3>2. frames[rsp] = <<>>
        BY <3>1
      <3>. QED  BY <2>2, <3>2, CallSerial DEF Tick
    <2>3. CASE \E t \in Threads \ {Idle} : Yield(t)
      BY <2>3, CallSerial DEF Yield, AtThreadLevel
    <2>4. CASE Schedule
      <3>1. CASE Resumed
        <4>1. frames[rsp] # <<>> /\ Where = "resumed" /\ Len(frames[rsp]) = 1
          BY <3>1, WhereFacts DEF Resumed
        <4>. QED  BY <3>1, <4>1, ReturnSerial DEF Resumed
      <3>. QED  BY <2>4, <3>1, CheckSerial, LoadIndexSerial, StoreIndexSerial, WrapIndexSerial,
             PickSerial, TestSerial, MarkCurrentSerial, MarkNewSerial, RereadIndexSerial,
             LoadCurrentSerial, SetCurrentSerial, SaveContextSerial, LoadContextSerial
             DEF Schedule
    <2>5. CASE \E t \in Debuggers : Debugger(t)
      BY <2>5, ElsewhereSerial DEF Debugger, EnterDebugger, OpenDebugger, ExitDebugger
    <2>6. CASE UNCHANGED vars
      BY <2>6, ElsewhereSerial DEF vars
    <2>. QED  BY <2>1, <2>2, <2>3, <2>4, <2>5, <2>6 DEF Next
  <1>. QED  BY <1>1, <1>2 DEF SerialInv, SerialOK

-----------------------------------------------------------------------------
(* The theorems *)

\* SerialInv holds in every state the serialised scheduler reaches.
THEOREM SerialInvariance ==
    ASSUME MaxDepth = 1
    PROVE  Spec => []SerialInv
  BY InitSerial, NextSerial, PTL DEF Spec

\* Serialised, switch_thread always leaves currentThread and every stack_top
\* right, whatever the number of threads.
THEOREM ContextsPreserved ==
    ASSUME MaxDepth = 1
    PROVE  Spec => []ContextIntegrity
  <1>1. SerialInv => ContextIntegrity
    BY DEF SerialInv, StacksOK, CurrentOK, ContextIntegrity, AtThreadLevel, Where
  <1>. QED  BY <1>1, SerialInvariance, PTL

\* Serialised, the processor never enters a context that is not there.
THEOREM NeverWild ==
    ASSUME MaxDepth = 1
    PROVE  Spec => []NoWildJump
  <1>1. SerialInv => NoWildJump
    BY DEF SerialInv, StacksOK, NoWildJump
  <1>. QED  BY <1>1, SerialInvariance, PTL

\* Serialised, no thread is left marked Running while another one executes.
THEOREM NoGhosts ==
    ASSUME MaxDepth = 1
    PROVE  Spec => []NoGhostRunning
  <1>1. SerialInv => NoGhostRunning
    BY DEF SerialInv, CurrentOK, RunningOK, OnlyRunning, NoGhostRunning, AtThreadLevel, Where
  <1>. QED  BY <1>1, SerialInvariance, PTL

\* Serialised, the executing and the current thread are not parked.
LEMMA ActiveNotParked ==
    ASSUME SerialInv
    PROVE  state[rsp] \in {"Ready", "Running"} /\ state[currentThread] \in {"Ready", "Running"}
  <1>1. state[rsp] \in {"Ready", "Running"}
    BY DEF SerialInv, RunningOK
  <1>2. state[currentThread] \in {"Ready", "Running"}
    BY <1>1 DEF SerialInv, CurrentOK, CandidateOK
  <1>. QED  BY <1>1, <1>2

\* Serialised, no statement of Schedule overwrites the state of a parked thread.
LEMMA ParkedUntouched ==
    ASSUME SerialInv, Next, NEW t \in Created, state[t] \in {"Dead", "Waiting"}
    PROVE  state'[t] = state[t]
  <1>1. t \in Threads /\ state \in [Threads -> TCBState]
    BY DEF SerialInv, AnyDepthInv, TypeOK, Created
  <1>2. CASE Boot
    <2>1. CASE \E u \in Threads : CreateThread(u)
      BY <1>1, <2>1 DEF CreateThread
    <2>2. CASE \E u \in Parkable, s \in {"Dead", "Waiting"} : Park(u, s)
      BY <1>1, <2>2 DEF Park
    <2>3. CASE EnableScheduling
      BY <2>3 DEF EnableScheduling
    <2>. QED  BY <1>2, <2>1, <2>2, <2>3 DEF Boot
  <1>3. CASE Tick \/ \E u \in Threads \ {Idle} : Yield(u)
    BY <1>3 DEF Tick, Yield, CallSchedule
  <1>4. CASE Schedule
    <2>1. CASE MarkCurrent
      <3>1. state[currentThread] \in {"Ready", "Running"}
        BY ActiveNotParked
      <3>. QED  BY <1>1, <2>1, <3>1 DEF MarkCurrent
    <2>2. CASE MarkNew
      <3>1. Where = "mark_new"
        BY <2>2, WhereFacts DEF MarkNew
      <3>2. state[This.new] = "Ready"
        BY <3>1 DEF SerialInv, CandidateOK
      <3>. QED  BY <1>1, <2>2, <3>2 DEF MarkNew
    <2>3. CASE Check \/ Test \/ Resumed
      BY <2>3 DEF Check, Test, Resumed, Local, Return
    <2>4. CASE LoadIndex \/ StoreIndex \/ WrapIndex \/ Pick \/ RereadIndex
      BY <2>4 DEF LoadIndex, StoreIndex, WrapIndex, Pick, RereadIndex, Local
    <2>5. CASE LoadCurrent \/ SetCurrent \/ SaveContext \/ LoadContext
      BY <2>5 DEF LoadCurrent, SetCurrent, SaveContext, LoadContext, Local
    <2>. QED  BY <1>4, <2>1, <2>2, <2>3, <2>4, <2>5 DEF Schedule
  <1>5. CASE \E u \in Debuggers : Debugger(u)
    BY <1>5 DEF Debugger, EnterDebugger, OpenDebugger, ExitDebugger
  <1>. QED  BY <1>2, <1>3, <1>4, <1>5 DEF Next

\* Serialised, a thread marked Dead or Waiting stays so and is never given the
\* processor, whatever the number of threads.
THEOREM ParkedStaysParked ==
    ASSUME MaxDepth = 1
    PROVE  Spec => ParkedNeverRuns
  <1>1. SerialInv /\ [Next]_vars =>
            [\A t \in Created : state[t] \in {"Dead", "Waiting"} =>
                state'[t] = state[t] /\ rsp' # t /\ currentThread' # t]_vars
    <2> SUFFICES ASSUME SerialInv, Next, NEW t \in Created, state[t] \in {"Dead", "Waiting"}
                 PROVE  state'[t] = state[t] /\ rsp' # t /\ currentThread' # t
      BY DEF vars
    <2>1. state'[t] = state[t]
      BY ParkedUntouched
    <2>2. SerialInv'
      BY NextSerial
    <2>3. (SerialInv => state[rsp] \in {"Ready", "Running"}
                        /\ state[currentThread] \in {"Ready", "Running"})'
      BY ActiveNotParked, PTL
    <2>. QED  BY <2>1, <2>2, <2>3
  <1>. QED  BY <1>1, SerialInvariance, PTL DEF Spec, ParkedNeverRuns

-----------------------------------------------------------------------------
(* The order of dispatch: the inductive invariant.                        *)

\* The positions of the thread list.
Positions == 0 .. (Len(threads) - 1)

\* Position q lies after p and not after i, round the list.
Passed(p, i, q) == IF p <= i THEN p < q /\ q <= i ELSE q > p \/ q <= i

\* The steps back from i to q, round a list of n threads.
Back(n, i, q) == IF q <= i THEN i - q ELSE i + n - q

\* The activation has a candidate it has not rejected.
Holding == {"pick", "test", "mark_cur", "mark_new", "reread", "load_cur", "set_cur"}

\* Each thread is listed once, k/idle first, and the index stays at it until
\* scheduling is enabled.
ListOK ==
    /\ \A a, b \in DOMAIN threads : threads[a] = threads[b] => a = b
    /\ threads[1] = Idle
    /\ ~booted => currentThreadIndex = 0

\* The locals of the search.
SearchOK ==
    /\ Where = "check" => This.tries = 0
    /\ Where = "store" => This.reg = currentThreadIndex + 1
    /\ Where = "wrap" => currentThreadIndex = Len(threads)
    /\ Where \in {"load_cur", "set_cur"} => This.arg = ThreadAt(currentThreadIndex)

\* No thread between the current one and the index is Ready: also after a search
\* that gave up and left the index where it was.
PassedOK ==
    \A p, q \in Positions :
        /\ threads[p + 1] = currentThread
        /\ Passed(p, currentThreadIndex, q)
        /\ Where \in Holding => q # currentThreadIndex
        => state[threads[q + 1]] # "Ready"

\* The threads this activation has tried are not Ready.
TriesOK ==
    \A q \in Positions :
        LET back == Back(Len(threads), currentThreadIndex, q)
        IN  \/ Where \in {"load", "store"} /\ back < This.tries
            \/ Where \in {"wrap", "pick", "test"} /\ 1 <= back /\ back <= This.tries
            => state[threads[q + 1]] # "Ready"

\* What the search knows of the list.
OrderOK == ListOK /\ SearchOK /\ PassedOK /\ TriesOK

\* The inductive invariant.
OrderInv == SerialInv /\ OrderOK

-----------------------------------------------------------------------------
(* Going round the list *)

\* The position itself is never passed, and nothing is while the index is there.
LEMMA PassedSelf ==
    ASSUME NEW p \in Nat, NEW q \in Nat, NEW i \in Nat
    PROVE  ~Passed(p, i, p) /\ ~Passed(p, p, q)
  BY DEF Passed

\* The index goes on by one, to a position that is not yet rejected.
LEMMA PassedNext ==
    ASSUME NEW p \in Nat, NEW q \in Nat, NEW i \in Nat, Passed(p, i + 1, q), q # i + 1
    PROVE  Passed(p, i, q)
  BY DEF Passed

\* The index, at the end of a list of n threads, goes back to 0.
LEMMA PassedWrap ==
    ASSUME NEW n \in Nat, NEW p \in 0 .. (n - 1), NEW q \in 0 .. (n - 1), Passed(p, 0, q), q # 0
    PROVE  Passed(p, n, q)
  BY DEF Passed

\* How far back a position of a list of n threads may lie.
LEMMA BackRange ==
    ASSUME NEW n \in Nat, NEW i \in 0 .. (n - 1), NEW q \in 0 .. (n - 1)
    PROVE  Back(n, i, q) \in 0 .. (n - 1) /\ (Back(n, i, q) = 0 => q = i)
  BY DEF Back

\* One step on, every position lies one step further back.
LEMMA BackNext ==
    ASSUME NEW n \in Nat, NEW i \in 0 .. (n - 1), NEW q \in 0 .. (n - 1), NEW k \in Nat,
           1 <= Back(n, i + 1, q), Back(n, i + 1, q) <= k
    PROVE  Back(n, i, q) < k
  BY DEF Back

\* Counting back from the end of the list is counting back from 0.
LEMMA BackWrap ==
    ASSUME NEW n \in Nat, NEW q \in 0 .. (n - 1), NEW k \in Nat,
           1 <= Back(n, 0, q), Back(n, 0, q) <= k
    PROVE  1 <= Back(n, n, q) /\ Back(n, n, q) <= k
  BY DEF Back

-----------------------------------------------------------------------------
(* Steps *)

\* The types, and the index, which is past the end only before it is wrapped.
LEMMA OrderFacts ==
    ASSUME SerialInv
    PROVE  /\ Len(threads) \in Nat \ {0} /\ DOMAIN threads = 1 .. Len(threads)
           /\ threads \in Seq(Threads) /\ state \in [Threads -> TCBState]
           /\ currentThreadIndex \in Nat
           /\ Where # "wrap" => currentThreadIndex \in Positions
           /\ \A q \in Positions : /\ q \in Nat /\ q + 1 \in 1 .. Len(threads)
                                   /\ threads[q + 1] \in Threads /\ ThreadAt(q) = threads[q + 1]
  <1>1. /\ Len(threads) \in Nat \ {0} /\ DOMAIN threads = 1 .. Len(threads)
        /\ threads \in Seq(Threads) /\ state \in [Threads -> TCBState]
        /\ currentThreadIndex \in Nat /\ rsp \in Threads /\ frames[rsp] \in Seq(Frame)
    BY DEF SerialInv, AnyDepthInv, TypeOK
  <1>2. ASSUME currentThreadIndex >= Len(threads) PROVE Where = "wrap"
    <2>1. PICK k \in DOMAIN frames[rsp] : frames[rsp][k].pc = "wrap"
      BY <1>2 DEF SerialInv, AnyDepthInv, IndexOK
    <2>2. Len(frames[rsp]) <= 1
      BY <1>1 DEF SerialInv, StacksOK
    <2>3. k \in 1 .. Len(frames[rsp]) /\ Len(frames[rsp]) \in Nat
      BY <1>1, <2>1
    <2>4. k = Len(frames[rsp]) /\ frames[rsp] # <<>>
      BY <2>2, <2>3
    <2>. QED  BY <2>1, <2>4 DEF Where, This, Top
  <1>3. Where # "wrap" => currentThreadIndex \in Positions
    BY <1>1, <1>2 DEF Positions
  <1>4. \A q \in Positions : /\ q \in Nat /\ q + 1 \in 1 .. Len(threads) /\ q < Len(threads)
    BY <1>1 DEF Positions
  <1>5. \A q \in Positions : threads[q + 1] \in Threads /\ ThreadAt(q) = threads[q + 1]
    BY <1>1, <1>4 DEF ThreadAt
  <1>. QED  BY <1>1, <1>3, <1>4, <1>5

\* A step that changes neither the list, the states, nor whom the search is for.
LEMMA PassedKeeps ==
    ASSUME OrderInv, UNCHANGED <<threads, state, currentThread, currentThreadIndex>>,
           Where \in Holding /\ Where' \notin Holding
               => state[ThreadAt(currentThreadIndex)] # "Ready"
    PROVE  PassedOK'
  <1>1. Positions' = Positions
    BY DEF Positions
  <1> SUFFICES ASSUME NEW p \in Positions, NEW q \in Positions, threads[p + 1] = currentThread,
                      Passed(p, currentThreadIndex, q),
                      Where' \in Holding => q # currentThreadIndex
               PROVE  state[threads[q + 1]] # "Ready"
    BY <1>1 DEF PassedOK, Passed
  <1>2. CASE Where \in Holding /\ q = currentThreadIndex
    <2>1. ThreadAt(q) = threads[q + 1]
      BY OrderFacts DEF OrderInv
    <2>. QED  BY <1>2, <2>1
  <1>3. CASE Where \in Holding => q # currentThreadIndex
    BY <1>3 DEF OrderInv, OrderOK, PassedOK
  <1>. QED  BY <1>2, <1>3

\* Outside of the search there is nothing to say of the locals.
LEMMA NotSearching ==
    ASSUME Where' \in {"thread", "resumed", "mark_cur", "mark_new", "reread", "save", "jump"}
    PROVE  SearchOK' /\ TriesOK'
  BY DEF SearchOK, TriesOK

\* A step that leaves the list, the states and the index alone, and the search.
LEMMA OutsideOrder ==
    ASSUME OrderInv, UNCHANGED <<threads, state, currentThread, currentThreadIndex>>,
           booted' \/ booted' = booted,
           Where \in Holding /\ Where' \notin Holding
               => state[ThreadAt(currentThreadIndex)] # "Ready",
           Where' \in {"thread", "resumed", "mark_cur", "mark_new", "reread", "save", "jump"}
    PROVE  OrderOK'
  <1>1. ListOK'
    BY DEF OrderInv, OrderOK, ListOK
  <1>. QED  BY <1>1, PassedKeeps, NotSearching DEF OrderOK

\* Schedule returns, having rejected its candidate if it had one.
LEMMA ReturnOrder ==
    ASSUME OrderInv, Return, frames[rsp] # <<>>, Len(frames[rsp]) = 1,
           Where \in {"check", "test", "resumed"},
           Where = "test" => state[This.new] # "Ready"
    PROVE  OrderOK'
  <1>1. Where' = "thread"
    BY ReturnSerial DEF OrderInv
  <1>2. UNCHANGED <<threads, state, currentThread, currentThreadIndex, booted>>
    BY DEF Return
  <1>3. Where = "test" => state[ThreadAt(currentThreadIndex)] # "Ready"
    BY DEF OrderInv, SerialInv, CandidateOK
  <1>. QED  BY <1>1, <1>2, <1>3, OutsideOrder DEF Holding

\* if (!schedulingEnabled) return
LEMMA CheckOrder ==
    ASSUME OrderInv, Check
    PROVE  OrderOK'
  <1>1. /\ frames[rsp] # <<>> /\ Where = "check" /\ This \in Frame /\ Len(frames[rsp]) = 1
        /\ SerialInv
    BY WhereFacts DEF Check, OrderInv
  <1>2. CASE Local([This EXCEPT !.pc = "load"])
    <2> DEFINE f == [This EXCEPT !.pc = "load"]
    <2>1. f \in Frame /\ f.pc = "load" /\ f.tries = 0
      BY <1>1 DEF Frame, Pcs, OrderInv, OrderOK, SearchOK
    <2> HIDE DEF f
    <2>2. /\ Step(f) /\ rsp' = rsp
          /\ UNCHANGED <<threads, state, currentThread, currentThreadIndex, booted>>
      BY <1>2 DEF f, Local
    <2>3. This' = f /\ Where' = "load"
      BY <1>1, <2>1, <2>2, WhereAfterStep
    <2>4. PassedOK'
      BY <1>1, <2>2, <2>3, PassedKeeps DEF Holding
    <2>5. TriesOK'
      <3> SUFFICES ASSUME NEW q \in Positions PROVE ~(Back(Len(threads), currentThreadIndex, q) < 0)
        BY <2>1, <2>2, <2>3 DEF TriesOK, Positions, Back
      <3>1. Back(Len(threads), currentThreadIndex, q) \in 0 .. (Len(threads) - 1)
        BY <1>1, OrderFacts, BackRange DEF Positions
      <3>. QED  BY <1>1, <3>1, OrderFacts
    <2>6. ListOK' /\ SearchOK'
      BY <2>2, <2>3 DEF OrderInv, OrderOK, ListOK, SearchOK
    <2>. QED  BY <2>4, <2>5, <2>6 DEF OrderOK
  <1>3. CASE Return
    BY <1>1, <1>3, ReturnOrder
  <1>. QED  BY <1>2, <1>3 DEF Check

\* ++currentThreadIndex, in a register
LEMMA LoadIndexOrder ==
    ASSUME OrderInv, LoadIndex
    PROVE  OrderOK'
  <1>1. frames[rsp] # <<>> /\ Where = "load" /\ This \in Frame /\ SerialInv
    BY WhereFacts DEF LoadIndex, OrderInv
  <1> DEFINE f == [This EXCEPT !.pc = "store", !.reg = currentThreadIndex + 1]
  <1>2. f \in Frame /\ f.pc = "store" /\ f.reg = currentThreadIndex + 1 /\ f.tries = This.tries
    <2>1. currentThreadIndex + 1 \in Nat
      BY <1>1, OrderFacts
    <2>. QED  BY <1>1, <2>1 DEF Frame, Pcs
  <1> HIDE DEF f
  <1>3. /\ Step(f) /\ rsp' = rsp
        /\ UNCHANGED <<threads, state, currentThread, currentThreadIndex, booted>>
    BY DEF f, LoadIndex, Local
  <1>4. This' = f /\ Where' = "store"
    BY <1>1, <1>2, <1>3, WhereAfterStep
  <1>5. PassedOK'
    BY <1>1, <1>3, <1>4, PassedKeeps DEF Holding
  <1>6. TriesOK'
    BY <1>1, <1>2, <1>3, <1>4 DEF OrderInv, OrderOK, TriesOK, Positions, Back
  <1>7. ListOK' /\ SearchOK'
    BY <1>2, <1>3, <1>4 DEF OrderInv, OrderOK, ListOK, SearchOK
  <1>. QED  BY <1>5, <1>6, <1>7 DEF OrderOK

\* ++currentThreadIndex, stored
LEMMA StoreIndexOrder ==
    ASSUME OrderInv, StoreIndex
    PROVE  OrderOK'
  <1>1. frames[rsp] # <<>> /\ Where = "store" /\ This.pc = "store" /\ This \in Frame /\ SerialInv
    BY WhereFacts DEF StoreIndex, OrderInv
  <1> DEFINE n == Len(threads)
             i == currentThreadIndex
             f == [This EXCEPT !.pc = IF This.reg >= Len(threads) THEN "wrap" ELSE "pick",
                               !.reg = 0]
  <1>2. n \in Nat \ {0} /\ i \in 0 .. (n - 1) /\ This.reg = i + 1
    BY <1>1, OrderFacts DEF Positions, OrderInv, OrderOK, SearchOK
  <1>3. /\ f \in Frame /\ f.tries = This.tries /\ f.tries \in Nat
        /\ f.pc = IF This.reg >= n THEN "wrap" ELSE "pick"
    BY <1>1 DEF Frame, Pcs
  <1> HIDE DEF f
  <1>4. /\ Step(f) /\ rsp' = rsp /\ currentThreadIndex' = i + 1
        /\ UNCHANGED <<threads, state, currentThread, booted>>
    BY <1>2 DEF f, StoreIndex
  <1>5. This' = f /\ Where' = f.pc
    BY <1>1, <1>3, <1>4, WhereAfterStep
  <1>6. booted
    BY <1>1, PastGate DEF SerialInv
  <1>7. ListOK'
    BY <1>4, <1>6 DEF OrderInv, OrderOK, ListOK
  <1>8. SearchOK'
    <2>1. f.pc = "wrap" => i + 1 = n
      BY <1>2, <1>3
    <2>. QED  BY <1>3, <1>4, <1>5, <2>1 DEF SearchOK
  <1> HIDE DEF n, i
  <1>9. PassedOK'
    <2> SUFFICES ASSUME NEW p \in Positions, NEW q \in Positions, threads[p + 1] = currentThread,
                        Passed(p, i + 1, q), Where' \in Holding => q # i + 1
                 PROVE  state[threads[q + 1]] # "Ready"
      BY <1>4 DEF PassedOK, Passed, Positions
    <2>1. q # i + 1
      <3>1. CASE f.pc = "wrap"
        <4>1. i + 1 = n /\ q \in 0 .. (n - 1)
          BY <1>2, <1>3, <3>1 DEF Positions, n
        <4>. QED  BY <1>2, <4>1
      <3>. QED  BY <1>3, <1>5, <3>1 DEF Holding
    <2>2. p \in Nat /\ q \in Nat /\ i \in Nat
      BY <1>1, OrderFacts DEF i
    <2>3. Passed(p, i, q)
      BY <2>1, <2>2, PassedNext
    <2>. QED  BY <1>1, <2>3 DEF OrderInv, OrderOK, PassedOK, Holding, i
  <1>10. TriesOK'
    <2> SUFFICES ASSUME NEW q \in Positions, 1 <= Back(n, i + 1, q), Back(n, i + 1, q) <= f.tries
                 PROVE  state[threads[q + 1]] # "Ready"
      BY <1>3, <1>4, <1>5 DEF TriesOK, Positions, Back, n
    <2>1. q \in 0 .. (n - 1)
      BY DEF Positions, n
    <2>2. Back(n, i, q) < f.tries
      BY <1>2, <1>3, <2>1, BackNext
    <2>. QED  BY <1>1, <1>3, <2>2 DEF OrderInv, OrderOK, TriesOK, n, i
  <1>. QED  BY <1>7, <1>8, <1>9, <1>10 DEF OrderOK

\* currentThreadIndex = 0
LEMMA WrapIndexOrder ==
    ASSUME OrderInv, WrapIndex
    PROVE  OrderOK'
  <1>1. frames[rsp] # <<>> /\ Where = "wrap" /\ This.pc = "wrap" /\ This \in Frame /\ SerialInv
    BY WhereFacts DEF WrapIndex, OrderInv
  <1> DEFINE n == Len(threads)
             f == [This EXCEPT !.pc = "pick"]
  <1>2. n \in Nat \ {0} /\ currentThreadIndex = n
    BY <1>1, OrderFacts DEF OrderInv, OrderOK, SearchOK
  <1>3. f \in Frame /\ f.tries = This.tries /\ f.tries \in Nat /\ f.pc = "pick"
    BY <1>1 DEF Frame, Pcs
  <1> HIDE DEF f
  <1>4. /\ Step(f) /\ rsp' = rsp /\ currentThreadIndex' = 0
        /\ UNCHANGED <<threads, state, currentThread, booted>>
    BY DEF f, WrapIndex
  <1>5. This' = f /\ Where' = "pick"
    BY <1>1, <1>3, <1>4, WhereAfterStep
  <1>6. ListOK' /\ SearchOK'
    BY <1>4, <1>5 DEF OrderInv, OrderOK, ListOK, SearchOK
  <1> HIDE DEF n
  <1>7. PassedOK'
    <2> SUFFICES ASSUME NEW p \in Positions, NEW q \in Positions, threads[p + 1] = currentThread,
                        Passed(p, 0, q), q # 0
                 PROVE  state[threads[q + 1]] # "Ready"
      BY <1>4, <1>5 DEF PassedOK, Passed, Positions, Holding
    <2>1. p \in 0 .. (n - 1) /\ q \in 0 .. (n - 1)
      BY DEF Positions, n
    <2>2. Passed(p, n, q)
      BY <1>2, <2>1, PassedWrap
    <2>. QED  BY <1>1, <1>2, <2>2 DEF OrderInv, OrderOK, PassedOK, Holding
  <1>8. TriesOK'
    <2> SUFFICES ASSUME NEW q \in Positions, 1 <= Back(n, 0, q), Back(n, 0, q) <= f.tries
                 PROVE  state[threads[q + 1]] # "Ready"
      BY <1>4, <1>5 DEF TriesOK, Positions, Back, n
    <2>1. q \in 0 .. (n - 1)
      BY DEF Positions, n
    <2>2. 1 <= Back(n, n, q) /\ Back(n, n, q) <= This.tries
      BY <1>2, <1>3, <2>1, BackWrap
    <2>. QED  BY <1>1, <1>2, <2>2 DEF OrderInv, OrderOK, TriesOK, n
  <1>. QED  BY <1>6, <1>7, <1>8 DEF OrderOK

\* new_thread = threads.at(currentThreadIndex)
LEMMA PickOrder ==
    ASSUME OrderInv, Pick
    PROVE  OrderOK'
  <1>1. frames[rsp] # <<>> /\ Where = "pick" /\ This.pc = "pick" /\ This \in Frame /\ SerialInv
    BY WhereFacts DEF Pick, OrderInv
  <1>2. ThreadAt(currentThreadIndex) \in Threads
    BY <1>1, OrderFacts
  <1> DEFINE f == [This EXCEPT !.pc = "test", !.new = ThreadAt(currentThreadIndex)]
  <1>3. f \in Frame /\ f.pc = "test" /\ f.tries = This.tries
    BY <1>1, <1>2 DEF Frame, Pcs
  <1> HIDE DEF f
  <1>4. /\ Step(f) /\ rsp' = rsp
        /\ UNCHANGED <<threads, state, currentThread, currentThreadIndex, booted>>
    BY DEF f, Pick, Local
  <1>5. This' = f /\ Where' = "test"
    BY <1>1, <1>3, <1>4, WhereAfterStep
  <1>6. PassedOK'
    BY <1>1, <1>4, <1>5, PassedKeeps DEF Holding
  <1>7. TriesOK'
    BY <1>1, <1>3, <1>4, <1>5 DEF OrderInv, OrderOK, TriesOK, Positions, Back
  <1>8. ListOK' /\ SearchOK'
    BY <1>4, <1>5 DEF OrderInv, OrderOK, ListOK, SearchOK
  <1>. QED  BY <1>6, <1>7, <1>8 DEF OrderOK

\* The candidate is Ready, or the next one is tried, or Schedule gives up.
LEMMA TestOrder ==
    ASSUME OrderInv, Test
    PROVE  OrderOK'
  <1>1. /\ frames[rsp] # <<>> /\ Where = "test" /\ This \in Frame /\ Len(frames[rsp]) = 1
        /\ SerialInv
    BY WhereFacts DEF Test, OrderInv
  <1>2. CASE Local([This EXCEPT !.pc = "mark_cur", !.tries = 0])
    <2> DEFINE f == [This EXCEPT !.pc = "mark_cur", !.tries = 0]
    <2>1. f \in Frame /\ f.pc = "mark_cur"
      BY <1>1 DEF Frame, Pcs
    <2> HIDE DEF f
    <2>2. /\ Step(f) /\ rsp' = rsp
          /\ UNCHANGED <<threads, state, currentThread, currentThreadIndex, booted>>
      BY <1>2 DEF f, Local
    <2>3. Where' = "mark_cur"
      BY <1>1, <2>1, <2>2, WhereAfterStep
    <2>. QED  BY <2>2, <2>3, OutsideOrder DEF Holding
  <1>3. CASE /\ state[This.new] # "Ready"
             /\ Local([This EXCEPT !.pc = "load", !.tries = @ + 1, !.new = Null])
    <2> DEFINE f == [This EXCEPT !.pc = "load", !.tries = @ + 1, !.new = Null]
               n == Len(threads)
               i == currentThreadIndex
    <2>1. f \in Frame /\ f.pc = "load" /\ f.tries = This.tries + 1 /\ This.tries \in Nat
      <3>1. This.tries + 1 \in Nat /\ This.tries \in Nat
        BY <1>1 DEF Frame
      <3>. QED  BY <1>1, <3>1 DEF Frame, Pcs
    <2> HIDE DEF f
    <2>2. /\ Step(f) /\ rsp' = rsp
          /\ UNCHANGED <<threads, state, currentThread, currentThreadIndex, booted>>
      BY <1>3 DEF f, Local
    <2>3. This' = f /\ Where' = "load"
      BY <1>1, <2>1, <2>2, WhereAfterStep
    <2>4. state[ThreadAt(currentThreadIndex)] # "Ready"
      BY <1>1, <1>3 DEF SerialInv, CandidateOK
    <2>5. PassedOK'
      BY <2>2, <2>4, PassedKeeps
    <2>6. TriesOK'
      <3> SUFFICES ASSUME NEW q \in Positions, Back(n, i, q) < f.tries
                   PROVE  state[threads[q + 1]] # "Ready"
        BY <2>2, <2>3 DEF TriesOK, Positions, Back
      <3>1. n \in Nat \ {0} /\ i \in 0 .. (n - 1) /\ q \in 0 .. (n - 1) /\ i \in Positions
        BY <1>1, OrderFacts DEF Positions
      <3> HIDE DEF n, i
      <3>2. Back(n, i, q) \in Nat /\ (Back(n, i, q) = 0 => q = i)
        BY <3>1, BackRange
      <3>3. CASE q = i
        <4>1. ThreadAt(q) = threads[q + 1]
          BY <1>1, OrderFacts
        <4>. QED  BY <2>4, <3>3, <4>1 DEF i
      <3>4. CASE q # i
        <4>1. 1 <= Back(n, i, q) /\ Back(n, i, q) <= This.tries
          BY <2>1, <3>2, <3>4
        <4>. QED  BY <1>1, <4>1 DEF OrderInv, OrderOK, TriesOK, n, i
      <3>. QED  BY <3>3, <3>4
    <2>7. ListOK' /\ SearchOK'
      BY <2>2, <2>3 DEF OrderInv, OrderOK, ListOK, SearchOK
    <2>. QED  BY <2>5, <2>6, <2>7 DEF OrderOK
  <1>4. CASE state[This.new] # "Ready" /\ Return
    BY <1>1, <1>4, ReturnOrder
  <1>. QED  BY <1>2, <1>3, <1>4 DEF Test

\* currentThread->state = Ready, and it is not one that was passed
LEMMA MarkCurrentOrder ==
    ASSUME OrderInv, MarkCurrent
    PROVE  OrderOK'
  <1>1. frames[rsp] # <<>> /\ Where = "mark_cur" /\ This \in Frame /\ SerialInv
    BY WhereFacts DEF MarkCurrent, OrderInv
  <1> DEFINE f == [This EXCEPT !.pc = "mark_new"]
  <1>2. f \in Frame /\ f.pc = "mark_new"
    BY <1>1 DEF Frame, Pcs
  <1> HIDE DEF f
  <1>3. /\ Step(f) /\ rsp' = rsp /\ state' = [state EXCEPT ![currentThread] = "Ready"]
        /\ UNCHANGED <<threads, currentThread, currentThreadIndex, booted>>
    BY DEF f, MarkCurrent
  <1>4. Where' = "mark_new"
    BY <1>1, <1>2, <1>3, WhereAfterStep
  <1>5. ListOK'
    BY <1>3 DEF OrderInv, OrderOK, ListOK
  <1>6. PassedOK'
    <2> SUFFICES ASSUME NEW p \in Positions, NEW q \in Positions, threads[p + 1] = currentThread,
                        Passed(p, currentThreadIndex, q), q # currentThreadIndex
                 PROVE  state'[threads[q + 1]] # "Ready"
      BY <1>3, <1>4 DEF PassedOK, Passed, Positions, Holding
    <2>1. state[threads[q + 1]] # "Ready"
      BY <1>1 DEF OrderInv, OrderOK, PassedOK, Holding
    <2>2. p \in Nat /\ q \in Nat /\ currentThreadIndex \in Nat
      BY <1>1, OrderFacts
    <2>3. p # q
      BY <2>2, PassedSelf
    <2>4. threads[p + 1] # threads[q + 1]
      <3>1. p + 1 \in DOMAIN threads /\ q + 1 \in DOMAIN threads /\ p + 1 # q + 1
        BY <1>1, <2>2, <2>3, OrderFacts
      <3>. QED  BY <3>1 DEF OrderInv, OrderOK, ListOK
    <2>5. threads[q + 1] \in Threads /\ state \in [Threads -> TCBState]
      BY <1>1, OrderFacts
    <2>. QED  BY <1>3, <2>1, <2>4, <2>5
  <1>. QED  BY <1>4, <1>5, <1>6, NotSearching DEF OrderOK

\* new_thread->state = Running
LEMMA MarkNewOrder ==
    ASSUME OrderInv, MarkNew
    PROVE  OrderOK'
  <1>1. frames[rsp] # <<>> /\ Where = "mark_new" /\ This \in Frame /\ SerialInv
    BY WhereFacts DEF MarkNew, OrderInv
  <1> DEFINE f == [This EXCEPT !.pc = "reread", !.new = Null]
  <1>2. f \in Frame /\ f.pc = "reread"
    BY <1>1 DEF Frame, Pcs
  <1> HIDE DEF f
  <1>3. /\ Step(f) /\ rsp' = rsp /\ state' = [state EXCEPT ![This.new] = "Running"]
        /\ UNCHANGED <<threads, currentThread, currentThreadIndex, booted>>
    BY DEF f, MarkNew
  <1>4. Where' = "reread"
    BY <1>1, <1>2, <1>3, WhereAfterStep
  <1>5. ListOK'
    BY <1>3 DEF OrderInv, OrderOK, ListOK
  <1>6. PassedOK'
    <2> SUFFICES ASSUME NEW p \in Positions, NEW q \in Positions, threads[p + 1] = currentThread,
                        Passed(p, currentThreadIndex, q), q # currentThreadIndex
                 PROVE  state'[threads[q + 1]] # "Ready"
      BY <1>3, <1>4 DEF PassedOK, Passed, Positions, Holding
    <2>1. state[threads[q + 1]] # "Ready"
      BY <1>1 DEF OrderInv, OrderOK, PassedOK, Holding
    <2>2. threads[q + 1] \in Threads /\ state \in [Threads -> TCBState]
      BY <1>1, OrderFacts
    <2>. QED  BY <1>3, <2>1, <2>2
  <1>. QED  BY <1>4, <1>5, <1>6, NotSearching DEF OrderOK

\* SwitchThread(threads.at(currentThreadIndex)), and curThread = currentThread
LEMMA SwitchOrder ==
    ASSUME OrderInv, RereadIndex \/ LoadCurrent
    PROVE  OrderOK'
  <1>1. /\ frames[rsp] # <<>> /\ This \in Frame /\ SerialInv /\ Where = This.pc
        /\ Where \in {"reread", "load_cur"}
    BY WhereFacts DEF RereadIndex, LoadCurrent, OrderInv
  <1>2. ThreadAt(currentThreadIndex) \in Threads /\ currentThread \in Threads
    BY <1>1, OrderFacts DEF SerialInv, AnyDepthInv, TypeOK
  <1>3. PICK f \in Frame :
            /\ Step(f) /\ f.pc \in {"load_cur", "set_cur"}
            /\ f.arg = ThreadAt(currentThreadIndex)
    <2>1. CASE RereadIndex
      <3> DEFINE f == [This EXCEPT !.pc = "load_cur", !.arg = ThreadAt(currentThreadIndex)]
      <3>1. f \in Frame /\ f.pc = "load_cur" /\ f.arg = ThreadAt(currentThreadIndex)
        BY <1>1, <1>2 DEF Frame, Pcs
      <3>2. Step(f)
        BY <2>1 DEF RereadIndex, Local
      <3>. QED  BY <3>1, <3>2
    <2>2. CASE LoadCurrent
      <3> DEFINE f == [This EXCEPT !.pc = "set_cur", !.cur = currentThread]
      <3>1. f \in Frame /\ f.pc = "set_cur" /\ f.arg = This.arg
        BY <1>1, <1>2 DEF Frame, Pcs
      <3>2. Step(f)
        BY <2>2 DEF LoadCurrent, Local
      <3>3. Where = "load_cur"
        BY <1>1, <2>2, WhereFacts DEF LoadCurrent
      <3>4. This.arg = ThreadAt(currentThreadIndex)
        BY <3>3 DEF OrderInv, OrderOK, SearchOK
      <3>. QED  BY <3>1, <3>2, <3>4
    <2>. QED  BY <2>1, <2>2
  <1>4. UNCHANGED <<threads, state, currentThread, currentThreadIndex, booted, rsp>>
    BY DEF RereadIndex, LoadCurrent, Local
  <1>5. This' = f /\ Where' = f.pc
    BY <1>1, <1>3, <1>4, WhereAfterStep
  <1>6. PassedOK'
    BY <1>1, <1>3, <1>4, <1>5, PassedKeeps DEF Holding
  <1>7. TriesOK' /\ ListOK'
    BY <1>3, <1>4, <1>5 DEF OrderInv, OrderOK, TriesOK, ListOK
  <1>8. SearchOK'
    BY <1>3, <1>4, <1>5 DEF SearchOK, ThreadAt
  <1>. QED  BY <1>6, <1>7, <1>8 DEF OrderOK

\* currentThread = newThread, which is where the index is
LEMMA SetCurrentOrder ==
    ASSUME OrderInv, SetCurrent
    PROVE  OrderOK'
  <1>1. frames[rsp] # <<>> /\ Where = "set_cur" /\ This \in Frame /\ SerialInv
    BY WhereFacts DEF SetCurrent, OrderInv
  <1> DEFINE f == [This EXCEPT !.pc = "save"]
  <1>2. f \in Frame /\ f.pc = "save"
    BY <1>1 DEF Frame, Pcs
  <1> HIDE DEF f
  <1>3. /\ Step(f) /\ rsp' = rsp /\ currentThread' = This.arg
        /\ UNCHANGED <<threads, state, currentThreadIndex, booted>>
    BY DEF f, SetCurrent
  <1>4. Where' = "save" /\ This.arg = ThreadAt(currentThreadIndex)
    BY <1>1, <1>2, <1>3, WhereAfterStep DEF OrderInv, OrderOK, SearchOK
  <1>5. ListOK'
    BY <1>3 DEF OrderInv, OrderOK, ListOK
  <1>6. PassedOK'
    <2> SUFFICES ASSUME NEW p \in Positions, NEW q \in Positions, threads[p + 1] = This.arg,
                        Passed(p, currentThreadIndex, q)
                 PROVE  FALSE
      BY <1>3 DEF PassedOK, Passed, Positions
    <2>1. currentThreadIndex \in Positions /\ p \in Nat /\ q \in Nat /\ currentThreadIndex \in Nat
      BY <1>1, OrderFacts
    <2>2. threads[p + 1] = threads[currentThreadIndex + 1]
      BY <1>1, <1>4, <2>1, OrderFacts
    <2>3. p + 1 \in DOMAIN threads /\ currentThreadIndex + 1 \in DOMAIN threads
      BY <1>1, <2>1, OrderFacts
    <2>4. p + 1 = currentThreadIndex + 1
      BY <2>2, <2>3 DEF OrderInv, OrderOK, ListOK
    <2>5. p = currentThreadIndex
      BY <2>1, <2>4
    <2>. QED  BY <2>1, <2>5, PassedSelf
  <1>. QED  BY <1>4, <1>5, <1>6, NotSearching DEF OrderOK

\* The context is saved, and the stack of the next thread entered.
LEMMA ContextOrder ==
    ASSUME OrderInv, SaveContext \/ LoadContext
    PROVE  OrderOK'
  <1>1. UNCHANGED <<threads, state, currentThread, currentThreadIndex, booted>> /\ SerialInv
    BY DEF SaveContext, LoadContext, OrderInv
  <1>2. Where \in {"save", "jump"} /\ Where' \in {"thread", "resumed", "jump"}
    <2>1. CASE SaveContext
      <3>1. frames[rsp] # <<>> /\ Where = "save" /\ This \in Frame
        BY <1>1, <2>1, WhereFacts DEF SaveContext
      <3> DEFINE f == [This EXCEPT !.pc = "jump", !.cur = Null]
      <3>2. f \in Frame /\ f.pc = "jump"
        BY <3>1 DEF Frame, Pcs
      <3> HIDE DEF f
      <3>3. Step(f) /\ rsp' = rsp
        BY <2>1 DEF f, SaveContext
      <3>4. Where' = "jump"
        BY <1>1, <3>1, <3>2, <3>3, WhereAfterStep
      <3>. QED  BY <3>1, <3>4
    <2>2. CASE LoadContext
      BY <1>1, <2>2, WhereFacts, LoadContextSerial DEF LoadContext
    <2>. QED  BY <2>1, <2>2
  <1>. QED  BY <1>1, <1>2, OutsideOrder DEF Holding

\* Schedule is called.
LEMMA CallOrder ==
    ASSUME OrderInv, frames[rsp] = <<>>, CallSchedule
    PROVE  OrderOK'
  <1>1. Where = "thread" /\ Where' = "check" /\ This'.tries = 0
    BY CallSerial DEF OrderInv, Where
  <1>2. UNCHANGED <<threads, state, currentThread, currentThreadIndex, booted>>
    BY DEF CallSchedule
  <1>3. PassedOK'
    BY <1>1, <1>2, PassedKeeps DEF Holding
  <1>4. ListOK' /\ SearchOK' /\ TriesOK'
    BY <1>1, <1>2 DEF OrderInv, OrderOK, ListOK, SearchOK, TriesOK
  <1>. QED  BY <1>3, <1>4 DEF OrderOK

-----------------------------------------------------------------------------
(* The boot code, and the invariant *)

\* While kernel_main has not enabled scheduling k/idle is current, at index 0.
LEMMA Booting ==
    ASSUME OrderInv, ~booted
    PROVE  currentThread = Idle /\ rsp = Idle /\ currentThreadIndex = 0 /\ threads[1] = Idle
  <1>1. rsp = Idle /\ currentThreadIndex = 0 /\ threads[1] = Idle
    BY DEF OrderInv, OrderOK, ListOK, SerialInv, AnyDepthInv, BootOK
  <1>2. Where \in {"thread", "check"}
    <2>1. CASE frames[rsp] = <<>>
      BY <2>1 DEF Where
    <2>2. CASE frames[rsp] # <<>>
      BY <2>2, PastGate DEF Where, OrderInv, SerialInv
    <2>. QED  BY <2>1, <2>2
  <1>3. currentThread = rsp
    BY <1>2 DEF OrderInv, SerialInv, CurrentOK
  <1>. QED  BY <1>1, <1>3

\* kernel_main creates a thread, behind all others
LEMMA CreateThreadOrder ==
    ASSUME OrderInv, NEW t \in Threads, CreateThread(t)
    PROVE  OrderOK'
  <1>1. /\ ~booted /\ t \notin Created /\ frames[rsp] = <<>>
        /\ threads' = Append(threads, t)
        /\ UNCHANGED <<booted, currentThread, currentThreadIndex, rsp, frames>>
    BY DEF CreateThread, AtThreadLevel
  <1>2. currentThread = Idle /\ currentThreadIndex = 0 /\ threads[1] = Idle /\ SerialInv
    BY <1>1, Booting DEF OrderInv
  <1>3. /\ threads \in Seq(Threads) /\ Len(threads) \in Nat \ {0}
        /\ DOMAIN threads = 1 .. Len(threads)
        /\ Len(threads') = Len(threads) + 1 /\ threads'[Len(threads) + 1] = t
        /\ \A k \in 1 .. Len(threads) : threads'[k] = threads[k]
        /\ DOMAIN threads' = 1 .. (Len(threads) + 1)
    BY <1>1, <1>2, OrderFacts
  <1>4. ListOK'
    <2>1. \A k \in 1 .. Len(threads) : threads[k] # t
      BY <1>1, <1>3 DEF Created
    <2>2. ASSUME NEW a \in DOMAIN threads', NEW b \in DOMAIN threads', threads'[a] = threads'[b]
          PROVE  a = b
      <3>1. /\ a = Len(threads) + 1 \/ a \in 1 .. Len(threads)
            /\ b = Len(threads) + 1 \/ b \in 1 .. Len(threads)
        BY <1>3
      <3>2. CASE a \in 1 .. Len(threads) /\ b \in 1 .. Len(threads)
        BY <1>3, <2>2, <3>2 DEF OrderInv, OrderOK, ListOK
      <3>. QED  BY <1>3, <2>1, <2>2, <3>1, <3>2
    <2>3. threads'[1] = Idle
      BY <1>2, <1>3
    <2>. QED  BY <1>1, <1>2, <2>2, <2>3 DEF ListOK
  <1>5. PassedOK'
    <2> SUFFICES ASSUME NEW p \in Positions', NEW q \in Positions', threads'[p + 1] = Idle,
                        Passed(p, 0, q)
                 PROVE  FALSE
      BY <1>1, <1>2 DEF PassedOK, Passed
    <2>1. p \in Nat /\ q \in Nat /\ p + 1 \in DOMAIN threads' /\ 1 \in DOMAIN threads'
      BY <1>3 DEF Positions
    <2>2. p + 1 = 1
      BY <1>4, <2>1 DEF ListOK
    <2>3. p = 0
      BY <2>1, <2>2
    <2>. QED  BY <2>1, <2>3, PassedSelf
  <1>6. Where' = "thread"
    BY <1>1 DEF Where
  <1>. QED  BY <1>4, <1>5, <1>6, NotSearching DEF OrderOK

\* kernel_main marks a thread Dead or Waiting.
LEMMA ParkOrder ==
    ASSUME OrderInv, NEW t \in Parkable, NEW s \in {"Dead", "Waiting"}, Park(t, s)
    PROVE  OrderOK'
  <1>1. /\ frames[rsp] = <<>> /\ state' = [state EXCEPT ![t] = s] /\ SerialInv
        /\ UNCHANGED <<booted, threads, currentThread, currentThreadIndex, rsp, frames>>
    BY DEF Park, AtThreadLevel, OrderInv
  <1>2. Where = "thread" /\ Where' = "thread"
    BY <1>1 DEF Where
  <1>3. ListOK'
    BY <1>1 DEF OrderInv, OrderOK, ListOK
  <1>4. PassedOK'
    <2> SUFFICES ASSUME NEW p \in Positions, NEW q \in Positions, threads[p + 1] = currentThread,
                        Passed(p, currentThreadIndex, q)
                 PROVE  state'[threads[q + 1]] # "Ready"
      BY <1>1 DEF PassedOK, Passed, Positions
    <2>1. state[threads[q + 1]] # "Ready"
      BY <1>2 DEF OrderInv, OrderOK, PassedOK, Holding
    <2>2. threads[q + 1] \in Threads /\ state \in [Threads -> TCBState]
      BY <1>1, OrderFacts
    <2>. QED  BY <1>1, <2>1, <2>2
  <1>. QED  BY <1>2, <1>3, <1>4, NotSearching DEF OrderOK

\* EnableScheduling, the debugger, and stuttering
LEMMA ElsewhereOrder ==
    ASSUME OrderInv, booted' \/ booted' = booted,
           UNCHANGED <<threads, state, currentThread, currentThreadIndex, rsp, frames>>
    PROVE  OrderOK'
  <1>1. Where' = Where /\ This' = This /\ Positions' = Positions
    BY DEF Where, This, Top, Positions
  <1>2. ListOK' /\ SearchOK'
    BY <1>1 DEF OrderInv, OrderOK, ListOK, SearchOK, ThreadAt
  <1>3. PassedOK' /\ TriesOK'
    BY <1>1 DEF OrderInv, OrderOK, PassedOK, TriesOK, Passed, Back
  <1>. QED  BY <1>2, <1>3 DEF OrderOK

\* The list that Scheduler::Init leaves holds k/idle alone.
LEMMA InitOrder == Init => OrderInv
  <1> SUFFICES ASSUME Init PROVE OrderInv
    OBVIOUS
  <1>1. /\ threads = <<Idle>> /\ currentThreadIndex = 0 /\ frames[rsp] = <<>>
    BY ThreadsAssumption DEF Init
  <1>2. Len(threads) = 1 /\ threads[1] = Idle /\ DOMAIN threads = {1}
    BY <1>1
  <1>3. Where = "thread" /\ Positions = {0}
    BY <1>1, <1>2 DEF Where, Positions
  <1>4. ListOK /\ SearchOK /\ TriesOK
    BY <1>1, <1>2, <1>3 DEF ListOK, SearchOK, TriesOK
  <1>5. PassedOK
    BY <1>1, <1>3 DEF PassedOK, Passed
  <1>. QED  BY <1>4, <1>5, InitSerial DEF OrderInv, OrderOK

\* Every step of the serialised scheduler keeps the order.
LEMMA NextOrder ==
    ASSUME MaxDepth = 1
    PROVE  OrderInv /\ [Next]_vars => OrderInv'
  <1> SUFFICES ASSUME OrderInv, [Next]_vars PROVE OrderInv'
    OBVIOUS
  <1>1. SerialInv'
    BY NextSerial DEF OrderInv
  <1>2. OrderOK'
    <2>1. CASE Boot
      <3>1. CASE EnableScheduling
        BY <3>1, ElsewhereOrder DEF EnableScheduling
      <3>. QED  BY <2>1, <3>1, CreateThreadOrder, ParkOrder DEF Boot
    <2>2. CASE Tick
      <3>1. frames[rsp] \in Seq(Frame) /\ Len(frames[rsp]) < 1
        BY <2>2 DEF Tick, OrderInv, SerialInv, AnyDepthInv, TypeOK
      <3>2. frames[rsp] = <<>>
        BY <3>1
      <3>. QED  BY <2>2, <3>2, CallOrder DEF Tick
    <2>3. CASE \E t \in Threads \ {Idle} : Yield(t)
      BY <2>3, CallOrder DEF Yield, AtThreadLevel
    <2>4. CASE Schedule
      <3>1. CASE Resumed
        <4>1. frames[rsp] # <<>> /\ Where = "resumed" /\ Len(frames[rsp]) = 1
          BY <3>1, WhereFacts DEF Resumed, OrderInv
        <4>. QED  BY <3>1, <4>1, ReturnOrder DEF Resumed
      <3>. QED  BY <2>4, <3>1, CheckOrder, LoadIndexOrder, StoreIndexOrder, WrapIndexOrder,
             PickOrder, TestOrder, MarkCurrentOrder, MarkNewOrder, SwitchOrder,
             SetCurrentOrder, ContextOrder DEF Schedule
    <2>5. CASE \E t \in Debuggers : Debugger(t)
      BY <2>5, ElsewhereOrder DEF Debugger, EnterDebugger, OpenDebugger, ExitDebugger
    <2>6. CASE UNCHANGED vars
      BY <2>6, ElsewhereOrder DEF vars
    <2>. QED  BY <2>1, <2>2, <2>3, <2>4, <2>5, <2>6 DEF Next
  <1>. QED  BY <1>1, <1>2 DEF OrderInv

\* The order holds in every state the serialised scheduler reaches.
THEOREM OrderInvariance ==
    ASSUME MaxDepth = 1
    PROVE  Spec => []OrderInv
  BY InitOrder, NextOrder, PTL DEF Spec

\* Serialised, Schedule gives up only when no thread is Ready, whatever the
\* number of threads, provided maxTries lets its search go round the list.
THEOREM GivesUpOnlyWhenNoneReady ==
    ASSUME MaxDepth = 1
    PROVE  Spec => []GiveUpSound
  <1>1. OrderInv => GiveUpSound
    <2> SUFFICES ASSUME OrderInv, At("test"), Len(threads) <= MaxTries + 1,
                        state[This.new] # "Ready", This.tries + 1 > MaxTries,
                        NEW t \in Created
                 PROVE  state[t] # "Ready"
      BY DEF GiveUpSound
    <2> DEFINE n == Len(threads)
               i == currentThreadIndex
    <2>1. Where = "test" /\ This \in Frame /\ SerialInv
      BY WhereFacts DEF OrderInv
    <2>2. n \in Nat \ {0} /\ i \in 0 .. (n - 1) /\ This.tries \in Nat /\ MaxTries \in Nat
      BY <2>1, OrderFacts, BoundsAssumption DEF Positions, Frame
    <2>3. PICK a \in DOMAIN threads : t = threads[a]
      BY DEF Created
    <2>4. DOMAIN threads = 1 .. n
      BY <2>1, OrderFacts
    <2>5. a - 1 \in Positions /\ (a - 1) + 1 = a /\ a - 1 \in 0 .. (n - 1)
      BY <2>2, <2>3, <2>4 DEF Positions
    <2> DEFINE q == a - 1
    <2>6. q \in Positions /\ q \in 0 .. (n - 1) /\ threads[q + 1] = t
      BY <2>3, <2>5
    <2>7. n <= MaxTries + 1
      OBVIOUS
    <2> HIDE DEF n, i, q
    <2>8. Back(n, i, q) \in 0 .. (n - 1) /\ (Back(n, i, q) = 0 => q = i)
      BY <2>2, <2>6, BackRange
    <2>9. CASE q = i
      <3>1. ThreadAt(i) = t /\ This.new = ThreadAt(i)
        BY <2>1, <2>6, <2>9, OrderFacts DEF SerialInv, CandidateOK, i
      <3>. QED  BY <3>1
    <2>10. CASE q # i
      <3>1. 1 <= Back(n, i, q) /\ Back(n, i, q) <= This.tries
        BY <2>2, <2>7, <2>8, <2>10
      <3>. QED  BY <2>1, <2>6, <3>1 DEF OrderInv, OrderOK, TriesOK, n, i
    <2>. QED  BY <2>9, <2>10
  <1>. QED  BY <1>1, OrderInvariance, PTL

-----------------------------------------------------------------------------
(* The refinement *)

\* Remainders of numbers up to twice the divisor.
LEMMA ModFacts ==
    ASSUME NEW n \in Nat \ {0}, NEW a \in Nat
    PROVE  /\ a < n => a % n = a
           /\ n <= a /\ a < n + n => a % n = a - n
  <1> DEFINE d == a \div n
             r == a % n
  <1>1. d \in Nat /\ r \in 0 .. (n - 1) /\ a = d * n + r
    OBVIOUS
  <1> HIDE DEF d, r
  <1>2. \A k \in Nat : k * n \in Nat /\ (k >= 1 => k * n >= n) /\ (k >= 2 => k * n >= n + n)
    OBVIOUS
  <1>3. 0 * n = 0 /\ 1 * n = n
    OBVIOUS
  <1>4. a < n => r = a
    <2> SUFFICES ASSUME a < n PROVE r = a
      OBVIOUS
    <2>1. ~(d >= 1)
      <3> SUFFICES ASSUME d >= 1 PROVE FALSE
        OBVIOUS
      <3>1. d * n >= n /\ d * n \in Nat
        BY <1>1, <1>2
      <3>. QED  BY <1>1, <3>1
    <2>2. d = 0
      BY <1>1, <2>1
    <2>. QED  BY <1>1, <1>3, <2>2
  <1>5. n <= a /\ a < n + n => r = a - n
    <2> SUFFICES ASSUME n <= a, a < n + n PROVE r = a - n
      OBVIOUS
    <2>1. ~(d >= 2)
      <3> SUFFICES ASSUME d >= 2 PROVE FALSE
        OBVIOUS
      <3>1. d * n >= n + n /\ d * n \in Nat
        BY <1>1, <1>2
      <3>. QED  BY <1>1, <3>1
    <2>2. d # 0
      BY <1>1, <1>3
    <2>3. d = 1
      BY <1>1, <2>1, <2>2
    <2>. QED  BY <1>1, <1>3, <2>3
  <1>. QED  BY <1>4, <1>5 DEF r

\* The thread k places after position p, and whether the index has passed it.
LEMMA AheadFacts ==
    ASSUME NEW n \in Nat \ {0}, NEW p \in 0 .. (n - 1), NEW i \in 0 .. (n - 1), i # p
    PROVE  \E k \in 1 .. n :
              /\ (p + k) % n = i
              /\ \A j \in 1 .. (k - 1) :
                    /\ (p + j) % n \in 0 .. (n - 1)
                    /\ Passed(p, i, (p + j) % n) /\ (p + j) % n # i
  <1>1. CASE p < i
    <2>1. i - p \in 1 .. n /\ p + (i - p) = i /\ i < n
      BY <1>1
    <2>2. (p + (i - p)) % n = i
      BY <2>1, ModFacts
    <2>3. ASSUME NEW j \in 1 .. ((i - p) - 1)
          PROVE  (p + j) % n = p + j /\ p + j \in 0 .. (n - 1) /\ p < p + j /\ p + j < i
      <3>1. p + j \in Nat /\ p + j < n /\ p < p + j /\ p + j < i
        BY <1>1
      <3>2. (p + j) % n = p + j
        BY <3>1, ModFacts
      <3>. QED  BY <3>1, <3>2
    <2>4. \A j \in 1 .. ((i - p) - 1) :
             /\ (p + j) % n \in 0 .. (n - 1)
             /\ Passed(p, i, (p + j) % n) /\ (p + j) % n # i
      <3> SUFFICES ASSUME NEW j \in 1 .. ((i - p) - 1), NEW m, m = p + j
                   PROVE  m \in 0 .. (n - 1) /\ Passed(p, i, m) /\ m # i
        BY <2>3
      <3>. QED  BY <1>1, <2>3 DEF Passed
    <2>. QED  BY <2>1, <2>2, <2>4
  <1>2. CASE i < p
    <2> DEFINE k == (i + n) - p
    <2>1. k \in 1 .. n /\ p + k = i + n /\ i + n \in Nat /\ n <= i + n /\ i + n < n + n
      BY <1>2
    <2>2. (p + k) % n = i
      <3>1. (i + n) % n = (i + n) - n
        BY <2>1, ModFacts
      <3>. QED  BY <2>1, <3>1
    <2>3. ASSUME NEW j \in 1 .. (k - 1)
          PROVE  /\ (p + j) % n \in 0 .. (n - 1)
                 /\ Passed(p, i, (p + j) % n) /\ (p + j) % n # i
      <3>1. p + j \in Nat /\ p < p + j /\ p + j < n + i
        BY <1>2
      <3>2. CASE p + j < n
        <4>1. (p + j) % n = p + j
          BY <3>1, <3>2, ModFacts
        <4>2. \A m \in Nat : m = p + j => m \in 0 .. (n - 1) /\ Passed(p, i, m) /\ m # i
          BY <1>2, <3>1, <3>2 DEF Passed
        <4>. QED  BY <3>1, <4>1, <4>2
      <3>3. CASE n <= p + j
        <4>1. (p + j) % n = (p + j) - n
          <5>1. p + j < n + n
            BY <3>1
          <5>. QED  BY <3>1, <3>3, <5>1, ModFacts
        <4>2. (p + j) - n \in Nat
          BY <3>1, <3>3
        <4>3. \A m \in Nat : m = (p + j) - n => m \in 0 .. (n - 1) /\ Passed(p, i, m) /\ m # i
          BY <1>2, <3>1, <3>3 DEF Passed
        <4>. QED  BY <4>1, <4>2, <4>3
      <3>. QED  BY <3>1, <3>2, <3>3
    <2> HIDE DEF k
    <2>. QED  BY <2>1, <2>2, <2>3
  <1>. QED  BY <1>1, <1>2

\* The threads that RoundRobin may dispatch.
Runnable == {t \in Created : state[t] \in {"Ready", "Running"}}

\* currentThread = newThread is a dispatch of the next runnable thread.
LEMMA SetCurrentDispatches ==
    ASSUME OrderInv, SetCurrent, currentThread' # currentThread
    PROVE  RR!Dispatch
  <1>1. Where = "set_cur" /\ SerialInv
    BY WhereFacts DEF SetCurrent, OrderInv
  <1> DEFINE n == Len(threads)
             i == currentThreadIndex
             here == CHOOSE h \in DOMAIN threads : threads[h] = currentThread
             p == here - 1
  <1>2. /\ n \in Nat \ {0} /\ DOMAIN threads = 1 .. n /\ i \in Positions /\ i \in 0 .. (n - 1)
        /\ Positions = 0 .. (n - 1)
    BY <1>1, OrderFacts DEF Positions
  <1>3. /\ This.arg = threads[i + 1] /\ This.arg \in Created /\ state[This.arg] = "Running"
        /\ OnlyRunning(This.arg) /\ currentThread' = This.arg
        /\ UNCHANGED <<threads, state>>
    <2>1. This.arg = ThreadAt(i) /\ ThreadAt(i) = threads[i + 1]
      BY <1>1, <1>2, OrderFacts DEF OrderInv, OrderOK, SearchOK
    <2>. QED  BY <1>1, <2>1 DEF SerialInv, CandidateOK, RunningOK, SetCurrent
  <1>4. here \in DOMAIN threads /\ threads[here] = currentThread
    <2>1. currentThread \in Created
      BY <1>1 DEF SerialInv, CurrentOK, StacksOK
    <2>2. \E h \in DOMAIN threads : threads[h] = currentThread
      BY <2>1 DEF Created
    <2>. QED  BY <2>2
  <1> HIDE DEF here
  <1>5. p \in 0 .. (n - 1) /\ p + 1 = here
    BY <1>2, <1>4
  <1>6. i # p
    BY <1>3, <1>4, <1>5
  <1>7. PICK k \in 1 .. n :
            /\ (p + k) % n = i
            /\ \A j \in 1 .. (k - 1) :
                  /\ (p + j) % n \in 0 .. (n - 1)
                  /\ Passed(p, i, (p + j) % n) /\ (p + j) % n # i
    BY <1>2, <1>5, <1>6, AheadFacts
  <1>8. \A j : RR!Ahead(j) = threads[((p + j) % n) + 1]
    BY DEF RR!Ahead, here
  <1>9. RR!Ahead(k) = This.arg
    BY <1>3, <1>7, <1>8
  <1>10. ASSUME NEW j \in 1 .. (k - 1) PROVE RR!Ahead(j) \notin Runnable
    <2> DEFINE q == (p + j) % n
    <2>1. q \in Positions /\ Passed(p, i, q) /\ q # i /\ RR!Ahead(j) = threads[q + 1]
      BY <1>2, <1>7, <1>8
    <2> HIDE DEF q
    <2>2. state[threads[q + 1]] # "Ready"
      BY <1>1, <1>2, <1>4, <1>5, <2>1 DEF OrderInv, OrderOK, PassedOK
    <2>3. threads[q + 1] # This.arg
      <3>1. q \in Nat /\ i \in Nat /\ q + 1 \in DOMAIN threads /\ i + 1 \in DOMAIN threads
        BY <1>1, <1>2, <2>1, OrderFacts
      <3>2. q + 1 # i + 1
        BY <2>1, <3>1
      <3>. QED  BY <1>3, <3>1, <3>2 DEF OrderInv, OrderOK, ListOK
    <2>. QED  BY <1>3, <2>1, <2>2, <2>3 DEF Runnable, OnlyRunning
  <1>11. This.arg \in Runnable
    BY <1>3 DEF Runnable
  <1>12. Runnable' = Runnable
    BY <1>3 DEF Runnable, Created
  <1>13. \E m \in 1 .. n : /\ RR!Ahead(m) \in Runnable
                           /\ \A j \in 1 .. (m - 1) : RR!Ahead(j) \notin Runnable
                           /\ currentThread' = RR!Ahead(m)
    BY <1>3, <1>9, <1>10, <1>11
  <1>. QED  BY <1>3, <1>12, <1>13 DEF RR!Dispatch, Runnable

\* Every step of the scheduler is a step of RoundRobin or changes nothing there.
LEMMA StepRefines ==
    ASSUME OrderInv, [Next]_vars
    PROVE  [RR!Next]_RR!vars
  <1>0. SerialInv /\ state \in [Threads -> TCBState] /\ Created \subseteq Threads
    BY DEF OrderInv, SerialInv, AnyDepthInv, TypeOK, Created
  <1>1. ASSUME UNCHANGED <<threads, currentThread>>, Runnable' = Runnable PROVE UNCHANGED RR!vars
    BY <1>1 DEF RR!vars, Runnable
  <1>2. ASSUME UNCHANGED <<threads, state, currentThread>> PROVE UNCHANGED RR!vars
    <2>1. Runnable' = Runnable
      BY <1>2 DEF Runnable, Created
    <2>. QED  BY <1>1, <1>2, <2>1
  <1>3. ASSUME NEW t \in Threads, CreateThread(t) PROVE RR!Next
    <2>1. /\ t \notin Created /\ threads' = Append(threads, t) /\ currentThread' = currentThread
          /\ state' = [state EXCEPT ![t] = "Ready"]
      BY <1>3 DEF CreateThread
    <2>2. Created' = Created \union {t}
      BY <1>0, <1>3, CreateThreadSerial
    <2>3. Runnable' = Runnable \union {t}
      BY <1>0, <2>1, <2>2 DEF Runnable
    <2>4. RR!Admit(t)
      BY <2>1, <2>3 DEF RR!Admit, RR!Listed, Created, Runnable
    <2>. QED  BY <2>4 DEF RR!Next
  <1>4. ASSUME NEW t \in Parkable, NEW s \in {"Dead", "Waiting"}, Park(t, s) PROVE RR!Next
    <2>1. /\ ~booted /\ t \in Created /\ state[t] = "Ready" /\ state' = [state EXCEPT ![t] = s]
          /\ UNCHANGED <<threads, currentThread>>
      BY <1>4 DEF Park
    <2>2. currentThread = Idle /\ t # Idle /\ t \in Threads
      BY <2>1, Booting, ThreadsAssumption
    <2>3. Runnable' = Runnable \ {t}
      BY <1>0, <2>1, <2>2 DEF Runnable, Created
    <2>4. RR!Suspend(t)
      BY <2>1, <2>2, <2>3 DEF RR!Suspend, Runnable
    <2>. QED  BY <2>2, <2>4 DEF RR!Next
  <1>5. CASE SetCurrent
    <2>1. CASE currentThread' = currentThread
      BY <1>2, <1>5, <2>1 DEF SetCurrent
    <2>2. CASE currentThread' # currentThread
      BY <1>5, <2>2, SetCurrentDispatches DEF RR!Next
    <2>. QED  BY <2>1, <2>2
  <1>6. CASE MarkCurrent
    <2>1. /\ state' = [state EXCEPT ![currentThread] = "Ready"]
          /\ UNCHANGED <<threads, currentThread>>
      BY <1>6 DEF MarkCurrent
    <2>2. state[currentThread] \in {"Ready", "Running"}
      BY <1>0, ActiveNotParked
    <2>3. Runnable' = Runnable
      BY <1>0, <2>1, <2>2 DEF Runnable, Created
    <2>. QED  BY <1>1, <2>1, <2>3
  <1>7. CASE MarkNew
    <2>1. /\ state' = [state EXCEPT ![This.new] = "Running"]
          /\ UNCHANGED <<threads, currentThread>>
      BY <1>7 DEF MarkNew
    <2>2. state[This.new] = "Ready"
      BY <1>0, <1>7, WhereFacts DEF MarkNew, SerialInv, CandidateOK
    <2>3. Runnable' = Runnable
      BY <1>0, <2>1, <2>2 DEF Runnable, Created
    <2>. QED  BY <1>1, <2>1, <2>3
  <1>8. CASE Check \/ LoadIndex \/ StoreIndex \/ WrapIndex \/ Pick \/ Test \/ Resumed
    BY <1>2, <1>8 DEF Check, LoadIndex, StoreIndex, WrapIndex, Pick, Test, Resumed, Local, Return
  <1>9. CASE RereadIndex \/ LoadCurrent \/ SaveContext \/ LoadContext
    BY <1>2, <1>9 DEF RereadIndex, LoadCurrent, SaveContext, LoadContext, Local
  <1>10. CASE EnableScheduling \/ Tick \/ \E t \in Threads \ {Idle} : Yield(t)
    BY <1>2, <1>10 DEF EnableScheduling, Tick, Yield, CallSchedule
  <1>11. CASE \E t \in Debuggers : Debugger(t)
    BY <1>2, <1>11 DEF Debugger, EnterDebugger, OpenDebugger, ExitDebugger
  <1>12. CASE UNCHANGED vars
    BY <1>2, <1>12 DEF vars
  <1>. QED  BY <1>3, <1>4, <1>5, <1>6, <1>7, <1>8, <1>9, <1>10, <1>11, <1>12
            DEF Next, Boot, Schedule

\* Serialised, Schedule, with everything it reads and writes on the way, hands
\* the processor to the next runnable thread in the cyclic order of the list and
\* passes over none, whatever the number of threads and maxTries.
THEOREM RoundRobinImplemented ==
    ASSUME MaxDepth = 1
    PROVE  Spec => ImplementsRoundRobin
  <1>1. Init => RR!Init
    <2> SUFFICES ASSUME Init PROVE RR!Init
      OBVIOUS
    <2>1. threads = <<Idle>> /\ currentThread = Idle /\ state[Idle] = "Ready"
      BY ThreadsAssumption DEF Init
    <2>2. Created = {Idle}
      BY <2>1 DEF Created
    <2>. QED  BY <2>1, <2>2 DEF RR!Init
  <1>2. OrderInv /\ [Next]_vars => [RR!Next]_RR!vars
    BY StepRefines
  <1>. QED  BY <1>1, <1>2, OrderInvariance, PTL DEF Spec, ImplementsRoundRobin, RR!Spec
=============================================================================
