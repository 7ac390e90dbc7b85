------------------------------ MODULE Scheduler ------------------------------
(***************************************************************************)
(* Lobo's thread scheduler: Scheduler (task/scheduler.cpp), switch_thread  *)
(* (arch/x86_64/switch_thread.s), the timer interrupt that calls it        *)
(* (arch/x86_64/interrupts.cpp), the boot code that creates the threads    *)
(* (main.cpp) and the debugger that turns scheduling off                   *)
(* (debug/kernel_debugger.cpp).                                            *)
(*                                                                         *)
(* There is one processor.  Each thread has a stack; an activation of      *)
(* Scheduler::Schedule is a frame on the stack it was called on.  The      *)
(* timer handler executes sti before it calls Schedule, so a tick may land *)
(* inside a Schedule call and start another on the same stack.  MaxDepth   *)
(* bounds how many may pile up: 1 means that no tick lands inside Schedule *)
(* (the serialised algorithm), 2 or more is what the code allows.          *)
(*                                                                         *)
(* A step performs at most one write of shared state; a value that is read *)
(* into a local variable and used later is read in a step of its own.      *)
(***************************************************************************)
EXTENDS Integers, Sequences

CONSTANTS Threads,    \* the thread control blocks that may exist
          Idle,       \* &idleThread
          Parkable,   \* threads kernel_main may mark Dead or Waiting
          Debuggers,  \* threads whose code may call debugger::enter
          MaxTries,   \* maxTries in Schedule (500 in the code)
          MaxDepth,   \* bound: Schedule activations on one stack
          Null,       \* nullptr
          Dangling    \* a stack_top that no longer addresses a saved context

ASSUME ThreadsAssumption ==
    /\ Idle \in Threads
    /\ Parkable \subseteq Threads \ {Idle}
    /\ Debuggers \subseteq Threads \ {Idle}
    /\ Null \notin Threads
    /\ Dangling \notin [stk: Threads, depth: Nat]

ASSUME BoundsAssumption ==
    /\ MaxTries \in Nat
    /\ MaxDepth \in Nat \ {0}

VARIABLES
    booted,              \* kernel_main has called EnableScheduling
    threads,             \* Scheduler::threads
    state,               \* ThreadControlBlock::state of each thread
    stackTop,            \* ThreadControlBlock::stack_top: a saved context
    currentThread,       \* Scheduler::currentThread
    currentThreadIndex,  \* Scheduler::currentThreadIndex, from 0
    schedulingEnabled,   \* Scheduler::schedulingEnabled
    rsp,                 \* whose stack the processor executes on
    frames,              \* the Schedule activations on each stack, oldest first
    dbg,                 \* where each thread is in debugger::enter
    was,                 \* its local wasSchedulingEnabled
    halted               \* the processor resumed a context that is not there

vars == <<booted, threads, state, stackTop, currentThread, currentThreadIndex,
          schedulingEnabled, rsp, frames, dbg, was, halted>>

-----------------------------------------------------------------------------
TCBState == {"Ready", "Running", "Waiting", "Dead"}

\* Where a Schedule activation is.
Pcs == {"check", "load", "store", "wrap", "pick", "test", "mark_cur",
        "mark_new", "reread", "load_cur", "set_cur", "save", "jump", "resumed"}

\* The locals of Schedule and of the SwitchThread it calls.
Frame == [pc: Pcs,
          tries: Nat,                  \* tries
          reg: Nat,                    \* ++currentThreadIndex, in a register
          new: Threads \union {Null},  \* new_thread
          arg: Threads \union {Null},  \* SwitchThread's newThread
          cur: Threads \union {Null}]  \* SwitchThread's curThread

Context == [stk: Threads, depth: Nat]

Created == {threads[i] : i \in DOMAIN threads}

\* single_linked_list::at
ThreadAt(i) == IF i < Len(threads) THEN threads[i + 1] ELSE Null

\* The code of a thread itself is executing, outside Schedule.
AtThreadLevel(t) == ~halted /\ rsp = t /\ frames[t] = <<>>

Top(fs) == fs[Len(fs)]

ReplaceTop(fs, f) == [fs EXCEPT ![Len(fs)] = f]

\* The innermost activation on the executing stack is at pc.
At(pc) == ~halted /\ frames[rsp] # <<>> /\ Top(frames[rsp]).pc = pc

\* Scheduler::Schedule's innermost activation becomes f.
Step(f) == frames' = [frames EXCEPT ![rsp] = ReplaceTop(@, f)]

\* Contexts saved on stack s at depth d or deeper, once their memory is reused.
Invalidate(tops, s, d) ==
    [t \in Threads |-> IF tops[t] # Dangling /\ tops[t].stk = s /\ tops[t].depth >= d
                       THEN Dangling ELSE tops[t]]

-----------------------------------------------------------------------------
\* The machine when Scheduler::Init returns: the boot code has become k/idle,
\* whose state field is still the zero of its static storage, Ready.
Init ==
    /\ booted = FALSE
    /\ threads = <<Idle>>
    /\ state = [t \in Threads |-> "Ready"]
    /\ stackTop = [t \in Threads |-> Dangling]
    /\ currentThread = Idle
    /\ currentThreadIndex = 0
    /\ schedulingEnabled = FALSE
    /\ rsp = Idle
    /\ frames = [t \in Threads |-> <<>>]
    /\ dbg = [t \in Threads |-> "out"]
    /\ was = [t \in Threads |-> FALSE]
    /\ halted = FALSE

-----------------------------------------------------------------------------
(* kernel_main, on k/idle's stack. *)

\* Faulty variant: the stack pointer is not set up.
CreateThreadBare(t) ==
    /\ AtThreadLevel(Idle) /\ ~booted
    /\ t \notin Created
    /\ threads' = Append(threads, t)
    /\ state' = [state EXCEPT ![t] = "Ready"]
    /\ UNCHANGED <<booted, stackTop, currentThread, currentThreadIndex,
                   schedulingEnabled, rsp, frames, dbg, was, halted>>


CreateThread(t) ==
    /\ AtThreadLevel(Idle) /\ ~booted
    /\ t \notin Created
    /\ threads' = Append(threads, t)
    /\ state' = [state EXCEPT ![t] = "Ready"]
    /\ stackTop' = [stackTop EXCEPT ![t] = [stk |-> t, depth |-> 0]]
    /\ UNCHANGED <<booted, currentThread, currentThreadIndex, schedulingEnabled,
                   rsp, frames, dbg, was, halted>>

\* deadThread->state = Dead, waitingThread->state = Waiting
Park(t, s) ==
    /\ AtThreadLevel(Idle) /\ ~booted
    /\ t \in Created /\ state[t] = "Ready"
    /\ state' = [state EXCEPT ![t] = s]
    /\ UNCHANGED <<booted, threads, stackTop, currentThread, currentThreadIndex,
                   schedulingEnabled, rsp, frames, dbg, was, halted>>

EnableScheduling ==
    /\ AtThreadLevel(Idle) /\ ~booted
    /\ booted' = TRUE
    /\ schedulingEnabled' = TRUE
    /\ UNCHANGED <<threads, state, stackTop, currentThread, currentThreadIndex,
                   rsp, frames, dbg, was, halted>>

-----------------------------------------------------------------------------
(* The two callers of Schedule: the timer interrupt, on whatever stack it   *)
(* finds, and Yield, from a thread's own code.                              *)

NewFrame == [pc |-> "check", tries |-> 0, reg |-> 0,
             new |-> Null, arg |-> Null, cur |-> Null]

CallSchedule ==
    /\ frames' = [frames EXCEPT ![rsp] = Append(@, NewFrame)]
    /\ UNCHANGED <<booted, threads, state, stackTop, currentThread,
                   currentThreadIndex, schedulingEnabled, rsp, dbg, was, halted>>

Tick ==
    /\ ~halted
    /\ Len(frames[rsp]) < MaxDepth
    /\ CallSchedule

Yield(t) ==
    /\ AtThreadLevel(t) /\ dbg[t] = "out"
    /\ CallSchedule

\* Schedule returns to its caller.
Return ==
    LET d == Len(frames[rsp])
    IN  /\ frames' = [frames EXCEPT ![rsp] = SubSeq(@, 1, d - 1)]
        /\ stackTop' = Invalidate(stackTop, rsp, d)
        /\ UNCHANGED <<booted, threads, state, currentThread, currentThreadIndex,
                       schedulingEnabled, rsp, dbg, was, halted>>

-----------------------------------------------------------------------------
(* Scheduler::Schedule.  A local that the code will not read again is reset, *)
(* to keep states that differ in it only from being told apart.              *)

\* A step that changes the activation's locals only.
Local(f) ==
    /\ Step(f)
    /\ UNCHANGED <<booted, threads, state, stackTop, currentThread,
                   currentThreadIndex, schedulingEnabled, rsp, dbg, was, halted>>

This == Top(frames[rsp])

\* Faulty variant: schedulingEnabled is not tested.
CheckUngated == At("check") /\ Local([This EXCEPT !.pc = "load"])

\* if (!schedulingEnabled) return
Check ==
    /\ At("check")
    /\ \/ schedulingEnabled /\ Local([This EXCEPT !.pc = "load"])
       \/ ~schedulingEnabled /\ Return

\* Faulty variant: the index counts down.
LoadIndexDown ==
    /\ At("load")
    /\ Local([This EXCEPT !.pc = "store", !.reg = currentThreadIndex - 1])

\* ++currentThreadIndex: load and increment, store
LoadIndex ==
    /\ At("load")
    /\ Local([This EXCEPT !.pc = "store", !.reg = currentThreadIndex + 1])

\* Faulty variant: > for >= when the index is compared with threads.size().
StoreIndexPastEnd ==
    /\ At("store")
    /\ currentThreadIndex' = This.reg
    /\ Step([This EXCEPT !.pc = IF This.reg > Len(threads) THEN "wrap" ELSE "pick",
                         !.reg = 0])
    /\ UNCHANGED <<booted, threads, state, stackTop, currentThread,
                   schedulingEnabled, rsp, dbg, was, halted>>


StoreIndex ==
    /\ At("store")
    /\ currentThreadIndex' = This.reg
    /\ Step([This EXCEPT !.pc = IF This.reg >= Len(threads) THEN "wrap" ELSE "pick",
                         !.reg = 0])
    /\ UNCHANGED <<booted, threads, state, stackTop, currentThread,
                   schedulingEnabled, rsp, dbg, was, halted>>

\* Faulty variant: the search wraps to the thread after k/idle.
WrapIndexToOne ==
    /\ At("wrap")
    /\ currentThreadIndex' = 1
    /\ Step([This EXCEPT !.pc = "pick"])
    /\ UNCHANGED <<booted, threads, state, stackTop, currentThread,
                   schedulingEnabled, rsp, dbg, was, halted>>

\* currentThreadIndex = 0
WrapIndex ==
    /\ At("wrap")
    /\ currentThreadIndex' = 0
    /\ Step([This EXCEPT !.pc = "pick"])
    /\ UNCHANGED <<booted, threads, state, stackTop, currentThread,
                   schedulingEnabled, rsp, dbg, was, halted>>

\* auto new_thread = threads.at(currentThreadIndex)
Pick ==
    /\ At("pick")
    /\ Local([This EXCEPT !.pc = "test", !.new = ThreadAt(currentThreadIndex)])

\* Faulty variant: only Dead threads are skipped.
TestNotDead ==
    /\ At("test")
    /\ This.new # Null
    /\ \/ state[This.new] # "Dead" /\ Local([This EXCEPT !.pc = "mark_cur", !.tries = 0])
       \/ state[This.new] = "Dead" /\ Return

\* Faulty variant: tries is incremented twice.
TestCountsTwice ==
    /\ At("test")
    /\ This.new # Null
    /\ \/ /\ state[This.new] = "Ready"
          /\ Local([This EXCEPT !.pc = "mark_cur", !.tries = 0])
       \/ /\ state[This.new] # "Ready"
          /\ This.tries + 1 <= MaxTries
          /\ Local([This EXCEPT !.pc = "load", !.tries = @ + 2, !.new = Null])
       \/ /\ state[This.new] # "Ready"
          /\ This.tries + 1 > MaxTries
          /\ Return

\* The candidate may run; or try the next one; or give up.
Test ==
    /\ At("test")
    /\ This.new # Null
    /\ \/ /\ state[This.new] = "Ready"
          /\ Local([This EXCEPT !.pc = "mark_cur", !.tries = 0])
       \/ /\ state[This.new] # "Ready"
          /\ This.tries + 1 <= MaxTries
          /\ Local([This EXCEPT !.pc = "load", !.tries = @ + 1, !.new = Null])
       \/ /\ state[This.new] # "Ready"
          /\ This.tries + 1 > MaxTries
          /\ Return

\* Faulty variant: the thread that is switched out stays Running.
MarkCurrentSkipped ==
    /\ At("mark_cur")
    /\ Local([This EXCEPT !.pc = "mark_new"])

\* currentThread->state = Ready
MarkCurrent ==
    /\ At("mark_cur")
    /\ state' = [state EXCEPT ![currentThread] = "Ready"]
    /\ Step([This EXCEPT !.pc = "mark_new"])
    /\ UNCHANGED <<booted, threads, stackTop, currentThread, currentThreadIndex,
                   schedulingEnabled, rsp, dbg, was, halted>>

\* new_thread->state = Running
MarkNew ==
    /\ At("mark_new")
    /\ state' = [state EXCEPT ![This.new] = "Running"]
    /\ Step([This EXCEPT !.pc = "reread", !.new = Null])
    /\ UNCHANGED <<booted, threads, stackTop, currentThread, currentThreadIndex,
                   schedulingEnabled, rsp, dbg, was, halted>>

\* SwitchThread(threads.at(currentThreadIndex)): the index is read again
RereadIndex ==
    /\ At("reread")
    /\ Local([This EXCEPT !.pc = "load_cur", !.arg = ThreadAt(currentThreadIndex)])

-----------------------------------------------------------------------------
(* Scheduler::SwitchThread and switch_thread *)

\* assert(newThread != nullptr); curThread = currentThread
LoadCurrent ==
    /\ At("load_cur")
    /\ This.arg # Null
    /\ Local([This EXCEPT !.pc = "set_cur", !.cur = currentThread])

\* currentThread = newThread
SetCurrent ==
    /\ At("set_cur")
    /\ currentThread' = This.arg
    /\ Step([This EXCEPT !.pc = "save"])
    /\ UNCHANGED <<booted, threads, state, stackTop, currentThreadIndex,
                   schedulingEnabled, rsp, dbg, was, halted>>

\* Faulty variant: rdi and rsi swapped, the context goes to the new thread.
SaveContextSwapped ==
    /\ At("save")
    /\ stackTop' = [stackTop EXCEPT ![This.arg] =
                       [stk |-> rsp, depth |-> Len(frames[rsp])]]
    /\ Step([This EXCEPT !.pc = "jump", !.cur = Null])
    /\ UNCHANGED <<booted, threads, state, currentThread, currentThreadIndex,
                   schedulingEnabled, rsp, dbg, was, halted>>

\* mov [rsi], rsp: the context is the activation that is executing
SaveContext ==
    /\ At("save")
    /\ stackTop' = [stackTop EXCEPT ![This.cur] =
                       [stk |-> rsp, depth |-> Len(frames[rsp])]]
    /\ Step([This EXCEPT !.pc = "jump", !.cur = Null])
    /\ UNCHANGED <<booted, threads, state, currentThread, currentThreadIndex,
                   schedulingEnabled, rsp, dbg, was, halted>>

\* mov rsp, [rdi]; pop ...; ret.  The stack that is entered keeps what lies
\* under the saved context; contexts at or above it are overwritten from now on.
LoadContext ==
    /\ At("jump")
    /\ LET to    == stackTop[This.arg]
           left  == [This EXCEPT !.pc = "resumed", !.arg = Null]
           saved == [frames EXCEPT ![rsp] = ReplaceTop(@, left)]
           under == SubSeq(saved[to.stk], 1, to.depth)
       IN  \/ /\ to = Dangling
              /\ halted' = TRUE
              /\ UNCHANGED <<rsp, frames, stackTop>>
           \/ /\ to # Dangling
              /\ rsp' = to.stk
              /\ frames' = [saved EXCEPT ![to.stk] =
                    IF to.depth = 0 THEN <<>>
                    ELSE ReplaceTop(under, [Top(under) EXCEPT !.pc = "resumed", !.arg = Null])]
              /\ stackTop' = Invalidate(stackTop, to.stk, to.depth)
              /\ UNCHANGED halted
    /\ UNCHANGED <<booted, threads, state, currentThread, currentThreadIndex,
                   schedulingEnabled, dbg, was>>

\* switch_thread has returned on this stack: Schedule breaks its loop
Resumed == At("resumed") /\ Return

Schedule ==
    \/ Check \/ LoadIndex \/ StoreIndex \/ WrapIndex \/ Pick \/ Test
    \/ MarkCurrent \/ MarkNew \/ RereadIndex
    \/ LoadCurrent \/ SetCurrent \/ SaveContext \/ LoadContext \/ Resumed

-----------------------------------------------------------------------------
(* debugger::enter, called by a thread's own code *)

\* wasSchedulingEnabled = schedulingEnabled
EnterDebugger(t) ==
    /\ AtThreadLevel(t) /\ dbg[t] = "out"
    /\ was' = [was EXCEPT ![t] = schedulingEnabled]
    /\ dbg' = [dbg EXCEPT ![t] = "entering"]
    /\ UNCHANGED <<booted, threads, state, stackTop, currentThread,
                   currentThreadIndex, schedulingEnabled, rsp, frames, halted>>

\* Faulty variant: wasSchedulingEnabled is read after DisableScheduling.
OpenDebuggerLate(t) ==
    /\ AtThreadLevel(t) /\ dbg[t] = "entering"
    /\ schedulingEnabled' = FALSE
    /\ dbg' = [dbg EXCEPT ![t] = "open"]
    /\ was' = [was EXCEPT ![t] = FALSE]
    /\ UNCHANGED <<booted, threads, state, stackTop, currentThread,
                   currentThreadIndex, rsp, frames, halted>>

\* DisableScheduling(), and the prompt is open
OpenDebugger(t) ==
    /\ AtThreadLevel(t) /\ dbg[t] = "entering"
    /\ schedulingEnabled' = FALSE
    /\ dbg' = [dbg EXCEPT ![t] = "open"]
    /\ UNCHANGED <<booted, threads, state, stackTop, currentThread,
                   currentThreadIndex, rsp, frames, was, halted>>

\* the exit command
ExitDebugger(t) ==
    /\ AtThreadLevel(t) /\ dbg[t] = "open"
    /\ schedulingEnabled' = (schedulingEnabled \/ was[t])
    /\ dbg' = [dbg EXCEPT ![t] = "out"]
    /\ was' = [was EXCEPT ![t] = FALSE]
    /\ UNCHANGED <<booted, threads, state, stackTop, currentThread,
                   currentThreadIndex, rsp, frames, halted>>

Debugger(t) == EnterDebugger(t) \/ OpenDebugger(t) \/ ExitDebugger(t)

Boot ==
    \/ \E t \in Threads : CreateThread(t)
    \/ \E t \in Parkable, s \in {"Dead", "Waiting"} : Park(t, s)
    \/ EnableScheduling

Next ==
    \/ Boot
    \/ Tick
    \/ \E t \in Threads \ {Idle} : Yield(t)
    \/ Schedule
    \/ \E t \in Debuggers : Debugger(t)

Spec == Init /\ [][Next]_vars

\* The processor executes, and the timer goes on interrupting it.
Fairness == WF_vars(Schedule) /\ WF_vars(Tick)

FairSpec == Spec /\ Fairness

-----------------------------------------------------------------------------
(* Properties *)

\* The scheduler's fields, every Schedule activation and every saved context
\* hold values of the types declared for them in scheduler.h and task.h.
TypeOK ==
    /\ booted \in BOOLEAN
    /\ threads \in Seq(Threads) /\ threads # <<>>
    /\ state \in [Threads -> TCBState]
    /\ stackTop \in [Threads -> Context \union {Dangling}]
    /\ currentThread \in Threads
    /\ currentThreadIndex \in Nat
    /\ schedulingEnabled \in BOOLEAN
    /\ rsp \in Threads
    /\ frames \in [Threads -> Seq(Frame)]
    /\ dbg \in [Threads -> {"out", "entering", "open"}]
    /\ was \in [Threads -> BOOLEAN]
    /\ halted \in BOOLEAN

\* Whenever a thread's own code executes, switch_thread has left the machine
\* consistent: currentThread names the thread whose stack is in use, and every
\* other thread's stack_top addresses the innermost activation of its own stack.
ContextIntegrity ==
    AtThreadLevel(rsp) =>
        /\ currentThread = rsp
        /\ \A t \in Created \ {rsp} :
              stackTop[t] = [stk |-> t, depth |-> Len(frames[t])]

\* switch_thread never loads a stack_top that no longer addresses a context:
\* the processor does not run away.
NoWildJump == ~halted

\* Whenever a thread's own code executes, no other thread is marked Running:
\* Schedule skips everything but Ready, so such a thread would never run again.
NoGhostRunning ==
    AtThreadLevel(rsp) =>
        \A t \in Created : state[t] = "Running" => t = currentThread

\* threads.at(currentThreadIndex) never yields nullptr, neither to the read of
\* new_thread->state nor to the assertion in SwitchThread.
NoNullDispatch ==
    /\ At("test") => This.new # Null
    /\ At("load_cur") => This.arg # Null

\* A thread that kernel_main marked Dead or Waiting keeps that state and is never
\* given the processor, whatever Schedule writes to the states around it.
ParkedNeverRuns ==
    [][\A t \in Created : state[t] \in {"Dead", "Waiting"} =>
          state'[t] = state[t] /\ rsp' # t /\ currentThread' # t]_vars

\* Schedule gives up ("Can happen when it's only the idle thread") only when
\* no thread is Ready: its bounded search has then looked at every thread.
GiveUpSound ==
    /\ At("test") /\ This.new # Null /\ Len(threads) <= MaxTries + 1
    /\ state[This.new] # "Ready" /\ This.tries + 1 > MaxTries
    => \A t \in Created : state[t] # "Ready"

\* Scheduling, once enabled, is off only while the executing thread sits in the
\* debugger's prompt, and that thread will turn it on again: no interleaving of
\* two threads entering the debugger loses wasSchedulingEnabled.
SchedulingNotLost ==
    booted /\ ~schedulingEnabled => dbg[rsp] = "open" /\ was[rsp]

\* While the debugger's prompt is open no thread switch happens and no thread's
\* state changes, however many ticks arrive.
DebuggerFreezes ==
    [][dbg[rsp] = "open" =>
          UNCHANGED <<rsp, currentThread, state, currentThreadIndex>>]_vars

\* Every thread that may run gets the processor again and again, unless the
\* debugger's prompt holds it.
EveryThreadRuns ==
    \A t \in Threads :
        (booted /\ t \in Created /\ state[t] \in {"Ready", "Running"})
            ~> (rsp = t \/ dbg[rsp] = "open")

RR == INSTANCE RoundRobin WITH
        list <- threads,
        runnable <- {t \in Created : state[t] \in {"Ready", "Running"}},
        running <- currentThread

\* Schedule implements the round-robin promise: each change of currentThread is
\* to the next runnable thread in the cyclic order of the list.
ImplementsRoundRobin == RR!Spec
=============================================================================
