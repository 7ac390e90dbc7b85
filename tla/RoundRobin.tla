----------------------------- MODULE RoundRobin -----------------------------
(***************************************************************************)
(* What Lobo's scheduler promises its clients: one thread runs at a time,  *)
(* and the processor is handed round the list of threads in cyclic order,  *)
(* skipping the ones that may not run.  Scheduler.tla is the code that is  *)
(* meant to keep this promise.                                             *)
(***************************************************************************)
EXTENDS Integers, Sequences

CONSTANTS Threads,   \* thread control blocks
          Idle       \* k/idle, the thread the kernel boots on

VARIABLES list,      \* the threads in creation order
          runnable,  \* the threads that may be given the processor
          running    \* the thread that has the processor

vars == <<list, runnable, running>>

Listed == {list[i] : i \in DOMAIN list}

Init ==
    /\ list = <<Idle>>
    /\ runnable = {Idle}
    /\ running = Idle

Admit(t) ==
    /\ t \notin Listed
    /\ list' = Append(list, t)
    /\ runnable' = runnable \union {t}
    /\ UNCHANGED running

Suspend(t) ==
    /\ t \in runnable \ {running}
    /\ runnable' = runnable \ {t}
    /\ UNCHANGED <<list, running>>

\* The thread k places after the running one, wrapping at the end of the list.
Ahead(k) ==
    LET here == CHOOSE i \in DOMAIN list : list[i] = running
    IN  list[((here - 1 + k) % Len(list)) + 1]

\* Hand the processor to the first runnable thread ahead: no runnable thread
\* is ever passed over.
Dispatch ==
    /\ \E k \in 1 .. Len(list) :
          /\ Ahead(k) \in runnable
          /\ \A j \in 1 .. (k - 1) : Ahead(j) \notin runnable
          /\ running' = Ahead(k)
    /\ UNCHANGED <<list, runnable>>

Next ==
    \/ \E t \in Threads : Admit(t) \/ Suspend(t)
    \/ Dispatch

Spec == Init /\ [][Next]_vars
=============================================================================
