---------------------------- MODULE MCScheduler ----------------------------
(* Instances of Scheduler for TLC. *)
EXTENDS Scheduler, TLC

CONSTANTS a, b, c

OrdinaryThreads == {Idle, a, b, c}
SmallThreads == {Idle, a, b}
=============================================================================
