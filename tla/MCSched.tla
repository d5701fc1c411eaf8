------------------------------- MODULE MCSched -------------------------------
(***************************************************************************)
(* Sched for TLC.  As in system_thread_init, main has a longer time slice  *)
(* (31 ticks there, MCTicks here) than idle (10 there, 0 here: it is       *)
(* switched at its first tick), and the other threads have idle's.         *)
(***************************************************************************)
EXTENDS Sched, TLC

CONSTANT MCTicks

MCPriority == [t \in Threads |-> IF t = Main THEN MCTicks ELSE 0]

\* No definition tells one lock from another.
LockSymmetry == Permutations(Locks)
=============================================================================
