---------------------------- MODULE MCLifeCycle -----------------------------
(***************************************************************************)
(* LifeCycle with all faults, two increments of each worker, three         *)
(* processors, three tasks in the pool, a few ticks and two clicks.        *)
(***************************************************************************)
EXTENDS LifeCycle

AllFaults == FaultKinds
Processors == 0..2
=============================================================================
