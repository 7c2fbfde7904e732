-------------------------- MODULE MCBoundedBuffer ---------------------------
(* An instance of BoundedBuffer for TLC. *)
EXTENDS BoundedBuffer

AllFaults == FaultKinds
=============================================================================
