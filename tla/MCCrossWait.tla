---------------------------- MODULE MCCrossWait -----------------------------
(* CrossWait with everything that may go wrong. *)
EXTENDS CrossWait

AllFaults == FaultKinds
=============================================================================
