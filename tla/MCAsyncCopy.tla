---------------------------- MODULE MCAsyncCopy -----------------------------
(* Instances of AsyncCopy for TLC. *)
EXTENDS AsyncCopy

AllFaults      == FaultKinds
OnlySlowRead   == {"slowRead"}
OnlyWriteFails == {"write"}
=============================================================================
