----------------------------- MODULE MCIocpCopy -----------------------------
(* Instances of IocpCopy for TLC. *)
EXTENDS IocpCopy

AllFaults  == FaultKinds
OnlyOutrun == {"outrun"}
=============================================================================
