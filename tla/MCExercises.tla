---------------------------- MODULE MCExercises -----------------------------
(***************************************************************************)
(* Exercises with two rounds of each thread, a table of three slots with   *)
(* two targets and two files of any hash up to 4, and a chain of three     *)
(* directories with a file in each and a link back, of which the stack     *)
(* holds two.                                                              *)
(***************************************************************************)
EXTENDS Exercises

CallFaults == {"call"}

AnyTargets == {<<a, b>> : a \in 1..4, b \in 1..4}
AnyFiles   == {<<f, g>> : f \in 0..4, g \in 0..4}

Chain == {"top", "middle", "bottom"}
AFile  == [kind |-> "file"]
ALink  == [kind |-> "link"]
Below(d) == [kind |-> "directory", directory |-> d]
ChainContents ==
  [top    |-> <<AFile, Below("middle"), ALink>>,
   middle |-> <<Below("bottom"), AFile>>,
   bottom |-> <<AFile>>]
ChainLevel == [top |-> 0, middle |-> 1, bottom |-> 2]
ChainDepths == 0..2
=============================================================================
