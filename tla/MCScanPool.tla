----------------------------- MODULE MCScanPool -----------------------------
(***************************************************************************)
(* A forest for ScanPool: drive c has a directory s, a file of the first   *)
(* phase and a reparse point; s has a file of the second phase and a       *)
(* directory t; t has a file of the first phase; drive d has a file        *)
(* without extension.                                                      *)
(***************************************************************************)
EXTENDS ScanPool

Dirs       == {"c", "d", "s", "t"}
TwoDrives  == <<"c", "d">>
HashLists  == [p \in {0, 1} |-> IF p = 0 THEN {"pdf"} ELSE {"png"}]
Tree == [d \in Dirs |->
          CASE d = "c" -> <<Sub("s"), File("pdf"), Skipped>>
            [] d = "d" -> <<File("none")>>
            [] d = "s" -> <<File("png"), Sub("t")>>
            [] d = "t" -> <<File("pdf")>>]

AllFaults      == FaultKinds
OnlyQueueDrive == {"queueDrive"}
=============================================================================
