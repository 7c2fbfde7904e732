--------------------------- MODULE SentinelTable ----------------------------
(***************************************************************************)
(* HashTableCalculation.cpp: the hashes of the target extensions are put   *)
(* into a table with open addressing, and those of the files that are      *)
(* found are looked up in it.  0 marks a vacant slot of the table, and a   *)
(* file that has no extension.                                             *)
(*                                                                         *)
(* Hashes are numbers, and the directories of all drives are the           *)
(* sequence of their files.  The walks in the table have no bound: they    *)
(* end because a slot is vacant.                                           *)
(***************************************************************************)
EXTENDS GatedProcess, Sequences

CONSTANTS
  HASH_TABLE_SIZE,
  TargetLists,   \* uTargetExtensions: the sequences of hashes it may be
  FileLists      \* the sequences of the hashes of all files there may be

Slot == 0..HASH_TABLE_SIZE - 1
EmptySlot == 0
FileHash == Nat           \* what FetchCurrentFileHash returns
TargetHash == FileHash \ {EmptySlot}

\* g_HashTable; the targets and the files, and the next one of each; where the
\* walk is; the two counts.
ScanMemory(targets, files) ==
  [table |-> [i \in Slot |-> EmptySlot], targets |-> targets, files |-> files,
   next |-> 1, index |-> 0, total |-> 0, matching |-> 0]

Inputs == {ScanMemory(targets, files) : targets \in TargetLists, files \in FileLists}

\* No extension that is looked for has a hash that marks a vacant slot.
ValidInputs ==
  /\ HASH_TABLE_SIZE \in Nat \ {0}
  /\ TargetLists \subseteq Seq(TargetHash) /\ FileLists \subseteq Seq(FileHash)

HashFunction(hash) == hash % HASH_TABLE_SIZE

\* One step of a walk.  Mutant: it does not wrap around.
NoWrap(i) == IF i + 1 = HASH_TABLE_SIZE THEN i ELSE i + 1
Advance(i) == (i + 1) % HASH_TABLE_SIZE
Current == mem.table[mem.index]

\* InsertToHashTable: FALSE ends the program.
Insert ==
  /\ mem.next <= Len(mem.targets)
  /\ LET hash == mem.targets[mem.next]
     IN  \/ Store(Main, "create", [mem EXCEPT !.index = HashFunction(hash)], "probe")
         \/ /\ Current \notin {EmptySlot, hash}
            /\ Store(Main, "probe", [mem EXCEPT !.index = Advance(@)], "probe")
         \/ Current = hash /\ EndProcess(Main, "probe", "failed")
         \/ /\ Current = EmptySlot
            /\ Store(Main, "probe", [mem EXCEPT !.table[mem.index] = hash,
                                                !.next = @ + 1], "create")

\* EnumerateDirectory, for each file: counted, and looked up unless its hash is 0.
NextFile ==
  /\ mem.next <= Len(mem.files)
  /\ LET hash == mem.files[mem.next]
     IN  \/ /\ hash = EmptySlot
            /\ Store(Main, "scan", [mem EXCEPT !.total = @ + 1, !.next = @ + 1], "scan")
         \/ /\ hash # EmptySlot
            /\ Store(Main, "scan", [mem EXCEPT !.total = @ + 1,
                                               !.index = HashFunction(hash)], "walk")

\* The walk gives up at a vacant slot.
IsHashInHashTable ==
  /\ mem.next <= Len(mem.files)
  /\ LET hash == mem.files[mem.next]
     IN  \/ /\ Current = hash
            /\ Store(Main, "walk", [mem EXCEPT !.matching = @ + 1, !.next = @ + 1], "scan")
         \/ /\ Current = EmptySlot
            /\ Store(Main, "walk", [mem EXCEPT !.next = @ + 1], "scan")
         \/ /\ Current \notin {EmptySlot, hash}
            /\ Store(Main, "walk", [mem EXCEPT !.index = Advance(@)], "walk")

\* GetLogicalDrives may fail, and a drive or a directory may not be read.
HashScan(t) ==
  /\ t = Main
  /\ \/ Insert
     \/ /\ mem.next > Len(mem.targets)
        /\ Store(Main, "create", [mem EXCEPT !.next = 1], "scan")
     \/ NextFile
     \/ IsHashInHashTable
     \/ mem.next > Len(mem.files) /\ Return("scan", TRUE)
     \/ mem.next > Len(mem.targets) /\ CheckFails(Main, {"create"})
=============================================================================
