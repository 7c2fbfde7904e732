----------------------------- MODULE HashTable ------------------------------
(***************************************************************************)
(* The open-addressing table of ThreadPoolImplementFileEnumeration.cpp:    *)
(* linear probing from HashFunction(hash), occupancy kept apart from the   *)
(* value, at most HASH_TABLE_SIZE probes.  The calls come from wmain, one  *)
(* at a time; whether a look-up may run beside them is ScanPool's matter.  *)
(***************************************************************************)
EXTENDS Naturals, Sequences, Functions

CONSTANTS HASH_TABLE_SIZE,
          HashLimit,        \* hashes are 0..HashLimit-1; 2^32 in the code
          MaxArray          \* the longest array passed in

ASSUME HashTableAssumption == /\ HASH_TABLE_SIZE \in Nat \ {0}
                              /\ HashLimit \in Nat
                              /\ MaxArray \in Nat

Hash  == 0..HashLimit - 1
Index == 0..HASH_TABLE_SIZE - 1

\* A slot is a value and a flag; an unoccupied one is all zero.
Slot     == [occupied : BOOLEAN, value : Hash \cup {0}]

\* Mutant: a value that is no hash marks the slot as well.
VacantMark == [occupied |-> FALSE, value |-> HashLimit]
Vacant   == [occupied |-> FALSE, value |-> 0]
Taken(h) == [occupied |-> TRUE,  value |-> h]

VARIABLES g_HashTable,
          hashes,      \* what InsertHashArrayInHashTable has yet to insert
          result,      \* its result: "TRUE", "FALSE", or "none" on its way
          inserted,    \* history: the hashes InsertToHashTable has accepted
          array        \* history: the hashes of the array last passed in

vars == <<g_HashTable, hashes, result, inserted, array>>

Init == /\ g_HashTable = [i \in Index |-> Vacant]
        /\ hashes = <<>> /\ result = "FALSE" /\ inserted = {} /\ array = {}

HashFunction(h) == h % HASH_TABLE_SIZE

\* The index of the n-th probe for h.  Mutant: it stays at the last slot.
ProbeNoWrap(h, n) == IF HashFunction(h) + n < HASH_TABLE_SIZE
                     THEN HashFunction(h) + n ELSE HASH_TABLE_SIZE - 1
Probe(h, n) == (HashFunction(h) + n) % HASH_TABLE_SIZE

\* The walk for h passes its first n probes: other hashes hold them.
Passes(h, n) ==
  \A m \in 0..n - 1 : /\ g_HashTable[Probe(h, m)].occupied
                      /\ g_HashTable[Probe(h, m)].value # h

\* IsHashInHashTable.  Mutant: occupancy is not looked at.
IsValueInHashTable(h) == \E n \in Index : g_HashTable[Probe(h, n)].value = h
IsHashInHashTable(h) ==
  \E n \in Index : /\ Passes(h, n)
                   /\ g_HashTable[Probe(h, n)] = Taken(h)

\* Mutant: the last slot is left out.
HashEmptyButLast == \A i \in 0..HASH_TABLE_SIZE - 2 : ~g_HashTable[i].occupied
HashEmpty == \A i \in Index : ~g_HashTable[i].occupied
-----------------------------------------------------------------------------
\* InsertToHashTable(h): it takes the first vacant slot of the walk.  Mutant:
\* any vacant slot.
StoreAnywhere(h) ==
  \E n \in Index :
    /\ ~g_HashTable[Probe(h, n)].occupied
    /\ g_HashTable' = [g_HashTable EXCEPT ![Probe(h, n)] = Taken(h)]
Store(h) ==
  \E n \in Index :
    /\ Passes(h, n) /\ ~g_HashTable[Probe(h, n)].occupied
    /\ g_HashTable' = [g_HashTable EXCEPT ![Probe(h, n)] = Taken(h)]

\* A call of InsertHashArrayInHashTable; an empty array is refused.
BeginArray ==
  /\ hashes = <<>>
  /\ \E k \in 0..MaxArray : hashes' \in [1..k -> Hash]
  /\ result' = IF hashes' = <<>> THEN "FALSE" ELSE "none"
  /\ array' = Range(hashes')
  /\ UNCHANGED <<g_HashTable, inserted>>

\* The next hash of the array is stored, or it is there already ...
InsertNext ==
  /\ hashes # <<>>
  /\ \/ Store(Head(hashes))
     \/ IsHashInHashTable(Head(hashes)) /\ UNCHANGED g_HashTable
  /\ inserted' = inserted \cup {Head(hashes)}
  /\ hashes' = Tail(hashes)
  /\ result' = IF Tail(hashes) = <<>> THEN "TRUE" ELSE "none"
  /\ UNCHANGED array

\* ... or the walk ends where it began, and the rest of the array is dropped.
\* Mutant: it ends one probe short.
Refuse ==
  /\ hashes' = <<>> /\ result' = "FALSE"
  /\ UNCHANGED <<g_HashTable, inserted, array>>
InsertFailsEarly ==
  hashes # <<>> /\ Passes(Head(hashes), HASH_TABLE_SIZE - 1) /\ Refuse
InsertFails ==
  hashes # <<>> /\ Passes(Head(hashes), HASH_TABLE_SIZE) /\ Refuse

ClearHashTable ==
  /\ hashes = <<>>
  /\ g_HashTable' = [i \in Index |-> Vacant]
  /\ inserted' = {}
  /\ UNCHANGED <<hashes, result, array>>

Next == BeginArray \/ InsertNext \/ InsertFails \/ ClearHashTable

Spec == Init /\ [][Next]_vars
-----------------------------------------------------------------------------
(* Properties *)

\* Every variable stays in its set.
TypeOK == /\ g_HashTable \in [Index -> Slot]
          /\ hashes \in Seq(Hash)
          /\ result \in {"none", "TRUE", "FALSE"}
          /\ inserted \subseteq Hash
          /\ array \subseteq Hash

\* A look-up finds a hash exactly if it was inserted since the last clear:
\* collisions, wrap-around, a full table and the hash 0 included.
LookupIsMembership == \A h \in Hash : IsHashInHashTable(h) <=> h \in inserted

\* HashEmpty, which wmain takes for a failed initialisation, says that nothing
\* has been inserted, and no hash takes two slots.
OneSlotEach ==
  /\ HashEmpty <=> inserted = {}
  /\ \A i, j \in Index : g_HashTable[i].occupied /\ g_HashTable[i] = g_HashTable[j]
                           => i = j

\* "Returns FALSE only when the table is full or the input is invalid": the
\* step that ends a call answers TRUE exactly if every hash of the array is in
\* the table now, whichever were there before, and FALSE only if no slot is left
\* for the one it stops at, which is not in the table.
ResultTellsInsertion ==
  [][hashes # <<>> /\ hashes' = <<>> =>
       /\ result' \in {"TRUE", "FALSE"}
       /\ result' = "TRUE" <=> array \subseteq inserted'
       /\ result' = "FALSE" => /\ Head(hashes) \notin inserted'
                              /\ \A i \in Index : g_HashTable[i].occupied]_vars
=============================================================================
