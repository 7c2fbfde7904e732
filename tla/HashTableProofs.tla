-------------------------- MODULE HashTableProofs ---------------------------
(***************************************************************************)
(* HashTable for every table size and every range of hashes.  The look-up  *)
(* is shown to be membership by an invariant that adds to it only that an  *)
(* occupied slot holds an inserted hash.                                   *)
(***************************************************************************)
EXTENDS HashTable, TLAPS

\* Every slot in use holds a hash that was inserted.
SlotsInserted ==
  \A i \in Index : g_HashTable[i].occupied =>
                     /\ g_HashTable[i] = Taken(g_HashTable[i].value)
                     /\ g_HashTable[i].value \in inserted

IInv == TypeOK /\ SlotsInserted /\ LookupIsMembership /\ OneSlotEach

\* The wrap-around of two indices that are added.
LEMMA ModWrap ==
  ASSUME NEW N \in Nat \ {0}, NEW a \in 0..N - 1, NEW n \in 0..N - 1
  PROVE  (a + n) % N = IF a + n < N THEN a + n ELSE a + n - N
  OBVIOUS

\* A probe is an index of the table ...
LEMMA ProbeIsIndex ==
  ASSUME NEW h \in Hash, NEW n \in Nat
  PROVE  Probe(h, n) \in Index
  BY HashTableAssumption DEF Probe, HashFunction, Index, Hash

\* ... and the walk's first HASH_TABLE_SIZE probes are all of them.
LEMMA ProbesCover ==
  ASSUME NEW h \in Hash, NEW i \in Index
  PROVE  \E n \in Index : Probe(h, n) = i
<1> DEFINE a == HashFunction(h)
           n == IF a <= i THEN i - a ELSE i - a + HASH_TABLE_SIZE
<1>1. a \in Index
  BY HashTableAssumption DEF HashFunction, Index, Hash
<1>2. n \in Index
  BY <1>1, HashTableAssumption DEF Index
<1>3. (a + n) % HASH_TABLE_SIZE = i
  <2> HIDE DEF a
  <2>1. (a + n) % HASH_TABLE_SIZE
          = IF a + n < HASH_TABLE_SIZE THEN a + n ELSE a + n - HASH_TABLE_SIZE
    <3> HIDE DEF n
    <3> QED BY <1>1, <1>2, ModWrap, HashTableAssumption DEF Index
  <2> QED BY <2>1, <1>1, HashTableAssumption DEF Index
<1> QED BY <1>2, <1>3 DEF Probe

\* The empty table satisfies the invariant.
LEMMA InitInv == Init => IInv
<1> SUFFICES ASSUME Init PROVE IInv
  OBVIOUS
<1>1. TypeOK
  BY DEF Init, TypeOK, Vacant, Slot
<1>2. SlotsInserted
  BY DEF Init, SlotsInserted, Vacant
<1>3. LookupIsMembership
  BY ProbeIsIndex, HashTableAssumption
  DEF Init, LookupIsMembership, IsHashInHashTable, Vacant, Taken, Index
<1>4. OneSlotEach
  BY DEF Init, OneSlotEach, HashEmpty, Vacant
<1> QED BY <1>1, <1>2, <1>3, <1>4 DEF IInv

\* The one step that changes the table without clearing it: hash h goes into
\* the first vacant slot of its walk, which is its n-th probe.  No walk that
\* finds its hash crosses a vacant slot, so the new entry disturbs no look-up.
LEMMA StoreKeepsInv ==
  ASSUME IInv, NEW h \in Hash, NEW n \in Index,
         Passes(h, n), ~g_HashTable[Probe(h, n)].occupied,
         g_HashTable' = [g_HashTable EXCEPT ![Probe(h, n)] = Taken(h)],
         inserted' = inserted \cup {h}
  PROVE  /\ g_HashTable' \in [Index -> Slot]
         /\ SlotsInserted' /\ LookupIsMembership' /\ OneSlotEach'
<1> DEFINE p == Probe(h, n)
<1>1. p \in Index /\ g_HashTable \in [Index -> Slot] /\ n \in Nat
  BY ProbeIsIndex, HashTableAssumption DEF IInv, TypeOK, Index
<1>2. g_HashTable' \in [Index -> Slot]
  BY <1>1 DEF Slot, Taken
<1>3. /\ g_HashTable'[p] = Taken(h)
      /\ \A i \in Index : i # p => g_HashTable'[i] = g_HashTable[i]
  BY <1>1
<1>4. Taken(h).occupied /\ Taken(h).value = h
  BY DEF Taken
<1>5. SlotsInserted'
  <2> SUFFICES ASSUME NEW i \in Index, g_HashTable'[i].occupied
               PROVE  /\ g_HashTable'[i] = Taken(g_HashTable'[i].value)
                      /\ g_HashTable'[i].value \in inserted'
    BY DEF SlotsInserted
  <2>1. CASE i = p
    BY <2>1, <1>3, <1>4
  <2>2. CASE i # p
    BY <2>2, <1>3 DEF IInv, SlotsInserted
  <2> QED BY <2>1, <2>2
<1>6. \A g \in Hash : IsHashInHashTable(g) => IsHashInHashTable(g)'
  <2> SUFFICES ASSUME NEW g \in Hash, NEW k \in Index,
                      Passes(g, k), g_HashTable[Probe(g, k)] = Taken(g)
               PROVE  Passes(g, k)' /\ g_HashTable'[Probe(g, k)] = Taken(g)
    BY DEF IsHashInHashTable
  <2>1. \A m \in 0..k : m \in Nat /\ Probe(g, m) \in Index
    BY ProbeIsIndex, HashTableAssumption DEF Index
  <2>2. \A m \in 0..k : g_HashTable[Probe(g, m)].occupied
    BY <2>1, HashTableAssumption DEF Passes, Taken, Index
  <2>3. \A m \in 0..k : g_HashTable'[Probe(g, m)] = g_HashTable[Probe(g, m)]
    BY <2>1, <2>2, <1>3
  <2> QED BY <2>3, HashTableAssumption DEF Passes, Index
<1>7. IsHashInHashTable(h)'
  <2>1. Passes(h, n)'
    <3> SUFFICES ASSUME NEW m \in 0..n - 1
                 PROVE  /\ g_HashTable'[Probe(h, m)].occupied
                        /\ g_HashTable'[Probe(h, m)].value # h
      BY DEF Passes
    <3>1. Probe(h, m) \in Index
      BY ProbeIsIndex, HashTableAssumption DEF Index
    <3> QED BY <3>1, <1>3 DEF Passes
  <2> QED BY <2>1, <1>3 DEF IsHashInHashTable
<1>8. \A g \in Hash : IsHashInHashTable(g)' => g \in inserted'
  <2> SUFFICES ASSUME NEW g \in Hash, NEW k \in Index,
                      g_HashTable'[Probe(g, k)] = Taken(g)
               PROVE  g \in inserted'
    BY DEF IsHashInHashTable
  <2>1. Probe(g, k) \in Index /\ Taken(g).occupied /\ Taken(g).value = g
    BY ProbeIsIndex, HashTableAssumption DEF Index, Taken
  <2> QED BY <2>1, <1>5 DEF SlotsInserted
<1>9. LookupIsMembership'
  BY <1>6, <1>7, <1>8 DEF IInv, LookupIsMembership
<1>10. h \notin inserted
  <2> SUFFICES ASSUME h \in inserted PROVE FALSE
    OBVIOUS
  <2>1. PICK k \in Index : Passes(h, k) /\ g_HashTable[Probe(h, k)] = Taken(h)
    BY DEF IInv, LookupIsMembership, IsHashInHashTable
  <2>2. CASE k < n
    BY <2>1, <2>2, <1>4, HashTableAssumption DEF Passes, Index
  <2>3. CASE k = n
    BY <2>1, <2>3, <1>4
  <2>4. CASE k > n
    BY <2>1, <2>4, HashTableAssumption DEF Passes, Index
  <2> QED BY <2>2, <2>3, <2>4, HashTableAssumption DEF Index
<1>11. OneSlotEach'
  <2>1. ~HashEmpty' /\ inserted' # {}
    BY <1>1, <1>3, <1>4 DEF HashEmpty
  <2>2. ASSUME NEW i \in Index, NEW j \in Index, g_HashTable'[i].occupied,
               g_HashTable'[i] = g_HashTable'[j]
        PROVE  i = j
    <3>1. ASSUME NEW q \in Index, q # p PROVE g_HashTable[q] # Taken(h)
      BY <3>1, <1>4, <1>10 DEF IInv, SlotsInserted
    <3> QED BY <2>2, <3>1, <1>3, <1>4 DEF IInv, OneSlotEach
  <2> QED BY <2>1, <2>2 DEF OneSlotEach
<1> QED BY <1>2, <1>5, <1>9, <1>11

\* The invariant is inductive: one case per action.
LEMMA StepInv == IInv /\ [Next]_vars => IInv'
<1> SUFFICES ASSUME IInv, [Next]_vars PROVE IInv'
  OBVIOUS
<1> USE DEF IInv
<1>1. CASE BeginArray
  <2>1. TypeOK'
    BY <1>1 DEF BeginArray, TypeOK, Range
  <2> QED BY <1>1, <2>1 DEF BeginArray, SlotsInserted, LookupIsMembership,
          OneSlotEach, IsHashInHashTable, Passes, HashEmpty
<1>2. CASE InsertNext
  <2> DEFINE h == Head(hashes)
  <2>1. h \in Hash /\ Tail(hashes) \in Seq(Hash)
    BY <1>2 DEF InsertNext, TypeOK
  <2>2. CASE Store(h)
    <3>1. PICK n \in Index :
            /\ Passes(h, n) /\ ~g_HashTable[Probe(h, n)].occupied
            /\ g_HashTable' = [g_HashTable EXCEPT ![Probe(h, n)] = Taken(h)]
      BY <2>2 DEF Store
    <3>2. inserted' = inserted \cup {h}
      BY <1>2 DEF InsertNext
    <3>3. /\ g_HashTable' \in [Index -> Slot]
          /\ SlotsInserted' /\ LookupIsMembership' /\ OneSlotEach'
      BY <2>1, <3>1, <3>2, StoreKeepsInv
    <3>4. TypeOK'
      BY <1>2, <2>1, <3>3 DEF InsertNext, TypeOK
    <3> QED BY <3>3, <3>4
  <2>3. CASE IsHashInHashTable(h) /\ UNCHANGED g_HashTable
    <3>1. inserted' = inserted
      BY <1>2, <2>1, <2>3 DEF InsertNext, LookupIsMembership
    <3>2. TypeOK'
      BY <1>2, <2>1, <2>3, <3>1 DEF InsertNext, TypeOK
    <3> QED BY <2>3, <3>1, <3>2 DEF SlotsInserted, LookupIsMembership,
            OneSlotEach, IsHashInHashTable, Passes, HashEmpty
  <2> QED BY <1>2, <2>2, <2>3 DEF InsertNext
<1>3. CASE InsertFails
  <2>1. TypeOK'
    BY <1>3 DEF InsertFails, Refuse, TypeOK
  <2> QED BY <1>3, <2>1 DEF InsertFails, Refuse, SlotsInserted, LookupIsMembership,
          OneSlotEach, IsHashInHashTable, Passes, HashEmpty
<1>4. CASE ClearHashTable
  <2>1. TypeOK'
    BY <1>4 DEF ClearHashTable, TypeOK, Vacant, Slot
  <2>2. SlotsInserted'
    BY <1>4 DEF ClearHashTable, SlotsInserted, Vacant
  <2>3. LookupIsMembership'
    <3>1. ASSUME NEW h \in Hash, NEW n \in Index
          PROVE  g_HashTable'[Probe(h, n)] # Taken(h)
      <4>1. Probe(h, n) \in Index
        BY ProbeIsIndex, HashTableAssumption DEF Index
      <4> QED BY <1>4, <4>1 DEF ClearHashTable, Vacant, Taken
    <3>2. inserted' = {}
      BY <1>4 DEF ClearHashTable
    <3> QED BY <3>1, <3>2 DEF LookupIsMembership, IsHashInHashTable
  <2>4. OneSlotEach'
    BY <1>4 DEF ClearHashTable, OneSlotEach, HashEmpty, Vacant
  <2> QED BY <2>1, <2>2, <2>3, <2>4
<1>5. CASE UNCHANGED vars
  BY <1>5 DEF vars, TypeOK, SlotsInserted, LookupIsMembership, OneSlotEach,
     IsHashInHashTable, Passes, HashEmpty
<1> QED BY <1>1, <1>2, <1>3, <1>4, <1>5 DEF Next

\* The strengthened invariant holds always.
THEOREM Invariance == Spec => []IInv
  BY InitInv, StepInv, PTL DEF Spec

\* Type correctness of HashTable for every size.
THEOREM TypeCorrect == Spec => []TypeOK
  BY Invariance, PTL DEF IInv

\* IsHashInHashTable answers membership, whatever collides with whatever.
THEOREM LookupCorrect == Spec => []LookupIsMembership
  BY Invariance, PTL DEF IInv

\* HashEmpty is right, and a duplicate never takes a second slot.
THEOREM SlotsUnique == Spec => []OneSlotEach
  BY Invariance, PTL DEF IInv

\* What is left to insert is of the array passed in, and while there is some,
\* the table has the others.
ArrayLeft == /\ Range(hashes) \subseteq array
             /\ hashes # <<>> => array \subseteq inserted \cup Range(hashes)

\* The elements of a sequence are its head and the elements of its tail.
LEMMA RangeOfTail ==
  ASSUME NEW s \in Seq(Hash), s # <<>>
  PROVE  Range(s) = {Head(s)} \cup Range(Tail(s))
<1>1. Len(s) \in Nat \ {0} /\ DOMAIN s = 1..Len(s) /\ Head(s) = s[1]
  OBVIOUS
<1>2. /\ DOMAIN Tail(s) = 1..Len(s) - 1
      /\ \A i \in 1..Len(s) - 1 : Tail(s)[i] = s[i + 1]
  BY <1>1
<1>3. \A i \in 1..Len(s) : i = 1 \/ (i - 1 \in 1..Len(s) - 1 /\ s[i] = Tail(s)[i - 1])
  BY <1>1, <1>2
<1>4. \A i \in 1..Len(s) - 1 : i + 1 \in 1..Len(s)
  BY <1>1
<1>5. Range(s) \subseteq {Head(s)} \cup Range(Tail(s))
  <2> SUFFICES ASSUME NEW i \in 1..Len(s)
               PROVE  s[i] = Head(s) \/ s[i] \in Range(Tail(s))
    BY <1>1 DEF Range
  <2>1. CASE i = 1
    BY <1>1, <2>1
  <2>2. CASE i # 1
    BY <1>2, <1>3, <2>2 DEF Range
  <2> QED BY <2>1, <2>2
<1>6. {Head(s)} \cup Range(Tail(s)) \subseteq Range(s)
  BY <1>1, <1>2, <1>4 DEF Range
<1> QED BY <1>5, <1>6

\* A walk that passes every probe has not met its hash and, by ProbesCover, has
\* seen every slot.
LEMMA RefusedWhenFull ==
  ASSUME IInv, NEW h \in Hash, Passes(h, HASH_TABLE_SIZE)
  PROVE  h \notin inserted /\ \A i \in Index : g_HashTable[i].occupied
<1>1. ~IsHashInHashTable(h)
  BY HashTableAssumption DEF IsHashInHashTable, Passes, Taken, Index
<1>2. ASSUME NEW i \in Index PROVE g_HashTable[i].occupied
  <2>1. PICK n \in Index : Probe(h, n) = i
    BY ProbesCover
  <2> QED BY <2>1 DEF Passes, Index
<1> QED BY <1>1, <1>2 DEF IInv, LookupIsMembership

\* ArrayLeft is inductive beside the invariant.
LEMMA ArrayStep == IInv /\ ArrayLeft /\ [Next]_vars => ArrayLeft'
<1> SUFFICES ASSUME IInv, ArrayLeft, [Next]_vars PROVE ArrayLeft'
  OBVIOUS
<1> USE DEF ArrayLeft
<1>1. CASE BeginArray
  BY <1>1 DEF BeginArray
<1>2. CASE InsertNext
  <2>1. Range(hashes) = {Head(hashes)} \cup Range(Tail(hashes))
    BY <1>2, RangeOfTail DEF InsertNext, IInv, TypeOK
  <2> QED BY <1>2, <2>1 DEF InsertNext
<1>3. CASE InsertFails
  <2>1. UNCHANGED array /\ UNCHANGED inserted /\ hashes' = <<>>
    BY <1>3 DEF InsertFails, Refuse
  <2> QED BY <2>1 DEF Range
<1>4. CASE ClearHashTable
  BY <1>4 DEF ClearHashTable
<1>5. CASE UNCHANGED vars
  BY <1>5 DEF vars
<1> QED BY <1>1, <1>2, <1>3, <1>4, <1>5 DEF Next

\* The answer of InsertHashArrayInHashTable tells whether the whole array is in
\* the table, and a refusal means that the table is full.
THEOREM RefusalCorrect == Spec => ResultTellsInsertion
<1> DEFINE Ends == hashes # <<>> /\ hashes' = <<>>
           Tells == /\ result' \in {"TRUE", "FALSE"}
                    /\ result' = "TRUE" <=> array \subseteq inserted'
                    /\ result' = "FALSE" =>
                         /\ Head(hashes) \notin inserted'
                         /\ \A i \in Index : g_HashTable[i].occupied
<1>1. Init => ArrayLeft
  BY DEF Init, ArrayLeft, Range
<1>2. IInv /\ ArrayLeft /\ [Next]_vars => [Ends => Tells]_vars
  <2> SUFFICES ASSUME IInv, ArrayLeft, Next, hashes # <<>>, hashes' = <<>>
               PROVE  Tells
    BY DEF vars
  <2>1. /\ Head(hashes) \in Hash
        /\ Range(hashes) = {Head(hashes)} \cup Range(Tail(hashes))
    BY RangeOfTail DEF IInv, TypeOK
  <2>2. CASE InsertNext
    <3>1. Tail(hashes) = <<>> /\ result' = "TRUE"
      BY <2>2 DEF InsertNext
    <3>2. Range(hashes) = {Head(hashes)}
      BY <2>1, <3>1 DEF Range
    <3> QED BY <2>2, <3>1, <3>2 DEF InsertNext, ArrayLeft
  <2>3. CASE InsertFails
    <3>1. Head(hashes) \notin inserted /\ \A i \in Index : g_HashTable[i].occupied
      BY <2>1, <2>3, RefusedWhenFull DEF InsertFails
    <3> QED BY <2>1, <2>3, <3>1 DEF InsertFails, Refuse, ArrayLeft
  <2>4. ~BeginArray /\ ~ClearHashTable
    BY DEF BeginArray, ClearHashTable
  <2> QED BY <2>2, <2>3, <2>4 DEF Next
<1>3. Spec => [][Ends => Tells]_vars
  BY <1>1, <1>2, InitInv, StepInv, ArrayStep, PTL DEF Spec
<1> QED BY <1>3, PTL DEF ResultTellsInsertion
=============================================================================
