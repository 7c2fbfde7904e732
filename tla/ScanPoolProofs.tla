--------------------------- MODULE ScanPoolProofs ---------------------------
(***************************************************************************)
(* ScanPool for every forest of directories, every list of drives and any  *)
(* number of threads: g_ActiveTasks counts the work items, each callback   *)
(* sees the table of its phase, and the recap counts every entry once.     *)
(***************************************************************************)
EXTENDS ScanPool, FiniteSetTheorems, TLAPS

\* The items about to queue a subdirectory.
Counted == {i \in Item : stage[i] = "counted"}

\* The count and what it counts; the sets stay finite whatever Dir is.
CountInv ==
  /\ IsFiniteSet(Alive)
  /\ g_ActiveTasks = Cardinality(Alive) + Cardinality(Counted)
                       + (IF mpc = "submit" THEN 1 ELSE 0)

\* A phase has its own table, and begins and ends with an empty pool.
TableInv ==
  /\ mpc \in {"destroy", "recap"} => phase = 1
  /\ mpc = "recap" => Alive = {}
  /\ mpc = "submit" => drive <= Len(Drives)
  /\ "queueDrive" \notin faulted =>
       /\ mpc \in {"drives", "submit", "close"} =>
            g_HashTable = HashArray[phase] /\ \A i \in Alive : i[2] = phase
       /\ mpc \in {"clear", "insert", "destroy", "recap"} => Alive = {}
       /\ mpc \in {"drives", "submit"} /\ drive = 1 => Alive = {}

\* The k-th drive has been queued in phase p.
DriveQueued(k, p) ==
  p < phase \/ (p = phase /\ mpc \notin {"clear", "insert"} /\ k < drive)

\* The callback of phase p for the directory of e has gone on from e.
Passed(e, p) == e[2] < at[<<e[1], p>>]

\* A directory is known when it has been queued, or was lost.
Known(i) == stage[i] # "none" \/ i \in lost

\* Nothing is known of a phase that has not begun to queue.
FreshInv ==
  \A i \in Item :
    i[2] > phase \/ (i[2] = phase /\ mpc \in {"clear", "insert"}) => ~Known(i)

\* A directory becomes known once: as a drive, or by the entry it has in
\* another one.
OriginInv ==
  \A i \in Item : Known(i) =>
    \/ \E k \in 1..Len(Drives) : Drives[k] = i[1] /\ DriveQueued(k, i[2])
    \/ \E e \in EntryId : EntryAt(e) = Sub(i[1]) /\ Passed(e, i[2])

\* No drive and no subdirectory is forgotten.
CoverInv ==
  /\ faulted \cap {"queueDrive", "driveMask"} = {} =>
       /\ \A k \in 1..Len(Drives), p \in Phase :
            DriveQueued(k, p) => stage[<<Drives[k], p>>] # "none"
       /\ mpc \in {"close", "destroy", "recap"} => drive = Len(Drives) + 1
  /\ \A e \in EntryId, p \in Phase :
       EntryAt(e).kind = "dir" /\ Passed(e, p) => Known(<<EntryAt(e).dir, p>>)

\* Where the listing of an item is.
ListingInv ==
  \A i \in Item :
    /\ at[i] <= Len(Listing[i[1]]) + 1
    /\ stage[i] \in {"none", "queued"} \/ i \in lost => at[i] = 1
    /\ stage[i] = "counted" => HasEntry(i) /\ Entry(i).kind = "dir"
    /\ stage[i] \in {"cleanup", "done"} /\ i \notin lost /\ i \notin cut =>
         at[i] = Len(Listing[i[1]]) + 1
    /\ i \in lost => stage[i] \in {"none", "cleanup", "done"}

\* The files that phase p has gone past, and the directories it has begun.
Seen(p, H) == {e \in EntryId : /\ EntryAt(e).kind = "file" /\ EntryAt(e).hash \in H
                               /\ Passed(e, p)}
Begun(p)   == {d \in Dir : stage[<<d, p>>] \notin {"none", "queued"}}
LostIn(p)  == {i \in lost : i[2] = p}

Hashes == HashArray[0] \cup HashArray[1]

\* The counters of a phase, at every point of it.
CountersInv ==
  \A p \in Phase :
    /\ IsFiniteSet(Seen(p, Hashes \cup {NoExtension}))
    /\ g_Counters[p].files_seen = Cardinality(Seen(p, Hashes \cup {NoExtension}))
    /\ g_Counters[p].files_with_extension = Cardinality(Seen(p, Hashes))
    /\ "queueDrive" \notin faulted =>
         g_Counters[p].files_matched = Cardinality(Seen(p, HashArray[p]))
    /\ IsFiniteSet(Begun(p))
    /\ g_Counters[p].directories_seen = Cardinality(Begun(p))
    /\ IsFiniteSet(LostIn(p))
    /\ g_Counters[p].directories_failed = Cardinality(LostIn(p))

IInv == /\ TypeOK /\ CountInv /\ TableInv /\ FreshInv /\ OriginInv /\ CoverInv
        /\ ListingInv /\ CountersInv
-----------------------------------------------------------------------------
(* Items and entries *)

EntrySet == {Skipped} \cup {Sub(d) : d \in Dir} \cup {File(h) : h \in Hashes \cup {NoExtension}}

\* A work item is a directory and a phase.
LEMMA ItemParts ==
  ASSUME NEW i \in Item
  PROVE  i[1] \in Dir /\ i[2] \in Phase /\ i = <<i[1], i[2]>>
BY DEF Item

\* A listing is a sequence of entries.
LEMMA ListingType ==
  ASSUME NEW d \in Dir
  PROVE  /\ Listing[d] \in Seq(EntrySet) /\ Len(Listing[d]) \in Nat
         /\ \A k \in 1..Len(Listing[d]) : Listing[d][k] \in EntrySet
<1>1. Listing \in [Dir -> Seq(EntrySet)]
  BY ScanPoolAssumption DEF EntrySet, Hashes
<1> QED BY <1>1

\* An entry is named by its directory and its index.
LEMMA EntryParts ==
  /\ \A e \in EntryId : /\ e[1] \in Dir /\ e[2] \in 1..Len(Listing[e[1]])
                        /\ e = <<e[1], e[2]>> /\ EntryAt(e) \in EntrySet
  /\ \A d \in Dir : \A k \in 1..Len(Listing[d]) : <<d, k>> \in EntryId
<1>1. ASSUME NEW e \in EntryId
      PROVE  /\ e[1] \in Dir /\ e[2] \in 1..Len(Listing[e[1]])
             /\ e = <<e[1], e[2]>> /\ EntryAt(e) \in EntrySet
  <2>1. PICK d \in Dir : \E k \in 1..Len(Listing[d]) : e = <<d, k>>
    BY DEF EntryId
  <2>2. PICK k \in 1..Len(Listing[d]) : e = <<d, k>>
    BY <2>1
  <2>3. e[1] = d /\ e[2] = k
    BY <2>2
  <2> QED BY <2>2, <2>3, ListingType DEF EntryAt
<1>2. ASSUME NEW d \in Dir, NEW k \in 1..Len(Listing[d])
      PROVE  <<d, k>> \in EntryId
  BY DEF EntryId
<1> QED BY <1>1, <1>2

\* Which fields an entry has.
LEMMA EntryKinds ==
  ASSUME NEW x \in EntrySet
  PROVE  /\ x.kind = "dir" => x.dir \in Dir /\ x = Sub(x.dir)
         /\ x.kind = "file" => x.hash \in Hashes \cup {NoExtension}
         /\ x.kind \in {"dir", "file", "skipped"}
BY DEF EntrySet, Sub, File, Skipped

\* The next entry of an item.
LEMMA NextEntryId ==
  ASSUME TypeOK, NEW i \in Item, HasEntry(i)
  PROVE  /\ <<i[1], at[i]>> \in EntryId /\ EntryAt(<<i[1], at[i]>>) = Entry(i)
         /\ Entry(i) \in EntrySet
         /\ Entry(i).kind = "dir" => <<Entry(i).dir, i[2]>> \in Item
<1>1. i[1] \in Dir /\ i[2] \in Phase /\ at[i] \in Nat \ {0}
  BY ItemParts DEF TypeOK
<1>2. at[i] \in 1..Len(Listing[i[1]])
  BY <1>1, ListingType DEF HasEntry
<1>3. Entry(i) \in EntrySet
  BY <1>1, <1>2, ListingType DEF Entry
<1>4. <<i[1], at[i]>> \in EntryId
  BY <1>1, <1>2, EntryParts
<1> QED BY <1>1, <1>3, <1>4, EntryKinds DEF EntryAt, Entry, Item

\* What a callback is about to queue is not known yet.
LEMMA SubdirectoryIsNew ==
  ASSUME IInv, NEW i \in Item, HasEntry(i), Entry(i).kind = "dir"
  PROVE  ~Known(<<Entry(i).dir, i[2]>>)
<1> DEFINE s == <<Entry(i).dir, i[2]>>
           f == <<i[1], at[i]>>
<1>0. TypeOK /\ OriginInv
  BY DEF IInv
<1>1. /\ f \in EntryId /\ EntryAt(f) = Entry(i) /\ s \in Item
      /\ Entry(i) \in EntrySet
  BY <1>0, NextEntryId
<1>2. EntryAt(f) = Sub(s[1]) /\ EntryAt(f).kind = "dir" /\ s[2] = i[2]
  BY <1>1, EntryKinds
<1>3. ~Passed(f, s[2])
  <2>1. at[<<i[1], i[2]>>] = at[i] /\ at[i] \in Nat
    BY <1>0, ItemParts DEF TypeOK
  <2> QED BY <2>1 DEF Passed
<1> HIDE DEF f, s
<1>4. ASSUME NEW e \in EntryId, EntryAt(e) = Sub(s[1]), Passed(e, s[2])
      PROVE  FALSE
  <2>1. e = f
    BY <1>1, <1>2, <1>4, ScanPoolAssumption
  <2> QED BY <1>3, <1>4, <2>1
<1>5. \A k \in 1..Len(Drives) : Drives[k] # s[1]
  BY <1>1, <1>2, ScanPoolAssumption
<1>6. ~Known(s)
  BY <1>0, <1>1, <1>4, <1>5 DEF OriginInv
<1> QED BY <1>6 DEF s

\* A drive is queued once in a phase.
LEMMA DriveIsNew ==
  ASSUME IInv, mpc = "submit"
  PROVE  <<Drives[drive], phase>> \in Item /\ ~Known(<<Drives[drive], phase>>)
<1> DEFINE s == <<Drives[drive], phase>>
<1>0. TypeOK /\ OriginInv /\ TableInv
  BY DEF IInv
<1>1. drive \in 1..Len(Drives) /\ Drives[drive] \in Dir /\ phase \in Phase
  BY <1>0, ScanPoolAssumption DEF TypeOK, TableInv
<1>2. s \in Item /\ s[1] = Drives[drive] /\ s[2] = phase
  BY <1>1 DEF Item
<1> HIDE DEF s
<1>3. ASSUME NEW k \in 1..Len(Drives), Drives[k] = s[1], DriveQueued(k, s[2])
      PROVE  FALSE
  <2>1. k = drive
    BY <1>1, <1>2, <1>3, ScanPoolAssumption
  <2> QED BY <1>1, <1>2, <1>3, <2>1 DEF DriveQueued, Phase
<1>4. \A e \in EntryId : EntryAt(e) # Sub(s[1])
  BY <1>1, <1>2, ScanPoolAssumption
<1>5. s \in Item /\ ~Known(s)
  BY <1>0, <1>2, <1>3, <1>4 DEF OriginInv
<1> QED BY <1>5 DEF s
-----------------------------------------------------------------------------
(* The types *)

Counters == [files_seen : Nat, files_with_extension : Nat, files_matched : Nat,
             directories_seen : Nat, directories_failed : Nat]
Stage == {"none", "queued", "listing", "counted", "cleanup", "done"}

\* What the steps of a callback add to the counters of its phase p; those of
\* the other phase stay as they are.
LEMMA BeginCounts ==
  ASSUME g_Counters \in [Phase -> Counters], NEW p \in Phase,
         g_Counters' = [g_Counters EXCEPT ![p].directories_seen = @ + 1]
  PROVE  /\ g_Counters' \in [Phase -> Counters]
         /\ g_Counters'[p].directories_seen = g_Counters[p].directories_seen + 1
         /\ g_Counters'[p].directories_failed = g_Counters[p].directories_failed
         /\ g_Counters'[p].files_seen = g_Counters[p].files_seen
         /\ g_Counters'[p].files_with_extension = g_Counters[p].files_with_extension
         /\ g_Counters'[p].files_matched = g_Counters[p].files_matched
         /\ \A q \in Phase : q # p => g_Counters'[q] = g_Counters[q]
BY DEF Counters

\* A callback whose directory cannot be listed counts it as seen and as failed.
LEMMA BeginFailureCounts ==
  ASSUME g_Counters \in [Phase -> Counters], NEW p \in Phase,
         g_Counters' = [g_Counters EXCEPT ![p].directories_seen = @ + 1,
                                          ![p].directories_failed = @ + 1]
  PROVE  /\ g_Counters' \in [Phase -> Counters]
         /\ g_Counters'[p].directories_seen = g_Counters[p].directories_seen + 1
         /\ g_Counters'[p].directories_failed = g_Counters[p].directories_failed + 1
         /\ g_Counters'[p].files_seen = g_Counters[p].files_seen
         /\ g_Counters'[p].files_with_extension = g_Counters[p].files_with_extension
         /\ g_Counters'[p].files_matched = g_Counters[p].files_matched
         /\ \A q \in Phase : q # p => g_Counters'[q] = g_Counters[q]
BY DEF Counters

\* A file is seen, and counted by its extension and its match.
LEMMA FileCounts ==
  ASSUME g_Counters \in [Phase -> Counters], NEW p \in Phase,
         NEW e \in {0, 1}, NEW m \in {0, 1},
         g_Counters' = [g_Counters EXCEPT ![p].files_seen = @ + 1,
                                          ![p].files_with_extension = @ + e,
                                          ![p].files_matched = @ + m]
  PROVE  /\ g_Counters' \in [Phase -> Counters]
         /\ g_Counters'[p].directories_seen = g_Counters[p].directories_seen
         /\ g_Counters'[p].directories_failed = g_Counters[p].directories_failed
         /\ g_Counters'[p].files_seen = g_Counters[p].files_seen + 1
         /\ g_Counters'[p].files_with_extension = g_Counters[p].files_with_extension + e
         /\ g_Counters'[p].files_matched = g_Counters[p].files_matched + m
         /\ \A q \in Phase : q # p => g_Counters'[q] = g_Counters[q]
<1>1. PICK c \in Counters : c = g_Counters[p]
  OBVIOUS
<1>2. e \in Nat /\ m \in Nat
  OBVIOUS
<1>3. PICK r : r = [c EXCEPT !.files_seen = @ + 1,
                             !.files_with_extension = @ + e,
                             !.files_matched = @ + m]
  OBVIOUS
<1>4. /\ r \in Counters
      /\ r.directories_seen = c.directories_seen
      /\ r.directories_failed = c.directories_failed
      /\ r.files_seen = c.files_seen + 1
      /\ r.files_with_extension = c.files_with_extension + e
      /\ r.files_matched = c.files_matched + m
  <2>1. r = [files_seen |-> c.files_seen + 1,
             files_with_extension |-> c.files_with_extension + e,
             files_matched |-> c.files_matched + m,
             directories_seen |-> c.directories_seen,
             directories_failed |-> c.directories_failed]
    BY <1>2, <1>3 DEF Counters
  <2> QED BY <1>2, <2>1 DEF Counters
<1>5. g_Counters' = [g_Counters EXCEPT ![p] = r]
  BY <1>1, <1>3
<1> QED BY <1>1, <1>4, <1>5

\* A subdirectory that cannot be queued is counted as failed.
LEMMA FailureCounts ==
  ASSUME g_Counters \in [Phase -> Counters], NEW p \in Phase,
         g_Counters' = [g_Counters EXCEPT ![p].directories_failed = @ + 1]
  PROVE  /\ g_Counters' \in [Phase -> Counters]
         /\ g_Counters'[p].directories_seen = g_Counters[p].directories_seen
         /\ g_Counters'[p].directories_failed = g_Counters[p].directories_failed + 1
         /\ g_Counters'[p].files_seen = g_Counters[p].files_seen
         /\ g_Counters'[p].files_with_extension = g_Counters[p].files_with_extension
         /\ g_Counters'[p].files_matched = g_Counters[p].files_matched
         /\ \A q \in Phase : q # p => g_Counters'[q] = g_Counters[q]
BY DEF Counters

\* No step of wmain leaves the sets of TypeOK ...
LEMMA TypeMain == IInv /\ Main => TypeOK'
<1> SUFFICES ASSUME IInv, Main PROVE TypeOK'
  OBVIOUS
<1>0. TypeOK
  BY DEF IInv
<1>a. phase \in Phase /\ phase \in {0, 1} /\ {0, 1} \subseteq Phase
  BY <1>0 DEF TypeOK, Phase
<1>b. \A b \in BOOLEAN : Returns(b) =>
        /\ mpc' \in {"clear", "destroy"} /\ phase' \in Phase
        /\ scanOk' \in [Phase -> BOOLEAN]
  BY <1>0, <1>a DEF Returns, TypeOK
<1> USE <1>0 DEF TypeOK, mainVars, taskVars, NoFault, Fault
<1>1. CASE ClearTable
  <2>1. g_Counters' \in [Phase -> Counters]
    BY <1>1 DEF ClearTable, Counters, ZeroCounters
  <2> QED BY <1>1, <2>1 DEF ClearTable, Counters
<1>2. CASE FillTable
  <2>1. g_HashTable' \subseteq HashArray[0] \cup HashArray[1]
    BY <1>2, <1>a DEF FillTable
  <2>2. drive' \in 1..Len(Drives) + 1
    BY <1>2, ScanPoolAssumption DEF FillTable
  <2> QED BY <1>2, <2>1, <2>2 DEF FillTable
<1>3. CASE QueueDrive
  BY <1>3 DEF QueueDrive
<1>4. CASE SubmitDrive
  <2>1. drive \in 1..Len(Drives) /\ <<Drives[drive], phase>> \in Item
    BY <1>4, DriveIsNew, ScanPoolAssumption DEF SubmitDrive, IInv, TableInv
  <2>2. stage' \in [Item -> Stage] /\ drive' \in 1..Len(Drives) + 1
    BY <1>4, <2>1, ScanPoolAssumption DEF SubmitDrive, Stage
  <2> QED BY <1>4, <2>2 DEF SubmitDrive, Stage
<1>5. CASE ScanFails
  BY <1>5, <1>b DEF ScanFails
<1>6. CASE Drain
  BY <1>6 DEF Drain
<1>7. CASE CloseMembers
  BY <1>7, <1>b DEF CloseMembers
<1>8. CASE DestroyThreadPool
  BY <1>8 DEF DestroyThreadPool
<1> QED BY <1>1, <1>2, <1>3, <1>4, <1>5, <1>6, <1>7, <1>8 DEF Main

\* ... or of a callback.
LEMMA TypeCallback ==
  ASSUME IInv, NEW i \in Item, ScanDirectoryCallback(i)
  PROVE  TypeOK'
<1>0. TypeOK
  BY DEF IInv
<1>a. i[1] \in Dir /\ i[2] \in Phase /\ i = <<i[1], i[2]>>
  BY ItemParts
<1>b. NextEntry(i) => at' \in [Item -> Nat \ {0}]
  BY <1>0 DEF NextEntry, TypeOK
<1>c. HasEntry(i) /\ Entry(i).kind = "dir" => <<Entry(i).dir, i[2]>> \in Item
  BY <1>0, NextEntryId
<1>d. g_Counters \in [Phase -> Counters]
  BY <1>0 DEF TypeOK, Counters
<1> USE <1>0 DEF TypeOK, mainVars, taskVars, NoFault, Fault
<1>1. CASE BeginCallback(i)
  <2>1. g_Counters' \in [Phase -> Counters]
    BY <1>1, <1>a, <1>d, BeginCounts, BeginFailureCounts DEF BeginCallback
  <2>2. stage' \in [Item -> Stage] /\ lost' \subseteq Item
    BY <1>1 DEF BeginCallback, Stage
  <2> QED BY <1>1, <2>1, <2>2 DEF BeginCallback, Counters, Stage
<1>2. CASE SkipEntry(i)
  BY <1>2, <1>b DEF SkipEntry
<1>3. CASE ScanFile(i)
  <2>1. PICK e \in {0, 1}, m \in {0, 1} :
          g_Counters' = [g_Counters EXCEPT ![i[2]].files_seen = @ + 1,
                                           ![i[2]].files_with_extension = @ + e,
                                           ![i[2]].files_matched = @ + m]
    BY <1>3 DEF ScanFile
  <2>2. g_Counters' \in [Phase -> Counters]
    BY <2>1, <1>a, <1>d, FileCounts
  <2> QED BY <1>3, <1>b, <2>2 DEF ScanFile, Counters
<1>4. CASE CountSubdirectory(i)
  <2>1. CASE /\ NoFault /\ UNCHANGED <<at, g_Counters, lost>>
             /\ g_ActiveTasks' = g_ActiveTasks + 1
             /\ stage' = [stage EXCEPT ![i] = "counted"]
    <3>1. stage' \in [Item -> Stage] /\ g_ActiveTasks' \in Nat
      BY <2>1 DEF Stage
    <3> QED BY <1>4, <2>1, <3>1 DEF CountSubdirectory, Stage
  <2>2. CASE /\ Fault("queueDir") /\ UNCHANGED <<g_ActiveTasks, stage>>
             /\ g_Counters' = [g_Counters EXCEPT ![i[2]].directories_failed = @ + 1]
             /\ lost' = lost \cup {<<Entry(i).dir, i[2]>>} /\ NextEntry(i)
    <3>1. g_Counters' \in [Phase -> Counters]
      BY <2>2, <1>a, <1>d, FailureCounts
    <3> QED BY <1>4, <1>b, <1>c, <2>2, <3>1 DEF CountSubdirectory, Counters
  <2> QED BY <1>4, <2>1, <2>2 DEF CountSubdirectory
<1>5. CASE SubmitSubdirectory(i)
  <2>1. <<Entry(i).dir, i[2]>> \in Item
    BY <1>5, <1>c DEF SubmitSubdirectory, IInv, ListingInv
  <2>2. stage' \in [Item -> Stage]
    BY <1>5, <2>1 DEF SubmitSubdirectory, Stage
  <2> QED BY <1>5, <1>b, <2>2 DEF SubmitSubdirectory, Stage
<1>6. CASE EndListing(i)
  <2>1. stage' \in [Item -> Stage] /\ cut' \subseteq Item /\ faulted' \subseteq Faults
    BY <1>6 DEF EndListing, Stage
  <2> QED BY <1>6, <2>1 DEF EndListing, Stage
<1>7. CASE EndCallback(i)
  <2>1. i \in Alive
    BY <1>7 DEF EndCallback, Alive
  <2>2. IsFiniteSet(Alive) /\ Counted \subseteq Alive
    BY DEF IInv, CountInv, Counted, Alive
  <2>3. /\ Cardinality(Alive) \in Nat \ {0} /\ Cardinality(Counted) \in Nat
    BY <2>1, <2>2, FS_EmptySet, FS_CardinalityType, FS_Subset
  <2>4. g_ActiveTasks - 1 \in Nat
    BY <2>3 DEF IInv, CountInv
  <2> QED BY <1>7, <2>4 DEF EndCallback
<1> QED BY <1>1, <1>2, <1>3, <1>4, <1>5, <1>6, <1>7 DEF ScanDirectoryCallback
-----------------------------------------------------------------------------
(* The active count *)

\* A set that gains or loses an item.
LEMMA OneMore ==
  ASSUME NEW S, NEW x, IsFiniteSet(S), x \notin S
  PROVE  /\ IsFiniteSet(S \cup {x}) /\ Cardinality(S) \in Nat
         /\ Cardinality(S \cup {x}) = Cardinality(S) + 1
BY FS_AddElement, FS_CardinalityType

\* A finite set without one of its elements has one less.
LEMMA OneLess ==
  ASSUME NEW S, NEW x, IsFiniteSet(S), x \in S
  PROVE  /\ IsFiniteSet(S \ {x}) /\ Cardinality(S) \in Nat
         /\ Cardinality(S \ {x}) = Cardinality(S) - 1
BY FS_RemoveElement, FS_CardinalityType

\* How a callback changes the items that are alive and counted: each change of
\* g_ActiveTasks goes with one.
LEMMA CallbackTasks ==
  ASSUME IInv, NEW i \in Item, ScanDirectoryCallback(i)
  PROVE  /\ i \in Alive
         /\ \/ UNCHANGED <<g_ActiveTasks, Alive, Counted>>
            \/ /\ g_ActiveTasks' = g_ActiveTasks + 1
               /\ Alive' = Alive /\ i \notin Counted /\ Counted' = Counted \cup {i}
            \/ \E s \in Item :
                 /\ UNCHANGED g_ActiveTasks
                 /\ s \notin Alive /\ Alive' = Alive \cup {s} /\ s[2] = i[2]
                 /\ i \in Counted /\ Counted' = Counted \ {i}
            \/ /\ g_ActiveTasks' = g_ActiveTasks - 1
               /\ Alive' = Alive \ {i} /\ Counted' = Counted
<1>0. TypeOK /\ ListingInv
  BY DEF IInv
<1>a. stage \in [Item -> Stage]
  BY <1>0 DEF TypeOK, Stage
<1>1. i \in Alive
  BY DEF ScanDirectoryCallback, BeginCallback, SkipEntry, ScanFile, EndListing,
     CountSubdirectory, SubmitSubdirectory, EndCallback, Alive
<1>2. CASE BeginCallback(i) \/ EndListing(i)
  <2>1. UNCHANGED g_ActiveTasks /\ stage[i] \in {"queued", "listing"}
    BY <1>2 DEF BeginCallback, EndListing
  <2>2. PICK x \in {"listing", "cleanup"} : stage' = [stage EXCEPT ![i] = x]
    BY <1>2 DEF BeginCallback, EndListing
  <2>3. Alive' = Alive /\ Counted' = Counted
    BY <1>a, <2>1, <2>2 DEF Alive, Counted
  <2> QED BY <1>1, <2>1, <2>3
<1>3. CASE SkipEntry(i) \/ ScanFile(i)
  <2>1. UNCHANGED <<g_ActiveTasks, stage>>
    BY <1>3 DEF SkipEntry, ScanFile
  <2> QED BY <1>1, <2>1 DEF Alive, Counted
<1>4. CASE CountSubdirectory(i)
  <2>1. CASE g_ActiveTasks' = g_ActiveTasks + 1 /\ stage' = [stage EXCEPT ![i] = "counted"]
    <3>1. stage[i] = "listing"
      BY <1>4 DEF CountSubdirectory
    <3>2. Alive' = Alive /\ i \notin Counted /\ Counted' = Counted \cup {i}
      BY <1>a, <2>1, <3>1 DEF Alive, Counted
    <3> QED BY <1>1, <2>1, <3>2
  <2>2. CASE UNCHANGED <<g_ActiveTasks, stage>>
    BY <1>1, <2>2 DEF Alive, Counted
  <2> QED BY <1>4, <2>1, <2>2 DEF CountSubdirectory
<1>5. CASE SubmitSubdirectory(i)
  <2>1. stage[i] = "counted" /\ UNCHANGED g_ActiveTasks
    BY <1>5 DEF SubmitSubdirectory
  <2>2. HasEntry(i) /\ Entry(i).kind = "dir"
    BY <1>0, <2>1 DEF ListingInv
  <2>3. PICK s \in Item : s = <<Entry(i).dir, i[2]>>
    BY <1>0, <2>2, NextEntryId
  <2>4. stage[s] = "none" /\ s[2] = i[2]
    BY <2>2, <2>3, SubdirectoryIsNew DEF Known
  <2>5. stage' = [stage EXCEPT ![i] = "listing", ![s] = "queued"]
    BY <1>5, <2>3 DEF SubmitSubdirectory
  <2>6. /\ s \notin Alive /\ Alive' = Alive \cup {s}
        /\ i \in Counted /\ Counted' = Counted \ {i}
    BY <1>a, <2>1, <2>4, <2>5 DEF Alive, Counted
  <2> QED BY <1>1, <2>1, <2>4, <2>6
<1>6. CASE EndCallback(i)
  <2>1. stage[i] = "cleanup" /\ g_ActiveTasks' = g_ActiveTasks - 1
    BY <1>6 DEF EndCallback
  <2>2. Alive' = Alive \ {i} /\ Counted' = Counted
    BY <1>6, <1>a, <2>1 DEF EndCallback, Alive, Counted
  <2> QED BY <1>1, <2>1, <2>2
<1> QED BY <1>2, <1>3, <1>4, <1>5, <1>6 DEF ScanDirectoryCallback

\* What wmain queues: an item more, if it submits one.
LEMMA MainTasks ==
  ASSUME IInv, Main
  PROVE  \/ /\ SubmitDrive /\ UNCHANGED g_ActiveTasks
            /\ <<Drives[drive], phase>> \in Item \ Alive
            /\ Alive' = Alive \cup {<<Drives[drive], phase>>} /\ Counted' = Counted
         \/ QueueDrive /\ g_ActiveTasks' = g_ActiveTasks + 1 /\ UNCHANGED stage
         \/ /\ mpc # "submit" /\ mpc' # "submit" /\ UNCHANGED <<g_ActiveTasks, stage>>
<1>1. CASE SubmitDrive
  <2>1. PICK s \in Item : s = <<Drives[drive], phase>> /\ ~Known(s)
    BY <1>1, DriveIsNew DEF SubmitDrive
  <2>2. stage[s] = "none" /\ stage' = [stage EXCEPT ![s] = "queued"]
    BY <1>1, <2>1 DEF SubmitDrive, Known
  <2>3. stage \in [Item -> Stage]
    BY DEF IInv, TypeOK, Stage
  <2>4. s \notin Alive /\ Alive' = Alive \cup {s} /\ Counted' = Counted
    BY <2>2, <2>3 DEF Alive, Counted
  <2> QED BY <1>1, <2>1, <2>4 DEF SubmitDrive
<1>2. CASE ~SubmitDrive
  BY <1>2 DEF Main, ClearTable, FillTable, QueueDrive, ScanFails, Drain, Returns,
     CloseMembers, DestroyThreadPool, taskVars
<1> QED BY <1>1, <1>2

\* The count stays the number of the items.
LEMMA CountStep ==
  ASSUME IInv, Main \/ \E i \in Item : ScanDirectoryCallback(i)
  PROVE  CountInv'
<1>0. TypeOK /\ CountInv
  BY DEF IInv
<1>1. /\ IsFiniteSet(Alive) /\ IsFiniteSet(Counted)
      /\ Cardinality(Alive) \in Nat /\ Cardinality(Counted) \in Nat
      /\ g_ActiveTasks \in Nat
  <2>1. Counted \subseteq Alive
    BY DEF Counted, Alive
  <2> QED BY <1>0, <2>1, FS_Subset, FS_CardinalityType DEF CountInv, TypeOK
<1>2. CASE Main
  <2>1. CASE SubmitDrive
    <3>1. PICK s : /\ s \notin Alive /\ Alive' = Alive \cup {s}
                   /\ Counted' = Counted /\ UNCHANGED g_ActiveTasks
                   /\ mpc = "submit" /\ mpc' = "drives"
      BY <1>2, <2>1, MainTasks DEF QueueDrive, SubmitDrive
    <3>2. IsFiniteSet(Alive') /\ Cardinality(Alive') = Cardinality(Alive) + 1
      BY <1>1, <3>1, OneMore
    <3> QED BY <1>0, <1>1, <3>1, <3>2 DEF CountInv
  <2>2. CASE QueueDrive
    <3>1. /\ mpc = "drives" /\ mpc' = "submit" /\ g_ActiveTasks' = g_ActiveTasks + 1
          /\ Alive' = Alive /\ Counted' = Counted
      BY <2>2 DEF QueueDrive, taskVars, Alive, Counted
    <3> QED BY <1>0, <1>1, <3>1 DEF CountInv
  <2>3. CASE mpc # "submit" /\ mpc' # "submit" /\ UNCHANGED <<g_ActiveTasks, stage>>
    <3>1. Alive' = Alive /\ Counted' = Counted
      BY <2>3 DEF Alive, Counted
    <3> QED BY <1>0, <1>1, <2>3, <3>1 DEF CountInv
  <2> QED BY <1>2, <2>1, <2>2, <2>3, MainTasks
<1>3. ASSUME NEW i \in Item, ScanDirectoryCallback(i) PROVE CountInv'
  <2>1. UNCHANGED mpc
    BY <1>3 DEF ScanDirectoryCallback, BeginCallback, SkipEntry, ScanFile,
       EndListing, CountSubdirectory, SubmitSubdirectory, EndCallback, mainVars
  <2>2. i \in Alive
    BY <1>3, CallbackTasks
  <2>3. CASE UNCHANGED <<g_ActiveTasks, Alive, Counted>>
    BY <1>0, <2>1, <2>3 DEF CountInv
  <2>4. CASE /\ g_ActiveTasks' = g_ActiveTasks + 1
             /\ Alive' = Alive /\ i \notin Counted /\ Counted' = Counted \cup {i}
    <3>1. Cardinality(Counted') = Cardinality(Counted) + 1
      BY <1>1, <2>4, OneMore
    <3> QED BY <1>0, <1>1, <2>1, <2>4, <3>1 DEF CountInv
  <2>5. ASSUME NEW s \in Item, UNCHANGED g_ActiveTasks,
               s \notin Alive, Alive' = Alive \cup {s},
               i \in Counted, Counted' = Counted \ {i}
        PROVE  CountInv'
    <3>1. IsFiniteSet(Alive') /\ Cardinality(Alive') = Cardinality(Alive) + 1
      BY <1>1, <2>5, OneMore
    <3>2. Cardinality(Counted') = Cardinality(Counted) - 1
      BY <1>1, <2>5, OneLess
    <3> QED BY <1>0, <1>1, <2>1, <2>5, <3>1, <3>2 DEF CountInv
  <2>6. CASE /\ g_ActiveTasks' = g_ActiveTasks - 1
             /\ Alive' = Alive \ {i} /\ Counted' = Counted
    <3>1. IsFiniteSet(Alive') /\ Cardinality(Alive') = Cardinality(Alive) - 1
      BY <1>1, <2>2, <2>6, OneLess
    <3> QED BY <1>0, <1>1, <2>1, <2>6, <3>1 DEF CountInv
  <2> QED BY <1>3, <2>3, <2>4, <2>5, <2>6, CallbackTasks
<1> QED BY <1>2, <1>3
-----------------------------------------------------------------------------
(* What is known, and how far the listings are *)

\* A listing goes on by one entry.
LEMMA PassedNext ==
  ASSUME TypeOK, NEW i \in Item, HasEntry(i), NextEntry(i)
  PROVE  /\ ~Passed(<<i[1], at[i]>>, i[2])
         /\ \A e \in EntryId, p \in Phase :
              Passed(e, p)' <=> Passed(e, p) \/ (e = <<i[1], at[i]>> /\ p = i[2])
<1>1. /\ at \in [Item -> Nat \ {0}] /\ at' = [at EXCEPT ![i] = at[i] + 1]
      /\ i = <<i[1], i[2]>> /\ i[1] \in Dir /\ i[2] \in Phase
  BY ItemParts DEF TypeOK, NextEntry
<1>2. ~Passed(<<i[1], at[i]>>, i[2])
  BY <1>1 DEF Passed
<1>3. ASSUME NEW e \in EntryId, NEW p \in Phase
      PROVE  Passed(e, p)' <=> Passed(e, p) \/ (e = <<i[1], at[i]>> /\ p = i[2])
  <2>1. e = <<e[1], e[2]>> /\ e[1] \in Dir /\ e[2] \in Nat /\ <<e[1], p>> \in Item
    BY EntryParts DEF Item
  <2>2. CASE <<e[1], p>> = i
    <3>1. e[1] = i[1] /\ p = i[2]
      BY <2>2
    <3>2. /\ Passed(e, p)' <=> e[2] < at[i] + 1
          /\ Passed(e, p) <=> e[2] < at[i]
      BY <1>1, <2>2 DEF Passed
    <3>3. at[i] \in Nat
      BY <1>1
    <3> QED BY <2>1, <3>1, <3>2, <3>3
  <2>3. CASE <<e[1], p>> # i
    <3>1. at'[<<e[1], p>>] = at[<<e[1], p>>]
      BY <1>1, <2>1, <2>3
    <3> QED BY <1>1, <2>3, <3>1 DEF Passed
  <2> QED BY <2>2, <2>3
<1> QED BY <1>2, <1>3

\* What a callback makes known: the directory of an entry it has passed.
LEMMA CallbackKnown ==
  ASSUME IInv, NEW i \in Item, ScanDirectoryCallback(i)
  PROVE  \/ UNCHANGED at /\ \A j \in Item : Known(j)' <=> Known(j)
         \/ /\ HasEntry(i) /\ NextEntry(i) /\ Entry(i).kind # "dir"
            /\ \A j \in Item : Known(j)' <=> Known(j)
         \/ /\ HasEntry(i) /\ NextEntry(i) /\ Entry(i).kind = "dir"
            /\ \A j \in Item :
                 Known(j)' <=> Known(j) \/ j = <<Entry(i).dir, i[2]>>
<1>0. TypeOK /\ ListingInv
  BY DEF IInv
<1>a. stage \in [Item -> Stage]
  BY <1>0 DEF TypeOK, Stage
<1>1. CASE BeginCallback(i) \/ EndListing(i) \/ EndCallback(i)
  <2>1. PICK x \in Stage \ {"none"} : stage' = [stage EXCEPT ![i] = x]
    BY <1>1 DEF BeginCallback, EndListing, EndCallback, Stage
  <2>2. stage[i] # "none" /\ lost' \in {lost, lost \cup {i}} /\ UNCHANGED at
    BY <1>1 DEF BeginCallback, EndListing, EndCallback
  <2> QED BY <1>a, <2>1, <2>2 DEF Known
<1>2. CASE SkipEntry(i) \/ ScanFile(i)
  BY <1>2 DEF SkipEntry, ScanFile, Known
<1>3. CASE CountSubdirectory(i)
  <2>1. CASE stage' = [stage EXCEPT ![i] = "counted"] /\ UNCHANGED <<at, lost>>
    BY <1>3, <1>a, <2>1 DEF CountSubdirectory, Known
  <2>2. CASE /\ lost' = lost \cup {<<Entry(i).dir, i[2]>>}
             /\ NextEntry(i) /\ UNCHANGED stage
    BY <1>3, <2>2 DEF CountSubdirectory, Known
  <2> QED BY <1>3, <2>1, <2>2 DEF CountSubdirectory
<1>4. CASE SubmitSubdirectory(i)
  <2>1. stage[i] = "counted" /\ NextEntry(i) /\ UNCHANGED lost
    BY <1>4 DEF SubmitSubdirectory
  <2>2. HasEntry(i) /\ Entry(i).kind = "dir"
    BY <1>0, <2>1 DEF ListingInv
  <2>3. PICK s \in Item : s = <<Entry(i).dir, i[2]>>
    BY <1>0, <2>2, NextEntryId
  <2>4. stage' = [stage EXCEPT ![i] = "listing", ![s] = "queued"]
    BY <1>4, <2>3 DEF SubmitSubdirectory
  <2>5. \A j \in Item : Known(j)' <=> Known(j) \/ j = s
    BY <1>a, <2>1, <2>4 DEF Known
  <2> QED BY <2>1, <2>2, <2>3, <2>5
<1> QED BY <1>1, <1>2, <1>3, <1>4 DEF ScanDirectoryCallback

\* wmain makes a drive known.
LEMMA MainKnown ==
  ASSUME IInv, Main
  PROVE  /\ UNCHANGED <<at, lost, cut>>
         /\ \/ /\ SubmitDrive /\ <<Drives[drive], phase>> \in Item
               /\ \A j \in Item :
                    Known(j)' <=> Known(j) \/ j = <<Drives[drive], phase>>
            \/ ~SubmitDrive /\ UNCHANGED stage /\ \A j \in Item : Known(j)' <=> Known(j)
<1>1. UNCHANGED <<at, lost, cut>>
  BY DEF Main, ClearTable, FillTable, QueueDrive, SubmitDrive, ScanFails, Drain,
     CloseMembers, DestroyThreadPool, taskVars
<1>2. CASE SubmitDrive
  <2>1. PICK s \in Item : s = <<Drives[drive], phase>>
    BY <1>2, DriveIsNew DEF SubmitDrive
  <2>2. stage' = [stage EXCEPT ![s] = "queued"] /\ stage \in [Item -> Stage]
    BY <1>2, <2>1 DEF SubmitDrive, IInv, TypeOK, Stage
  <2>3. \A j \in Item : Known(j)' <=> Known(j) \/ j = s
    BY <1>1, <2>2 DEF Known
  <2> QED BY <1>1, <1>2, <2>1, <2>3
<1>3. CASE ~SubmitDrive
  <2>1. UNCHANGED stage
    BY <1>3 DEF Main, ClearTable, FillTable, QueueDrive, ScanFails, Drain,
       CloseMembers, DestroyThreadPool, taskVars
  <2> QED BY <1>1, <1>3, <2>1 DEF Known
<1> QED BY <1>2, <1>3

\* The part of the state that a callback leaves to wmain.
LEMMA CallbackFrame ==
  ASSUME NEW i \in Item, ScanDirectoryCallback(i)
  PROVE  /\ UNCHANGED <<mpc, phase, drive, scanOk, g_HashTable>>
         /\ faulted' \in {faulted, faulted \cup {"listDir"}, faulted \cup {"queueDir"},
                           faulted \cup {"nextEntry"}}
BY DEF ScanDirectoryCallback, BeginCallback, SkipEntry, ScanFile, EndListing,
   CountSubdirectory, SubmitSubdirectory, EndCallback, mainVars, Fault, NoFault
-----------------------------------------------------------------------------
(* The phases *)

\* wmain changes the table when the pool is empty, and goes from phase to phase.
LEMMA PhaseMain == IInv /\ Main => TableInv' /\ FreshInv'
<1> SUFFICES ASSUME IInv, Main PROVE TableInv' /\ FreshInv'
  OBVIOUS
<1>0. TypeOK /\ TableInv /\ FreshInv
  BY DEF IInv
<1>a. phase \in {0, 1} /\ \A i \in Item : i[2] \in {0, 1}
  BY <1>0, ItemParts DEF TypeOK, Phase
<1>b. drive \in 1..Len(Drives) + 1 /\ Len(Drives) \in Nat
  BY <1>0, ScanPoolAssumption DEF TypeOK
<1>1. CASE SubmitDrive
  <2>1. PICK s \in Item : /\ s = <<Drives[drive], phase>>
                          /\ Alive' = Alive \cup {s}
                          /\ \A j \in Item : Known(j)' <=> Known(j) \/ j = s
    BY <1>1, MainTasks, MainKnown DEF SubmitDrive, QueueDrive
  <2>2. s[2] = phase
    BY <2>1
  <2>3. /\ mpc = "submit" /\ mpc' = "drives" /\ drive' = drive + 1
        /\ UNCHANGED <<phase, g_HashTable, faulted>>
    BY <1>1 DEF SubmitDrive
  <2>4. TableInv'
    BY <1>0, <1>b, <2>1, <2>2, <2>3 DEF TableInv
  <2>5. FreshInv'
    BY <1>0, <1>a, <2>1, <2>2, <2>3 DEF FreshInv
  <2> QED BY <2>4, <2>5
<1>2. CASE ~SubmitDrive
  <2>1. UNCHANGED stage /\ \A j \in Item : Known(j)' <=> Known(j)
    BY <1>2, MainKnown
  <2>2. Alive' = Alive
    BY <2>1 DEF Alive
  <2>3. CASE ClearTable
    BY <1>0, <2>1, <2>2, <2>3 DEF ClearTable, TableInv, FreshInv
  <2>4. CASE FillTable
    BY <1>0, <2>1, <2>2, <2>4 DEF FillTable, TableInv, FreshInv
  <2>5. CASE QueueDrive
    BY <1>0, <2>1, <2>2, <2>5 DEF QueueDrive, TableInv, FreshInv
  <2>6. CASE ScanFails \/ CloseMembers
    <3>1. /\ "queueDrive" \notin faulted' => Alive = {} /\ "queueDrive" \notin faulted
          /\ mpc \in {"drives", "close"}
      BY <1>0, <2>6 DEF ScanFails, CloseMembers, TableInv, Fault
    <3>2. \/ phase = 0 /\ mpc' = "clear" /\ phase' = 1
          \/ phase = 1 /\ mpc' = "destroy" /\ phase' = 1
      BY <1>a, <2>6 DEF ScanFails, CloseMembers, Returns
    <3> QED BY <1>0, <1>a, <2>1, <2>2, <3>1, <3>2 DEF TableInv, FreshInv
  <2>7. CASE Drain
    BY <1>0, <2>1, <2>2, <2>7 DEF Drain, TableInv, FreshInv
  <2>8. CASE DestroyThreadPool
    BY <1>0, <2>1, <2>2, <2>8 DEF DestroyThreadPool, TableInv, FreshInv
  <2> QED BY <1>2, <2>3, <2>4, <2>5, <2>6, <2>7, <2>8 DEF Main
<1> QED BY <1>1, <1>2

\* A callback queues items of its own phase only.
LEMMA PhaseCallback ==
  ASSUME IInv, NEW i \in Item, ScanDirectoryCallback(i)
  PROVE  TableInv' /\ FreshInv'
<1>0. TypeOK /\ TableInv /\ FreshInv
  BY DEF IInv
<1>1. /\ UNCHANGED <<mpc, phase, drive, g_HashTable>>
      /\ "queueDrive" \in faulted' <=> "queueDrive" \in faulted
  BY CallbackFrame
<1>2. i \in Alive /\ \A j \in Alive' : j \in Alive \/ j[2] = i[2]
  BY CallbackTasks
<1>3. Known(i)
  BY <1>2 DEF Known, Alive
<1>4. \A j \in Item : Known(j)' => Known(j) \/ j[2] = i[2]
  BY CallbackKnown
<1>5. TableInv'
  BY <1>0, <1>1, <1>2 DEF TableInv
<1>6. FreshInv'
  BY <1>0, <1>1, <1>3, <1>4 DEF FreshInv
<1> QED BY <1>5, <1>6
-----------------------------------------------------------------------------
(* The origin of an item, and what is covered *)

\* wmain goes on from drive to drive and from phase to phase.
LEMMA DrivesMain ==
  ASSUME IInv, Main, NEW k \in 1..Len(Drives), NEW p \in Phase
  PROVE  /\ DriveQueued(k, p) => DriveQueued(k, p)'
         /\ SubmitDrive /\ k = drive /\ p = phase => DriveQueued(k, p)'
         /\ DriveQueued(k, p)' =>
              \/ DriveQueued(k, p)
              \/ SubmitDrive /\ k = drive /\ p = phase
              \/ ScanFails \/ (CloseMembers /\ p = phase)
<1>a. /\ phase \in {0, 1} /\ p \in {0, 1} /\ k \in Nat /\ k >= 1
      /\ drive \in 1..Len(Drives) + 1 /\ Len(Drives) \in Nat
  BY ScanPoolAssumption DEF IInv, TypeOK, Phase
<1>1. CASE ClearTable
  BY <1>a, <1>1 DEF ClearTable, SubmitDrive, DriveQueued
<1>2. CASE FillTable
  BY <1>a, <1>2 DEF FillTable, SubmitDrive, DriveQueued
<1>3. CASE QueueDrive
  BY <1>a, <1>3 DEF QueueDrive, SubmitDrive, DriveQueued
<1>4. CASE SubmitDrive
  BY <1>a, <1>4 DEF SubmitDrive, DriveQueued
<1>5. CASE ScanFails \/ CloseMembers
  <2>1. \/ phase = 0 /\ mpc' = "clear" /\ phase' = 1
        \/ phase = 1 /\ mpc' = "destroy" /\ phase' = 1
    BY <1>a, <1>5 DEF ScanFails, CloseMembers, Returns
  <2>2. drive' = drive /\ mpc \in {"drives", "close"}
    BY <1>5 DEF ScanFails, CloseMembers
  <2> QED BY <1>a, <1>5, <2>1, <2>2 DEF DriveQueued, SubmitDrive
<1>6. CASE Drain
  BY <1>a, <1>6 DEF Drain, SubmitDrive, DriveQueued
<1>7. CASE DestroyThreadPool
  BY <1>a, <1>7 DEF DestroyThreadPool, SubmitDrive, DriveQueued
<1> QED BY <1>1, <1>2, <1>3, <1>4, <1>5, <1>6, <1>7 DEF Main

\* An item comes from a drive ...
LEMMA OriginMain == IInv /\ Main => OriginInv'
<1> SUFFICES ASSUME IInv, Main, NEW i \in Item, Known(i)'
             PROVE  \/ \E k \in 1..Len(Drives) :
                         Drives[k] = i[1] /\ DriveQueued(k, i[2])'
                    \/ \E e \in EntryId : EntryAt(e) = Sub(i[1]) /\ Passed(e, i[2])'
  BY DEF OriginInv
<1>0. TypeOK /\ OriginInv /\ TableInv /\ i[2] \in Phase
  BY ItemParts DEF IInv
<1>1. CASE Known(i)
  <2>1. CASE \E k \in 1..Len(Drives) : Drives[k] = i[1] /\ DriveQueued(k, i[2])
    BY <1>0, <2>1, DrivesMain
  <2>2. CASE \E e \in EntryId : EntryAt(e) = Sub(i[1]) /\ Passed(e, i[2])
    BY <2>2, MainKnown DEF Passed
  <2> QED BY <1>0, <1>1, <2>1, <2>2 DEF OriginInv
<1>2. CASE ~Known(i)
  <2>1. SubmitDrive /\ i = <<Drives[drive], phase>>
    BY <1>2, MainKnown
  <2>2. drive \in 1..Len(Drives) /\ phase \in Phase
    BY <1>0, <2>1, ScanPoolAssumption DEF SubmitDrive, TypeOK, TableInv
  <2>3. PICK k \in 1..Len(Drives), p \in Phase : k = drive /\ p = phase
    BY <2>2
  <2>4. DriveQueued(k, p)'
    BY <2>1, <2>3, DrivesMain
  <2>5. Drives[k] = i[1] /\ p = i[2]
    BY <2>1, <2>3
  <2> QED BY <2>4, <2>5
<1> QED BY <1>1, <1>2

\* ... or from an entry that a callback has passed.
LEMMA OriginCallback ==
  ASSUME IInv, NEW i \in Item, ScanDirectoryCallback(i)
  PROVE  OriginInv' /\ CoverInv'
<1>0. TypeOK /\ OriginInv /\ CoverInv
  BY DEF IInv
<1>1. \A k \in 1..Len(Drives), p \in Phase : DriveQueued(k, p)' <=> DriveQueued(k, p)
  BY CallbackFrame DEF DriveQueued
<1>2. /\ UNCHANGED <<mpc, drive>>
      /\ faulted' \cap {"queueDrive", "driveMask"} = faulted \cap {"queueDrive", "driveMask"}
  BY CallbackFrame
<1>3. \A k \in 1..Len(Drives), p \in Phase : <<Drives[k], p>> \in Item
  BY ScanPoolAssumption DEF Item
<1>4. \A j \in Item : stage[j] # "none" => stage'[j] # "none"
  BY <1>0 DEF ScanDirectoryCallback, BeginCallback, SkipEntry, ScanFile,
     EndListing, CountSubdirectory, SubmitSubdirectory, EndCallback, TypeOK
<1>5. /\ faulted' \cap {"queueDrive", "driveMask"} = {} =>
           \A k \in 1..Len(Drives), p \in Phase :
             DriveQueued(k, p)' => stage'[<<Drives[k], p>>] # "none"
      /\ faulted' \cap {"queueDrive", "driveMask"} = {} =>
           (mpc' \in {"close", "destroy", "recap"} => drive' = Len(Drives) + 1)
  BY <1>0, <1>1, <1>2, <1>3, <1>4 DEF CoverInv
<1>6. \A e \in EntryId, p \in Phase :
        EntryAt(e).kind = "dir" => /\ <<EntryAt(e).dir, p>> \in Item
                                   /\ EntryAt(e) = Sub(EntryAt(e).dir)
  BY EntryParts, EntryKinds DEF Item
<1>7. CASE UNCHANGED at /\ \A j \in Item : Known(j)' <=> Known(j)
  <2>1. \A e \in EntryId, p \in Phase : Passed(e, p)' <=> Passed(e, p)
    BY <1>7 DEF Passed
  <2> QED BY <1>0, <1>1, <1>5, <1>6, <1>7, <2>1, ItemParts DEF OriginInv, CoverInv
<1>8. CASE HasEntry(i) /\ NextEntry(i)
  <2>1. PICK f \in EntryId : f = <<i[1], at[i]>> /\ EntryAt(f) = Entry(i)
    BY <1>0, <1>8, NextEntryId
  <2>2. \A e \in EntryId, p \in Phase :
          Passed(e, p)' <=> Passed(e, p) \/ (e = f /\ p = i[2])
    BY <1>0, <1>8, <2>1, PassedNext
  <2>3. CASE Entry(i).kind # "dir" /\ \A j \in Item : Known(j)' <=> Known(j)
    <3>1. OriginInv'
      BY <1>0, <1>1, <2>2, <2>3, ItemParts DEF OriginInv
    <3>2. \A e \in EntryId, p \in Phase :
            EntryAt(e).kind = "dir" /\ Passed(e, p)' => Known(<<EntryAt(e).dir, p>>)'
      BY <1>0, <1>6, <2>2, <2>1, <2>3 DEF CoverInv
    <3> QED BY <1>5, <3>1, <3>2 DEF CoverInv
  <2>4. CASE /\ Entry(i).kind = "dir"
             /\ \A j \in Item : Known(j)' <=> Known(j) \/ j = <<Entry(i).dir, i[2]>>
    <3>1. OriginInv'
      <4> SUFFICES ASSUME NEW j \in Item, Known(j)'
                   PROVE  \/ \E k \in 1..Len(Drives) :
                               Drives[k] = j[1] /\ DriveQueued(k, j[2])'
                          \/ \E e \in EntryId : EntryAt(e) = Sub(j[1]) /\ Passed(e, j[2])'
        BY DEF OriginInv
      <4>1. CASE Known(j)
        BY <1>0, <1>1, <2>2, <4>1, ItemParts DEF OriginInv
      <4>2. CASE j = <<Entry(i).dir, i[2]>>
        <5>1. j[1] = Entry(i).dir /\ j[2] = i[2] /\ i[2] \in Phase
          BY <4>2, ItemParts
        <5>2. EntryAt(f) = Sub(j[1])
          BY <1>6, <2>1, <2>4, <5>1
        <5>3. Passed(f, j[2])'
          BY <2>2, <5>1
        <5> QED BY <2>1, <5>2, <5>3
      <4> QED BY <2>4, <4>1, <4>2
    <3>2. \A e \in EntryId, p \in Phase :
            EntryAt(e).kind = "dir" /\ Passed(e, p)' => Known(<<EntryAt(e).dir, p>>)'
      BY <1>0, <1>6, <2>2, <2>1, <2>4 DEF CoverInv
    <3> QED BY <1>5, <3>1, <3>2 DEF CoverInv
  <2> QED BY <1>7, <2>3, <2>4, CallbackKnown
<1> QED BY <1>7, <1>8, CallbackKnown

\* wmain leaves no drive out, unless it gives up.
LEMMA CoverMain == IInv /\ Main => CoverInv'
<1> SUFFICES ASSUME IInv, Main PROVE CoverInv'
  OBVIOUS
<1>0. TypeOK /\ CoverInv /\ TableInv
  BY DEF IInv
<1>1. UNCHANGED <<at, lost>> /\ \A j \in Item : Known(j) => Known(j)'
  BY MainKnown
<1>2. \A e \in EntryId, p \in Phase :
        EntryAt(e).kind = "dir" /\ Passed(e, p)' => Known(<<EntryAt(e).dir, p>>)'
  <2>1. \A e \in EntryId, p \in Phase : Passed(e, p)' <=> Passed(e, p)
    BY <1>1 DEF Passed
  <2>2. \A e \in EntryId, p \in Phase :
          EntryAt(e).kind = "dir" => <<EntryAt(e).dir, p>> \in Item
    BY EntryParts, EntryKinds DEF Item
  <2> QED BY <1>0, <1>1, <2>1, <2>2 DEF CoverInv
<1>3. CASE faulted' \cap {"queueDrive", "driveMask"} = {}
  <2>1. ~ScanFails /\ faulted' = faulted
    BY <1>3 DEF Main, ClearTable, FillTable, QueueDrive, SubmitDrive, ScanFails,
       Drain, CloseMembers, DestroyThreadPool, Fault
  <2>2. /\ \A k \in 1..Len(Drives), p \in Phase :
             DriveQueued(k, p) => stage[<<Drives[k], p>>] # "none"
        /\ mpc \in {"close", "destroy", "recap"} => drive = Len(Drives) + 1
    BY <1>0, <1>3, <2>1 DEF CoverInv
  <2>3. mpc' \in {"close", "destroy", "recap"} => drive' = Len(Drives) + 1
    <3>1. drive \in 1..Len(Drives) + 1 /\ Len(Drives) \in Nat
      BY <1>0, ScanPoolAssumption DEF TypeOK
    <3>2. CASE Drain
      BY <3>1, <3>2 DEF Drain
    <3>3. CASE ~Drain
      BY <2>1, <2>2, <3>3 DEF Main, ClearTable, FillTable, QueueDrive, SubmitDrive,
         CloseMembers, DestroyThreadPool, Returns
    <3> QED BY <3>2, <3>3
  <2>4. ASSUME NEW k \in 1..Len(Drives), NEW p \in Phase, DriveQueued(k, p)'
        PROVE  stage'[<<Drives[k], p>>] # "none"
    <3>1. <<Drives[k], p>> \in Item /\ stage \in [Item -> Stage]
      BY <1>0, ScanPoolAssumption DEF Item, TypeOK, Stage
    <3>2. \A j \in Item : stage[j] # "none" => stage'[j] # "none"
      BY <3>1, MainKnown DEF SubmitDrive
    <3>3. CASE DriveQueued(k, p)
      BY <2>2, <3>1, <3>2, <3>3
    <3>4. CASE SubmitDrive /\ k = drive /\ p = phase
      BY <3>1, <3>4 DEF SubmitDrive
    <3>5. CASE CloseMembers /\ p = phase
      <4>1. mpc = "close" /\ k < Len(Drives) + 1
        BY <3>5, ScanPoolAssumption DEF CloseMembers
      <4>2. DriveQueued(k, p)
        BY <2>2, <3>5, <4>1 DEF DriveQueued
      <4> QED BY <2>2, <3>1, <3>2, <4>2
    <3> QED BY <2>1, <2>4, <3>3, <3>4, <3>5, DrivesMain
  <2> QED BY <1>2, <2>3, <2>4 DEF CoverInv
<1> QED BY <1>2, <1>3 DEF CoverInv

\* A listing begins at the first entry and ends behind the last.
LEMMA ListingMain == IInv /\ Main => ListingInv'
<1> SUFFICES ASSUME IInv, Main PROVE ListingInv'
  OBVIOUS
<1>0. TypeOK /\ ListingInv
  BY DEF IInv
<1>1. UNCHANGED <<at, lost, cut>>
  BY MainKnown
<1>2. \A i \in Item : (HasEntry(i)' <=> HasEntry(i)) /\ Entry(i)' = Entry(i)
  BY <1>1 DEF HasEntry, Entry
<1>3. CASE SubmitDrive
  <2>1. PICK s \in Item : s = <<Drives[drive], phase>> /\ ~Known(s)
    BY <1>3, DriveIsNew DEF SubmitDrive
  <2>2. stage' = [stage EXCEPT ![s] = "queued"] /\ stage \in [Item -> Stage]
    BY <1>0, <1>3, <2>1 DEF SubmitDrive, TypeOK, Stage
  <2> QED BY <1>0, <1>1, <1>2, <2>1, <2>2 DEF ListingInv, Known
<1>4. CASE UNCHANGED stage
  BY <1>0, <1>1, <1>2, <1>4 DEF ListingInv
<1> QED BY <1>3, <1>4, MainKnown

\* A callback lists its own directory only.
LEMMA ListingCallback ==
  ASSUME IInv, NEW i \in Item, ScanDirectoryCallback(i)
  PROVE  ListingInv'
<1>0. TypeOK /\ ListingInv
  BY DEF IInv
<1>a. stage \in [Item -> Stage] /\ at \in [Item -> Nat \ {0}]
  BY <1>0 DEF TypeOK, Stage
<1>b. \A j \in Item : Len(Listing[j[1]]) \in Nat
  BY ItemParts, ListingType
<1>c. \A j \in Item : at'[j] = at[j] =>
        (HasEntry(j)' <=> HasEntry(j)) /\ Entry(j)' = Entry(j)
  BY DEF HasEntry, Entry
<1>d. NextEntry(i) => at'[i] = at[i] + 1 /\ \A j \in Item : j # i => at'[j] = at[j]
  BY <1>a DEF NextEntry
<1>1. CASE BeginCallback(i)
  <2>1. stage[i] = "queued" /\ UNCHANGED <<at, cut>>
    BY <1>1 DEF BeginCallback
  <2>2. \/ stage' = [stage EXCEPT ![i] = "listing"] /\ UNCHANGED lost
        \/ stage' = [stage EXCEPT ![i] = "cleanup"] /\ lost' = lost \cup {i}
    BY <1>1 DEF BeginCallback
  <2> QED BY <1>0, <1>a, <1>c, <2>1, <2>2 DEF ListingInv
<1>2. CASE SkipEntry(i) \/ ScanFile(i)
  <2>1. /\ stage[i] = "listing" /\ HasEntry(i) /\ NextEntry(i)
        /\ UNCHANGED <<stage, lost, cut>>
    BY <1>2 DEF SkipEntry, ScanFile
  <2> QED BY <1>0, <1>a, <1>b, <1>c, <1>d, <2>1 DEF ListingInv, HasEntry
<1>3. CASE CountSubdirectory(i)
  <2>1. stage[i] = "listing" /\ HasEntry(i) /\ Entry(i).kind = "dir" /\ UNCHANGED cut
    BY <1>3 DEF CountSubdirectory
  <2>2. CASE stage' = [stage EXCEPT ![i] = "counted"] /\ UNCHANGED <<at, lost>>
    BY <1>0, <1>a, <1>c, <2>1, <2>2 DEF ListingInv
  <2>3. CASE /\ lost' = lost \cup {<<Entry(i).dir, i[2]>>}
             /\ NextEntry(i) /\ UNCHANGED stage
    <3>1. PICK s \in Item : s = <<Entry(i).dir, i[2]>> /\ ~Known(s)
      BY <1>0, <2>1, NextEntryId, SubdirectoryIsNew
    <3>2. s # i /\ stage[s] = "none" /\ s \notin lost
      BY <2>1, <3>1 DEF Known
    <3>3. /\ at'[i] <= Len(Listing[i[1]]) + 1 /\ i \notin lost'
          /\ stage'[i] = "listing"
      <4>1. i \notin lost /\ at[i] <= Len(Listing[i[1]])
        BY <1>0, <2>1 DEF ListingInv, HasEntry
      <4>2. i \notin lost' /\ stage'[i] = "listing"
        BY <2>1, <2>3, <3>1, <3>2, <4>1
      <4> QED BY <1>a, <1>b, <1>d, <2>3, <4>1, <4>2
    <3>4. at'[s] = at[s] /\ stage'[s] = "none"
      BY <1>d, <2>3, <3>2
    <3>5. \A j \in Item \ {i, s} :
            at'[j] = at[j] /\ stage'[j] = stage[j] /\ (j \in lost' <=> j \in lost)
      BY <1>d, <2>3, <3>1
    <3> QED BY <1>0, <1>c, <2>1, <3>2, <3>3, <3>4, <3>5 DEF ListingInv
  <2> QED BY <1>3, <2>2, <2>3 DEF CountSubdirectory
<1>4. CASE SubmitSubdirectory(i)
  <2>1. stage[i] = "counted" /\ NextEntry(i) /\ UNCHANGED <<lost, cut>>
    BY <1>4 DEF SubmitSubdirectory
  <2>2. HasEntry(i) /\ Entry(i).kind = "dir"
    BY <1>0, <2>1 DEF ListingInv
  <2>3. PICK s \in Item : s = <<Entry(i).dir, i[2]>> /\ ~Known(s)
    BY <1>0, <2>2, NextEntryId, SubdirectoryIsNew
  <2>4. stage' = [stage EXCEPT ![i] = "listing", ![s] = "queued"]
    BY <1>4, <2>3 DEF SubmitSubdirectory
  <2>5. s # i /\ stage[s] = "none" /\ s \notin lost
    BY <2>1, <2>3 DEF Known
  <2> QED BY <1>0, <1>a, <1>b, <1>c, <1>d, <2>1, <2>2, <2>4, <2>5
          DEF ListingInv, HasEntry
<1>5. CASE EndListing(i)
  <2>1. /\ stage[i] = "listing" /\ UNCHANGED <<at, lost>>
        /\ stage' = [stage EXCEPT ![i] = "cleanup"]
        /\ cut' = IF HasEntry(i) THEN cut \cup {i} ELSE cut
    BY <1>5 DEF EndListing
  <2>2. HasEntry(i) \/ at[i] = Len(Listing[i[1]]) + 1
    BY <1>0, <1>a, <1>b, <2>1 DEF ListingInv, HasEntry
  <2> QED BY <1>0, <1>a, <1>c, <2>1, <2>2 DEF ListingInv
<1>6. CASE EndCallback(i)
  <2>1. /\ stage[i] = "cleanup" /\ UNCHANGED <<at, lost, cut>>
        /\ stage' = [stage EXCEPT ![i] = "done"]
    BY <1>6 DEF EndCallback
  <2> QED BY <1>0, <1>a, <1>c, <2>1 DEF ListingInv
<1> QED BY <1>1, <1>2, <1>3, <1>4, <1>5, <1>6 DEF ScanDirectoryCallback
-----------------------------------------------------------------------------
(* The counters *)

\* The files seen when a listing goes on by one entry.
LEMMA SeenNext ==
  ASSUME TypeOK, NEW i \in Item, HasEntry(i), NextEntry(i), NEW p \in Phase, NEW H
  PROVE  /\ \/ ~(p = i[2] /\ Entry(i).kind = "file" /\ Entry(i).hash \in H)
            \/ /\ <<i[1], at[i]>> \notin Seen(p, H)
               /\ Seen(p, H)' = Seen(p, H) \cup {<<i[1], at[i]>>}
         /\ \/ p = i[2] /\ Entry(i).kind = "file" /\ Entry(i).hash \in H
            \/ Seen(p, H)' = Seen(p, H)
<1>1. PICK f \in EntryId : f = <<i[1], at[i]>> /\ EntryAt(f) = Entry(i)
  BY NextEntryId
<1>2. /\ ~Passed(f, i[2])
      /\ \A e \in EntryId, q \in Phase : Passed(e, q)' <=> Passed(e, q) \/ (e = f /\ q = i[2])
  BY <1>1, PassedNext
<1> QED BY <1>1, <1>2 DEF Seen

\* The same for the sizes of these sets.
LEMMA SeenCount ==
  ASSUME TypeOK, NEW i \in Item, HasEntry(i), NextEntry(i), NEW p \in Phase, NEW H,
         IsFiniteSet(Seen(p, H))
  PROVE  /\ IsFiniteSet(Seen(p, H)') /\ Cardinality(Seen(p, H)) \in Nat
         /\ p = i[2] /\ Entry(i).kind = "file" /\ Entry(i).hash \in H =>
              Cardinality(Seen(p, H)') = Cardinality(Seen(p, H)) + 1
         /\ ~(p = i[2] /\ Entry(i).kind = "file" /\ Entry(i).hash \in H) =>
              Cardinality(Seen(p, H)') = Cardinality(Seen(p, H))
<1>1. CASE p = i[2] /\ Entry(i).kind = "file" /\ Entry(i).hash \in H
  <2>1. PICK f : f \notin Seen(p, H) /\ Seen(p, H)' = Seen(p, H) \cup {f}
    BY <1>1, SeenNext
  <2> QED BY <1>1, <2>1, OneMore
<1>2. CASE ~(p = i[2] /\ Entry(i).kind = "file" /\ Entry(i).hash \in H)
  BY <1>2, SeenNext, FS_CardinalityType
<1> QED BY <1>1, <1>2

\* The counters start from zero when nothing has been counted.
LEMMA CountersMain == IInv /\ Main => CountersInv'
<1> SUFFICES ASSUME IInv, Main, NEW p \in Phase
             PROVE  /\ IsFiniteSet(Seen(p, Hashes \cup {NoExtension})')
                    /\ g_Counters'[p].files_seen
                         = Cardinality(Seen(p, Hashes \cup {NoExtension})')
                    /\ g_Counters'[p].files_with_extension = Cardinality(Seen(p, Hashes)')
                    /\ "queueDrive" \notin faulted' =>
                         g_Counters'[p].files_matched = Cardinality(Seen(p, HashArray[p])')
                    /\ IsFiniteSet(Begun(p)')
                    /\ g_Counters'[p].directories_seen = Cardinality(Begun(p)')
                    /\ IsFiniteSet(LostIn(p)')
                    /\ g_Counters'[p].directories_failed = Cardinality(LostIn(p)')
  BY DEF CountersInv
<1>0. TypeOK /\ CountersInv /\ FreshInv /\ ListingInv
  BY DEF IInv
<1>1. UNCHANGED <<at, lost>>
  BY MainKnown
<1>2. LostIn(p)' = LostIn(p) /\ \A H : Seen(p, H)' = Seen(p, H)
  BY <1>1 DEF LostIn, Seen, Passed
<1>3. Begun(p)' = Begun(p)
  <2>1. CASE SubmitDrive
    <3>1. PICK s \in Item : s = <<Drives[drive], phase>> /\ ~Known(s)
      BY <2>1, DriveIsNew DEF SubmitDrive
    <3>2. /\ stage' = [stage EXCEPT ![s] = "queued"] /\ stage \in [Item -> Stage]
          /\ stage[s] = "none"
      BY <1>0, <2>1, <3>1 DEF SubmitDrive, TypeOK, Stage, Known
    <3>3. \A d \in Dir : stage'[<<d, p>>] \in {"none", "queued"}
                           <=> stage[<<d, p>>] \in {"none", "queued"}
      BY <3>1, <3>2 DEF Item
    <3> QED BY <3>3 DEF Begun
  <2>2. CASE UNCHANGED stage
    BY <2>2 DEF Begun
  <2> QED BY <2>1, <2>2, MainKnown
<1>4. "queueDrive" \notin faulted' => "queueDrive" \notin faulted
  BY DEF Main, ClearTable, FillTable, QueueDrive, SubmitDrive, ScanFails, Drain,
     CloseMembers, DestroyThreadPool, Fault
<1>5. CASE ClearTable /\ p = phase
  <2>1. \A i \in Item : i[2] = p => ~Known(i) /\ at[i] = 1
    BY <1>0, <1>5 DEF ClearTable, FreshInv, ListingInv, Known
  <2>2. Begun(p) = {} /\ LostIn(p) = {}
    BY <1>0, <2>1 DEF Begun, LostIn, Known, Item, TypeOK
  <2>3. \A H : Seen(p, H) = {}
    <3>1. ASSUME NEW e \in EntryId PROVE ~Passed(e, p)
      <4>1. <<e[1], p>> \in Item /\ e[2] \in Nat /\ e[2] >= 1
        BY EntryParts, ListingType DEF Item
      <4> QED BY <2>1, <4>1 DEF Passed
    <3> QED BY <3>1 DEF Seen
  <2>4. /\ g_Counters'[p].files_seen = 0 /\ g_Counters'[p].files_with_extension = 0
        /\ g_Counters'[p].files_matched = 0
        /\ g_Counters'[p].directories_seen = 0 /\ g_Counters'[p].directories_failed = 0
    BY <1>0, <1>5 DEF ClearTable, ZeroCounters, TypeOK
  <2> QED BY <1>2, <1>3, <2>2, <2>3, <2>4, FS_EmptySet
<1>6. CASE ~(ClearTable /\ p = phase)
  <2>1. g_Counters'[p] = g_Counters[p]
    BY <1>0, <1>6 DEF Main, ClearTable, FillTable, QueueDrive, SubmitDrive,
       ScanFails, Drain, CloseMembers, DestroyThreadPool, TypeOK
  <2> QED BY <1>0, <1>2, <1>3, <1>4, <2>1 DEF CountersInv
<1> QED BY <1>5, <1>6

\* A callback counts its directory, every file of it and every failure once.
LEMMA CountersCallback ==
  ASSUME IInv, NEW i \in Item, ScanDirectoryCallback(i)
  PROVE  CountersInv'
<1> DEFINE All == Hashes \cup {NoExtension}
<1> SUFFICES ASSUME NEW p \in Phase
             PROVE  /\ IsFiniteSet(Seen(p, All)')
                    /\ g_Counters'[p].files_seen = Cardinality(Seen(p, All)')
                    /\ g_Counters'[p].files_with_extension = Cardinality(Seen(p, Hashes)')
                    /\ "queueDrive" \notin faulted' =>
                         g_Counters'[p].files_matched = Cardinality(Seen(p, HashArray[p])')
                    /\ IsFiniteSet(Begun(p)')
                    /\ g_Counters'[p].directories_seen = Cardinality(Begun(p)')
                    /\ IsFiniteSet(LostIn(p)')
                    /\ g_Counters'[p].directories_failed = Cardinality(LostIn(p)')
  BY DEF CountersInv
<1>0. TypeOK /\ TableInv /\ ListingInv
  BY DEF IInv
<1>a. /\ stage \in [Item -> Stage] /\ g_Counters \in [Phase -> Counters]
      /\ at \in [Item -> Nat \ {0}]
  BY <1>0 DEF TypeOK, Stage, Counters
<1>b. i \in Alive /\ i[2] \in Phase /\ i[1] \in Dir /\ i = <<i[1], i[2]>>
  BY CallbackTasks, ItemParts
<1>c. "queueDrive" \in faulted' <=> "queueDrive" \in faulted
  BY CallbackFrame
<1>d. /\ IsFiniteSet(Seen(p, All))
      /\ g_Counters[p].files_seen = Cardinality(Seen(p, All))
      /\ g_Counters[p].files_with_extension = Cardinality(Seen(p, Hashes))
      /\ "queueDrive" \notin faulted =>
           g_Counters[p].files_matched = Cardinality(Seen(p, HashArray[p]))
      /\ IsFiniteSet(Begun(p))
      /\ g_Counters[p].directories_seen = Cardinality(Begun(p))
      /\ IsFiniteSet(LostIn(p))
      /\ g_Counters[p].directories_failed = Cardinality(LostIn(p))
  BY DEF IInv, CountersInv
<1>e. /\ IsFiniteSet(Seen(p, Hashes)) /\ IsFiniteSet(Seen(p, HashArray[p]))
      /\ HashArray[p] \subseteq Hashes
  <2>1. HashArray[p] \subseteq Hashes
    BY DEF Phase, Hashes
  <2>2. Seen(p, Hashes) \subseteq Seen(p, All) /\ Seen(p, HashArray[p]) \subseteq Seen(p, All)
    BY <2>1 DEF Seen
  <2> QED BY <1>d, <2>1, <2>2, FS_Subset
<1>f. UNCHANGED at => \A H : Seen(p, H)' = Seen(p, H)
  BY DEF Seen, Passed
<1>g. UNCHANGED lost => LostIn(p)' = LostIn(p)
  BY DEF LostIn
<1>h. \A x : HasEntry(i) /\ NextEntry(i) /\ Entry(i).kind = x /\ x # "file" =>
        \A H : Seen(p, H)' = Seen(p, H)
  BY <1>0, SeenNext
<1> HIDE DEF All
<1>1. CASE BeginCallback(i)
  <2>1. stage[i] = "queued" /\ UNCHANGED at
    BY <1>1 DEF BeginCallback
  <2>2. PICK x \in {"listing", "cleanup"} : stage' = [stage EXCEPT ![i] = x]
    BY <1>1 DEF BeginCallback
  <2>3. /\ p = i[2] => Begun(p)' = Begun(p) \cup {i[1]} /\ i[1] \notin Begun(p)
        /\ p # i[2] => Begun(p)' = Begun(p)
    BY <1>a, <1>b, <2>1, <2>2 DEF Begun, Item
  <2>4. /\ IsFiniteSet(Begun(p)')
        /\ p = i[2] => Cardinality(Begun(p)') = Cardinality(Begun(p)) + 1
    BY <1>d, <2>3, OneMore
  <2>5. i \notin LostIn(p)
    BY <1>0, <2>1 DEF ListingInv, LostIn
  <2>6. CASE /\ UNCHANGED lost
             /\ g_Counters' = [g_Counters EXCEPT ![i[2]].directories_seen = @ + 1]
    BY <1>a, <1>b, <1>c, <1>d, <1>f, <1>g, <2>1, <2>3, <2>4, <2>6, BeginCounts
  <2>7. CASE /\ lost' = lost \cup {i}
             /\ g_Counters' = [g_Counters EXCEPT ![i[2]].directories_seen = @ + 1,
                                                 ![i[2]].directories_failed = @ + 1]
    <3>1. /\ p = i[2] => LostIn(p)' = LostIn(p) \cup {i}
          /\ p # i[2] => LostIn(p)' = LostIn(p)
      BY <2>7 DEF LostIn
    <3>2. /\ IsFiniteSet(LostIn(p)')
          /\ p = i[2] => Cardinality(LostIn(p)') = Cardinality(LostIn(p)) + 1
      BY <1>d, <2>5, <3>1, OneMore
    <3>3. /\ g_Counters'[p].files_seen = g_Counters[p].files_seen
          /\ g_Counters'[p].files_with_extension = g_Counters[p].files_with_extension
          /\ g_Counters'[p].files_matched = g_Counters[p].files_matched
          /\ p = i[2] =>
               /\ g_Counters'[p].directories_seen = g_Counters[p].directories_seen + 1
               /\ g_Counters'[p].directories_failed = g_Counters[p].directories_failed + 1
          /\ p # i[2] => g_Counters'[p] = g_Counters[p]
      BY <1>a, <1>b, <2>7, BeginFailureCounts
    <3> QED BY <1>c, <1>d, <1>f, <2>1, <2>3, <2>4, <3>1, <3>2, <3>3
  <2> QED BY <1>1, <2>6, <2>7 DEF BeginCallback
<1>2. CASE SkipEntry(i)
  <2>1. /\ HasEntry(i) /\ Entry(i).kind = "skipped" /\ NextEntry(i)
        /\ UNCHANGED <<stage, lost, g_Counters>>
    BY <1>2 DEF SkipEntry
  <2>2. Begun(p)' = Begun(p)
    BY <2>1 DEF Begun
  <2> QED BY <1>c, <1>d, <1>g, <1>h, <2>1, <2>2
<1>3. CASE ScanFile(i)
  <2>1. /\ HasEntry(i) /\ Entry(i).kind = "file" /\ NextEntry(i)
        /\ UNCHANGED <<stage, lost>>
    BY <1>3 DEF ScanFile
  <2>2. Begun(p)' = Begun(p)
    BY <2>1 DEF Begun
  <2>3. PICK h : h = Entry(i).hash
    OBVIOUS
  <2>a. PICK e \in {0, 1} : e = IF h # NoExtension THEN 1 ELSE 0
    OBVIOUS
  <2>b. PICK m \in {0, 1} : m = IF h \in g_HashTable THEN 1 ELSE 0
    OBVIOUS
  <2>4. /\ e = 1 <=> h # NoExtension
        /\ m = 1 <=> h \in g_HashTable
        /\ g_Counters' = [g_Counters EXCEPT ![i[2]].files_seen = @ + 1,
                                            ![i[2]].files_with_extension = @ + e,
                                            ![i[2]].files_matched = @ + m]
    <3>1. e = 1 <=> h # NoExtension
      BY <2>a
    <3>2. m = 1 <=> h \in g_HashTable
      BY <2>b
    <3> QED BY <1>3, <2>3, <2>a, <2>b, <3>1, <3>2 DEF ScanFile
  <2>5. h \in All /\ (h \in Hashes <=> h # NoExtension)
    BY <1>0, <2>1, <2>3, NextEntryId, EntryKinds, ScanPoolAssumption DEF Hashes, All
  <2>6. "queueDrive" \notin faulted => g_HashTable = HashArray[i[2]]
    <3>1. "queueDrive" \notin faulted /\ i \in Alive =>
            g_HashTable = HashArray[phase] /\ i[2] = phase
      BY <1>0 DEF TableInv, TypeOK
    <3> QED BY <1>b, <3>1
  <2>7. ASSUME NEW H, IsFiniteSet(Seen(p, H))
        PROVE  /\ IsFiniteSet(Seen(p, H)') /\ Cardinality(Seen(p, H)) \in Nat
               /\ p = i[2] /\ h \in H =>
                    Cardinality(Seen(p, H)') = Cardinality(Seen(p, H)) + 1
               /\ ~(p = i[2] /\ h \in H) =>
                    Cardinality(Seen(p, H)') = Cardinality(Seen(p, H))
    BY <1>0, <2>1, <2>3, <2>7, SeenCount
  <2>8. CASE p = i[2]
    <3>1. /\ g_Counters'[p].directories_seen = g_Counters[p].directories_seen
          /\ g_Counters'[p].directories_failed = g_Counters[p].directories_failed
          /\ g_Counters'[p].files_seen = g_Counters[p].files_seen + 1
          /\ g_Counters'[p].files_with_extension = g_Counters[p].files_with_extension + e
          /\ g_Counters'[p].files_matched = g_Counters[p].files_matched + m
      BY <1>a, <1>b, <2>4, <2>8, FileCounts
    <3>2. /\ IsFiniteSet(Seen(p, All)')
          /\ g_Counters'[p].files_seen = Cardinality(Seen(p, All)')
      BY <1>d, <2>5, <2>7, <2>8, <3>1
    <3>3. g_Counters'[p].files_with_extension = Cardinality(Seen(p, Hashes)')
      BY <1>d, <1>e, <2>4, <2>5, <2>7, <2>8, <3>1
    <3>4. "queueDrive" \notin faulted' =>
            g_Counters'[p].files_matched = Cardinality(Seen(p, HashArray[p])')
      BY <1>c, <1>d, <1>e, <2>4, <2>6, <2>7, <2>8, <3>1
    <3> QED BY <1>d, <1>g, <2>1, <2>2, <3>1, <3>2, <3>3, <3>4
  <2>9. CASE p # i[2]
    <3>1. g_Counters'[p] = g_Counters[p]
      BY <1>a, <1>b, <2>4, <2>9, FileCounts
    <3>2. \A H : Seen(p, H)' = Seen(p, H)
      BY <1>0, <2>1, <2>9, SeenNext
    <3> QED BY <1>c, <1>d, <1>g, <2>1, <2>2, <3>1, <3>2
  <2> QED BY <2>8, <2>9
<1>4. CASE CountSubdirectory(i)
  <2>1. stage[i] = "listing" /\ HasEntry(i) /\ Entry(i).kind = "dir"
    BY <1>4 DEF CountSubdirectory
  <2>2. CASE /\ stage' = [stage EXCEPT ![i] = "counted"]
             /\ UNCHANGED <<at, g_Counters, lost>>
    <3>1. Begun(p)' = Begun(p)
      BY <1>a, <1>b, <2>1, <2>2 DEF Begun, Item
    <3> QED BY <1>c, <1>d, <1>f, <1>g, <2>2, <3>1
  <2>3. CASE /\ g_Counters' = [g_Counters EXCEPT ![i[2]].directories_failed = @ + 1]
             /\ lost' = lost \cup {<<Entry(i).dir, i[2]>>}
             /\ NextEntry(i) /\ UNCHANGED stage
    <3>1. PICK s \in Item : s = <<Entry(i).dir, i[2]>> /\ ~Known(s)
      BY <1>0, <2>1, NextEntryId, SubdirectoryIsNew
    <3>2. /\ p = i[2] => LostIn(p)' = LostIn(p) \cup {s} /\ s \notin LostIn(p)
          /\ p # i[2] => LostIn(p)' = LostIn(p)
      BY <2>3, <3>1 DEF LostIn, Known
    <3>3. /\ IsFiniteSet(LostIn(p)')
          /\ p = i[2] => Cardinality(LostIn(p)') = Cardinality(LostIn(p)) + 1
      BY <1>d, <3>2, OneMore
    <3>4. Begun(p)' = Begun(p) /\ \A H : Seen(p, H)' = Seen(p, H)
      BY <1>h, <2>1, <2>3 DEF Begun
    <3> QED BY <1>a, <1>b, <1>c, <1>d, <2>3, <3>2, <3>3, <3>4, FailureCounts
  <2> QED BY <1>4, <2>2, <2>3 DEF CountSubdirectory
<1>5. CASE SubmitSubdirectory(i)
  <2>1. stage[i] = "counted" /\ NextEntry(i) /\ UNCHANGED <<lost, g_Counters>>
    BY <1>5 DEF SubmitSubdirectory
  <2>2. HasEntry(i) /\ Entry(i).kind = "dir"
    BY <1>0, <2>1 DEF ListingInv
  <2>3. PICK s \in Item : s = <<Entry(i).dir, i[2]>> /\ ~Known(s)
    BY <1>0, <2>2, NextEntryId, SubdirectoryIsNew
  <2>4. stage' = [stage EXCEPT ![i] = "listing", ![s] = "queued"] /\ stage[s] = "none"
    BY <1>5, <2>3 DEF SubmitSubdirectory, Known
  <2>5. \A j \in Item : stage'[j] \in {"none", "queued"} <=> stage[j] \in {"none", "queued"}
    BY <1>a, <2>1, <2>4
  <2>6. Begun(p)' = Begun(p)
    BY <2>5 DEF Begun, Item
  <2> QED BY <1>c, <1>d, <1>g, <1>h, <2>1, <2>2, <2>6
<1>6. CASE EndListing(i) \/ EndCallback(i)
  <2>1. UNCHANGED <<at, lost, g_Counters>> /\ stage[i] \in {"listing", "cleanup"}
    BY <1>6 DEF EndListing, EndCallback
  <2>2. PICK x \in {"cleanup", "done"} : stage' = [stage EXCEPT ![i] = x]
    BY <1>6 DEF EndListing, EndCallback
  <2>3. Begun(p)' = Begun(p)
    BY <1>a, <1>b, <2>1, <2>2 DEF Begun, Item
  <2> QED BY <1>c, <1>d, <1>f, <1>g, <2>1, <2>3
<1> QED BY <1>1, <1>2, <1>3, <1>4, <1>5, <1>6 DEF ScanDirectoryCallback
-----------------------------------------------------------------------------
(* The invariant of the specification *)

\* At the start nothing is queued, known, passed or counted.
LEMMA InitInv == Init => IInv
<1> SUFFICES ASSUME Init PROVE IInv
  OBVIOUS
<1> USE DEF Init
<1>1. TypeOK
  <2>1. Len(Drives) \in Nat /\ phase \in Phase /\ drive \in 1..Len(Drives) + 1
    BY ScanPoolAssumption DEF Phase
  <2>2. g_Counters \in [Phase -> Counters]
    BY DEF Counters, ZeroCounters
  <2> QED BY <2>1, <2>2 DEF TypeOK, Counters
<1>2. \A i \in Item : stage[i] = "none" /\ at[i] = 1 /\ i \notin lost
  OBVIOUS
<1>3. Alive = {} /\ Counted = {}
  BY <1>2 DEF Alive, Counted
<1>4. CountInv
  BY <1>3, FS_EmptySet DEF CountInv
<1>5. TableInv
  BY <1>3 DEF TableInv
<1>6. FreshInv /\ OriginInv
  BY <1>2 DEF FreshInv, OriginInv, Known
<1>7. \A e \in EntryId, p \in Phase : ~Passed(e, p)
  <2> SUFFICES ASSUME NEW e \in EntryId, NEW p \in Phase PROVE ~Passed(e, p)
    OBVIOUS
  <2>1. <<e[1], p>> \in Item /\ e[2] \in Nat /\ e[2] >= 1
    BY EntryParts, ListingType DEF Item
  <2> QED BY <1>2, <2>1 DEF Passed
<1>8. CoverInv
  BY <1>7 DEF CoverInv, DriveQueued, Phase
<1>9. ListingInv
  <2>1. \A i \in Item : 1 <= Len(Listing[i[1]]) + 1
    BY ItemParts, ListingType
  <2> QED BY <1>2, <2>1 DEF ListingInv
<1>10. CountersInv
  <2> SUFFICES ASSUME NEW p \in Phase
               PROVE  /\ Begun(p) = {} /\ LostIn(p) = {}
                      /\ \A H : Seen(p, H) = {}
                      /\ g_Counters[p] = ZeroCounters
    BY FS_EmptySet DEF CountersInv, ZeroCounters
  <2>1. Begun(p) = {} /\ LostIn(p) = {}
    BY <1>2 DEF Begun, LostIn, Item
  <2> QED BY <1>7, <2>1 DEF Seen
<1> QED BY <1>1, <1>4, <1>5, <1>6, <1>8, <1>9, <1>10 DEF IInv

\* A step that changes nothing keeps all of it.
LEMMA Stutter == IInv /\ UNCHANGED vars => IInv'
<1> SUFFICES ASSUME IInv, UNCHANGED vars PROVE IInv'
  OBVIOUS
<1> USE DEF vars, mainVars, taskVars
<1>1. TypeOK'
  BY DEF IInv, TypeOK
<1>2. Alive' = Alive /\ Counted' = Counted
  BY DEF Alive, Counted
<1>3. CountInv' /\ TableInv'
  BY <1>2 DEF IInv, CountInv, TableInv
<1>4. /\ \A j : Known(j)' <=> Known(j)
      /\ \A e, p : Passed(e, p)' <=> Passed(e, p)
      /\ \A k, p : DriveQueued(k, p)' <=> DriveQueued(k, p)
  BY DEF Known, Passed, DriveQueued
<1>5. FreshInv' /\ OriginInv' /\ CoverInv'
  BY <1>4 DEF IInv, FreshInv, OriginInv, CoverInv
<1>6. ListingInv'
  BY DEF IInv, ListingInv, HasEntry, Entry
<1>7. CountersInv'
  <2>1. /\ \A p, H : Seen(p, H)' = Seen(p, H)
        /\ \A p : Begun(p)' = Begun(p) /\ LostIn(p)' = LostIn(p)
    BY DEF Seen, Passed, Begun, LostIn
  <2> QED BY <2>1 DEF IInv, CountersInv
<1> QED BY <1>1, <1>3, <1>5, <1>6, <1>7 DEF IInv

\* Every step keeps the invariant.
LEMMA NextInv == IInv /\ [Next]_vars => IInv'
<1> SUFFICES ASSUME IInv, [Next]_vars PROVE IInv'
  OBVIOUS
<1>1. CASE Main
  <2>1. TypeOK' /\ CountInv'
    BY <1>1, TypeMain, CountStep
  <2>2. TableInv' /\ FreshInv' /\ OriginInv' /\ CoverInv'
    BY <1>1, PhaseMain, OriginMain, CoverMain
  <2>3. ListingInv' /\ CountersInv'
    BY <1>1, ListingMain, CountersMain
  <2> QED BY <2>1, <2>2, <2>3 DEF IInv
<1>2. ASSUME NEW i \in Item, ScanDirectoryCallback(i)
      PROVE  IInv'
  <2>1. TypeOK' /\ CountInv'
    BY <1>2, TypeCallback, CountStep
  <2>2. TableInv' /\ FreshInv' /\ OriginInv' /\ CoverInv'
    BY <1>2, PhaseCallback, OriginCallback
  <2>3. ListingInv' /\ CountersInv'
    BY <1>2, ListingCallback, CountersCallback
  <2> QED BY <2>1, <2>2, <2>3 DEF IInv
<1>3. CASE UNCHANGED vars
  BY <1>3, Stutter
<1> QED BY <1>1, <1>2, <1>3 DEF Next, Done

\* IInv is an invariant of the program, for every forest of directories.
THEOREM Invariance == Spec => []IInv
BY InitInv, NextInv, PTL DEF Spec

\* Every variable stays in its set.
THEOREM TypeCorrect == Spec => []TypeOK
<1>1. IInv => TypeOK
  BY DEF IInv
<1> QED BY <1>1, Invariance, PTL

\* g_ActiveTasks counts every work item that is queued or running, and those
\* about to be submitted: the drain never ends over a queued callback.
THEOREM CountIsActive == Spec => []ActiveCountsTasks
<1>1. IInv => ActiveCountsTasks
  BY DEF IInv, CountInv, Counted, ActiveCountsTasks
<1> QED BY <1>1, Invariance, PTL

\* A callback sees the table of its phase, unless wmain left callbacks behind.
THEOREM TableIsSeen == Spec => []CallbackSeesItsTable
<1>1. IInv => CallbackSeesItsTable
  BY DEF IInv, TypeOK, TableInv, CallbackSeesItsTable
<1> QED BY <1>1, Invariance, PTL

\* wmain does not touch the table under a running callback, with that exception.
THEOREM TableIsImmutable ==
  Spec => [][Running # {} /\ "queueDrive" \notin faulted => UNCHANGED g_HashTable]_vars
<1>1. IInv /\ [Next]_vars =>
        [Running # {} /\ "queueDrive" \notin faulted => UNCHANGED g_HashTable]_vars
  <2> SUFFICES ASSUME IInv, Next, Running # {}, "queueDrive" \notin faulted
               PROVE  UNCHANGED g_HashTable
    OBVIOUS
  <2>1. mpc \notin {"clear", "insert"}
    BY DEF IInv, TableInv, Running, Alive
  <2>2. CASE Main
    BY <2>1, <2>2 DEF Main, ClearTable, FillTable, QueueDrive, SubmitDrive, ScanFails,
       Drain, CloseMembers, DestroyThreadPool
  <2>3. ASSUME NEW i \in Item, ScanDirectoryCallback(i) PROVE UNCHANGED g_HashTable
    BY <2>3, CallbackFrame
  <2> QED BY <2>2, <2>3 DEF Next, Done, vars
<1> QED BY <1>1, Invariance, PTL DEF Spec

\* At the recap each listing has ended: what was passed is what was found.
LEMMA RecapSets ==
  ASSUME IInv, mpc = "recap", NEW p \in Phase
  PROVE  /\ \A i \in Item : stage[i] \in {"none", "done"}
         /\ Visited(p) = Begun(p)
         /\ \A e \in EntryId : e \in Found(p) <=> Passed(e, p)
         /\ \A H : FoundFiles(p, H) = Seen(p, H)
<1>0. TypeOK /\ TableInv /\ ListingInv
  BY DEF IInv
<1>1. \A i \in Item : stage[i] \in {"none", "done"}
  BY <1>0 DEF TableInv, Alive, TypeOK
<1>2. Visited(p) = Begun(p)
  BY <1>1 DEF Visited, Begun, Item
<1>3. ASSUME NEW e \in EntryId PROVE e \in Found(p) <=> Passed(e, p)
  <2>1. PICK i \in Item : i = <<e[1], p>> /\ i[1] = e[1]
    <3>1. e[1] \in Dir
      BY EntryParts
    <3>2. <<e[1], p>> \in Item /\ <<e[1], p>>[1] = e[1]
      BY <3>1 DEF Item
    <3> QED BY <3>2
  <2>2. /\ e[2] \in 1..Len(Listing[i[1]]) /\ Len(Listing[i[1]]) \in Nat /\ e[1] \in Dir
    BY <2>1, EntryParts, ListingType
  <2>3. e \in Found(p) <=> /\ stage[i] = "done" /\ i \notin lost
                           /\ i \in cut => e[2] < at[i]
    BY <2>1, <2>2 DEF Found, Visited
  <2>4. IF stage[i] = "done" /\ i \notin lost
        THEN i \notin cut => at[i] = Len(Listing[i[1]]) + 1
        ELSE at[i] = 1
    BY <1>0, <1>1 DEF ListingInv
  <2> QED BY <2>1, <2>2, <2>3, <2>4 DEF Passed
<1>4. \A H : FoundFiles(p, H) = Seen(p, H)
  <2>1. \A e \in Found(p) : e \in EntryId
    BY DEF Found
  <2> QED BY <1>3, <2>1 DEF FoundFiles, Seen
<1> QED BY <1>1, <1>2, <1>3, <1>4

\* The recap counts every file and directory found once under its phase, whatever
\* the order of the callbacks, and leaves nothing out but below a recorded failure
\* and behind the place where a listing broke off.
THEOREM RecapCorrect == Spec => []RecapIsExact
<1>1. IInv => RecapIsExact
  <2> DEFINE hashes == HashArray[0] \cup HashArray[1]
             exact(p) ==
               [files_seen           |-> Cardinality(FoundFiles(p, hashes \cup {NoExtension})),
                files_with_extension |-> Cardinality(FoundFiles(p, hashes)),
                files_matched        |-> Cardinality(FoundFiles(p, HashArray[p])),
                directories_seen     |-> Cardinality(Visited(p)),
                directories_failed   |-> Cardinality({i \in lost : i[2] = p})]
  <2> SUFFICES ASSUME IInv, mpc = "recap", faulted \cap {"queueDrive", "driveMask"} = {},
                      NEW p \in Phase
               PROVE  /\ \A k \in 1..Len(Drives) : Drives[k] \in Visited(p)
                      /\ \A e \in Found(p) : EntryAt(e).kind = "dir" =>
                           EntryAt(e).dir \in Visited(p) \/ <<EntryAt(e).dir, p>> \in lost
                      /\ g_Counters[p] = exact(p)
    BY DEF RecapIsExact
  <2>0. TypeOK /\ CoverInv /\ TableInv /\ CountersInv
    BY DEF IInv
  <2>1. phase = 1 /\ drive = Len(Drives) + 1
    BY <2>0 DEF TableInv, CoverInv
  <2>2. ASSUME NEW k \in 1..Len(Drives) PROVE Drives[k] \in Visited(p)
    <3>1. <<Drives[k], p>> \in Item /\ Drives[k] \in Dir /\ Len(Drives) \in Nat
      BY ScanPoolAssumption DEF Item
    <3>2. DriveQueued(k, p)
      BY <2>1, <3>1 DEF DriveQueued, Phase
    <3>3. stage[<<Drives[k], p>>] # "none"
      BY <2>0, <3>2 DEF CoverInv
    <3> QED BY <3>1, <3>3, RecapSets DEF Visited
  <2>3. ASSUME NEW e \in Found(p), EntryAt(e).kind = "dir"
        PROVE  EntryAt(e).dir \in Visited(p) \/ <<EntryAt(e).dir, p>> \in lost
    <3>1. e \in EntryId /\ Passed(e, p)
      BY RecapSets DEF Found
    <3>2. EntryAt(e).dir \in Dir /\ <<EntryAt(e).dir, p>> \in Item
      BY <2>3, <3>1, EntryParts, EntryKinds DEF Item
    <3>3. Known(<<EntryAt(e).dir, p>>)
      BY <2>0, <2>3, <3>1 DEF CoverInv
    <3> QED BY <3>2, <3>3, RecapSets DEF Known, Visited
  <2>4. g_Counters[p] = exact(p)
    <3>1. g_Counters[p] \in Counters
      BY <2>0 DEF TypeOK, Counters
    <3>2. /\ g_Counters[p].files_seen = Cardinality(FoundFiles(p, hashes \cup {NoExtension}))
          /\ g_Counters[p].files_with_extension = Cardinality(FoundFiles(p, hashes))
      BY <2>0, RecapSets DEF CountersInv, Hashes
    <3>3. g_Counters[p].files_matched = Cardinality(FoundFiles(p, HashArray[p]))
      BY <2>0, RecapSets DEF CountersInv
    <3>4. /\ g_Counters[p].directories_seen = Cardinality(Visited(p))
          /\ g_Counters[p].directories_failed = Cardinality({i \in lost : i[2] = p})
      BY <2>0, RecapSets DEF CountersInv, LostIn
    <3> QED BY <3>1, <3>2, <3>3, <3>4 DEF Counters
  <2> QED BY <2>2, <2>3, <2>4
<1> QED BY <1>1, Invariance, PTL
=============================================================================
