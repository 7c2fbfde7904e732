------------------------------ MODULE ScanPool ------------------------------
(***************************************************************************)
(* ThreadPoolImplementFileEnumeration.cpp: wmain fills the hash table for  *)
(* a phase, queues a work item for every drive and polls g_ActiveTasks;    *)
(* the pool's threads run ScanDirectoryCallback, which lists one directory *)
(* and queues a work item for every directory in it.                       *)
(*                                                                         *)
(* The hash table is the set of hashes in it, as module HashTable shows.   *)
(* An entry of a directory is a directory, a file with the hash of its     *)
(* extension (or NoExtension), or one that the callback skips: the dot     *)
(* entries, a reparse point, a path that is too long.                      *)
(***************************************************************************)
EXTENDS Naturals, Sequences, FiniteSets

CONSTANTS Dir, Listing,      \* the directories and what is in each
          Drives,            \* the drives that qualify, in order
          HashArray,         \* the hashes of each phase
          NoExtension,
          NUMBER_OF_THREADS,
          Faults             \* what may go wrong, a subset of FaultKinds

FaultKinds == {"driveMask", "queueDrive", "queueDir", "listDir", "nextEntry"}

Phase == {0, 1}
File(h)  == [kind |-> "file", hash |-> h]
Sub(d)   == [kind |-> "dir", dir |-> d]
Skipped  == [kind |-> "skipped"]

\* The entries of all directories, by directory and index.
EntryId == UNION {{<<d, k>> : k \in 1..Len(Listing[d])} : d \in Dir}
EntryAt(e) == Listing[e[1]][e[2]]

ASSUME ScanPoolAssumption ==
  /\ Listing \in [Dir -> Seq({Skipped} \cup {Sub(d) : d \in Dir}
                     \cup {File(h) : h \in HashArray[0] \cup HashArray[1]
                                             \cup {NoExtension}})]
  /\ Drives \in Seq(Dir)
  /\ \A j, k \in 1..Len(Drives) : Drives[j] = Drives[k] => j = k
  /\ \A e1, e2 \in EntryId :  \* no directory is in two places
       EntryAt(e1).kind = "dir" /\ EntryAt(e1) = EntryAt(e2) => e1 = e2
  /\ \A e \in EntryId, k \in 1..Len(Drives) : EntryAt(e) # Sub(Drives[k])
  /\ NoExtension \notin HashArray[0] \cup HashArray[1]
  /\ NUMBER_OF_THREADS \in Nat \ {0}
  /\ Faults \subseteq FaultKinds

Item == Dir \X Phase

VARIABLES
  mpc, phase, drive,    \* wmain, and the loop over the drives
  scanOk,               \* what ScanAllFixedAndRemovableDrives returned
  g_HashTable,
  g_ActiveTasks,
  g_Counters,
  stage, at,            \* of each work item, and the index of its next entry
  lost,                 \* history: the items that were not queued or listed
  cut,                  \* history: the items whose listing broke off
  faulted               \* history: the faults that have happened

mainVars == <<mpc, phase, drive, scanOk>>
taskVars == <<stage, at, cut>>
vars == <<mainVars, g_HashTable, g_ActiveTasks, g_Counters, taskVars, lost, faulted>>

ZeroCounters == [files_seen |-> 0, files_with_extension |-> 0,
                 files_matched |-> 0, directories_seen |-> 0,
                 directories_failed |-> 0]

Init ==
  /\ mpc = "clear" /\ phase = 0 /\ drive = 1
  /\ scanOk = [p \in Phase |-> FALSE]
  /\ g_HashTable = {} /\ g_ActiveTasks = 0
  /\ g_Counters = [p \in Phase |-> ZeroCounters]
  /\ stage = [i \in Item |-> "none"] /\ at = [i \in Item |-> 1]
  /\ lost = {} /\ cut = {} /\ faulted = {}

NoFault == UNCHANGED faulted
Fault(f) == f \in Faults /\ faulted' = faulted \cup {f}

\* The work items in the pool, queued or running, and the running ones.
Alive   == {i \in Item : stage[i] \in {"queued", "listing", "counted", "cleanup"}}
Running == {i \in Item : stage[i] \in {"listing", "counted", "cleanup"}}
-----------------------------------------------------------------------------
(* ScanDirectoryCallback for item i; a pool thread runs it from end to end *)

\* directories_seen is counted; FindFirstFileW may fail.
BeginCallback(i) ==
  /\ stage[i] = "queued" /\ Cardinality(Running) < NUMBER_OF_THREADS
  /\ \/ /\ stage' = [stage EXCEPT ![i] = "listing"] /\ NoFault
        /\ g_Counters' = [g_Counters EXCEPT ![i[2]].directories_seen = @ + 1]
        /\ UNCHANGED lost
     \/ /\ stage' = [stage EXCEPT ![i] = "cleanup"] /\ Fault("listDir")
        /\ g_Counters' = [g_Counters EXCEPT ![i[2]].directories_seen = @ + 1,
                                            ![i[2]].directories_failed = @ + 1]
        /\ lost' = lost \cup {i}
  /\ UNCHANGED <<mainVars, g_HashTable, g_ActiveTasks, at, cut>>

\* The do-while over the entries.  Mutant: the last one is left out.
HasEntryButLast(i) == at[i] < Len(Listing[i[1]])
HasEntry(i) == at[i] <= Len(Listing[i[1]])
Entry(i) == Listing[i[1]][at[i]]
NextEntry(i) == at' = [at EXCEPT ![i] = @ + 1]

SkipEntry(i) ==
  /\ stage[i] = "listing" /\ HasEntry(i) /\ Entry(i).kind = "skipped"
  /\ NextEntry(i)
  /\ UNCHANGED <<mainVars, g_HashTable, g_ActiveTasks, g_Counters, stage, lost,
                 cut, faulted>>

\* A file: its three counters, each an interlocked increment, and the look-up.
ScanFile(i) ==
  /\ stage[i] = "listing" /\ HasEntry(i) /\ Entry(i).kind = "file"
  /\ LET h == Entry(i).hash
         one(b) == IF b THEN 1 ELSE 0
     IN g_Counters' = [g_Counters EXCEPT
          ![i[2]].files_seen = @ + 1,
          ![i[2]].files_with_extension = @ + one(h # NoExtension),
          ![i[2]].files_matched = @ + one(h \in g_HashTable)]
  /\ NextEntry(i)
  /\ UNCHANGED <<mainVars, g_HashTable, g_ActiveTasks, stage, lost, cut, faulted>>

\* EnqueueDirectory for a subdirectory: the active count is raised ...
CountSubdirectory(i) ==
  /\ stage[i] = "listing" /\ HasEntry(i) /\ Entry(i).kind = "dir"
  /\ \/ /\ g_ActiveTasks' = g_ActiveTasks + 1
        /\ stage' = [stage EXCEPT ![i] = "counted"]
        /\ NoFault /\ UNCHANGED <<at, g_Counters, lost>>
     \/ /\ Fault("queueDir")
        /\ g_Counters' = [g_Counters EXCEPT ![i[2]].directories_failed = @ + 1]
        /\ lost' = lost \cup {<<Entry(i).dir, i[2]>>}
        /\ NextEntry(i) /\ UNCHANGED <<g_ActiveTasks, stage>>
  /\ UNCHANGED <<mainVars, g_HashTable, cut>>

\* ... before SubmitThreadpoolWork.  Mutant: the work item takes over the
\* count of the one that queues it, and nothing is left for that one.
SubmitSubdirectoryDecrements(i) ==
  /\ stage[i] = "counted"
  /\ stage' = [stage EXCEPT ![i] = "listing", ![<<Entry(i).dir, i[2]>>] = "queued"]
  /\ NextEntry(i)
  /\ g_ActiveTasks' = g_ActiveTasks - 1
  /\ UNCHANGED <<mainVars, g_HashTable, g_Counters, lost, cut, faulted>>
SubmitSubdirectory(i) ==
  /\ stage[i] = "counted"
  /\ stage' = [stage EXCEPT ![i] = "listing", ![<<Entry(i).dir, i[2]>>] = "queued"]
  /\ NextEntry(i)
  /\ UNCHANGED <<mainVars, g_HashTable, g_ActiveTasks, g_Counters, lost, cut,
                 faulted>>

\* FindNextFileW returns FALSE: there are no more entries, or it failed, which
\* the loop does not tell from the end.  FindFirstFileW gave the first entry.
EndListing(i) ==
  /\ stage[i] = "listing"
  /\ \/ ~HasEntry(i) /\ NoFault /\ UNCHANGED cut
     \/ HasEntry(i) /\ at[i] > 1 /\ Fault("nextEntry") /\ cut' = cut \cup {i}
  /\ stage' = [stage EXCEPT ![i] = "cleanup"]
  /\ UNCHANGED <<mainVars, g_HashTable, g_ActiveTasks, g_Counters, at, lost>>

\* The item is freed and the active count lowered, last of all.  Mutant: the
\* count is forgotten.
EndCallbackUncounted(i) ==
  /\ stage[i] = "cleanup"
  /\ stage' = [stage EXCEPT ![i] = "done"]
  /\ UNCHANGED <<mainVars, g_HashTable, g_ActiveTasks, g_Counters, at, lost, cut,
                 faulted>>
EndCallback(i) ==
  /\ stage[i] = "cleanup"
  /\ stage' = [stage EXCEPT ![i] = "done"]
  /\ g_ActiveTasks' = g_ActiveTasks - 1
  /\ UNCHANGED <<mainVars, g_HashTable, g_Counters, at, lost, cut, faulted>>

ScanDirectoryCallback(i) ==
  \/ BeginCallback(i) \/ SkipEntry(i) \/ ScanFile(i) \/ CountSubdirectory(i)
  \/ SubmitSubdirectory(i) \/ EndListing(i) \/ EndCallback(i)
-----------------------------------------------------------------------------
(* wmain and ScanAllFixedAndRemovableDrives *)

\* ClearHashTable and ResetPhaseCounters ...
ClearTable ==
  /\ mpc = "clear" /\ mpc' = "insert"
  /\ g_HashTable' = {}
  /\ g_Counters' = [g_Counters EXCEPT ![phase] = ZeroCounters]
  /\ UNCHANGED <<phase, drive, scanOk, g_ActiveTasks, taskVars, lost, faulted>>

\* ... and InsertHashArrayInHashTable, which finds room.
FillTable ==
  /\ mpc = "insert" /\ mpc' = "drives"
  /\ g_HashTable' = HashArray[phase] /\ drive' = 1
  /\ UNCHANGED <<phase, scanOk, g_ActiveTasks, g_Counters, taskVars, lost, faulted>>

\* ScanAllFixedAndRemovableDrives returns: the next phase, or the pool goes.
Returns(b) ==
  /\ scanOk' = [scanOk EXCEPT ![phase] = b]
  /\ IF phase = 0 THEN mpc' = "clear" /\ phase' = 1
                  ELSE mpc' = "destroy" /\ UNCHANGED phase

\* EnqueueDirectory for a drive; the active count is raised ...
QueueDrive ==
  /\ mpc = "drives" /\ drive <= Len(Drives)
  /\ mpc' = "submit"
  /\ g_ActiveTasks' = g_ActiveTasks + 1
  /\ UNCHANGED <<phase, drive, scanOk, g_HashTable, g_Counters, taskVars, lost,
                 faulted>>

\* ... before SubmitThreadpoolWork.
SubmitDrive ==
  /\ mpc = "submit" /\ mpc' = "drives"
  /\ stage' = [stage EXCEPT ![<<Drives[drive], phase>>] = "queued"]
  /\ drive' = drive + 1
  /\ UNCHANGED <<phase, scanOk, g_HashTable, g_ActiveTasks, g_Counters, at, lost,
                 cut, faulted>>

\* No drive mask, or a drive that cannot be queued: return without waiting
\* for what has been queued.
ScanFails ==
  /\ mpc = "drives"
  /\ \/ drive = 1 /\ Fault("driveMask")
     \/ drive <= Len(Drives) /\ Fault("queueDrive")
  /\ Returns(FALSE)
  /\ UNCHANGED <<drive, g_HashTable, g_ActiveTasks, g_Counters, taskVars, lost>>

\* g_ActiveTasks is seen to be zero and the poll ends ...  Mutant: the function
\* returns without it.
DrainReturns ==
  /\ mpc = "drives" /\ drive > Len(Drives)
  /\ Returns(TRUE)
  /\ UNCHANGED <<drive, g_HashTable, g_ActiveTasks, g_Counters, taskVars, lost,
                 faulted>>
Drain ==
  /\ mpc = "drives" /\ drive > Len(Drives)
  /\ g_ActiveTasks = 0
  /\ mpc' = "close"
  /\ UNCHANGED <<phase, drive, scanOk, g_HashTable, g_ActiveTasks, g_Counters,
                 taskVars, lost, faulted>>

\* ... and CloseThreadpoolCleanupGroupMembers waits for what still runs.
CloseMembers ==
  /\ mpc = "close" /\ Alive = {}
  /\ Returns(Drives # <<>>)
  /\ UNCHANGED <<drive, g_HashTable, g_ActiveTasks, g_Counters, taskVars, lost,
                 faulted>>

\* DestroyThreadPool waits in the same way, and the recap is printed.
DestroyThreadPool ==
  /\ mpc = "destroy" /\ Alive = {}
  /\ mpc' = "recap"
  /\ UNCHANGED <<phase, drive, scanOk, g_HashTable, g_ActiveTasks, g_Counters,
                 taskVars, lost, faulted>>

Main == \/ ClearTable \/ FillTable \/ QueueDrive \/ SubmitDrive \/ ScanFails
        \/ Drain \/ CloseMembers \/ DestroyThreadPool

Done == mpc = "recap" /\ UNCHANGED vars

Next == Main \/ Done \/ \E i \in Item : ScanDirectoryCallback(i)

\* wmain runs, and the pool's threads run every callback to its end.
Spec == Init /\ [][Next]_vars
             /\ WF_vars(Main) /\ WF_vars(\E i \in Item : ScanDirectoryCallback(i))
-----------------------------------------------------------------------------
(* Properties *)

\* Every variable stays in its set.
TypeOK ==
  /\ mpc \in {"clear", "insert", "drives", "submit", "close", "destroy", "recap"}
  /\ phase \in Phase /\ drive \in 1..Len(Drives) + 1
  /\ scanOk \in [Phase -> BOOLEAN]
  /\ g_HashTable \subseteq HashArray[0] \cup HashArray[1]
  /\ g_ActiveTasks \in Nat
  /\ g_Counters \in [Phase -> [files_seen : Nat, files_with_extension : Nat,
                              files_matched : Nat, directories_seen : Nat,
                              directories_failed : Nat]]
  /\ stage \in [Item -> {"none", "queued", "listing", "counted", "cleanup", "done"}]
  /\ at \in [Item -> Nat \ {0}]
  /\ lost \subseteq Item /\ cut \subseteq Item /\ faulted \subseteq Faults

\* g_ActiveTasks is the number of work items alive, and one more for each that
\* is about to be submitted: wmain does not observe zero "while a queued
\* callback has not started yet".
ActiveCountsTasks ==
  g_ActiveTasks = Cardinality(Alive)
                    + Cardinality({i \in Item : stage[i] = "counted"})
                    + (IF mpc = "submit" THEN 1 ELSE 0)

\* A callback looks its files up in the table of its own phase, never in a
\* cleared one or that of the other phase, unless wmain gave up queueing the
\* drives and left the callbacks of those it had queued.
CallbackSeesItsTable ==
  "queueDrive" \in faulted \/ \A i \in Alive : g_HashTable = HashArray[i[2]]

\* The directories of phase p that were listed, and the entries found there: all
\* of them, or those before the place where the listing broke off.
Visited(p) == {d \in Dir : stage[<<d, p>>] = "done"}
Found(p) == {e \in EntryId : LET i == <<e[1], p>> IN
               /\ e[1] \in Visited(p) /\ i \notin lost
               /\ i \in cut => e[2] < at[i]}
FoundFiles(p, H) == {e \in Found(p) : EntryAt(e).kind = "file"
                                       /\ EntryAt(e).hash \in H}

\* The recap counts every file that was found once under its phase, and each
\* directory that could not be queued or listed once; a subtree is left out only
\* below those.  A listing that FindNextFileW breaks off counts as far as it came
\* and is no failed directory: what is missing there, no counter says.
RecapIsExact ==
  mpc = "recap" /\ faulted \cap {"queueDrive", "driveMask"} = {} =>
    \A p \in Phase :
      /\ \A k \in 1..Len(Drives) : Drives[k] \in Visited(p)
      /\ \A e \in Found(p) : EntryAt(e).kind = "dir" =>
           EntryAt(e).dir \in Visited(p) \/ <<EntryAt(e).dir, p>> \in lost
      /\ LET hashes == HashArray[0] \cup HashArray[1] IN g_Counters[p] =
         [files_seen           |-> Cardinality(FoundFiles(p, hashes \cup {NoExtension})),
          files_with_extension |-> Cardinality(FoundFiles(p, hashes)),
          files_matched        |-> Cardinality(FoundFiles(p, HashArray[p])),
          directories_seen     |-> Cardinality(Visited(p)),
          directories_failed   |-> Cardinality({i \in lost : i[2] = p})]

\* "The hash table is immutable for the duration of each scan phase."
TableImmutable == [][Running # {} => UNCHANGED g_HashTable]_vars

\* Both phases end and the recap is printed, whatever fails.
Terminates == <>(mpc = "recap")
=============================================================================
