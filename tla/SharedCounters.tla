--------------------------- MODULE SharedCounters ---------------------------
(***************************************************************************)
(* Four programs whose threads raise one counter: without a lock and with  *)
(* a thread that waits for it to change (WaitOnAddressCode.cpp), by one    *)
(* interlocked operation (CreateThreadSafeFunction.cpp), in a critical     *)
(* section (CreateThreadWithCriticalSection.cpp), and under a lock that a  *)
(* reader shares (CreateThreadSRWLocked.cpp).                              *)
(***************************************************************************)
EXTENDS GatedProcess

CONSTANT Rounds   \* ITERATIONS of each thread

\* The counter; for each thread the rounds it has made and what it has read of
\* the counter; the holders of the lock; main's handles; and a history: some
\* increment has overwritten another one.
CounterMemory ==
  [counter |-> 0, made |-> [w \in Worker |-> 0], read |-> [w \in Worker |-> 0],
   holders |-> {}, handles |-> [i \in 0..2 |-> "none"], lost |-> FALSE]

Read(w, from, to) == Store(w, from, [mem EXCEPT !.read[w] = mem.counter], to)

\* The counter becomes what was read of it and 1.
Write(w, from, to) ==
  Store(w, from, [mem EXCEPT !.counter = mem.read[w] + 1, !.made[w] = @ + 1,
                             !.lost = @ \/ mem.counter # mem.read[w]], to)

NextRound(w) == mem.made[w] < Rounds
LastRound(w) == ~NextRound(w) /\ Call(w, "begin", "done")

\* CreateThread; its handle goes to hThreads[i].
Create(from, w, i, to) ==
  /\ At(Main, from) /\ pc' = [pc EXCEPT ![Main] = to, ![w] = "begin"]
  /\ mem' = [mem EXCEPT !.handles[i] = w]
  /\ UNCHANGED <<suspends, signaled, open, exit, faulted>>

\* WaitForMultipleObjects of all of hThreads, without a timeout, and the end.
CreateFails == CheckFails(Main, {"create", "createB", "createC"})
Kept == {mem.handles[i] : i \in 0..2} \ {"none"}
JoinAndReturn ==
  \/ Await(Main, "join", Kept, "close")
  \/ Call(Main, "close", "verdict") \/ Return("verdict", TRUE)

CreateAll ==
  \/ Create("create", "A", 0, "createB") \/ Create("createB", "B", 1, "createC")
  \/ Create("createC", "C", 2, "join")
-----------------------------------------------------------------------------
(* WaitOnAddressCode.cpp *)

Total == 2 * Rounds   \* ITERATIONS, half of which each writer makes

\* A waiter that sleeps goes on to read the counter again.
WakeByAddressAll(w, from, to) ==
  /\ At(w, from) /\ UNCHANGED others
  /\ pc' = [pc EXCEPT ![w] = to, !["C"] = IF @ = "asleep" THEN "load" ELSE @]

WriterThread(w) ==
  \/ NextRound(w) /\ Read(w, "begin", "add")
  \/ Write(w, "add", "wake")
  \/ WakeByAddressAll(w, "wake", "begin")
  \/ LastRound(w)

\* WaitOnAddress compares and falls asleep in one step.
WaiterThread(w) ==
  \/ \E from \in {"begin", "load"} : Read(w, from, "loop")
  \/ mem.read[w] >= Total /\ Call(w, "loop", "done")
  \/ /\ mem.read[w] < Total
     /\ Call(w, "loop", IF mem.counter = mem.read[w] THEN "asleep" ELSE "load")

WaitOnAddress(t) ==
  \/ t = Main /\ (CreateAll \/ JoinAndReturn \/ CreateFails)
  \/ t \in {"A", "B"} /\ WriterThread(t)
  \/ t = "C" /\ WaiterThread(t)
-----------------------------------------------------------------------------
(* CreateThreadSafeFunction.cpp *)

\* InterlockedIncrement.
InterlockedThreadProc(w) ==
  \/ /\ NextRound(w)
     /\ Store(w, "begin", [mem EXCEPT !.counter = @ + 1, !.made[w] = @ + 1], "begin")
  \/ LastRound(w)

SafeFunction(t) ==
  \/ t = Main /\ (CreateAll \/ JoinAndReturn \/ CreateFails)
  \/ t \in Worker /\ InterlockedThreadProc(t)
-----------------------------------------------------------------------------
(* CreateThreadWithCriticalSection.cpp, and the writers of                 *)
(* CreateThreadSRWLocked.cpp                                               *)

\* EnterCriticalSection, AcquireSRWLockExclusive.  Mutant: it lets everyone in.
AnyHolder(w) == TRUE
Exclusive(w) == mem.holders = {}
Acquire(w) ==
  /\ Exclusive(w) /\ NextRound(w)
  /\ Store(w, "begin", [mem EXCEPT !.holders = @ \cup {w}], "load")
Release(w) ==
  Store(w, "unlock", [mem EXCEPT !.holders = @ \ {w}], "begin")

LockedThreadProc(w) ==
  \/ Acquire(w)
  \/ Read(w, "load", "add")
  \/ Write(w, "add", "unlock")
  \/ Release(w)
  \/ LastRound(w)

\* The critical section is deleted at the end.
CriticalSection(t) ==
  \/ /\ t = Main
     /\ \/ CreateAll \/ CreateFails
        \/ Await(Main, "join", Kept, "close")
        \/ CloseEvents("close", "verdict") \/ Return("verdict", TRUE)
  \/ t \in Worker /\ LockedThreadProc(t)
-----------------------------------------------------------------------------
(* CreateThreadSRWLocked.cpp *)

\* The lock is shared with nobody but readers, of which there is one.
ReaderThreadProc(w) ==
  \/ /\ mem.holders = {} /\ NextRound(w)
     /\ Store(w, "begin", [mem EXCEPT !.holders = {w}], "load")
  \/ Store(w, "load", [mem EXCEPT !.read[w] = mem.counter, !.made[w] = @ + 1], "unlock")
  \/ Release(w)
  \/ LastRound(w)

\* The loop that creates the writers begins at the slot of the reader, whose
\* handle is lost and which is not waited for.
CreateWriters ==
  \/ Create("create", "A", 0, "createB") \/ Create("createB", "B", 0, "createC")
  \/ Create("createC", "C", 1, "join")

SRWLocked(t) ==
  \/ t = Main /\ (CreateWriters \/ JoinAndReturn \/ CreateFails)
  \/ t = "A" /\ ReaderThreadProc(t)
  \/ t \in {"B", "C"} /\ LockedThreadProc(t)
=============================================================================
