----------------------------- MODULE Contention -----------------------------
(***************************************************************************)
(* The thread life cycle, 07 (mutex_contention.cpp): an owner takes the    *)
(* mutex and holds it until it is told to release it, and a contender      *)
(* waits for it, in vain first.  Whoever fails signals abort, which ends   *)
(* the waits of the others; a mutex whose owner has ended without          *)
(* releasing it is abandoned, and its next owner releases it and fails.    *)
(***************************************************************************)
EXTENDS GatedProcess

Pair == {"A", "B"}   \* OwnerMain, ContenderMain
Nobody == "nobody"

\* Who owns the mutex, and WorkerState and g_protectedValue.
MutexMemory ==
  [success |-> TRUE, joined |-> TRUE, owner |-> Nobody, value |-> 0,
   acquired |-> [w \in Pair |-> FALSE], abandoned |-> [w \in Pair |-> FALSE]]

Abandoned == mem.owner \in Pair /\ Ended(mem.owner)
Obtainable == mem.owner = Nobody \/ Abandoned
Aborted == "abort" \in signaled

\* The mutex is obtained; abandoned, it is released again.
Obtain(w, from, to) ==
  /\ Obtainable
  /\ Store(w, from, [mem EXCEPT !.owner = w, !.abandoned[w] = Abandoned],
           IF Abandoned THEN "release" ELSE to)

ReleaseMutex(w, from, to, failed) ==
  \/ Store(w, from, [mem EXCEPT !.owner = Nobody], to)
  \/ Fails(w, from, "call", failed)

\* WorkerFailure, and ReleaseAndFail before it.
WorkerFailure(w) ==
  \/ ReleaseMutex(w, "release", "abort", "abort")
  \/ SignalEvent(w, "abort", "abort", "failed")
  \/ WorkerFails(w, "abort", "call")

\* The protected value is written while the mutex is owned.
WriteValue(w, from, value, to) ==
  Store(w, from, [mem EXCEPT !.value = value], to)

\* WaitForMultipleObjects of abort and the event: abort comes first.
EventOrAbort(w, from, event, to, failed) ==
  \/ Aborted /\ Call(w, from, failed)
  \/ ~Aborted /\ Await(w, from, {event}, to)
  \/ ~Aborted /\ ~Satisfied({event}) /\ Fails(w, from, "slow", failed)
-----------------------------------------------------------------------------
OwnerMain(w) ==
  \/ Obtain(w, "begin", "acquire")
  \/ Fails(w, "begin", "call", "abort")
  \/ Store(w, "acquire", [mem EXCEPT !.acquired[w] = TRUE, !.value = 1], "announce")
  \/ SignalEvent(w, "announce", "ownerOwns", "gate")
  \/ Fails(w, "announce", "call", "release")
  \/ EventOrAbort(w, "gate", "releaseOwner", "write", "release")
  \/ WriteValue(w, "write", 2, "unlock")
  \/ ReleaseMutex(w, "unlock", "done", "abort")
  \/ WorkerFailure(w)

\* For 100 ms the mutex must not be obtained.
ContenderMain(w) ==
  \/ EventOrAbort(w, "begin", "ownerOwns", "ready", "abort")
  \/ SignalEvent(w, "ready", "contenderReady", "try")
  \/ Aborted /\ Call(w, "try", "abort")
  \/ ~Aborted /\ Obtain(w, "try", "release")
  \/ ~Aborted /\ ~Obtainable /\ Call(w, "try", "observed")
  \/ SignalEvent(w, "observed", "contentionObserved", "gate")
  \/ \E from \in {"ready", "observed"} : Fails(w, from, "call", "abort")
  \/ Aborted /\ Call(w, "gate", "abort")
  \/ ~Aborted /\ Obtain(w, "gate", "acquire")
  \/ ~Aborted /\ ~Obtainable /\ Fails(w, "gate", "slow", "abort")
  \/ Store(w, "acquire", [mem EXCEPT !.acquired[w] = TRUE],
           IF mem.value = 2 THEN "write" ELSE "release")
  \/ WriteValue(w, "write", 3, "unlock")
  \/ ReleaseMutex(w, "unlock", "done", "abort")
  \/ WorkerFailure(w)

AwaitPhase(from, event, to) ==
  \/ Aborted /\ Require(from, FALSE, to, "abort")
  \/ ~Aborted /\ AwaitOrAbort(from, {event}, to, "abort")

ContentionMain ==
  \/ CreateThread("create", "A", 0, "nameA")
  \/ Call(Main, "nameA", "owned")
  \/ AwaitPhase("owned", "ownerOwns", "createB")
  \/ CreateThread("createB", "B", 0, "nameB")
  \/ Call(Main, "nameB", "ready")
  \/ AwaitPhase("ready", "contenderReady", "observed")
  \/ AwaitPhase("observed", "contentionObserved", "inspect")
  \/ Call(Main, "inspect", "release")
  \/ CallAborts({"create", "nameA", "owned", "createB", "nameB", "ready",
                 "observed", "inspect"}, "abort")
  \/ SignalAnyway("abort", "abort", "release")
  \/ SignalAnyway("release", "releaseOwner", "joinA")
  \/ Join("joinA", "A", pc["A"] = "done" /\ mem.acquired["A"], "joinB", "stopA")
  \/ SignalAnyway("stopA", "abort", "joinB")
  \/ Join("joinB", "B", pc["B"] = "done" /\ mem.acquired["B"], "close", "stopB")
  \/ SignalAnyway("stopB", "abort", "close")
  \/ CloseJoined("close", "verdict")
  \/ Return("verdict", mem.success)

Contended(t) ==
  \/ t = Main /\ ContentionMain
  \/ t = "A" /\ OwnerMain(t)
  \/ t = "B" /\ ContenderMain(t)
=============================================================================
