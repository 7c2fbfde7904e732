---------------------------- MODULE ApcDelivery -----------------------------
(***************************************************************************)
(* The thread life cycle, 11: main queues an APC to a worker at its gate.  *)
(* alertable_wait.cpp then has the worker sleep alertably and expects the  *)
(* APC to be called there, once; non_alertable_wait.cpp has it sleep       *)
(* otherwise and expects the APC to be dropped with the thread.            *)
(***************************************************************************)
EXTENDS GatedProcess

\* The APCs of the worker that are queued and that have been called, main's
\* look at the latter before the gate opens, and the result of SleepEx.
ApcMemory == [queued |-> 0, called |-> 0, before |-> 0, slept |-> "no"]

\* BenignApc, for each APC in the queue; the sleep it ends.
Delivered(m, slept) ==
  [m EXCEPT !.called = @ + m.queued, !.queued = 0, !.slept = slept]

\* SleepEx(2000, alertable).
Slept(m, alertable) ==
  IF alertable /\ m.queued > 0 THEN Delivered(m, "completion")
                               ELSE [m EXCEPT !.slept = "elapsed"]

\* A thread calls the APCs queued to it before it begins, so that main has to
\* see it entered before it queues one; a wait that is not alertable, as the
\* gate, calls none.
ApcTarget(w, alertable) ==
  \/ Store(w, "begin", Delivered(mem, "no"), "announce")
  \/ SignalOrFail(w, "announce", "entered", "gate")
  \/ AwaitOrFail(w, "gate", {"release"}, "sleep")
  \/ Store(w, "sleep", Slept(mem, alertable), "done")
NonAlertableTarget(w) == ApcTarget(w, FALSE)

QueueUserAPC(from, to) ==
  Store(Main, from, [mem EXCEPT !.queued = @ + 1], to)

\* main, with what SleepEx and the count of calls have to be.
ApcMain(passed) ==
  \/ CreateThread("create", "A", 0, "await")
  \/ AwaitOrExit(Main, "await", {"entered"}, "queue")
  \/ QueueUserAPC("queue", "look")
  \/ Store(Main, "look", [mem EXCEPT !.before = mem.called], "inspect")
  \/ Call(Main, "inspect", "release")
  \/ SignalEvent(Main, "release", "release", "join")
  \/ AwaitOrExit(Main, "join", {"A"}, "close")
  \/ CloseEvents("close", "verdict")
  \/ Return("verdict", mem.before = 0 /\ Succeeded({"A"}) /\ passed)
  \/ CheckFails(Main, {"create", "await", "queue", "release", "join", "close"})

\* "Exactly one APC executed on the existing target thread."
Alertable(t) ==
  \/ t = Main /\ ApcMain(mem.slept = "completion" /\ mem.called = 1)
  \/ t = "A" /\ ApcTarget(t, TRUE)

\* "The pending APC is discarded at thread exit."
NonAlertableMain == ApcMain(mem.slept = "elapsed" /\ mem.called = 0)
NonAlertable(t) ==
  \/ t = Main /\ NonAlertableMain
  \/ t = "A" /\ NonAlertableTarget(t)
=============================================================================
