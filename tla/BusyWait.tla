------------------------------ MODULE BusyWait ------------------------------
(***************************************************************************)
(* The thread life cycle, 03: a worker waits for its completion, once in   *)
(* WaitForSingleObject (blocking_wait.cpp) and once by polling             *)
(* (polling_wait.cpp), and main watches it do so before it completes it.   *)
(***************************************************************************)
EXTENDS GatedProcess

\* WorkerContext.observedWait, and whether polls is above 0.
WaitMemory == [observed |-> FALSE, polled |-> FALSE]

\* main samples, lets the worker go on, and watches it for observationMs, in
\* which it must not end.
Observe ==
  \/ CreateThread("create", "A", 0, "prepared")
  \/ AwaitOrExit(Main, "prepared", {"prepared"}, "inspect")
  \/ Call(Main, "inspect", "start")
  \/ SignalEvent(Main, "start", "start", "approaching")
  \/ AwaitOrExit(Main, "approaching", {"approaching"}, "observe")
  \/ Verify(Main, "observe", ~Satisfied({"A"}), "complete")
  \/ SignalEvent(Main, "complete", "completion", "join")
  \/ AwaitOrExit(Main, "join", {"A"}, "judge")

Finish ==
  \/ CloseEvents("close", "verdict") \/ Return("verdict", TRUE)
  \/ CheckFails(Main, {"create", "prepared", "inspect", "start", "approaching",
                       "observe", "complete", "join", "judge", "close"})

\* The worker up to its wait.
Approach(w) ==
  \/ SignalEvent(w, "begin", "prepared", "gate")
  \/ AwaitOrExit(w, "gate", {"start"}, "approach")
  \/ SignalEvent(w, "approach", "approaching", "wait")
  \/ CheckFails(w, {"begin", "gate", "approach", "wait"})
-----------------------------------------------------------------------------
(* blocking_wait.cpp *)

BlockingEventWorker(w) ==
  \/ Approach(w)
  \/ AwaitOrExit(w, "wait", {"completion"}, "publish")
  \/ Store(w, "publish", [mem EXCEPT !.observed = TRUE], "done")

BlockingMain ==
  \/ Observe
  \/ Verify(Main, "judge", Succeeded({"A"}) /\ mem.observed, "close")
  \/ Finish

Blocking(t) ==
  \/ t = Main /\ BlockingMain
  \/ t = "A" /\ BlockingEventWorker(t)
-----------------------------------------------------------------------------
(* polling_wait.cpp *)

\* A poll finds the event signaled, or it does not and the deadline has not
\* passed, or it has.
PollUntilSignaled(w) ==
  \/ /\ Satisfied({"completion"})
     /\ Store(w, "wait", [mem EXCEPT !.polled = TRUE], "publish")
  \/ /\ ~Satisfied({"completion"})
     /\ Store(w, "wait", [mem EXCEPT !.polled = TRUE], "wait")
  \/ TimesOut(w, "wait", {"completion"})

PollingEventWorker(w) ==
  \/ Approach(w)
  \/ PollUntilSignaled(w)
  \/ Store(w, "publish", [mem EXCEPT !.observed = TRUE], "done")

PollingMain ==
  \/ Observe
  \/ Verify(Main, "judge",
            Succeeded({"A"}) /\ mem.observed /\ mem.polled, "close")
  \/ Finish

Polling(t) ==
  \/ t = Main /\ PollingMain
  \/ t = "A" /\ PollingEventWorker(t)
=============================================================================
