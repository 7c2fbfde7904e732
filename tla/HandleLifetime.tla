--------------------------- MODULE HandleLifetime ---------------------------
(***************************************************************************)
(* The thread life cycle, 08: main closes one of the two handles of a      *)
(* worker that runs, which goes on (close_handle_while_running.cpp), and   *)
(* keeps one of a worker that has ended, which tells how it did            *)
(* (retained_thread_handle.cpp).                                           *)
(***************************************************************************)
EXTENDS GatedProcess

CONSTANT MaxProgress   \* bound of the ticks of g_progress

\* The handles of the worker that main has beside the original one, and
\* whether it has closed that; g_progress, g_acknowledgedProgress, beforeClose.
HandleMemory ==
  [success |-> TRUE, joined |-> TRUE, duplicate |-> FALSE, closed |-> FALSE,
   progress |-> 0, acknowledged |-> 0, before |-> 0]
-----------------------------------------------------------------------------
(* close_handle_while_running.cpp *)

\* A wait of the loop ends every 100 ms with nothing signaled.
Tick(w, from) ==
  /\ mem.progress < MaxProgress
  /\ Store(w, from, [mem EXCEPT !.progress = @ + 1], from)

Acknowledge(m) ==
  [m EXCEPT !.progress = @ + 1, !.acknowledged = m.progress + 1]

\* The stop comes first; the request is waited for until it is acknowledged.
ProgressWorker(w) ==
  \/ Store(w, "begin", [mem EXCEPT !.progress = @ + 1], "announce")
  \/ SignalOrFail(w, "announce", "entered", "gate")
  \/ \E from \in {"gate", "hold"} : Await(w, from, {"stop"}, "done")
  \/ /\ Satisfied({"request"}) /\ ~Satisfied({"stop"})
     /\ Store(w, "gate", Acknowledge(mem), "observe")
  \/ SignalOrFail(w, "observe", "observed", "hold")
  \/ ~Satisfied({"request"}) /\ ~Satisfied({"stop"}) /\ Tick(w, "gate")
  \/ ~Satisfied({"stop"}) /\ Tick(w, "hold")
  \/ \E from \in {"gate", "hold"} : WorkerFails(w, from, "slow")

\* joinHandle: without one there is nothing to join.
HasHandle == mem.duplicate \/ ~mem.closed
JoinByHandle ==
  IF HasHandle THEN Join("join", "A", pc["A"] = "done", "close", "close")
               ELSE Call(Main, "join", "close")

CloseMain ==
  \/ CreateThread("create", "A", 0, "name")
  \/ Call(Main, "name", "duplicate")
  \/ Store(Main, "duplicate", [mem EXCEPT !.duplicate = TRUE], "await")
  \/ StepFails("duplicate", "call", "stop")
  \/ AwaitOrAbort("await", {"entered"}, "inspect", "stop")
  \/ Call(Main, "inspect", "before")
  \/ Store(Main, "before", [mem EXCEPT !.before = mem.progress], "closeOriginal")
  \/ Store(Main, "closeOriginal", [mem EXCEPT !.closed = TRUE], "request")
  \/ SignalEvent(Main, "request", "request", "observed")
  \/ AwaitOrAbort("observed", {"observed"}, "acknowledged", "stop")
  \/ Require("acknowledged", mem.acknowledged > mem.before, "watch", "stop")
  \/ Call(Main, "watch", "stop")
  \/ CallAborts({"create", "name", "await", "inspect", "closeOriginal", "request",
                 "observed", "watch"}, "stop")
  \/ SignalAnyway("stop", "stop", "join")
  \/ JoinByHandle
  \/ CloseJoined("close", "verdict")
  \/ Return("verdict", mem.success)

ClosedWhileRunning(t) ==
  \/ t = Main /\ CloseMain
  \/ t = "A" /\ ProgressWorker(t)
-----------------------------------------------------------------------------
(* retained_thread_handle.cpp *)

CooperativeWorker(w) ==
  \/ SignalOrFail(w, "begin", "entered", "gate")
  \/ AwaitOrFail(w, "gate", {"stop"}, "done")

\* The exit code is STILL_ACTIVE before the stop, and what the worker returned
\* after the join and for as long as the handle is kept.
RetainedMain ==
  \/ CreateThread("create", "A", 0, "name")
  \/ Call(Main, "name", "await")
  \/ AwaitOrAbort("await", {"entered"}, "active", "stop")
  \/ Require("active", Alive("A"), "inspect", "stop")
  \/ Call(Main, "inspect", "stop")
  \/ CallAborts({"create", "name", "await", "active", "inspect"}, "stop")
  \/ SignalAnyway("stop", "stop", "join")
  \/ Join("join", "A", pc["A"] = "done", "retained", "close")
  \/ mem.success /\ Require("retained", pc["A"] = "done", "close", "close")
  \/ mem.success /\ StepFails("retained", "call", "close")
  \/ ~mem.success /\ Call(Main, "retained", "close")
  \/ CloseJoined("close", "verdict")
  \/ Return("verdict", mem.success)

Retained(t) ==
  \/ t = Main /\ RetainedMain
  \/ t = "A" /\ CooperativeWorker(t)
=============================================================================
