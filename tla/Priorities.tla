----------------------------- MODULE Priorities -----------------------------
(***************************************************************************)
(* The thread life cycle, 05: two workers burn time on one processor, of   *)
(* the same priority and from one start event (equal_priority.cpp), or the *)
(* one of higher priority woken while the other burns                      *)
(* (higher_priority_preemption.cpp).  When main fails it stops them, opens *)
(* their gates and joins them.                                             *)
(***************************************************************************)
EXTENDS GatedProcess

Pair == {"A", "B"}

\* WorkerState: whether iterations is above 0.
PriorityMemory ==
  [success |-> TRUE, joined |-> TRUE, worked |-> [w \in Pair |-> FALSE]]

\* The loop: an iteration, the duration over or the stop seen, the deadline.  The
\* duration is over before the first iteration if nobody lets the thread run.
Burn(w) ==
  \/ ~mem.worked[w] /\ Store(w, "burn", [mem EXCEPT !.worked[w] = TRUE], "burn")
  \/ Call(w, "burn", "publish")
  \/ Await(w, "burn", {"stop"}, "publish")
  \/ WorkerFails(w, "burn", "slow")

\* GetActiveProcessorGroupCount, the masks, the process's own priority.
SetUp ==
  \/ EndProcess(Main, "setup", "unsupported")
  \/ Call(Main, "setup", "create")
  \/ CheckFails(Main, {"setup"})

\* A worker is created, then named, pinned and given its priority.
Hire(w, create, place, to) ==
  CreateThread(create, w, 0, place) \/ Call(Main, place, to)

\* From the first join to the end; after a failed join the workers are stopped.
Worked(w) == pc[w] = "done" /\ mem.worked[w]
JoinBoth ==
  \/ Join("joinA", "A", Worked("A"), "joinB", "stopA")
  \/ SignalAnyway("stopA", "stop", "joinB")
  \/ Join("joinB", "B", Worked("B"), "close", "stopB")
  \/ SignalAnyway("stopB", "stop", "close")
  \/ CloseJoined("close", "verdict")
  \/ Return("verdict", mem.success)
-----------------------------------------------------------------------------
(* equal_priority.cpp *)

EqualWorker(w) ==
  \/ AwaitOrFail(w, "begin", {"start"}, "burn")
  \/ Burn(w)
  \/ Call(w, "publish", "done")

EqualMain ==
  \/ SetUp
  \/ Hire("A", "create", "placeA", "createB")
  \/ Hire("B", "createB", "placeB", "inspect")
  \/ Call(Main, "inspect", "start")
  \/ SignalEvent(Main, "start", "start", "joinA")
  \/ CallAborts({"create", "placeA", "createB", "placeB", "inspect", "start"}, "abort")
  \/ SignalAnyway("abort", "stop", "abortStart")
  \/ SignalAnyway("abortStart", "start", "joinA")
  \/ JoinBoth

Equal(t) ==
  \/ t = Main /\ EqualMain
  \/ t \in Pair /\ EqualWorker(t)
-----------------------------------------------------------------------------
(* higher_priority_preemption.cpp *)

StartEvent == [A |-> "startA", B |-> "startB"]

\* The high worker says that it is ready, the normal one that it is running.
PreemptionWorker(w) ==
  \/ w = "A" /\ Call(w, "begin", "gate")
  \/ w = "B" /\ SignalOrFail(w, "begin", "readyB", "gate")
  \/ AwaitOrFail(w, "gate", {StartEvent[w]}, "stamp")
  \/ Call(w, "stamp", IF w = "A" THEN "announce" ELSE "burn")
  \/ SignalOrFail(w, "announce", "readyA", "burn")
  \/ Burn(w)
  \/ Call(w, "publish", "done")
  \/ \E from \in {"stamp", "publish"} : WorkerFails(w, from, "call")

PreemptionMain ==
  \/ SetUp
  \/ Hire("A", "create", "placeA", "createB")
  \/ Hire("B", "createB", "placeB", "readyB")
  \/ AwaitOrAbort("readyB", {"readyB"}, "inspect", "abort")
  \/ Call(Main, "inspect", "startA")
  \/ SignalEvent(Main, "startA", "startA", "readyA")
  \/ AwaitOrAbort("readyA", {"readyA"}, "observe", "abort")
  \/ Require("observe", ~Satisfied({"stop"}), "watch", "abort")
  \/ Call(Main, "watch", "startB")
  \/ SignalEvent(Main, "startB", "startB", "joinA")
  \/ CallAborts({"create", "placeA", "createB", "placeB", "readyB", "inspect",
                 "startA", "readyA", "observe", "watch", "startB"}, "abort")
  \/ SignalAnyway("abort", "stop", "abortA")
  \/ SignalAnyway("abortA", "startA", "abortB")
  \/ SignalAnyway("abortB", "startB", "joinA")
  \/ JoinBoth

Preemption(t) ==
  \/ t = Main /\ PreemptionMain
  \/ t \in Pair /\ PreemptionWorker(t)
=============================================================================
