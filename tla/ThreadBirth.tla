---------------------------- MODULE ThreadBirth -----------------------------
(***************************************************************************)
(* The thread life cycle, 01 and 09: a worker says that it has begun and   *)
(* waits at a gate while it is looked at.  immediate_start.cpp creates it  *)
(* running and suspended_start.cpp suspended; start_address_and_stack.cpp  *)
(* has it wait three calls deep.                                           *)
(***************************************************************************)
EXTENDS GatedProcess

\* g_workerEntered, and what ResumeThread returned.
BirthMemory == [entered |-> 0, previous |-> 0]

\* The calls of main that are checked; CreateThread stands for NameThread too.
CheckedCalls == {"create", "await", "resume", "stop", "join"}
-----------------------------------------------------------------------------
(* immediate_start.cpp *)

ImmediateWorker(w) ==
  \/ Store(w, "begin", [mem EXCEPT !.entered = 1], "announce")
  \/ SignalOrFail(w, "announce", "entered", "gate")
  \/ AwaitOrFail(w, "gate", {"stop"}, "done")

ImmediateMain ==
  \/ CreateThread("create", "A", 0, "await")
  \/ AwaitOrExit(Main, "await", {"entered"}, "inspect")
  \/ Call(Main, "inspect", "stop")
  \/ SignalEvent(Main, "stop", "stop", "join")
  \/ AwaitOrExit(Main, "join", {"A"}, "close")
  \/ CloseEvents("close", "verdict")
  \/ Return("verdict", Succeeded({"A"}))
  \/ CheckFails(Main, CheckedCalls)

Immediate(t) ==
  \/ t = Main /\ ImmediateMain
  \/ t = "A" /\ ImmediateWorker(t)
-----------------------------------------------------------------------------
(* suspended_start.cpp *)

\* Mutant: CREATE_SUSPENDED is forgotten.
NotSuspended == 0
CreateSuspended == 1

SuspendedWorker(w) == ImmediateWorker(w)

SuspendedMain ==
  \/ CreateThread("create", "A", CreateSuspended, "sample")
  \/ Verify(Main, "sample", mem.entered = 0, "look")
  \/ Call(Main, "look", "resume")
  \/ ResumeThread("resume", "A", "await")
  \/ AwaitOrExit(Main, "await", {"entered"}, "inspect")
  \/ Call(Main, "inspect", "stop")
  \/ SignalEvent(Main, "stop", "stop", "join")
  \/ AwaitOrExit(Main, "join", {"A"}, "close")
  \/ CloseEvents("close", "verdict")
  \/ Return("verdict", mem.previous = 1 /\ Succeeded({"A"}))
  \/ CheckFails(Main, CheckedCalls)

Suspended(t) ==
  \/ t = Main /\ SuspendedMain
  \/ t = "A" /\ SuspendedWorker(t)
-----------------------------------------------------------------------------
(* start_address_and_stack.cpp *)

\* WorkerEntry, WorkerOuter and WorkerMiddle return what WorkerWaitAtDepth does.
DeepWorker(w) ==
  \/ SignalOrFail(w, "begin", "deepest", "gate")
  \/ AwaitOrFail(w, "gate", {"release"}, "done")

DeepMain ==
  \/ CreateThread("create", "A", 0, "await")
  \/ AwaitOrExit(Main, "await", {"deepest"}, "inspect")
  \/ Call(Main, "inspect", "stop")
  \/ SignalEvent(Main, "stop", "release", "join")
  \/ AwaitOrExit(Main, "join", {"A"}, "close")
  \/ CloseEvents("close", "verdict")
  \/ Return("verdict", Succeeded({"A"}))
  \/ CheckFails(Main, CheckedCalls \cup {"close"})

Deep(t) ==
  \/ t = Main /\ DeepMain
  \/ t = "A" /\ DeepWorker(t)
=============================================================================
