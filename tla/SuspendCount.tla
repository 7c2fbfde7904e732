---------------------------- MODULE SuspendCount ----------------------------
(***************************************************************************)
(* The thread life cycle, 06 (suspend_count.cpp): a worker created         *)
(* suspended and suspended once more begins after the second of two        *)
(* resumes.  main counts the resumes it owes, and pays them however it     *)
(* fails, so that the worker can be joined.                                *)
(***************************************************************************)
EXTENDS GatedProcess

SuspendMemory ==
  [success |-> TRUE, joined |-> TRUE, entered |-> 0, previous |-> 0, owed |-> 0]

CountedWorker(w) ==
  \/ Store(w, "begin", [mem EXCEPT !.entered = 1], "announce")
  \/ SignalOrFail(w, "announce", "entered", "gate")
  \/ AwaitOrFail(w, "gate", {"stop"}, "done")

\* SuspendThread and ResumeThread return the count before.
SuspendThread(from, to) ==
  /\ Go(Main, from, to) /\ suspends' = [suspends EXCEPT !["A"] = @ + 1]
  /\ mem' = [mem EXCEPT !.previous = suspends["A"], !.owed = @ + 1]
  /\ UNCHANGED <<signaled, open, exit, faulted>>

PayResume(from, to) ==
  /\ Go(Main, from, to)
  /\ suspends' = [suspends EXCEPT !["A"] = IF @ = 0 THEN 0 ELSE @ - 1]
  /\ mem' = [mem EXCEPT !.previous = suspends["A"], !.owed = @ - 1]
  /\ UNCHANGED <<signaled, open, exit, faulted>>

\* "While worker is there and resumes are owed."
PayOwed ==
  \/ mem.owed > 0 /\ PayResume("owed", "owed")
  \/ mem.owed > 0 /\ StepFails("owed", "call", "join")
  \/ mem.owed = 0 /\ Call(Main, "owed", "join")

CountMain ==
  \/ CreateThread("create", "A", 1, "owe")
  \/ Store(Main, "owe", [mem EXCEPT !.owed = 1], "name")
  \/ Call(Main, "name", "suspend")
  \/ SuspendThread("suspend", "twice")
  \/ Require("twice", mem.previous = 1 /\ mem.entered = 0, "inspect", "stop")
  \/ Call(Main, "inspect", "resume")
  \/ PayResume("resume", "once")
  \/ Require("once", mem.previous = 2, "still", "stop")
  \/ Require("still", ~Satisfied({"entered"}) /\ mem.entered = 0, "watch", "stop")
  \/ Call(Main, "watch", "last")
  \/ PayResume("last", "begun")
  \/ Require("begun", mem.previous = 1, "await", "stop")
  \/ AwaitOrAbort("await", {"entered"}, "check", "stop")
  \/ Require("check", mem.entered = 1, "look", "stop")
  \/ Call(Main, "look", "stop")
  \/ CallAborts({"create", "name", "suspend", "inspect", "resume", "still",
                 "watch", "last", "await", "look"}, "stop")
  \/ SignalAnyway("stop", "stop", "owed")
  \/ PayOwed
  \/ Join("join", "A", pc["A"] = "done", "close", "close")
  \/ CloseJoined("close", "verdict")
  \/ Return("verdict", mem.success)

Counted(t) ==
  \/ t = Main /\ CountMain
  \/ t = "A" /\ CountedWorker(t)
=============================================================================
