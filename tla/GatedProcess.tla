---------------------------- MODULE GatedProcess ----------------------------
(***************************************************************************)
(* What the programs of the thread life cycle share: one process, its main *)
(* thread and the workers it creates, the manual-reset events at which     *)
(* they meet, and the end of the process.  A program is an action of main  *)
(* and one of a worker, put together from the steps below; a step is one   *)
(* call of the program and goes from a label of the thread to the next.    *)
(*                                                                         *)
(* A step waits for objects: an event is satisfied once it is signaled, a  *)
(* thread once it has ended.  Every wait of these programs is bounded and  *)
(* may end in its timeout instead, which is the fault "slow"; any other    *)
(* call may fail, which is the fault "call".                               *)
(***************************************************************************)
EXTENDS Naturals

CONSTANT Faults   \* what may go wrong, a subset of FaultKinds

FaultKinds == {"call", "slow"}

ASSUME GatedProcessAssumption == Faults \subseteq FaultKinds

Main   == "main"
Worker == {"A", "B", "C"}
Thread == {Main} \cup Worker

VARIABLES
  pc,        \* the label of each thread
  suspends,  \* the suspend count of each thread
  signaled,  \* the events that are signaled
  open,      \* main has not closed the events
  mem,       \* the memory the threads share: a record of the program's own
  exit,      \* "running", or how the process ended: exit code 0, 1 or 77
  faulted    \* history: the faults that have happened

others == <<suspends, signaled, open, mem, exit, faulted>>
processVars == <<pc, others>>

Status == {"running", "passed", "failed", "unsupported"}

\* main is at its first label, with its events open and no other thread.
Begin(first, memory) ==
  /\ pc = [t \in Thread |-> IF t = Main THEN first ELSE "none"]
  /\ suspends = [t \in Thread |-> 0] /\ signaled = {} /\ open = TRUE
  /\ mem = memory /\ exit = "running" /\ faulted = {}

Running  == exit = "running"
Ended(t) == pc[t] \in {"done", "failed"}
Alive(t) == pc[t] # "none" /\ ~Ended(t)
AllEnded == \A w \in Worker : ~Alive(w)
Succeeded(workers) == \A w \in workers : pc[w] = "done"

NoFault == UNCHANGED faulted
Fault(f) == f \in Faults /\ faulted' = faulted \cup {f}

\* WaitForSingleObject and WaitForMultipleObjects of all.
Satisfied(objects) == objects \subseteq signaled \cup {w \in Worker : Ended(w)}
-----------------------------------------------------------------------------
(* Steps *)

At(t, label) == Running /\ suspends[t] = 0 /\ pc[t] = label

Go(t, from, to) == At(t, from) /\ pc' = [pc EXCEPT ![t] = to]

\* A call that changes nothing the other threads can see.
Call(t, from, to) == Go(t, from, to) /\ UNCHANGED others

SignalEvent(t, from, event, to) ==
  /\ Go(t, from, to) /\ signaled' = signaled \cup {event}
  /\ UNCHANGED <<suspends, open, mem, exit, faulted>>

Await(t, from, objects, to) == Satisfied(objects) /\ Call(t, from, to)

Store(t, from, memory, to) ==
  /\ Go(t, from, to) /\ mem' = memory
  /\ UNCHANGED <<suspends, signaled, open, exit, faulted>>

\* CreateThread or _beginthreadex; suspended or not.
CreateThread(from, w, count, to) ==
  /\ At(Main, from) /\ pc' = [pc EXCEPT ![Main] = to, ![w] = "begin"]
  /\ suspends' = [suspends EXCEPT ![w] = count]
  /\ UNCHANGED <<signaled, open, mem, exit, faulted>>

\* ResumeThread; main keeps the count it returns, the one before.
ResumeThread(from, w, to) ==
  /\ Go(Main, from, to) /\ mem' = [mem EXCEPT !.previous = suspends[w]]
  /\ suspends' = [suspends EXCEPT ![w] = IF @ = 0 THEN 0 ELSE @ - 1]
  /\ UNCHANGED <<signaled, open, exit, faulted>>

CloseEvents(from, to) ==
  /\ Go(Main, from, to) /\ open' = FALSE
  /\ UNCHANGED <<suspends, signaled, mem, exit, faulted>>

\* The process ends: main returns, or a thread calls ExitProcess.
EndProcess(t, from, status) ==
  /\ At(t, from) /\ exit' = status
  /\ UNCHANGED <<pc, suspends, signaled, open, mem, faulted>>

Return(from, passed) ==
  EndProcess(Main, from, IF passed THEN "passed" ELSE "failed")

\* Verify: go on, or end the process.
Verify(t, from, condition, to) ==
  \/ condition /\ Call(t, from, to)
  \/ ~condition /\ EndProcess(t, from, "failed")
-----------------------------------------------------------------------------
(* Failing fast *)

\* Fail: a call has failed, or a wait, and the process ends with 1.
ExitOn(t, fault) ==
  /\ Running /\ suspends[t] = 0 /\ Fault(fault) /\ exit' = "failed"
  /\ UNCHANGED <<pc, suspends, signaled, open, mem>>

\* Check, and NameThread: some call a thread makes at one of these labels.
CheckFails(t, labels) == pc[t] \in labels /\ ExitOn(t, "call")

\* WaitOne and WaitBoth, with a timeout that ends the process.
TimesOut(t, from, objects) ==
  pc[t] = from /\ ~Satisfied(objects) /\ ExitOn(t, "slow")
AwaitOrExit(t, from, objects, to) ==
  Await(t, from, objects, to) \/ TimesOut(t, from, objects)

\* A call that fails, or a wait that times out, and leads elsewhere.
Fails(t, from, fault, to) ==
  /\ Go(t, from, to) /\ Fault(fault)
  /\ UNCHANGED <<suspends, signaled, open, mem, exit>>

\* A worker that returns its error instead.
WorkerFails(t, from, fault) == Fails(t, from, fault, "failed")
SignalOrFail(t, from, event, to) ==
  SignalEvent(t, from, event, to) \/ WorkerFails(t, from, "call")
AwaitOrFail(t, from, objects, to) ==
  \/ Await(t, from, objects, to)
  \/ ~Satisfied(objects) /\ WorkerFails(t, from, "slow")
-----------------------------------------------------------------------------
(* Cleaning up: main keeps in mem.success whether all has gone well, in    *)
(* mem.joined whether no join has failed, and joins and closes what it     *)
(* has, however far it has come.                                           *)

StepFails(from, fault, to) ==
  /\ Go(Main, from, to) /\ Fault(fault)
  /\ mem' = [mem EXCEPT !.success = FALSE]
  /\ UNCHANGED <<suspends, signaled, open, exit>>

\* Some call at one of these labels fails.
CallAborts(labels, cleanup) ==
  \E from \in labels : StepFails(from, "call", cleanup)

AwaitOrAbort(from, objects, to, cleanup) ==
  \/ Await(Main, from, objects, to)
  \/ ~Satisfied(objects) /\ StepFails(from, "slow", cleanup)

Require(from, condition, to, cleanup) ==
  Store(Main, from, [mem EXCEPT !.success = condition],
        IF condition THEN to ELSE cleanup)

\* A SetEvent of the cleanup, which goes on if it fails.
SignalAnyway(from, event, to) ==
  SignalEvent(Main, from, event, to) \/ StepFails(from, "call", to)

\* A worker that was created is awaited, and its results are judged; a wait
\* that fails leaves it alone.
Join(from, w, valid, to, notJoined) ==
  \/ pc[w] = "none" /\ Call(Main, from, to)
  \/ Ended(w) /\ Store(Main, from, [mem EXCEPT !.success = @ /\ valid], to)
  \/ Ended(w) /\ StepFails(from, "call", to)
  \/ /\ Alive(w) /\ Go(Main, from, notJoined) /\ Fault("slow")
     /\ mem' = [mem EXCEPT !.success = FALSE, !.joined = FALSE]
     /\ UNCHANGED <<suspends, signaled, open, exit>>

\* The events are closed when all workers are joined.
CloseJoined(from, to) ==
  /\ Go(Main, from, to) /\ open' = ~mem.joined
  /\ \/ NoFault /\ UNCHANGED mem
     \/ Fault("call") /\ mem' = [mem EXCEPT !.success = FALSE]
  /\ UNCHANGED <<suspends, signaled, exit>>
=============================================================================
