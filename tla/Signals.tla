------------------------------ MODULE Signals -------------------------------
(***************************************************************************)
(* Two programs whose main thread tells a worker to end: by a named event  *)
(* (CreateThreadSignaledEvent.cpp), and by an event that resets itself,    *)
(* after it has queued an APC to the worker's alertable wait               *)
(* (CreateThreadWithAPC.cpp).  The waits have no timeout.                  *)
(***************************************************************************)
EXTENDS GatedProcess

\* iReturn; the APCs of the worker that are queued and that have been called;
\* and a history: the event has not been set, so that nobody will end.
SignalsMemory == [success |-> TRUE, queued |-> 0, called |-> 0, lost |-> FALSE]
-----------------------------------------------------------------------------
(* CreateThreadSignaledEvent.cpp *)

WaiterThread(w) ==
  \/ Call(w, "begin", "wait")
  \/ Await(w, "wait", {"event"}, "done")
  \/ \E from \in {"begin", "wait"} : WorkerFails(w, from, "call")

\* _END_OF_FUNC closes the handles also when the worker is not awaited.
SignaledMain ==
  \/ CreateThread("create", "A", 0, "set")
  \/ SignalEvent(Main, "set", "event", "join")
  \/ CallAborts({"create", "set"}, "close")
  \/ Await(Main, "join", {"A"}, "close")
  \/ CloseEvents("close", "verdict")
  \/ Return("verdict", mem.success)

SignaledEvent(t) ==
  \/ t = Main /\ SignaledMain
  \/ t = "A" /\ WaiterThread(t)
-----------------------------------------------------------------------------
(* CreateThreadWithAPC.cpp *)

\* CallbackFunctionAPC, for what is queued.
Called(m) == [m EXCEPT !.called = @ + m.queued, !.queued = 0]

\* WaitForSingleObjectEx: the event, which it resets, comes before an APC; its
\* timeout changes nothing.
WorkerThread(w) ==
  \/ Store(w, "begin", Called(mem), "wait")
  \/ /\ Satisfied({"event"}) /\ Go(w, "wait", "done")
     /\ signaled' = signaled \ {"event"}
     /\ UNCHANGED <<suspends, open, mem, exit, faulted>>
  \/ /\ ~Satisfied({"event"}) /\ mem.queued > 0
     /\ Store(w, "wait", Called(mem), "wait")

\* The result of SetEvent is not looked at.
ApcMain ==
  \/ CreateThread("create", "A", 0, "queue")
  \/ Store(Main, "queue", [mem EXCEPT !.queued = @ + 1], "set")
  \/ SignalEvent(Main, "set", "event", "join")
  \/ /\ Go(Main, "set", "join") /\ Fault("call")
     /\ mem' = [mem EXCEPT !.lost = TRUE]
     /\ UNCHANGED <<suspends, signaled, open, exit>>
  \/ Await(Main, "join", {"A"}, "close")
  \/ CloseEvents("close", "verdict")
  \/ Return("verdict", TRUE)
  \/ CheckFails(Main, {"create", "queue"})

WithAPC(t) ==
  \/ t = Main /\ ApcMain
  \/ t = "A" /\ WorkerThread(t)
=============================================================================
