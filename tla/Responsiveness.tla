--------------------------- MODULE Responsiveness ---------------------------
(***************************************************************************)
(* The thread life cycle, 12: a window whose thread computes by itself     *)
(* (blocking_ui.cpp), or has a worker do it that posts a message when it   *)
(* is done (worker_ui.cpp).  Started with --auto the program posts the     *)
(* click on its button itself and closes its window when it is done.       *)
(*                                                                         *)
(* Main is the thread of the window, "A" the worker, "C" the timer of the  *)
(* window.  What the user does is dispatched like a message, after the     *)
(* ones that are posted.                                                   *)
(***************************************************************************)
EXTENDS GatedProcess, Sequences

CONSTANT MaxClicks   \* bound: how often the user clicks on the button

\* A posted message: what it is, and the run it is about.
Message(kind, run) == [kind |-> kind, run |-> run]

\* AppState: the posted messages, whether WM_TIMER is due and WM_QUIT posted;
\* whether there has been a heartbeat at all, and since the work was started;
\* closing, which is closePosted in blocking_ui.cpp; worker: the handle of the
\* worker is open; WorkContext.  clicks and early: the user's clicks, and that
\* he has closed a window of --auto.
WindowMemory(automatic) ==
  [automatic |-> automatic, queue |-> IF automatic THEN <<Message("start", 0)>>
                                               ELSE <<>>,
   due |-> FALSE, quit |-> FALSE, window |-> TRUE, beat |-> FALSE, since |-> FALSE,
   busy |-> FALSE, completed |-> FALSE, failed |-> FALSE, closing |-> FALSE,
   worker |-> FALSE, received |-> FALSE, runNumber |-> 0,
   cancelRequested |-> FALSE, cancelled |-> FALSE, batches |-> FALSE,
   postError |-> FALSE, nameFailed |-> FALSE, clicks |-> 0, early |-> FALSE]

\* A hundred milliseconds pass.  A heartbeat that would change nothing any more
\* is left out.
Timer(t) ==
  /\ mem.window /\ ~mem.due
  /\ ~mem.beat \/ ~mem.since \/ (mem.automatic /\ mem.completed /\ ~mem.closing)
  /\ Store(t, "none", [mem EXCEPT !.due = TRUE], "none")

Heartbeat(m) == [m EXCEPT !.due = FALSE, !.beat = TRUE, !.since = TRUE]

\* What the loop takes next: a posted message, then what the user does or what
\* is due of the timer, and at last WM_QUIT.
Posted(kind) == mem.queue # <<>> /\ Head(mem.queue).kind = kind
Taken(m) == [m EXCEPT !.queue = Tail(@)]
Idle == mem.queue = <<>>
UserActs == Idle /\ mem.window
Clicked(m) == [m EXCEPT !.clicks = @ + 1]
ClicksStart ==
  UserActs /\ ~mem.busy /\ ~mem.closing /\ mem.clicks < MaxClicks

\* WM_DESTROY.
Destroyed(m) == [m EXCEPT !.window = FALSE, !.quit = TRUE, !.due = FALSE, !.queue = <<>>]

\* One dispatch, after which the loop is where it was.
Dispatch(m) == Store(Main, "pump", m, "pump")
-----------------------------------------------------------------------------
(* blocking_ui.cpp *)

PostClose(m) ==
  IF m.closing THEN m
  ELSE [m EXCEPT !.closing = TRUE, !.queue = Append(@, Message("close", 0))]

\* StartWork, up to ComputeFor and after it.
StartBlocking(m) ==
  Store(Main, "pump",
        [m EXCEPT !.busy = TRUE, !.completed = FALSE, !.since = FALSE,
                  !.batches = FALSE], "compute")
ComputeHere ==
  Store(Main, "compute",
        [mem EXCEPT !.busy = FALSE, !.completed = TRUE, !.batches = TRUE,
                    !.failed = @ \/ mem.since], "pump")

CloseBlocking(m) ==
  Destroyed([m EXCEPT !.failed = @ \/ (m.automatic /\ (~m.completed \/ ~m.beat))])

TimerBlocking ==
  LET m == Heartbeat(mem)
  IN  Idle /\ mem.due /\ Dispatch(IF m.automatic /\ m.completed THEN PostClose(m) ELSE m)

\* The automatic watchdog, at a heartbeat.
WatchdogBlocking ==
  /\ Idle /\ mem.due /\ mem.automatic /\ Fault("slow") /\ Go(Main, "pump", "pump")
  /\ mem' = PostClose([Heartbeat(mem) EXCEPT !.failed = TRUE])
  /\ UNCHANGED <<suspends, signaled, open, exit>>

BlockingUi(t) ==
  \/ /\ t = Main
     /\ \/ Posted("start") /\ StartBlocking(Taken(mem))
        \/ ClicksStart /\ StartBlocking(Clicked(mem))
        \/ ComputeHere
        \/ TimerBlocking
        \/ WatchdogBlocking
        \/ Posted("close") /\ Dispatch(CloseBlocking(Taken(mem)))
        \/ UserActs /\ Dispatch(CloseBlocking([mem EXCEPT !.early = TRUE]))
        \/ Idle /\ ~mem.due /\ mem.quit /\ Return("pump", ~mem.failed)
        \/ CheckFails(Main, {"pump"})
  \/ t = "C" /\ Timer(t)
-----------------------------------------------------------------------------
(* worker_ui.cpp: the worker *)

\* PostMessageW, whose message carries runNumber, and the end of the thread.
PostCompletion(w) ==
  \/ Store(w, "post",
           [mem EXCEPT !.queue = Append(@, Message("completed", mem.runNumber))],
           "leave")
  \/ Call(w, "leave", IF mem.nameFailed \/ mem.postError THEN "failed" ELSE "done")
  \/ /\ Go(w, "post", "leave") /\ Fault("call")
     /\ mem' = [mem EXCEPT !.postError = TRUE]
     /\ UNCHANGED <<suspends, signaled, open, exit>>

\* ComputeFor polls the cancellation before each batch; its second may be over
\* after any of them, whether there has been a heartbeat in it or not.
ComputeWorker(w) ==
  \/ Call(w, "begin", "poll")
  \/ /\ Go(w, "begin", "post") /\ Fault("call")
     /\ mem' = [mem EXCEPT !.nameFailed = TRUE]
     /\ UNCHANGED <<suspends, signaled, open, exit>>
  \/ /\ mem.cancelRequested
     /\ Store(w, "poll", [mem EXCEPT !.cancelled = TRUE], "post")
  \/ /\ ~mem.cancelRequested
     /\ Store(w, "poll", [mem EXCEPT !.batches = TRUE], "poll")
  \/ mem.batches /\ Call(w, "poll", "post")
  \/ PostCompletion(w)
-----------------------------------------------------------------------------
(* worker_ui.cpp: the window *)

\* BeginClose: the worker is asked to end first.
BeginClose(m) ==
  LET c == [m EXCEPT !.closing = TRUE]
  IN  IF c.worker THEN [c EXCEPT !.cancelRequested = TRUE]
      ELSE IF c.window THEN Destroyed(c) ELSE c

\* StartWork: guarded, and a worker that cannot be created closes the window.
MayStart(m) == ~(m.busy \/ m.closing \/ m.failed)
NewRun(m) ==
  [m EXCEPT !.runNumber = @ + 1, !.received = FALSE, !.completed = FALSE,
            !.busy = TRUE, !.since = FALSE, !.cancelRequested = FALSE,
            !.cancelled = FALSE, !.batches = FALSE, !.postError = FALSE,
            !.nameFailed = FALSE]
StartWorker(m) ==
  \/ /\ MayStart(m) /\ At(Main, "pump")
     /\ pc' = [pc EXCEPT !["A"] = "begin"]
     /\ mem' = [NewRun(m) EXCEPT !.worker = TRUE]
     /\ UNCHANGED <<suspends, signaled, open, exit, faulted>>
  \/ /\ MayStart(m) /\ Go(Main, "pump", "pump") /\ Fault("call")
     /\ mem' = BeginClose([NewRun(m) EXCEPT !.failed = TRUE, !.busy = FALSE])
     /\ UNCHANGED <<suspends, signaled, open, exit>>
  \/ ~MayStart(m) /\ Dispatch(m)

\* TryFinishWorker: the worker has ended, and its message has been received or
\* could not be posted; then its handle is closed and its result is judged.
Judged(m) ==
  LET failed == \/ m.failed \/ pc["A"] = "failed"
                \/ ~m.cancelled /\ ~m.batches
                \/ m.automatic /\ (m.cancelled \/ ~m.since)
  IN  [m EXCEPT !.worker = FALSE, !.busy = FALSE, !.failed = failed,
                !.completed = ~failed /\ ~m.cancelled]
\* Mutant: the end of the worker is not waited for.
OnlyReceived(m) == m.worker /\ (m.postError \/ m.received)
MayFinish(m) == m.worker /\ Ended("A") /\ (m.postError \/ m.received)
TryFinishWorker(m) ==
  LET j == Judged(m)
  IN  IF ~MayFinish(m) THEN m
      ELSE IF j.closing \/ j.automatic \/ j.failed THEN BeginClose(j) ELSE j

\* WM_CLOSE: of --auto, an early one is a failure.
CloseWorker(m) == BeginClose([m EXCEPT !.failed = @ \/ (m.automatic /\ ~m.completed)])

\* WorkCompletedMessage, of the run that is under way.
WorkCompleted(run, m) ==
  IF m.busy /\ run = m.runNumber THEN TryFinishWorker([m EXCEPT !.received = TRUE]) ELSE m

\* After the messages; WM_QUIT ends the loop at once.
FinishedOrQuit ==
  LET closed == IF mem.failed /\ ~mem.closing THEN BeginClose(mem) ELSE mem
      tried == TryFinishWorker(closed)
  IN  Store(Main, "after", tried,
            IF ~tried.window /\ ~tried.worker THEN "report" ELSE "pump")

\* A call fails that is only recorded, and the watchdog.
RecordFailure(from, fault) ==
  /\ ~mem.failed /\ Go(Main, from, from) /\ Fault(fault)
  /\ mem' = [mem EXCEPT !.failed = TRUE]
  /\ UNCHANGED <<suspends, signaled, open, exit>>

WorkerUi(t) ==
  \/ /\ t = Main
     /\ \/ Posted("start") /\ StartWorker(Taken(mem))
        \/ ClicksStart /\ StartWorker(Clicked(mem))
        \/ Posted("completed") /\ Dispatch(WorkCompleted(Head(mem.queue).run, Taken(mem)))
        \/ Idle /\ mem.due /\ Dispatch(Heartbeat(mem))
        \/ UserActs /\ Dispatch(CloseWorker([mem EXCEPT !.early = TRUE]))
        \/ Idle /\ ~mem.due /\ mem.quit /\ Call(Main, "pump", "report")
        \/ Idle /\ ~mem.due /\ ~mem.quit /\ Call(Main, "pump", "after")
        \/ FinishedOrQuit
        \/ RecordFailure("pump", "call")
        \/ mem.automatic /\ ~mem.closing /\ RecordFailure("after", "slow")
        \/ Return("report", ~mem.failed /\ (mem.automatic => mem.completed))
        \/ CheckFails(Main, {"pump", "after"})
  \/ t = "A" /\ ComputeWorker(t)
  \/ t = "C" /\ Timer(t)
=============================================================================
