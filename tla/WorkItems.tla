----------------------------- MODULE WorkItems ------------------------------
(***************************************************************************)
(* The thread life cycle, 10: the same tasks by a thread each, which main  *)
(* holds at a gate until all are there (dedicated_threads.cpp), and by the *)
(* callbacks of a pool of two threads (thread_pool_callbacks.cpp), which   *)
(* count themselves and keep the highest count.                            *)
(***************************************************************************)
EXTENDS GatedProcess, Sequences

CONSTANT Tasks   \* of the pool: six

Task == 1..Tasks
-----------------------------------------------------------------------------
(* dedicated_threads.cpp *)

\* The record of each task, and main's verdict so far.
DedicatedMemory == [completed |-> [w \in Worker |-> FALSE], valid |-> TRUE]

ReadyEvent == [A |-> "readyA", B |-> "readyB", C |-> "readyC"]
ReadyEvents == {ReadyEvent[w] : w \in Worker}

DedicatedTask(w) ==
  \/ SignalOrFail(w, "begin", ReadyEvent[w], "gate")
  \/ AwaitOrFail(w, "gate", {"start"}, "work")
  \/ Store(w, "work", [mem EXCEPT !.completed[w] = TRUE], "done")

\* STILL_ACTIVE, of each worker, once all are ready.
DedicatedMain ==
  \/ CreateThread("create", "A", 0, "createB")
  \/ CreateThread("createB", "B", 0, "createC")
  \/ CreateThread("createC", "C", 0, "await")
  \/ AwaitOrExit(Main, "await", ReadyEvents, "sample")
  \/ Store(Main, "sample", [mem EXCEPT !.valid = \A w \in Worker : Alive(w)],
           "inspect")
  \/ Call(Main, "inspect", "start")
  \/ SignalEvent(Main, "start", "start", "join")
  \/ AwaitOrExit(Main, "join", Worker, "close")
  \/ CloseEvents("close", "verdict")
  \/ Return("verdict", /\ mem.valid /\ Succeeded(Worker)
                       /\ \A w \in Worker : mem.completed[w])
  \/ CheckFails(Main, {"create", "createB", "createC", "await", "sample", "start",
                       "join", "close"})

Dedicated(t) ==
  \/ t = Main /\ DedicatedMain
  \/ t \in Worker /\ DedicatedTask(t)
-----------------------------------------------------------------------------
(* thread_pool_callbacks.cpp *)

PoolThread == {"A", "B"}   \* SetThreadpoolThreadMaximum(pool, 2)

\* main's index; the items submitted and not begun, the one each thread is at,
\* and those whose callback has returned; PoolCounters; the count and the peak
\* that each callback has read; the records; the history of the highest count.
PoolMemory ==
  [next |-> 1, queue |-> <<>>, item |-> [w \in Worker |-> 0], returned |-> {},
   active |-> 0, peak |-> 0, count |-> [w \in Worker |-> 0],
   observed |-> [w \in Worker |-> 0],
   completed |-> {}, named |-> TRUE, highest |-> 0]

\* The pool has an idle thread, which is at no label, take the next item.
TakeItem(w) ==
  /\ mem.queue # <<>>
  /\ Store(w, "none", [mem EXCEPT !.queue = Tail(@), !.item[w] = Head(mem.queue)],
           "name")

\* g_describeThread, whose failure is kept in the record.
NameCallback(w) ==
  \/ Call(w, "name", "count")
  \/ /\ Go(w, "name", "count") /\ Fault("call")
     /\ mem' = [mem EXCEPT !.named = FALSE]
     /\ UNCHANGED <<suspends, signaled, open, exit>>

CountIn(w) ==
  LET n == mem.active + 1 IN
  Store(w, "count",
        [mem EXCEPT !.active = n, !.count[w] = n,
                    !.highest = IF n > @ THEN n ELSE @], "sample")

\* InterlockedCompareExchange: the peak becomes the count if it is still the
\* one observed; what it is instead is taken over.  Mutant: it is not.
KeepObserved(m, w) ==
  [m EXCEPT !.peak = IF @ = m.observed[w] THEN m.count[w] ELSE @]
CompareExchange(m, w) ==
  [m EXCEPT !.peak = IF @ = m.observed[w] THEN m.count[w] ELSE @,
            !.observed[w] = m.peak]

\* The loop that raises the peak to the count.
RaisePeak(w) ==
  \/ Store(w, "sample", [mem EXCEPT !.observed[w] = mem.peak], "raise")
  \/ /\ mem.count[w] > mem.observed[w]
     /\ Store(w, "raise", CompareExchange(mem, w),
              IF mem.peak = mem.observed[w] THEN "work" ELSE "raise")
  \/ mem.count[w] <= mem.observed[w] /\ Call(w, "raise", "work")

\* What is left of the callback, and its return to the pool.
Complete(w) ==
  \/ Store(w, "work", [mem EXCEPT !.completed = @ \cup {mem.item[w]}], "leave")
  \/ Store(w, "leave", [mem EXCEPT !.active = @ - 1], "return")
  \/ Store(w, "return", [mem EXCEPT !.returned = @ \cup {mem.item[w]},
                                    !.item[w] = 0, !.count[w] = 0,
                                    !.observed[w] = 0], "none")

PoolWorkCallback(w) ==
  NameCallback(w) \/ CountIn(w) \/ RaisePeak(w) \/ Complete(w)

NextTask == (mem.next % Tasks) + 1

\* The items are submitted and awaited one by one; none is cancelled.
PoolMain ==
  \/ Call(Main, "create", "submit")
  \/ Store(Main, "submit", [mem EXCEPT !.queue = Append(@, mem.next),
                                        !.next = NextTask],
           IF NextTask = 1 THEN "wait" ELSE "submit")
  \/ /\ mem.next \in mem.returned
     /\ Store(Main, "wait", [mem EXCEPT !.next = NextTask],
              IF NextTask = 1 THEN "close" ELSE "wait")
  \/ CloseEvents("close", "verdict")
  \/ Return("verdict", /\ mem.completed = Task /\ mem.named
                       /\ mem.peak \in 1..2 /\ mem.active = 0)
  \/ CheckFails(Main, {"create"})

Pool(t) ==
  \/ t = Main /\ PoolMain
  \/ t \in PoolThread /\ (TakeItem(t) \/ PoolWorkCallback(t))
=============================================================================
