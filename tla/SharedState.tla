---------------------------- MODULE SharedState -----------------------------
(***************************************************************************)
(* The thread life cycle, 02 (shared_state_and_tls.cpp): two workers raise *)
(* one counter and keep a value of their own each, on the stack and in     *)
(* their slot of one TLS index.  Between two gates, while both are alive,  *)
(* main reads the counter and, through pointers, their stacks and slots.   *)
(***************************************************************************)
EXTENDS GatedProcess

CONSTANT Increments   \* incrementsPerWorker: 100000

Pair == {"A", "B"}

Null == "null"

\* The counter, the increments each worker has made, what each worker's TLS
\* slot points to, and the pointers to their locals that main is given: a
\* local of a worker is named after it.
SharedMemory ==
  [counter |-> 0, made |-> [w \in Pair |-> 0],
   tls |-> [t \in Pair \cup {Main} |-> Null],
   captured |-> [w \in Pair |-> Null]]

PreparedEvent == [A |-> "preparedA", B |-> "preparedB"]
CountedEvent  == [A |-> "readyA", B |-> "readyB"]
Of(event) == {event[w] : w \in Pair}

\* InterlockedIncrement.
Increment(m, w) == [m EXCEPT !.counter = @ + 1, !.made[w] = @ + 1]

\* The worker, from its TLS value to its clearing.
SharedStateWorker(w) ==
  \/ Store(w, "begin", [mem EXCEPT !.tls[w] = w], "get")
  \/ Verify(w, "get", mem.tls[w] = w, "capture")
  \/ Store(w, "capture", [mem EXCEPT !.captured[w] = mem.tls[w]], "announce")
  \/ SignalEvent(w, "announce", PreparedEvent[w], "gate")
  \/ AwaitOrExit(w, "gate", {"start"}, "count")
  \/ /\ mem.made[w] < Increments
     /\ Store(w, "count", Increment(mem, w), "count")
  \/ /\ mem.made[w] = Increments
     /\ SignalEvent(w, "count", CountedEvent[w], "hold")
  \/ AwaitOrExit(w, "hold", {"release"}, "clear")
  \/ Store(w, "clear", [mem EXCEPT !.tls[w] = Null], "done")
  \/ CheckFails(w, {"begin", "get", "announce", "gate", "count", "hold", "clear"})

\* main reads what a worker has captured: every local it points to is the
\* worker's own.
Expected == \A w \in Pair : mem.captured[w] = w

\* Mutant: main does not wait until the workers have counted.
NoneCounted == {}
BothCounted == Of(CountedEvent)
SharedMain ==
  \/ CreateThread("create", "A", 0, "createB")
  \/ CreateThread("createB", "B", 0, "prepared")
  \/ AwaitOrExit(Main, "prepared", Of(PreparedEvent), "start")
  \/ SignalEvent(Main, "start", "start", "counted")
  \/ AwaitOrExit(Main, "counted", BothCounted, "total")
  \/ Verify(Main, "total", mem.counter = 2 * Increments, "read")
  \/ Verify(Main, "read", Expected, "inspect")
  \/ Call(Main, "inspect", "release")
  \/ SignalEvent(Main, "release", "release", "join")
  \/ AwaitOrExit(Main, "join", Pair, "close")
  \/ Verify(Main, "close", Succeeded(Pair), "free")
  \/ CloseEvents("free", "verdict")
  \/ Return("verdict", TRUE)
  \/ CheckFails(Main, {"create", "createB", "prepared", "start", "counted",
                       "inspect", "release", "join", "close", "free"})

Shared(t) ==
  \/ t = Main /\ SharedMain
  \/ t \in Pair /\ SharedStateWorker(t)

\* While main reads, and until it releases them, the stacks and the slots it
\* reads are those of threads that hold still.
ReadIsSafe ==
  pc[Main] \in {"read", "inspect"} =>
    \A w \in Pair : pc[w] = "hold" /\ mem.tls[w] = w
=============================================================================
