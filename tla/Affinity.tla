------------------------------ MODULE Affinity ------------------------------
(***************************************************************************)
(* The thread life cycle, 04: two workers are pinned to one logical        *)
(* processor (single_cpu.cpp) or to one each (two_cpus.cpp) while they may *)
(* already run up to their gate, and are given a deadline before it opens. *)
(***************************************************************************)
EXTENDS GatedProcess, FiniteSets

CONSTANT Processor   \* the logical processors of the machine

Pair == {"A", "B"}

\* The eligible processors; those each thread may run on; WorkerContext and
\* WorkerResult: the deadline, the affinity read, the first and last processor.
AffinityMemory(eligible) ==
  [eligible |-> eligible,
   mask |-> [w \in Pair |-> eligible],
   deadline |-> [w \in Pair |-> FALSE], burned |-> [w \in Pair |-> FALSE],
   affinity |-> [w \in Pair |-> {}],
   first |-> [w \in Pair |-> 0], last |-> [w \in Pair |-> 0]]

PreparedEvent    == [A |-> "preparedA", B |-> "preparedB"]
ApproachingEvent == [A |-> "approachingA", B |-> "approachingB"]
Of(event) == {event[w] : w \in Pair}

\* The worker reads its affinity and the processor it runs on, which is any of
\* those, burns time until the deadline, and publishes the result.
AffinityWorker(w) ==
  \/ SignalEvent(w, "begin", PreparedEvent[w], "gate")
  \/ AwaitOrExit(w, "gate", {"start"}, "read")
  \/ \E p \in mem.mask[w] :
       Store(w, "read", [mem EXCEPT !.affinity[w] = mem.mask[w], !.first[w] = p],
             "approach")
  \/ SignalEvent(w, "approach", ApproachingEvent[w], "burn")
  \/ Store(w, "burn", [mem EXCEPT !.burned[w] = mem.deadline[w]], "publish")
  \/ \E p \in mem.mask[w] :
       Store(w, "publish", [mem EXCEPT !.last[w] = p], "done")
  \/ CheckFails(w, {"begin", "gate", "read", "approach", "publish"})

\* SetThreadAffinityMask.
Pin(from, w, processor, to) ==
  Store(Main, from, [mem EXCEPT !.mask[w] = {processor}], to)

\* A worker has run with the affinity it was given, and where it says.
PlacedOn(w, processor) ==
  /\ pc[w] = "done" /\ mem.affinity[w] = {processor}
  /\ mem.first[w] = processor /\ mem.last[w] = processor

\* main from the first thread to the end, with a processor for each worker.
PinnedMain(cpu) ==
  \/ CreateThread("create", "A", 0, "pin")
  \/ Pin("pin", "A", cpu["A"], "createB")
  \/ CreateThread("createB", "B", 0, "pinB")
  \/ Pin("pinB", "B", cpu["B"], "prepared")
  \/ AwaitOrExit(Main, "prepared", Of(PreparedEvent), "inspect")
  \/ Call(Main, "inspect", "deadline")
  \/ Store(Main, "deadline", [mem EXCEPT !.deadline = [w \in Pair |-> TRUE]], "start")
  \/ SignalEvent(Main, "start", "start", "approaching")
  \/ AwaitOrExit(Main, "approaching", Of(ApproachingEvent), "join")
  \/ AwaitOrExit(Main, "join", Pair, "judge")
  \/ Verify(Main, "judge", \A w \in Pair : PlacedOn(w, cpu[w]), "close")
  \/ CloseEvents("close", "verdict")
  \/ Return("verdict", TRUE)
  \/ CheckFails(Main, {"select", "create", "pin", "createB", "pinB", "prepared",
                       "inspect", "start", "approaching", "join", "judge", "close"})

\* More than one processor group, or too few processors, is not supported.
Select(processors) ==
  \/ EndProcess(Main, "select", "unsupported")
  \/ Cardinality(mem.eligible) >= processors /\ Call(Main, "select", "create")

Lowest(processors) ==
  CHOOSE p \in processors : \A q \in processors : p <= q
-----------------------------------------------------------------------------
(* single_cpu.cpp *)

SingleCpuMain ==
  \/ Select(1)
  \/ PinnedMain([w \in Pair |-> Lowest(mem.eligible)])

SingleCpu(t) ==
  \/ t = Main /\ SingleCpuMain
  \/ t \in Pair /\ AffinityWorker(t)
-----------------------------------------------------------------------------
(* two_cpus.cpp *)

TwoCpusWorker(w) == AffinityWorker(w)

TwoCpusMain ==
  LET first == Lowest(mem.eligible)
  IN  \/ Select(2)
      \/ PinnedMain([A |-> first, B |-> Lowest(mem.eligible \ {first})])

TwoCpus(t) ==
  \/ t = Main /\ TwoCpusMain
  \/ t \in Pair /\ TwoCpusWorker(t)

\* Every worker burns time until a deadline that has been set.
DeadlineIsSet == \A w \in Pair : pc[w] = "publish" => mem.burned[w]
=============================================================================
