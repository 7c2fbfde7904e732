--------------------------- MODULE LifeCycleProofs --------------------------
(***************************************************************************)
(* LifeCycle for any number of increments, tasks, ticks and clicks and any *)
(* processors, and whatever fails: where the workers are when main looks   *)
(* at them, that no event is closed under them, and the exit code.         *)
(***************************************************************************)
EXTENDS LifeCycle, Integers, Sequences, SequenceTheorems, TLAPS

Pair == {"A", "B"}

\* What is the same of every program.
ProcessInv ==
  /\ program \in Program
  /\ pc = [t \in Thread |-> pc[t]] /\ suspends \in [Thread -> Nat]
  /\ signaled \cap Worker = {} /\ open \in BOOLEAN /\ exit \in Status
  /\ faulted \subseteq FaultKinds

Only(workers) == \A w \in Worker \ workers : pc[w] = "none"

\* The exit code, of workers that have to have ended well.
Verdict(workers, shown) ==
  /\ exit = "passed" => ~open /\ shown /\ \A w \in workers : pc[w] \in {"none", "done"}
  /\ exit = "failed" => faulted # {}
-----------------------------------------------------------------------------
(* Programs that end at the first failure *)

\* ThreadBirth: who has said that it has begun is at its gate until the stop.
BirthType == mem \in [entered : {0, 1}, previous : Nat]
BirthInv(entered, stop) ==
  /\ BirthType /\ Only({"A"}) /\ Verdict({"A"}, TRUE)
  /\ ~open <=> pc[Main] = "verdict"
  /\ pc[Main] # "watch"
  /\ pc[Main] = "create" => pc["A"] = "none"
  /\ pc["A"] \in {"none", "begin", "announce", "gate", "done", "failed"}
  /\ pc[Main] \in {"close", "verdict"} => Ended("A")
  /\ entered \in signaled =>
       pc["A"] \in {"gate", "done"} \/ (pc["A"] = "failed" /\ "slow" \in faulted)
  /\ pc[Main] = "inspect" => entered \in signaled
  /\ pc["A"] = "failed" => faulted # {}
  /\ pc["A"] = "done" => stop \in signaled
  /\ pc[Main] \in {"create", "sample", "look", "resume", "await", "inspect", "stop"} =>
       stop \notin signaled

\* The one that is created suspended.
HeldInv ==
  /\ pc[Main] \in {"sample", "look", "resume"} => suspends["A"] = 1 /\ pc["A"] = "begin"
  /\ pc["A"] \in {"none", "begin"} => mem.entered = 0
  /\ pc[Main] \in {"await", "inspect", "stop", "join", "close", "verdict"} =>
       mem.previous = 1

ImmediateInv == BirthInv("entered", "stop") /\ pc[Main] # "sample"
SuspendedInv == BirthInv("entered", "stop") /\ HeldInv
DeepInv == BirthInv("deepest", "release") /\ pc[Main] # "sample"

\* SharedState: a worker that has counted holds still until it is released, and
\* its slot and what it has captured are its own.
SharedType ==
  mem \in [counter : Nat, made : [Pair -> Nat],
           tls : [Pair \cup {Main} -> Pair \cup {State!Null}],
           captured : [Pair -> Pair \cup {State!Null}]]
SharedInv ==
  /\ SharedType /\ Only(Pair)
  /\ Verdict(Pair, mem.counter = mem.made["A"] + mem.made["B"])
  /\ mem.counter = mem.made["A"] + mem.made["B"]
  /\ ~open <=> pc[Main] = "verdict"
  /\ pc[Main] \notin {"sample", "watch"}
  /\ pc[Main] \in {"create", "createB"} => pc["B"] = "none"
  /\ pc[Main] = "create" => pc["A"] = "none"
  /\ pc[Main] \in {"create", "createB", "prepared", "start", "counted", "total",
                   "read", "inspect", "release"} => "release" \notin signaled
  /\ pc[Main] \in {"total", "read", "inspect", "release"} =>
       State!Of(State!CountedEvent) \subseteq signaled
  /\ \A w \in Pair :
       /\ pc[w] \in {"none", "begin", "get", "capture", "announce", "gate", "count",
                     "hold", "clear", "done"}
       /\ pc[w] \in {"get", "capture", "announce", "gate", "count", "hold", "clear"} =>
            mem.tls[w] = w
       /\ pc[w] \in {"announce", "gate", "count", "hold", "clear", "done"} =>
            mem.captured[w] = w
       /\ pc[w] \in {"hold", "clear", "done"} => mem.made[w] = Increments
       /\ pc[w] \in {"clear", "done"} => "release" \in signaled
       /\ State!CountedEvent[w] \in signaled => pc[w] \in {"hold", "clear", "done"}
       /\ pc[Main] \in {"close", "free", "verdict"} => pc[w] = "done"

\* BusyWait: the worker is at its gate until the start, and does not end before
\* its completion.
WaitType == mem \in [observed : BOOLEAN, polled : BOOLEAN]
WaitInv ==
  /\ WaitType /\ Only({"A"}) /\ Verdict({"A"}, TRUE)
  /\ ~open <=> pc[Main] = "verdict"
  /\ pc[Main] \notin {"sample", "watch"}
  /\ pc[Main] = "create" => pc["A"] = "none"
  /\ pc["A"] \in {"none", "begin", "gate", "approach", "wait", "publish", "done"}
  /\ "prepared" \in signaled => pc["A"] \notin {"none", "begin"}
  /\ pc[Main] = "inspect" => "prepared" \in signaled
  /\ pc["A"] \in {"approach", "wait", "publish", "done"} => "start" \in signaled
  /\ pc[Main] \in {"create", "prepared", "inspect", "start"} => "start" \notin signaled
  /\ pc["A"] \in {"publish", "done"} => "completion" \in signaled
  /\ pc[Main] \in {"create", "prepared", "inspect", "start", "approaching", "observe",
                   "complete"} => "completion" \notin signaled
  /\ pc["A"] \in {"publish", "done"} /\ program = "polling" => mem.polled
  /\ pc["A"] = "done" => mem.observed
  /\ pc[Main] \in {"judge", "close", "verdict"} => pc["A"] = "done"

\* Affinity: a worker that has passed its gate is pinned and has a deadline.
Cpu ==
  LET first == Placed!Lowest(mem.eligible)
  IN  IF program = "singleCpu" THEN [w \in Pair |-> first]
      ELSE [A |-> first, B |-> Placed!Lowest(mem.eligible \ {first})]
Cpus == Processor \cup {0, Cpu["A"], Cpu["B"]}
AffinityType ==
  mem \in [eligible : SUBSET Processor, mask : [Pair -> SUBSET Cpus],
           deadline : [Pair -> BOOLEAN], burned : [Pair -> BOOLEAN],
           affinity : [Pair -> SUBSET Cpus], first : [Pair -> Cpus], last : [Pair -> Cpus]]
AffinityInv ==
  /\ AffinityType /\ Only(Pair) /\ Verdict(Pair, TRUE)
  /\ ~open <=> pc[Main] = "verdict"
  /\ pc[Main] \in {"select", "create", "pin", "createB", "pinB", "prepared", "inspect",
                   "deadline", "start", "approaching", "join", "judge", "close", "verdict"}
  /\ pc[Main] \in {"select", "create", "pin", "createB"} => pc["B"] = "none"
  /\ pc[Main] \in {"select", "create"} => pc["A"] = "none"
  /\ pc[Main] \notin {"select", "create", "pin"} => mem.mask["A"] = {Cpu["A"]}
  /\ pc[Main] \notin {"select", "create", "pin", "createB", "pinB"} =>
       mem.mask["B"] = {Cpu["B"]}
  /\ pc[Main] = "inspect" => Placed!Of(Placed!PreparedEvent) \subseteq signaled
  /\ "start" \in signaled =>
       pc[Main] \in {"approaching", "join", "judge", "close", "verdict"}
  /\ pc[Main] \in {"start", "approaching", "join", "judge", "close", "verdict"} =>
       \A w \in Pair : mem.deadline[w]
  /\ \A w \in Pair :
       /\ pc[w] \in {"none", "begin", "gate", "read", "approach", "burn", "publish", "done"}
       /\ Placed!PreparedEvent[w] \in signaled => pc[w] \notin {"none", "begin"}
       /\ pc[w] \in {"read", "approach", "burn", "publish", "done"} => "start" \in signaled
       /\ pc[w] \in {"approach", "burn", "publish", "done"} =>
            mem.affinity[w] = {Cpu[w]} /\ mem.first[w] = Cpu[w]
       /\ pc[w] = "publish" => mem.burned[w]
       /\ pc[w] = "done" => mem.last[w] = Cpu[w]
       /\ pc[Main] \in {"judge", "close", "verdict"} => pc[w] = "done"

\* WorkItems, the dedicated threads: who is ready is at the gate until the start.
DedicatedType == mem \in [completed : [Worker -> BOOLEAN], valid : BOOLEAN]
DedicatedInv ==
  /\ DedicatedType /\ Verdict(Worker, TRUE)
  /\ ~open <=> pc[Main] = "verdict"
  /\ pc[Main] # "watch"
  /\ pc[Main] = "create" => pc["A"] = "none"
  /\ pc[Main] \in {"create", "createB"} => pc["B"] = "none"
  /\ pc[Main] \in {"create", "createB", "createC"} => pc["C"] = "none"
  /\ pc[Main] \in {"sample", "inspect"} => Items!ReadyEvents \subseteq signaled
  /\ pc[Main] \in {"create", "createB", "createC", "await", "sample", "inspect", "start"} =>
       "start" \notin signaled
  /\ ~mem.valid => faulted # {}
  /\ \A w \in Worker :
       /\ pc[w] \in {"none", "begin", "gate", "work", "done", "failed"}
       /\ Items!ReadyEvent[w] \in signaled =>
            /\ pc[w] \notin {"none", "begin"}
            /\ pc[w] = "failed" => "slow" \in faulted
       /\ pc[w] \in {"work", "done"} => "start" \in signaled
       /\ pc[w] = "failed" => faulted # {}
       /\ pc[w] = "done" => mem.completed[w]
       /\ pc[Main] \in {"close", "verdict"} => Ended(w)

\* ApcDelivery: the APC is queued between the worker's entry and its release.
ApcType ==
  mem \in [queued : Nat, called : Nat, before : Nat, slept : {"no", "completion", "elapsed"}]
ApcInv ==
  /\ ApcType /\ Only({"A"})
  /\ Verdict({"A"}, IF program = "alertable" THEN mem.called = 1 /\ mem.queued = 0
                                             ELSE mem.called = 0)
  /\ ~open <=> pc[Main] = "verdict"
  /\ pc[Main] \in {"create", "await", "queue", "look", "inspect", "release", "join",
                   "close", "verdict"}
  /\ pc[Main] = "create" => pc["A"] = "none"
  /\ pc["A"] \in {"none", "begin", "announce", "gate", "sleep", "done", "failed"}
  /\ "entered" \in signaled =>
       /\ pc["A"] \notin {"none", "begin", "announce"}
       /\ pc["A"] = "failed" => "slow" \in faulted
  /\ pc[Main] \notin {"create", "await"} => "entered" \in signaled
  /\ pc[Main] \in {"create", "await", "queue", "look", "inspect", "release"} =>
       "release" \notin signaled
  /\ pc["A"] \in {"sleep", "done"} => "release" \in signaled
  /\ mem.queued + mem.called = IF pc[Main] \in {"create", "await", "queue"} THEN 0 ELSE 1
  /\ pc["A"] # "done" => mem.called = 0
  /\ mem.before = 0
  /\ pc["A"] = "done" =>
       IF program = "alertable" THEN mem.called = 1 /\ mem.slept = "completion"
                                ELSE mem.called = 0 /\ mem.slept = "elapsed"
  /\ pc["A"] = "failed" => faulted # {}
  /\ pc[Main] \in {"close", "verdict"} => Ended("A")
-----------------------------------------------------------------------------
(* Programs that clean up *)

\* What main has joined when it comes to the close, and what its success means.
CleanUp(workers) ==
  /\ mem.success => mem.joined
  /\ ~mem.success => faulted # {}
  /\ ~open => pc[Main] = "verdict"
  /\ pc[Main] = "verdict" => open = ~mem.joined
  /\ pc[Main] \in {"close", "verdict"} =>
       \A w \in workers :
         /\ mem.joined => ~Alive(w)
         /\ mem.success => pc[w] \in {"none", "done"}
  /\ \A w \in workers : pc[w] = "failed" => faulted # {}

\* Priorities: a worker starts when it is told to; main succeeds if both have
\* worked, and fails only when something has or a worker has never been let run.
PriorityType ==
  mem \in [success : BOOLEAN, joined : BOOLEAN, worked : [Pair -> BOOLEAN]]
PriorityExcuse == faulted # {} \/ \E w \in Pair : pc[w] = "done" /\ ~mem.worked[w]
PriorityVerdict ==
  /\ exit = "passed" => ~open /\ \A w \in Pair : Priority!Worked(w)
  /\ exit = "failed" => PriorityExcuse
Joining ==
  /\ mem.success => mem.joined
  /\ ~mem.success => PriorityExcuse
  /\ ~open => pc[Main] = "verdict"
  /\ pc[Main] = "verdict" => open = ~mem.joined
  /\ pc[Main] \in {"close", "verdict"} =>
       \A w \in Pair :
         /\ mem.joined => ~Alive(w)
         /\ mem.success => Priority!Worked(w)
  /\ \A w \in Pair : pc[w] = "failed" => faulted # {}
WorkedInv ==
  /\ "stop" \in signaled => faulted # {}
  /\ pc[Main] \in {"abort", "abortStart", "abortA", "abortB", "stopA", "stopB"} =>
       faulted # {}
  /\ pc[Main] \in {"setup", "create"} => pc["A"] = "none"
  /\ pc[Main] \in {"setup", "create", "placeA", "createB"} => pc["B"] = "none"
  /\ mem.success =>
       /\ pc["A"] = "none" => pc[Main] \in {"setup", "create"}
       /\ pc["B"] = "none" => pc[Main] \in {"setup", "create", "placeA", "createB"}
  /\ pc[Main] \in {"stopA", "joinB", "stopB"} =>
       /\ mem.joined => ~Alive("A")
       /\ mem.success => Priority!Worked("A")
  /\ pc[Main] \in {"stopA", "stopB"} => ~mem.success /\ ~mem.joined
  /\ pc[Main] \in {"stopA", "joinB", "stopB", "close", "verdict"} \/ mem.joined
PriorityInv ==
  PriorityType /\ Only(Pair) /\ PriorityVerdict /\ Joining /\ WorkedInv

EqualInv ==
  /\ PriorityInv /\ pc[Main] # "watch" /\ pc[Main] # "sample"
  /\ pc[Main] \in {"setup", "create", "placeA", "createB", "placeB", "inspect", "start"} =>
       "start" \notin signaled
  /\ \A w \in Pair :
       /\ pc[w] \in {"none", "begin", "burn", "publish", "done", "failed"}
       /\ pc[w] \notin {"none", "begin"} => "start" \in signaled \/ "slow" \in faulted

PreemptionInv ==
  /\ PriorityInv /\ pc[Main] # "sample"
  /\ pc[Main] \in {"setup", "create", "placeA", "createB", "placeB", "readyB", "inspect",
                   "startA", "readyA", "observe", "watch", "startB"} =>
       {"stop", "startB"} \cap signaled = {}
  /\ pc[Main] \in {"setup", "create", "placeA", "createB", "placeB", "readyB", "inspect",
                   "startA"} => "startA" \notin signaled
  /\ pc[Main] \in {"inspect", "startA", "readyA", "observe", "watch", "startB"} =>
       "readyB" \in signaled
  /\ pc[Main] \in {"observe", "watch", "startB"} => "readyA" \in signaled
  /\ \A w \in Pair :
       /\ pc[w] \in {"none", "begin", "gate", "stamp", "announce", "burn", "publish",
                     "done", "failed"}
       /\ pc[w] \in {"stamp", "announce", "burn", "publish", "done"} =>
            Priority!StartEvent[w] \in signaled
  /\ pc["B"] # "announce"
  /\ "readyA" \in signaled => pc["A"] \in {"burn", "publish", "done", "failed"}
  /\ pc["A"] = "failed" => "startA" \in signaled \/ "slow" \in faulted
  /\ "readyB" \in signaled =>
       /\ pc["B"] \notin {"none", "begin"}
       /\ pc["B"] = "failed" => "startB" \in signaled \/ "slow" \in faulted

\* SuspendCount: the resumes owed are the count, and the worker begins when both
\* are zero.
SuspendType ==
  mem \in [success : BOOLEAN, joined : BOOLEAN, entered : {0, 1}, previous : Nat, owed : Nat]
CountedInv ==
  /\ SuspendType /\ Only({"A"}) /\ CleanUp({"A"})
  /\ Verdict({"A"}, mem.owed = 0 /\ suspends["A"] = 0)
  /\ pc[Main] # "sample"
  /\ pc[Main] \in {"close", "verdict"} \/ mem.joined
  /\ pc[Main] = "create" => pc["A"] = "none"
  /\ IF pc[Main] = "owe" THEN suspends["A"] = 1 /\ mem.owed = 0 /\ pc["A"] = "begin"
                         ELSE suspends["A"] = mem.owed
  /\ mem.owed > 0 => pc["A"] = "begin"
  /\ pc["A"] \in {"none", "begin", "announce", "gate", "done", "failed"}
  /\ pc[Main] \in {"name", "suspend", "once", "still", "watch", "last"} => mem.owed = 1
  /\ pc[Main] \in {"twice", "inspect", "resume"} => mem.owed = 2
  /\ pc[Main] \in {"twice", "begun"} => mem.previous = 1
  /\ pc[Main] = "once" => mem.previous = 2
  /\ pc[Main] \in {"close", "verdict", "join"} /\ mem.success => mem.owed = 0
  /\ mem.entered = IF pc["A"] \in {"none", "begin"} THEN 0 ELSE 1
  /\ "entered" \in signaled => pc["A"] \in {"gate", "done", "failed"}
  /\ pc[Main] = "check" => "entered" \in signaled

\* Contention: who owns the mutex, and that the contender finds it owned until
\* main has it released.
MutexType ==
  mem \in [success : BOOLEAN, joined : BOOLEAN, owner : Pair \cup {"nobody"}, value : 0..3,
           acquired : [Pair -> BOOLEAN], abandoned : [Pair -> BOOLEAN]]
OwnerInv ==
  /\ pc["A"] \in {"none", "begin", "acquire", "announce", "gate", "write", "unlock",
                  "release", "abort", "done", "failed"}
  /\ pc["B"] \in {"none", "begin", "ready", "try", "observed", "gate", "acquire", "write",
                  "unlock", "release", "abort", "done", "failed"}
  /\ pc["A"] \in {"acquire", "announce", "gate", "write", "unlock", "release"} =>
       mem.owner = "A"
  /\ pc["B"] \in {"acquire", "write", "unlock", "release"} => mem.owner = "B"
  /\ \A w \in Pair : pc[w] = "done" => mem.owner # w
  /\ "ownerOwns" \in signaled => pc["A"] \notin {"none", "begin", "acquire", "announce"}
  /\ pc["B"] # "none" \/ pc[Main] = "createB" => "ownerOwns" \in signaled
  /\ pc["A"] \in {"announce", "gate", "write", "unlock", "done"} => mem.acquired["A"]
  /\ pc["B"] \in {"write", "unlock", "done"} => mem.acquired["B"]
  /\ pc["B"] = "write" => mem.value = 2
  /\ pc["B"] \in {"unlock", "done"} =>
       mem.value = 3 /\ pc["A"] \in {"abort", "done", "failed"}
  /\ pc["A"] \in {"unlock", "done"}
       /\ pc["B"] \notin {"unlock", "release", "abort", "done", "failed"} => mem.value = 2
  /\ \A w \in Pair : pc[w] \in {"release", "abort", "failed"} => faulted # {}

\* Until it has seen the contention main has released nothing, and until then the
\* owner is at its gate as soon as it owns the mutex and as long as no wait has
\* timed out.
Waiting == {"create", "nameA", "owned", "createB", "nameB", "ready", "observed", "inspect"}
PhaseInv ==
  /\ "abort" \in signaled => faulted # {}
  /\ "contentionObserved" \in signaled =>
       pc["B"] \notin {"none", "begin", "ready", "try", "observed"}
  /\ pc[Main] = "inspect" => "contentionObserved" \in signaled
  /\ pc[Main] \in Waiting => "releaseOwner" \notin signaled
  /\ pc[Main] \notin Waiting /\ faulted = {} => "contentionObserved" \in signaled
  /\ pc[Main] \in Waiting /\ "slow" \notin faulted =>
       /\ pc["A"] \in {"none", "begin", "acquire", "announce"} => "abort" \notin signaled
       /\ /\ "ownerOwns" \in signaled
          /\ pc["B"] \in {"none", "begin", "ready", "try", "observed", "gate"}
          => pc["A"] = "gate" /\ "abort" \notin signaled
       /\ "contentionObserved" \in signaled => pc["B"] = "gate"

\* What main finds when it joins them.
JoinedInv ==
  /\ pc[Main] \notin {"watch", "sample"}
  /\ pc[Main] \in {"stopA", "joinB", "stopB", "close", "verdict"} \/ mem.joined
  /\ pc[Main] = "create" => pc["A"] = "none"
  /\ pc[Main] \in {"create", "nameA", "owned", "createB"} => pc["B"] = "none"
  /\ pc["A"] = "none" => pc[Main] = "create" \/ ~mem.success
  /\ pc["B"] = "none" => pc[Main] \in {"create", "nameA", "owned", "createB"} \/ ~mem.success
  /\ pc[Main] \in {"abort", "stopA", "stopB"} => ~mem.success
  /\ pc[Main] \in {"stopA", "stopB"} => ~mem.joined
  /\ pc[Main] \in {"stopA", "joinB", "stopB"} =>
       /\ mem.joined => ~Alive("A")
       /\ mem.success => pc["A"] = "done"
  /\ pc[Main] \in {"close", "verdict"} /\ mem.success => pc["A"] = "done" /\ pc["B"] = "done"
ContendedInv ==
  /\ MutexType /\ Only(Pair) /\ Verdict(Pair, mem.value = 3 /\ mem.owner = "nobody")
  /\ CleanUp(Pair) /\ OwnerInv /\ PhaseInv /\ JoinedInv

\* HandleLifetime: main has a handle to join as long as there is a worker, and
\* the progress it asks for is acknowledged after it has looked.
HandleType ==
  mem \in [success : BOOLEAN, joined : BOOLEAN, duplicate : BOOLEAN, closed : BOOLEAN,
           progress : Nat, acknowledged : Nat, before : Nat]
ClosedInv ==
  /\ HandleType /\ Only({"A"}) /\ CleanUp({"A"})
  /\ Verdict({"A"}, mem.acknowledged > mem.before)
  /\ pc[Main] # "sample"
  /\ pc[Main] \in {"close", "verdict"} \/ mem.joined
  /\ pc[Main] = "create" => pc["A"] = "none"
  /\ pc["A"] \in {"none", "begin", "announce", "gate", "observe", "hold", "done", "failed"}
  /\ mem.closed => mem.duplicate
  /\ pc[Main] \in {"await", "inspect", "before", "closeOriginal"} => mem.duplicate
  /\ pc[Main] \in {"create", "name", "duplicate", "await", "inspect", "before",
                   "closeOriginal", "request", "observed", "acknowledged", "watch"} =>
       "stop" \notin signaled
  /\ pc[Main] \in {"create", "name", "duplicate", "await", "inspect", "before",
                   "closeOriginal", "request"} => "request" \notin signaled
  /\ "entered" \in signaled =>
       /\ pc["A"] \notin {"none", "begin", "announce"}
       /\ pc["A"] = "failed" => "request" \in signaled \/ "slow" \in faulted
  /\ pc[Main] \in {"inspect", "before"} => "entered" \in signaled
  /\ pc["A"] \in {"observe", "hold"} \/ "observed" \in signaled => "request" \in signaled
  /\ "observed" \in signaled =>
       /\ pc["A"] \in {"hold", "done", "failed"}
       /\ pc["A"] = "failed" => "slow" \in faulted
  /\ pc["A"] = "done" => "stop" \in signaled
  /\ "request" \notin signaled /\ pc[Main] \in {"closeOriginal", "request"} =>
       mem.before <= mem.progress
  /\ "request" \in signaled => mem.before <= mem.progress
  /\ pc["A"] \in {"observe", "hold"} \/ "observed" \in signaled =>
       mem.acknowledged > mem.before
  /\ pc[Main] \in {"acknowledged", "watch"} => "observed" \in signaled
  /\ pc[Main] \in {"stop", "join", "close", "verdict"} /\ mem.success =>
       "observed" \in signaled

RetainedInv ==
  /\ HandleType /\ Only({"A"}) /\ CleanUp({"A"}) /\ Verdict({"A"}, TRUE)
  /\ pc[Main] \notin {"watch", "sample"}
  /\ pc[Main] \in {"close", "verdict"} \/ mem.joined
  /\ pc[Main] = "create" => pc["A"] = "none"
  /\ pc["A"] \in {"none", "begin", "gate", "done", "failed"}
  /\ "entered" \in signaled =>
       /\ pc["A"] \notin {"none", "begin"}
       /\ pc["A"] = "failed" => "slow" \in faulted
  /\ pc[Main] \in {"active", "inspect"} => "entered" \in signaled
  /\ pc["A"] = "done" => "stop" \in signaled
  /\ pc[Main] \in {"create", "name", "await", "active", "inspect", "stop"} =>
       "stop" \notin signaled
  /\ pc["A"] = "none" => pc[Main] = "create" \/ ~mem.success
  /\ pc[Main] = "retained" =>
       /\ mem.joined => ~Alive("A")
       /\ mem.success => pc["A"] = "done"
-----------------------------------------------------------------------------
(* The pool *)

Pool == {"A", "B"}
PoolType ==
  mem \in [next : 1..Tasks, queue : Seq(1..Tasks), item : [Worker -> 0..Tasks],
           returned : SUBSET (1..Tasks), active : Int, peak : Nat, count : [Worker -> Nat],
           observed : [Worker -> Nat], completed : SUBSET (1..Tasks), named : BOOLEAN,
           highest : Nat]

Counted(w) == pc[w] \in {"sample", "raise", "work", "leave"}
Submitted ==
  CASE pc[Main] = "create" -> {}
    [] pc[Main] = "submit" -> 1..mem.next - 1
    [] OTHER -> 1..Tasks

\* A task is in one place: in the queue, with a thread, or returned.
PlaceInv ==
  /\ \A i \in 1..Len(mem.queue) :
       /\ mem.queue[i] \in Submitted \ mem.returned
       /\ \A w \in Pool : mem.item[w] # mem.queue[i]
       /\ \A j \in 1..Len(mem.queue) : mem.queue[i] = mem.queue[j] => i = j
  /\ \A w \in Pool :
       /\ mem.item[w] = 0 <=> pc[w] = "none"
       /\ mem.item[w] # 0 => mem.item[w] \in Submitted \ mem.returned
  /\ mem.item["A"] = mem.item["B"] => mem.item["A"] = 0
  /\ mem.returned \subseteq Submitted
  /\ pc[Main] = "create" => mem.next = 1
  /\ pc[Main] = "wait" => 1..mem.next - 1 \subseteq mem.returned
  /\ pc[Main] \in {"close", "verdict"} => 1..Tasks \subseteq mem.returned

\* The count is that of the callbacks that have counted themselves, and a
\* highest count that is not yet the peak is still carried by one of them.
PeakInv ==
  /\ mem.active = (IF Counted("A") THEN 1 ELSE 0) + (IF Counted("B") THEN 1 ELSE 0)
  /\ \A w \in Pool :
       /\ Counted(w) => mem.count[w] \in 1..2 /\ mem.count[w] <= mem.highest
       /\ pc[w] = "raise" => mem.observed[w] <= mem.peak
  /\ mem.peak <= mem.highest /\ mem.highest <= 2
  /\ mem.peak < mem.highest =>
       \E w \in Pool : pc[w] \in {"sample", "raise"} /\ mem.count[w] = mem.highest
  /\ mem.completed # {} \/ Counted("A") \/ Counted("B") => mem.highest >= 1
PoolInv ==
  /\ PoolType /\ Only(Pool) /\ Verdict(Pool, mem.peak = mem.highest)
  /\ PlaceInv /\ PeakInv
  /\ pc[Main] \in {"create", "submit", "wait", "close", "verdict"}
  /\ ~open <=> pc[Main] = "verdict"
  /\ ~mem.named => faulted # {}
  /\ mem.returned \subseteq mem.completed
  /\ \A w \in Pool :
       /\ pc[w] \in {"none", "name", "count", "sample", "raise", "work", "leave", "return"}
       /\ pc[w] \in {"leave", "return"} => mem.item[w] \in mem.completed
-----------------------------------------------------------------------------
(* The windows *)

MessageRecord == [kind : {"start", "close", "completed"}, run : Nat]
WindowRecord ==
  [automatic : BOOLEAN, queue : Seq(MessageRecord), due : BOOLEAN, quit : BOOLEAN,
   window : BOOLEAN, beat : BOOLEAN, since : BOOLEAN, busy : BOOLEAN, completed : BOOLEAN,
   failed : BOOLEAN, closing : BOOLEAN, worker : BOOLEAN, received : BOOLEAN,
   runNumber : Nat, cancelRequested : BOOLEAN, cancelled : BOOLEAN, batches : BOOLEAN,
   postError : BOOLEAN, nameFailed : BOOLEAN, clicks : Nat, early : BOOLEAN]
WindowType == mem \in WindowRecord

\* What is posted in blocking_ui.cpp is one message at most.
StartPosted == <<Window!Message("start", 0)>>
ClosePosted == <<Window!Message("close", 0)>>

\* A call has failed, or the user has closed the window of an automatic run.
Excuse == faulted # {} \/ (mem.automatic /\ mem.early)

\* The window that computes: it has computed and had a heartbeat before it posts
\* its own close, and starts nothing after it.
BlockingMemory ==
  /\ ~mem.worker
  /\ pc[Main] = "compute" => mem.window /\ ~mem.closing /\ ~mem.since
  /\ mem.queue \in {<<>>, StartPosted, ClosePosted}
  /\ mem.queue = StartPosted => ~mem.closing
  /\ mem.queue = ClosePosted => mem.closing
  /\ mem.closing => (mem.completed /\ mem.beat) \/ faulted # {}
  /\ mem.due => mem.window
  /\ ~mem.window => mem.queue = <<>> /\ ~mem.due
  /\ mem.quit => ~mem.window
  /\ mem.failed => Excuse
  /\ ~mem.window /\ ~mem.failed /\ mem.automatic => mem.completed
BlockingInv ==
  /\ WindowType /\ Only({}) /\ open /\ BlockingMemory
  /\ pc[Main] \in {"pump", "compute"}
  /\ exit = "passed" => ~mem.window /\ (mem.automatic => mem.completed)
  /\ exit = "failed" => Excuse

\* The window with a worker, which is at label a; f: a call has failed.  A run has
\* failed if one has, or an automatic one if the user has closed it or if it has
\* had no heartbeat, and for this last reason alone only with its window closed.
Blamed(m, f) == f \/ (m.automatic /\ (m.early \/ ~m.since))
Settled(m, f) == m.failed /\ m.window => f \/ (m.automatic /\ m.early)

\* The handle is there as long as the worker is, and what the worker has not done
\* it has been told not to do.
Steady(m, a, f) ==
  /\ ~m.worker => a \in {"none", "done", "failed"}
  /\ ~m.window => ~m.worker /\ m.closing
  /\ m.worker => m.busy /\ ~m.completed
  /\ m.due => m.window
  /\ m.quit => ~m.window
  /\ ~m.worker /\ ~m.failed => a # "failed"
  /\ a = "failed" \/ m.postError \/ m.nameFailed => f
  /\ m.completed => m.batches /\ ~m.cancelled
  /\ m.cancelRequested \/ m.cancelled => f \/ m.early
  /\ m.failed => Blamed(m, f)
  /\ a \in {"post", "leave", "done"} /\ m.worker => m.batches \/ m.cancelled \/ f
  /\ ~m.window /\ m.automatic => m.completed \/ Blamed(m, f)
Sound(m, a, f) == Steady(m, a, f) /\ Settled(m, f)
WorkerUiInv ==
  /\ WindowType /\ Only({"A"}) /\ open /\ Sound(mem, pc["A"], faulted # {})
  /\ pc["A"] \in {"none", "begin", "poll", "post", "leave", "done", "failed"}
  /\ pc[Main] \in {"pump", "after", "report"}
  /\ pc[Main] = "report" => ~mem.window
  /\ exit = "passed" =>
       /\ ~mem.window /\ pc["A"] \in {"none", "done"}
       /\ mem.automatic => mem.completed /\ mem.batches /\ ~mem.cancelled
  /\ exit = "failed" => Blamed(mem, faulted # {})
-----------------------------------------------------------------------------
(* All of them *)

\* The invariant of the program that runs.
ProgramInv ==
  /\ program = "immediate" => ImmediateInv
  /\ program = "suspended" => SuspendedInv
  /\ program = "deep" => DeepInv
  /\ program = "shared" => SharedInv
  /\ program \in {"blocking", "polling"} => WaitInv
  /\ program \in {"singleCpu", "twoCpus"} => AffinityInv
  /\ program = "equal" => EqualInv
  /\ program = "preemption" => PreemptionInv
  /\ program = "counted" => CountedInv
  /\ program = "contended" => ContendedInv
  /\ program = "closedWhileRunning" => ClosedInv
  /\ program = "retained" => RetainedInv
  /\ program = "dedicated" => DedicatedInv
  /\ program = "pool" => PoolInv
  /\ program \in {"alertable", "nonAlertable"} => ApcInv
  /\ program = "blockingUi" => BlockingInv
  /\ program = "workerUi" => WorkerUiInv

LifeCycleInv == ProcessInv /\ ProgramInv
-----------------------------------------------------------------------------
(* Steps *)

\* Thread t goes from a label to another, and suspends and ends nothing.
Goes(t, from, to) ==
  /\ pc[t] = from /\ exit = "running" /\ suspends[t] = 0 /\ pc' = [pc EXCEPT ![t] = to]
  /\ UNCHANGED <<suspends, exit>>

\* Thread t goes to a label, and no other thread moves.
Moved(t, to) == pc'[t] = to /\ \A u \in Thread \ {t} : pc'[u] = pc[u]

\* One call may have failed in a step.
Faulty == NoFault \/ \E f \in Faults : Fault(f)

\* What a step of one thread keeps that suspends and ends nothing.
LEMMA Moves ==
  ASSUME ProcessInv, NEW t \in Thread, NEW to, UNCHANGED <<program, suspends, exit>>,
         pc' = [pc EXCEPT ![t] = to], signaled' \cap Worker = {}, open' \in BOOLEAN,
         Faulty
  PROVE  ProcessInv' /\ Moved(t, to)
BY GatedProcessAssumption DEF ProcessInv, Moved, Faulty, NoFault, Fault

\* The same of the creation of a worker.
LEMMA Creates ==
  ASSUME ProcessInv, NEW w \in Worker, NEW to,
         UNCHANGED <<program, signaled, open, exit, faulted>>,
         pc' = [pc EXCEPT ![Main] = to, ![w] = "begin"], suspends' \in [Thread -> Nat]
  PROVE  /\ ProcessInv' /\ pc'[Main] = to /\ pc'[w] = "begin"
         /\ \A u \in Thread \ {Main, w} : pc'[u] = pc[u]
BY DEF ProcessInv, Thread, Main, Worker

\* The same of the end of the process.
LEMMA Ends ==
  ASSUME ProcessInv, exit' \in Status, Faulty,
         UNCHANGED <<program, pc, suspends, signaled, open>>
  PROVE  ProcessInv'
BY GatedProcessAssumption DEF ProcessInv, Faulty, NoFault, Fault
-----------------------------------------------------------------------------
(* The steps of ThreadBirth *)

\* The worker says that it has begun, and waits at its gate for the stop.
LEMMA ImmediateWorkerStep ==
  ASSUME ProcessInv, BirthInv("entered", "stop"), UNCHANGED program,
         Birth!ImmediateWorker("A")
  PROVE  /\ ProcessInv' /\ BirthInv("entered", "stop")'
         /\ UNCHANGED <<suspends, open, exit>> /\ pc["A"] # "none" /\ suspends["A"] = 0
         /\ mem'.previous = mem.previous /\ Moved("A", pc'["A"])
         /\ pc'["A"] \notin {"none", "begin"}
<1> USE DEF Birth!Go, Birth!At, Birth!Running, Birth!Call, Birth!others, Birth!Store,
    Birth!SignalEvent, Birth!Await, Birth!Satisfied, Birth!Worker, Birth!Ended,
    Birth!Fault, Birth!Fails, Fault, Ended, Moved, Faulty, NoFault, Alive, Goes
<1>0. /\ "A" \in Thread /\ Main \in Thread /\ Main # "A" /\ Worker \subseteq Thread
      /\ Worker = {"A", "B", "C"} /\ signaled \cap Worker = {}
  BY DEF ProcessInv, Thread, Worker, Main
<1>1. CASE Birth!Store("A", "begin", [mem EXCEPT !.entered = 1], "announce")
  <2>1. /\ Goes("A", "begin", "announce")
        /\ mem' = [mem EXCEPT !.entered = 1]
        /\ UNCHANGED <<signaled, open, faulted>>
    BY <1>1
  <2>2. ProcessInv' /\ Moved("A", "announce")
    BY <1>0, <2>1, Moves DEF ProcessInv
  <2>3. BirthType' /\ mem'.previous = mem.previous
    BY <1>0, <2>1 DEF BirthInv, BirthType
  <2> QED BY <1>0, <2>1, <2>2, <2>3 DEF BirthInv, BirthType, Only, Verdict
<1>2. CASE Birth!SignalEvent("A", "announce", "entered", "gate")
  <2>1. /\ Goes("A", "announce", "gate")
        /\ signaled' = signaled \cup {"entered"}
        /\ UNCHANGED <<open, mem, faulted>>
    BY <1>2
  <2>2. ProcessInv' /\ Moved("A", "gate")
    BY <1>0, <2>1, Moves DEF ProcessInv
  <2> QED BY <1>0, <2>1, <2>2 DEF BirthInv, BirthType, Only, Verdict
<1>3. CASE Birth!Await("A", "gate", {"stop"}, "done")
  <2>1. /\ Goes("A", "gate", "done")
        /\ UNCHANGED <<signaled, open, mem, faulted>>
        /\ "stop" \in signaled
    BY <1>3, <1>0
  <2>2. ProcessInv' /\ Moved("A", "done")
    BY <1>0, <2>1, Moves DEF ProcessInv
  <2> QED BY <1>0, <2>1, <2>2 DEF BirthInv, BirthType, Only, Verdict
<1>4. CASE Birth!Fails("A", "announce", "call", "failed")
  <2>1. /\ Goes("A", "announce", "failed")
        /\ Fault("call")
        /\ UNCHANGED <<signaled, open, mem>>
    BY <1>4
  <2>2. ProcessInv' /\ Moved("A", "failed")
    BY <1>0, <2>1, Moves DEF ProcessInv
  <2> QED BY <1>0, <2>1, <2>2 DEF BirthInv, BirthType, Only, Verdict
<1>5. CASE ~Birth!Satisfied({"stop"}) /\ Birth!Fails("A", "gate", "slow", "failed")
  <2>1. /\ Goes("A", "gate", "failed")
        /\ Fault("slow")
        /\ UNCHANGED <<signaled, open, mem>>
    BY <1>5
  <2>2. ProcessInv' /\ Moved("A", "failed")
    BY <1>0, <2>1, Moves DEF ProcessInv
  <2> QED BY <1>0, <2>1, <2>2 DEF BirthInv, BirthType, Only, Verdict
<1> QED BY <1>1, <1>2, <1>3, <1>4, <1>5 DEF Birth!ImmediateWorker, Birth!SignalOrFail,
           Birth!AwaitOrFail, Birth!WorkerFails

\* The same, three calls deep.
LEMMA DeepWorkerStep ==
  ASSUME ProcessInv, BirthInv("deepest", "release"), UNCHANGED program,
         Birth!DeepWorker("A")
  PROVE  /\ ProcessInv' /\ BirthInv("deepest", "release")'
         /\ UNCHANGED <<suspends, open, exit>> /\ pc["A"] # "none" /\ suspends["A"] = 0
         /\ mem'.previous = mem.previous /\ Moved("A", pc'["A"])
         /\ pc'["A"] \notin {"none", "begin"}
<1> USE DEF Birth!Go, Birth!At, Birth!Running, Birth!Call, Birth!others,
    Birth!SignalEvent, Birth!Await, Birth!Satisfied, Birth!Worker, Birth!Ended,
    Birth!Fault, Birth!Fails, Fault, Ended, Moved, Faulty, NoFault, Alive, Goes
<1>0. /\ "A" \in Thread /\ Main \in Thread /\ Main # "A" /\ Worker \subseteq Thread
      /\ Worker = {"A", "B", "C"} /\ signaled \cap Worker = {}
  BY DEF ProcessInv, Thread, Worker, Main
<1>1. CASE Birth!SignalEvent("A", "begin", "deepest", "gate")
  <2>1. /\ Goes("A", "begin", "gate")
        /\ signaled' = signaled \cup {"deepest"}
        /\ UNCHANGED <<open, mem, faulted>>
    BY <1>1
  <2>2. ProcessInv' /\ Moved("A", "gate")
    BY <1>0, <2>1, Moves DEF ProcessInv
  <2> QED BY <1>0, <2>1, <2>2 DEF BirthInv, BirthType, Only, Verdict
<1>2. CASE Birth!Await("A", "gate", {"release"}, "done")
  <2>1. /\ Goes("A", "gate", "done")
        /\ UNCHANGED <<signaled, open, mem, faulted>>
        /\ "release" \in signaled
    BY <1>2, <1>0
  <2>2. ProcessInv' /\ Moved("A", "done")
    BY <1>0, <2>1, Moves DEF ProcessInv
  <2> QED BY <1>0, <2>1, <2>2 DEF BirthInv, BirthType, Only, Verdict
<1>3. CASE Birth!Fails("A", "begin", "call", "failed")
  <2>1. /\ Goes("A", "begin", "failed")
        /\ Fault("call")
        /\ UNCHANGED <<signaled, open, mem>>
    BY <1>3
  <2>2. ProcessInv' /\ Moved("A", "failed")
    BY <1>0, <2>1, Moves DEF ProcessInv
  <2> QED BY <1>0, <2>1, <2>2 DEF BirthInv, BirthType, Only, Verdict
<1>4. CASE ~Birth!Satisfied({"release"}) /\ Birth!Fails("A", "gate", "slow", "failed")
  <2>1. /\ Goes("A", "gate", "failed")
        /\ Fault("slow")
        /\ UNCHANGED <<signaled, open, mem>>
    BY <1>4
  <2>2. ProcessInv' /\ Moved("A", "failed")
    BY <1>0, <2>1, Moves DEF ProcessInv
  <2> QED BY <1>0, <2>1, <2>2 DEF BirthInv, BirthType, Only, Verdict
<1> QED BY <1>1, <1>2, <1>3, <1>4 DEF Birth!DeepWorker, Birth!SignalOrFail,
           Birth!AwaitOrFail, Birth!WorkerFails

\* The steps of immediate_start.cpp.
LEMMA ImmediateStep ==
  ASSUME ProcessInv, program = "immediate", UNCHANGED program, ImmediateInv,
         NEW t \in Thread, Birth!Immediate(t)
  PROVE  ProcessInv' /\ ImmediateInv'
<1> USE DEF Birth!Go, Birth!At, Birth!Running, Birth!Call, Birth!others, Birth!Store,
    Birth!SignalEvent, Birth!Await, Birth!Satisfied, Birth!Worker, Birth!Main,
    Birth!Ended, Birth!Fault, Birth!TimesOut, Birth!ExitOn, Birth!CheckFails,
    Birth!EndProcess, Birth!Return, Birth!CloseEvents, Birth!CreateThread, Fault, Ended,
    Main, Moved, Faulty, NoFault, Alive, Goes
<1>0. /\ "A" \in Worker /\ "A" \in Thread /\ Main \in Thread /\ Worker \subseteq Thread
      /\ Worker = {"A", "B", "C"} /\ signaled \cap Worker = {} /\ 0 \in Nat /\ 1 \in Nat
  BY DEF ProcessInv, Thread, Worker
<1>1. CASE Birth!CreateThread("create", "A", 0, "await")
  <2>1. /\ pc[Main] = "create" /\ exit = "running" /\ suspends[Main] = 0
        /\ pc' = [pc EXCEPT ![Main] = "await", !["A"] = "begin"]
        /\ suspends' = [suspends EXCEPT !["A"] = 0]
        /\ UNCHANGED <<signaled, open, mem, exit, faulted>>
    BY <1>1
  <2>2. suspends' \in [Thread -> Nat] /\ suspends'["A"] = 0
    BY <1>0, <2>1 DEF ProcessInv
  <2>3. /\ ProcessInv' /\ pc'[Main] = "await" /\ pc'["A"] = "begin"
        /\ \A u \in Thread \ {Main, "A"} : pc'[u] = pc[u]
    BY <1>0, <2>1, <2>2, Creates
  <2> QED BY <1>0, <2>1, <2>2, <2>3 DEF ImmediateInv, BirthInv, BirthType, Only, Verdict
<1>2. CASE Birth!Await(Main, "await", {"entered"}, "inspect")
  <2>1. /\ Goes(Main, "await", "inspect")
        /\ UNCHANGED <<signaled, open, mem, faulted>>
        /\ "entered" \in signaled
    BY <1>2, <1>0
  <2>2. ProcessInv' /\ Moved(Main, "inspect")
    BY <1>0, <2>1, Moves DEF ProcessInv
  <2> QED BY <1>0, <2>1, <2>2 DEF ImmediateInv, BirthInv, BirthType, Only, Verdict
<1>3. CASE Birth!Call(Main, "inspect", "stop")
  <2>1. /\ Goes(Main, "inspect", "stop")
        /\ UNCHANGED <<signaled, open, mem, faulted>>
    BY <1>3
  <2>2. ProcessInv' /\ Moved(Main, "stop")
    BY <1>0, <2>1, Moves DEF ProcessInv
  <2> QED BY <1>0, <2>1, <2>2 DEF ImmediateInv, BirthInv, BirthType, Only, Verdict
<1>4. CASE Birth!SignalEvent(Main, "stop", "stop", "join")
  <2>1. /\ Goes(Main, "stop", "join")
        /\ signaled' = signaled \cup {"stop"}
        /\ UNCHANGED <<open, mem, faulted>>
    BY <1>4
  <2>2. ProcessInv' /\ Moved(Main, "join")
    BY <1>0, <2>1, Moves DEF ProcessInv
  <2> QED BY <1>0, <2>1, <2>2 DEF ImmediateInv, BirthInv, BirthType, Only, Verdict
<1>5. CASE Birth!Await(Main, "join", {"A"}, "close")
  <2>1. /\ Goes(Main, "join", "close")
        /\ UNCHANGED <<signaled, open, mem, faulted>>
        /\ Ended("A")
    BY <1>5, <1>0
  <2>2. ProcessInv' /\ Moved(Main, "close")
    BY <1>0, <2>1, Moves DEF ProcessInv
  <2> QED BY <1>0, <2>1, <2>2 DEF ImmediateInv, BirthInv, BirthType, Only, Verdict
<1>6. CASE Birth!CloseEvents("close", "verdict")
  <2>1. /\ Goes(Main, "close", "verdict")
        /\ open' = FALSE
        /\ UNCHANGED <<signaled, mem, faulted>>
    BY <1>6
  <2>2. ProcessInv' /\ Moved(Main, "verdict")
    BY <1>0, <2>1, Moves DEF ProcessInv
  <2> QED BY <1>0, <2>1, <2>2 DEF ImmediateInv, BirthInv, BirthType, Only, Verdict
<1>7. CASE Birth!Return("verdict", Birth!Succeeded({"A"}))
  <2>1. /\ pc[Main] = "verdict" /\ exit = "running"
        /\ exit' = IF Birth!Succeeded({"A"}) THEN "passed" ELSE "failed"
        /\ UNCHANGED <<pc, suspends, signaled, open, mem, faulted>>
    BY <1>7
  <2>2. ProcessInv'
    BY <2>1, Ends DEF Status
  <2> QED BY <1>0, <2>1, <2>2 DEF ImmediateInv, BirthInv, BirthType, Only, Verdict,
             Birth!Succeeded
<1>8. CASE \/ Birth!TimesOut(Main, "await", {"entered"}) \/ Birth!TimesOut(Main,
                "join", {"A"})
           \/ Birth!CheckFails(Main, Birth!CheckedCalls)
  <2>1. /\ exit = "running" /\ exit' = "failed" /\ \E f \in Faults : Fault(f)
        /\ UNCHANGED <<pc, suspends, signaled, open, mem>>
    BY <1>8
  <2>2. ProcessInv' /\ faulted' # {} /\ faulted \subseteq faulted'
    BY <2>1, Ends DEF Status
  <2> QED BY <1>0, <2>1, <2>2 DEF ImmediateInv, BirthInv, BirthType, Only, Verdict
<1>9. CASE t = "A" /\ Birth!ImmediateWorker("A")
  BY <1>0, <1>9, ImmediateWorkerStep DEF ImmediateInv, BirthInv
<1> QED BY <1>1, <1>2, <1>3, <1>4, <1>5, <1>6, <1>7, <1>8, <1>9 DEF Birth!Immediate,
           Birth!ImmediateMain, Birth!AwaitOrExit

\* The steps of suspended_start.cpp.
LEMMA SuspendedStep ==
  ASSUME ProcessInv, program = "suspended", UNCHANGED program, SuspendedInv,
         NEW t \in Thread, Birth!Suspended(t)
  PROVE  ProcessInv' /\ SuspendedInv'
<1> USE DEF Birth!Go, Birth!At, Birth!Running, Birth!Call, Birth!others, Birth!Store,
    Birth!SignalEvent, Birth!Await, Birth!Satisfied, Birth!Worker, Birth!Main,
    Birth!Ended, Birth!Fault, Birth!TimesOut, Birth!ExitOn, Birth!CheckFails,
    Birth!EndProcess, Birth!Return, Birth!CloseEvents, Birth!CreateThread, Fault, Ended,
    Main, Moved, Faulty, NoFault, Alive, Goes
<1>0. /\ "A" \in Worker /\ "A" \in Thread /\ Main \in Thread /\ Worker \subseteq Thread
      /\ Worker = {"A", "B", "C"} /\ signaled \cap Worker = {} /\ 0 \in Nat /\ 1 \in Nat
  BY DEF ProcessInv, Thread, Worker
<1>1. CASE Birth!CreateThread("create", "A", Birth!CreateSuspended, "sample")
  <2>1. /\ pc[Main] = "create" /\ exit = "running" /\ suspends[Main] = 0
        /\ pc' = [pc EXCEPT ![Main] = "sample", !["A"] = "begin"]
        /\ suspends' = [suspends EXCEPT !["A"] = 1]
        /\ UNCHANGED <<signaled, open, mem, exit, faulted>>
    BY <1>1 DEF Birth!CreateSuspended
  <2>2. suspends' \in [Thread -> Nat] /\ suspends'["A"] = 1
    BY <1>0, <2>1 DEF ProcessInv
  <2>3. /\ ProcessInv' /\ pc'[Main] = "sample" /\ pc'["A"] = "begin"
        /\ \A u \in Thread \ {Main, "A"} : pc'[u] = pc[u]
    BY <1>0, <2>1, <2>2, Creates
  <2> QED BY <1>0, <2>1, <2>2, <2>3 DEF SuspendedInv, HeldInv, BirthInv, BirthType,
             Only, Verdict
<1>2. CASE mem.entered = 0 /\ Birth!Call(Main, "sample", "look")
  <2>1. /\ Goes(Main, "sample", "look")
        /\ UNCHANGED <<signaled, open, mem, faulted>>
        /\ mem.entered = 0
    BY <1>2
  <2>2. ProcessInv' /\ Moved(Main, "look")
    BY <1>0, <2>1, Moves DEF ProcessInv
  <2> QED BY <1>0, <2>1, <2>2 DEF SuspendedInv, HeldInv, BirthInv, BirthType, Only,
             Verdict
<1>3. CASE ~(mem.entered = 0) /\ Birth!EndProcess(Main, "sample", "failed")
  <2>1. /\ pc[Main] = "sample" /\ exit = "running" /\ exit' = "failed"
        /\ ~(mem.entered = 0)
        /\ UNCHANGED <<pc, suspends, signaled, open, mem, faulted>>
    BY <1>3
  <2>2. ProcessInv'
    BY <2>1, Ends DEF Status
  <2> QED BY <1>0, <2>1, <2>2 DEF SuspendedInv, HeldInv, BirthInv, BirthType, Only,
             Verdict
<1>4. CASE Birth!Call(Main, "look", "resume")
  <2>1. /\ Goes(Main, "look", "resume")
        /\ UNCHANGED <<signaled, open, mem, faulted>>
    BY <1>4
  <2>2. ProcessInv' /\ Moved(Main, "resume")
    BY <1>0, <2>1, Moves DEF ProcessInv
  <2> QED BY <1>0, <2>1, <2>2 DEF SuspendedInv, HeldInv, BirthInv, BirthType, Only,
             Verdict
<1>5. CASE Birth!ResumeThread("resume", "A", "await")
  <2>1. /\ pc[Main] = "resume" /\ exit = "running"
        /\ pc' = [pc EXCEPT ![Main] = "await"]
        /\ mem' = [mem EXCEPT !.previous = suspends["A"]]
        /\ suspends' = [suspends EXCEPT !["A"] = IF @ = 0 THEN 0 ELSE @ - 1]
        /\ UNCHANGED <<signaled, open, exit, faulted>>
    BY <1>5 DEF Birth!ResumeThread
  <2>2. suspends["A"] = 1 /\ suspends' = [suspends EXCEPT !["A"] = 0]
    <3>1. suspends["A"] = 1
      BY <2>1 DEF SuspendedInv, HeldInv
    <3>2. (IF suspends["A"] = 0 THEN 0 ELSE suspends["A"] - 1) = 0
      BY <3>1
    <3> QED BY <2>1, <3>1, <3>2
  <2>3. ProcessInv'
    BY <1>0, <2>1, <2>2 DEF ProcessInv
  <2>4. pc'[Main] = "await" /\ \A u \in Worker : pc'[u] = pc[u]
    BY <1>0, <2>1 DEF ProcessInv
  <2>5. BirthType' /\ mem'.previous = 1 /\ mem'.entered = mem.entered
    BY <1>0, <2>1, <2>2 DEF SuspendedInv, BirthInv, BirthType
  <2> QED BY <1>0, <2>1, <2>3, <2>4, <2>5 DEF SuspendedInv, HeldInv, BirthInv, Only,
             Verdict
<1>6. CASE Birth!Await(Main, "await", {"entered"}, "inspect")
  <2>1. /\ Goes(Main, "await", "inspect")
        /\ UNCHANGED <<signaled, open, mem, faulted>>
        /\ "entered" \in signaled
    BY <1>6, <1>0
  <2>2. ProcessInv' /\ Moved(Main, "inspect")
    BY <1>0, <2>1, Moves DEF ProcessInv
  <2> QED BY <1>0, <2>1, <2>2 DEF SuspendedInv, HeldInv, BirthInv, BirthType, Only,
             Verdict
<1>7. CASE Birth!Call(Main, "inspect", "stop")
  <2>1. /\ Goes(Main, "inspect", "stop")
        /\ UNCHANGED <<signaled, open, mem, faulted>>
    BY <1>7
  <2>2. ProcessInv' /\ Moved(Main, "stop")
    BY <1>0, <2>1, Moves DEF ProcessInv
  <2> QED BY <1>0, <2>1, <2>2 DEF SuspendedInv, HeldInv, BirthInv, BirthType, Only,
             Verdict
<1>8. CASE Birth!SignalEvent(Main, "stop", "stop", "join")
  <2>1. /\ Goes(Main, "stop", "join")
        /\ signaled' = signaled \cup {"stop"}
        /\ UNCHANGED <<open, mem, faulted>>
    BY <1>8
  <2>2. ProcessInv' /\ Moved(Main, "join")
    BY <1>0, <2>1, Moves DEF ProcessInv
  <2> QED BY <1>0, <2>1, <2>2 DEF SuspendedInv, HeldInv, BirthInv, BirthType, Only,
             Verdict
<1>9. CASE Birth!Await(Main, "join", {"A"}, "close")
  <2>1. /\ Goes(Main, "join", "close")
        /\ UNCHANGED <<signaled, open, mem, faulted>>
        /\ Ended("A")
    BY <1>9, <1>0
  <2>2. ProcessInv' /\ Moved(Main, "close")
    BY <1>0, <2>1, Moves DEF ProcessInv
  <2> QED BY <1>0, <2>1, <2>2 DEF SuspendedInv, HeldInv, BirthInv, BirthType, Only,
             Verdict
<1>10. CASE Birth!CloseEvents("close", "verdict")
  <2>1. /\ Goes(Main, "close", "verdict")
        /\ open' = FALSE
        /\ UNCHANGED <<signaled, mem, faulted>>
    BY <1>10
  <2>2. ProcessInv' /\ Moved(Main, "verdict")
    BY <1>0, <2>1, Moves DEF ProcessInv
  <2> QED BY <1>0, <2>1, <2>2 DEF SuspendedInv, HeldInv, BirthInv, BirthType, Only,
             Verdict
<1>11. CASE Birth!Return("verdict", mem.previous = 1 /\ Birth!Succeeded({"A"}))
  <2>1. /\ pc[Main] = "verdict" /\ exit = "running"
        /\ exit' = IF mem.previous = 1 /\ Birth!Succeeded({"A"}) THEN "passed"
             ELSE "failed"
        /\ UNCHANGED <<pc, suspends, signaled, open, mem, faulted>>
    BY <1>11
  <2>2. ProcessInv'
    BY <2>1, Ends DEF Status
  <2> QED BY <1>0, <2>1, <2>2 DEF SuspendedInv, HeldInv, BirthInv, BirthType, Only,
             Verdict, Birth!Succeeded
<1>12. CASE \/ Birth!TimesOut(Main, "await", {"entered"}) \/ Birth!TimesOut(Main,
                 "join", {"A"})
            \/ Birth!CheckFails(Main, Birth!CheckedCalls)
  <2>1. /\ exit = "running" /\ exit' = "failed" /\ \E f \in Faults : Fault(f)
        /\ UNCHANGED <<pc, suspends, signaled, open, mem>>
    BY <1>12
  <2>2. ProcessInv' /\ faulted' # {} /\ faulted \subseteq faulted'
    BY <2>1, Ends DEF Status
  <2> QED BY <1>0, <2>1, <2>2 DEF SuspendedInv, HeldInv, BirthInv, BirthType, Only,
             Verdict
<1>13. CASE t = "A" /\ Birth!ImmediateWorker("A")
  <2>1. /\ ProcessInv' /\ BirthInv("entered", "stop")' /\ Moved("A", pc'["A"])
        /\ UNCHANGED suspends /\ suspends["A"] = 0 /\ mem'.previous = mem.previous
        /\ pc'["A"] \notin {"none", "begin"}
    BY <1>13, ImmediateWorkerStep DEF SuspendedInv
  <2>2. pc'[Main] = pc[Main]
    BY <1>0, <2>1
  <2>3. pc[Main] \notin {"sample", "look", "resume"}
    BY <2>1 DEF SuspendedInv, HeldInv
  <2> QED BY <2>1, <2>2, <2>3 DEF SuspendedInv, HeldInv
<1> QED BY <1>1, <1>2, <1>3, <1>4, <1>5, <1>6, <1>7, <1>8, <1>9, <1>10, <1>11, <1>12,
         <1>13 DEF Birth!Suspended, Birth!SuspendedMain, Birth!AwaitOrExit,
         Birth!Verify, Birth!SuspendedWorker

\* The steps of start_address_and_stack.cpp.
LEMMA DeepStep ==
  ASSUME ProcessInv, program = "deep", UNCHANGED program, DeepInv, NEW t \in Thread,
         Birth!Deep(t)
  PROVE  ProcessInv' /\ DeepInv'
<1> USE DEF Birth!Go, Birth!At, Birth!Running, Birth!Call, Birth!others,
    Birth!SignalEvent, Birth!Await, Birth!Satisfied, Birth!Worker, Birth!Main,
    Birth!Ended, Birth!Fault, Birth!TimesOut, Birth!ExitOn, Birth!CheckFails,
    Birth!EndProcess, Birth!Return, Birth!CloseEvents, Birth!CreateThread, Fault, Ended,
    Main, Moved, Faulty, NoFault, Alive, Goes
<1>0. /\ "A" \in Worker /\ "A" \in Thread /\ Main \in Thread /\ Worker \subseteq Thread
      /\ Worker = {"A", "B", "C"} /\ signaled \cap Worker = {} /\ 0 \in Nat /\ 1 \in Nat
  BY DEF ProcessInv, Thread, Worker
<1>1. CASE Birth!CreateThread("create", "A", 0, "await")
  <2>1. /\ pc[Main] = "create" /\ exit = "running" /\ suspends[Main] = 0
        /\ pc' = [pc EXCEPT ![Main] = "await", !["A"] = "begin"]
        /\ suspends' = [suspends EXCEPT !["A"] = 0]
        /\ UNCHANGED <<signaled, open, mem, exit, faulted>>
    BY <1>1
  <2>2. suspends' \in [Thread -> Nat] /\ suspends'["A"] = 0
    BY <1>0, <2>1 DEF ProcessInv
  <2>3. /\ ProcessInv' /\ pc'[Main] = "await" /\ pc'["A"] = "begin"
        /\ \A u \in Thread \ {Main, "A"} : pc'[u] = pc[u]
    BY <1>0, <2>1, <2>2, Creates
  <2> QED BY <1>0, <2>1, <2>2, <2>3 DEF DeepInv, BirthInv, BirthType, Only, Verdict
<1>2. CASE Birth!Await(Main, "await", {"deepest"}, "inspect")
  <2>1. /\ Goes(Main, "await", "inspect")
        /\ UNCHANGED <<signaled, open, mem, faulted>>
        /\ "deepest" \in signaled
    BY <1>2, <1>0
  <2>2. ProcessInv' /\ Moved(Main, "inspect")
    BY <1>0, <2>1, Moves DEF ProcessInv
  <2> QED BY <1>0, <2>1, <2>2 DEF DeepInv, BirthInv, BirthType, Only, Verdict
<1>3. CASE Birth!Call(Main, "inspect", "stop")
  <2>1. /\ Goes(Main, "inspect", "stop")
        /\ UNCHANGED <<signaled, open, mem, faulted>>
    BY <1>3
  <2>2. ProcessInv' /\ Moved(Main, "stop")
    BY <1>0, <2>1, Moves DEF ProcessInv
  <2> QED BY <1>0, <2>1, <2>2 DEF DeepInv, BirthInv, BirthType, Only, Verdict
<1>4. CASE Birth!SignalEvent(Main, "stop", "release", "join")
  <2>1. /\ Goes(Main, "stop", "join")
        /\ signaled' = signaled \cup {"release"}
        /\ UNCHANGED <<open, mem, faulted>>
    BY <1>4
  <2>2. ProcessInv' /\ Moved(Main, "join")
    BY <1>0, <2>1, Moves DEF ProcessInv
  <2> QED BY <1>0, <2>1, <2>2 DEF DeepInv, BirthInv, BirthType, Only, Verdict
<1>5. CASE Birth!Await(Main, "join", {"A"}, "close")
  <2>1. /\ Goes(Main, "join", "close")
        /\ UNCHANGED <<signaled, open, mem, faulted>>
        /\ Ended("A")
    BY <1>5, <1>0
  <2>2. ProcessInv' /\ Moved(Main, "close")
    BY <1>0, <2>1, Moves DEF ProcessInv
  <2> QED BY <1>0, <2>1, <2>2 DEF DeepInv, BirthInv, BirthType, Only, Verdict
<1>6. CASE Birth!CloseEvents("close", "verdict")
  <2>1. /\ Goes(Main, "close", "verdict")
        /\ open' = FALSE
        /\ UNCHANGED <<signaled, mem, faulted>>
    BY <1>6
  <2>2. ProcessInv' /\ Moved(Main, "verdict")
    BY <1>0, <2>1, Moves DEF ProcessInv
  <2> QED BY <1>0, <2>1, <2>2 DEF DeepInv, BirthInv, BirthType, Only, Verdict
<1>7. CASE Birth!Return("verdict", Birth!Succeeded({"A"}))
  <2>1. /\ pc[Main] = "verdict" /\ exit = "running"
        /\ exit' = IF Birth!Succeeded({"A"}) THEN "passed" ELSE "failed"
        /\ UNCHANGED <<pc, suspends, signaled, open, mem, faulted>>
    BY <1>7
  <2>2. ProcessInv'
    BY <2>1, Ends DEF Status
  <2> QED BY <1>0, <2>1, <2>2 DEF DeepInv, BirthInv, BirthType, Only, Verdict,
             Birth!Succeeded
<1>8. CASE \/ Birth!TimesOut(Main, "await", {"deepest"}) \/ Birth!TimesOut(Main,
                "join", {"A"})
           \/ Birth!CheckFails(Main, Birth!CheckedCalls \cup {"close"})
  <2>1. /\ exit = "running" /\ exit' = "failed" /\ \E f \in Faults : Fault(f)
        /\ UNCHANGED <<pc, suspends, signaled, open, mem>>
    BY <1>8
  <2>2. ProcessInv' /\ faulted' # {} /\ faulted \subseteq faulted'
    BY <2>1, Ends DEF Status
  <2> QED BY <1>0, <2>1, <2>2 DEF DeepInv, BirthInv, BirthType, Only, Verdict
<1>9. CASE t = "A" /\ Birth!DeepWorker("A")
  BY <1>0, <1>9, DeepWorkerStep DEF DeepInv, BirthInv
<1> QED BY <1>1, <1>2, <1>3, <1>4, <1>5, <1>6, <1>7, <1>8, <1>9 DEF Birth!Deep,
           Birth!DeepMain, Birth!AwaitOrExit

-----------------------------------------------------------------------------
(* The steps of SharedState *)

\* A worker counts after its gate, and holds still until it is released.
LEMMA SharedWorkerStep ==
  ASSUME ProcessInv, SharedInv, UNCHANGED program, NEW w \in Pair,
         State!SharedStateWorker(w)
  PROVE  ProcessInv' /\ SharedInv'
<1> USE DEF State!Go, State!At, State!Running, State!Call, State!others, State!Store,
    State!SignalEvent, State!Await, State!Satisfied, State!Worker, State!Ended,
    State!Fault, State!TimesOut, State!ExitOn, State!CheckFails, State!EndProcess,
    State!Verify, Fault, Ended, Main, Pair, Moved, Faulty, NoFault, Alive, Goes
<1>0. /\ w \in Thread /\ Main \in Thread /\ Main # w /\ Worker \subseteq Thread
      /\ Worker = {"A", "B", "C"} /\ signaled \cap Worker = {} /\ Increments \in Nat
      /\ State!PreparedEvent["A"] = "preparedA"
      /\ State!PreparedEvent["B"] = "preparedB"
      /\ State!CountedEvent["A"] = "readyA" /\ State!CountedEvent["B"] = "readyB"
  BY LifeCycleAssumption DEF ProcessInv, Thread, Worker, State!PreparedEvent,
     State!CountedEvent
<1>1. CASE State!Store(w, "begin", [mem EXCEPT !.tls[w] = w], "get")
  <2>1. /\ Goes(w, "begin", "get")
        /\ mem' = [mem EXCEPT !.tls[w] = w]
        /\ UNCHANGED <<signaled, open, faulted>>
    BY <1>1
  <2>2. ProcessInv' /\ Moved(w, "get")
    BY <1>0, <2>1, Moves DEF ProcessInv
  <2>3. SharedType' /\ UNCHANGED <<mem.counter, mem.made, mem.captured>>
        /\ mem'.tls = [mem.tls EXCEPT ![w] = w]
    BY <1>0, <2>1 DEF SharedInv, SharedType
  <2> QED BY <1>0, <2>1, <2>2, <2>3 DEF SharedInv, SharedType, Only, Verdict
<1>2. CASE mem.tls[w] = w /\ State!Call(w, "get", "capture")
  <2>1. /\ Goes(w, "get", "capture")
        /\ UNCHANGED <<signaled, open, mem, faulted>>
        /\ mem.tls[w] = w
    BY <1>2
  <2>2. ProcessInv' /\ Moved(w, "capture")
    BY <1>0, <2>1, Moves DEF ProcessInv
  <2> QED BY <1>0, <2>1, <2>2 DEF SharedInv, SharedType, Only, Verdict
<1>3. CASE ~(mem.tls[w] = w) /\ State!EndProcess(w, "get", "failed")
  <2>1. /\ pc[w] = "get" /\ exit = "running" /\ exit' = "failed" /\ ~(mem.tls[w] = w)
        /\ UNCHANGED <<pc, suspends, signaled, open, mem, faulted>>
    BY <1>3
  <2>2. ProcessInv'
    BY <2>1, Ends DEF Status
  <2> QED BY <1>0, <2>1, <2>2 DEF SharedInv, SharedType, Only, Verdict
<1>4. CASE State!Store(w, "capture", [mem EXCEPT !.captured[w] = mem.tls[w]],
            "announce")
  <2>1. /\ Goes(w, "capture", "announce")
        /\ mem' = [mem EXCEPT !.captured[w] = mem.tls[w]]
        /\ UNCHANGED <<signaled, open, faulted>>
    BY <1>4
  <2>2. ProcessInv' /\ Moved(w, "announce")
    BY <1>0, <2>1, Moves DEF ProcessInv
  <2>3. SharedType' /\ UNCHANGED <<mem.counter, mem.made, mem.tls>>
        /\ mem'.captured = [mem.captured EXCEPT ![w] = w]
    BY <1>0, <2>1 DEF SharedInv, SharedType
  <2> QED BY <1>0, <2>1, <2>2, <2>3 DEF SharedInv, SharedType, Only, Verdict
<1>5. CASE State!SignalEvent(w, "announce", State!PreparedEvent[w], "gate")
  <2>1. /\ Goes(w, "announce", "gate")
        /\ signaled' = signaled \cup {State!PreparedEvent[w]}
        /\ UNCHANGED <<open, mem, faulted>>
    BY <1>5
  <2>2. ProcessInv' /\ Moved(w, "gate")
    BY <1>0, <2>1, Moves DEF ProcessInv
  <2> QED BY <1>0, <2>1, <2>2 DEF SharedInv, SharedType, Only, Verdict
<1>6. CASE State!Await(w, "gate", {"start"}, "count")
  <2>1. /\ Goes(w, "gate", "count")
        /\ UNCHANGED <<signaled, open, mem, faulted>>
        /\ "start" \in signaled
    BY <1>6, <1>0
  <2>2. ProcessInv' /\ Moved(w, "count")
    BY <1>0, <2>1, Moves DEF ProcessInv
  <2> QED BY <1>0, <2>1, <2>2 DEF SharedInv, SharedType, Only, Verdict
<1>7. CASE /\ mem.made[w] < Increments
           /\ State!Store(w, "count", State!Increment(mem, w), "count")
  <2>1. /\ Goes(w, "count", "count")
        /\ mem.made[w] < Increments
        /\ mem' = [mem EXCEPT !.counter = @ + 1, !.made[w] = @ + 1]
        /\ UNCHANGED <<signaled, open, faulted>>
    BY <1>7 DEF State!Increment
  <2>2. ProcessInv' /\ Moved(w, "count")
    BY <1>0, <2>1, Moves DEF ProcessInv
  <2>3. mem.counter \in Nat /\ mem.made \in [Pair -> Nat]
    BY DEF SharedInv, SharedType
  <2>4. PICK n \in Nat : n = mem.counter + 1
    BY <2>3
  <2>5. PICK m \in [Pair -> Nat] : m = [mem.made EXCEPT ![w] = @ + 1]
    <3>1. mem.made[w] + 1 \in Nat
      BY <2>3
    <3> QED BY <2>3, <3>1
  <2>6. mem' = [mem EXCEPT !.counter = n, !.made = m]
    BY <2>1, <2>4, <2>5
  <2>7. /\ SharedType' /\ UNCHANGED <<mem.tls, mem.captured>>
        /\ mem'.counter = n /\ mem'.made = m
    BY <2>6 DEF SharedInv, SharedType
  <2>8. mem'.counter = mem'.made["A"] + mem'.made["B"]
    BY <2>3, <2>4, <2>5, <2>7 DEF SharedInv
  <2>9. mem'.made[w] <= Increments /\ \A v \in Pair \ {w} : mem'.made[v] = mem.made[v]
    BY <1>0, <2>1, <2>3, <2>5, <2>7
  <2> QED BY <1>0, <2>1, <2>2, <2>7, <2>8, <2>9 DEF SharedInv, Only, Verdict
<1>8. CASE State!SignalEvent(w, "count", State!CountedEvent[w], "hold") /\ mem.made[w] =
            Increments
  <2>1. /\ Goes(w, "count", "hold")
        /\ signaled' = signaled \cup {State!CountedEvent[w]}
        /\ UNCHANGED <<open, mem, faulted>>
        /\ mem.made[w] = Increments
    BY <1>8
  <2>2. ProcessInv' /\ Moved(w, "hold")
    BY <1>0, <2>1, Moves DEF ProcessInv
  <2> QED BY <1>0, <2>1, <2>2 DEF SharedInv, SharedType, Only, Verdict
<1>9. CASE State!Await(w, "hold", {"release"}, "clear")
  <2>1. /\ Goes(w, "hold", "clear")
        /\ UNCHANGED <<signaled, open, mem, faulted>>
        /\ "release" \in signaled
    BY <1>9, <1>0
  <2>2. ProcessInv' /\ Moved(w, "clear")
    BY <1>0, <2>1, Moves DEF ProcessInv
  <2> QED BY <1>0, <2>1, <2>2 DEF SharedInv, SharedType, Only, Verdict
<1>10. CASE State!Store(w, "clear", [mem EXCEPT !.tls[w] = State!Null], "done")
  <2>1. /\ Goes(w, "clear", "done")
        /\ mem' = [mem EXCEPT !.tls[w] = State!Null]
        /\ UNCHANGED <<signaled, open, faulted>>
    BY <1>10
  <2>2. ProcessInv' /\ Moved(w, "done")
    BY <1>0, <2>1, Moves DEF ProcessInv
  <2>3. SharedType' /\ UNCHANGED <<mem.counter, mem.made, mem.captured>>
        /\ mem'.tls = [mem.tls EXCEPT ![w] = State!Null]
    BY <1>0, <2>1 DEF SharedInv, SharedType
  <2> QED BY <1>0, <2>1, <2>2, <2>3 DEF SharedInv, SharedType, Only, Verdict
<1>11. CASE \/ State!TimesOut(w, "gate", {"start"}) \/ State!TimesOut(w, "hold",
                 {"release"})
            \/ State!CheckFails(w, {"begin", "get", "announce", "gate", "count", "hold",
                                    "clear"})
  <2>1. /\ exit = "running" /\ exit' = "failed" /\ \E f \in Faults : Fault(f)
        /\ UNCHANGED <<pc, suspends, signaled, open, mem>>
    BY <1>11
  <2>2. ProcessInv' /\ faulted' # {} /\ faulted \subseteq faulted'
    BY <2>1, Ends DEF Status
  <2> QED BY <1>0, <2>1, <2>2 DEF SharedInv, SharedType, Only, Verdict
<1> QED BY <1>1, <1>2, <1>3, <1>4, <1>5, <1>6, <1>7, <1>8, <1>9, <1>10, <1>11 DEF
           State!SharedStateWorker, State!AwaitOrExit

\* The steps of shared_state_and_tls.cpp.
LEMMA SharedStep ==
  ASSUME ProcessInv, program = "shared", UNCHANGED program, SharedInv, NEW t \in Thread,
         State!Shared(t)
  PROVE  ProcessInv' /\ SharedInv'
<1> USE DEF State!Go, State!At, State!Running, State!Call, State!others, State!Store,
    State!SignalEvent, State!Await, State!Satisfied, State!Worker, State!Main,
    State!Ended, State!Fault, State!TimesOut, State!ExitOn, State!CheckFails,
    State!EndProcess, State!Return, State!CloseEvents, State!CreateThread, State!Verify,
    Fault, Ended, Main, Pair, State!Pair, State!Of, State!Expected, State!BothCounted,
    State!Succeeded, Moved, Faulty, NoFault, Alive, Goes
<1>0. /\ "A" \in Worker /\ "B" \in Worker /\ Main \in Thread /\ Worker \subseteq Thread
      /\ Worker = {"A", "B", "C"} /\ signaled \cap Worker = {} /\ 0 \in Nat
      /\ State!PreparedEvent["A"] = "preparedA"
      /\ State!PreparedEvent["B"] = "preparedB"
      /\ State!CountedEvent["A"] = "readyA" /\ State!CountedEvent["B"] = "readyB"
      /\ Increments \in Nat
  BY LifeCycleAssumption DEF ProcessInv, Thread, Worker, State!PreparedEvent,
     State!CountedEvent
<1>1. CASE State!CreateThread("create", "A", 0, "createB")
  <2>1. /\ pc[Main] = "create" /\ exit = "running" /\ suspends[Main] = 0
        /\ pc' = [pc EXCEPT ![Main] = "createB", !["A"] = "begin"]
        /\ suspends' = [suspends EXCEPT !["A"] = 0]
        /\ UNCHANGED <<signaled, open, mem, exit, faulted>>
    BY <1>1
  <2>2. suspends' \in [Thread -> Nat] /\ suspends'["A"] = 0
    BY <1>0, <2>1 DEF ProcessInv
  <2>3. /\ ProcessInv' /\ pc'[Main] = "createB" /\ pc'["A"] = "begin"
        /\ \A u \in Thread \ {Main, "A"} : pc'[u] = pc[u]
    BY <1>0, <2>1, <2>2, Creates
  <2>4. /\ pc'["B"] = pc["B"] /\ pc'["C"] = pc["C"]
        /\ \A e \in signaled : e # State!CountedEvent["A"]
    BY <1>0, <2>1, <2>3 DEF Thread, SharedInv
  <2> QED BY <1>0, <2>1, <2>2, <2>3, <2>4 DEF SharedInv, SharedType, Only, Verdict
<1>2. CASE State!CreateThread("createB", "B", 0, "prepared")
  <2>1. /\ pc[Main] = "createB" /\ exit = "running" /\ suspends[Main] = 0
        /\ pc' = [pc EXCEPT ![Main] = "prepared", !["B"] = "begin"]
        /\ suspends' = [suspends EXCEPT !["B"] = 0]
        /\ UNCHANGED <<signaled, open, mem, exit, faulted>>
    BY <1>2
  <2>2. suspends' \in [Thread -> Nat] /\ suspends'["B"] = 0
    BY <1>0, <2>1 DEF ProcessInv
  <2>3. /\ ProcessInv' /\ pc'[Main] = "prepared" /\ pc'["B"] = "begin"
        /\ \A u \in Thread \ {Main, "B"} : pc'[u] = pc[u]
    BY <1>0, <2>1, <2>2, Creates
  <2>4. /\ pc'["A"] = pc["A"] /\ pc'["C"] = pc["C"]
        /\ \A e \in signaled : e # State!CountedEvent["B"]
    BY <1>0, <2>1, <2>3 DEF Thread, SharedInv
  <2> QED BY <1>0, <2>1, <2>2, <2>3, <2>4 DEF SharedInv, SharedType, Only, Verdict
<1>3. CASE State!Await(Main, "prepared", State!Of(State!PreparedEvent), "start")
  <2>1. /\ Goes(Main, "prepared", "start")
        /\ UNCHANGED <<signaled, open, mem, faulted>>
        /\ TRUE
    BY <1>3, <1>0
  <2>2. ProcessInv' /\ Moved(Main, "start")
    BY <1>0, <2>1, Moves DEF ProcessInv
  <2> QED BY <1>0, <2>1, <2>2 DEF SharedInv, SharedType, Only, Verdict
<1>4. CASE State!SignalEvent(Main, "start", "start", "counted")
  <2>1. /\ Goes(Main, "start", "counted")
        /\ signaled' = signaled \cup {"start"}
        /\ UNCHANGED <<open, mem, faulted>>
    BY <1>4
  <2>2. ProcessInv' /\ Moved(Main, "counted")
    BY <1>0, <2>1, Moves DEF ProcessInv
  <2> QED BY <1>0, <2>1, <2>2 DEF SharedInv, SharedType, Only, Verdict
<1>5. CASE State!Await(Main, "counted", State!BothCounted, "total")
  <2>1. /\ Goes(Main, "counted", "total")
        /\ UNCHANGED <<signaled, open, mem, faulted>>
        /\ {State!CountedEvent[w] : w \in Pair} \subseteq signaled
    BY <1>5, <1>0
  <2>2. ProcessInv' /\ Moved(Main, "total")
    BY <1>0, <2>1, Moves DEF ProcessInv
  <2> QED BY <1>0, <2>1, <2>2 DEF SharedInv, SharedType, Only, Verdict
<1>6. CASE mem.counter = 2 * Increments /\ State!Call(Main, "total", "read")
  <2>1. /\ Goes(Main, "total", "read")
        /\ UNCHANGED <<signaled, open, mem, faulted>>
        /\ mem.counter = 2 * Increments
    BY <1>6
  <2>2. ProcessInv' /\ Moved(Main, "read")
    BY <1>0, <2>1, Moves DEF ProcessInv
  <2> QED BY <1>0, <2>1, <2>2 DEF SharedInv, SharedType, Only, Verdict
<1>7. CASE ~(mem.counter = 2 * Increments) /\ State!EndProcess(Main, "total", "failed")
  <2>1. /\ pc[Main] = "total" /\ exit = "running" /\ exit' = "failed"
        /\ ~(mem.counter = 2 * Increments)
        /\ UNCHANGED <<pc, suspends, signaled, open, mem, faulted>>
    BY <1>7
  <2>2. ProcessInv'
    BY <2>1, Ends DEF Status
  <2> QED BY <1>0, <2>1, <2>2 DEF SharedInv, SharedType, Only, Verdict
<1>8. CASE State!Expected /\ State!Call(Main, "read", "inspect")
  <2>1. /\ Goes(Main, "read", "inspect")
        /\ UNCHANGED <<signaled, open, mem, faulted>>
        /\ State!Expected
    BY <1>8
  <2>2. ProcessInv' /\ Moved(Main, "inspect")
    BY <1>0, <2>1, Moves DEF ProcessInv
  <2> QED BY <1>0, <2>1, <2>2 DEF SharedInv, SharedType, Only, Verdict
<1>9. CASE ~(State!Expected) /\ State!EndProcess(Main, "read", "failed")
  <2>1. /\ pc[Main] = "read" /\ exit = "running" /\ exit' = "failed"
        /\ ~(State!Expected)
        /\ UNCHANGED <<pc, suspends, signaled, open, mem, faulted>>
    BY <1>9
  <2>2. ProcessInv'
    BY <2>1, Ends DEF Status
  <2> QED BY <1>0, <2>1, <2>2 DEF SharedInv, SharedType, Only, Verdict
<1>10. CASE State!Call(Main, "inspect", "release")
  <2>1. /\ Goes(Main, "inspect", "release")
        /\ UNCHANGED <<signaled, open, mem, faulted>>
    BY <1>10
  <2>2. ProcessInv' /\ Moved(Main, "release")
    BY <1>0, <2>1, Moves DEF ProcessInv
  <2> QED BY <1>0, <2>1, <2>2 DEF SharedInv, SharedType, Only, Verdict
<1>11. CASE State!SignalEvent(Main, "release", "release", "join")
  <2>1. /\ Goes(Main, "release", "join")
        /\ signaled' = signaled \cup {"release"}
        /\ UNCHANGED <<open, mem, faulted>>
    BY <1>11
  <2>2. ProcessInv' /\ Moved(Main, "join")
    BY <1>0, <2>1, Moves DEF ProcessInv
  <2> QED BY <1>0, <2>1, <2>2 DEF SharedInv, SharedType, Only, Verdict
<1>12. CASE State!Await(Main, "join", Pair, "close")
  <2>1. /\ Goes(Main, "join", "close")
        /\ UNCHANGED <<signaled, open, mem, faulted>>
        /\ \A w \in Pair : Ended(w)
    BY <1>12, <1>0
  <2>2. ProcessInv' /\ Moved(Main, "close")
    BY <1>0, <2>1, Moves DEF ProcessInv
  <2> QED BY <1>0, <2>1, <2>2 DEF SharedInv, SharedType, Only, Verdict
<1>13. CASE State!Succeeded(Pair) /\ State!Call(Main, "close", "free")
  <2>1. /\ Goes(Main, "close", "free")
        /\ UNCHANGED <<signaled, open, mem, faulted>>
        /\ State!Succeeded(Pair)
    BY <1>13
  <2>2. ProcessInv' /\ Moved(Main, "free")
    BY <1>0, <2>1, Moves DEF ProcessInv
  <2> QED BY <1>0, <2>1, <2>2 DEF SharedInv, SharedType, Only, Verdict
<1>14. CASE ~(State!Succeeded(Pair)) /\ State!EndProcess(Main, "close", "failed")
  <2>1. /\ pc[Main] = "close" /\ exit = "running" /\ exit' = "failed"
        /\ ~(State!Succeeded(Pair))
        /\ UNCHANGED <<pc, suspends, signaled, open, mem, faulted>>
    BY <1>14
  <2>2. ProcessInv'
    BY <2>1, Ends DEF Status
  <2> QED BY <1>0, <2>1, <2>2 DEF SharedInv, SharedType, Only, Verdict
<1>15. CASE State!CloseEvents("free", "verdict")
  <2>1. /\ Goes(Main, "free", "verdict")
        /\ open' = FALSE
        /\ UNCHANGED <<signaled, mem, faulted>>
    BY <1>15
  <2>2. ProcessInv' /\ Moved(Main, "verdict")
    BY <1>0, <2>1, Moves DEF ProcessInv
  <2> QED BY <1>0, <2>1, <2>2 DEF SharedInv, SharedType, Only, Verdict
<1>16. CASE State!Return("verdict", TRUE)
  <2>1. /\ pc[Main] = "verdict" /\ exit = "running"
        /\ exit' = IF TRUE THEN "passed" ELSE "failed"
        /\ UNCHANGED <<pc, suspends, signaled, open, mem, faulted>>
    BY <1>16
  <2>2. ProcessInv'
    BY <2>1, Ends DEF Status
  <2> QED BY <1>0, <2>1, <2>2 DEF SharedInv, SharedType, Only, Verdict
<1>17. CASE \/ State!TimesOut(Main, "prepared", State!Of(State!PreparedEvent))
            \/ State!TimesOut(Main, "counted", State!BothCounted)
            \/ State!TimesOut(Main, "join", Pair)
            \/ State!CheckFails(Main, {"create", "createB", "prepared", "start",
                 "counted",
                                       "inspect", "release", "join", "close", "free"})
  <2>1. /\ exit = "running" /\ exit' = "failed" /\ \E f \in Faults : Fault(f)
        /\ UNCHANGED <<pc, suspends, signaled, open, mem>>
    BY <1>17
  <2>2. ProcessInv' /\ faulted' # {} /\ faulted \subseteq faulted'
    BY <2>1, Ends DEF Status
  <2> QED BY <1>0, <2>1, <2>2 DEF SharedInv, SharedType, Only, Verdict
<1>18. CASE t \in Pair /\ State!SharedStateWorker(t)
  BY <1>18, SharedWorkerStep
<1> QED BY <1>1, <1>2, <1>3, <1>4, <1>5, <1>6, <1>7, <1>8, <1>9, <1>10, <1>11, <1>12,
         <1>13, <1>14, <1>15, <1>16, <1>17, <1>18 DEF State!Shared, State!SharedMain,
         State!AwaitOrExit

-----------------------------------------------------------------------------
(* The steps of BusyWait *)

\* The worker waits for its completion in either way.
LEMMA WaitWorkerStep ==
  ASSUME ProcessInv, WaitInv, UNCHANGED program,
         \/ program = "blocking" /\ Wait!BlockingEventWorker("A")
         \/ program = "polling" /\ Wait!PollingEventWorker("A")
  PROVE  ProcessInv' /\ WaitInv'
<1> USE DEF Wait!Go, Wait!At, Wait!Running, Wait!Call, Wait!others, Wait!Store,
    Wait!SignalEvent, Wait!Await, Wait!Satisfied, Wait!Worker, Wait!Ended, Wait!Fault,
    Wait!TimesOut, Wait!ExitOn, Wait!CheckFails, Fault, Ended, Main, Moved, Faulty,
    NoFault, Alive, Goes
<1>0. /\ "A" \in Worker /\ "A" \in Thread /\ Main \in Thread /\ Worker \subseteq Thread
      /\ Worker = {"A", "B", "C"} /\ signaled \cap Worker = {} /\ 0 \in Nat
  BY DEF ProcessInv, Thread, Worker
<1>1. CASE Wait!SignalEvent("A", "begin", "prepared", "gate")
  <2>1. /\ Goes("A", "begin", "gate")
        /\ signaled' = signaled \cup {"prepared"}
        /\ UNCHANGED <<open, mem, faulted>>
    BY <1>1
  <2>2. ProcessInv' /\ Moved("A", "gate")
    BY <1>0, <2>1, Moves DEF ProcessInv
  <2> QED BY <1>0, <2>1, <2>2 DEF WaitInv, WaitType, Only, Verdict
<1>2. CASE Wait!Await("A", "gate", {"start"}, "approach")
  <2>1. /\ Goes("A", "gate", "approach")
        /\ UNCHANGED <<signaled, open, mem, faulted>>
        /\ "start" \in signaled
    BY <1>2, <1>0
  <2>2. ProcessInv' /\ Moved("A", "approach")
    BY <1>0, <2>1, Moves DEF ProcessInv
  <2> QED BY <1>0, <2>1, <2>2 DEF WaitInv, WaitType, Only, Verdict
<1>3. CASE Wait!SignalEvent("A", "approach", "approaching", "wait")
  <2>1. /\ Goes("A", "approach", "wait")
        /\ signaled' = signaled \cup {"approaching"}
        /\ UNCHANGED <<open, mem, faulted>>
    BY <1>3
  <2>2. ProcessInv' /\ Moved("A", "wait")
    BY <1>0, <2>1, Moves DEF ProcessInv
  <2> QED BY <1>0, <2>1, <2>2 DEF WaitInv, WaitType, Only, Verdict
<1>4. CASE program = "blocking" /\ Wait!Await("A", "wait", {"completion"}, "publish")
  <2>1. /\ Goes("A", "wait", "publish")
        /\ UNCHANGED <<signaled, open, mem, faulted>>
        /\ program = "blocking" /\ "completion" \in signaled
    BY <1>4, <1>0
  <2>2. ProcessInv' /\ Moved("A", "publish")
    BY <1>0, <2>1, Moves DEF ProcessInv
  <2> QED BY <1>0, <2>1, <2>2 DEF WaitInv, WaitType, Only, Verdict
<1>5. CASE Wait!Satisfied({"completion"}) /\ Wait!Store("A", "wait", [mem EXCEPT
            !.polled = TRUE], "publish")
  <2>1. /\ Goes("A", "wait", "publish")
        /\ mem' = [mem EXCEPT !.polled = TRUE]
        /\ UNCHANGED <<signaled, open, faulted>>
        /\ "completion" \in signaled
    BY <1>5, <1>0
  <2>2. ProcessInv' /\ Moved("A", "publish")
    BY <1>0, <2>1, Moves DEF ProcessInv
  <2>3. WaitType' /\ mem'.polled /\ mem'.observed = mem.observed
    BY <1>0, <2>1 DEF WaitInv, WaitType
  <2> QED BY <1>0, <2>1, <2>2, <2>3 DEF WaitInv, WaitType, Only, Verdict
<1>6. CASE ~Wait!Satisfied({"completion"}) /\ Wait!Store("A", "wait", [mem EXCEPT
            !.polled = TRUE], "wait")
  <2>1. /\ Goes("A", "wait", "wait")
        /\ mem' = [mem EXCEPT !.polled = TRUE]
        /\ UNCHANGED <<signaled, open, faulted>>
    BY <1>6, <1>0
  <2>2. ProcessInv' /\ Moved("A", "wait")
    BY <1>0, <2>1, Moves DEF ProcessInv
  <2>3. WaitType' /\ mem'.polled /\ mem'.observed = mem.observed
    BY <1>0, <2>1 DEF WaitInv, WaitType
  <2> QED BY <1>0, <2>1, <2>2, <2>3 DEF WaitInv, WaitType, Only, Verdict
<1>7. CASE Wait!Store("A", "publish", [mem EXCEPT !.observed = TRUE], "done")
  <2>1. /\ Goes("A", "publish", "done")
        /\ mem' = [mem EXCEPT !.observed = TRUE]
        /\ UNCHANGED <<signaled, open, faulted>>
    BY <1>7
  <2>2. ProcessInv' /\ Moved("A", "done")
    BY <1>0, <2>1, Moves DEF ProcessInv
  <2>3. WaitType' /\ mem'.observed /\ mem'.polled = mem.polled
    BY <1>0, <2>1 DEF WaitInv, WaitType
  <2> QED BY <1>0, <2>1, <2>2, <2>3 DEF WaitInv, WaitType, Only, Verdict
<1>8. CASE \/ Wait!TimesOut("A", "gate", {"start"}) \/ Wait!TimesOut("A", "wait",
                {"completion"})
           \/ Wait!CheckFails("A", {"begin", "gate", "approach", "wait"})
  <2>1. /\ exit = "running" /\ exit' = "failed" /\ \E f \in Faults : Fault(f)
        /\ UNCHANGED <<pc, suspends, signaled, open, mem>>
    BY <1>8
  <2>2. ProcessInv' /\ faulted' # {} /\ faulted \subseteq faulted'
    BY <2>1, Ends DEF Status
  <2> QED BY <1>0, <2>1, <2>2 DEF WaitInv, WaitType, Only, Verdict
<1> QED BY <1>1, <1>2, <1>3, <1>4, <1>5, <1>6, <1>7, <1>8 DEF Wait!BlockingEventWorker,
           Wait!PollingEventWorker, Wait!Approach, Wait!PollUntilSignaled,
           Wait!AwaitOrExit

\* What main does but for its judgement.
LEMMA WaitMainStep ==
  ASSUME ProcessInv, WaitInv, UNCHANGED program, Wait!Observe \/ Wait!Finish
  PROVE  ProcessInv' /\ WaitInv'
<1> USE DEF Wait!Go, Wait!At, Wait!Running, Wait!Call, Wait!others, Wait!SignalEvent,
    Wait!Await, Wait!Satisfied, Wait!Worker, Wait!Main, Wait!Ended, Wait!Fault,
    Wait!TimesOut, Wait!ExitOn, Wait!CheckFails, Wait!EndProcess, Wait!Return,
    Wait!CloseEvents, Wait!CreateThread, Wait!Verify, Fault, Ended, Main, Moved, Faulty,
    NoFault, Alive, Goes
<1>0. /\ "A" \in Worker /\ "A" \in Thread /\ Main \in Thread /\ Worker \subseteq Thread
      /\ Worker = {"A", "B", "C"} /\ signaled \cap Worker = {} /\ 0 \in Nat
  BY DEF ProcessInv, Thread, Worker
<1>1. CASE Wait!CreateThread("create", "A", 0, "prepared")
  <2>1. /\ pc[Main] = "create" /\ exit = "running" /\ suspends[Main] = 0
        /\ pc' = [pc EXCEPT ![Main] = "prepared", !["A"] = "begin"]
        /\ suspends' = [suspends EXCEPT !["A"] = 0]
        /\ UNCHANGED <<signaled, open, mem, exit, faulted>>
    BY <1>1
  <2>2. suspends' \in [Thread -> Nat] /\ suspends'["A"] = 0
    BY <1>0, <2>1 DEF ProcessInv
  <2>3. /\ ProcessInv' /\ pc'[Main] = "prepared" /\ pc'["A"] = "begin"
        /\ \A u \in Thread \ {Main, "A"} : pc'[u] = pc[u]
    BY <1>0, <2>1, <2>2, Creates
  <2> QED BY <1>0, <2>1, <2>2, <2>3 DEF WaitInv, WaitType, Only, Verdict
<1>2. CASE Wait!Await(Main, "prepared", {"prepared"}, "inspect")
  <2>1. /\ Goes(Main, "prepared", "inspect")
        /\ UNCHANGED <<signaled, open, mem, faulted>>
        /\ "prepared" \in signaled
    BY <1>2, <1>0
  <2>2. ProcessInv' /\ Moved(Main, "inspect")
    BY <1>0, <2>1, Moves DEF ProcessInv
  <2> QED BY <1>0, <2>1, <2>2 DEF WaitInv, WaitType, Only, Verdict
<1>3. CASE Wait!Call(Main, "inspect", "start")
  <2>1. /\ Goes(Main, "inspect", "start")
        /\ UNCHANGED <<signaled, open, mem, faulted>>
    BY <1>3
  <2>2. ProcessInv' /\ Moved(Main, "start")
    BY <1>0, <2>1, Moves DEF ProcessInv
  <2> QED BY <1>0, <2>1, <2>2 DEF WaitInv, WaitType, Only, Verdict
<1>4. CASE Wait!SignalEvent(Main, "start", "start", "approaching")
  <2>1. /\ Goes(Main, "start", "approaching")
        /\ signaled' = signaled \cup {"start"}
        /\ UNCHANGED <<open, mem, faulted>>
    BY <1>4
  <2>2. ProcessInv' /\ Moved(Main, "approaching")
    BY <1>0, <2>1, Moves DEF ProcessInv
  <2> QED BY <1>0, <2>1, <2>2 DEF WaitInv, WaitType, Only, Verdict
<1>5. CASE Wait!Await(Main, "approaching", {"approaching"}, "observe")
  <2>1. /\ Goes(Main, "approaching", "observe")
        /\ UNCHANGED <<signaled, open, mem, faulted>>
        /\ TRUE
    BY <1>5, <1>0
  <2>2. ProcessInv' /\ Moved(Main, "observe")
    BY <1>0, <2>1, Moves DEF ProcessInv
  <2> QED BY <1>0, <2>1, <2>2 DEF WaitInv, WaitType, Only, Verdict
<1>6. CASE ~Wait!Satisfied({"A"}) /\ Wait!Call(Main, "observe", "complete")
  <2>1. /\ Goes(Main, "observe", "complete")
        /\ UNCHANGED <<signaled, open, mem, faulted>>
        /\ TRUE
    BY <1>6
  <2>2. ProcessInv' /\ Moved(Main, "complete")
    BY <1>0, <2>1, Moves DEF ProcessInv
  <2> QED BY <1>0, <2>1, <2>2 DEF WaitInv, WaitType, Only, Verdict
<1>7. CASE Wait!Satisfied({"A"}) /\ Wait!EndProcess(Main, "observe", "failed")
  <2>1. /\ pc[Main] = "observe" /\ exit = "running" /\ exit' = "failed"
        /\ Wait!Satisfied({"A"})
        /\ UNCHANGED <<pc, suspends, signaled, open, mem, faulted>>
    BY <1>7
  <2>2. ProcessInv'
    BY <2>1, Ends DEF Status
  <2> QED BY <1>0, <2>1, <2>2 DEF WaitInv, WaitType, Only, Verdict
<1>8. CASE Wait!SignalEvent(Main, "complete", "completion", "join")
  <2>1. /\ Goes(Main, "complete", "join")
        /\ signaled' = signaled \cup {"completion"}
        /\ UNCHANGED <<open, mem, faulted>>
    BY <1>8
  <2>2. ProcessInv' /\ Moved(Main, "join")
    BY <1>0, <2>1, Moves DEF ProcessInv
  <2> QED BY <1>0, <2>1, <2>2 DEF WaitInv, WaitType, Only, Verdict
<1>9. CASE Wait!Await(Main, "join", {"A"}, "judge")
  <2>1. /\ Goes(Main, "join", "judge")
        /\ UNCHANGED <<signaled, open, mem, faulted>>
        /\ Ended("A")
    BY <1>9, <1>0
  <2>2. ProcessInv' /\ Moved(Main, "judge")
    BY <1>0, <2>1, Moves DEF ProcessInv
  <2> QED BY <1>0, <2>1, <2>2 DEF WaitInv, WaitType, Only, Verdict
<1>10. CASE Wait!CloseEvents("close", "verdict")
  <2>1. /\ Goes(Main, "close", "verdict")
        /\ open' = FALSE
        /\ UNCHANGED <<signaled, mem, faulted>>
    BY <1>10
  <2>2. ProcessInv' /\ Moved(Main, "verdict")
    BY <1>0, <2>1, Moves DEF ProcessInv
  <2> QED BY <1>0, <2>1, <2>2 DEF WaitInv, WaitType, Only, Verdict
<1>11. CASE Wait!Return("verdict", TRUE)
  <2>1. /\ pc[Main] = "verdict" /\ exit = "running"
        /\ exit' = IF TRUE THEN "passed" ELSE "failed"
        /\ UNCHANGED <<pc, suspends, signaled, open, mem, faulted>>
    BY <1>11
  <2>2. ProcessInv'
    BY <2>1, Ends DEF Status
  <2> QED BY <1>0, <2>1, <2>2 DEF WaitInv, WaitType, Only, Verdict
<1>12. CASE \/ Wait!TimesOut(Main, "prepared", {"prepared"})
            \/ Wait!TimesOut(Main, "approaching", {"approaching"})
            \/ Wait!TimesOut(Main, "join", {"A"})
            \/ Wait!CheckFails(Main, {"create", "prepared", "inspect", "start",
                 "approaching",
                                      "observe", "complete", "join", "judge", "close"})
  <2>1. /\ exit = "running" /\ exit' = "failed" /\ \E f \in Faults : Fault(f)
        /\ UNCHANGED <<pc, suspends, signaled, open, mem>>
    BY <1>12
  <2>2. ProcessInv' /\ faulted' # {} /\ faulted \subseteq faulted'
    BY <2>1, Ends DEF Status
  <2> QED BY <1>0, <2>1, <2>2 DEF WaitInv, WaitType, Only, Verdict
<1> QED BY <1>1, <1>2, <1>3, <1>4, <1>5, <1>6, <1>7, <1>8, <1>9, <1>10, <1>11, <1>12 DEF
           Wait!Observe, Wait!Finish, Wait!AwaitOrExit, Wait!Verify

\* The steps of blocking_wait.cpp and of polling_wait.cpp.
LEMMA WaitStep ==
  ASSUME ProcessInv, WaitInv, UNCHANGED program, NEW t \in Thread,
         \/ program = "blocking" /\ Wait!Blocking(t)
         \/ program = "polling" /\ Wait!Polling(t)
  PROVE  ProcessInv' /\ WaitInv'
<1> USE DEF Wait!Go, Wait!At, Wait!Running, Wait!Call, Wait!others, Wait!Store,
    Wait!SignalEvent, Wait!Satisfied, Wait!Worker, Wait!Main, Wait!Ended, Wait!Fault,
    Wait!ExitOn, Wait!CheckFails, Wait!EndProcess, Wait!Return, Wait!CloseEvents,
    Wait!CreateThread, Wait!Verify, Wait!Succeeded, Fault, Ended, Main, Moved, Faulty,
    NoFault, Alive, Goes
<1>0. /\ "A" \in Worker /\ "A" \in Thread /\ Main \in Thread /\ Worker \subseteq Thread
      /\ Worker = {"A", "B", "C"} /\ signaled \cap Worker = {} /\ 0 \in Nat
  BY DEF ProcessInv, Thread, Worker
<1>1. CASE Wait!Call(Main, "judge", "close")
  <2>1. /\ Goes(Main, "judge", "close")
        /\ UNCHANGED <<signaled, open, mem, faulted>>
    BY <1>1
  <2>2. ProcessInv' /\ Moved(Main, "close")
    BY <1>0, <2>1, Moves DEF ProcessInv
  <2> QED BY <1>0, <2>1, <2>2 DEF WaitInv, WaitType, Only, Verdict
<1>2. CASE /\ \/ program = "blocking" /\ ~(Wait!Succeeded({"A"}) /\ mem.observed)
              \/ program = "polling" /\ ~(Wait!Succeeded({"A"}) /\ mem.observed /\ mem.polled)
           /\ Wait!EndProcess(Main, "judge", "failed")
  BY <1>2 DEF WaitInv
<1>3. CASE Wait!Observe \/ Wait!Finish
  BY <1>3, WaitMainStep
<1>4. CASE \/ program = "blocking" /\ Wait!BlockingEventWorker("A")
           \/ program = "polling" /\ Wait!PollingEventWorker("A")
  BY <1>4, WaitWorkerStep
<1>5. CASE program = "blocking" /\ Wait!Blocking(t)
  <2>1. CASE t = "A" /\ Wait!BlockingEventWorker("A")
    BY <1>5, <2>1, WaitWorkerStep
  <2>2. CASE Wait!Observe \/ Wait!Finish
    BY <1>3, <2>2
  <2>3. CASE Wait!Verify(Main, "judge", Wait!Succeeded({"A"}) /\ mem.observed, "close")
    BY <1>1, <1>2, <1>5, <2>3 DEF Wait!Verify
  <2> QED BY <1>5, <2>1, <2>2, <2>3 DEF Wait!Blocking, Wait!BlockingMain
<1>6. CASE program = "polling" /\ Wait!Polling(t)
  BY <1>1, <1>2, <1>3, <1>4, <1>6 DEF Wait!Polling, Wait!PollingMain, Wait!Verify
<1> QED BY <1>5, <1>6

-----------------------------------------------------------------------------
(* The steps of Affinity *)

\* The processors that the workers are pinned to are those they were.
LEMMA CpuStays ==
  ASSUME UNCHANGED program, mem'.eligible = mem.eligible
  PROVE  Cpu' = Cpu /\ Cpus' = Cpus
BY DEF Cpu, Cpus, Placed!Lowest

\* A worker that has passed its gate reads the affinity it was given.
LEMMA AffinityWorkerStep ==
  ASSUME ProcessInv, AffinityInv, UNCHANGED program, NEW w \in Pair,
         Placed!AffinityWorker(w)
  PROVE  ProcessInv' /\ AffinityInv'
<1> USE DEF Placed!Go, Placed!At, Placed!Running, Placed!Call, Placed!others,
    Placed!Store, Placed!SignalEvent, Placed!Await, Placed!Satisfied, Placed!Worker,
    Placed!Ended, Placed!Fault, Placed!TimesOut, Placed!ExitOn, Placed!CheckFails,
    Fault, Ended, Main, Pair, Moved, Faulty, NoFault, Alive, Goes
<1>0. /\ w \in Thread /\ Main \in Thread /\ Main # w /\ Worker \subseteq Thread
      /\ Worker = {"A", "B", "C"} /\ signaled \cap Worker = {}
      /\ Placed!PreparedEvent["A"] = "preparedA"
      /\ Placed!PreparedEvent["B"] = "preparedB"
      /\ Placed!ApproachingEvent["A"] = "approachingA"
      /\ Placed!ApproachingEvent["B"] = "approachingB"
  BY DEF ProcessInv, Thread, Worker, Placed!PreparedEvent, Placed!ApproachingEvent
<1>a. /\ mem.mask \in [Pair -> SUBSET Cpus] /\ mem.affinity \in [Pair -> SUBSET Cpus]
      /\ mem.first \in [Pair -> Cpus] /\ mem.last \in [Pair -> Cpus]
      /\ mem.burned \in [Pair -> BOOLEAN] /\ mem.deadline \in [Pair -> BOOLEAN]
      /\ Cpu[w] \in Cpus
  BY DEF AffinityInv, AffinityType, Cpus
<1>1. CASE Placed!SignalEvent(w, "begin", Placed!PreparedEvent[w], "gate")
  <2>1. /\ Goes(w, "begin", "gate")
        /\ signaled' = signaled \cup {Placed!PreparedEvent[w]}
        /\ UNCHANGED <<open, mem, faulted>>
    BY <1>1
  <2>2. ProcessInv' /\ Moved(w, "gate")
    BY <1>0, <2>1, Moves DEF ProcessInv
  <2>3. Cpu' = Cpu /\ Cpus' = Cpus
    BY <2>1, <2>2, CpuStays
  <2> QED BY <1>0, <2>1, <2>2, <2>3 DEF AffinityInv, AffinityType, Only, Verdict
<1>2. CASE Placed!Await(w, "gate", {"start"}, "read")
  <2>1. /\ Goes(w, "gate", "read")
        /\ UNCHANGED <<signaled, open, mem, faulted>>
        /\ "start" \in signaled
    BY <1>2, <1>0
  <2>2. ProcessInv' /\ Moved(w, "read")
    BY <1>0, <2>1, Moves DEF ProcessInv
  <2>3. Cpu' = Cpu /\ Cpus' = Cpus
    BY <2>1, <2>2, CpuStays
  <2> QED BY <1>0, <2>1, <2>2, <2>3 DEF AffinityInv, AffinityType, Only, Verdict
<1>3. ASSUME NEW p \in mem.mask[w],
             Placed!Store(w, "read", [mem EXCEPT !.affinity[w] = mem.mask[w],
               !.first[w] = p], "approach")
      PROVE  ProcessInv' /\ AffinityInv'
  <2>1. /\ pc[w] = "read" /\ exit = "running" /\ pc' = [pc EXCEPT ![w] = "approach"]
        /\ mem' = [mem EXCEPT !.affinity[w] = mem.mask[w], !.first[w] = p]
        /\ UNCHANGED <<suspends, signaled, open, exit, faulted>>
    BY <1>3
  <2>2. ProcessInv' /\ Moved(w, "approach")
    BY <1>0, <2>1, Moves DEF ProcessInv
  <2>3. mem.mask[w] = {Cpu[w]} /\ p = Cpu[w] /\ pc[Main] \notin {"select", "create"}
    BY <1>0, <1>3, <2>1 DEF AffinityInv
  <2>4. PICK a \in [Pair -> SUBSET Cpus], f \in [Pair -> Cpus] :
          /\ a = [mem.affinity EXCEPT ![w] = {Cpu[w]}]
          /\ f = [mem.first EXCEPT ![w] = Cpu[w]]
          /\ mem' = [mem EXCEPT !.affinity = a, !.first = f]
    <3>1. PICK a \in [Pair -> SUBSET Cpus] : a = [mem.affinity EXCEPT ![w] = {Cpu[w]}]
      BY <1>a
    <3>2. PICK f \in [Pair -> Cpus] : f = [mem.first EXCEPT ![w] = Cpu[w]]
      BY <1>a
    <3>3. mem' = [mem EXCEPT !.affinity = a, !.first = f]
      BY <2>1, <2>3, <3>1, <3>2
    <3> QED BY <3>1, <3>2, <3>3
  <2>5. /\ UNCHANGED <<mem.eligible, mem.mask, mem.deadline, mem.burned, mem.last>>
        /\ mem'.affinity = [mem.affinity EXCEPT ![w] = {Cpu[w]}]
        /\ mem'.first = [mem.first EXCEPT ![w] = Cpu[w]]
    BY <2>4 DEF AffinityInv, AffinityType
  <2>6. Cpu' = Cpu /\ Cpus' = Cpus
    BY <2>5, CpuStays
  <2>7. AffinityType'
    BY <2>4, <2>6 DEF AffinityInv, AffinityType
  <2> QED BY <1>0, <1>a, <2>1, <2>2, <2>3, <2>5, <2>6, <2>7 DEF AffinityInv, Only,
             Verdict
<1>4. CASE Placed!SignalEvent(w, "approach", Placed!ApproachingEvent[w], "burn")
  <2>1. /\ Goes(w, "approach", "burn")
        /\ signaled' = signaled \cup {Placed!ApproachingEvent[w]}
        /\ UNCHANGED <<open, mem, faulted>>
    BY <1>4
  <2>2. ProcessInv' /\ Moved(w, "burn")
    BY <1>0, <2>1, Moves DEF ProcessInv
  <2>3. Cpu' = Cpu /\ Cpus' = Cpus
    BY <2>1, <2>2, CpuStays
  <2> QED BY <1>0, <2>1, <2>2, <2>3 DEF AffinityInv, AffinityType, Only, Verdict
<1>5. CASE Placed!Store(w, "burn", [mem EXCEPT !.burned[w] = mem.deadline[w]],
            "publish")
  <2>1. /\ Goes(w, "burn", "publish")
        /\ mem' = [mem EXCEPT !.burned[w] = mem.deadline[w]]
        /\ UNCHANGED <<signaled, open, faulted>>
    BY <1>5
  <2>2. ProcessInv' /\ Moved(w, "publish")
    BY <1>0, <2>1, Moves DEF ProcessInv
  <2>3. /\ mem.deadline[w] \in BOOLEAN
        /\ UNCHANGED <<mem.eligible, mem.mask, mem.deadline, mem.affinity, mem.first,
             mem.last>>
        /\ mem'.burned = [mem.burned EXCEPT ![w] = mem.deadline[w]]
        /\ mem' \in [eligible : SUBSET Processor, mask : [Pair -> SUBSET Cpus],
                    deadline : [Pair -> BOOLEAN], burned : [Pair -> BOOLEAN],
                    affinity : [Pair -> SUBSET Cpus], first : [Pair -> Cpus],
                    last : [Pair -> Cpus]]
    BY <1>0, <2>1 DEF AffinityInv, AffinityType
  <2>4. Cpu' = Cpu /\ Cpus' = Cpus
    BY <2>1, <2>2, <2>3, CpuStays
  <2> QED BY <1>0, <2>1, <2>2, <2>3, <2>4 DEF AffinityInv, AffinityType, Only, Verdict
<1>6. ASSUME NEW p \in mem.mask[w],
             Placed!Store(w, "publish", [mem EXCEPT !.last[w] = p], "done")
      PROVE  ProcessInv' /\ AffinityInv'
  <2>1. /\ pc[w] = "publish" /\ exit = "running" /\ pc' = [pc EXCEPT ![w] = "done"]
        /\ mem' = [mem EXCEPT !.last[w] = p]
        /\ UNCHANGED <<suspends, signaled, open, exit, faulted>>
    BY <1>6
  <2>2. ProcessInv' /\ Moved(w, "done")
    BY <1>0, <2>1, Moves DEF ProcessInv
  <2>3. mem.mask[w] = {Cpu[w]} /\ p = Cpu[w] /\ pc[Main] \notin {"select", "create"}
    BY <1>0, <1>6, <2>1 DEF AffinityInv
  <2>4. PICK l \in [Pair -> Cpus] : /\ l = [mem.last EXCEPT ![w] = Cpu[w]]
                                   /\ mem' = [mem EXCEPT !.last = l]
    BY <1>a, <2>1, <2>3
  <2>5. /\ UNCHANGED <<mem.eligible, mem.mask, mem.deadline, mem.burned, mem.affinity,
             mem.first>>
        /\ mem'.last = [mem.last EXCEPT ![w] = Cpu[w]]
    BY <2>4 DEF AffinityInv, AffinityType
  <2>6. Cpu' = Cpu /\ Cpus' = Cpus
    BY <2>5, CpuStays
  <2>7. AffinityType'
    BY <2>4, <2>6 DEF AffinityInv, AffinityType
  <2> QED BY <1>0, <1>a, <2>1, <2>2, <2>3, <2>5, <2>6, <2>7 DEF AffinityInv, Only,
             Verdict
<1>7. CASE \/ Placed!TimesOut(w, "gate", {"start"})
           \/ Placed!CheckFails(w, {"begin", "gate", "read", "approach", "publish"})
  <2>1. /\ exit = "running" /\ exit' = "failed" /\ \E f \in Faults : Fault(f)
        /\ UNCHANGED <<pc, suspends, signaled, open, mem>>
    BY <1>7
  <2>2. ProcessInv' /\ faulted' # {} /\ faulted \subseteq faulted'
    BY <2>1, Ends DEF Status
  <2>3. Cpu' = Cpu /\ Cpus' = Cpus
    BY <2>1, <2>2, CpuStays
  <2> QED BY <1>0, <2>1, <2>2, <2>3 DEF AffinityInv, AffinityType, Only, Verdict
<1> QED BY <1>1, <1>2, <1>3, <1>4, <1>5, <1>6, <1>7 DEF Placed!AffinityWorker,
           Placed!AwaitOrExit

\* Main pins the workers, and opens their gate when they have their deadline.
LEMMA PinnedStep ==
  ASSUME ProcessInv, AffinityInv, UNCHANGED program, NEW cpu, cpu = Cpu,
         Placed!PinnedMain(cpu)
  PROVE  ProcessInv' /\ AffinityInv'
<1> USE DEF Placed!Go, Placed!At, Placed!Running, Placed!Call, Placed!others,
    Placed!Store, Placed!SignalEvent, Placed!Await, Placed!Satisfied, Placed!Worker,
    Placed!Main, Placed!Ended, Placed!Fault, Placed!TimesOut, Placed!ExitOn,
    Placed!CheckFails, Placed!EndProcess, Placed!Return, Placed!CloseEvents,
    Placed!CreateThread, Placed!Verify, Placed!PlacedOn, Fault, Ended, Main, Pair,
    Placed!Pair, Placed!Of, Moved, Faulty, NoFault, Alive, Goes
<1>0. /\ "A" \in Worker /\ "B" \in Worker /\ Main \in Thread /\ Worker \subseteq Thread
      /\ Worker = {"A", "B", "C"} /\ signaled \cap Worker = {} /\ 0 \in Nat
      /\ Placed!PreparedEvent["A"] = "preparedA"
      /\ Placed!PreparedEvent["B"] = "preparedB"
      /\ Placed!ApproachingEvent["A"] = "approachingA"
      /\ Placed!ApproachingEvent["B"] = "approachingB"
  BY DEF ProcessInv, Thread, Worker, Placed!PreparedEvent, Placed!ApproachingEvent
<1>a. /\ mem.mask \in [Pair -> SUBSET Cpus] /\ cpu["A"] \in Cpus /\ cpu["B"] \in Cpus
      /\ Cpu["A"] = cpu["A"] /\ Cpu["B"] = cpu["B"]
  BY DEF AffinityInv, AffinityType, Cpus
<1>1. CASE Placed!CreateThread("create", "A", 0, "pin")
  <2>1. /\ pc[Main] = "create" /\ exit = "running" /\ suspends[Main] = 0
        /\ pc' = [pc EXCEPT ![Main] = "pin", !["A"] = "begin"]
        /\ suspends' = [suspends EXCEPT !["A"] = 0]
        /\ UNCHANGED <<signaled, open, mem, exit, faulted>>
    BY <1>1
  <2>2. suspends' \in [Thread -> Nat] /\ suspends'["A"] = 0
    BY <1>0, <2>1 DEF ProcessInv
  <2>3. /\ ProcessInv' /\ pc'[Main] = "pin" /\ pc'["A"] = "begin"
        /\ \A u \in Thread \ {Main, "A"} : pc'[u] = pc[u]
    BY <1>0, <2>1, <2>2, Creates
  <2>4. /\ pc'["B"] = pc["B"] /\ pc'["C"] = pc["C"]
        /\ \A e \in signaled : e # Placed!PreparedEvent["A"] /\ e # "start"
    BY <1>0, <2>1, <2>3 DEF Thread, AffinityInv
  <2>5. Cpu' = Cpu /\ Cpus' = Cpus
    BY <2>1, <2>2, <2>3, <2>4, CpuStays
  <2> QED BY <1>0, <2>1, <2>2, <2>3, <2>4, <2>5 DEF AffinityInv, AffinityType, Only,
             Verdict
<1>2. CASE Placed!Pin("pin", "A", cpu["A"], "createB")
  <2>1. /\ pc[Main] = "pin" /\ exit = "running" /\ pc' = [pc EXCEPT ![Main] = "createB"]
        /\ mem' = [mem EXCEPT !.mask["A"] = {cpu["A"]}]
        /\ UNCHANGED <<suspends, signaled, open, exit, faulted>>
    BY <1>2 DEF Placed!Pin
  <2>2. ProcessInv' /\ Moved(Main, "createB")
    BY <1>0, <2>1, Moves DEF ProcessInv
  <2>3. PICK m \in [Pair -> SUBSET Cpus] : /\ m = [mem.mask EXCEPT !["A"] = {cpu["A"]}]
                                          /\ mem' = [mem EXCEPT !.mask = m]
    BY <1>a, <2>1
  <2>4. /\ mem'.mask = m
        /\ UNCHANGED <<mem.eligible, mem.deadline, mem.burned, mem.affinity, mem.first,
             mem.last>>
    BY <2>3 DEF AffinityInv, AffinityType
  <2>5. Cpu' = Cpu /\ Cpus' = Cpus
    BY <2>4, CpuStays
  <2>6. AffinityType'
    BY <2>3, <2>5 DEF AffinityInv, AffinityType
  <2> QED BY <1>0, <1>a, <2>1, <2>2, <2>3, <2>4, <2>5, <2>6 DEF AffinityInv, Only,
             Verdict
<1>3. CASE Placed!CreateThread("createB", "B", 0, "pinB")
  <2>1. /\ pc[Main] = "createB" /\ exit = "running" /\ suspends[Main] = 0
        /\ pc' = [pc EXCEPT ![Main] = "pinB", !["B"] = "begin"]
        /\ suspends' = [suspends EXCEPT !["B"] = 0]
        /\ UNCHANGED <<signaled, open, mem, exit, faulted>>
    BY <1>3
  <2>2. suspends' \in [Thread -> Nat] /\ suspends'["B"] = 0
    BY <1>0, <2>1 DEF ProcessInv
  <2>3. /\ ProcessInv' /\ pc'[Main] = "pinB" /\ pc'["B"] = "begin"
        /\ \A u \in Thread \ {Main, "B"} : pc'[u] = pc[u]
    BY <1>0, <2>1, <2>2, Creates
  <2>4. /\ pc'["A"] = pc["A"] /\ pc'["C"] = pc["C"]
        /\ \A e \in signaled : e # Placed!PreparedEvent["B"] /\ e # "start"
    BY <1>0, <2>1, <2>3 DEF Thread, AffinityInv
  <2>5. Cpu' = Cpu /\ Cpus' = Cpus
    BY <2>1, <2>2, <2>3, <2>4, CpuStays
  <2> QED BY <1>0, <2>1, <2>2, <2>3, <2>4, <2>5 DEF AffinityInv, AffinityType, Only,
             Verdict
<1>4. CASE Placed!Pin("pinB", "B", cpu["B"], "prepared")
  <2>1. /\ pc[Main] = "pinB" /\ exit = "running"
        /\ pc' = [pc EXCEPT ![Main] = "prepared"]
        /\ mem' = [mem EXCEPT !.mask["B"] = {cpu["B"]}]
        /\ UNCHANGED <<suspends, signaled, open, exit, faulted>>
    BY <1>4 DEF Placed!Pin
  <2>2. ProcessInv' /\ Moved(Main, "prepared")
    BY <1>0, <2>1, Moves DEF ProcessInv
  <2>3. PICK m \in [Pair -> SUBSET Cpus] : /\ m = [mem.mask EXCEPT !["B"] = {cpu["B"]}]
                                          /\ mem' = [mem EXCEPT !.mask = m]
    BY <1>a, <2>1
  <2>4. /\ mem'.mask = m
        /\ UNCHANGED <<mem.eligible, mem.deadline, mem.burned, mem.affinity, mem.first,
             mem.last>>
    BY <2>3 DEF AffinityInv, AffinityType
  <2>5. Cpu' = Cpu /\ Cpus' = Cpus
    BY <2>4, CpuStays
  <2>6. AffinityType'
    BY <2>3, <2>5 DEF AffinityInv, AffinityType
  <2> QED BY <1>0, <1>a, <2>1, <2>2, <2>3, <2>4, <2>5, <2>6 DEF AffinityInv, Only,
             Verdict
<1>5. CASE Placed!Await(Main, "prepared", Placed!Of(Placed!PreparedEvent), "inspect")
  <2>1. /\ Goes(Main, "prepared", "inspect")
        /\ UNCHANGED <<signaled, open, mem, faulted>>
        /\ {Placed!PreparedEvent[w] : w \in Pair} \subseteq signaled
    BY <1>5, <1>0
  <2>2. ProcessInv' /\ Moved(Main, "inspect")
    BY <1>0, <2>1, Moves DEF ProcessInv
  <2>3. Cpu' = Cpu /\ Cpus' = Cpus
    BY <2>1, <2>2, CpuStays
  <2> QED BY <1>0, <2>1, <2>2, <2>3 DEF AffinityInv, AffinityType, Only, Verdict
<1>6. CASE Placed!Call(Main, "inspect", "deadline")
  <2>1. /\ Goes(Main, "inspect", "deadline")
        /\ UNCHANGED <<signaled, open, mem, faulted>>
    BY <1>6
  <2>2. ProcessInv' /\ Moved(Main, "deadline")
    BY <1>0, <2>1, Moves DEF ProcessInv
  <2>3. Cpu' = Cpu /\ Cpus' = Cpus
    BY <2>1, <2>2, CpuStays
  <2> QED BY <1>0, <2>1, <2>2, <2>3 DEF AffinityInv, AffinityType, Only, Verdict
<1>7. CASE Placed!Store(Main, "deadline", [mem EXCEPT !.deadline = [w \in Pair |->
            TRUE]], "start")
  <2>1. /\ Goes(Main, "deadline", "start")
        /\ mem' = [mem EXCEPT !.deadline = [w \in Pair |-> TRUE]]
        /\ UNCHANGED <<signaled, open, faulted>>
    BY <1>7
  <2>2. ProcessInv' /\ Moved(Main, "start")
    BY <1>0, <2>1, Moves DEF ProcessInv
  <2>3. /\ \A w \in Pair : mem'.deadline[w]
        /\ UNCHANGED <<mem.eligible, mem.mask, mem.burned, mem.affinity, mem.first,
             mem.last>>
        /\ mem' \in [eligible : SUBSET Processor, mask : [Pair -> SUBSET Cpus],
                    deadline : [Pair -> BOOLEAN], burned : [Pair -> BOOLEAN],
                    affinity : [Pair -> SUBSET Cpus], first : [Pair -> Cpus],
                    last : [Pair -> Cpus]]
    BY <1>0, <2>1 DEF AffinityInv, AffinityType
  <2>4. Cpu' = Cpu /\ Cpus' = Cpus
    BY <2>1, <2>2, <2>3, CpuStays
  <2> QED BY <1>0, <2>1, <2>2, <2>3, <2>4 DEF AffinityInv, AffinityType, Only, Verdict
<1>8. CASE Placed!SignalEvent(Main, "start", "start", "approaching")
  <2>1. /\ Goes(Main, "start", "approaching")
        /\ signaled' = signaled \cup {"start"}
        /\ UNCHANGED <<open, mem, faulted>>
    BY <1>8
  <2>2. ProcessInv' /\ Moved(Main, "approaching")
    BY <1>0, <2>1, Moves DEF ProcessInv
  <2>3. Cpu' = Cpu /\ Cpus' = Cpus
    BY <2>1, <2>2, CpuStays
  <2> QED BY <1>0, <2>1, <2>2, <2>3 DEF AffinityInv, AffinityType, Only, Verdict
<1>9. CASE Placed!Await(Main, "approaching", Placed!Of(Placed!ApproachingEvent), "join")
  <2>1. /\ Goes(Main, "approaching", "join")
        /\ UNCHANGED <<signaled, open, mem, faulted>>
        /\ TRUE
    BY <1>9, <1>0
  <2>2. ProcessInv' /\ Moved(Main, "join")
    BY <1>0, <2>1, Moves DEF ProcessInv
  <2>3. Cpu' = Cpu /\ Cpus' = Cpus
    BY <2>1, <2>2, CpuStays
  <2> QED BY <1>0, <2>1, <2>2, <2>3 DEF AffinityInv, AffinityType, Only, Verdict
<1>10. CASE Placed!Await(Main, "join", Pair, "judge")
  <2>1. /\ Goes(Main, "join", "judge")
        /\ UNCHANGED <<signaled, open, mem, faulted>>
        /\ \A w \in Pair : Ended(w)
    BY <1>10, <1>0
  <2>2. ProcessInv' /\ Moved(Main, "judge")
    BY <1>0, <2>1, Moves DEF ProcessInv
  <2>3. Cpu' = Cpu /\ Cpus' = Cpus
    BY <2>1, <2>2, CpuStays
  <2> QED BY <1>0, <2>1, <2>2, <2>3 DEF AffinityInv, AffinityType, Only, Verdict
<1>11. CASE (\A w \in Pair : Placed!PlacedOn(w, cpu[w])) /\ Placed!Call(Main, "judge",
            "close")
  <2>1. /\ Goes(Main, "judge", "close")
        /\ UNCHANGED <<signaled, open, mem, faulted>>
        /\ \A w \in Pair : Placed!PlacedOn(w, cpu[w])
    BY <1>11
  <2>2. ProcessInv' /\ Moved(Main, "close")
    BY <1>0, <2>1, Moves DEF ProcessInv
  <2>3. Cpu' = Cpu /\ Cpus' = Cpus
    BY <2>1, <2>2, CpuStays
  <2> QED BY <1>0, <2>1, <2>2, <2>3 DEF AffinityInv, AffinityType, Only, Verdict
<1>12. CASE ~(\A w \in Pair : Placed!PlacedOn(w, cpu[w])) /\ Placed!EndProcess(Main,
            "judge", "failed")
  <2>1. /\ pc[Main] = "judge" /\ exit = "running" /\ exit' =
             "failed" /\ ~(\A w \in Pair : Placed!PlacedOn(w, cpu[w]))
        /\ UNCHANGED <<pc, suspends, signaled, open, mem, faulted>>
    BY <1>12
  <2>2. ProcessInv'
    BY <2>1, Ends DEF Status
  <2>3. Cpu' = Cpu /\ Cpus' = Cpus
    BY <2>1, <2>2, CpuStays
  <2> QED BY <1>0, <2>1, <2>2, <2>3 DEF AffinityInv, AffinityType, Only, Verdict
<1>13. CASE Placed!CloseEvents("close", "verdict")
  <2>1. /\ Goes(Main, "close", "verdict")
        /\ open' = FALSE
        /\ UNCHANGED <<signaled, mem, faulted>>
    BY <1>13
  <2>2. ProcessInv' /\ Moved(Main, "verdict")
    BY <1>0, <2>1, Moves DEF ProcessInv
  <2>3. Cpu' = Cpu /\ Cpus' = Cpus
    BY <2>1, <2>2, CpuStays
  <2> QED BY <1>0, <2>1, <2>2, <2>3 DEF AffinityInv, AffinityType, Only, Verdict
<1>14. CASE Placed!Return("verdict", TRUE)
  <2>1. /\ pc[Main] = "verdict" /\ exit = "running"
        /\ exit' = IF TRUE THEN "passed" ELSE "failed"
        /\ UNCHANGED <<pc, suspends, signaled, open, mem, faulted>>
    BY <1>14
  <2>2. ProcessInv'
    BY <2>1, Ends DEF Status
  <2>3. Cpu' = Cpu /\ Cpus' = Cpus
    BY <2>1, <2>2, CpuStays
  <2> QED BY <1>0, <2>1, <2>2, <2>3 DEF AffinityInv, AffinityType, Only, Verdict
<1>15. CASE \/ Placed!TimesOut(Main, "prepared", Placed!Of(Placed!PreparedEvent))
            \/ Placed!TimesOut(Main, "approaching", Placed!Of(Placed!ApproachingEvent))
            \/ Placed!TimesOut(Main, "join", Pair)
            \/ Placed!CheckFails(Main, {"select", "create", "pin", "createB", "pinB",
                  "prepared", "inspect", "start", "approaching", "join", "judge",
                    "close"})
  <2>1. /\ exit = "running" /\ exit' = "failed" /\ \E f \in Faults : Fault(f)
        /\ UNCHANGED <<pc, suspends, signaled, open, mem>>
    BY <1>15
  <2>2. ProcessInv' /\ faulted' # {} /\ faulted \subseteq faulted'
    BY <2>1, Ends DEF Status
  <2>3. Cpu' = Cpu /\ Cpus' = Cpus
    BY <2>1, <2>2, CpuStays
  <2> QED BY <1>0, <2>1, <2>2, <2>3 DEF AffinityInv, AffinityType, Only, Verdict
<1> QED BY <1>1, <1>2, <1>3, <1>4, <1>5, <1>6, <1>7, <1>8, <1>9, <1>10, <1>11, <1>12,
         <1>13, <1>14, <1>15 DEF Placed!PinnedMain, Placed!AwaitOrExit

\* The steps of single_cpu.cpp and of two_cpus.cpp.
LEMMA AffinityStep ==
  ASSUME ProcessInv, AffinityInv, UNCHANGED program, NEW t \in Thread,
         \/ program = "singleCpu" /\ Placed!SingleCpu(t)
         \/ program = "twoCpus" /\ Placed!TwoCpus(t)
  PROVE  ProcessInv' /\ AffinityInv'
<1>1. PICK cpu : cpu = Cpu
  OBVIOUS
<1>2. CASE Placed!PinnedMain(cpu)
  BY <1>1, <1>2, PinnedStep
<1>3. CASE t \in Pair /\ Placed!AffinityWorker(t)
  BY <1>3, AffinityWorkerStep
<1>4. ASSUME NEW n, Placed!Select(n)
      PROVE  ProcessInv' /\ AffinityInv'
  <2>1. CASE Placed!EndProcess(Main, "select", "unsupported")
    <3>1. /\ exit = "running" /\ exit' = "unsupported"
          /\ UNCHANGED <<pc, suspends, signaled, open, mem, faulted>>
      BY <2>1 DEF Placed!EndProcess, Placed!At, Placed!Running
    <3>2. ProcessInv'
      BY <3>1, Ends DEF Status, Faulty, NoFault
    <3>3. Cpu' = Cpu /\ Cpus' = Cpus
      BY <3>1, CpuStays
    <3> QED BY <3>1, <3>2, <3>3 DEF AffinityInv, AffinityType, Only, Verdict
  <2>2. CASE Placed!Call(Main, "select", "create")
    <3>1. /\ pc[Main] = "select" /\ exit = "running"
          /\ pc' = [pc EXCEPT ![Main] = "create"]
          /\ UNCHANGED <<suspends, signaled, open, mem, exit, faulted>>
      BY <2>2 DEF Placed!Call, Placed!Go, Placed!At, Placed!Running, Placed!others
    <3>2. ProcessInv' /\ Moved(Main, "create")
      BY <3>1, Moves DEF Faulty, NoFault, ProcessInv, Thread
    <3>3. Cpu' = Cpu /\ Cpus' = Cpus
      BY <3>1, CpuStays
    <3>4. Pair \subseteq Worker /\ \A u \in Worker : u \in Thread /\ u # Main
      BY DEF Pair, Thread, Worker, Main
    <3>5. \A u \in Worker : pc'[u] = pc[u]
      BY <3>2, <3>4 DEF Moved
    <3>6. pc'[Main] = "create"
      BY <3>2 DEF Moved
    <3> QED BY <3>1, <3>2, <3>3, <3>4, <3>5, <3>6 DEF AffinityInv, AffinityType, Only, Verdict
  <2> QED BY <1>4, <2>1, <2>2 DEF Placed!Select, Placed!Main, Main
<1>5. CASE program = "singleCpu" /\ Placed!SingleCpu(t)
  <2>1. Cpu = [w \in Pair |-> Placed!Lowest(mem.eligible)]
    BY <1>5 DEF Cpu
  <2> QED BY <1>1, <1>2, <1>3, <1>4, <1>5, <2>1
          DEF Placed!SingleCpu, Placed!SingleCpuMain, Placed!Pair, Pair
<1>6. CASE program = "twoCpus" /\ Placed!TwoCpus(t)
  <2>1. Cpu = [A |-> Placed!Lowest(mem.eligible),
               B |-> Placed!Lowest(mem.eligible \ {Placed!Lowest(mem.eligible)})]
    BY <1>6 DEF Cpu
  <2> QED BY <1>1, <1>2, <1>3, <1>4, <1>6, <2>1
          DEF Placed!TwoCpus, Placed!TwoCpusMain, Placed!TwoCpusWorker, Placed!Pair,
            Pair
<1> QED BY <1>5, <1>6

-----------------------------------------------------------------------------
(* The steps of WorkItems: the dedicated threads *)

\* A worker is ready, waits for the start and completes its task.
LEMMA DedicatedWorkerStep ==
  ASSUME ProcessInv, DedicatedInv, UNCHANGED program, NEW w \in Worker,
         Items!DedicatedTask(w)
  PROVE  ProcessInv' /\ DedicatedInv'
<1> USE DEF Items!Go, Items!At, Items!Running, Items!Call, Items!others, Items!Store,
    Items!SignalEvent, Items!Await, Items!Satisfied, Items!Worker, Items!Ended,
    Items!Fault, Items!Fails, Fault, Ended, Main, Worker, Moved, Faulty, NoFault, Alive,
    Goes
<1>0. /\ w \in Thread /\ Main \in Thread /\ Main # w /\ Worker \subseteq Thread
      /\ signaled \cap Worker = {} /\ Items!ReadyEvent["A"] = "readyA"
      /\ Items!ReadyEvent["B"] = "readyB" /\ Items!ReadyEvent["C"] = "readyC"
  BY DEF ProcessInv, Thread, Items!ReadyEvent
<1>1. CASE Items!SignalEvent(w, "begin", Items!ReadyEvent[w], "gate")
  <2>1. /\ Goes(w, "begin", "gate")
        /\ signaled' = signaled \cup {Items!ReadyEvent[w]}
        /\ UNCHANGED <<open, mem, faulted>>
    BY <1>1
  <2>2. ProcessInv' /\ Moved(w, "gate")
    BY <1>0, <2>1, Moves DEF ProcessInv
  <2> QED BY <1>0, <2>1, <2>2 DEF DedicatedInv, DedicatedType, Only, Verdict
<1>2. CASE Items!Await(w, "gate", {"start"}, "work")
  <2>1. /\ Goes(w, "gate", "work")
        /\ UNCHANGED <<signaled, open, mem, faulted>>
        /\ "start" \in signaled
    BY <1>2, <1>0
  <2>2. ProcessInv' /\ Moved(w, "work")
    BY <1>0, <2>1, Moves DEF ProcessInv
  <2> QED BY <1>0, <2>1, <2>2 DEF DedicatedInv, DedicatedType, Only, Verdict
<1>3. CASE Items!Store(w, "work", [mem EXCEPT !.completed[w] = TRUE], "done")
  <2>1. /\ Goes(w, "work", "done")
        /\ mem' = [mem EXCEPT !.completed[w] = TRUE]
        /\ UNCHANGED <<signaled, open, faulted>>
    BY <1>3
  <2>2. ProcessInv' /\ Moved(w, "done")
    BY <1>0, <2>1, Moves DEF ProcessInv
  <2>3. DedicatedType' /\ mem'.valid = mem.valid
        /\ mem'.completed = [mem.completed EXCEPT ![w] = TRUE]
        /\ mem'.completed[w] /\ \A v \in Worker \ {w} : mem'.completed[v] =
             mem.completed[v]
    BY <1>0, <2>1 DEF DedicatedInv, DedicatedType
  <2> QED BY <1>0, <2>1, <2>2, <2>3 DEF DedicatedInv, DedicatedType, Only, Verdict
<1>4. CASE Items!Fails(w, "begin", "call", "failed")
  <2>1. /\ Goes(w, "begin", "failed")
        /\ Fault("call")
        /\ UNCHANGED <<signaled, open, mem>>
    BY <1>4
  <2>2. ProcessInv' /\ Moved(w, "failed")
    BY <1>0, <2>1, Moves DEF ProcessInv
  <2> QED BY <1>0, <2>1, <2>2 DEF DedicatedInv, DedicatedType, Only, Verdict
<1>5. CASE ~Items!Satisfied({"start"}) /\ Items!Fails(w, "gate", "slow", "failed")
  <2>1. /\ Goes(w, "gate", "failed")
        /\ Fault("slow")
        /\ UNCHANGED <<signaled, open, mem>>
    BY <1>5
  <2>2. ProcessInv' /\ Moved(w, "failed")
    BY <1>0, <2>1, Moves DEF ProcessInv
  <2> QED BY <1>0, <2>1, <2>2 DEF DedicatedInv, DedicatedType, Only, Verdict
<1> QED BY <1>1, <1>2, <1>3, <1>4, <1>5 DEF Items!DedicatedTask, Items!SignalOrFail,
           Items!AwaitOrFail, Items!WorkerFails

\* The steps of dedicated_threads.cpp.
LEMMA DedicatedStep ==
  ASSUME ProcessInv, program = "dedicated", UNCHANGED program, DedicatedInv,
         NEW t \in Thread, Items!Dedicated(t)
  PROVE  ProcessInv' /\ DedicatedInv'
<1> USE DEF Items!Go, Items!At, Items!Running, Items!Call, Items!others, Items!Store,
    Items!SignalEvent, Items!Await, Items!Satisfied, Items!Worker, Items!Main,
    Items!Ended, Items!Fault, Items!TimesOut, Items!ExitOn, Items!CheckFails,
    Items!EndProcess, Items!Return, Items!CloseEvents, Items!CreateThread,
    Items!Succeeded, Items!Alive, Fault, Ended, Main, Worker, Items!ReadyEvents, Moved,
    Faulty, NoFault, Alive, Goes
<1>0. /\ Main \in Thread /\ Worker \subseteq Thread /\ 0 \in Nat
      /\ signaled \cap Worker = {} /\ Items!ReadyEvent["A"] = "readyA"
      /\ Items!ReadyEvent["B"] = "readyB" /\ Items!ReadyEvent["C"] = "readyC"
  BY DEF ProcessInv, Thread, Items!ReadyEvent
<1>1. CASE Items!CreateThread("create", "A", 0, "createB")
  <2>1. /\ pc[Main] = "create" /\ exit = "running" /\ suspends[Main] = 0
        /\ pc' = [pc EXCEPT ![Main] = "createB", !["A"] = "begin"]
        /\ suspends' = [suspends EXCEPT !["A"] = 0]
        /\ UNCHANGED <<signaled, open, mem, exit, faulted>>
    BY <1>1
  <2>2. suspends' \in [Thread -> Nat] /\ suspends'["A"] = 0
    BY <1>0, <2>1 DEF ProcessInv
  <2>3. /\ ProcessInv' /\ pc'[Main] = "createB" /\ pc'["A"] = "begin"
        /\ \A u \in Thread \ {Main, "A"} : pc'[u] = pc[u]
    BY <1>0, <2>1, <2>2, Creates
  <2>4. /\ pc'["B"] = pc["B"] /\ pc'["C"] = pc["C"]
        /\ Items!ReadyEvent["A"] \notin signaled
    BY <1>0, <2>1, <2>3 DEF Thread, DedicatedInv
  <2> QED BY <1>0, <2>1, <2>2, <2>3, <2>4 DEF DedicatedInv, DedicatedType, Only, Verdict
<1>2. CASE Items!CreateThread("createB", "B", 0, "createC")
  <2>1. /\ pc[Main] = "createB" /\ exit = "running" /\ suspends[Main] = 0
        /\ pc' = [pc EXCEPT ![Main] = "createC", !["B"] = "begin"]
        /\ suspends' = [suspends EXCEPT !["B"] = 0]
        /\ UNCHANGED <<signaled, open, mem, exit, faulted>>
    BY <1>2
  <2>2. suspends' \in [Thread -> Nat] /\ suspends'["B"] = 0
    BY <1>0, <2>1 DEF ProcessInv
  <2>3. /\ ProcessInv' /\ pc'[Main] = "createC" /\ pc'["B"] = "begin"
        /\ \A u \in Thread \ {Main, "B"} : pc'[u] = pc[u]
    BY <1>0, <2>1, <2>2, Creates
  <2>4. /\ pc'["A"] = pc["A"] /\ pc'["C"] = pc["C"]
        /\ Items!ReadyEvent["B"] \notin signaled
    BY <1>0, <2>1, <2>3 DEF Thread, DedicatedInv
  <2> QED BY <1>0, <2>1, <2>2, <2>3, <2>4 DEF DedicatedInv, DedicatedType, Only, Verdict
<1>3. CASE Items!CreateThread("createC", "C", 0, "await")
  <2>1. /\ pc[Main] = "createC" /\ exit = "running" /\ suspends[Main] = 0
        /\ pc' = [pc EXCEPT ![Main] = "await", !["C"] = "begin"]
        /\ suspends' = [suspends EXCEPT !["C"] = 0]
        /\ UNCHANGED <<signaled, open, mem, exit, faulted>>
    BY <1>3
  <2>2. suspends' \in [Thread -> Nat] /\ suspends'["C"] = 0
    BY <1>0, <2>1 DEF ProcessInv
  <2>3. /\ ProcessInv' /\ pc'[Main] = "await" /\ pc'["C"] = "begin"
        /\ \A u \in Thread \ {Main, "C"} : pc'[u] = pc[u]
    BY <1>0, <2>1, <2>2, Creates
  <2>4. /\ pc'["A"] = pc["A"] /\ pc'["B"] = pc["B"]
        /\ Items!ReadyEvent["C"] \notin signaled
    BY <1>0, <2>1, <2>3 DEF Thread, DedicatedInv
  <2> QED BY <1>0, <2>1, <2>2, <2>3, <2>4 DEF DedicatedInv, DedicatedType, Only, Verdict
<1>4. CASE Items!Await(Main, "await", Items!ReadyEvents, "sample")
  <2>1. /\ Goes(Main, "await", "sample")
        /\ UNCHANGED <<signaled, open, mem, faulted>>
        /\ {Items!ReadyEvent[w] : w \in Worker} \subseteq signaled
    BY <1>4, <1>0
  <2>2. ProcessInv' /\ Moved(Main, "sample")
    BY <1>0, <2>1, Moves DEF ProcessInv
  <2> QED BY <1>0, <2>1, <2>2 DEF DedicatedInv, DedicatedType, Only, Verdict
<1>5. CASE Items!Store(Main, "sample", [mem EXCEPT !.valid =
             \A w \in Worker : Items!Alive(w)],
            "inspect")
  <2>1. /\ pc[Main] = "sample" /\ exit = "running"
        /\ pc' = [pc EXCEPT ![Main] = "inspect"]
        /\ mem' = [mem EXCEPT !.valid = \A w \in Worker : Items!Alive(w)]
        /\ UNCHANGED <<suspends, signaled, open, exit, faulted>>
    BY <1>5
  <2>2. ProcessInv' /\ Moved(Main, "inspect")
    BY <1>0, <2>1, Moves DEF ProcessInv
  <2>3. PICK v \in BOOLEAN : v = (\A w \in Worker : Items!Alive(w))
    OBVIOUS
  <2>4. mem' = [mem EXCEPT !.valid = v]
    BY <2>1, <2>3
  <2>5. DedicatedType' /\ mem'.valid = v /\ mem'.completed = mem.completed
    BY <2>4 DEF DedicatedInv, DedicatedType
  <2>6. ~v => faulted # {}
    BY <1>0, <2>1, <2>3 DEF DedicatedInv
  <2> QED BY <1>0, <2>1, <2>2, <2>5, <2>6 DEF DedicatedInv, Verdict
<1>6. CASE Items!Call(Main, "inspect", "start")
  <2>1. /\ Goes(Main, "inspect", "start")
        /\ UNCHANGED <<signaled, open, mem, faulted>>
    BY <1>6
  <2>2. ProcessInv' /\ Moved(Main, "start")
    BY <1>0, <2>1, Moves DEF ProcessInv
  <2> QED BY <1>0, <2>1, <2>2 DEF DedicatedInv, DedicatedType, Only, Verdict
<1>7. CASE Items!SignalEvent(Main, "start", "start", "join")
  <2>1. /\ Goes(Main, "start", "join")
        /\ signaled' = signaled \cup {"start"}
        /\ UNCHANGED <<open, mem, faulted>>
    BY <1>7
  <2>2. ProcessInv' /\ Moved(Main, "join")
    BY <1>0, <2>1, Moves DEF ProcessInv
  <2> QED BY <1>0, <2>1, <2>2 DEF DedicatedInv, DedicatedType, Only, Verdict
<1>8. CASE Items!Await(Main, "join", Worker, "close")
  <2>1. /\ Goes(Main, "join", "close")
        /\ UNCHANGED <<signaled, open, mem, faulted>>
        /\ \A w \in Worker : Ended(w)
    BY <1>8, <1>0
  <2>2. ProcessInv' /\ Moved(Main, "close")
    BY <1>0, <2>1, Moves DEF ProcessInv
  <2> QED BY <1>0, <2>1, <2>2 DEF DedicatedInv, DedicatedType, Only, Verdict
<1>9. CASE Items!CloseEvents("close", "verdict")
  <2>1. /\ Goes(Main, "close", "verdict")
        /\ open' = FALSE
        /\ UNCHANGED <<signaled, mem, faulted>>
    BY <1>9
  <2>2. ProcessInv' /\ Moved(Main, "verdict")
    BY <1>0, <2>1, Moves DEF ProcessInv
  <2> QED BY <1>0, <2>1, <2>2 DEF DedicatedInv, DedicatedType, Only, Verdict
<1>10. CASE Items!Return("verdict", (/\ mem.valid /\ Items!Succeeded(Worker)
                                     /\ \A w \in Worker : mem.completed[w]))
  <2>1. /\ pc[Main] = "verdict" /\ exit = "running"
        /\ exit' = IF (/\ mem.valid /\ Items!Succeeded(Worker)
                                     /\ \A w \in Worker : mem.completed[w])
                                          THEN "passed" ELSE "failed"
        /\ UNCHANGED <<pc, suspends, signaled, open, mem, faulted>>
    BY <1>10
  <2>2. ProcessInv'
    BY <2>1, Ends DEF Status
  <2> QED BY <1>0, <2>1, <2>2 DEF DedicatedInv, DedicatedType, Only, Verdict
<1>11. CASE \/ Items!TimesOut(Main, "await", Items!ReadyEvents)
            \/ Items!TimesOut(Main, "join", Worker)
            \/ Items!CheckFails(Main, {"create", "createB", "createC", "await",
                 "sample",
                                       "start", "join", "close"})
  <2>1. /\ exit = "running" /\ exit' = "failed" /\ \E f \in Faults : Fault(f)
        /\ UNCHANGED <<pc, suspends, signaled, open, mem>>
    BY <1>11
  <2>2. ProcessInv' /\ faulted' # {} /\ faulted \subseteq faulted'
    BY <2>1, Ends DEF Status
  <2> QED BY <1>0, <2>1, <2>2 DEF DedicatedInv, DedicatedType, Only, Verdict
<1>12. CASE t \in Worker /\ Items!DedicatedTask(t)
  BY <1>12, DedicatedWorkerStep
<1> QED BY <1>1, <1>2, <1>3, <1>4, <1>5, <1>6, <1>7, <1>8, <1>9, <1>10, <1>11, <1>12 DEF
           Items!Dedicated, Items!DedicatedMain, Items!AwaitOrExit

-----------------------------------------------------------------------------
(* The steps of ApcDelivery *)

\* The worker enters, waits at its gate and sleeps.
LEMMA ApcWorkerStep ==
  ASSUME ProcessInv, ApcInv, UNCHANGED program, NEW alertable \in BOOLEAN,
         alertable <=> program = "alertable", Apc!ApcTarget("A", alertable)
  PROVE  ProcessInv' /\ ApcInv'
<1> USE DEF Apc!Go, Apc!At, Apc!Running, Apc!Call, Apc!others, Apc!Store,
    Apc!SignalEvent, Apc!Await, Apc!Satisfied, Apc!Worker, Apc!Ended, Apc!Fault,
    Apc!Fails, Fault, Ended, Main, Moved, Faulty, NoFault, Alive, Goes
<1>0. /\ "A" \in Worker /\ "A" \in Thread /\ Main \in Thread /\ Worker \subseteq Thread
      /\ Worker = {"A", "B", "C"} /\ signaled \cap Worker = {} /\ 0 \in Nat
      /\ mem.queued \in Nat /\ mem.called \in Nat
  BY DEF ProcessInv, Thread, Worker, ApcInv, ApcType
<1>1. CASE Apc!Store("A", "begin", Apc!Delivered(mem, "no"), "announce")
  <2>1. /\ pc["A"] = "begin" /\ exit = "running"
        /\ pc' = [pc EXCEPT !["A"] = "announce"]
        /\ mem' = [mem EXCEPT !.called = @ + mem.queued, !.queued = 0, !.slept = "no"]
        /\ UNCHANGED <<suspends, signaled, open, exit, faulted>>
    BY <1>1 DEF Apc!Delivered
  <2>2. ProcessInv' /\ Moved("A", "announce")
    BY <1>0, <2>1, Moves DEF ProcessInv
  <2>3. "entered" \notin signaled /\ pc[Main] \in {"create", "await"}
    BY <2>1 DEF ApcInv
  <2>4. mem.called = 0 /\ mem.queued = 0
    BY <1>0, <2>1, <2>3 DEF ApcInv
  <2>5. mem' = [mem EXCEPT !.called = 0, !.queued = 0, !.slept = "no"]
    BY <2>1, <2>4
  <2>6. ApcType' /\ mem'.called = 0 /\ mem'.queued = 0 /\ mem'.before = mem.before
    BY <2>5 DEF ApcInv, ApcType
  <2> QED BY <1>0, <2>1, <2>2, <2>3, <2>4, <2>6 DEF ApcInv, Only, Verdict
<1>2. CASE Apc!SignalEvent("A", "announce", "entered", "gate")
  <2>1. /\ Goes("A", "announce", "gate")
        /\ signaled' = signaled \cup {"entered"}
        /\ UNCHANGED <<open, mem, faulted>>
    BY <1>2
  <2>2. ProcessInv' /\ Moved("A", "gate")
    BY <1>0, <2>1, Moves DEF ProcessInv
  <2> QED BY <1>0, <2>1, <2>2 DEF ApcInv, ApcType, Only, Verdict
<1>3. CASE Apc!Await("A", "gate", {"release"}, "sleep")
  <2>1. /\ Goes("A", "gate", "sleep")
        /\ UNCHANGED <<signaled, open, mem, faulted>>
        /\ "release" \in signaled
    BY <1>3, <1>0
  <2>2. ProcessInv' /\ Moved("A", "sleep")
    BY <1>0, <2>1, Moves DEF ProcessInv
  <2> QED BY <1>0, <2>1, <2>2 DEF ApcInv, ApcType, Only, Verdict
<1>4. CASE Apc!Fails("A", "announce", "call", "failed")
  <2>1. /\ Goes("A", "announce", "failed")
        /\ Fault("call")
        /\ UNCHANGED <<signaled, open, mem>>
    BY <1>4
  <2>2. ProcessInv' /\ Moved("A", "failed")
    BY <1>0, <2>1, Moves DEF ProcessInv
  <2> QED BY <1>0, <2>1, <2>2 DEF ApcInv, ApcType, Only, Verdict
<1>5. CASE ~Apc!Satisfied({"release"}) /\ Apc!Fails("A", "gate", "slow", "failed")
  <2>1. /\ Goes("A", "gate", "failed")
        /\ Fault("slow")
        /\ UNCHANGED <<signaled, open, mem>>
    BY <1>5
  <2>2. ProcessInv' /\ Moved("A", "failed")
    BY <1>0, <2>1, Moves DEF ProcessInv
  <2> QED BY <1>0, <2>1, <2>2 DEF ApcInv, ApcType, Only, Verdict
<1>6. CASE Apc!Store("A", "sleep", Apc!Slept(mem, alertable), "done")
  <2>1. /\ pc["A"] = "sleep" /\ exit = "running" /\ pc' = [pc EXCEPT !["A"] = "done"]
        /\ mem' = Apc!Slept(mem, alertable)
        /\ UNCHANGED <<suspends, signaled, open, exit, faulted>>
    BY <1>6
  <2>2. ProcessInv' /\ Moved("A", "done")
    BY <1>0, <2>1, Moves DEF ProcessInv
  <2>3. /\ "release" \in signaled
        /\ pc[Main] \notin {"create", "await", "queue", "look", "inspect", "release"}
    BY <2>1 DEF ApcInv
  <2>4. mem.called = 0 /\ mem.queued = 1
    BY <1>0, <2>1, <2>3 DEF ApcInv
  <2>5. /\ ApcType' /\ mem'.before = mem.before
        /\ IF alertable THEN mem'.called = 1 /\ mem'.queued = 0 /\ mem'.slept =
             "completion"
                        ELSE mem'.called = 0 /\ mem'.queued = 1 /\ mem'.slept =
                          "elapsed"
    <3>1. CASE alertable
      <4>1. mem' = [mem EXCEPT !.called = @ + mem.queued, !.queued = 0, !.slept =
              "completion"]
        BY <2>1, <2>4, <3>1 DEF Apc!Slept, Apc!Delivered
      <4>2. PICK n \in Nat : n = mem.called + mem.queued /\ n = 1
        BY <1>0, <2>4
      <4>3. mem' = [mem EXCEPT !.called = n, !.queued = 0, !.slept = "completion"]
        BY <4>1, <4>2
      <4> QED BY <3>1, <4>2, <4>3 DEF ApcInv, ApcType
    <3>2. CASE ~alertable
      <4>1. mem' = [mem EXCEPT !.slept = "elapsed"]
        BY <2>1, <3>2 DEF Apc!Slept
      <4> QED BY <2>4, <3>2, <4>1 DEF ApcInv, ApcType
    <3> QED BY <3>1, <3>2
  <2> QED BY <1>0, <2>1, <2>2, <2>3, <2>4, <2>5 DEF ApcInv, Only, Verdict
<1> QED BY <1>1, <1>2, <1>3, <1>4, <1>5, <1>6 DEF Apc!ApcTarget, Apc!SignalOrFail,
           Apc!AwaitOrFail, Apc!WorkerFails

\* Main queues the APC when it has seen the worker entered.
LEMMA ApcMainStep ==
  ASSUME ProcessInv, ApcInv, UNCHANGED program, NEW passed,
         program = "alertable" /\ passed <=>
           program = "alertable" /\ mem.slept = "completion" /\ mem.called = 1,
         program # "alertable" /\ passed <=>
           program # "alertable" /\ mem.slept = "elapsed" /\ mem.called = 0,
         Apc!ApcMain(passed)
  PROVE  ProcessInv' /\ ApcInv'
<1> USE DEF Apc!Go, Apc!At, Apc!Running, Apc!Call, Apc!others, Apc!Store,
    Apc!SignalEvent, Apc!Await, Apc!Satisfied, Apc!Worker, Apc!Main, Apc!Ended,
    Apc!Fault, Apc!TimesOut, Apc!ExitOn, Apc!CheckFails, Apc!EndProcess, Apc!Return,
    Apc!CloseEvents, Apc!CreateThread, Apc!Succeeded, Fault, Ended, Main, Moved, Faulty,
    NoFault, Alive, Goes
<1>0. /\ "A" \in Worker /\ "A" \in Thread /\ Main \in Thread /\ Worker \subseteq Thread
      /\ Worker = {"A", "B", "C"} /\ signaled \cap Worker = {} /\ 0 \in Nat
      /\ mem.queued \in Nat /\ mem.called \in Nat
  BY DEF ProcessInv, Thread, Worker, ApcInv, ApcType
<1>1. CASE Apc!CreateThread("create", "A", 0, "await")
  <2>1. /\ pc[Main] = "create" /\ exit = "running" /\ suspends[Main] = 0
        /\ pc' = [pc EXCEPT ![Main] = "await", !["A"] = "begin"]
        /\ suspends' = [suspends EXCEPT !["A"] = 0]
        /\ UNCHANGED <<signaled, open, mem, exit, faulted>>
    BY <1>1
  <2>2. suspends' \in [Thread -> Nat] /\ suspends'["A"] = 0
    BY <1>0, <2>1 DEF ProcessInv
  <2>3. /\ ProcessInv' /\ pc'[Main] = "await" /\ pc'["A"] = "begin"
        /\ \A u \in Thread \ {Main, "A"} : pc'[u] = pc[u]
    BY <1>0, <2>1, <2>2, Creates
  <2>4. "entered" \notin signaled /\ ~Ended("A") /\ mem.called = 0 /\ mem.queued = 0
    BY <1>0, <2>1 DEF ApcInv
  <2>5. Only({"A"})'
    BY <1>0, <2>3 DEF ApcInv, Only, Thread
  <2>6. exit' = "running" /\ open' /\ ApcType' /\ UNCHANGED <<mem, signaled, program>>
    BY <2>1 DEF ApcInv, ApcType
  <2> QED BY <1>0, <2>1, <2>2, <2>3, <2>4, <2>5, <2>6 DEF ApcInv, Verdict
<1>2. CASE Apc!Await(Main, "await", {"entered"}, "queue")
  <2>1. /\ Goes(Main, "await", "queue")
        /\ UNCHANGED <<signaled, open, mem, faulted>>
        /\ "entered" \in signaled
    BY <1>2, <1>0
  <2>2. ProcessInv' /\ Moved(Main, "queue")
    BY <1>0, <2>1, Moves DEF ProcessInv
  <2> QED BY <1>0, <2>1, <2>2 DEF ApcInv, ApcType, Only, Verdict
<1>3. CASE Apc!QueueUserAPC("queue", "look")
  <2>1. /\ pc[Main] = "queue" /\ exit = "running" /\ pc' = [pc EXCEPT ![Main] = "look"]
        /\ mem' = [mem EXCEPT !.queued = @ + 1]
        /\ UNCHANGED <<suspends, signaled, open, exit, faulted>>
    BY <1>3 DEF Apc!QueueUserAPC
  <2>2. ProcessInv' /\ Moved(Main, "look")
    BY <1>0, <2>1, Moves DEF ProcessInv
  <2>3. PICK n \in Nat : n = mem.queued + 1 /\ mem' = [mem EXCEPT !.queued = n]
    BY <1>0, <2>1
  <2>4. /\ ApcType' /\ mem'.queued = mem.queued + 1
        /\ UNCHANGED <<mem.called, mem.before, mem.slept>>
    BY <2>3 DEF ApcInv, ApcType
  <2>5. mem'.queued + mem'.called = 1
    BY <1>0, <2>1, <2>4 DEF ApcInv
  <2> QED BY <1>0, <2>1, <2>2, <2>4, <2>5 DEF ApcInv, Only, Verdict
<1>4. CASE Apc!Store(Main, "look", [mem EXCEPT !.before = mem.called], "inspect")
  <2>1. /\ Goes(Main, "look", "inspect")
        /\ mem' = [mem EXCEPT !.before = mem.called]
        /\ UNCHANGED <<signaled, open, faulted>>
    BY <1>4
  <2>2. ProcessInv' /\ Moved(Main, "inspect")
    BY <1>0, <2>1, Moves DEF ProcessInv
  <2>3. /\ ApcType'
        /\ mem'.before = mem.called
        /\ UNCHANGED <<mem.queued, mem.called, mem.slept>>
    BY <1>0, <2>1 DEF ApcInv, ApcType
  <2> QED BY <1>0, <2>1, <2>2, <2>3 DEF ApcInv, ApcType, Only, Verdict
<1>5. CASE Apc!Call(Main, "inspect", "release")
  <2>1. /\ Goes(Main, "inspect", "release")
        /\ UNCHANGED <<signaled, open, mem, faulted>>
    BY <1>5
  <2>2. ProcessInv' /\ Moved(Main, "release")
    BY <1>0, <2>1, Moves DEF ProcessInv
  <2> QED BY <1>0, <2>1, <2>2 DEF ApcInv, ApcType, Only, Verdict
<1>6. CASE Apc!SignalEvent(Main, "release", "release", "join")
  <2>1. /\ Goes(Main, "release", "join")
        /\ signaled' = signaled \cup {"release"}
        /\ UNCHANGED <<open, mem, faulted>>
    BY <1>6
  <2>2. ProcessInv' /\ Moved(Main, "join")
    BY <1>0, <2>1, Moves DEF ProcessInv
  <2> QED BY <1>0, <2>1, <2>2 DEF ApcInv, ApcType, Only, Verdict
<1>7. CASE Apc!Await(Main, "join", {"A"}, "close")
  <2>1. /\ Goes(Main, "join", "close")
        /\ UNCHANGED <<signaled, open, mem, faulted>>
        /\ Ended("A")
    BY <1>7, <1>0
  <2>2. ProcessInv' /\ Moved(Main, "close")
    BY <1>0, <2>1, Moves DEF ProcessInv
  <2> QED BY <1>0, <2>1, <2>2 DEF ApcInv, ApcType, Only, Verdict
<1>8. CASE Apc!CloseEvents("close", "verdict")
  <2>1. /\ Goes(Main, "close", "verdict")
        /\ open' = FALSE
        /\ UNCHANGED <<signaled, mem, faulted>>
    BY <1>8
  <2>2. ProcessInv' /\ Moved(Main, "verdict")
    BY <1>0, <2>1, Moves DEF ProcessInv
  <2> QED BY <1>0, <2>1, <2>2 DEF ApcInv, ApcType, Only, Verdict
<1>9. CASE Apc!Return("verdict", (mem.before = 0 /\ Apc!Succeeded({"A"}) /\ passed))
  <2>1. /\ pc[Main] = "verdict" /\ exit = "running"
        /\ exit' = IF (mem.before = 0 /\ Apc!Succeeded({"A"}) /\ passed)
             THEN "passed" ELSE "failed"
        /\ UNCHANGED <<pc, suspends, signaled, open, mem, faulted>>
    BY <1>9
  <2>2. ProcessInv'
    BY <2>1, Ends DEF Status
  <2> QED BY <1>0, <2>1, <2>2 DEF ApcInv, ApcType, Only, Verdict
<1>10. CASE \/ Apc!TimesOut(Main, "await", {"entered"}) \/ Apc!TimesOut(Main, "join",
                 {"A"})
            \/ Apc!CheckFails(Main, {"create", "await", "queue", "release", "join",
                 "close"})
  <2>1. /\ exit = "running" /\ exit' = "failed" /\ \E f \in Faults : Fault(f)
        /\ UNCHANGED <<pc, suspends, signaled, open, mem>>
    BY <1>10
  <2>2. ProcessInv' /\ faulted' # {} /\ faulted \subseteq faulted'
    BY <2>1, Ends DEF Status
  <2> QED BY <1>0, <2>1, <2>2 DEF ApcInv, ApcType, Only, Verdict
<1> QED BY <1>1, <1>2, <1>3, <1>4, <1>5, <1>6, <1>7, <1>8, <1>9, <1>10 DEF Apc!ApcMain,
           Apc!AwaitOrExit

\* The steps of alertable_wait.cpp and of non_alertable_wait.cpp.
LEMMA ApcStep ==
  ASSUME ProcessInv, ApcInv, UNCHANGED program, NEW t \in Thread,
         \/ program = "alertable" /\ Apc!Alertable(t)
         \/ program = "nonAlertable" /\ Apc!NonAlertable(t)
  PROVE  ProcessInv' /\ ApcInv'
<1>1. CASE program = "alertable" /\ Apc!Alertable(t)
  <2>1. CASE Apc!ApcMain(mem.slept = "completion" /\ mem.called = 1)
    <3>1. PICK passed : passed = (mem.slept = "completion" /\ mem.called = 1)
      OBVIOUS
    <3> QED BY <1>1, <2>1, <3>1, ApcMainStep
  <2>2. CASE Apc!ApcTarget("A", TRUE)
    BY <1>1, <2>2, ApcWorkerStep
  <2> QED BY <1>1, <2>1, <2>2 DEF Apc!Alertable
<1>2. CASE program = "nonAlertable" /\ Apc!NonAlertable(t)
  <2>1. CASE Apc!ApcMain(mem.slept = "elapsed" /\ mem.called = 0)
    <3>1. PICK passed : passed = (mem.slept = "elapsed" /\ mem.called = 0)
      OBVIOUS
    <3> QED BY <1>2, <2>1, <3>1, ApcMainStep
  <2>2. CASE Apc!ApcTarget("A", FALSE)
    BY <1>2, <2>2, ApcWorkerStep
  <2> QED BY <1>2, <2>1, <2>2
          DEF Apc!NonAlertable, Apc!NonAlertableMain, Apc!NonAlertableTarget
<1> QED BY <1>1, <1>2

-----------------------------------------------------------------------------
(* The steps of Priorities *)

\* A worker burns until its duration is over, it is stopped, or it has failed.
LEMMA BurnStep ==
  ASSUME ProcessInv, PriorityInv, UNCHANGED program, NEW w \in Pair, Priority!Burn(w)
  PROVE  /\ ProcessInv' /\ PriorityInv' /\ pc[w] = "burn" /\ Moved(w, pc'[w])
         /\ pc'[w] \in {"burn", "publish", "failed"}
         /\ UNCHANGED signaled /\ faulted \subseteq faulted'
<1> USE DEF Priority!Go, Priority!At, Priority!Running, Priority!Call, Priority!others,
    Priority!Store, Priority!Await, Priority!Satisfied, Priority!Worker, Priority!Ended,
    Priority!Fault, Priority!Fails, Fault, Ended, Main, Pair, Moved, Alive, Faulty,
    NoFault, Goes, PriorityExcuse, Priority!Worked
<1>0. /\ w \in Thread /\ Main \in Thread /\ Main # w /\ Worker \subseteq Thread
      /\ Worker = {"A", "B", "C"} /\ signaled \cap Worker = {}
  BY DEF ProcessInv, Thread, Worker
<1>1. CASE ~mem.worked[w] /\ Priority!Store(w, "burn", [mem EXCEPT !.worked[w] = TRUE],
           "burn")
  <2>1. /\ Goes(w, "burn", "burn")
        /\ mem' = [mem EXCEPT !.worked[w] = TRUE]
        /\ UNCHANGED <<signaled, open, faulted>>
    BY <1>1
  <2>2. ProcessInv' /\ Moved(w, "burn")
    BY <1>0, <2>1, Moves DEF ProcessInv
  <2>3. /\ PriorityType' /\ UNCHANGED <<mem.success, mem.joined>>
        /\ mem'.worked[w] /\ \A v \in Pair \ {w} : mem'.worked[v] = mem.worked[v]
    BY <1>0, <2>1 DEF PriorityInv, PriorityType
  <2> QED BY <1>0, <2>1, <2>2, <2>3 DEF PriorityInv, PriorityType, Joining, WorkedInv,
             Only, PriorityVerdict
<1>2. CASE Priority!Call(w, "burn", "publish")
  <2>1. /\ Goes(w, "burn", "publish")
        /\ UNCHANGED <<signaled, open, mem, faulted>>
    BY <1>2
  <2>2. ProcessInv' /\ Moved(w, "publish")
    BY <1>0, <2>1, Moves DEF ProcessInv
  <2> QED BY <1>0, <2>1, <2>2 DEF PriorityInv, PriorityType, Joining, WorkedInv, Only,
             PriorityVerdict
<1>3. CASE Priority!Await(w, "burn", {"stop"}, "publish")
  <2>1. /\ Goes(w, "burn", "publish")
        /\ UNCHANGED <<signaled, open, mem, faulted>>
        /\ "stop" \in signaled
    BY <1>3, <1>0
  <2>2. ProcessInv' /\ Moved(w, "publish")
    BY <1>0, <2>1, Moves DEF ProcessInv
  <2> QED BY <1>0, <2>1, <2>2 DEF PriorityInv, PriorityType, Joining, WorkedInv, Only,
             PriorityVerdict
<1>4. CASE Priority!Fails(w, "burn", "slow", "failed")
  <2>1. /\ Goes(w, "burn", "failed")
        /\ Fault("slow")
        /\ UNCHANGED <<signaled, open, mem>>
    BY <1>4
  <2>2. ProcessInv' /\ Moved(w, "failed")
    BY <1>0, <2>1, Moves DEF ProcessInv
  <2> QED BY <1>0, <2>1, <2>2 DEF PriorityInv, PriorityType, Joining, WorkedInv, Only,
             PriorityVerdict
<1> QED BY <1>1, <1>2, <1>3, <1>4 DEF Priority!Burn, Priority!WorkerFails

\* Main joins both workers, stops them when it has to, and closes what it may.
LEMMA JoinBothStep ==
  ASSUME ProcessInv, PriorityInv, UNCHANGED program, Priority!JoinBoth
  PROVE  /\ ProcessInv' /\ PriorityInv' /\ \A w \in Pair : pc'[w] = pc[w]
         /\ signaled' = signaled \/ signaled' = signaled \cup {"stop"}
         /\ pc[Main] \in {"joinA", "stopA", "joinB", "stopB", "close", "verdict"}
         /\ pc'[Main] \in {"stopA", "joinB", "stopB", "close", "verdict"}
         /\ faulted \subseteq faulted'
<1> USE DEF Priority!Go, Priority!At, Priority!Running, Priority!Call, Priority!others,
    Priority!Store, Priority!SignalEvent, Priority!Main, Priority!Ended, Priority!Fault,
    Priority!EndProcess, Priority!Return, Priority!Alive, Priority!StepFails,
    Priority!SignalAnyway, Priority!Worked, Fault, Ended, Main, Pair, Moved, Alive,
    Faulty, NoFault, Goes, PriorityExcuse, Priority!Worked
<1>0. /\ "A" \in Worker /\ "B" \in Worker /\ Main \in Thread /\ Worker \subseteq Thread
      /\ Worker = {"A", "B", "C"} /\ signaled \cap Worker = {} /\ 0 \in Nat
  BY DEF ProcessInv, Thread, Worker
<1>1. CASE pc["A"] = "none" /\ Priority!Call(Main, "joinA", "joinB")
  <2>1. /\ Goes(Main, "joinA", "joinB")
        /\ UNCHANGED <<signaled, open, mem, faulted>>
        /\ pc["A"] = "none"
    BY <1>1
  <2>2. ProcessInv' /\ Moved(Main, "joinB")
    BY <1>0, <2>1, Moves DEF ProcessInv
  <2> QED BY <1>0, <2>1, <2>2 DEF PriorityInv, PriorityType, Joining, WorkedInv, Only,
             PriorityVerdict
<1>2. CASE /\ Ended("A")
           /\ Priority!Store(Main, "joinA", [mem EXCEPT !.success =
                @ /\ Priority!Worked("A")], "joinB")
  <2>1. PICK v \in BOOLEAN : v = (mem.success /\ Priority!Worked("A"))
    OBVIOUS
  <2>2. /\ Goes(Main, "joinA", "joinB")
        /\ Ended("A")
        /\ mem' = [mem EXCEPT !.success = v]
        /\ UNCHANGED <<signaled, open, faulted>>
    BY <1>2, <2>1
  <2>3. ProcessInv' /\ Moved(Main, "joinB")
    BY <1>0, <2>2, Moves DEF ProcessInv
  <2>4. /\ PriorityType' /\ mem'.success = v /\ UNCHANGED <<mem.joined, mem.worked>>
    BY <1>0, <2>2 DEF PriorityInv, PriorityType
  <2>5. ~v => PriorityExcuse
    BY <1>0, <2>1, <2>2 DEF PriorityInv, PriorityType, Joining, WorkedInv, Only,
       PriorityVerdict
  <2> QED BY <1>0, <2>1, <2>2, <2>3, <2>4, <2>5 DEF PriorityInv, PriorityType, Joining,
             WorkedInv, Only, PriorityVerdict
<1>3. CASE Ended("A") /\ Priority!StepFails("joinA", "call", "joinB")
  <2>1. /\ Goes(Main, "joinA", "joinB")
        /\ Fault("call")
        /\ mem' = [mem EXCEPT !.success = FALSE]
        /\ UNCHANGED <<signaled, open>>
        /\ Ended("A")
    BY <1>3
  <2>2. ProcessInv' /\ Moved(Main, "joinB")
    BY <1>0, <2>1, Moves DEF ProcessInv
  <2>3. /\ PriorityType' /\ ~mem'.success /\ UNCHANGED <<mem.joined, mem.worked>>
    BY <1>0, <2>1 DEF PriorityInv, PriorityType
  <2> QED BY <1>0, <2>1, <2>2, <2>3 DEF PriorityInv, PriorityType, Joining, WorkedInv,
             Only, PriorityVerdict
<1>4. CASE /\ Priority!Alive("A") /\ Priority!Go(Main, "joinA", "stopA")
           /\ Priority!Fault("slow")
           /\ mem' = [mem EXCEPT !.success = FALSE, !.joined = FALSE]
           /\ UNCHANGED <<suspends, signaled, open, exit>>
  <2>1. /\ Goes(Main, "joinA", "stopA")
        /\ Fault("slow")
        /\ mem' = [mem EXCEPT !.success = FALSE, !.joined = FALSE]
        /\ UNCHANGED <<signaled, open>>
    BY <1>4
  <2>2. ProcessInv' /\ Moved(Main, "stopA")
    BY <1>0, <2>1, Moves DEF ProcessInv
  <2>3. /\ PriorityType' /\ ~mem'.success /\ ~mem'.joined /\ UNCHANGED mem.worked
    BY <1>0, <2>1 DEF PriorityInv, PriorityType
  <2> QED BY <1>0, <2>1, <2>2, <2>3 DEF PriorityInv, PriorityType, Joining, WorkedInv,
             Only, PriorityVerdict
<1>5. CASE pc["B"] = "none" /\ Priority!Call(Main, "joinB", "close")
  <2>1. /\ Goes(Main, "joinB", "close")
        /\ UNCHANGED <<signaled, open, mem, faulted>>
        /\ pc["B"] = "none"
    BY <1>5
  <2>2. ProcessInv' /\ Moved(Main, "close")
    BY <1>0, <2>1, Moves DEF ProcessInv
  <2> QED BY <1>0, <2>1, <2>2 DEF PriorityInv, PriorityType, Joining, WorkedInv, Only,
             PriorityVerdict
<1>6. CASE /\ Ended("B")
           /\ Priority!Store(Main, "joinB", [mem EXCEPT !.success =
                @ /\ Priority!Worked("B")], "close")
  <2>1. PICK v \in BOOLEAN : v = (mem.success /\ Priority!Worked("B"))
    OBVIOUS
  <2>2. /\ Goes(Main, "joinB", "close")
        /\ Ended("B")
        /\ mem' = [mem EXCEPT !.success = v]
        /\ UNCHANGED <<signaled, open, faulted>>
    BY <1>6, <2>1
  <2>3. ProcessInv' /\ Moved(Main, "close")
    BY <1>0, <2>2, Moves DEF ProcessInv
  <2>4. /\ PriorityType' /\ mem'.success = v /\ UNCHANGED <<mem.joined, mem.worked>>
    BY <1>0, <2>2 DEF PriorityInv, PriorityType
  <2>5. ~v => PriorityExcuse
    BY <1>0, <2>1, <2>2 DEF PriorityInv, PriorityType, Joining, WorkedInv, Only,
       PriorityVerdict
  <2> QED BY <1>0, <2>1, <2>2, <2>3, <2>4, <2>5 DEF PriorityInv, PriorityType, Joining,
             WorkedInv, Only, PriorityVerdict
<1>7. CASE Ended("B") /\ Priority!StepFails("joinB", "call", "close")
  <2>1. /\ Goes(Main, "joinB", "close")
        /\ Fault("call")
        /\ mem' = [mem EXCEPT !.success = FALSE]
        /\ UNCHANGED <<signaled, open>>
        /\ Ended("B")
    BY <1>7
  <2>2. ProcessInv' /\ Moved(Main, "close")
    BY <1>0, <2>1, Moves DEF ProcessInv
  <2>3. /\ PriorityType' /\ ~mem'.success /\ UNCHANGED <<mem.joined, mem.worked>>
    BY <1>0, <2>1 DEF PriorityInv, PriorityType
  <2> QED BY <1>0, <2>1, <2>2, <2>3 DEF PriorityInv, PriorityType, Joining, WorkedInv,
             Only, PriorityVerdict
<1>8. CASE /\ Priority!Alive("B") /\ Priority!Go(Main, "joinB", "stopB")
           /\ Priority!Fault("slow")
           /\ mem' = [mem EXCEPT !.success = FALSE, !.joined = FALSE]
           /\ UNCHANGED <<suspends, signaled, open, exit>>
  <2>1. /\ Goes(Main, "joinB", "stopB")
        /\ Fault("slow")
        /\ mem' = [mem EXCEPT !.success = FALSE, !.joined = FALSE]
        /\ UNCHANGED <<signaled, open>>
    BY <1>8
  <2>2. ProcessInv' /\ Moved(Main, "stopB")
    BY <1>0, <2>1, Moves DEF ProcessInv
  <2>3. /\ PriorityType' /\ ~mem'.success /\ ~mem'.joined /\ UNCHANGED mem.worked
    BY <1>0, <2>1 DEF PriorityInv, PriorityType
  <2> QED BY <1>0, <2>1, <2>2, <2>3 DEF PriorityInv, PriorityType, Joining, WorkedInv,
             Only, PriorityVerdict
<1>9. CASE Priority!SignalEvent(Main, "stopA", "stop", "joinB")
  <2>1. /\ Goes(Main, "stopA", "joinB")
        /\ signaled' = signaled \cup {"stop"}
        /\ UNCHANGED <<open, mem, faulted>>
    BY <1>9
  <2>2. ProcessInv' /\ Moved(Main, "joinB")
    BY <1>0, <2>1, Moves DEF ProcessInv
  <2> QED BY <1>0, <2>1, <2>2 DEF PriorityInv, PriorityType, Joining, WorkedInv, Only,
             PriorityVerdict
<1>10. CASE Priority!StepFails("stopA", "call", "joinB")
  <2>1. /\ Goes(Main, "stopA", "joinB")
        /\ Fault("call")
        /\ mem' = [mem EXCEPT !.success = FALSE]
        /\ UNCHANGED <<signaled, open>>
    BY <1>10
  <2>2. ProcessInv' /\ Moved(Main, "joinB")
    BY <1>0, <2>1, Moves DEF ProcessInv
  <2>3. /\ PriorityType' /\ ~mem'.success /\ UNCHANGED <<mem.joined, mem.worked>>
    BY <1>0, <2>1 DEF PriorityInv, PriorityType
  <2> QED BY <1>0, <2>1, <2>2, <2>3 DEF PriorityInv, PriorityType, Joining, WorkedInv,
             Only, PriorityVerdict
<1>11. CASE Priority!SignalEvent(Main, "stopB", "stop", "close")
  <2>1. /\ Goes(Main, "stopB", "close")
        /\ signaled' = signaled \cup {"stop"}
        /\ UNCHANGED <<open, mem, faulted>>
    BY <1>11
  <2>2. ProcessInv' /\ Moved(Main, "close")
    BY <1>0, <2>1, Moves DEF ProcessInv
  <2> QED BY <1>0, <2>1, <2>2 DEF PriorityInv, PriorityType, Joining, WorkedInv, Only,
             PriorityVerdict
<1>12. CASE Priority!StepFails("stopB", "call", "close")
  <2>1. /\ Goes(Main, "stopB", "close")
        /\ Fault("call")
        /\ mem' = [mem EXCEPT !.success = FALSE]
        /\ UNCHANGED <<signaled, open>>
    BY <1>12
  <2>2. ProcessInv' /\ Moved(Main, "close")
    BY <1>0, <2>1, Moves DEF ProcessInv
  <2>3. /\ PriorityType' /\ ~mem'.success /\ UNCHANGED <<mem.joined, mem.worked>>
    BY <1>0, <2>1 DEF PriorityInv, PriorityType
  <2> QED BY <1>0, <2>1, <2>2, <2>3 DEF PriorityInv, PriorityType, Joining, WorkedInv,
             Only, PriorityVerdict
<1>13. CASE /\ Priority!Go(Main, "close", "verdict") /\ open' = ~mem.joined
            /\ Priority!NoFault /\ UNCHANGED mem
            /\ UNCHANGED <<suspends, signaled, exit>>
  <2>1. /\ pc[Main] = "close" /\ exit = "running" /\ suspends[Main] = 0
        /\ pc' = [pc EXCEPT ![Main] = "verdict"] /\ open' = ~mem.joined
        /\ UNCHANGED <<mem, faulted>>
        /\ UNCHANGED <<suspends, signaled, exit>>
    BY <1>13 DEF Priority!NoFault
  <2>2. ProcessInv' /\ Moved(Main, "verdict")
    BY <1>0, <2>1, Moves DEF ProcessInv
  <2> QED BY <1>0, <2>1, <2>2 DEF PriorityInv, PriorityType, Joining, WorkedInv, Only,
             PriorityVerdict
<1>14. CASE /\ Priority!Go(Main, "close", "verdict") /\ open' = ~mem.joined
            /\ Priority!Fault("call") /\ mem' = [mem EXCEPT !.success = FALSE]
            /\ UNCHANGED <<suspends, signaled, exit>>
  <2>1. /\ Goes(Main, "close", "verdict")
        /\ open' = ~mem.joined
        /\ Fault("call") /\ mem' = [mem EXCEPT !.success = FALSE]
        /\ UNCHANGED signaled
    BY <1>14
  <2>2. ProcessInv' /\ Moved(Main, "verdict")
    BY <1>0, <2>1, Moves DEF ProcessInv
  <2>3. /\ PriorityType' /\ ~mem'.success /\ UNCHANGED <<mem.joined, mem.worked>>
    BY <1>0, <2>1 DEF PriorityInv, PriorityType
  <2> QED BY <1>0, <2>1, <2>2, <2>3 DEF PriorityInv, PriorityType, Joining, WorkedInv,
             Only, PriorityVerdict
<1>15. CASE Priority!Return("verdict", mem.success)
  <2>1. /\ pc[Main] = "verdict" /\ exit = "running"
        /\ exit' = IF mem.success THEN "passed" ELSE "failed"
        /\ UNCHANGED <<pc, suspends, signaled, open, mem, faulted>>
    BY <1>15
  <2>2. ProcessInv'
    BY <2>1, Ends DEF Status
  <2> QED BY <1>0, <2>1, <2>2 DEF PriorityInv, PriorityType, Joining, WorkedInv, Only,
             PriorityVerdict
<1> QED BY <1>1, <1>2, <1>3, <1>4, <1>5, <1>6, <1>7, <1>8, <1>9, <1>10, <1>11, <1>12,
         <1>13, <1>14, <1>15 DEF Priority!JoinBoth, Priority!Join, Priority!CloseJoined


\* A worker of equal_priority.cpp.
LEMMA EqualWorkerStep ==
  ASSUME ProcessInv, EqualInv, UNCHANGED program, NEW w \in Pair,
         Priority!EqualWorker(w)
  PROVE  ProcessInv' /\ EqualInv'
<1> USE DEF Priority!Go, Priority!At, Priority!Running, Priority!Call, Priority!others,
    Priority!Store, Priority!Await, Priority!Satisfied, Priority!Worker, Priority!Ended,
    Priority!Fault, Priority!Fails, Fault, Ended, Main, Pair, Moved, Alive, Faulty,
    NoFault, Goes, PriorityExcuse, Priority!Worked
<1>0. /\ w \in Thread /\ Main \in Thread /\ Main # w /\ Worker \subseteq Thread
      /\ Worker = {"A", "B", "C"} /\ signaled \cap Worker = {}
      /\ PriorityInv
  BY DEF ProcessInv, Thread, Worker, EqualInv
<1>1. CASE Priority!Await(w, "begin", {"start"}, "burn")
  <2>1. /\ Goes(w, "begin", "burn")
        /\ UNCHANGED <<signaled, open, mem, faulted>>
        /\ "start" \in signaled
    BY <1>1, <1>0
  <2>2. ProcessInv' /\ Moved(w, "burn")
    BY <1>0, <2>1, Moves DEF ProcessInv
  <2>3. PriorityType' /\ Only(Pair)' /\ PriorityVerdict'
    BY <1>0, <2>1, <2>2 DEF PriorityInv, PriorityType, Only, PriorityVerdict
  <2>4. Joining'
    BY <1>0, <2>1, <2>2 DEF PriorityInv, Joining
  <2>5. WorkedInv'
    BY <1>0, <2>1, <2>2 DEF PriorityInv, WorkedInv
  <2> QED BY <1>0, <2>1, <2>2, <2>3, <2>4, <2>5 DEF EqualInv, PriorityInv
<1>2. CASE ~Priority!Satisfied({"start"}) /\ Priority!Fails(w, "begin", "slow",
           "failed")
  <2>1. /\ Goes(w, "begin", "failed")
        /\ Fault("slow")
        /\ UNCHANGED <<signaled, open, mem>>
    BY <1>2
  <2>2. ProcessInv' /\ Moved(w, "failed")
    BY <1>0, <2>1, Moves DEF ProcessInv
  <2>3. PriorityType' /\ Only(Pair)' /\ PriorityVerdict'
    BY <1>0, <2>1, <2>2 DEF PriorityInv, PriorityType, Only, PriorityVerdict
  <2>4. Joining'
    BY <1>0, <2>1, <2>2 DEF PriorityInv, Joining
  <2>5. WorkedInv'
    BY <1>0, <2>1, <2>2 DEF PriorityInv, WorkedInv
  <2> QED BY <1>0, <2>1, <2>2, <2>3, <2>4, <2>5 DEF EqualInv, PriorityInv
<1>3. CASE Priority!Call(w, "publish", "done")
  <2>1. /\ Goes(w, "publish", "done")
        /\ UNCHANGED <<signaled, open, mem, faulted>>
    BY <1>3
  <2>2. ProcessInv' /\ Moved(w, "done")
    BY <1>0, <2>1, Moves DEF ProcessInv
  <2>3. PriorityType' /\ Only(Pair)' /\ PriorityVerdict'
    BY <1>0, <2>1, <2>2 DEF PriorityInv, PriorityType, Only, PriorityVerdict
  <2>4. Joining'
    BY <1>0, <2>1, <2>2 DEF PriorityInv, Joining
  <2>5. WorkedInv'
    BY <1>0, <2>1, <2>2 DEF PriorityInv, WorkedInv
  <2> QED BY <1>0, <2>1, <2>2, <2>3, <2>4, <2>5 DEF EqualInv, PriorityInv
<1>4. CASE Priority!Burn(w)
  BY <1>0, <1>4, BurnStep DEF EqualInv, PriorityInv, Joining
<1> QED BY <1>1, <1>2, <1>3, <1>4 DEF Priority!EqualWorker, Priority!AwaitOrFail,
           Priority!WorkerFails

\* The steps of equal_priority.cpp.
LEMMA EqualStep ==
  ASSUME ProcessInv, program = "equal", UNCHANGED program, EqualInv, NEW t \in Thread,
         Priority!Equal(t)
  PROVE  ProcessInv' /\ EqualInv'
<1> USE DEF Priority!Go, Priority!At, Priority!Running, Priority!Call, Priority!others,
    Priority!SignalEvent, Priority!Main, Priority!Fault, Priority!ExitOn,
    Priority!CheckFails, Priority!EndProcess, Priority!Return, Priority!CreateThread,
    Priority!StepFails, Priority!SignalAnyway, Fault, Ended, Main, Pair, Priority!Pair,
    Moved, Alive, Faulty, NoFault, Goes, PriorityExcuse, Priority!Worked
<1>0. /\ "A" \in Worker /\ "B" \in Worker /\ Main \in Thread /\ Worker \subseteq Thread
      /\ Worker = {"A", "B", "C"} /\ signaled \cap Worker = {} /\ 0 \in Nat
      /\ PriorityInv
  BY DEF ProcessInv, Thread, Worker, EqualInv
<1>1. CASE Priority!EndProcess(Main, "setup", "unsupported")
  <2>1. /\ exit = "running" /\ exit' = "unsupported"
        /\ UNCHANGED <<pc, suspends, signaled, open, mem, faulted>>
    BY <1>1
  <2>2. ProcessInv'
    BY <2>1, Ends DEF Status
  <2>3. PriorityInv'
    BY <1>0, <2>1, <2>2 DEF PriorityInv, PriorityType, Joining, WorkedInv, Only,
       PriorityVerdict
  <2> QED BY <1>0, <2>1, <2>2, <2>3 DEF EqualInv
<1>2. CASE Priority!CheckFails(Main, {"setup"})
  <2>1. /\ exit = "running" /\ exit' = "failed" /\ \E f \in Faults : Fault(f)
        /\ UNCHANGED <<pc, suspends, signaled, open, mem>>
    BY <1>2
  <2>2. ProcessInv' /\ faulted' # {} /\ faulted \subseteq faulted'
    BY <2>1, Ends DEF Status
  <2>3. PriorityType' /\ Only(Pair)' /\ PriorityVerdict'
    BY <1>0, <2>1, <2>2 DEF PriorityInv, PriorityType, Only, PriorityVerdict
  <2>4. Joining'
    BY <1>0, <2>1, <2>2 DEF PriorityInv, Joining
  <2>5. WorkedInv'
    BY <1>0, <2>1, <2>2 DEF PriorityInv, WorkedInv
  <2> QED BY <1>0, <2>1, <2>2, <2>3, <2>4, <2>5 DEF EqualInv, PriorityInv
<1>3. CASE Priority!CreateThread("create", "A", 0, "placeA")
  <2>1. /\ pc[Main] = "create" /\ exit = "running" /\ suspends[Main] = 0
        /\ pc' = [pc EXCEPT ![Main] = "placeA", !["A"] = "begin"]
        /\ suspends' = [suspends EXCEPT !["A"] = 0]
        /\ UNCHANGED <<signaled, open, mem, exit, faulted>>
    BY <1>3
  <2>2. suspends' \in [Thread -> Nat] /\ suspends'["A"] = 0
    BY <1>0, <2>1 DEF ProcessInv
  <2>3. /\ ProcessInv' /\ pc'[Main] = "placeA" /\ pc'["A"] = "begin"
        /\ \A u \in Thread \ {Main, "A"} : pc'[u] = pc[u]
    BY <1>0, <2>1, <2>2, Creates
  <2>4. pc'["B"] = pc["B"] /\ pc'["C"] = pc["C"]
    BY <1>0, <2>1, <2>3 DEF Thread, PriorityInv, WorkedInv, EqualInv
  <2>5. PriorityType' /\ Only(Pair)' /\ PriorityVerdict'
    BY <1>0, <2>1, <2>2, <2>3, <2>4 DEF PriorityInv, PriorityType, Only, PriorityVerdict
  <2>6. Joining'
    BY <1>0, <2>1, <2>2, <2>3, <2>4 DEF PriorityInv, Joining, WorkedInv
  <2>7. WorkedInv'
    BY <1>0, <2>1, <2>2, <2>3, <2>4 DEF PriorityInv, WorkedInv
  <2> QED BY <1>0, <2>1, <2>2, <2>3, <2>4, <2>5, <2>6, <2>7 DEF EqualInv, PriorityInv
<1>4. CASE Priority!CreateThread("createB", "B", 0, "placeB")
  <2>1. /\ pc[Main] = "createB" /\ exit = "running" /\ suspends[Main] = 0
        /\ pc' = [pc EXCEPT ![Main] = "placeB", !["B"] = "begin"]
        /\ suspends' = [suspends EXCEPT !["B"] = 0]
        /\ UNCHANGED <<signaled, open, mem, exit, faulted>>
    BY <1>4
  <2>2. suspends' \in [Thread -> Nat] /\ suspends'["B"] = 0
    BY <1>0, <2>1 DEF ProcessInv
  <2>3. /\ ProcessInv' /\ pc'[Main] = "placeB" /\ pc'["B"] = "begin"
        /\ \A u \in Thread \ {Main, "B"} : pc'[u] = pc[u]
    BY <1>0, <2>1, <2>2, Creates
  <2>4. pc'["A"] = pc["A"] /\ pc'["C"] = pc["C"]
    BY <1>0, <2>1, <2>3 DEF Thread, PriorityInv, WorkedInv, EqualInv
  <2>5. PriorityType' /\ Only(Pair)' /\ PriorityVerdict'
    BY <1>0, <2>1, <2>2, <2>3, <2>4 DEF PriorityInv, PriorityType, Only, PriorityVerdict
  <2>6. Joining'
    BY <1>0, <2>1, <2>2, <2>3, <2>4 DEF PriorityInv, Joining, WorkedInv
  <2>7. WorkedInv'
    BY <1>0, <2>1, <2>2, <2>3, <2>4 DEF PriorityInv, WorkedInv
  <2> QED BY <1>0, <2>1, <2>2, <2>3, <2>4, <2>5, <2>6, <2>7 DEF EqualInv, PriorityInv
<1> DEFINE Calling(from, to) == \/ from = "setup" /\ to = "create"
                                \/ from = "placeA" /\ to = "createB"
                                \/ from = "placeB" /\ to = "inspect"
                                \/ from = "inspect" /\ to = "start"
<1>5. ASSUME NEW from, NEW to, Calling(from, to),
             Priority!Call(Main, from, to)
      PROVE  ProcessInv' /\ EqualInv'
  <2>1. /\ Goes(Main, from, to)
        /\ UNCHANGED <<signaled, open, mem, faulted>>
        /\ Calling(from, to)
    BY <1>5
  <2>2. ProcessInv' /\ Moved(Main, to)
    BY <1>0, <2>1, Moves DEF ProcessInv
  <2>3. PriorityType' /\ Only(Pair)' /\ PriorityVerdict'
    BY <1>0, <2>1, <2>2 DEF PriorityInv, PriorityType, Only, PriorityVerdict
  <2>4. Joining'
    BY <1>0, <2>1, <2>2 DEF PriorityInv, Joining
  <2>5. WorkedInv'
    BY <1>0, <2>1, <2>2 DEF PriorityInv, WorkedInv
  <2> QED BY <1>0, <2>1, <2>2, <2>3, <2>4, <2>5 DEF EqualInv, PriorityInv
<1> DEFINE Signaling(from, event, to) ==
      \/ from = "start" /\ event = "start" /\ to = "joinA"
      \/ from = "abort" /\ event = "stop" /\ to = "abortStart"
      \/ from = "abortStart" /\ event = "start" /\ to = "joinA"
<1>6. ASSUME NEW from, NEW event, NEW to, Signaling(from, event, to),
             Priority!SignalEvent(Main, from, event, to)
      PROVE  ProcessInv' /\ EqualInv'
  <2>1. /\ Goes(Main, from, to)
        /\ signaled' = signaled \cup {event}
        /\ UNCHANGED <<open, mem, faulted>>
        /\ Signaling(from, event, to)
    BY <1>6
  <2>2. ProcessInv' /\ Moved(Main, to)
    BY <1>0, <2>1, Moves DEF ProcessInv
  <2>3. PriorityType' /\ Only(Pair)' /\ PriorityVerdict'
    BY <1>0, <2>1, <2>2 DEF PriorityInv, PriorityType, Only, PriorityVerdict
  <2>4. Joining'
    BY <1>0, <2>1, <2>2 DEF PriorityInv, Joining
  <2>5. WorkedInv'
    BY <1>0, <2>1, <2>2 DEF PriorityInv, WorkedInv
  <2> QED BY <1>0, <2>1, <2>2, <2>3, <2>4, <2>5 DEF EqualInv, PriorityInv
<1> DEFINE Failing(from, to) ==
      \/ from \in {"create", "placeA", "createB",
                   "placeB", "inspect", "start"} /\ to = "abort"
      \/ from = "abort" /\ to = "abortStart"
      \/ from = "abortStart" /\ to = "joinA"
<1>7. ASSUME NEW from, NEW to, NEW f, Failing(from, to),
             Priority!StepFails(from, f, to)
      PROVE  ProcessInv' /\ EqualInv'
  <2>1. /\ Goes(Main, from, to)
        /\ Fault(f)
        /\ mem' = [mem EXCEPT !.success = FALSE]
        /\ UNCHANGED <<signaled, open>>
        /\ Failing(from, to)
    BY <1>7
  <2>2. ProcessInv' /\ Moved(Main, to)
    BY <1>0, <2>1, Moves DEF ProcessInv
  <2>3. /\ PriorityType' /\ ~mem'.success /\ UNCHANGED <<mem.joined, mem.worked>>
    BY <1>0, <2>1 DEF PriorityInv, PriorityType
  <2>4. PriorityType' /\ Only(Pair)' /\ PriorityVerdict'
    BY <1>0, <2>1, <2>2, <2>3 DEF PriorityInv, PriorityType, Only, PriorityVerdict
  <2>5. Joining'
    BY <1>0, <2>1, <2>2, <2>3 DEF PriorityInv, Joining
  <2>6. WorkedInv'
    BY <1>0, <2>1, <2>2, <2>3 DEF PriorityInv, WorkedInv
  <2> QED BY <1>0, <2>1, <2>2, <2>3, <2>4, <2>5, <2>6 DEF EqualInv, PriorityInv
<1>8. CASE Priority!JoinBoth
  BY <1>8, JoinBothStep DEF EqualInv
<1>9. CASE t \in Pair /\ Priority!EqualWorker(t)
  BY <1>9, EqualWorkerStep
<1> HIDE DEF Priority!Go, Priority!At, Priority!Running, Priority!Call, Priority!others,
    Priority!SignalEvent, Priority!Fault, Priority!ExitOn, Priority!CheckFails,
    Priority!EndProcess, Priority!Return, Priority!CreateThread, Priority!StepFails,
    Priority!SignalAnyway
<1>10. ASSUME NEW from, NEW event, NEW to, Signaling(from, event, to), Failing(from,
         to),
              Priority!SignalAnyway(from, event, to)
       PROVE  ProcessInv' /\ EqualInv'
  BY <1>10, <1>7, <1>6 DEF Priority!SignalAnyway
<1> QED BY <1>1, <1>2, <1>3, <1>4, <1>5, <1>6, <1>7, <1>8, <1>9, <1>10 DEF
           Priority!Equal, Priority!EqualMain, Priority!SetUp, Priority!Hire,
           Priority!CallAborts, Priority!Main

\* A worker of higher_priority_preemption.cpp.
LEMMA PreemptionWorkerStep ==
  ASSUME ProcessInv, PreemptionInv, UNCHANGED program, NEW w \in Pair,
         Priority!PreemptionWorker(w)
  PROVE  ProcessInv' /\ PreemptionInv'
<1> USE DEF Priority!Go, Priority!At, Priority!Running, Priority!Call, Priority!others,
    Priority!Store, Priority!SignalEvent, Priority!Await, Priority!Satisfied,
    Priority!Worker, Priority!Ended, Priority!Fault, Priority!Fails, Fault, Ended, Main,
    Pair, Moved, Alive, Faulty, NoFault, Goes, PriorityExcuse, Priority!Worked
<1>0. /\ w \in Thread /\ Main \in Thread /\ Main # w /\ Worker \subseteq Thread
      /\ Worker = {"A", "B", "C"} /\ signaled \cap Worker = {}
      /\ Priority!StartEvent["A"] = "startA" /\ Priority!StartEvent["B"] = "startB"
      /\ PriorityInv
  BY DEF ProcessInv, Thread, Worker, Priority!StartEvent, PreemptionInv
<1>1. CASE Priority!Call(w, "begin", "gate") /\ w = "A"
  <2>1. /\ Goes(w, "begin", "gate")
        /\ UNCHANGED <<signaled, open, mem, faulted>>
        /\ w = "A"
    BY <1>1
  <2>2. ProcessInv' /\ Moved(w, "gate")
    BY <1>0, <2>1, Moves DEF ProcessInv
  <2>3. PriorityType' /\ Only(Pair)' /\ PriorityVerdict'
    BY <1>0, <2>1, <2>2 DEF PriorityInv, PriorityType, Only, PriorityVerdict
  <2>4. Joining'
    BY <1>0, <2>1, <2>2 DEF PriorityInv, Joining
  <2>5. WorkedInv'
    BY <1>0, <2>1, <2>2 DEF PriorityInv, WorkedInv
  <2>6. PriorityInv'
    BY <2>3, <2>4, <2>5 DEF PriorityInv
  <2> QED BY <1>0, <2>1, <2>2, <2>6 DEF PreemptionInv
<1>2. CASE Priority!SignalEvent(w, "begin", "readyB", "gate") /\ w = "B"
  <2>1. /\ Goes(w, "begin", "gate")
        /\ signaled' = signaled \cup {"readyB"}
        /\ UNCHANGED <<open, mem, faulted>>
        /\ w = "B"
    BY <1>2
  <2>2. ProcessInv' /\ Moved(w, "gate")
    BY <1>0, <2>1, Moves DEF ProcessInv
  <2>3. PriorityType' /\ Only(Pair)' /\ PriorityVerdict'
    BY <1>0, <2>1, <2>2 DEF PriorityInv, PriorityType, Only, PriorityVerdict
  <2>4. Joining'
    BY <1>0, <2>1, <2>2 DEF PriorityInv, Joining
  <2>5. WorkedInv'
    BY <1>0, <2>1, <2>2 DEF PriorityInv, WorkedInv
  <2>6. PriorityInv'
    BY <2>3, <2>4, <2>5 DEF PriorityInv
  <2> QED BY <1>0, <2>1, <2>2, <2>6 DEF PreemptionInv
<1>3. CASE Priority!Await(w, "gate", {Priority!StartEvent[w]}, "stamp")
  <2>1. /\ Goes(w, "gate", "stamp")
        /\ UNCHANGED <<signaled, open, mem, faulted>>
        /\ Priority!StartEvent[w] \in signaled
    BY <1>3, <1>0
  <2>2. ProcessInv' /\ Moved(w, "stamp")
    BY <1>0, <2>1, Moves DEF ProcessInv
  <2>3. PriorityType' /\ Only(Pair)' /\ PriorityVerdict'
    BY <1>0, <2>1, <2>2 DEF PriorityInv, PriorityType, Only, PriorityVerdict
  <2>4. Joining'
    BY <1>0, <2>1, <2>2 DEF PriorityInv, Joining
  <2>5. WorkedInv'
    BY <1>0, <2>1, <2>2 DEF PriorityInv, WorkedInv
  <2>6. PriorityInv'
    BY <2>3, <2>4, <2>5 DEF PriorityInv
  <2> QED BY <1>0, <2>1, <2>2, <2>6 DEF PreemptionInv
<1>4. CASE Priority!Call(w, "stamp", IF w = "A" THEN "announce" ELSE "burn")
  <2>1. /\ Goes(w, "stamp", IF w = "A" THEN "announce" ELSE "burn")
        /\ UNCHANGED <<signaled, open, mem, faulted>>
    BY <1>4
  <2>2. ProcessInv' /\ Moved(w, (IF w = "A" THEN "announce" ELSE "burn"))
    BY <1>0, <2>1, Moves DEF ProcessInv
  <2>3. PriorityType' /\ Only(Pair)' /\ PriorityVerdict'
    BY <1>0, <2>1, <2>2 DEF PriorityInv, PriorityType, Only, PriorityVerdict
  <2>4. Joining'
    BY <1>0, <2>1, <2>2 DEF PriorityInv, Joining
  <2>5. WorkedInv'
    BY <1>0, <2>1, <2>2 DEF PriorityInv, WorkedInv
  <2>6. PriorityInv'
    BY <2>3, <2>4, <2>5 DEF PriorityInv
  <2> QED BY <1>0, <2>1, <2>2, <2>6 DEF PreemptionInv
<1>5. CASE Priority!SignalEvent(w, "announce", "readyA", "burn")
  <2>1. /\ Goes(w, "announce", "burn")
        /\ signaled' = signaled \cup {"readyA"}
        /\ UNCHANGED <<open, mem, faulted>>
    BY <1>5
  <2>2. ProcessInv' /\ Moved(w, "burn")
    BY <1>0, <2>1, Moves DEF ProcessInv
  <2>3. PriorityType' /\ Only(Pair)' /\ PriorityVerdict'
    BY <1>0, <2>1, <2>2 DEF PriorityInv, PriorityType, Only, PriorityVerdict
  <2>4. Joining'
    BY <1>0, <2>1, <2>2 DEF PriorityInv, Joining
  <2>5. WorkedInv'
    BY <1>0, <2>1, <2>2 DEF PriorityInv, WorkedInv
  <2>6. PriorityInv'
    BY <2>3, <2>4, <2>5 DEF PriorityInv
  <2> QED BY <1>0, <2>1, <2>2, <2>6 DEF PreemptionInv
<1> DEFINE Failing(from, to) == \/ from \in {"begin", "gate", "stamp",
                                             "announce", "publish"} /\ to = "failed"
<1>6. ASSUME NEW from, NEW to, NEW f, Failing(from, to),
             (from = "begin" => w = "B") /\ (from = "gate" => f = "slow"),
             Priority!Fails(w, from, f, to)
      PROVE  ProcessInv' /\ PreemptionInv'
  <2>1. /\ Goes(w, from, to)
        /\ Fault(f)
        /\ UNCHANGED <<signaled, open, mem>>
        /\ Failing(from, to)
        /\ ((from = "begin" => w = "B") /\ (from = "gate" => f = "slow"))
    BY <1>6
  <2>2. ProcessInv' /\ Moved(w, to)
    BY <1>0, <2>1, Moves DEF ProcessInv
  <2>3. PriorityType' /\ Only(Pair)' /\ PriorityVerdict'
    BY <1>0, <2>1, <2>2 DEF PriorityInv, PriorityType, Only, PriorityVerdict
  <2>4. Joining'
    BY <1>0, <2>1, <2>2 DEF PriorityInv, Joining
  <2>5. WorkedInv'
    BY <1>0, <2>1, <2>2 DEF PriorityInv, WorkedInv
  <2>6. PriorityInv'
    BY <2>3, <2>4, <2>5 DEF PriorityInv
  <2> QED BY <1>0, <2>1, <2>2, <2>6 DEF PreemptionInv
<1>7. CASE Priority!Burn(w)
  BY <1>0, <1>7, BurnStep DEF PreemptionInv, PriorityInv, Joining
<1>8. CASE Priority!Call(w, "publish", "done")
  <2>1. /\ Goes(w, "publish", "done")
        /\ UNCHANGED <<signaled, open, mem, faulted>>
    BY <1>8
  <2>2. ProcessInv' /\ Moved(w, "done")
    BY <1>0, <2>1, Moves DEF ProcessInv
  <2>3. PriorityType' /\ Only(Pair)' /\ PriorityVerdict'
    BY <1>0, <2>1, <2>2 DEF PriorityInv, PriorityType, Only, PriorityVerdict
  <2>4. Joining'
    BY <1>0, <2>1, <2>2 DEF PriorityInv, Joining
  <2>5. WorkedInv'
    BY <1>0, <2>1, <2>2 DEF PriorityInv, WorkedInv
  <2>6. PriorityInv'
    BY <2>3, <2>4, <2>5 DEF PriorityInv
  <2> QED BY <1>0, <2>1, <2>2, <2>6 DEF PreemptionInv
<1> HIDE DEF Priority!Go, Priority!At, Priority!Running, Priority!Call, Priority!others,
    Priority!Store, Priority!SignalEvent, Priority!Await, Priority!Satisfied,
    Priority!Worker, Priority!Ended, Priority!Fault, Priority!Fails
<1> QED BY <1>1, <1>2, <1>3, <1>4, <1>5, <1>6, <1>7, <1>8 DEF Priority!PreemptionWorker,
           Priority!AwaitOrFail, Priority!SignalOrFail, Priority!WorkerFails

\* The steps of higher_priority_preemption.cpp.
LEMMA PreemptionStep ==
  ASSUME ProcessInv, program = "preemption", UNCHANGED program, PreemptionInv,
         NEW t \in Thread, Priority!Preemption(t)
  PROVE  ProcessInv' /\ PreemptionInv'
<1> USE DEF Priority!Go, Priority!At, Priority!Running, Priority!Call, Priority!others,
    Priority!Store, Priority!SignalEvent, Priority!Await, Priority!Satisfied,
    Priority!Worker, Priority!Main, Priority!Ended, Priority!Fault, Priority!ExitOn,
    Priority!CheckFails, Priority!EndProcess, Priority!Return, Priority!CreateThread,
    Priority!StepFails, Priority!SignalAnyway, Fault, Ended, Main, Pair, Priority!Pair,
    Moved, Alive, Faulty, NoFault, Goes, PriorityExcuse, Priority!Worked
<1>0. /\ "A" \in Worker /\ "B" \in Worker /\ Main \in Thread /\ Worker \subseteq Thread
      /\ Worker = {"A", "B", "C"} /\ signaled \cap Worker = {} /\ 0 \in Nat
      /\ Priority!StartEvent["A"] = "startA" /\ Priority!StartEvent["B"] = "startB"
      /\ PriorityInv
  BY DEF ProcessInv, Thread, Worker, Priority!StartEvent, PreemptionInv
<1>1. CASE Priority!EndProcess(Main, "setup", "unsupported")
  <2>1. /\ exit = "running" /\ exit' = "unsupported"
        /\ UNCHANGED <<pc, suspends, signaled, open, mem, faulted>>
    BY <1>1
  <2>2. ProcessInv'
    BY <2>1, Ends DEF Status
  <2>3. PriorityInv'
    BY <1>0, <2>1, <2>2 DEF PriorityInv, PriorityType, Joining, WorkedInv, Only,
       PriorityVerdict
  <2> QED BY <1>0, <2>1, <2>2, <2>3 DEF PreemptionInv
<1>2. CASE Priority!CheckFails(Main, {"setup"})
  <2>1. /\ exit = "running" /\ exit' = "failed" /\ \E f \in Faults : Fault(f)
        /\ UNCHANGED <<pc, suspends, signaled, open, mem>>
    BY <1>2
  <2>2. ProcessInv' /\ faulted' # {} /\ faulted \subseteq faulted'
    BY <2>1, Ends DEF Status
  <2>3. PriorityType' /\ Only(Pair)' /\ PriorityVerdict'
    BY <1>0, <2>1, <2>2 DEF PriorityInv, PriorityType, Only, PriorityVerdict
  <2>4. Joining'
    BY <1>0, <2>1, <2>2 DEF PriorityInv, Joining
  <2>5. WorkedInv'
    BY <1>0, <2>1, <2>2 DEF PriorityInv, WorkedInv
  <2>6. PriorityInv'
    BY <2>3, <2>4, <2>5 DEF PriorityInv
  <2> QED BY <1>0, <2>1, <2>2, <2>6 DEF PreemptionInv
<1>3. CASE Priority!CreateThread("create", "A", 0, "placeA")
  <2>1. /\ pc[Main] = "create" /\ exit = "running" /\ suspends[Main] = 0
        /\ pc' = [pc EXCEPT ![Main] = "placeA", !["A"] = "begin"]
        /\ suspends' = [suspends EXCEPT !["A"] = 0]
        /\ UNCHANGED <<signaled, open, mem, exit, faulted>>
    BY <1>3
  <2>2. suspends' \in [Thread -> Nat] /\ suspends'["A"] = 0
    BY <1>0, <2>1 DEF ProcessInv
  <2>3. /\ ProcessInv' /\ pc'[Main] = "placeA" /\ pc'["A"] = "begin"
        /\ \A u \in Thread \ {Main, "A"} : pc'[u] = pc[u]
    BY <1>0, <2>1, <2>2, Creates
  <2>4. pc'["B"] = pc["B"] /\ pc'["C"] = pc["C"] /\ "readyA" \notin signaled
    BY <1>0, <2>1, <2>3 DEF Thread, PriorityInv, WorkedInv, PreemptionInv
  <2>5. PriorityType' /\ Only(Pair)' /\ PriorityVerdict'
    BY <1>0, <2>1, <2>2, <2>3, <2>4 DEF PriorityInv, PriorityType, Only, PriorityVerdict
  <2>6. Joining'
    BY <1>0, <2>1, <2>2, <2>3, <2>4 DEF PriorityInv, Joining, WorkedInv
  <2>7. WorkedInv'
    BY <1>0, <2>1, <2>2, <2>3, <2>4 DEF PriorityInv, WorkedInv
  <2>8. PriorityInv'
    BY <2>5, <2>6, <2>7 DEF PriorityInv
  <2> QED BY <1>0, <2>1, <2>2, <2>3, <2>4, <2>8 DEF PreemptionInv
<1>4. CASE Priority!CreateThread("createB", "B", 0, "placeB")
  <2>1. /\ pc[Main] = "createB" /\ exit = "running" /\ suspends[Main] = 0
        /\ pc' = [pc EXCEPT ![Main] = "placeB", !["B"] = "begin"]
        /\ suspends' = [suspends EXCEPT !["B"] = 0]
        /\ UNCHANGED <<signaled, open, mem, exit, faulted>>
    BY <1>4
  <2>2. suspends' \in [Thread -> Nat] /\ suspends'["B"] = 0
    BY <1>0, <2>1 DEF ProcessInv
  <2>3. /\ ProcessInv' /\ pc'[Main] = "placeB" /\ pc'["B"] = "begin"
        /\ \A u \in Thread \ {Main, "B"} : pc'[u] = pc[u]
    BY <1>0, <2>1, <2>2, Creates
  <2>4. pc'["A"] = pc["A"] /\ pc'["C"] = pc["C"] /\ "readyB" \notin signaled
    BY <1>0, <2>1, <2>3 DEF Thread, PriorityInv, WorkedInv, PreemptionInv
  <2>5. PriorityType' /\ Only(Pair)' /\ PriorityVerdict'
    BY <1>0, <2>1, <2>2, <2>3, <2>4 DEF PriorityInv, PriorityType, Only, PriorityVerdict
  <2>6. Joining'
    BY <1>0, <2>1, <2>2, <2>3, <2>4 DEF PriorityInv, Joining, WorkedInv
  <2>7. WorkedInv'
    BY <1>0, <2>1, <2>2, <2>3, <2>4 DEF PriorityInv, WorkedInv
  <2>8. PriorityInv'
    BY <2>5, <2>6, <2>7 DEF PriorityInv
  <2> QED BY <1>0, <2>1, <2>2, <2>3, <2>4, <2>8 DEF PreemptionInv
<1> DEFINE Calling(from, to) == \/ from = "setup" /\ to = "create"
                                \/ from = "placeA" /\ to = "createB"
                                \/ from = "placeB" /\ to = "readyB"
                                \/ from = "inspect" /\ to = "startA"
                                \/ from = "watch" /\ to = "startB"
<1>5. ASSUME NEW from, NEW to, Calling(from, to),
             Priority!Call(Main, from, to)
      PROVE  ProcessInv' /\ PreemptionInv'
  <2>1. /\ Goes(Main, from, to)
        /\ UNCHANGED <<signaled, open, mem, faulted>>
        /\ Calling(from, to)
    BY <1>5
  <2>2. ProcessInv' /\ Moved(Main, to)
    BY <1>0, <2>1, Moves DEF ProcessInv
  <2>3. PriorityType' /\ Only(Pair)' /\ PriorityVerdict'
    BY <1>0, <2>1, <2>2 DEF PriorityInv, PriorityType, Only, PriorityVerdict
  <2>4. Joining'
    BY <1>0, <2>1, <2>2 DEF PriorityInv, Joining
  <2>5. WorkedInv'
    BY <1>0, <2>1, <2>2 DEF PriorityInv, WorkedInv
  <2>6. PriorityInv'
    BY <2>3, <2>4, <2>5 DEF PriorityInv
  <2> QED BY <1>0, <2>1, <2>2, <2>6 DEF PreemptionInv
<1> DEFINE Awaiting(from, event, to) ==
      \/ from = "readyB" /\ event = "readyB" /\ to = "inspect"
      \/ from = "readyA" /\ event = "readyA" /\ to = "observe"
<1>6. ASSUME NEW from, NEW event, NEW to, Awaiting(from, event, to),
             Priority!Await(Main, from, {event}, to)
      PROVE  ProcessInv' /\ PreemptionInv'
  <2>1. /\ Goes(Main, from, to)
        /\ UNCHANGED <<signaled, open, mem, faulted>>
        /\ Awaiting(from, event, to)
        /\ event \in signaled
    BY <1>6, <1>0
  <2>2. ProcessInv' /\ Moved(Main, to)
    BY <1>0, <2>1, Moves DEF ProcessInv
  <2>3. PriorityType' /\ Only(Pair)' /\ PriorityVerdict'
    BY <1>0, <2>1, <2>2 DEF PriorityInv, PriorityType, Only, PriorityVerdict
  <2>4. Joining'
    BY <1>0, <2>1, <2>2 DEF PriorityInv, Joining
  <2>5. WorkedInv'
    BY <1>0, <2>1, <2>2 DEF PriorityInv, WorkedInv
  <2>6. PriorityInv'
    BY <2>3, <2>4, <2>5 DEF PriorityInv
  <2> QED BY <1>0, <2>1, <2>2, <2>6 DEF PreemptionInv
<1> DEFINE Signaling(from, event, to) ==
      \/ from = "startA" /\ event = "startA" /\ to = "readyA"
      \/ from = "startB" /\ event = "startB" /\ to = "joinA"
      \/ from = "abort" /\ event = "stop" /\ to = "abortA"
      \/ from = "abortA" /\ event = "startA" /\ to = "abortB"
      \/ from = "abortB" /\ event = "startB" /\ to = "joinA"
<1>7. ASSUME NEW from, NEW event, NEW to, Signaling(from, event, to),
             Priority!SignalEvent(Main, from, event, to)
      PROVE  ProcessInv' /\ PreemptionInv'
  <2>1. /\ Goes(Main, from, to)
        /\ signaled' = signaled \cup {event}
        /\ UNCHANGED <<open, mem, faulted>>
        /\ Signaling(from, event, to)
    BY <1>7
  <2>2. ProcessInv' /\ Moved(Main, to)
    BY <1>0, <2>1, Moves DEF ProcessInv
  <2>3. PriorityType' /\ Only(Pair)' /\ PriorityVerdict'
    BY <1>0, <2>1, <2>2 DEF PriorityInv, PriorityType, Only, PriorityVerdict
  <2>4. Joining'
    BY <1>0, <2>1, <2>2 DEF PriorityInv, Joining
  <2>5. WorkedInv'
    BY <1>0, <2>1, <2>2 DEF PriorityInv, WorkedInv
  <2>6. PriorityInv'
    BY <2>3, <2>4, <2>5 DEF PriorityInv
  <2> QED BY <1>0, <2>1, <2>2, <2>6 DEF PreemptionInv
<1> DEFINE Failing(from, to) ==
      \/ from \in {"create", "placeA", "createB", "placeB", "readyB", "inspect",
                   "startA", "readyA", "observe", "watch", "startB"} /\ to = "abort"
      \/ from = "abort" /\ to = "abortA"
      \/ from = "abortA" /\ to = "abortB"
      \/ from = "abortB" /\ to = "joinA"
<1>8. ASSUME NEW from, NEW to, NEW f, Failing(from, to),
             Priority!StepFails(from, f, to)
      PROVE  ProcessInv' /\ PreemptionInv'
  <2>1. /\ Goes(Main, from, to)
        /\ Fault(f)
        /\ mem' = [mem EXCEPT !.success = FALSE]
        /\ UNCHANGED <<signaled, open>>
        /\ Failing(from, to)
    BY <1>8
  <2>2. ProcessInv' /\ Moved(Main, to)
    BY <1>0, <2>1, Moves DEF ProcessInv
  <2>3. /\ PriorityType' /\ ~mem'.success /\ UNCHANGED <<mem.joined, mem.worked>>
    BY <1>0, <2>1 DEF PriorityInv, PriorityType
  <2>4. PriorityType' /\ Only(Pair)' /\ PriorityVerdict'
    BY <1>0, <2>1, <2>2, <2>3 DEF PriorityInv, PriorityType, Only, PriorityVerdict
  <2>5. Joining'
    BY <1>0, <2>1, <2>2, <2>3 DEF PriorityInv, Joining
  <2>6. WorkedInv'
    BY <1>0, <2>1, <2>2, <2>3 DEF PriorityInv, WorkedInv
  <2>7. PriorityInv'
    BY <2>4, <2>5, <2>6 DEF PriorityInv
  <2> QED BY <1>0, <2>1, <2>2, <2>3, <2>7 DEF PreemptionInv
<1>9. CASE Priority!Require("observe", ~Priority!Satisfied({"stop"}), "watch", "abort")
  <2>1. PICK v \in BOOLEAN : v = (~Priority!Satisfied({"stop"}))
    OBVIOUS
  <2>2. /\ Goes(Main, "observe", IF v THEN "watch" ELSE "abort")
        /\ mem' = [mem EXCEPT !.success = v]
        /\ UNCHANGED <<signaled, open, faulted>>
    BY <1>9, <2>1 DEF Priority!Require
  <2>3. ProcessInv' /\ Moved(Main, IF v THEN "watch" ELSE "abort")
    BY <1>0, <2>2, Moves DEF ProcessInv
  <2>4. /\ PriorityType' /\ mem'.success = v /\ UNCHANGED <<mem.joined, mem.worked>>
    BY <1>0, <2>2 DEF PriorityInv, PriorityType
  <2>5. /\ (~v => faulted # {}) /\ mem.joined /\ pc'[Main] \in {"watch", "abort"}
        /\ pc["A"] # "none" /\ pc["B"] # "none"
    BY <1>0, <2>1, <2>2, <2>3 DEF PreemptionInv, PriorityInv, WorkedInv
  <2>6. PriorityType' /\ Only(Pair)' /\ PriorityVerdict'
    BY <1>0, <2>1, <2>2, <2>3, <2>4, <2>5 DEF PriorityInv, PriorityType, Only, PriorityVerdict
  <2>7. Joining'
    BY <1>0, <2>1, <2>2, <2>3, <2>4, <2>5 DEF PriorityInv, Joining
  <2>8. WorkedInv'
    BY <1>0, <2>1, <2>2, <2>3, <2>4, <2>5 DEF PriorityInv, WorkedInv
  <2>9. PriorityInv'
    BY <2>6, <2>7, <2>8 DEF PriorityInv
  <2> QED BY <1>0, <2>1, <2>2, <2>3, <2>4, <2>5, <2>9 DEF PreemptionInv
<1>10. CASE Priority!JoinBoth
  BY <1>0, <1>10, JoinBothStep DEF PreemptionInv
<1>11. CASE t \in Pair /\ Priority!PreemptionWorker(t)
  BY <1>11, PreemptionWorkerStep
<1> HIDE DEF Priority!Go, Priority!At, Priority!Running, Priority!Call, Priority!others,
    Priority!Store, Priority!SignalEvent, Priority!Await, Priority!Satisfied,
    Priority!Worker, Priority!Ended, Priority!Fault, Priority!ExitOn,
    Priority!CheckFails, Priority!EndProcess, Priority!Return, Priority!CreateThread,
    Priority!StepFails, Priority!SignalAnyway
<1>12. ASSUME NEW from, NEW event, NEW to, Signaling(from, event, to), Failing(from,
         to),
              Priority!SignalAnyway(from, event, to)
       PROVE  ProcessInv' /\ PreemptionInv'
  BY <1>12, <1>8, <1>7 DEF Priority!SignalAnyway
<1> QED BY <1>1, <1>2, <1>3, <1>4, <1>5, <1>6, <1>7, <1>8, <1>9, <1>10, <1>11, <1>12 DEF
           Priority!Preemption, Priority!PreemptionMain, Priority!SetUp, Priority!Hire,
           Priority!CallAborts, Priority!AwaitOrAbort, Priority!Main

-----------------------------------------------------------------------------
(* The steps of SuspendCount *)

\* The same of a thread that goes on as a suspend count changes.
LEMMA Suspends ==
  ASSUME ProcessInv, NEW t \in Thread, NEW to,
         UNCHANGED <<program, signaled, open, exit, faulted>>,
         pc' = [pc EXCEPT ![t] = to], suspends' \in [Thread -> Nat]
  PROVE  ProcessInv' /\ Moved(t, to)
BY DEF ProcessInv, Moved

\* The worker enters and waits for the stop.
LEMMA CountedWorkerStep ==
  ASSUME ProcessInv, CountedInv, UNCHANGED program, Count!CountedWorker("A")
  PROVE  ProcessInv' /\ CountedInv'
<1> USE DEF Count!Go, Count!At, Count!Running, Count!Call, Count!others, Count!Store,
    Count!SignalEvent, Count!Await, Count!Satisfied, Count!Worker, Count!Ended,
    Count!Fault, Count!Fails, Fault, Ended, Main, Moved, Faulty, NoFault, Alive, Goes
<1>0. /\ "A" \in Worker /\ "A" \in Thread /\ Main \in Thread /\ Worker \subseteq Thread
      /\ Worker = {"A", "B", "C"} /\ signaled \cap Worker = {}
      /\ 0 \in Nat /\ 1 \in Nat /\ 0 \in {0, 1} /\ 1 \in {0, 1}
      /\ suspends \in [Thread -> Nat] /\ mem.owed \in Nat
  BY DEF ProcessInv, Thread, Worker, CountedInv, SuspendType
<1>1. CASE Count!Store("A", "begin", [mem EXCEPT !.entered = 1], "announce")
  <2>1. /\ Goes("A", "begin", "announce")
        /\ mem' = [mem EXCEPT !.entered = 1]
        /\ UNCHANGED <<signaled, open, faulted>>
    BY <1>1
  <2>2. ProcessInv' /\ Moved("A", "announce")
    BY <1>0, <2>1, Moves DEF ProcessInv
  <2>3. SuspendType' /\ mem'.entered = 1
        /\ UNCHANGED <<mem.success, mem.joined, mem.previous, mem.owed>>
    BY <1>0, <2>1 DEF CountedInv, SuspendType
  <2> QED BY <1>0, <2>1, <2>2, <2>3 DEF CountedInv, SuspendType, CleanUp, Only, Verdict
<1>2. CASE Count!SignalEvent("A", "announce", "entered", "gate")
  <2>1. /\ Goes("A", "announce", "gate")
        /\ signaled' = signaled \cup {"entered"}
        /\ UNCHANGED <<open, mem, faulted>>
    BY <1>2
  <2>2. ProcessInv' /\ Moved("A", "gate")
    BY <1>0, <2>1, Moves DEF ProcessInv
  <2> QED BY <1>0, <2>1, <2>2 DEF CountedInv, SuspendType, CleanUp, Only, Verdict
<1>3. CASE Count!Fails("A", "announce", "call", "failed")
  <2>1. /\ Goes("A", "announce", "failed")
        /\ Fault("call")
        /\ UNCHANGED <<signaled, open, mem>>
    BY <1>3
  <2>2. ProcessInv' /\ Moved("A", "failed")
    BY <1>0, <2>1, Moves DEF ProcessInv
  <2> QED BY <1>0, <2>1, <2>2 DEF CountedInv, SuspendType, CleanUp, Only, Verdict
<1>4. CASE Count!Await("A", "gate", {"stop"}, "done")
  <2>1. /\ Goes("A", "gate", "done")
        /\ UNCHANGED <<signaled, open, mem, faulted>>
        /\ "stop" \in signaled
    BY <1>4, <1>0
  <2>2. ProcessInv' /\ Moved("A", "done")
    BY <1>0, <2>1, Moves DEF ProcessInv
  <2> QED BY <1>0, <2>1, <2>2 DEF CountedInv, SuspendType, CleanUp, Only, Verdict
<1>5. CASE ~Count!Satisfied({"stop"}) /\ Count!Fails("A", "gate", "slow", "failed")
  <2>1. /\ Goes("A", "gate", "failed")
        /\ Fault("slow")
        /\ UNCHANGED <<signaled, open, mem>>
    BY <1>5
  <2>2. ProcessInv' /\ Moved("A", "failed")
    BY <1>0, <2>1, Moves DEF ProcessInv
  <2> QED BY <1>0, <2>1, <2>2 DEF CountedInv, SuspendType, CleanUp, Only, Verdict
<1> QED BY <1>1, <1>2, <1>3, <1>4, <1>5 DEF Count!CountedWorker, Count!SignalOrFail,
           Count!AwaitOrFail, Count!WorkerFails

\* The steps of suspend_count.cpp.
LEMMA CountedStep ==
  ASSUME ProcessInv, UNCHANGED program, CountedInv, NEW t \in Thread,
         Count!Counted(t)
  PROVE  ProcessInv' /\ CountedInv'
<1> USE DEF Count!Go, Count!At, Count!Running, Count!Call, Count!others, Count!Store,
    Count!SignalEvent, Count!Await, Count!Satisfied, Count!Worker, Count!Main,
    Count!Ended, Count!Fault, Count!EndProcess, Count!Return, Count!CreateThread,
    Count!Alive, Count!StepFails, Count!SignalAnyway, Fault, Ended, Main, Moved, Faulty,
    NoFault, Alive, Goes
<1>0. /\ "A" \in Worker /\ "A" \in Thread /\ Main \in Thread /\ Worker \subseteq Thread
      /\ Worker = {"A", "B", "C"} /\ signaled \cap Worker = {}
      /\ 0 \in Nat /\ 1 \in Nat /\ 0 \in {0, 1} /\ 1 \in {0, 1}
      /\ suspends \in [Thread -> Nat] /\ mem.owed \in Nat
  BY DEF ProcessInv, Thread, Worker, CountedInv, SuspendType
<1>1. CASE Count!CreateThread("create", "A", 1, "owe")
  <2>1. /\ pc[Main] = "create" /\ exit = "running" /\ suspends[Main] = 0
        /\ pc' = [pc EXCEPT ![Main] = "owe", !["A"] = "begin"]
        /\ suspends' = [suspends EXCEPT !["A"] = 1]
        /\ UNCHANGED <<signaled, open, mem, exit, faulted>>
    BY <1>1
  <2>2. suspends' \in [Thread -> Nat] /\ suspends'["A"] = 1
    BY <1>0, <2>1 DEF ProcessInv
  <2>3. /\ ProcessInv' /\ pc'[Main] = "owe" /\ pc'["A"] = "begin"
        /\ \A u \in Thread \ {Main, "A"} : pc'[u] = pc[u]
    BY <1>0, <2>1, <2>2, Creates
  <2>4. /\ mem.owed = 0 /\ mem.entered = 0 /\ "entered" \notin signaled
    BY <1>0, <2>1 DEF CountedInv
  <2>5. pc'["B"] = pc["B"] /\ pc'["C"] = pc["C"]
    BY <2>3 DEF Thread, Main, Worker
  <2> QED BY <1>0, <2>1, <2>2, <2>3, <2>4, <2>5 DEF CountedInv, SuspendType, CleanUp,
             Only, Verdict
<1>2. CASE Count!Store(Main, "owe", [mem EXCEPT !.owed = 1], "name")
  <2>1. /\ Goes(Main, "owe", "name")
        /\ mem' = [mem EXCEPT !.owed = 1]
        /\ UNCHANGED <<signaled, open, faulted>>
    BY <1>2
  <2>2. ProcessInv' /\ Moved(Main, "name")
    BY <1>0, <2>1, Moves DEF ProcessInv
  <2>3. /\ SuspendType' /\ mem'.owed = 1
        /\ UNCHANGED <<mem.success, mem.joined, mem.entered, mem.previous>>
    BY <1>0, <2>1 DEF CountedInv, SuspendType
  <2> QED BY <1>0, <2>1, <2>2, <2>3 DEF CountedInv, SuspendType, CleanUp, Only, Verdict
<1>3. CASE Count!Call(Main, "name", "suspend")
  <2>1. /\ Goes(Main, "name", "suspend")
        /\ UNCHANGED <<signaled, open, mem, faulted>>
    BY <1>3
  <2>2. ProcessInv' /\ Moved(Main, "suspend")
    BY <1>0, <2>1, Moves DEF ProcessInv
  <2> QED BY <1>0, <2>1, <2>2 DEF CountedInv, SuspendType, CleanUp, Only, Verdict
<1>4. CASE Count!SuspendThread("suspend", "twice")
  <2>1. /\ pc[Main] = "suspend" /\ exit = "running"
        /\ pc' = [pc EXCEPT ![Main] = "twice"]
        /\ suspends' = [suspends EXCEPT !["A"] = @ + 1]
        /\ mem' = [mem EXCEPT !.previous = suspends["A"], !.owed = @ + 1]
        /\ UNCHANGED <<signaled, open, exit, faulted>>
    BY <1>4 DEF Count!SuspendThread
  <2>2. suspends["A"] = mem.owed
    BY <1>0, <1>4, <2>1 DEF CountedInv
  <2>3. PICK n \in Nat, o \in Nat : n = mem.owed + 1 /\ o = mem.owed
    BY <1>0, <2>2
  <2>4. /\ suspends' = [suspends EXCEPT !["A"] = n]
        /\ mem' = [mem EXCEPT !.previous = o, !.owed = n]
    <3>1. suspends["A"] + 1 = n /\ mem.owed + 1 = n
      BY <2>2, <2>3
    <3> QED BY <2>1, <2>2, <2>3, <3>1
  <2>5. ProcessInv' /\ Moved(Main, "twice") /\ suspends'["A"] = n
    <3>1. suspends' \in [Thread -> Nat] /\ suspends'["A"] = n
      BY <1>0, <2>3, <2>4
    <3> QED BY <1>0, <2>1, <3>1, Suspends
  <2>6. /\ SuspendType' /\ mem'.previous = o /\ mem'.owed = n
        /\ UNCHANGED <<mem.success, mem.joined, mem.entered>>
    BY <2>4 DEF CountedInv, SuspendType
  <2> QED BY <1>0, <2>1, <2>2, <2>3, <2>5, <2>6 DEF CountedInv, SuspendType, CleanUp,
             Only, Verdict
<1>5. CASE Count!Require("twice", mem.previous = 1 /\ mem.entered = 0, "inspect",
             "stop")
  <2>1. PICK v \in BOOLEAN : v = (mem.previous = 1 /\ mem.entered = 0)
    OBVIOUS
  <2>2. /\ Goes(Main, "twice", IF v THEN "inspect" ELSE "stop")
        /\ mem' = [mem EXCEPT !.success = v]
        /\ UNCHANGED <<signaled, open, faulted>>
    BY <1>5, <2>1 DEF Count!Require
  <2>3. ProcessInv' /\ Moved(Main, IF v THEN "inspect" ELSE "stop")
    BY <1>0, <2>2, Moves DEF ProcessInv
  <2>4. /\ SuspendType' /\ mem'.success = v
        /\ UNCHANGED <<mem.joined, mem.entered, mem.previous, mem.owed>>
    BY <1>0, <2>2 DEF CountedInv, SuspendType
  <2>5. ~v => faulted # {}
    BY <1>0, <2>1, <2>2 DEF CountedInv, SuspendType, CleanUp, Only, Verdict
  <2> QED BY <1>0, <2>1, <2>2, <2>3, <2>4, <2>5 DEF CountedInv, SuspendType, CleanUp,
             Only, Verdict
<1>6. CASE Count!Call(Main, "inspect", "resume")
  <2>1. /\ Goes(Main, "inspect", "resume")
        /\ UNCHANGED <<signaled, open, mem, faulted>>
    BY <1>6
  <2>2. ProcessInv' /\ Moved(Main, "resume")
    BY <1>0, <2>1, Moves DEF ProcessInv
  <2> QED BY <1>0, <2>1, <2>2 DEF CountedInv, SuspendType, CleanUp, Only, Verdict
<1>7. CASE Count!PayResume("resume", "once")
  <2>1. /\ pc[Main] = "resume" /\ exit = "running" /\ pc' = [pc EXCEPT ![Main] = "once"]
        /\ suspends' = [suspends EXCEPT !["A"] = IF @ = 0 THEN 0 ELSE @ - 1]
        /\ mem' = [mem EXCEPT !.previous = suspends["A"], !.owed = @ - 1]
        /\ UNCHANGED <<signaled, open, exit, faulted>>
    BY <1>7 DEF Count!PayResume
  <2>2. suspends["A"] = mem.owed /\ mem.owed > 0
    BY <1>0, <1>7, <2>1 DEF CountedInv
  <2>3. PICK n \in Nat, o \in Nat : n = mem.owed - 1 /\ o = mem.owed
    BY <1>0, <2>2
  <2>4. /\ suspends' = [suspends EXCEPT !["A"] = n]
        /\ mem' = [mem EXCEPT !.previous = o, !.owed = n]
    <3>1. (IF suspends["A"] = 0 THEN 0 ELSE suspends["A"] - 1) = n /\ mem.owed - 1 = n
      BY <2>2, <2>3
    <3> QED BY <2>1, <2>2, <2>3, <3>1
  <2>5. ProcessInv' /\ Moved(Main, "once") /\ suspends'["A"] = n
    <3>1. suspends' \in [Thread -> Nat] /\ suspends'["A"] = n
      BY <1>0, <2>3, <2>4
    <3> QED BY <1>0, <2>1, <3>1, Suspends
  <2>6. /\ SuspendType' /\ mem'.previous = o /\ mem'.owed = n
        /\ UNCHANGED <<mem.success, mem.joined, mem.entered>>
    BY <2>4 DEF CountedInv, SuspendType
  <2> QED BY <1>0, <2>1, <2>2, <2>3, <2>5, <2>6 DEF CountedInv, SuspendType, CleanUp,
             Only, Verdict
<1>8. CASE Count!Require("once", mem.previous = 2, "still", "stop")
  <2>1. PICK v \in BOOLEAN : v = (mem.previous = 2)
    OBVIOUS
  <2>2. /\ Goes(Main, "once", IF v THEN "still" ELSE "stop")
        /\ mem' = [mem EXCEPT !.success = v]
        /\ UNCHANGED <<signaled, open, faulted>>
    BY <1>8, <2>1 DEF Count!Require
  <2>3. ProcessInv' /\ Moved(Main, IF v THEN "still" ELSE "stop")
    BY <1>0, <2>2, Moves DEF ProcessInv
  <2>4. /\ SuspendType' /\ mem'.success = v
        /\ UNCHANGED <<mem.joined, mem.entered, mem.previous, mem.owed>>
    BY <1>0, <2>2 DEF CountedInv, SuspendType
  <2>5. ~v => faulted # {}
    BY <1>0, <2>1, <2>2 DEF CountedInv, SuspendType, CleanUp, Only, Verdict
  <2> QED BY <1>0, <2>1, <2>2, <2>3, <2>4, <2>5 DEF CountedInv, SuspendType, CleanUp,
             Only, Verdict
<1>9. CASE Count!Require("still", ~Count!Satisfied({"entered"}) /\ mem.entered = 0,
             "watch", "stop")
  <2>1. PICK v \in BOOLEAN : v = (~Count!Satisfied({"entered"}) /\ mem.entered = 0)
    OBVIOUS
  <2>2. /\ Goes(Main, "still", IF v THEN "watch" ELSE "stop")
        /\ mem' = [mem EXCEPT !.success = v]
        /\ UNCHANGED <<signaled, open, faulted>>
    BY <1>9, <2>1 DEF Count!Require
  <2>3. ProcessInv' /\ Moved(Main, IF v THEN "watch" ELSE "stop")
    BY <1>0, <2>2, Moves DEF ProcessInv
  <2>4. /\ SuspendType' /\ mem'.success = v
        /\ UNCHANGED <<mem.joined, mem.entered, mem.previous, mem.owed>>
    BY <1>0, <2>2 DEF CountedInv, SuspendType
  <2>5. ~v => faulted # {}
    BY <1>0, <2>1, <2>2 DEF CountedInv, SuspendType, CleanUp, Only, Verdict
  <2> QED BY <1>0, <2>1, <2>2, <2>3, <2>4, <2>5 DEF CountedInv, SuspendType, CleanUp,
             Only, Verdict
<1>10. CASE Count!Call(Main, "watch", "last")
  <2>1. /\ Goes(Main, "watch", "last")
        /\ UNCHANGED <<signaled, open, mem, faulted>>
    BY <1>10
  <2>2. ProcessInv' /\ Moved(Main, "last")
    BY <1>0, <2>1, Moves DEF ProcessInv
  <2> QED BY <1>0, <2>1, <2>2 DEF CountedInv, SuspendType, CleanUp, Only, Verdict
<1>11. CASE Count!PayResume("last", "begun")
  <2>1. /\ pc[Main] = "last" /\ exit = "running" /\ pc' = [pc EXCEPT ![Main] = "begun"]
        /\ suspends' = [suspends EXCEPT !["A"] = IF @ = 0 THEN 0 ELSE @ - 1]
        /\ mem' = [mem EXCEPT !.previous = suspends["A"], !.owed = @ - 1]
        /\ UNCHANGED <<signaled, open, exit, faulted>>
    BY <1>11 DEF Count!PayResume
  <2>2. suspends["A"] = mem.owed /\ mem.owed > 0
    BY <1>0, <1>11, <2>1 DEF CountedInv
  <2>3. PICK n \in Nat, o \in Nat : n = mem.owed - 1 /\ o = mem.owed
    BY <1>0, <2>2
  <2>4. /\ suspends' = [suspends EXCEPT !["A"] = n]
        /\ mem' = [mem EXCEPT !.previous = o, !.owed = n]
    <3>1. (IF suspends["A"] = 0 THEN 0 ELSE suspends["A"] - 1) = n /\ mem.owed - 1 = n
      BY <2>2, <2>3
    <3> QED BY <2>1, <2>2, <2>3, <3>1
  <2>5. ProcessInv' /\ Moved(Main, "begun") /\ suspends'["A"] = n
    <3>1. suspends' \in [Thread -> Nat] /\ suspends'["A"] = n
      BY <1>0, <2>3, <2>4
    <3> QED BY <1>0, <2>1, <3>1, Suspends
  <2>6. /\ SuspendType' /\ mem'.previous = o /\ mem'.owed = n
        /\ UNCHANGED <<mem.success, mem.joined, mem.entered>>
    BY <2>4 DEF CountedInv, SuspendType
  <2> QED BY <1>0, <2>1, <2>2, <2>3, <2>5, <2>6 DEF CountedInv, SuspendType, CleanUp,
             Only, Verdict
<1>12. CASE Count!Require("begun", mem.previous = 1, "await", "stop")
  <2>1. PICK v \in BOOLEAN : v = (mem.previous = 1)
    OBVIOUS
  <2>2. /\ Goes(Main, "begun", IF v THEN "await" ELSE "stop")
        /\ mem' = [mem EXCEPT !.success = v]
        /\ UNCHANGED <<signaled, open, faulted>>
    BY <1>12, <2>1 DEF Count!Require
  <2>3. ProcessInv' /\ Moved(Main, IF v THEN "await" ELSE "stop")
    BY <1>0, <2>2, Moves DEF ProcessInv
  <2>4. /\ SuspendType' /\ mem'.success = v
        /\ UNCHANGED <<mem.joined, mem.entered, mem.previous, mem.owed>>
    BY <1>0, <2>2 DEF CountedInv, SuspendType
  <2>5. ~v => faulted # {}
    BY <1>0, <2>1, <2>2 DEF CountedInv, SuspendType, CleanUp, Only, Verdict
  <2> QED BY <1>0, <2>1, <2>2, <2>3, <2>4, <2>5 DEF CountedInv, SuspendType, CleanUp,
             Only, Verdict
<1>13. CASE Count!Await(Main, "await", {"entered"}, "check")
  <2>1. /\ Goes(Main, "await", "check")
        /\ UNCHANGED <<signaled, open, mem, faulted>>
        /\ "entered" \in signaled
    BY <1>13, <1>0
  <2>2. ProcessInv' /\ Moved(Main, "check")
    BY <1>0, <2>1, Moves DEF ProcessInv
  <2> QED BY <1>0, <2>1, <2>2 DEF CountedInv, SuspendType, CleanUp, Only, Verdict
<1>14. CASE ~Count!Satisfied({"entered"}) /\ Count!StepFails("await", "slow", "stop")
  <2>1. /\ Goes(Main, "await", "stop")
        /\ Fault("slow")
        /\ mem' = [mem EXCEPT !.success = FALSE]
        /\ UNCHANGED <<signaled, open>>
    BY <1>14
  <2>2. ProcessInv' /\ Moved(Main, "stop")
    BY <1>0, <2>1, Moves DEF ProcessInv
  <2>3. /\ SuspendType' /\ ~mem'.success
        /\ UNCHANGED <<mem.joined, mem.entered, mem.previous, mem.owed>>
    BY <1>0, <2>1 DEF CountedInv, SuspendType
  <2> QED BY <1>0, <2>1, <2>2, <2>3 DEF CountedInv, SuspendType, CleanUp, Only, Verdict
<1>15. CASE Count!Require("check", mem.entered = 1, "look", "stop")
  <2>1. PICK v \in BOOLEAN : v = (mem.entered = 1)
    OBVIOUS
  <2>2. /\ Goes(Main, "check", IF v THEN "look" ELSE "stop")
        /\ mem' = [mem EXCEPT !.success = v]
        /\ UNCHANGED <<signaled, open, faulted>>
    BY <1>15, <2>1 DEF Count!Require
  <2>3. ProcessInv' /\ Moved(Main, IF v THEN "look" ELSE "stop")
    BY <1>0, <2>2, Moves DEF ProcessInv
  <2>4. /\ SuspendType' /\ mem'.success = v
        /\ UNCHANGED <<mem.joined, mem.entered, mem.previous, mem.owed>>
    BY <1>0, <2>2 DEF CountedInv, SuspendType
  <2>5. ~v => faulted # {}
    BY <1>0, <2>1, <2>2 DEF CountedInv, SuspendType, CleanUp, Only, Verdict
  <2> QED BY <1>0, <2>1, <2>2, <2>3, <2>4, <2>5 DEF CountedInv, SuspendType, CleanUp,
             Only, Verdict
<1>16. CASE Count!Call(Main, "look", "stop")
  <2>1. /\ Goes(Main, "look", "stop")
        /\ UNCHANGED <<signaled, open, mem, faulted>>
    BY <1>16
  <2>2. ProcessInv' /\ Moved(Main, "stop")
    BY <1>0, <2>1, Moves DEF ProcessInv
  <2> QED BY <1>0, <2>1, <2>2 DEF CountedInv, SuspendType, CleanUp, Only, Verdict
<1>17. ASSUME NEW from \in {"create", "name", "suspend", "inspect", "resume", "still",
                       "watch", "last", "await", "look"},
             Count!StepFails(from, "call", "stop")
      PROVE  ProcessInv' /\ CountedInv'
  <2>1. /\ Goes(Main, from, "stop")
        /\ Fault("call") /\ mem' = [mem EXCEPT !.success = FALSE]
        /\ UNCHANGED <<signaled, open>>
    BY <1>17
  <2>2. ProcessInv' /\ Moved(Main, "stop")
    BY <1>0, <2>1, Moves DEF ProcessInv
  <2>3. /\ SuspendType' /\ ~mem'.success
        /\ UNCHANGED <<mem.joined, mem.entered, mem.previous, mem.owed>>
    BY <1>0, <2>1 DEF CountedInv, SuspendType
  <2> QED BY <1>0, <1>17, <2>1, <2>2, <2>3 DEF CountedInv, SuspendType, CleanUp, Only,
             Verdict
<1>18. CASE Count!SignalEvent(Main, "stop", "stop", "owed")
  <2>1. /\ Goes(Main, "stop", "owed")
        /\ signaled' = signaled \cup {"stop"}
        /\ UNCHANGED <<open, mem, faulted>>
    BY <1>18
  <2>2. ProcessInv' /\ Moved(Main, "owed")
    BY <1>0, <2>1, Moves DEF ProcessInv
  <2> QED BY <1>0, <2>1, <2>2 DEF CountedInv, SuspendType, CleanUp, Only, Verdict
<1>19. CASE Count!StepFails("stop", "call", "owed")
  <2>1. /\ Goes(Main, "stop", "owed")
        /\ Fault("call")
        /\ mem' = [mem EXCEPT !.success = FALSE]
        /\ UNCHANGED <<signaled, open>>
    BY <1>19
  <2>2. ProcessInv' /\ Moved(Main, "owed")
    BY <1>0, <2>1, Moves DEF ProcessInv
  <2>3. /\ SuspendType' /\ ~mem'.success
        /\ UNCHANGED <<mem.joined, mem.entered, mem.previous, mem.owed>>
    BY <1>0, <2>1 DEF CountedInv, SuspendType
  <2> QED BY <1>0, <2>1, <2>2, <2>3 DEF CountedInv, SuspendType, CleanUp, Only, Verdict
<1>20. CASE mem.owed > 0 /\ Count!PayResume("owed", "owed")
  <2>1. /\ pc[Main] = "owed" /\ exit = "running" /\ pc' = [pc EXCEPT ![Main] = "owed"]
        /\ suspends' = [suspends EXCEPT !["A"] = IF @ = 0 THEN 0 ELSE @ - 1]
        /\ mem' = [mem EXCEPT !.previous = suspends["A"], !.owed = @ - 1]
        /\ UNCHANGED <<signaled, open, exit, faulted>>
    BY <1>20 DEF Count!PayResume
  <2>2. suspends["A"] = mem.owed /\ mem.owed > 0
    BY <1>0, <1>20, <2>1 DEF CountedInv
  <2>3. PICK n \in Nat, o \in Nat : n = mem.owed - 1 /\ o = mem.owed
    BY <1>0, <2>2
  <2>4. /\ suspends' = [suspends EXCEPT !["A"] = n]
        /\ mem' = [mem EXCEPT !.previous = o, !.owed = n]
    <3>1. (IF suspends["A"] = 0 THEN 0 ELSE suspends["A"] - 1) = n /\ mem.owed - 1 = n
      BY <2>2, <2>3
    <3> QED BY <2>1, <2>2, <2>3, <3>1
  <2>5. ProcessInv' /\ Moved(Main, "owed") /\ suspends'["A"] = n
    <3>1. suspends' \in [Thread -> Nat] /\ suspends'["A"] = n
      BY <1>0, <2>3, <2>4
    <3> QED BY <1>0, <2>1, <3>1, Suspends
  <2>6. /\ SuspendType' /\ mem'.previous = o /\ mem'.owed = n
        /\ UNCHANGED <<mem.success, mem.joined, mem.entered>>
    BY <2>4 DEF CountedInv, SuspendType
  <2> QED BY <1>0, <2>1, <2>2, <2>3, <2>5, <2>6 DEF CountedInv, SuspendType, CleanUp,
             Only, Verdict
<1>21. CASE mem.owed > 0 /\ Count!StepFails("owed", "call", "join")
  <2>1. /\ Goes(Main, "owed", "join")
        /\ Fault("call")
        /\ mem' = [mem EXCEPT !.success = FALSE]
        /\ UNCHANGED <<signaled, open>>
    BY <1>21
  <2>2. ProcessInv' /\ Moved(Main, "join")
    BY <1>0, <2>1, Moves DEF ProcessInv
  <2>3. /\ SuspendType' /\ ~mem'.success
        /\ UNCHANGED <<mem.joined, mem.entered, mem.previous, mem.owed>>
    BY <1>0, <2>1 DEF CountedInv, SuspendType
  <2> QED BY <1>0, <2>1, <2>2, <2>3 DEF CountedInv, SuspendType, CleanUp, Only, Verdict
<1>22. CASE Count!Call(Main, "owed", "join") /\ mem.owed = 0
  <2>1. /\ Goes(Main, "owed", "join")
        /\ UNCHANGED <<signaled, open, mem, faulted>>
        /\ mem.owed = 0
    BY <1>22
  <2>2. ProcessInv' /\ Moved(Main, "join")
    BY <1>0, <2>1, Moves DEF ProcessInv
  <2> QED BY <1>0, <2>1, <2>2 DEF CountedInv, SuspendType, CleanUp, Only, Verdict
<1>23. CASE pc["A"] = "none" /\ Count!Call(Main, "join", "close")
  <2>1. /\ Goes(Main, "join", "close")
        /\ UNCHANGED <<signaled, open, mem, faulted>>
        /\ pc["A"] = "none"
    BY <1>23
  <2>2. ProcessInv' /\ Moved(Main, "close")
    BY <1>0, <2>1, Moves DEF ProcessInv
  <2> QED BY <1>0, <2>1, <2>2 DEF CountedInv, SuspendType, CleanUp, Only, Verdict
<1>24. CASE /\ Ended("A")
            /\ Count!Store(Main, "join", [mem EXCEPT !.success = @ /\ pc["A"] =
                 "done"], "close")
  <2>1. PICK v \in BOOLEAN : v = (mem.success /\ pc["A"] = "done")
    OBVIOUS
  <2>2. /\ Goes(Main, "join", "close")
        /\ Ended("A")
        /\ mem' = [mem EXCEPT !.success = v]
        /\ UNCHANGED <<signaled, open, faulted>>
    BY <1>24, <2>1
  <2>3. ProcessInv' /\ Moved(Main, "close")
    BY <1>0, <2>2, Moves DEF ProcessInv
  <2>4. /\ SuspendType' /\ mem'.success = v
        /\ UNCHANGED <<mem.joined, mem.entered, mem.previous, mem.owed>>
    BY <1>0, <2>2 DEF CountedInv, SuspendType
  <2>5. ~v => faulted # {}
    BY <1>0, <2>1, <2>2 DEF CountedInv, SuspendType, CleanUp, Only, Verdict
  <2> QED BY <1>0, <2>1, <2>2, <2>3, <2>4, <2>5 DEF CountedInv, SuspendType, CleanUp,
             Only, Verdict
<1>25. CASE Ended("A") /\ Count!StepFails("join", "call", "close")
  <2>1. /\ Goes(Main, "join", "close")
        /\ Fault("call")
        /\ mem' = [mem EXCEPT !.success = FALSE]
        /\ UNCHANGED <<signaled, open>>
        /\ Ended("A")
    BY <1>25
  <2>2. ProcessInv' /\ Moved(Main, "close")
    BY <1>0, <2>1, Moves DEF ProcessInv
  <2>3. /\ SuspendType' /\ ~mem'.success
        /\ UNCHANGED <<mem.joined, mem.entered, mem.previous, mem.owed>>
    BY <1>0, <2>1 DEF CountedInv, SuspendType
  <2> QED BY <1>0, <2>1, <2>2, <2>3 DEF CountedInv, SuspendType, CleanUp, Only, Verdict
<1>26. CASE /\ Count!Alive("A") /\ Count!Go(Main, "join", "close")
            /\ Count!Fault("slow")
            /\ mem' = [mem EXCEPT !.success = FALSE, !.joined = FALSE]
            /\ UNCHANGED <<suspends, signaled, open, exit>>
  <2>1. /\ Goes(Main, "join", "close")
        /\ Fault("slow")
        /\ mem' = [mem EXCEPT !.success = FALSE, !.joined = FALSE]
        /\ UNCHANGED <<signaled, open>>
    BY <1>26
  <2>2. ProcessInv' /\ Moved(Main, "close")
    BY <1>0, <2>1, Moves DEF ProcessInv
  <2>3. /\ SuspendType' /\ ~mem'.success /\ ~mem'.joined
        /\ UNCHANGED <<mem.entered, mem.previous, mem.owed>>
    BY <1>0, <2>1 DEF CountedInv, SuspendType
  <2> QED BY <1>0, <2>1, <2>2, <2>3 DEF CountedInv, SuspendType, CleanUp, Only, Verdict
<1>27. CASE /\ Count!Go(Main, "close", "verdict") /\ open' = ~mem.joined
            /\ Count!NoFault /\ UNCHANGED mem
            /\ UNCHANGED <<suspends, signaled, exit>>
  <2>1. /\ pc[Main] = "close" /\ exit = "running" /\ suspends[Main] = 0
        /\ pc' = [pc EXCEPT ![Main] = "verdict"] /\ open' = ~mem.joined
        /\ UNCHANGED <<mem, faulted>>
        /\ UNCHANGED <<suspends, signaled, exit>>
    BY <1>27 DEF Count!NoFault
  <2>2. ProcessInv' /\ Moved(Main, "verdict")
    BY <1>0, <2>1, Moves DEF ProcessInv
  <2> QED BY <1>0, <2>1, <2>2 DEF CountedInv, SuspendType, CleanUp, Only, Verdict
<1>28. CASE /\ Count!Go(Main, "close", "verdict") /\ open' = ~mem.joined
            /\ Count!Fault("call") /\ mem' = [mem EXCEPT !.success = FALSE]
            /\ UNCHANGED <<suspends, signaled, exit>>
  <2>1. /\ Goes(Main, "close", "verdict")
        /\ open' = ~mem.joined
        /\ Fault("call") /\ mem' = [mem EXCEPT !.success = FALSE]
        /\ UNCHANGED signaled
    BY <1>28
  <2>2. ProcessInv' /\ Moved(Main, "verdict")
    BY <1>0, <2>1, Moves DEF ProcessInv
  <2>3. /\ SuspendType' /\ ~mem'.success
        /\ UNCHANGED <<mem.joined, mem.entered, mem.previous, mem.owed>>
    BY <1>0, <2>1 DEF CountedInv, SuspendType
  <2> QED BY <1>0, <2>1, <2>2, <2>3 DEF CountedInv, SuspendType, CleanUp, Only, Verdict
<1>29. CASE Count!Return("verdict", mem.success)
  <2>1. /\ pc[Main] = "verdict" /\ exit = "running"
        /\ exit' = IF mem.success THEN "passed" ELSE "failed"
        /\ UNCHANGED <<pc, suspends, signaled, open, mem, faulted>>
    BY <1>29
  <2>2. ProcessInv'
    BY <2>1, Ends DEF Status
  <2> QED BY <1>0, <2>1, <2>2 DEF CountedInv, SuspendType, CleanUp, Only, Verdict
<1>30. CASE t = "A" /\ Count!CountedWorker(t)
  BY <1>30, CountedWorkerStep
<1> QED BY <1>1, <1>2, <1>3, <1>4, <1>5, <1>6, <1>7, <1>8, <1>9, <1>10, <1>11, <1>12,
         <1>13, <1>14, <1>15, <1>16, <1>17, <1>18, <1>19, <1>20, <1>21, <1>22, <1>23,
         <1>24, <1>25, <1>26, <1>27, <1>28, <1>29, <1>30 DEF Count!Counted,
         Count!CountMain, Count!CallAborts, Count!AwaitOrAbort, Count!PayOwed,
         Count!Join, Count!CloseJoined

-----------------------------------------------------------------------------
(* The steps of Contention *)

\* The owner obtains the mutex and keeps it until main releases it.
LEMMA OwnerStep ==
  ASSUME ProcessInv, ContendedInv, UNCHANGED program, Mutex!OwnerMain("A")
  PROVE  ProcessInv' /\ ContendedInv'
<1> USE DEF Mutex!Go, Mutex!At, Mutex!Running, Mutex!Call, Mutex!others, Mutex!Store,
    Mutex!SignalEvent, Mutex!Await, Mutex!Satisfied, Mutex!Worker, Mutex!Ended,
    Mutex!Fault, Mutex!Fails, Fault, Ended, Main, Pair, Mutex!Pair, Mutex!Aborted,
    Alive, Moved, Faulty, NoFault, Goes
<1>0. /\ "A" \in Worker /\ "B" \in Worker /\ "A" \in Thread /\ "B" \in Thread
      /\ Main \in Thread
      /\ Worker \subseteq Thread /\ Worker = {"A", "B", "C"}
      /\ signaled \cap Worker = {}
      /\ 0 \in Nat /\ mem.value \in 0..3 /\ 1 \in 0..3 /\ 2 \in 0..3 /\ 3 \in 0..3
      /\ mem.owner \in Pair \cup {"nobody"} /\ mem.success \in BOOLEAN
      /\ MutexType /\ Only(Pair) /\ Verdict(Pair, mem.value = 3 /\ mem.owner = "nobody")
      /\ CleanUp(Pair) /\ OwnerInv /\ PhaseInv /\ JoinedInv
  BY DEF ProcessInv, Thread, Worker, ContendedInv, MutexType
<1>1. CASE Mutex!Obtain("A", "begin", "acquire")
  <2>1. PICK b \in BOOLEAN : b = Mutex!Abandoned
    BY DEF Mutex!Abandoned
  <2>2. /\ pc["A"] = "begin" /\ exit = "running" /\ pc' = [pc EXCEPT !["A"] =
             (IF b THEN "release" ELSE "acquire")]
        /\ mem' = [mem EXCEPT !.owner = "A", !.abandoned["A"] = b]
        /\ UNCHANGED <<suspends, signaled, open, exit, faulted>>
    BY <1>1, <2>1 DEF Mutex!Obtain
  <2>3. IF b THEN mem.owner \in Pair \ {"A"} /\ Ended(mem.owner) /\ faulted # {}
             ELSE mem.owner = "nobody"
    BY <1>0, <1>1, <2>1, <2>2 DEF Mutex!Obtain, Mutex!Obtainable, Mutex!Abandoned,
       Mutex!Nobody, OwnerInv
  <2>4. ProcessInv' /\ Moved("A", (IF b THEN "release" ELSE "acquire"))
    BY <1>0, <2>2, Moves DEF ProcessInv
  <2>5. MutexType' /\ mem'.owner = "A"
        /\ UNCHANGED <<mem.success, mem.joined, mem.value, mem.acquired>>
    BY <1>0, <2>2 DEF MutexType
  <2>6. MutexType' /\ Only(Pair)'
    BY <1>0, <2>1, <2>2, <2>3, <2>4, <2>5 DEF MutexType, Only
  <2>7. Verdict(Pair, mem.value = 3 /\ mem.owner = "nobody")'
    BY <1>0, <2>1, <2>2, <2>3, <2>4, <2>5 DEF Verdict
  <2>8. CleanUp(Pair)'
    BY <1>0, <2>1, <2>2, <2>3, <2>4, <2>5 DEF CleanUp, JoinedInv, OwnerInv, PhaseInv
  <2>9. OwnerInv'
    BY <1>0, <2>1, <2>2, <2>3, <2>4, <2>5 DEF OwnerInv, PhaseInv
  <2>10. PhaseInv'
    BY <1>0, <2>1, <2>2, <2>3, <2>4, <2>5 DEF PhaseInv, OwnerInv, JoinedInv, CleanUp,
       Waiting
  <2>11. JoinedInv'
    BY <1>0, <2>1, <2>2, <2>3, <2>4, <2>5 DEF JoinedInv, CleanUp, OwnerInv
  <2> QED BY <2>4, <2>6, <2>7, <2>8, <2>9, <2>10, <2>11 DEF ContendedInv
<1>2. CASE Mutex!Store("A", "acquire", [mem EXCEPT !.acquired["A"] = TRUE, !.value = 1],
           "announce")
  <2>1. /\ Goes("A", "acquire", "announce")
        /\ mem' = [mem EXCEPT !.acquired["A"] = TRUE, !.value = 1]
        /\ UNCHANGED <<signaled, open, faulted>>
    BY <1>2
  <2>2. ProcessInv' /\ Moved("A", "announce")
    BY <1>0, <2>1, Moves DEF ProcessInv
  <2>3. MutexType' /\ mem'.acquired["A"] /\ mem'.acquired["B"] = mem.acquired["B"]
        /\ mem'.value = 1
        /\ UNCHANGED <<mem.success, mem.joined, mem.owner>>
    BY <1>0, <2>1 DEF MutexType
  <2>4. MutexType' /\ Only(Pair)'
    BY <1>0, <2>1, <2>2, <2>3 DEF MutexType, Only
  <2>5. Verdict(Pair, mem.value = 3 /\ mem.owner = "nobody")'
    BY <1>0, <2>1, <2>2, <2>3 DEF Verdict
  <2>6. CleanUp(Pair)'
    BY <1>0, <2>1, <2>2, <2>3 DEF CleanUp, JoinedInv, OwnerInv, PhaseInv
  <2>7. OwnerInv'
    BY <1>0, <2>1, <2>2, <2>3 DEF OwnerInv, PhaseInv
  <2>8. PhaseInv'
    BY <1>0, <2>1, <2>2, <2>3 DEF PhaseInv, OwnerInv, JoinedInv, CleanUp, Waiting
  <2>9. JoinedInv'
    BY <1>0, <2>1, <2>2, <2>3 DEF JoinedInv, CleanUp, OwnerInv
  <2> QED BY <2>2, <2>4, <2>5, <2>6, <2>7, <2>8, <2>9 DEF ContendedInv
<1>3. CASE Mutex!SignalEvent("A", "announce", "ownerOwns", "gate")
  <2>1. /\ Goes("A", "announce", "gate")
        /\ signaled' = signaled \cup {"ownerOwns"}
        /\ UNCHANGED <<open, mem, faulted>>
    BY <1>3
  <2>2. ProcessInv' /\ Moved("A", "gate")
    BY <1>0, <2>1, Moves DEF ProcessInv
  <2>3. MutexType' /\ Only(Pair)'
    BY <1>0, <2>1, <2>2 DEF MutexType, Only
  <2>4. Verdict(Pair, mem.value = 3 /\ mem.owner = "nobody")'
    BY <1>0, <2>1, <2>2 DEF Verdict
  <2>5. CleanUp(Pair)'
    BY <1>0, <2>1, <2>2 DEF CleanUp, JoinedInv, OwnerInv, PhaseInv
  <2>6. OwnerInv'
    BY <1>0, <2>1, <2>2 DEF OwnerInv, PhaseInv
  <2>7. PhaseInv'
    BY <1>0, <2>1, <2>2 DEF PhaseInv, OwnerInv, JoinedInv, CleanUp, Waiting
  <2>8. JoinedInv'
    BY <1>0, <2>1, <2>2 DEF JoinedInv, CleanUp, OwnerInv
  <2> QED BY <2>2, <2>3, <2>4, <2>5, <2>6, <2>7, <2>8 DEF ContendedInv
<1>4. CASE Mutex!Aborted /\ Mutex!Call("A", "gate", "release")
  <2>1. /\ Goes("A", "gate", "release")
        /\ UNCHANGED <<signaled, open, mem, faulted>>
        /\ "abort" \in signaled
    BY <1>4
  <2>2. ProcessInv' /\ Moved("A", "release")
    BY <1>0, <2>1, Moves DEF ProcessInv
  <2>3. MutexType' /\ Only(Pair)'
    BY <1>0, <2>1, <2>2 DEF MutexType, Only
  <2>4. Verdict(Pair, mem.value = 3 /\ mem.owner = "nobody")'
    BY <1>0, <2>1, <2>2 DEF Verdict
  <2>5. CleanUp(Pair)'
    BY <1>0, <2>1, <2>2 DEF CleanUp, JoinedInv, OwnerInv, PhaseInv
  <2>6. OwnerInv'
    BY <1>0, <2>1, <2>2 DEF OwnerInv, PhaseInv
  <2>7. PhaseInv'
    BY <1>0, <2>1, <2>2 DEF PhaseInv, OwnerInv, JoinedInv, CleanUp, Waiting
  <2>8. JoinedInv'
    BY <1>0, <2>1, <2>2 DEF JoinedInv, CleanUp, OwnerInv
  <2> QED BY <2>2, <2>3, <2>4, <2>5, <2>6, <2>7, <2>8 DEF ContendedInv
<1>5. CASE ~Mutex!Aborted /\ Mutex!Await("A", "gate", {"releaseOwner"}, "write")
  <2>1. /\ Goes("A", "gate", "write")
        /\ UNCHANGED <<signaled, open, mem, faulted>>
        /\ "releaseOwner" \in signaled /\ "abort" \notin signaled
    BY <1>5, <1>0
  <2>2. ProcessInv' /\ Moved("A", "write")
    BY <1>0, <2>1, Moves DEF ProcessInv
  <2>3. MutexType' /\ Only(Pair)'
    BY <1>0, <2>1, <2>2 DEF MutexType, Only
  <2>4. Verdict(Pair, mem.value = 3 /\ mem.owner = "nobody")'
    BY <1>0, <2>1, <2>2 DEF Verdict
  <2>5. CleanUp(Pair)'
    BY <1>0, <2>1, <2>2 DEF CleanUp, JoinedInv, OwnerInv, PhaseInv
  <2>6. OwnerInv'
    BY <1>0, <2>1, <2>2 DEF OwnerInv, PhaseInv
  <2>7. PhaseInv'
    BY <1>0, <2>1, <2>2 DEF PhaseInv, OwnerInv, JoinedInv, CleanUp, Waiting
  <2>8. JoinedInv'
    BY <1>0, <2>1, <2>2 DEF JoinedInv, CleanUp, OwnerInv
  <2> QED BY <2>2, <2>3, <2>4, <2>5, <2>6, <2>7, <2>8 DEF ContendedInv
<1> DEFINE Failing(from, to) ==
      \/ from \in {"begin", "unlock", "release"} /\ to = "abort"
      \/ from \in {"announce", "gate"} /\ to = "release"
      \/ from = "abort" /\ to = "failed"
<1>6. ASSUME NEW from, NEW to, NEW f, Failing(from, to),
             from = "gate" => f = "slow",
             Mutex!Fails("A", from, f, to)
      PROVE  ProcessInv' /\ ContendedInv'
  <2>1. /\ Goes("A", from, to)
        /\ Fault(f)
        /\ UNCHANGED <<signaled, open, mem>>
        /\ Failing(from, to)
        /\ (from = "gate" => f = "slow")
    BY <1>6
  <2>2. ProcessInv' /\ Moved("A", to)
    BY <1>0, <2>1, Moves DEF ProcessInv
  <2>3. MutexType' /\ Only(Pair)'
    BY <1>0, <2>1, <2>2 DEF MutexType, Only
  <2>4. Verdict(Pair, mem.value = 3 /\ mem.owner = "nobody")'
    BY <1>0, <2>1, <2>2 DEF Verdict
  <2>5. CleanUp(Pair)'
    BY <1>0, <2>1, <2>2 DEF CleanUp, JoinedInv, OwnerInv, PhaseInv
  <2>6. OwnerInv'
    BY <1>0, <2>1, <2>2 DEF OwnerInv, PhaseInv
  <2>7. PhaseInv'
    BY <1>0, <2>1, <2>2 DEF PhaseInv, OwnerInv, JoinedInv, CleanUp, Waiting
  <2>8. JoinedInv'
    BY <1>0, <2>1, <2>2 DEF JoinedInv, CleanUp, OwnerInv
  <2> QED BY <2>2, <2>3, <2>4, <2>5, <2>6, <2>7, <2>8 DEF ContendedInv
<1>7. CASE Mutex!Store("A", "write", [mem EXCEPT !.value = 2], "unlock")
  <2>1. /\ Goes("A", "write", "unlock")
        /\ mem' = [mem EXCEPT !.value = 2]
        /\ UNCHANGED <<signaled, open, faulted>>
    BY <1>7
  <2>2. ProcessInv' /\ Moved("A", "unlock")
    BY <1>0, <2>1, Moves DEF ProcessInv
  <2>3. MutexType' /\ mem'.value = 2
        /\ UNCHANGED <<mem.success, mem.joined, mem.owner, mem.acquired>>
    BY <1>0, <2>1 DEF MutexType
  <2>4. /\ mem.owner = "A"
        /\ pc["B"] \notin {"acquire", "write", "unlock", "release", "done"}
    BY <1>0, <2>1 DEF OwnerInv
  <2>5. MutexType' /\ Only(Pair)'
    BY <1>0, <2>1, <2>2, <2>3, <2>4 DEF MutexType, Only
  <2>6. Verdict(Pair, mem.value = 3 /\ mem.owner = "nobody")'
    BY <1>0, <2>1, <2>2, <2>3, <2>4 DEF Verdict
  <2>7. CleanUp(Pair)'
    BY <1>0, <2>1, <2>2, <2>3, <2>4 DEF CleanUp, JoinedInv, OwnerInv, PhaseInv
  <2>8. OwnerInv'
    BY <1>0, <2>1, <2>2, <2>3, <2>4 DEF OwnerInv, PhaseInv
  <2>9. PhaseInv'
    BY <1>0, <2>1, <2>2, <2>3, <2>4 DEF PhaseInv, OwnerInv, JoinedInv, CleanUp, Waiting
  <2>10. JoinedInv'
    BY <1>0, <2>1, <2>2, <2>3, <2>4 DEF JoinedInv, CleanUp, OwnerInv
  <2> QED BY <2>2, <2>5, <2>6, <2>7, <2>8, <2>9, <2>10 DEF ContendedInv
<1>8. CASE Mutex!Store("A", "unlock", [mem EXCEPT !.owner = Mutex!Nobody], "done")
  <2>1. /\ Goes("A", "unlock", "done")
        /\ mem' = [mem EXCEPT !.owner = "nobody"]
        /\ UNCHANGED <<signaled, open, faulted>>
    BY <1>8 DEF Mutex!Nobody
  <2>2. ProcessInv' /\ Moved("A", "done")
    BY <1>0, <2>1, Moves DEF ProcessInv
  <2>3. MutexType' /\ mem'.owner = "nobody"
        /\ UNCHANGED <<mem.success, mem.joined, mem.value, mem.acquired>>
    BY <1>0, <2>1 DEF MutexType
  <2>4. MutexType' /\ Only(Pair)'
    BY <1>0, <2>1, <2>2, <2>3 DEF MutexType, Only
  <2>5. Verdict(Pair, mem.value = 3 /\ mem.owner = "nobody")'
    BY <1>0, <2>1, <2>2, <2>3 DEF Verdict
  <2>6. CleanUp(Pair)'
    BY <1>0, <2>1, <2>2, <2>3 DEF CleanUp, JoinedInv, OwnerInv, PhaseInv
  <2>7. OwnerInv'
    BY <1>0, <2>1, <2>2, <2>3 DEF OwnerInv, PhaseInv
  <2>8. PhaseInv'
    BY <1>0, <2>1, <2>2, <2>3 DEF PhaseInv, OwnerInv, JoinedInv, CleanUp, Waiting
  <2>9. JoinedInv'
    BY <1>0, <2>1, <2>2, <2>3 DEF JoinedInv, CleanUp, OwnerInv
  <2> QED BY <2>2, <2>4, <2>5, <2>6, <2>7, <2>8, <2>9 DEF ContendedInv
<1>9. CASE Mutex!Store("A", "release", [mem EXCEPT !.owner = Mutex!Nobody], "abort")
  <2>1. /\ Goes("A", "release", "abort")
        /\ mem' = [mem EXCEPT !.owner = "nobody"]
        /\ UNCHANGED <<signaled, open, faulted>>
    BY <1>9 DEF Mutex!Nobody
  <2>2. ProcessInv' /\ Moved("A", "abort")
    BY <1>0, <2>1, Moves DEF ProcessInv
  <2>3. MutexType' /\ mem'.owner = "nobody"
        /\ UNCHANGED <<mem.success, mem.joined, mem.value, mem.acquired>>
    BY <1>0, <2>1 DEF MutexType
  <2>4. MutexType' /\ Only(Pair)'
    BY <1>0, <2>1, <2>2, <2>3 DEF MutexType, Only
  <2>5. Verdict(Pair, mem.value = 3 /\ mem.owner = "nobody")'
    BY <1>0, <2>1, <2>2, <2>3 DEF Verdict
  <2>6. CleanUp(Pair)'
    BY <1>0, <2>1, <2>2, <2>3 DEF CleanUp, JoinedInv, OwnerInv, PhaseInv
  <2>7. OwnerInv'
    BY <1>0, <2>1, <2>2, <2>3 DEF OwnerInv, PhaseInv
  <2>8. PhaseInv'
    BY <1>0, <2>1, <2>2, <2>3 DEF PhaseInv, OwnerInv, JoinedInv, CleanUp, Waiting
  <2>9. JoinedInv'
    BY <1>0, <2>1, <2>2, <2>3 DEF JoinedInv, CleanUp, OwnerInv
  <2> QED BY <2>2, <2>4, <2>5, <2>6, <2>7, <2>8, <2>9 DEF ContendedInv
<1>10. CASE Mutex!SignalEvent("A", "abort", "abort", "failed")
  <2>1. /\ Goes("A", "abort", "failed")
        /\ signaled' = signaled \cup {"abort"}
        /\ UNCHANGED <<open, mem, faulted>>
    BY <1>10
  <2>2. ProcessInv' /\ Moved("A", "failed")
    BY <1>0, <2>1, Moves DEF ProcessInv
  <2>3. MutexType' /\ Only(Pair)'
    BY <1>0, <2>1, <2>2 DEF MutexType, Only
  <2>4. Verdict(Pair, mem.value = 3 /\ mem.owner = "nobody")'
    BY <1>0, <2>1, <2>2 DEF Verdict
  <2>5. CleanUp(Pair)'
    BY <1>0, <2>1, <2>2 DEF CleanUp, JoinedInv, OwnerInv, PhaseInv
  <2>6. OwnerInv'
    BY <1>0, <2>1, <2>2 DEF OwnerInv, PhaseInv
  <2>7. PhaseInv'
    BY <1>0, <2>1, <2>2 DEF PhaseInv, OwnerInv, JoinedInv, CleanUp, Waiting
  <2>8. JoinedInv'
    BY <1>0, <2>1, <2>2 DEF JoinedInv, CleanUp, OwnerInv
  <2> QED BY <2>2, <2>3, <2>4, <2>5, <2>6, <2>7, <2>8 DEF ContendedInv
<1> HIDE DEF Mutex!Go, Mutex!At, Mutex!Running, Mutex!Call, Mutex!others, Mutex!Store,
    Mutex!SignalEvent, Mutex!Await, Mutex!Satisfied, Mutex!Worker, Mutex!Ended,
    Mutex!Fault, Mutex!Fails
<1> QED BY <1>1, <1>2, <1>3, <1>4, <1>5, <1>6, <1>7, <1>8, <1>9, <1>10 DEF
           Mutex!OwnerMain, Mutex!EventOrAbort, Mutex!WriteValue, Mutex!ReleaseMutex,
           Mutex!WorkerFailure, Mutex!WorkerFails

\* The contender finds the mutex owned, and obtains it once it is released.
LEMMA ContenderStep ==
  ASSUME ProcessInv, ContendedInv, UNCHANGED program, Mutex!ContenderMain("B")
  PROVE  ProcessInv' /\ ContendedInv'
<1> USE DEF Mutex!Go, Mutex!At, Mutex!Running, Mutex!Call, Mutex!others, Mutex!Store,
    Mutex!SignalEvent, Mutex!Await, Mutex!Satisfied, Mutex!Worker, Mutex!Ended,
    Mutex!Fault, Mutex!Fails, Fault, Ended, Main, Pair, Mutex!Pair, Mutex!Aborted,
    Alive, Moved, Faulty, NoFault, Goes
<1>0. /\ "A" \in Worker /\ "B" \in Worker /\ "A" \in Thread /\ "B" \in Thread
      /\ Main \in Thread
      /\ Worker \subseteq Thread /\ Worker = {"A", "B", "C"}
      /\ signaled \cap Worker = {}
      /\ 0 \in Nat /\ mem.value \in 0..3 /\ 1 \in 0..3 /\ 2 \in 0..3 /\ 3 \in 0..3
      /\ mem.owner \in Pair \cup {"nobody"} /\ mem.success \in BOOLEAN
      /\ MutexType /\ Only(Pair) /\ Verdict(Pair, mem.value = 3 /\ mem.owner = "nobody")
      /\ CleanUp(Pair) /\ OwnerInv /\ PhaseInv /\ JoinedInv
  BY DEF ProcessInv, Thread, Worker, ContendedInv, MutexType
<1>1. CASE ~Mutex!Aborted /\ Mutex!Await("B", "begin", {"ownerOwns"}, "ready")
  <2>1. /\ Goes("B", "begin", "ready")
        /\ UNCHANGED <<signaled, open, mem, faulted>>
        /\ "ownerOwns" \in signaled /\ "abort" \notin signaled
    BY <1>1, <1>0
  <2>2. ProcessInv' /\ Moved("B", "ready")
    BY <1>0, <2>1, Moves DEF ProcessInv
  <2>3. MutexType' /\ Only(Pair)'
    BY <1>0, <2>1, <2>2 DEF MutexType, Only
  <2>4. Verdict(Pair, mem.value = 3 /\ mem.owner = "nobody")'
    BY <1>0, <2>1, <2>2 DEF Verdict
  <2>5. CleanUp(Pair)'
    BY <1>0, <2>1, <2>2 DEF CleanUp, JoinedInv, OwnerInv, PhaseInv
  <2>6. OwnerInv'
    BY <1>0, <2>1, <2>2 DEF OwnerInv, PhaseInv
  <2>7. PhaseInv'
    BY <1>0, <2>1, <2>2 DEF PhaseInv, OwnerInv, JoinedInv, CleanUp, Waiting
  <2>8. JoinedInv'
    BY <1>0, <2>1, <2>2 DEF JoinedInv, CleanUp, OwnerInv
  <2> QED BY <2>2, <2>3, <2>4, <2>5, <2>6, <2>7, <2>8 DEF ContendedInv
<1> DEFINE Aborting(from, to) == \/ from \in {"begin", "try", "gate"} /\ to = "abort"
<1>2. ASSUME NEW from, NEW to, Aborting(from, to),
             Mutex!Aborted, Mutex!Call("B", from, to)
      PROVE  ProcessInv' /\ ContendedInv'
  <2>1. /\ Goes("B", from, to)
        /\ UNCHANGED <<signaled, open, mem, faulted>>
        /\ Aborting(from, to)
        /\ "abort" \in signaled
    BY <1>2
  <2>2. ProcessInv' /\ Moved("B", to)
    BY <1>0, <2>1, Moves DEF ProcessInv
  <2>3. MutexType' /\ Only(Pair)'
    BY <1>0, <2>1, <2>2 DEF MutexType, Only
  <2>4. Verdict(Pair, mem.value = 3 /\ mem.owner = "nobody")'
    BY <1>0, <2>1, <2>2 DEF Verdict
  <2>5. CleanUp(Pair)'
    BY <1>0, <2>1, <2>2 DEF CleanUp, JoinedInv, OwnerInv, PhaseInv
  <2>6. OwnerInv'
    BY <1>0, <2>1, <2>2 DEF OwnerInv, PhaseInv
  <2>7. PhaseInv'
    BY <1>0, <2>1, <2>2 DEF PhaseInv, OwnerInv, JoinedInv, CleanUp, Waiting
  <2>8. JoinedInv'
    BY <1>0, <2>1, <2>2 DEF JoinedInv, CleanUp, OwnerInv
  <2> QED BY <2>2, <2>3, <2>4, <2>5, <2>6, <2>7, <2>8 DEF ContendedInv
<1> DEFINE Failing(from, to) ==
      \/ from \in {"begin", "ready", "observed",
                   "gate", "unlock", "release"} /\ to = "abort"
      \/ from = "abort" /\ to = "failed"
<1>3. ASSUME NEW from, NEW to, NEW f, Failing(from, to),
             from = "gate" => f = "slow",
             Mutex!Fails("B", from, f, to)
      PROVE  ProcessInv' /\ ContendedInv'
  <2>1. /\ Goes("B", from, to)
        /\ Fault(f)
        /\ UNCHANGED <<signaled, open, mem>>
        /\ Failing(from, to)
        /\ (from = "gate" => f = "slow")
    BY <1>3
  <2>2. ProcessInv' /\ Moved("B", to)
    BY <1>0, <2>1, Moves DEF ProcessInv
  <2>3. MutexType' /\ Only(Pair)'
    BY <1>0, <2>1, <2>2 DEF MutexType, Only
  <2>4. Verdict(Pair, mem.value = 3 /\ mem.owner = "nobody")'
    BY <1>0, <2>1, <2>2 DEF Verdict
  <2>5. CleanUp(Pair)'
    BY <1>0, <2>1, <2>2 DEF CleanUp, JoinedInv, OwnerInv, PhaseInv
  <2>6. OwnerInv'
    BY <1>0, <2>1, <2>2 DEF OwnerInv, PhaseInv
  <2>7. PhaseInv'
    BY <1>0, <2>1, <2>2 DEF PhaseInv, OwnerInv, JoinedInv, CleanUp, Waiting
  <2>8. JoinedInv'
    BY <1>0, <2>1, <2>2 DEF JoinedInv, CleanUp, OwnerInv
  <2> QED BY <2>2, <2>3, <2>4, <2>5, <2>6, <2>7, <2>8 DEF ContendedInv
<1>4. CASE Mutex!SignalEvent("B", "ready", "contenderReady", "try")
  <2>1. /\ Goes("B", "ready", "try")
        /\ signaled' = signaled \cup {"contenderReady"}
        /\ UNCHANGED <<open, mem, faulted>>
    BY <1>4
  <2>2. ProcessInv' /\ Moved("B", "try")
    BY <1>0, <2>1, Moves DEF ProcessInv
  <2>3. MutexType' /\ Only(Pair)'
    BY <1>0, <2>1, <2>2 DEF MutexType, Only
  <2>4. Verdict(Pair, mem.value = 3 /\ mem.owner = "nobody")'
    BY <1>0, <2>1, <2>2 DEF Verdict
  <2>5. CleanUp(Pair)'
    BY <1>0, <2>1, <2>2 DEF CleanUp, JoinedInv, OwnerInv, PhaseInv
  <2>6. OwnerInv'
    BY <1>0, <2>1, <2>2 DEF OwnerInv, PhaseInv
  <2>7. PhaseInv'
    BY <1>0, <2>1, <2>2 DEF PhaseInv, OwnerInv, JoinedInv, CleanUp, Waiting
  <2>8. JoinedInv'
    BY <1>0, <2>1, <2>2 DEF JoinedInv, CleanUp, OwnerInv
  <2> QED BY <2>2, <2>3, <2>4, <2>5, <2>6, <2>7, <2>8 DEF ContendedInv
<1>5. CASE ~Mutex!Aborted /\ Mutex!Obtain("B", "try", "release")
  <2>1. PICK b \in BOOLEAN : b = Mutex!Abandoned
    BY DEF Mutex!Abandoned
  <2>2. /\ pc["B"] = "try" /\ exit = "running" /\ pc' = [pc EXCEPT !["B"] = "release"]
        /\ mem' = [mem EXCEPT !.owner = "B", !.abandoned["B"] = b]
        /\ UNCHANGED <<suspends, signaled, open, exit, faulted>>
        /\ "abort" \notin signaled
    BY <1>5, <2>1 DEF Mutex!Obtain
  <2>3. IF b THEN mem.owner \in Pair \ {"B"} /\ Ended(mem.owner) /\ faulted # {}
             ELSE mem.owner = "nobody"
    BY <1>0, <1>5, <2>1, <2>2 DEF Mutex!Obtain, Mutex!Obtainable, Mutex!Abandoned,
       Mutex!Nobody, OwnerInv
  <2>4. ProcessInv' /\ Moved("B", "release")
    BY <1>0, <2>2, Moves DEF ProcessInv
  <2>5. MutexType' /\ mem'.owner = "B"
        /\ UNCHANGED <<mem.success, mem.joined, mem.value, mem.acquired>>
    BY <1>0, <2>2 DEF MutexType
  <2>6. faulted # {}
    BY <1>0, <2>1, <2>2, <2>3 DEF OwnerInv, PhaseInv, Waiting
  <2>7. MutexType' /\ Only(Pair)'
    BY <1>0, <2>1, <2>2, <2>3, <2>4, <2>5, <2>6 DEF MutexType, Only
  <2>8. Verdict(Pair, mem.value = 3 /\ mem.owner = "nobody")'
    BY <1>0, <2>1, <2>2, <2>3, <2>4, <2>5, <2>6 DEF Verdict
  <2>9. CleanUp(Pair)'
    BY <1>0, <2>1, <2>2, <2>3, <2>4, <2>5, <2>6 DEF CleanUp, JoinedInv, OwnerInv,
       PhaseInv
  <2>10. OwnerInv'
    BY <1>0, <2>1, <2>2, <2>3, <2>4, <2>5, <2>6 DEF OwnerInv, PhaseInv
  <2>11. PhaseInv'
    BY <1>0, <2>1, <2>2, <2>3, <2>4, <2>5, <2>6 DEF PhaseInv, OwnerInv, JoinedInv,
       CleanUp, Waiting
  <2>12. JoinedInv'
    BY <1>0, <2>1, <2>2, <2>3, <2>4, <2>5, <2>6 DEF JoinedInv, CleanUp, OwnerInv
  <2> QED BY <2>4, <2>7, <2>8, <2>9, <2>10, <2>11, <2>12 DEF ContendedInv
<1>6. CASE Mutex!Call("B", "try", "observed") /\ ~Mutex!Aborted /\ ~Mutex!Obtainable
  <2>1. /\ Goes("B", "try", "observed")
        /\ UNCHANGED <<signaled, open, mem, faulted>>
    BY <1>6
  <2>2. ProcessInv' /\ Moved("B", "observed")
    BY <1>0, <2>1, Moves DEF ProcessInv
  <2>3. MutexType' /\ Only(Pair)'
    BY <1>0, <2>1, <2>2 DEF MutexType, Only
  <2>4. Verdict(Pair, mem.value = 3 /\ mem.owner = "nobody")'
    BY <1>0, <2>1, <2>2 DEF Verdict
  <2>5. CleanUp(Pair)'
    BY <1>0, <2>1, <2>2 DEF CleanUp, JoinedInv, OwnerInv, PhaseInv
  <2>6. OwnerInv'
    BY <1>0, <2>1, <2>2 DEF OwnerInv, PhaseInv
  <2>7. PhaseInv'
    BY <1>0, <2>1, <2>2 DEF PhaseInv, OwnerInv, JoinedInv, CleanUp, Waiting
  <2>8. JoinedInv'
    BY <1>0, <2>1, <2>2 DEF JoinedInv, CleanUp, OwnerInv
  <2> QED BY <2>2, <2>3, <2>4, <2>5, <2>6, <2>7, <2>8 DEF ContendedInv
<1>7. CASE Mutex!SignalEvent("B", "observed", "contentionObserved", "gate")
  <2>1. /\ Goes("B", "observed", "gate")
        /\ signaled' = signaled \cup {"contentionObserved"}
        /\ UNCHANGED <<open, mem, faulted>>
    BY <1>7
  <2>2. ProcessInv' /\ Moved("B", "gate")
    BY <1>0, <2>1, Moves DEF ProcessInv
  <2>3. MutexType' /\ Only(Pair)'
    BY <1>0, <2>1, <2>2 DEF MutexType, Only
  <2>4. Verdict(Pair, mem.value = 3 /\ mem.owner = "nobody")'
    BY <1>0, <2>1, <2>2 DEF Verdict
  <2>5. CleanUp(Pair)'
    BY <1>0, <2>1, <2>2 DEF CleanUp, JoinedInv, OwnerInv, PhaseInv
  <2>6. OwnerInv'
    BY <1>0, <2>1, <2>2 DEF OwnerInv, PhaseInv
  <2>7. PhaseInv'
    BY <1>0, <2>1, <2>2 DEF PhaseInv, OwnerInv, JoinedInv, CleanUp, Waiting
  <2>8. JoinedInv'
    BY <1>0, <2>1, <2>2 DEF JoinedInv, CleanUp, OwnerInv
  <2> QED BY <2>2, <2>3, <2>4, <2>5, <2>6, <2>7, <2>8 DEF ContendedInv
<1>8. CASE ~Mutex!Aborted /\ Mutex!Obtain("B", "gate", "acquire")
  <2>1. PICK b \in BOOLEAN : b = Mutex!Abandoned
    BY DEF Mutex!Abandoned
  <2>2. /\ pc["B"] = "gate" /\ exit = "running" /\ pc' = [pc EXCEPT !["B"] = (IF b
             THEN "release" ELSE "acquire")]
        /\ mem' = [mem EXCEPT !.owner = "B", !.abandoned["B"] = b]
        /\ UNCHANGED <<suspends, signaled, open, exit, faulted>>
        /\ "abort" \notin signaled
    BY <1>8, <2>1 DEF Mutex!Obtain
  <2>3. IF b THEN mem.owner \in Pair \ {"B"} /\ Ended(mem.owner) /\ faulted # {}
             ELSE mem.owner = "nobody"
    BY <1>0, <1>8, <2>1, <2>2 DEF Mutex!Obtain, Mutex!Obtainable, Mutex!Abandoned,
       Mutex!Nobody, OwnerInv
  <2>4. ProcessInv' /\ Moved("B", (IF b THEN "release" ELSE "acquire"))
    BY <1>0, <2>2, Moves DEF ProcessInv
  <2>5. MutexType' /\ mem'.owner = "B"
        /\ UNCHANGED <<mem.success, mem.joined, mem.value, mem.acquired>>
    BY <1>0, <2>2 DEF MutexType
  <2>6. MutexType' /\ Only(Pair)'
    BY <1>0, <2>1, <2>2, <2>3, <2>4, <2>5 DEF MutexType, Only
  <2>7. Verdict(Pair, mem.value = 3 /\ mem.owner = "nobody")'
    BY <1>0, <2>1, <2>2, <2>3, <2>4, <2>5 DEF Verdict
  <2>8. CleanUp(Pair)'
    BY <1>0, <2>1, <2>2, <2>3, <2>4, <2>5 DEF CleanUp, JoinedInv, OwnerInv, PhaseInv
  <2>9. OwnerInv'
    BY <1>0, <2>1, <2>2, <2>3, <2>4, <2>5 DEF OwnerInv, PhaseInv
  <2>10. PhaseInv'
    BY <1>0, <2>1, <2>2, <2>3, <2>4, <2>5 DEF PhaseInv, OwnerInv, JoinedInv, CleanUp,
       Waiting
  <2>11. JoinedInv'
    BY <1>0, <2>1, <2>2, <2>3, <2>4, <2>5 DEF JoinedInv, CleanUp, OwnerInv
  <2> QED BY <2>4, <2>6, <2>7, <2>8, <2>9, <2>10, <2>11 DEF ContendedInv
<1>9. CASE Mutex!Store("B", "acquire", [mem EXCEPT !.acquired["B"] = TRUE], IF mem.value
           = 2 THEN "write" ELSE "release")
  <2>1. /\ Goes("B", "acquire", IF mem.value = 2 THEN "write" ELSE "release")
        /\ mem' = [mem EXCEPT !.acquired["B"] = TRUE]
        /\ UNCHANGED <<signaled, open, faulted>>
    BY <1>9
  <2>2. ProcessInv' /\ Moved("B", (IF mem.value = 2 THEN "write" ELSE "release"))
    BY <1>0, <2>1, Moves DEF ProcessInv
  <2>3. MutexType' /\ mem'.acquired["B"] /\ mem'.acquired["A"] = mem.acquired["A"]
        /\ UNCHANGED <<mem.success, mem.joined, mem.owner, mem.value>>
    BY <1>0, <2>1 DEF MutexType
  <2>4. mem.value = 2 \/ faulted # {}
    BY <1>0, <2>1 DEF OwnerInv
  <2>5. MutexType' /\ Only(Pair)'
    BY <1>0, <2>1, <2>2, <2>3, <2>4 DEF MutexType, Only
  <2>6. Verdict(Pair, mem.value = 3 /\ mem.owner = "nobody")'
    BY <1>0, <2>1, <2>2, <2>3, <2>4 DEF Verdict
  <2>7. CleanUp(Pair)'
    BY <1>0, <2>1, <2>2, <2>3, <2>4 DEF CleanUp, JoinedInv, OwnerInv, PhaseInv
  <2>8. OwnerInv'
    BY <1>0, <2>1, <2>2, <2>3, <2>4 DEF OwnerInv, PhaseInv
  <2>9. PhaseInv'
    BY <1>0, <2>1, <2>2, <2>3, <2>4 DEF PhaseInv, OwnerInv, JoinedInv, CleanUp, Waiting
  <2>10. JoinedInv'
    BY <1>0, <2>1, <2>2, <2>3, <2>4 DEF JoinedInv, CleanUp, OwnerInv
  <2> QED BY <2>2, <2>5, <2>6, <2>7, <2>8, <2>9, <2>10 DEF ContendedInv
<1>10. CASE Mutex!Store("B", "write", [mem EXCEPT !.value = 3], "unlock")
  <2>1. /\ Goes("B", "write", "unlock")
        /\ mem' = [mem EXCEPT !.value = 3]
        /\ UNCHANGED <<signaled, open, faulted>>
    BY <1>10
  <2>2. ProcessInv' /\ Moved("B", "unlock")
    BY <1>0, <2>1, Moves DEF ProcessInv
  <2>3. MutexType' /\ mem'.value = 3
        /\ UNCHANGED <<mem.success, mem.joined, mem.owner, mem.acquired>>
    BY <1>0, <2>1 DEF MutexType
  <2>4. MutexType' /\ Only(Pair)'
    BY <1>0, <2>1, <2>2, <2>3 DEF MutexType, Only
  <2>5. Verdict(Pair, mem.value = 3 /\ mem.owner = "nobody")'
    BY <1>0, <2>1, <2>2, <2>3 DEF Verdict
  <2>6. CleanUp(Pair)'
    BY <1>0, <2>1, <2>2, <2>3 DEF CleanUp, JoinedInv, OwnerInv, PhaseInv
  <2>7. OwnerInv'
    BY <1>0, <2>1, <2>2, <2>3 DEF OwnerInv, PhaseInv
  <2>8. PhaseInv'
    BY <1>0, <2>1, <2>2, <2>3 DEF PhaseInv, OwnerInv, JoinedInv, CleanUp, Waiting
  <2>9. JoinedInv'
    BY <1>0, <2>1, <2>2, <2>3 DEF JoinedInv, CleanUp, OwnerInv
  <2> QED BY <2>2, <2>4, <2>5, <2>6, <2>7, <2>8, <2>9 DEF ContendedInv
<1>11. CASE Mutex!Store("B", "unlock", [mem EXCEPT !.owner = Mutex!Nobody], "done")
  <2>1. /\ Goes("B", "unlock", "done")
        /\ mem' = [mem EXCEPT !.owner = "nobody"]
        /\ UNCHANGED <<signaled, open, faulted>>
    BY <1>11 DEF Mutex!Nobody
  <2>2. ProcessInv' /\ Moved("B", "done")
    BY <1>0, <2>1, Moves DEF ProcessInv
  <2>3. MutexType' /\ mem'.owner = "nobody"
        /\ UNCHANGED <<mem.success, mem.joined, mem.value, mem.acquired>>
    BY <1>0, <2>1 DEF MutexType
  <2>4. MutexType' /\ Only(Pair)'
    BY <1>0, <2>1, <2>2, <2>3 DEF MutexType, Only
  <2>5. Verdict(Pair, mem.value = 3 /\ mem.owner = "nobody")'
    BY <1>0, <2>1, <2>2, <2>3 DEF Verdict
  <2>6. CleanUp(Pair)'
    BY <1>0, <2>1, <2>2, <2>3 DEF CleanUp, JoinedInv, OwnerInv, PhaseInv
  <2>7. OwnerInv'
    BY <1>0, <2>1, <2>2, <2>3 DEF OwnerInv, PhaseInv
  <2>8. PhaseInv'
    BY <1>0, <2>1, <2>2, <2>3 DEF PhaseInv, OwnerInv, JoinedInv, CleanUp, Waiting
  <2>9. JoinedInv'
    BY <1>0, <2>1, <2>2, <2>3 DEF JoinedInv, CleanUp, OwnerInv
  <2> QED BY <2>2, <2>4, <2>5, <2>6, <2>7, <2>8, <2>9 DEF ContendedInv
<1>12. CASE Mutex!Store("B", "release", [mem EXCEPT !.owner = Mutex!Nobody], "abort")
  <2>1. /\ Goes("B", "release", "abort")
        /\ mem' = [mem EXCEPT !.owner = "nobody"]
        /\ UNCHANGED <<signaled, open, faulted>>
    BY <1>12 DEF Mutex!Nobody
  <2>2. ProcessInv' /\ Moved("B", "abort")
    BY <1>0, <2>1, Moves DEF ProcessInv
  <2>3. MutexType' /\ mem'.owner = "nobody"
        /\ UNCHANGED <<mem.success, mem.joined, mem.value, mem.acquired>>
    BY <1>0, <2>1 DEF MutexType
  <2>4. MutexType' /\ Only(Pair)'
    BY <1>0, <2>1, <2>2, <2>3 DEF MutexType, Only
  <2>5. Verdict(Pair, mem.value = 3 /\ mem.owner = "nobody")'
    BY <1>0, <2>1, <2>2, <2>3 DEF Verdict
  <2>6. CleanUp(Pair)'
    BY <1>0, <2>1, <2>2, <2>3 DEF CleanUp, JoinedInv, OwnerInv, PhaseInv
  <2>7. OwnerInv'
    BY <1>0, <2>1, <2>2, <2>3 DEF OwnerInv, PhaseInv
  <2>8. PhaseInv'
    BY <1>0, <2>1, <2>2, <2>3 DEF PhaseInv, OwnerInv, JoinedInv, CleanUp, Waiting
  <2>9. JoinedInv'
    BY <1>0, <2>1, <2>2, <2>3 DEF JoinedInv, CleanUp, OwnerInv
  <2> QED BY <2>2, <2>4, <2>5, <2>6, <2>7, <2>8, <2>9 DEF ContendedInv
<1>13. CASE Mutex!SignalEvent("B", "abort", "abort", "failed")
  <2>1. /\ Goes("B", "abort", "failed")
        /\ signaled' = signaled \cup {"abort"}
        /\ UNCHANGED <<open, mem, faulted>>
    BY <1>13
  <2>2. ProcessInv' /\ Moved("B", "failed")
    BY <1>0, <2>1, Moves DEF ProcessInv
  <2>3. MutexType' /\ Only(Pair)'
    BY <1>0, <2>1, <2>2 DEF MutexType, Only
  <2>4. Verdict(Pair, mem.value = 3 /\ mem.owner = "nobody")'
    BY <1>0, <2>1, <2>2 DEF Verdict
  <2>5. CleanUp(Pair)'
    BY <1>0, <2>1, <2>2 DEF CleanUp, JoinedInv, OwnerInv, PhaseInv
  <2>6. OwnerInv'
    BY <1>0, <2>1, <2>2 DEF OwnerInv, PhaseInv
  <2>7. PhaseInv'
    BY <1>0, <2>1, <2>2 DEF PhaseInv, OwnerInv, JoinedInv, CleanUp, Waiting
  <2>8. JoinedInv'
    BY <1>0, <2>1, <2>2 DEF JoinedInv, CleanUp, OwnerInv
  <2> QED BY <2>2, <2>3, <2>4, <2>5, <2>6, <2>7, <2>8 DEF ContendedInv
<1> HIDE DEF Mutex!Go, Mutex!At, Mutex!Running, Mutex!Call, Mutex!others, Mutex!Store,
    Mutex!SignalEvent, Mutex!Await, Mutex!Satisfied, Mutex!Worker, Mutex!Ended,
    Mutex!Fault, Mutex!Fails
<1> QED BY <1>1, <1>2, <1>3, <1>4, <1>5, <1>6, <1>7, <1>8, <1>9, <1>10, <1>11, <1>12,
         <1>13 DEF Mutex!ContenderMain, Mutex!EventOrAbort, Mutex!WriteValue,
         Mutex!ReleaseMutex, Mutex!WorkerFailure, Mutex!WorkerFails

\* The steps of mutex_contention.cpp.
LEMMA ContendedStep ==
  ASSUME ProcessInv, UNCHANGED program, ContendedInv, NEW t \in Thread,
         Mutex!Contended(t)
  PROVE  ProcessInv' /\ ContendedInv'
<1> USE DEF Mutex!Go, Mutex!At, Mutex!Running, Mutex!Call, Mutex!others, Mutex!Store,
    Mutex!SignalEvent, Mutex!Await, Mutex!Satisfied, Mutex!Worker, Mutex!Main,
    Mutex!Ended, Mutex!Fault, Mutex!Fails, Mutex!EndProcess, Mutex!Return,
    Mutex!CreateThread, Mutex!Alive, Mutex!StepFails, Mutex!SignalAnyway, Fault, Ended,
    Main, Pair, Mutex!Aborted, Alive, Moved, Faulty, NoFault, Goes
<1>0. /\ "A" \in Worker /\ "B" \in Worker /\ "A" \in Thread /\ "B" \in Thread
      /\ Main \in Thread
      /\ Worker \subseteq Thread /\ Worker = {"A", "B", "C"}
      /\ signaled \cap Worker = {}
      /\ 0 \in Nat /\ mem.value \in 0..3 /\ 1 \in 0..3 /\ 2 \in 0..3 /\ 3 \in 0..3
      /\ mem.owner \in Pair \cup {"nobody"} /\ mem.success \in BOOLEAN
      /\ MutexType /\ Only(Pair) /\ Verdict(Pair, mem.value = 3 /\ mem.owner = "nobody")
      /\ CleanUp(Pair) /\ OwnerInv /\ PhaseInv /\ JoinedInv
  BY DEF ProcessInv, Thread, Worker, ContendedInv, MutexType
<1>1. CASE Mutex!CreateThread("create", "A", 0, "nameA")
  <2>1. /\ pc[Main] = "create" /\ exit = "running" /\ suspends[Main] = 0
        /\ pc' = [pc EXCEPT ![Main] = "nameA", !["A"] = "begin"]
        /\ suspends' = [suspends EXCEPT !["A"] = 0]
        /\ UNCHANGED <<signaled, open, mem, exit, faulted>>
    BY <1>1
  <2>2. suspends' \in [Thread -> Nat] /\ suspends'["A"] = 0
    BY <1>0, <2>1 DEF ProcessInv
  <2>3. /\ ProcessInv' /\ pc'[Main] = "nameA" /\ pc'["A"] = "begin"
        /\ \A u \in Thread \ {Main, "A"} : pc'[u] = pc[u]
    BY <1>0, <2>1, <2>2, Creates
  <2>4. pc["A"] = "none" /\ "ownerOwns" \notin signaled
    BY <1>0, <2>1 DEF JoinedInv, OwnerInv, PhaseInv
  <2>5. pc'["B"] = pc["B"] /\ pc'["C"] = pc["C"]
    BY <2>3 DEF Thread, Main, Worker
  <2>6. MutexType' /\ Only(Pair)'
    BY <1>0, <2>1, <2>2, <2>3, <2>4, <2>5 DEF MutexType, Only
  <2>7. Verdict(Pair, mem.value = 3 /\ mem.owner = "nobody")'
    BY <1>0, <2>1, <2>2, <2>3, <2>4, <2>5 DEF Verdict
  <2>8. CleanUp(Pair)'
    BY <1>0, <2>1, <2>2, <2>3, <2>4, <2>5 DEF CleanUp, JoinedInv, OwnerInv, PhaseInv
  <2>9. OwnerInv'
    BY <1>0, <2>1, <2>2, <2>3, <2>4, <2>5 DEF OwnerInv, PhaseInv
  <2>10. PhaseInv'
    BY <1>0, <2>1, <2>2, <2>3, <2>4, <2>5 DEF PhaseInv, OwnerInv, JoinedInv, CleanUp,
       Waiting
  <2>11. JoinedInv'
    BY <1>0, <2>1, <2>2, <2>3, <2>4, <2>5 DEF JoinedInv, CleanUp, OwnerInv
  <2> QED BY <2>3, <2>6, <2>7, <2>8, <2>9, <2>10, <2>11 DEF ContendedInv
<1>2. CASE Mutex!CreateThread("createB", "B", 0, "nameB")
  <2>1. /\ pc[Main] = "createB" /\ exit = "running" /\ suspends[Main] = 0
        /\ pc' = [pc EXCEPT ![Main] = "nameB", !["B"] = "begin"]
        /\ suspends' = [suspends EXCEPT !["B"] = 0]
        /\ UNCHANGED <<signaled, open, mem, exit, faulted>>
    BY <1>2
  <2>2. suspends' \in [Thread -> Nat] /\ suspends'["B"] = 0
    BY <1>0, <2>1 DEF ProcessInv
  <2>3. /\ ProcessInv' /\ pc'[Main] = "nameB" /\ pc'["B"] = "begin"
        /\ \A u \in Thread \ {Main, "B"} : pc'[u] = pc[u]
    BY <1>0, <2>1, <2>2, Creates
  <2>4. pc["B"] = "none" /\ "contentionObserved" \notin signaled
        /\ "ownerOwns" \in signaled
    BY <1>0, <2>1 DEF JoinedInv, OwnerInv, PhaseInv
  <2>5. pc'["A"] = pc["A"] /\ pc'["C"] = pc["C"]
    BY <2>3 DEF Thread, Main, Worker
  <2>6. MutexType' /\ Only(Pair)'
    BY <1>0, <2>1, <2>2, <2>3, <2>4, <2>5 DEF MutexType, Only
  <2>7. Verdict(Pair, mem.value = 3 /\ mem.owner = "nobody")'
    BY <1>0, <2>1, <2>2, <2>3, <2>4, <2>5 DEF Verdict
  <2>8. CleanUp(Pair)'
    BY <1>0, <2>1, <2>2, <2>3, <2>4, <2>5 DEF CleanUp, JoinedInv, OwnerInv, PhaseInv
  <2>9. OwnerInv'
    BY <1>0, <2>1, <2>2, <2>3, <2>4, <2>5 DEF OwnerInv, PhaseInv
  <2>10. PhaseInv'
    BY <1>0, <2>1, <2>2, <2>3, <2>4, <2>5 DEF PhaseInv, OwnerInv, JoinedInv, CleanUp,
       Waiting
  <2>11. JoinedInv'
    BY <1>0, <2>1, <2>2, <2>3, <2>4, <2>5 DEF JoinedInv, CleanUp, OwnerInv
  <2> QED BY <2>3, <2>6, <2>7, <2>8, <2>9, <2>10, <2>11 DEF ContendedInv
<1> DEFINE Calling(from, to) == \/ from = "nameA" /\ to = "owned"
                                \/ from = "nameB" /\ to = "ready"
                                \/ from = "inspect" /\ to = "release"
<1>3. ASSUME NEW from, NEW to, Calling(from, to),
             Mutex!Call(Main, from, to)
      PROVE  ProcessInv' /\ ContendedInv'
  <2>1. /\ Goes(Main, from, to)
        /\ UNCHANGED <<signaled, open, mem, faulted>>
        /\ Calling(from, to)
    BY <1>3
  <2>2. ProcessInv' /\ Moved(Main, to)
    BY <1>0, <2>1, Moves DEF ProcessInv
  <2>3. MutexType' /\ Only(Pair)'
    BY <1>0, <2>1, <2>2 DEF MutexType, Only
  <2>4. Verdict(Pair, mem.value = 3 /\ mem.owner = "nobody")'
    BY <1>0, <2>1, <2>2 DEF Verdict
  <2>5. CleanUp(Pair)'
    BY <1>0, <2>1, <2>2 DEF CleanUp, JoinedInv, OwnerInv, PhaseInv
  <2>6. OwnerInv'
    BY <1>0, <2>1, <2>2 DEF OwnerInv, PhaseInv
  <2>7. PhaseInv'
    BY <1>0, <2>1, <2>2 DEF PhaseInv, OwnerInv, JoinedInv, CleanUp, Waiting
  <2>8. JoinedInv'
    BY <1>0, <2>1, <2>2 DEF JoinedInv, CleanUp, OwnerInv
  <2> QED BY <2>2, <2>3, <2>4, <2>5, <2>6, <2>7, <2>8 DEF ContendedInv
<1> DEFINE Awaiting(from, event, to) ==
      \/ from = "owned" /\ event = "ownerOwns" /\ to = "createB"
      \/ from = "ready" /\ event = "contenderReady" /\ to = "observed"
      \/ from = "observed" /\ event = "contentionObserved" /\ to = "inspect"
<1>4. ASSUME NEW from, NEW event, NEW to, Awaiting(from, event, to),
             Mutex!Await(Main, from, {event}, to)
      PROVE  ProcessInv' /\ ContendedInv'
  <2>1. /\ Goes(Main, from, to)
        /\ UNCHANGED <<signaled, open, mem, faulted>>
        /\ Awaiting(from, event, to)
        /\ event \in signaled
    BY <1>4, <1>0
  <2>2. ProcessInv' /\ Moved(Main, to)
    BY <1>0, <2>1, Moves DEF ProcessInv
  <2>3. MutexType' /\ Only(Pair)'
    BY <1>0, <2>1, <2>2 DEF MutexType, Only
  <2>4. Verdict(Pair, mem.value = 3 /\ mem.owner = "nobody")'
    BY <1>0, <2>1, <2>2 DEF Verdict
  <2>5. CleanUp(Pair)'
    BY <1>0, <2>1, <2>2 DEF CleanUp, JoinedInv, OwnerInv, PhaseInv
  <2>6. OwnerInv'
    BY <1>0, <2>1, <2>2 DEF OwnerInv, PhaseInv
  <2>7. PhaseInv'
    BY <1>0, <2>1, <2>2 DEF PhaseInv, OwnerInv, JoinedInv, CleanUp, Waiting
  <2>8. JoinedInv'
    BY <1>0, <2>1, <2>2 DEF JoinedInv, CleanUp, OwnerInv
  <2> QED BY <2>2, <2>3, <2>4, <2>5, <2>6, <2>7, <2>8 DEF ContendedInv
<1> DEFINE Giving(from, to) ==
      \/ from \in {"owned", "ready", "observed"} /\ to = "abort"
<1>5. ASSUME NEW from, NEW to, Giving(from, to),
             Mutex!Aborted, NEW next, Mutex!Require(from, FALSE, next, to)
      PROVE  ProcessInv' /\ ContendedInv'
  <2>1. /\ Goes(Main, from, to)
        /\ mem' = [mem EXCEPT !.success = FALSE]
        /\ UNCHANGED <<signaled, open, faulted>>
        /\ Giving(from, to)
        /\ "abort" \in signaled
    BY <1>5 DEF Mutex!Require
  <2>2. ProcessInv' /\ Moved(Main, to)
    BY <1>0, <2>1, Moves DEF ProcessInv
  <2>3. MutexType' /\ ~mem'.success
        /\ UNCHANGED <<mem.joined, mem.owner, mem.value, mem.acquired>>
    BY <1>0, <2>1 DEF MutexType
  <2>4. MutexType' /\ Only(Pair)'
    BY <1>0, <2>1, <2>2, <2>3 DEF MutexType, Only
  <2>5. Verdict(Pair, mem.value = 3 /\ mem.owner = "nobody")'
    BY <1>0, <2>1, <2>2, <2>3 DEF Verdict
  <2>6. CleanUp(Pair)'
    BY <1>0, <2>1, <2>2, <2>3 DEF CleanUp, JoinedInv, OwnerInv, PhaseInv
  <2>7. OwnerInv'
    BY <1>0, <2>1, <2>2, <2>3 DEF OwnerInv, PhaseInv
  <2>8. PhaseInv'
    BY <1>0, <2>1, <2>2, <2>3 DEF PhaseInv, OwnerInv, JoinedInv, CleanUp, Waiting
  <2>9. JoinedInv'
    BY <1>0, <2>1, <2>2, <2>3 DEF JoinedInv, CleanUp, OwnerInv
  <2> QED BY <2>2, <2>4, <2>5, <2>6, <2>7, <2>8, <2>9 DEF ContendedInv
<1> DEFINE Failing(from, to) ==
      \/ from \in {"create", "nameA", "owned", "createB",
                   "nameB", "ready", "observed", "inspect"} /\ to = "abort"
      \/ from = "abort" /\ to = "release"
      \/ from = "release" /\ to = "joinA"
      \/ from = "stopA" /\ to = "joinB"
      \/ from = "stopB" /\ to = "close"
<1>6. ASSUME NEW from, NEW to, NEW f, Failing(from, to),
             Mutex!StepFails(from, f, to)
      PROVE  ProcessInv' /\ ContendedInv'
  <2>1. /\ Goes(Main, from, to)
        /\ Fault(f)
        /\ mem' = [mem EXCEPT !.success = FALSE]
        /\ UNCHANGED <<signaled, open>>
        /\ Failing(from, to)
    BY <1>6
  <2>2. ProcessInv' /\ Moved(Main, to)
    BY <1>0, <2>1, Moves DEF ProcessInv
  <2>3. MutexType' /\ ~mem'.success
        /\ UNCHANGED <<mem.joined, mem.owner, mem.value, mem.acquired>>
    BY <1>0, <2>1 DEF MutexType
  <2>4. MutexType' /\ Only(Pair)'
    BY <1>0, <2>1, <2>2, <2>3 DEF MutexType, Only
  <2>5. Verdict(Pair, mem.value = 3 /\ mem.owner = "nobody")'
    BY <1>0, <2>1, <2>2, <2>3 DEF Verdict
  <2>6. CleanUp(Pair)'
    BY <1>0, <2>1, <2>2, <2>3 DEF CleanUp, JoinedInv, OwnerInv, PhaseInv
  <2>7. OwnerInv'
    BY <1>0, <2>1, <2>2, <2>3 DEF OwnerInv, PhaseInv
  <2>8. PhaseInv'
    BY <1>0, <2>1, <2>2, <2>3 DEF PhaseInv, OwnerInv, JoinedInv, CleanUp, Waiting
  <2>9. JoinedInv'
    BY <1>0, <2>1, <2>2, <2>3 DEF JoinedInv, CleanUp, OwnerInv
  <2> QED BY <2>2, <2>4, <2>5, <2>6, <2>7, <2>8, <2>9 DEF ContendedInv
<1> DEFINE Signaling(from, event, to) ==
      \/ from = "abort" /\ event = "abort" /\ to = "release"
      \/ from = "release" /\ event = "releaseOwner" /\ to = "joinA"
      \/ from = "stopA" /\ event = "abort" /\ to = "joinB"
      \/ from = "stopB" /\ event = "abort" /\ to = "close"
<1>7. ASSUME NEW from, NEW event, NEW to, Signaling(from, event, to),
             Mutex!SignalEvent(Main, from, event, to)
      PROVE  ProcessInv' /\ ContendedInv'
  <2>1. /\ Goes(Main, from, to)
        /\ signaled' = signaled \cup {event}
        /\ UNCHANGED <<open, mem, faulted>>
        /\ Signaling(from, event, to)
    BY <1>7
  <2>2. ProcessInv' /\ Moved(Main, to)
    BY <1>0, <2>1, Moves DEF ProcessInv
  <2>3. MutexType' /\ Only(Pair)'
    BY <1>0, <2>1, <2>2 DEF MutexType, Only
  <2>4. Verdict(Pair, mem.value = 3 /\ mem.owner = "nobody")'
    BY <1>0, <2>1, <2>2 DEF Verdict
  <2>5. CleanUp(Pair)'
    BY <1>0, <2>1, <2>2 DEF CleanUp, JoinedInv, OwnerInv, PhaseInv
  <2>6. OwnerInv'
    BY <1>0, <2>1, <2>2 DEF OwnerInv, PhaseInv
  <2>7. PhaseInv'
    BY <1>0, <2>1, <2>2 DEF PhaseInv, OwnerInv, JoinedInv, CleanUp, Waiting
  <2>8. JoinedInv'
    BY <1>0, <2>1, <2>2 DEF JoinedInv, CleanUp, OwnerInv
  <2> QED BY <2>2, <2>3, <2>4, <2>5, <2>6, <2>7, <2>8 DEF ContendedInv
<1>8. CASE pc["A"] = "none" /\ Mutex!Call(Main, "joinA", "joinB")
  <2>1. /\ Goes(Main, "joinA", "joinB")
        /\ UNCHANGED <<signaled, open, mem, faulted>>
        /\ pc["A"] = "none"
    BY <1>8
  <2>2. ProcessInv' /\ Moved(Main, "joinB")
    BY <1>0, <2>1, Moves DEF ProcessInv
  <2>3. MutexType' /\ Only(Pair)'
    BY <1>0, <2>1, <2>2 DEF MutexType, Only
  <2>4. Verdict(Pair, mem.value = 3 /\ mem.owner = "nobody")'
    BY <1>0, <2>1, <2>2 DEF Verdict
  <2>5. CleanUp(Pair)'
    BY <1>0, <2>1, <2>2 DEF CleanUp, JoinedInv, OwnerInv, PhaseInv
  <2>6. OwnerInv'
    BY <1>0, <2>1, <2>2 DEF OwnerInv, PhaseInv
  <2>7. PhaseInv'
    BY <1>0, <2>1, <2>2 DEF PhaseInv, OwnerInv, JoinedInv, CleanUp, Waiting
  <2>8. JoinedInv'
    BY <1>0, <2>1, <2>2 DEF JoinedInv, CleanUp, OwnerInv
  <2> QED BY <2>2, <2>3, <2>4, <2>5, <2>6, <2>7, <2>8 DEF ContendedInv
<1>9. CASE /\ Ended("A")
           /\ Mutex!Store(Main, "joinA", [mem EXCEPT !.success = @ /\ (pc["A"] =
                "done" /\ mem.acquired["A"])], "joinB")
  <2>1. PICK v \in BOOLEAN : v = (mem.success /\ (pc["A"] =
          "done" /\ mem.acquired["A"]))
    OBVIOUS
  <2>2. /\ Goes(Main, "joinA", "joinB")
        /\ Ended("A")
        /\ mem' = [mem EXCEPT !.success = v]
        /\ UNCHANGED <<signaled, open, faulted>>
    BY <1>9, <2>1
  <2>3. ProcessInv' /\ Moved(Main, "joinB")
    BY <1>0, <2>2, Moves DEF ProcessInv
  <2>4. MutexType' /\ mem'.success = v
        /\ UNCHANGED <<mem.joined, mem.owner, mem.value, mem.acquired>>
    BY <1>0, <2>2 DEF MutexType
  <2>5. ~v => faulted # {}
    BY <1>0, <2>1, <2>2 DEF OwnerInv, CleanUp
  <2>6. MutexType' /\ Only(Pair)'
    BY <1>0, <2>1, <2>2, <2>3, <2>4, <2>5 DEF MutexType, Only
  <2>7. Verdict(Pair, mem.value = 3 /\ mem.owner = "nobody")'
    BY <1>0, <2>1, <2>2, <2>3, <2>4, <2>5 DEF Verdict
  <2>8. CleanUp(Pair)'
    BY <1>0, <2>1, <2>2, <2>3, <2>4, <2>5 DEF CleanUp, JoinedInv, OwnerInv, PhaseInv
  <2>9. OwnerInv'
    BY <1>0, <2>1, <2>2, <2>3, <2>4, <2>5 DEF OwnerInv, PhaseInv
  <2>10. PhaseInv'
    BY <1>0, <2>1, <2>2, <2>3, <2>4, <2>5 DEF PhaseInv, OwnerInv, JoinedInv, CleanUp,
       Waiting
  <2>11. JoinedInv'
    BY <1>0, <2>1, <2>2, <2>3, <2>4, <2>5 DEF JoinedInv, CleanUp, OwnerInv
  <2> QED BY <2>3, <2>6, <2>7, <2>8, <2>9, <2>10, <2>11 DEF ContendedInv
<1>10. CASE Ended("A") /\ Mutex!StepFails("joinA", "call", "joinB")
  <2>1. /\ Goes(Main, "joinA", "joinB")
        /\ Fault("call")
        /\ mem' = [mem EXCEPT !.success = FALSE]
        /\ UNCHANGED <<signaled, open>>
        /\ Ended("A")
    BY <1>10
  <2>2. ProcessInv' /\ Moved(Main, "joinB")
    BY <1>0, <2>1, Moves DEF ProcessInv
  <2>3. MutexType' /\ ~mem'.success
        /\ UNCHANGED <<mem.joined, mem.owner, mem.value, mem.acquired>>
    BY <1>0, <2>1 DEF MutexType
  <2>4. MutexType' /\ Only(Pair)'
    BY <1>0, <2>1, <2>2, <2>3 DEF MutexType, Only
  <2>5. Verdict(Pair, mem.value = 3 /\ mem.owner = "nobody")'
    BY <1>0, <2>1, <2>2, <2>3 DEF Verdict
  <2>6. CleanUp(Pair)'
    BY <1>0, <2>1, <2>2, <2>3 DEF CleanUp, JoinedInv, OwnerInv, PhaseInv
  <2>7. OwnerInv'
    BY <1>0, <2>1, <2>2, <2>3 DEF OwnerInv, PhaseInv
  <2>8. PhaseInv'
    BY <1>0, <2>1, <2>2, <2>3 DEF PhaseInv, OwnerInv, JoinedInv, CleanUp, Waiting
  <2>9. JoinedInv'
    BY <1>0, <2>1, <2>2, <2>3 DEF JoinedInv, CleanUp, OwnerInv
  <2> QED BY <2>2, <2>4, <2>5, <2>6, <2>7, <2>8, <2>9 DEF ContendedInv
<1>11. CASE /\ Mutex!Alive("A") /\ Mutex!Go(Main, "joinA", "stopA")
            /\ Mutex!Fault("slow")
            /\ mem' = [mem EXCEPT !.success = FALSE, !.joined = FALSE]
            /\ UNCHANGED <<suspends, signaled, open, exit>>
  <2>1. /\ Goes(Main, "joinA", "stopA")
        /\ Fault("slow")
        /\ mem' = [mem EXCEPT !.success = FALSE, !.joined = FALSE]
        /\ UNCHANGED <<signaled, open>>
    BY <1>11
  <2>2. ProcessInv' /\ Moved(Main, "stopA")
    BY <1>0, <2>1, Moves DEF ProcessInv
  <2>3. MutexType' /\ ~mem'.success /\ ~mem'.joined
        /\ UNCHANGED <<mem.owner, mem.value, mem.acquired>>
    BY <1>0, <2>1 DEF MutexType
  <2>4. MutexType' /\ Only(Pair)'
    BY <1>0, <2>1, <2>2, <2>3 DEF MutexType, Only
  <2>5. Verdict(Pair, mem.value = 3 /\ mem.owner = "nobody")'
    BY <1>0, <2>1, <2>2, <2>3 DEF Verdict
  <2>6. CleanUp(Pair)'
    BY <1>0, <2>1, <2>2, <2>3 DEF CleanUp, JoinedInv, OwnerInv, PhaseInv
  <2>7. OwnerInv'
    BY <1>0, <2>1, <2>2, <2>3 DEF OwnerInv, PhaseInv
  <2>8. PhaseInv'
    BY <1>0, <2>1, <2>2, <2>3 DEF PhaseInv, OwnerInv, JoinedInv, CleanUp, Waiting
  <2>9. JoinedInv'
    BY <1>0, <2>1, <2>2, <2>3 DEF JoinedInv, CleanUp, OwnerInv
  <2> QED BY <2>2, <2>4, <2>5, <2>6, <2>7, <2>8, <2>9 DEF ContendedInv
<1>12. CASE pc["B"] = "none" /\ Mutex!Call(Main, "joinB", "close")
  <2>1. /\ Goes(Main, "joinB", "close")
        /\ UNCHANGED <<signaled, open, mem, faulted>>
        /\ pc["B"] = "none"
    BY <1>12
  <2>2. ProcessInv' /\ Moved(Main, "close")
    BY <1>0, <2>1, Moves DEF ProcessInv
  <2>3. MutexType' /\ Only(Pair)'
    BY <1>0, <2>1, <2>2 DEF MutexType, Only
  <2>4. Verdict(Pair, mem.value = 3 /\ mem.owner = "nobody")'
    BY <1>0, <2>1, <2>2 DEF Verdict
  <2>5. CleanUp(Pair)'
    BY <1>0, <2>1, <2>2 DEF CleanUp, JoinedInv, OwnerInv, PhaseInv
  <2>6. OwnerInv'
    BY <1>0, <2>1, <2>2 DEF OwnerInv, PhaseInv
  <2>7. PhaseInv'
    BY <1>0, <2>1, <2>2 DEF PhaseInv, OwnerInv, JoinedInv, CleanUp, Waiting
  <2>8. JoinedInv'
    BY <1>0, <2>1, <2>2 DEF JoinedInv, CleanUp, OwnerInv
  <2> QED BY <2>2, <2>3, <2>4, <2>5, <2>6, <2>7, <2>8 DEF ContendedInv
<1>13. CASE /\ Ended("B")
            /\ Mutex!Store(Main, "joinB", [mem EXCEPT !.success = @ /\ (pc["B"] =
                 "done" /\ mem.acquired["B"])], "close")
  <2>1. PICK v \in BOOLEAN : v = (mem.success /\ (pc["B"] =
          "done" /\ mem.acquired["B"]))
    OBVIOUS
  <2>2. /\ Goes(Main, "joinB", "close")
        /\ Ended("B")
        /\ mem' = [mem EXCEPT !.success = v]
        /\ UNCHANGED <<signaled, open, faulted>>
    BY <1>13, <2>1
  <2>3. ProcessInv' /\ Moved(Main, "close")
    BY <1>0, <2>2, Moves DEF ProcessInv
  <2>4. MutexType' /\ mem'.success = v
        /\ UNCHANGED <<mem.joined, mem.owner, mem.value, mem.acquired>>
    BY <1>0, <2>2 DEF MutexType
  <2>5. /\ ~v => faulted # {}
        /\ v => pc["A"] = "done" /\ pc["B"] = "done" /\ mem.joined
        /\ mem.joined => ~Alive("A")
    BY <1>0, <2>1, <2>2 DEF OwnerInv, CleanUp, JoinedInv
  <2>6. MutexType' /\ Only(Pair)'
    BY <1>0, <2>1, <2>2, <2>3, <2>4, <2>5 DEF MutexType, Only
  <2>7. Verdict(Pair, mem.value = 3 /\ mem.owner = "nobody")'
    BY <1>0, <2>1, <2>2, <2>3, <2>4, <2>5 DEF Verdict
  <2>8. CleanUp(Pair)'
    BY <1>0, <2>1, <2>2, <2>3, <2>4, <2>5 DEF CleanUp, JoinedInv, OwnerInv, PhaseInv
  <2>9. OwnerInv'
    BY <1>0, <2>1, <2>2, <2>3, <2>4, <2>5 DEF OwnerInv, PhaseInv
  <2>10. PhaseInv'
    BY <1>0, <2>1, <2>2, <2>3, <2>4, <2>5 DEF PhaseInv, OwnerInv, JoinedInv, CleanUp,
       Waiting
  <2>11. JoinedInv'
    BY <1>0, <2>1, <2>2, <2>3, <2>4, <2>5 DEF JoinedInv, CleanUp, OwnerInv
  <2> QED BY <2>3, <2>6, <2>7, <2>8, <2>9, <2>10, <2>11 DEF ContendedInv
<1>14. CASE Ended("B") /\ Mutex!StepFails("joinB", "call", "close")
  <2>1. /\ Goes(Main, "joinB", "close")
        /\ Fault("call")
        /\ mem' = [mem EXCEPT !.success = FALSE]
        /\ UNCHANGED <<signaled, open>>
        /\ Ended("B")
    BY <1>14
  <2>2. ProcessInv' /\ Moved(Main, "close")
    BY <1>0, <2>1, Moves DEF ProcessInv
  <2>3. MutexType' /\ ~mem'.success
        /\ UNCHANGED <<mem.joined, mem.owner, mem.value, mem.acquired>>
    BY <1>0, <2>1 DEF MutexType
  <2>4. MutexType' /\ Only(Pair)'
    BY <1>0, <2>1, <2>2, <2>3 DEF MutexType, Only
  <2>5. Verdict(Pair, mem.value = 3 /\ mem.owner = "nobody")'
    BY <1>0, <2>1, <2>2, <2>3 DEF Verdict
  <2>6. CleanUp(Pair)'
    BY <1>0, <2>1, <2>2, <2>3 DEF CleanUp, JoinedInv, OwnerInv, PhaseInv
  <2>7. OwnerInv'
    BY <1>0, <2>1, <2>2, <2>3 DEF OwnerInv, PhaseInv
  <2>8. PhaseInv'
    BY <1>0, <2>1, <2>2, <2>3 DEF PhaseInv, OwnerInv, JoinedInv, CleanUp, Waiting
  <2>9. JoinedInv'
    BY <1>0, <2>1, <2>2, <2>3 DEF JoinedInv, CleanUp, OwnerInv
  <2> QED BY <2>2, <2>4, <2>5, <2>6, <2>7, <2>8, <2>9 DEF ContendedInv
<1>15. CASE /\ Mutex!Alive("B") /\ Mutex!Go(Main, "joinB", "stopB")
            /\ Mutex!Fault("slow")
            /\ mem' = [mem EXCEPT !.success = FALSE, !.joined = FALSE]
            /\ UNCHANGED <<suspends, signaled, open, exit>>
  <2>1. /\ Goes(Main, "joinB", "stopB")
        /\ Fault("slow")
        /\ mem' = [mem EXCEPT !.success = FALSE, !.joined = FALSE]
        /\ UNCHANGED <<signaled, open>>
    BY <1>15
  <2>2. ProcessInv' /\ Moved(Main, "stopB")
    BY <1>0, <2>1, Moves DEF ProcessInv
  <2>3. MutexType' /\ ~mem'.success /\ ~mem'.joined
        /\ UNCHANGED <<mem.owner, mem.value, mem.acquired>>
    BY <1>0, <2>1 DEF MutexType
  <2>4. MutexType' /\ Only(Pair)'
    BY <1>0, <2>1, <2>2, <2>3 DEF MutexType, Only
  <2>5. Verdict(Pair, mem.value = 3 /\ mem.owner = "nobody")'
    BY <1>0, <2>1, <2>2, <2>3 DEF Verdict
  <2>6. CleanUp(Pair)'
    BY <1>0, <2>1, <2>2, <2>3 DEF CleanUp, JoinedInv, OwnerInv, PhaseInv
  <2>7. OwnerInv'
    BY <1>0, <2>1, <2>2, <2>3 DEF OwnerInv, PhaseInv
  <2>8. PhaseInv'
    BY <1>0, <2>1, <2>2, <2>3 DEF PhaseInv, OwnerInv, JoinedInv, CleanUp, Waiting
  <2>9. JoinedInv'
    BY <1>0, <2>1, <2>2, <2>3 DEF JoinedInv, CleanUp, OwnerInv
  <2> QED BY <2>2, <2>4, <2>5, <2>6, <2>7, <2>8, <2>9 DEF ContendedInv
<1>16. CASE /\ Mutex!Go(Main, "close", "verdict") /\ open' = ~mem.joined
            /\ Mutex!NoFault /\ UNCHANGED mem
            /\ UNCHANGED <<suspends, signaled, exit>>
  <2>1. /\ pc[Main] = "close" /\ exit = "running" /\ suspends[Main] = 0
        /\ pc' = [pc EXCEPT ![Main] = "verdict"] /\ open' = ~mem.joined
        /\ UNCHANGED <<mem, faulted>>
        /\ UNCHANGED <<suspends, signaled, exit>>
    BY <1>16 DEF Mutex!NoFault
  <2>2. ProcessInv' /\ Moved(Main, "verdict")
    BY <1>0, <2>1, Moves DEF ProcessInv
  <2>3. MutexType' /\ Only(Pair)'
    BY <1>0, <2>1, <2>2 DEF MutexType, Only
  <2>4. Verdict(Pair, mem.value = 3 /\ mem.owner = "nobody")'
    BY <1>0, <2>1, <2>2 DEF Verdict
  <2>5. CleanUp(Pair)'
    BY <1>0, <2>1, <2>2 DEF CleanUp, JoinedInv, OwnerInv, PhaseInv
  <2>6. OwnerInv'
    BY <1>0, <2>1, <2>2 DEF OwnerInv, PhaseInv
  <2>7. PhaseInv'
    BY <1>0, <2>1, <2>2 DEF PhaseInv, OwnerInv, JoinedInv, CleanUp, Waiting
  <2>8. JoinedInv'
    BY <1>0, <2>1, <2>2 DEF JoinedInv, CleanUp, OwnerInv
  <2> QED BY <2>2, <2>3, <2>4, <2>5, <2>6, <2>7, <2>8 DEF ContendedInv
<1>17. CASE /\ Mutex!Go(Main, "close", "verdict") /\ open' = ~mem.joined
            /\ Mutex!Fault("call") /\ mem' = [mem EXCEPT !.success = FALSE]
            /\ UNCHANGED <<suspends, signaled, exit>>
  <2>1. /\ Goes(Main, "close", "verdict")
        /\ open' = ~mem.joined
        /\ Fault("call") /\ mem' = [mem EXCEPT !.success = FALSE]
        /\ UNCHANGED signaled
    BY <1>17
  <2>2. ProcessInv' /\ Moved(Main, "verdict")
    BY <1>0, <2>1, Moves DEF ProcessInv
  <2>3. MutexType' /\ ~mem'.success
        /\ UNCHANGED <<mem.joined, mem.owner, mem.value, mem.acquired>>
    BY <1>0, <2>1 DEF MutexType
  <2>4. MutexType' /\ Only(Pair)'
    BY <1>0, <2>1, <2>2, <2>3 DEF MutexType, Only
  <2>5. Verdict(Pair, mem.value = 3 /\ mem.owner = "nobody")'
    BY <1>0, <2>1, <2>2, <2>3 DEF Verdict
  <2>6. CleanUp(Pair)'
    BY <1>0, <2>1, <2>2, <2>3 DEF CleanUp, JoinedInv, OwnerInv, PhaseInv
  <2>7. OwnerInv'
    BY <1>0, <2>1, <2>2, <2>3 DEF OwnerInv, PhaseInv
  <2>8. PhaseInv'
    BY <1>0, <2>1, <2>2, <2>3 DEF PhaseInv, OwnerInv, JoinedInv, CleanUp, Waiting
  <2>9. JoinedInv'
    BY <1>0, <2>1, <2>2, <2>3 DEF JoinedInv, CleanUp, OwnerInv
  <2> QED BY <2>2, <2>4, <2>5, <2>6, <2>7, <2>8, <2>9 DEF ContendedInv
<1>18. CASE Mutex!Return("verdict", mem.success)
  <2>1. /\ pc[Main] = "verdict" /\ exit = "running"
        /\ exit' = IF mem.success THEN "passed" ELSE "failed"
        /\ UNCHANGED <<pc, suspends, signaled, open, mem, faulted>>
    BY <1>18
  <2>2. ProcessInv'
    BY <2>1, Ends DEF Status
  <2>3. MutexType' /\ Only(Pair)'
    BY <1>0, <2>1, <2>2 DEF MutexType, Only
  <2>4. Verdict(Pair, mem.value = 3 /\ mem.owner = "nobody")'
    BY <1>0, <2>1, <2>2 DEF Verdict, CleanUp, JoinedInv, OwnerInv
  <2>5. CleanUp(Pair)'
    BY <1>0, <2>1, <2>2 DEF CleanUp, JoinedInv, OwnerInv, PhaseInv
  <2>6. OwnerInv'
    BY <1>0, <2>1, <2>2 DEF OwnerInv, PhaseInv
  <2>7. PhaseInv'
    BY <1>0, <2>1, <2>2 DEF PhaseInv, OwnerInv, JoinedInv, CleanUp, Waiting
  <2>8. JoinedInv'
    BY <1>0, <2>1, <2>2 DEF JoinedInv, CleanUp, OwnerInv
  <2> QED BY <2>2, <2>3, <2>4, <2>5, <2>6, <2>7, <2>8 DEF ContendedInv
<1>19. CASE t = "A" /\ Mutex!OwnerMain(t)
  BY <1>19, OwnerStep
<1>20. CASE t = "B" /\ Mutex!ContenderMain(t)
  BY <1>20, ContenderStep
<1> HIDE DEF Mutex!Go, Mutex!At, Mutex!Running, Mutex!Call, Mutex!others, Mutex!Store,
    Mutex!SignalEvent, Mutex!Await, Mutex!Satisfied, Mutex!Worker, Mutex!Ended,
    Mutex!Fault, Mutex!Fails, Mutex!EndProcess, Mutex!Return, Mutex!CreateThread,
    Mutex!Alive, Mutex!StepFails, Mutex!SignalAnyway
<1>21. ASSUME NEW from, NEW event, NEW to, Awaiting(from, event, to),
              Mutex!AwaitPhase(from, event, to)
       PROVE  ProcessInv' /\ ContendedInv'
  BY <1>21, <1>4, <1>5, <1>6 DEF Mutex!AwaitPhase, Mutex!AwaitOrAbort
<1>22. ASSUME NEW from, NEW event, NEW to, Signaling(from, event, to),
              Mutex!SignalAnyway(from, event, to)
       PROVE  ProcessInv' /\ ContendedInv'
  BY <1>22, <1>6, <1>7 DEF Mutex!SignalAnyway
<1>23. CASE Mutex!Join("joinA", "A", pc["A"] = "done" /\ mem.acquired["A"], "joinB",
              "stopA")
  BY <1>23, <1>8, <1>9, <1>10, <1>11 DEF Mutex!Join, Mutex!Ended
<1>24. CASE Mutex!Join("joinB", "B", pc["B"] = "done" /\ mem.acquired["B"], "close",
              "stopB")
  BY <1>24, <1>12, <1>13, <1>14, <1>15 DEF Mutex!Join, Mutex!Ended
<1>25. ASSUME t = Main, Mutex!ContentionMain
       PROVE  ProcessInv' /\ ContendedInv'
  BY <1>25, <1>1, <1>2, <1>3, <1>4, <1>5, <1>6, <1>7, <1>16, <1>17, <1>18, <1>21, <1>22,
     <1>23, <1>24 DEF Mutex!ContentionMain, Mutex!CallAborts, Mutex!CloseJoined
<1> QED BY <1>19, <1>20, <1>25 DEF Mutex!Contended, Mutex!Main

-----------------------------------------------------------------------------
(* The steps of HandleLifetime *)

\* The worker ticks until it is told to stop, and acknowledges one request.
LEMMA ProgressWorkerStep ==
  ASSUME ProcessInv, ClosedInv, UNCHANGED program, Handle!ProgressWorker("A")
  PROVE  ProcessInv' /\ ClosedInv'
<1> USE DEF Handle!Go, Handle!At, Handle!Running, Handle!Call, Handle!others,
    Handle!Store, Handle!SignalEvent, Handle!Await, Handle!Satisfied, Handle!Worker,
    Handle!Ended, Handle!Fault, Handle!Fails, Fault, Ended, Main, Moved, Faulty,
    NoFault, Alive, Goes
<1>0. /\ "A" \in Worker /\ "A" \in Thread /\ Main \in Thread /\ Worker \subseteq Thread
      /\ Worker = {"A", "B", "C"} /\ signaled \cap Worker = {} /\ 0 \in Nat
      /\ HandleType /\ mem.progress \in Nat /\ mem.acknowledged \in Nat
      /\ mem.before \in Nat
  BY DEF ProcessInv, Thread, Worker, ClosedInv, HandleType
<1>1. CASE Handle!Store("A", "begin", [mem EXCEPT !.progress = @ + 1], "announce")
  <2>1. /\ Goes("A", "begin", "announce")
        /\ mem' = [mem EXCEPT !.progress = @ + 1]
        /\ UNCHANGED <<signaled, open, faulted>>
    BY <1>0, <1>1
  <2>2. PICK n \in Nat : n = mem.progress + 1
    BY <1>0
  <2>3. mem' = [mem EXCEPT !.progress = n]
    BY <2>1, <2>2
  <2>4. ProcessInv' /\ Moved("A", "announce")
    BY <1>0, <2>1, Moves DEF ProcessInv
  <2>5. HandleType' /\ mem'.progress = n
        /\ UNCHANGED <<mem.success, mem.joined, mem.duplicate, mem.closed,
             mem.acknowledged, mem.before>>
    BY <1>0, <2>3 DEF HandleType
  <2> QED BY <1>0, <2>1, <2>2, <2>4, <2>5 DEF ClosedInv, HandleType, CleanUp, Only,
             Verdict
<1> DEFINE Signaling(from, event, to) ==
      \/ from = "announce" /\ event = "entered" /\ to = "gate"
      \/ from = "observe" /\ event = "observed" /\ to = "hold"
<1>2. ASSUME NEW from, NEW event, NEW to, Signaling(from, event, to),
             Handle!SignalEvent("A", from, event, to)
      PROVE  ProcessInv' /\ ClosedInv'
  <2>1. /\ Goes("A", from, to)
        /\ signaled' = signaled \cup {event}
        /\ UNCHANGED <<open, mem, faulted>>
        /\ Signaling(from, event, to)
    BY <1>2
  <2>2. ProcessInv' /\ Moved("A", to)
    BY <1>0, <2>1, Moves DEF ProcessInv
  <2> QED BY <1>0, <2>1, <2>2 DEF ClosedInv, HandleType, CleanUp, Only, Verdict
<1> DEFINE Failing(from) == \/ from \in {"announce", "observe", "gate", "hold"}
<1>3. ASSUME NEW from, NEW f, Failing(from),
             from \in {"gate", "hold"} => f = "slow",
             Handle!Fails("A", from, f, "failed")
      PROVE  ProcessInv' /\ ClosedInv'
  <2>1. /\ Goes("A", from, "failed")
        /\ Fault(f)
        /\ UNCHANGED <<signaled, open, mem>>
        /\ Failing(from)
        /\ (from \in {"gate", "hold"} => f = "slow")
    BY <1>3
  <2>2. ProcessInv' /\ Moved("A", "failed")
    BY <1>0, <2>1, Moves DEF ProcessInv
  <2> QED BY <1>0, <2>1, <2>2 DEF ClosedInv, HandleType, CleanUp, Only, Verdict
<1>4. CASE Handle!Await("A", "gate", {"stop"}, "done")
  <2>1. /\ Goes("A", "gate", "done")
        /\ UNCHANGED <<signaled, open, mem, faulted>>
        /\ "stop" \in signaled
    BY <1>4, <1>0
  <2>2. ProcessInv' /\ Moved("A", "done")
    BY <1>0, <2>1, Moves DEF ProcessInv
  <2> QED BY <1>0, <2>1, <2>2 DEF ClosedInv, HandleType, CleanUp, Only, Verdict
<1>5. CASE Handle!Await("A", "hold", {"stop"}, "done")
  <2>1. /\ Goes("A", "hold", "done")
        /\ UNCHANGED <<signaled, open, mem, faulted>>
        /\ "stop" \in signaled
    BY <1>5, <1>0
  <2>2. ProcessInv' /\ Moved("A", "done")
    BY <1>0, <2>1, Moves DEF ProcessInv
  <2> QED BY <1>0, <2>1, <2>2 DEF ClosedInv, HandleType, CleanUp, Only, Verdict
<1>6. CASE /\ Handle!Satisfied({"request"}) /\ ~Handle!Satisfied({"stop"})
           /\ Handle!Store("A", "gate", Handle!Acknowledge(mem), "observe")
  <2>1. /\ Goes("A", "gate", "observe")
        /\ mem' = [mem EXCEPT !.progress = @ + 1, !.acknowledged = mem.progress + 1]
        /\ UNCHANGED <<signaled, open, faulted>>
        /\ "request" \in signaled
    BY <1>0, <1>6 DEF Handle!Acknowledge
  <2>2. PICK n \in Nat : n = mem.progress + 1
    BY <1>0
  <2>3. mem' = [mem EXCEPT !.progress = n, !.acknowledged = n]
    BY <2>1, <2>2
  <2>4. ProcessInv' /\ Moved("A", "observe")
    BY <1>0, <2>1, Moves DEF ProcessInv
  <2>5. HandleType' /\ mem'.progress = n /\ mem'.acknowledged = n
        /\ UNCHANGED <<mem.success, mem.joined, mem.duplicate, mem.closed, mem.before>>
    BY <1>0, <2>3 DEF HandleType
  <2> QED BY <1>0, <2>1, <2>2, <2>4, <2>5 DEF ClosedInv, HandleType, CleanUp, Only,
             Verdict
<1>7. CASE Handle!Tick("A", "gate")
  <2>1. /\ Goes("A", "gate", "gate")
        /\ mem' = [mem EXCEPT !.progress = @ + 1]
        /\ UNCHANGED <<signaled, open, faulted>>
    BY <1>0, <1>7 DEF Handle!Tick
  <2>2. PICK n \in Nat : n = mem.progress + 1
    BY <1>0
  <2>3. mem' = [mem EXCEPT !.progress = n]
    BY <2>1, <2>2
  <2>4. ProcessInv' /\ Moved("A", "gate")
    BY <1>0, <2>1, Moves DEF ProcessInv
  <2>5. HandleType' /\ mem'.progress = n
        /\ UNCHANGED <<mem.success, mem.joined, mem.duplicate, mem.closed,
             mem.acknowledged, mem.before>>
    BY <1>0, <2>3 DEF HandleType
  <2> QED BY <1>0, <2>1, <2>2, <2>4, <2>5 DEF ClosedInv, HandleType, CleanUp, Only,
             Verdict
<1>8. CASE Handle!Tick("A", "hold")
  <2>1. /\ Goes("A", "hold", "hold")
        /\ mem' = [mem EXCEPT !.progress = @ + 1]
        /\ UNCHANGED <<signaled, open, faulted>>
    BY <1>0, <1>8 DEF Handle!Tick
  <2>2. PICK n \in Nat : n = mem.progress + 1
    BY <1>0
  <2>3. mem' = [mem EXCEPT !.progress = n]
    BY <2>1, <2>2
  <2>4. ProcessInv' /\ Moved("A", "hold")
    BY <1>0, <2>1, Moves DEF ProcessInv
  <2>5. HandleType' /\ mem'.progress = n
        /\ UNCHANGED <<mem.success, mem.joined, mem.duplicate, mem.closed,
             mem.acknowledged, mem.before>>
    BY <1>0, <2>3 DEF HandleType
  <2> QED BY <1>0, <2>1, <2>2, <2>4, <2>5 DEF ClosedInv, HandleType, CleanUp, Only,
             Verdict
<1> HIDE DEF Handle!Go, Handle!At, Handle!Running, Handle!Call, Handle!others,
    Handle!Store, Handle!SignalEvent, Handle!Await, Handle!Satisfied, Handle!Worker,
    Handle!Ended, Handle!Fault, Handle!Fails
<1> QED BY <1>1, <1>2, <1>3, <1>4, <1>5, <1>6, <1>7, <1>8 DEF Handle!ProgressWorker,
           Handle!SignalOrFail, Handle!WorkerFails

\* The steps of close_handle_while_running.cpp.
LEMMA ClosedStep ==
  ASSUME ProcessInv, UNCHANGED program, ClosedInv, NEW t \in Thread,
         Handle!ClosedWhileRunning(t)
  PROVE  ProcessInv' /\ ClosedInv'
<1> USE DEF Handle!Go, Handle!At, Handle!Running, Handle!Call, Handle!others,
    Handle!Store, Handle!SignalEvent, Handle!Await, Handle!Satisfied, Handle!Worker,
    Handle!Main, Handle!Ended, Handle!Fault, Handle!EndProcess, Handle!Return,
    Handle!CreateThread, Handle!Alive, Handle!StepFails, Handle!SignalAnyway, Fault,
    Ended, Main, Moved, Faulty, NoFault, Alive, Goes
<1>0. /\ "A" \in Worker /\ "A" \in Thread /\ Main \in Thread /\ Worker \subseteq Thread
      /\ Worker = {"A", "B", "C"} /\ signaled \cap Worker = {} /\ 0 \in Nat
      /\ HandleType /\ mem.progress \in Nat /\ mem.acknowledged \in Nat
      /\ mem.before \in Nat
  BY DEF ProcessInv, Thread, Worker, ClosedInv, HandleType
<1>1. CASE Handle!CreateThread("create", "A", 0, "name")
  <2>1. /\ pc[Main] = "create" /\ exit = "running" /\ suspends[Main] = 0
        /\ pc' = [pc EXCEPT ![Main] = "name", !["A"] = "begin"]
        /\ suspends' = [suspends EXCEPT !["A"] = 0]
        /\ UNCHANGED <<signaled, open, mem, exit, faulted>>
    BY <1>1
  <2>2. suspends' \in [Thread -> Nat] /\ suspends'["A"] = 0
    BY <1>0, <2>1 DEF ProcessInv
  <2>3. /\ ProcessInv' /\ pc'[Main] = "name" /\ pc'["A"] = "begin"
        /\ \A u \in Thread \ {Main, "A"} : pc'[u] = pc[u]
    BY <1>0, <2>1, <2>2, Creates
  <2>4. "entered" \notin signaled /\ "observed" \notin signaled
    BY <1>0, <2>1 DEF ClosedInv
  <2>5. pc'["B"] = pc["B"] /\ pc'["C"] = pc["C"]
    BY <2>3 DEF Thread, Main, Worker
  <2> QED BY <1>0, <2>1, <2>2, <2>3, <2>4, <2>5 DEF ClosedInv, HandleType, CleanUp,
             Only, Verdict
<1> DEFINE Calling(from, to) == \/ from = "name" /\ to = "duplicate"
                                \/ from = "inspect" /\ to = "before"
                                \/ from = "watch" /\ to = "stop"
<1>2. ASSUME NEW from, NEW to, Calling(from, to),
             Handle!Call(Main, from, to)
      PROVE  ProcessInv' /\ ClosedInv'
  <2>1. /\ Goes(Main, from, to)
        /\ UNCHANGED <<signaled, open, mem, faulted>>
        /\ Calling(from, to)
    BY <1>2
  <2>2. ProcessInv' /\ Moved(Main, to)
    BY <1>0, <2>1, Moves DEF ProcessInv
  <2> QED BY <1>0, <2>1, <2>2 DEF ClosedInv, HandleType, CleanUp, Only, Verdict
<1> DEFINE Awaiting(from, event, to) ==
      \/ from = "await" /\ event = "entered" /\ to = "inspect"
      \/ from = "observed" /\ event = "observed" /\ to = "acknowledged"
<1>3. ASSUME NEW from, NEW event, NEW to, Awaiting(from, event, to),
             Handle!Await(Main, from, {event}, to)
      PROVE  ProcessInv' /\ ClosedInv'
  <2>1. /\ Goes(Main, from, to)
        /\ UNCHANGED <<signaled, open, mem, faulted>>
        /\ Awaiting(from, event, to)
        /\ event \in signaled
    BY <1>3, <1>0
  <2>2. ProcessInv' /\ Moved(Main, to)
    BY <1>0, <2>1, Moves DEF ProcessInv
  <2> QED BY <1>0, <2>1, <2>2 DEF ClosedInv, HandleType, CleanUp, Only, Verdict
<1> DEFINE Failing(from, to) ==
      \/ from \in {"create", "name", "duplicate", "await", "inspect",
                   "closeOriginal", "request", "observed", "watch"} /\ to = "stop"
      \/ from = "stop" /\ to = "join"
<1>4. ASSUME NEW from, NEW to, NEW f, Failing(from, to),
             Handle!StepFails(from, f, to)
      PROVE  ProcessInv' /\ ClosedInv'
  <2>1. /\ Goes(Main, from, to)
        /\ Fault(f)
        /\ mem' = [mem EXCEPT !.success = FALSE]
        /\ UNCHANGED <<signaled, open>>
        /\ Failing(from, to)
    BY <1>4
  <2>2. ProcessInv' /\ Moved(Main, to)
    BY <1>0, <2>1, Moves DEF ProcessInv
  <2>3. HandleType' /\ ~mem'.success
        /\ UNCHANGED <<mem.joined, mem.duplicate, mem.closed, mem.progress,
             mem.acknowledged, mem.before>>
    BY <1>0, <2>1 DEF HandleType
  <2> QED BY <1>0, <2>1, <2>2, <2>3 DEF ClosedInv, HandleType, CleanUp, Only, Verdict
<1> DEFINE Signaling(from, event, to) ==
      \/ from = "request" /\ event = "request" /\ to = "observed"
      \/ from = "stop" /\ event = "stop" /\ to = "join"
<1>5. ASSUME NEW from, NEW event, NEW to, Signaling(from, event, to),
             Handle!SignalEvent(Main, from, event, to)
      PROVE  ProcessInv' /\ ClosedInv'
  <2>1. /\ Goes(Main, from, to)
        /\ signaled' = signaled \cup {event}
        /\ UNCHANGED <<open, mem, faulted>>
        /\ Signaling(from, event, to)
    BY <1>5
  <2>2. ProcessInv' /\ Moved(Main, to)
    BY <1>0, <2>1, Moves DEF ProcessInv
  <2> QED BY <1>0, <2>1, <2>2 DEF ClosedInv, HandleType, CleanUp, Only, Verdict
<1>6. CASE Handle!Store(Main, "duplicate", [mem EXCEPT !.duplicate = TRUE], "await")
  <2>1. /\ Goes(Main, "duplicate", "await")
        /\ mem' = [mem EXCEPT !.duplicate = TRUE]
        /\ UNCHANGED <<signaled, open, faulted>>
    BY <1>6
  <2>2. ProcessInv' /\ Moved(Main, "await")
    BY <1>0, <2>1, Moves DEF ProcessInv
  <2>3. HandleType' /\ mem'.duplicate
        /\ UNCHANGED <<mem.success, mem.joined, mem.closed, mem.progress,
             mem.acknowledged, mem.before>>
    BY <1>0, <2>1 DEF HandleType
  <2> QED BY <1>0, <2>1, <2>2, <2>3 DEF ClosedInv, HandleType, CleanUp, Only, Verdict
<1>7. CASE Handle!Store(Main, "before", [mem EXCEPT !.before = mem.progress],
           "closeOriginal")
  <2>1. /\ Goes(Main, "before", "closeOriginal")
        /\ mem' = [mem EXCEPT !.before = mem.progress]
        /\ UNCHANGED <<signaled, open, faulted>>
    BY <1>7
  <2>2. ProcessInv' /\ Moved(Main, "closeOriginal")
    BY <1>0, <2>1, Moves DEF ProcessInv
  <2>3. HandleType' /\ mem'.before = mem.progress
        /\ UNCHANGED <<mem.success, mem.joined, mem.duplicate, mem.closed,
             mem.progress, mem.acknowledged>>
    BY <1>0, <2>1 DEF HandleType
  <2> QED BY <1>0, <2>1, <2>2, <2>3 DEF ClosedInv, HandleType, CleanUp, Only, Verdict
<1>8. CASE Handle!Store(Main, "closeOriginal", [mem EXCEPT !.closed = TRUE], "request")
  <2>1. /\ Goes(Main, "closeOriginal", "request")
        /\ mem' = [mem EXCEPT !.closed = TRUE]
        /\ UNCHANGED <<signaled, open, faulted>>
    BY <1>8
  <2>2. ProcessInv' /\ Moved(Main, "request")
    BY <1>0, <2>1, Moves DEF ProcessInv
  <2>3. HandleType' /\ mem'.closed
        /\ UNCHANGED <<mem.success, mem.joined, mem.duplicate, mem.progress,
             mem.acknowledged, mem.before>>
    BY <1>0, <2>1 DEF HandleType
  <2> QED BY <1>0, <2>1, <2>2, <2>3 DEF ClosedInv, HandleType, CleanUp, Only, Verdict
<1>9. CASE Handle!Require("acknowledged", mem.acknowledged > mem.before, "watch",
             "stop")
  <2>1. PICK v \in BOOLEAN : v = (mem.acknowledged > mem.before)
    <3>1. CASE mem.acknowledged > mem.before
      <4>1. TRUE = (mem.acknowledged > mem.before)
        BY <3>1
      <4> QED BY <4>1
    <3>2. CASE ~(mem.acknowledged > mem.before)
      <4>1. FALSE = (mem.acknowledged > mem.before)
        BY <3>2
      <4> QED BY <4>1
    <3> QED BY <3>1, <3>2
  <2>2. /\ Goes(Main, "acknowledged", IF v THEN "watch" ELSE "stop")
        /\ mem' = [mem EXCEPT !.success = v]
        /\ UNCHANGED <<signaled, open, faulted>>
    BY <1>9, <2>1 DEF Handle!Require
  <2>3. ProcessInv' /\ Moved(Main, IF v THEN "watch" ELSE "stop")
    BY <1>0, <2>2, Moves DEF ProcessInv
  <2>4. HandleType' /\ mem'.success = v
        /\ UNCHANGED <<mem.joined, mem.duplicate, mem.closed, mem.progress,
             mem.acknowledged, mem.before>>
    BY <1>0, <2>2 DEF HandleType
  <2>5. ~v => faulted # {}
    BY <1>0, <2>1, <2>2 DEF ClosedInv, HandleType, CleanUp, Only, Verdict
  <2> QED BY <1>0, <2>1, <2>2, <2>3, <2>4, <2>5 DEF ClosedInv, HandleType, CleanUp,
             Only, Verdict
<1>10. CASE pc["A"] = "none" /\ Handle!Call(Main, "join", "close")
  <2>1. /\ Goes(Main, "join", "close")
        /\ UNCHANGED <<signaled, open, mem, faulted>>
        /\ pc["A"] = "none"
    BY <1>10
  <2>2. ProcessInv' /\ Moved(Main, "close")
    BY <1>0, <2>1, Moves DEF ProcessInv
  <2> QED BY <1>0, <2>1, <2>2 DEF ClosedInv, HandleType, CleanUp, Only, Verdict
<1>11. CASE /\ Ended("A")
            /\ Handle!Store(Main, "join", [mem EXCEPT !.success = @ /\ pc["A"] =
                 "done"], "close")
  <2>1. PICK v \in BOOLEAN : v = (mem.success /\ pc["A"] = "done")
    OBVIOUS
  <2>2. /\ Goes(Main, "join", "close")
        /\ Ended("A")
        /\ mem' = [mem EXCEPT !.success = v]
        /\ UNCHANGED <<signaled, open, faulted>>
    BY <1>11, <2>1
  <2>3. ProcessInv' /\ Moved(Main, "close")
    BY <1>0, <2>2, Moves DEF ProcessInv
  <2>4. HandleType' /\ mem'.success = v
        /\ UNCHANGED <<mem.joined, mem.duplicate, mem.closed, mem.progress,
             mem.acknowledged, mem.before>>
    BY <1>0, <2>2 DEF HandleType
  <2>5. ~v => faulted # {}
    BY <1>0, <2>1, <2>2 DEF ClosedInv, HandleType, CleanUp, Only, Verdict
  <2> QED BY <1>0, <2>1, <2>2, <2>3, <2>4, <2>5 DEF ClosedInv, HandleType, CleanUp,
             Only, Verdict
<1>12. CASE Ended("A") /\ Handle!StepFails("join", "call", "close")
  <2>1. /\ Goes(Main, "join", "close")
        /\ Fault("call")
        /\ mem' = [mem EXCEPT !.success = FALSE]
        /\ UNCHANGED <<signaled, open>>
        /\ Ended("A")
    BY <1>12
  <2>2. ProcessInv' /\ Moved(Main, "close")
    BY <1>0, <2>1, Moves DEF ProcessInv
  <2>3. HandleType' /\ ~mem'.success
        /\ UNCHANGED <<mem.joined, mem.duplicate, mem.closed, mem.progress,
             mem.acknowledged, mem.before>>
    BY <1>0, <2>1 DEF HandleType
  <2> QED BY <1>0, <2>1, <2>2, <2>3 DEF ClosedInv, HandleType, CleanUp, Only, Verdict
<1>13. CASE /\ Handle!Alive("A") /\ Handle!Go(Main, "join", "close")
            /\ Handle!Fault("slow")
            /\ mem' = [mem EXCEPT !.success = FALSE, !.joined = FALSE]
            /\ UNCHANGED <<suspends, signaled, open, exit>>
  <2>1. /\ Goes(Main, "join", "close")
        /\ Fault("slow")
        /\ mem' = [mem EXCEPT !.success = FALSE, !.joined = FALSE]
        /\ UNCHANGED <<signaled, open>>
    BY <1>13
  <2>2. ProcessInv' /\ Moved(Main, "close")
    BY <1>0, <2>1, Moves DEF ProcessInv
  <2>3. HandleType' /\ ~mem'.success /\ ~mem'.joined
        /\ UNCHANGED <<mem.duplicate, mem.closed, mem.progress, mem.acknowledged,
             mem.before>>
    BY <1>0, <2>1 DEF HandleType
  <2> QED BY <1>0, <2>1, <2>2, <2>3 DEF ClosedInv, HandleType, CleanUp, Only, Verdict
<1>14. CASE /\ Handle!Go(Main, "close", "verdict") /\ open' = ~mem.joined
            /\ Handle!NoFault /\ UNCHANGED mem
            /\ UNCHANGED <<suspends, signaled, exit>>
  <2>1. /\ pc[Main] = "close" /\ exit = "running" /\ suspends[Main] = 0
        /\ pc' = [pc EXCEPT ![Main] = "verdict"] /\ open' = ~mem.joined
        /\ UNCHANGED <<mem, faulted>>
        /\ UNCHANGED <<suspends, signaled, exit>>
    BY <1>14 DEF Handle!NoFault
  <2>2. ProcessInv' /\ Moved(Main, "verdict")
    BY <1>0, <2>1, Moves DEF ProcessInv
  <2> QED BY <1>0, <2>1, <2>2 DEF ClosedInv, HandleType, CleanUp, Only, Verdict
<1>15. CASE /\ Handle!Go(Main, "close", "verdict") /\ open' = ~mem.joined
            /\ Handle!Fault("call") /\ mem' = [mem EXCEPT !.success = FALSE]
            /\ UNCHANGED <<suspends, signaled, exit>>
  <2>1. /\ Goes(Main, "close", "verdict")
        /\ open' = ~mem.joined
        /\ Fault("call") /\ mem' = [mem EXCEPT !.success = FALSE]
        /\ UNCHANGED signaled
    BY <1>15
  <2>2. ProcessInv' /\ Moved(Main, "verdict")
    BY <1>0, <2>1, Moves DEF ProcessInv
  <2>3. HandleType' /\ ~mem'.success
        /\ UNCHANGED <<mem.joined, mem.duplicate, mem.closed, mem.progress,
             mem.acknowledged, mem.before>>
    BY <1>0, <2>1 DEF HandleType
  <2> QED BY <1>0, <2>1, <2>2, <2>3 DEF ClosedInv, HandleType, CleanUp, Only, Verdict
<1>16. CASE Handle!Return("verdict", mem.success)
  <2>1. /\ pc[Main] = "verdict" /\ exit = "running"
        /\ exit' = IF mem.success THEN "passed" ELSE "failed"
        /\ UNCHANGED <<pc, suspends, signaled, open, mem, faulted>>
    BY <1>16
  <2>2. ProcessInv'
    BY <2>1, Ends DEF Status
  <2> QED BY <1>0, <2>1, <2>2 DEF ClosedInv, HandleType, CleanUp, Only, Verdict
<1>17. CASE t = "A" /\ Handle!ProgressWorker(t)
  BY <1>17, ProgressWorkerStep
<1>18. Handle!HasHandle
  BY DEF ClosedInv, Handle!HasHandle, HandleType
<1> HIDE DEF Handle!Go, Handle!At, Handle!Running, Handle!Call, Handle!others,
    Handle!Store, Handle!SignalEvent, Handle!Await, Handle!Satisfied, Handle!Worker,
    Handle!Ended, Handle!Fault, Handle!EndProcess, Handle!Return, Handle!CreateThread,
    Handle!Alive, Handle!StepFails, Handle!SignalAnyway
<1>19. ASSUME NEW from, NEW event, NEW to, Awaiting(from, event, to),
              Handle!AwaitOrAbort(from, {event}, to, "stop")
       PROVE  ProcessInv' /\ ClosedInv'
  BY <1>19, <1>3, <1>4 DEF Handle!AwaitOrAbort
<1>20. CASE Handle!SignalAnyway("stop", "stop", "join")
  BY <1>20, <1>5, <1>4 DEF Handle!SignalAnyway
<1>21. CASE Handle!Join("join", "A", pc["A"] = "done", "close", "close")
  BY <1>21, <1>10, <1>11, <1>12, <1>13 DEF Handle!Join, Handle!Ended
<1>22. ASSUME t = Main, Handle!CloseMain
       PROVE  ProcessInv' /\ ClosedInv'
  BY <1>22, <1>1, <1>2, <1>3, <1>4, <1>5, <1>6, <1>7, <1>8, <1>9, <1>14, <1>15, <1>16,
     <1>18, <1>19, <1>20, <1>21 DEF Handle!CloseMain, Handle!CallAborts,
     Handle!CloseJoined, Handle!JoinByHandle
<1> QED BY <1>17, <1>22 DEF Handle!ClosedWhileRunning, Handle!Main

\* The worker of retained_thread_handle.cpp.
LEMMA CooperativeWorkerStep ==
  ASSUME ProcessInv, RetainedInv, UNCHANGED program, Handle!CooperativeWorker("A")
  PROVE  ProcessInv' /\ RetainedInv'
<1> USE DEF Handle!Go, Handle!At, Handle!Running, Handle!Call, Handle!others,
    Handle!SignalEvent, Handle!Await, Handle!Satisfied, Handle!Worker, Handle!Ended,
    Handle!Fault, Handle!Fails, Fault, Ended, Main, Moved, Faulty, NoFault, Alive, Goes
<1>0. /\ "A" \in Worker /\ "A" \in Thread /\ Main \in Thread /\ Worker \subseteq Thread
      /\ Worker = {"A", "B", "C"} /\ signaled \cap Worker = {} /\ 0 \in Nat
      /\ HandleType /\ mem.progress \in Nat /\ mem.acknowledged \in Nat
      /\ mem.before \in Nat
  BY DEF ProcessInv, Thread, Worker, RetainedInv, HandleType
<1>1. CASE Handle!SignalEvent("A", "begin", "entered", "gate")
  <2>1. /\ Goes("A", "begin", "gate")
        /\ signaled' = signaled \cup {"entered"}
        /\ UNCHANGED <<open, mem, faulted>>
    BY <1>1
  <2>2. ProcessInv' /\ Moved("A", "gate")
    BY <1>0, <2>1, Moves DEF ProcessInv
  <2> QED BY <1>0, <2>1, <2>2 DEF RetainedInv, HandleType, CleanUp, Only, Verdict
<1>2. CASE Handle!Fails("A", "begin", "call", "failed")
  <2>1. /\ Goes("A", "begin", "failed")
        /\ Fault("call")
        /\ UNCHANGED <<signaled, open, mem>>
    BY <1>2
  <2>2. ProcessInv' /\ Moved("A", "failed")
    BY <1>0, <2>1, Moves DEF ProcessInv
  <2> QED BY <1>0, <2>1, <2>2 DEF RetainedInv, HandleType, CleanUp, Only, Verdict
<1>3. CASE Handle!Await("A", "gate", {"stop"}, "done")
  <2>1. /\ Goes("A", "gate", "done")
        /\ UNCHANGED <<signaled, open, mem, faulted>>
        /\ "stop" \in signaled
    BY <1>3, <1>0
  <2>2. ProcessInv' /\ Moved("A", "done")
    BY <1>0, <2>1, Moves DEF ProcessInv
  <2> QED BY <1>0, <2>1, <2>2 DEF RetainedInv, HandleType, CleanUp, Only, Verdict
<1>4. CASE ~Handle!Satisfied({"stop"}) /\ Handle!Fails("A", "gate", "slow", "failed")
  <2>1. /\ Goes("A", "gate", "failed")
        /\ Fault("slow")
        /\ UNCHANGED <<signaled, open, mem>>
    BY <1>4
  <2>2. ProcessInv' /\ Moved("A", "failed")
    BY <1>0, <2>1, Moves DEF ProcessInv
  <2> QED BY <1>0, <2>1, <2>2 DEF RetainedInv, HandleType, CleanUp, Only, Verdict
<1> QED BY <1>1, <1>2, <1>3, <1>4 DEF Handle!CooperativeWorker, Handle!SignalOrFail,
           Handle!AwaitOrFail, Handle!WorkerFails

\* The steps of retained_thread_handle.cpp.
LEMMA RetainedStep ==
  ASSUME ProcessInv, UNCHANGED program, RetainedInv, NEW t \in Thread,
         Handle!Retained(t)
  PROVE  ProcessInv' /\ RetainedInv'
<1> USE DEF Handle!Go, Handle!At, Handle!Running, Handle!Call, Handle!others,
    Handle!Store, Handle!SignalEvent, Handle!Await, Handle!Satisfied, Handle!Worker,
    Handle!Main, Handle!Ended, Handle!Fault, Handle!EndProcess, Handle!Return,
    Handle!CreateThread, Handle!Alive, Handle!StepFails, Handle!SignalAnyway, Fault,
    Ended, Main, Moved, Faulty, NoFault, Alive, Goes
<1>0. /\ "A" \in Worker /\ "A" \in Thread /\ Main \in Thread /\ Worker \subseteq Thread
      /\ Worker = {"A", "B", "C"} /\ signaled \cap Worker = {} /\ 0 \in Nat
      /\ HandleType /\ mem.progress \in Nat /\ mem.acknowledged \in Nat
      /\ mem.before \in Nat
  BY DEF ProcessInv, Thread, Worker, RetainedInv, HandleType
<1>1. CASE Handle!CreateThread("create", "A", 0, "name")
  <2>1. /\ pc[Main] = "create" /\ exit = "running" /\ suspends[Main] = 0
        /\ pc' = [pc EXCEPT ![Main] = "name", !["A"] = "begin"]
        /\ suspends' = [suspends EXCEPT !["A"] = 0]
        /\ UNCHANGED <<signaled, open, mem, exit, faulted>>
    BY <1>1
  <2>2. suspends' \in [Thread -> Nat] /\ suspends'["A"] = 0
    BY <1>0, <2>1 DEF ProcessInv
  <2>3. /\ ProcessInv' /\ pc'[Main] = "name" /\ pc'["A"] = "begin"
        /\ \A u \in Thread \ {Main, "A"} : pc'[u] = pc[u]
    BY <1>0, <2>1, <2>2, Creates
  <2>4. "entered" \notin signaled
    BY <1>0, <2>1 DEF RetainedInv
  <2>5. pc'["B"] = pc["B"] /\ pc'["C"] = pc["C"]
    BY <2>3 DEF Thread, Main, Worker
  <2> QED BY <1>0, <2>1, <2>2, <2>3, <2>4, <2>5 DEF RetainedInv, HandleType, CleanUp,
             Only, Verdict
<1> DEFINE Calling(from, to) == \/ from = "name" /\ to = "await"
                                \/ from = "inspect" /\ to = "stop"
<1>2. ASSUME NEW from, NEW to, Calling(from, to),
             Handle!Call(Main, from, to)
      PROVE  ProcessInv' /\ RetainedInv'
  <2>1. /\ Goes(Main, from, to)
        /\ UNCHANGED <<signaled, open, mem, faulted>>
        /\ Calling(from, to)
    BY <1>2
  <2>2. ProcessInv' /\ Moved(Main, to)
    BY <1>0, <2>1, Moves DEF ProcessInv
  <2> QED BY <1>0, <2>1, <2>2 DEF RetainedInv, HandleType, CleanUp, Only, Verdict
<1> DEFINE Awaiting(from, event, to) ==
      \/ from = "await" /\ event = "entered" /\ to = "active"
<1>3. ASSUME NEW from, NEW event, NEW to, Awaiting(from, event, to),
             Handle!Await(Main, from, {event}, to)
      PROVE  ProcessInv' /\ RetainedInv'
  <2>1. /\ Goes(Main, from, to)
        /\ UNCHANGED <<signaled, open, mem, faulted>>
        /\ Awaiting(from, event, to)
        /\ event \in signaled
    BY <1>3, <1>0
  <2>2. ProcessInv' /\ Moved(Main, to)
    BY <1>0, <2>1, Moves DEF ProcessInv
  <2> QED BY <1>0, <2>1, <2>2 DEF RetainedInv, HandleType, CleanUp, Only, Verdict
<1> DEFINE Failing(from, to) == \/ from \in {"create", "name", "await",
                                             "active", "inspect"} /\ to = "stop"
                                \/ from = "stop" /\ to = "join"
<1>4. ASSUME NEW from, NEW to, NEW f, Failing(from, to),
             Handle!StepFails(from, f, to)
      PROVE  ProcessInv' /\ RetainedInv'
  <2>1. /\ Goes(Main, from, to)
        /\ Fault(f)
        /\ mem' = [mem EXCEPT !.success = FALSE]
        /\ UNCHANGED <<signaled, open>>
        /\ Failing(from, to)
    BY <1>4
  <2>2. ProcessInv' /\ Moved(Main, to)
    BY <1>0, <2>1, Moves DEF ProcessInv
  <2>3. HandleType' /\ ~mem'.success
        /\ UNCHANGED <<mem.joined, mem.duplicate, mem.closed, mem.progress,
             mem.acknowledged, mem.before>>
    BY <1>0, <2>1 DEF HandleType
  <2> QED BY <1>0, <2>1, <2>2, <2>3 DEF RetainedInv, HandleType, CleanUp, Only, Verdict
<1> DEFINE Signaling(from, event, to) ==
      \/ from = "stop" /\ event = "stop" /\ to = "join"
<1>5. ASSUME NEW from, NEW event, NEW to, Signaling(from, event, to),
             Handle!SignalEvent(Main, from, event, to)
      PROVE  ProcessInv' /\ RetainedInv'
  <2>1. /\ Goes(Main, from, to)
        /\ signaled' = signaled \cup {event}
        /\ UNCHANGED <<open, mem, faulted>>
        /\ Signaling(from, event, to)
    BY <1>5
  <2>2. ProcessInv' /\ Moved(Main, to)
    BY <1>0, <2>1, Moves DEF ProcessInv
  <2> QED BY <1>0, <2>1, <2>2 DEF RetainedInv, HandleType, CleanUp, Only, Verdict
<1>6. CASE Handle!Require("active", Handle!Alive("A"), "inspect", "stop")
  <2>1. PICK v \in BOOLEAN : v = (Handle!Alive("A"))
    OBVIOUS
  <2>2. /\ Goes(Main, "active", IF v THEN "inspect" ELSE "stop")
        /\ mem' = [mem EXCEPT !.success = v]
        /\ UNCHANGED <<signaled, open, faulted>>
    BY <1>6, <2>1 DEF Handle!Require
  <2>3. ProcessInv' /\ Moved(Main, IF v THEN "inspect" ELSE "stop")
    BY <1>0, <2>2, Moves DEF ProcessInv
  <2>4. HandleType' /\ mem'.success = v
        /\ UNCHANGED <<mem.joined, mem.duplicate, mem.closed, mem.progress,
             mem.acknowledged, mem.before>>
    BY <1>0, <2>2 DEF HandleType
  <2>5. ~v => faulted # {}
    BY <1>0, <2>1, <2>2 DEF RetainedInv, HandleType, CleanUp, Only, Verdict
  <2> QED BY <1>0, <2>1, <2>2, <2>3, <2>4, <2>5 DEF RetainedInv, HandleType, CleanUp,
             Only, Verdict
<1>7. CASE pc["A"] = "none" /\ Handle!Call(Main, "join", "retained")
  <2>1. /\ Goes(Main, "join", "retained")
        /\ UNCHANGED <<signaled, open, mem, faulted>>
        /\ pc["A"] = "none"
    BY <1>7
  <2>2. ProcessInv' /\ Moved(Main, "retained")
    BY <1>0, <2>1, Moves DEF ProcessInv
  <2> QED BY <1>0, <2>1, <2>2 DEF RetainedInv, HandleType, CleanUp, Only, Verdict
<1>8. CASE /\ Ended("A")
           /\ Handle!Store(Main, "join", [mem EXCEPT !.success = @ /\ pc["A"] =
                "done"], "retained")
  <2>1. PICK v \in BOOLEAN : v = (mem.success /\ pc["A"] = "done")
    OBVIOUS
  <2>2. /\ Goes(Main, "join", "retained")
        /\ Ended("A")
        /\ mem' = [mem EXCEPT !.success = v]
        /\ UNCHANGED <<signaled, open, faulted>>
    BY <1>8, <2>1
  <2>3. ProcessInv' /\ Moved(Main, "retained")
    BY <1>0, <2>2, Moves DEF ProcessInv
  <2>4. HandleType' /\ mem'.success = v
        /\ UNCHANGED <<mem.joined, mem.duplicate, mem.closed, mem.progress,
             mem.acknowledged, mem.before>>
    BY <1>0, <2>2 DEF HandleType
  <2>5. ~v => faulted # {}
    BY <1>0, <2>1, <2>2 DEF RetainedInv, HandleType, CleanUp, Only, Verdict
  <2> QED BY <1>0, <2>1, <2>2, <2>3, <2>4, <2>5 DEF RetainedInv, HandleType, CleanUp,
             Only, Verdict
<1>9. CASE Ended("A") /\ Handle!StepFails("join", "call", "retained")
  <2>1. /\ Goes(Main, "join", "retained")
        /\ Fault("call")
        /\ mem' = [mem EXCEPT !.success = FALSE]
        /\ UNCHANGED <<signaled, open>>
        /\ Ended("A")
    BY <1>9
  <2>2. ProcessInv' /\ Moved(Main, "retained")
    BY <1>0, <2>1, Moves DEF ProcessInv
  <2>3. HandleType' /\ ~mem'.success
        /\ UNCHANGED <<mem.joined, mem.duplicate, mem.closed, mem.progress,
             mem.acknowledged, mem.before>>
    BY <1>0, <2>1 DEF HandleType
  <2> QED BY <1>0, <2>1, <2>2, <2>3 DEF RetainedInv, HandleType, CleanUp, Only, Verdict
<1>10. CASE /\ Handle!Alive("A") /\ Handle!Go(Main, "join", "close")
            /\ Handle!Fault("slow")
            /\ mem' = [mem EXCEPT !.success = FALSE, !.joined = FALSE]
            /\ UNCHANGED <<suspends, signaled, open, exit>>
  <2>1. /\ Goes(Main, "join", "close")
        /\ Fault("slow")
        /\ mem' = [mem EXCEPT !.success = FALSE, !.joined = FALSE]
        /\ UNCHANGED <<signaled, open>>
    BY <1>10
  <2>2. ProcessInv' /\ Moved(Main, "close")
    BY <1>0, <2>1, Moves DEF ProcessInv
  <2>3. HandleType' /\ ~mem'.success /\ ~mem'.joined
        /\ UNCHANGED <<mem.duplicate, mem.closed, mem.progress, mem.acknowledged,
             mem.before>>
    BY <1>0, <2>1 DEF HandleType
  <2> QED BY <1>0, <2>1, <2>2, <2>3 DEF RetainedInv, HandleType, CleanUp, Only, Verdict
<1>11. CASE Handle!Require("retained", pc["A"] = "done", "close", "close")
  <2>1. PICK v \in BOOLEAN : v = (pc["A"] = "done")
    OBVIOUS
  <2>2. /\ Goes(Main, "retained", IF v THEN "close" ELSE "close")
        /\ mem' = [mem EXCEPT !.success = v]
        /\ UNCHANGED <<signaled, open, faulted>>
    BY <1>11, <2>1 DEF Handle!Require
  <2>3. ProcessInv' /\ Moved(Main, IF v THEN "close" ELSE "close")
    BY <1>0, <2>2, Moves DEF ProcessInv
  <2>4. HandleType' /\ mem'.success = v
        /\ UNCHANGED <<mem.joined, mem.duplicate, mem.closed, mem.progress,
             mem.acknowledged, mem.before>>
    BY <1>0, <2>2 DEF HandleType
  <2>5. ~v => faulted # {}
    BY <1>0, <2>1, <2>2 DEF RetainedInv, HandleType, CleanUp, Only, Verdict
  <2> QED BY <1>0, <2>1, <2>2, <2>3, <2>4, <2>5 DEF RetainedInv, HandleType, CleanUp,
             Only, Verdict
<1>12. CASE Handle!StepFails("retained", "call", "close")
  <2>1. /\ Goes(Main, "retained", "close")
        /\ Fault("call")
        /\ mem' = [mem EXCEPT !.success = FALSE]
        /\ UNCHANGED <<signaled, open>>
    BY <1>12
  <2>2. ProcessInv' /\ Moved(Main, "close")
    BY <1>0, <2>1, Moves DEF ProcessInv
  <2>3. HandleType' /\ ~mem'.success
        /\ UNCHANGED <<mem.joined, mem.duplicate, mem.closed, mem.progress,
             mem.acknowledged, mem.before>>
    BY <1>0, <2>1 DEF HandleType
  <2> QED BY <1>0, <2>1, <2>2, <2>3 DEF RetainedInv, HandleType, CleanUp, Only, Verdict
<1>13. CASE Handle!Call(Main, "retained", "close") /\ ~mem.success
  <2>1. /\ Goes(Main, "retained", "close")
        /\ UNCHANGED <<signaled, open, mem, faulted>>
        /\ ~mem.success
    BY <1>13
  <2>2. ProcessInv' /\ Moved(Main, "close")
    BY <1>0, <2>1, Moves DEF ProcessInv
  <2> QED BY <1>0, <2>1, <2>2 DEF RetainedInv, HandleType, CleanUp, Only, Verdict
<1>14. CASE /\ Handle!Go(Main, "close", "verdict") /\ open' = ~mem.joined
            /\ Handle!NoFault /\ UNCHANGED mem
            /\ UNCHANGED <<suspends, signaled, exit>>
  <2>1. /\ pc[Main] = "close" /\ exit = "running" /\ suspends[Main] = 0
        /\ pc' = [pc EXCEPT ![Main] = "verdict"] /\ open' = ~mem.joined
        /\ UNCHANGED <<mem, faulted>>
        /\ UNCHANGED <<suspends, signaled, exit>>
    BY <1>14 DEF Handle!NoFault
  <2>2. ProcessInv' /\ Moved(Main, "verdict")
    BY <1>0, <2>1, Moves DEF ProcessInv
  <2> QED BY <1>0, <2>1, <2>2 DEF RetainedInv, HandleType, CleanUp, Only, Verdict
<1>15. CASE /\ Handle!Go(Main, "close", "verdict") /\ open' = ~mem.joined
            /\ Handle!Fault("call") /\ mem' = [mem EXCEPT !.success = FALSE]
            /\ UNCHANGED <<suspends, signaled, exit>>
  <2>1. /\ Goes(Main, "close", "verdict")
        /\ open' = ~mem.joined
        /\ Fault("call") /\ mem' = [mem EXCEPT !.success = FALSE]
        /\ UNCHANGED signaled
    BY <1>15
  <2>2. ProcessInv' /\ Moved(Main, "verdict")
    BY <1>0, <2>1, Moves DEF ProcessInv
  <2>3. HandleType' /\ ~mem'.success
        /\ UNCHANGED <<mem.joined, mem.duplicate, mem.closed, mem.progress,
             mem.acknowledged, mem.before>>
    BY <1>0, <2>1 DEF HandleType
  <2> QED BY <1>0, <2>1, <2>2, <2>3 DEF RetainedInv, HandleType, CleanUp, Only, Verdict
<1>16. CASE Handle!Return("verdict", mem.success)
  <2>1. /\ pc[Main] = "verdict" /\ exit = "running"
        /\ exit' = IF mem.success THEN "passed" ELSE "failed"
        /\ UNCHANGED <<pc, suspends, signaled, open, mem, faulted>>
    BY <1>16
  <2>2. ProcessInv'
    BY <2>1, Ends DEF Status
  <2> QED BY <1>0, <2>1, <2>2 DEF RetainedInv, HandleType, CleanUp, Only, Verdict
<1>17. CASE t = "A" /\ Handle!CooperativeWorker(t)
  BY <1>17, CooperativeWorkerStep
<1> HIDE DEF Handle!Go, Handle!At, Handle!Running, Handle!Call, Handle!others,
    Handle!Store, Handle!SignalEvent, Handle!Await, Handle!Satisfied, Handle!Worker,
    Handle!Ended, Handle!Fault, Handle!EndProcess, Handle!Return, Handle!CreateThread,
    Handle!Alive, Handle!StepFails, Handle!SignalAnyway
<1>18. ASSUME NEW from, NEW event, NEW to, Awaiting(from, event, to),
              Handle!AwaitOrAbort(from, {event}, to, "stop")
       PROVE  ProcessInv' /\ RetainedInv'
  BY <1>18, <1>3, <1>4 DEF Handle!AwaitOrAbort
<1>19. CASE Handle!SignalAnyway("stop", "stop", "join")
  BY <1>19, <1>5, <1>4 DEF Handle!SignalAnyway
<1>20. CASE Handle!Join("join", "A", pc["A"] = "done", "retained", "close")
  BY <1>20, <1>7, <1>8, <1>9, <1>10 DEF Handle!Join, Handle!Ended
<1>21. ASSUME t = Main, Handle!RetainedMain
       PROVE  ProcessInv' /\ RetainedInv'
  BY <1>21, <1>1, <1>2, <1>3, <1>4, <1>5, <1>6, <1>11, <1>12, <1>13, <1>14, <1>15,
     <1>16, <1>18, <1>19, <1>20 DEF Handle!RetainedMain, Handle!CallAborts,
     Handle!CloseJoined
<1> QED BY <1>17, <1>21 DEF Handle!Retained, Handle!Main

-----------------------------------------------------------------------------
(* The steps of the pool of WorkItems *)

\* The index goes round.
LEMMA NextTasks ==
  ASSUME NEW n \in 1..Tasks
  PROVE  (n % Tasks) + 1 = IF n = Tasks THEN 1 ELSE n + 1
<1>0. Tasks \in Nat \ {0}
  BY LifeCycleAssumption
<1>1. CASE n = Tasks
  BY <1>0, <1>1
<1>2. CASE n # Tasks
  BY <1>0, <1>2
<1> QED BY <1>1, <1>2

\* A thread of the pool takes an item, counts itself, raises the peak to its
\* count and returns.
LEMMA PoolWorkerStep ==
  ASSUME ProcessInv, PoolInv, UNCHANGED program, NEW w \in Pool,
         Items!TakeItem(w) \/ Items!PoolWorkCallback(w)
  PROVE  ProcessInv' /\ PoolInv'
<1> USE DEF Items!Go, Items!At, Items!Running, Items!Call, Items!others, Items!Store,
    Items!Fault, Fault, Ended, Main, Moved, Faulty, NoFault, Alive, Goes
<1>0. /\ w \in Thread /\ w \in Worker /\ Main \in Thread /\ Main # w
      /\ Pool = {"A", "B"}
      /\ Worker \subseteq Thread /\ Worker = {"A", "B", "C"}
      /\ signaled \cap Worker = {}
      /\ Tasks \in Nat \ {0}
      /\ PoolType /\ PlaceInv /\ PeakInv
  BY LifeCycleAssumption DEF ProcessInv, Thread, Worker, PoolInv, Pool
<1>a. /\ mem.next \in 1..Tasks /\ mem.queue \in Seq(1..Tasks) /\ mem.active \in Int
      /\ mem.peak \in Nat /\ mem.highest \in Nat /\ mem.returned \subseteq 1..Tasks
      /\ mem.completed \subseteq 1..Tasks /\ \A v \in Pool : mem.item[v] \in 0..Tasks
      /\ \A v \in Pool : mem.count[v] \in Nat /\ mem.observed[v] \in Nat
  BY <1>0 DEF PoolType, Pool
<1>1. CASE Items!TakeItem(w)
  <2>1. /\ Goes(w, "none", "name")
        /\ mem' = [mem EXCEPT !.queue = Tail(@), !.item[w] = Head(mem.queue)]
        /\ mem.queue # <<>>
        /\ UNCHANGED <<signaled, open, faulted>>
    BY <1>1 DEF Items!TakeItem
  <2>2. PICK q \in Seq(1..Tasks), h \in 1..Tasks :
                 /\ q = Tail(mem.queue) /\ h = Head(mem.queue) /\ h = mem.queue[1]
                 /\ 1 \in 1..Len(mem.queue) /\ Len(q) = Len(mem.queue) - 1
                 /\ \A i \in 1..Len(q) : i + 1 \in 1..Len(mem.queue) /\ q[i] =
                      mem.queue[i + 1]
    <3>1. 1 \in 1..Len(mem.queue) /\ Tail(mem.queue) \in Seq(1..Tasks)
      <4>1. Len(mem.queue) \in Nat /\ Len(mem.queue) # 0
        BY <1>a, <2>1, EmptySeq
      <4>2. Tail(mem.queue) \in Seq(1..Tasks)
        BY <1>a, <2>1, HeadTailProperties
      <4> QED BY <4>1, <4>2
    <3>2. Head(mem.queue) \in 1..Tasks /\ Head(mem.queue) = mem.queue[1]
      <4>1. Head(mem.queue) \in 1..Tasks
        BY <1>a, <2>1, HeadTailProperties
      <4> QED BY <1>a, <2>1, <4>1
    <3>3. /\ Len(Tail(mem.queue)) = Len(mem.queue) - 1
          /\ \A i \in 1..Len(Tail(mem.queue)) :
               i + 1 \in 1..Len(mem.queue) /\ Tail(mem.queue)[i] = mem.queue[i + 1]
      BY <1>a, <2>1, HeadTailProperties
    <3> QED BY <3>1, <3>2, <3>3
  <2>3. mem' = [mem EXCEPT !.queue = q, !.item[w] = h]
    BY <2>1, <2>2
  <2>4. ProcessInv' /\ Moved(w, "name")
    BY <1>0, <2>1, Moves DEF ProcessInv
  <2>5. /\ PoolType' /\ mem'.queue = q /\ mem'.item[w] = h
        /\ \A v \in Pool \ {w} : mem'.item[v] = mem.item[v]
        /\ UNCHANGED <<mem.next, mem.returned, mem.active, mem.peak, mem.count,
             mem.observed, mem.completed, mem.named, mem.highest>>
    <3>1. /\ w \in Worker
          /\ mem.item \in [Worker -> 0..Tasks]
          /\ h \in 0..Tasks
      BY <1>0 DEF PoolType
    <3>2. PICK f \in [Worker -> 0..Tasks] : f = [mem.item EXCEPT ![w] = h]
      BY <3>1
    <3>3. f[w] = h /\ \A v \in Worker \ {w} : f[v] = mem.item[v]
      BY <3>1, <3>2
    <3>4. mem' = [mem EXCEPT !.queue = q, !.item = f]
      BY <2>3, <3>2, <3>3
    <3>5. /\ PoolType' /\ mem'.item = f /\ mem'.queue = q
          /\ UNCHANGED <<mem.next, mem.returned, mem.active, mem.peak, mem.count,
               mem.observed, mem.completed, mem.named, mem.highest>>
      BY <1>0, <3>1, <3>4 DEF PoolType
    <3> QED BY <1>0, <3>2, <3>3, <3>5
  <2>6. Submitted' = Submitted
    BY <1>0, <2>1, <2>2, <2>3, <2>4, <2>5 DEF Submitted
  <2>7. PlaceInv'
    BY <1>0, <2>1, <2>2, <2>3, <2>4, <2>5, <2>6 DEF PlaceInv, Pool
  <2>8. PeakInv'
    BY <1>0, <1>a, <2>1, <2>4, <2>5 DEF PeakInv, Counted, Pool
  <2> QED BY <1>0, <2>1, <2>2, <2>3, <2>4, <2>5, <2>6, <2>7, <2>8 DEF PoolInv, Only,
             Verdict
<1>2. CASE Items!Call(w, "name", "count")
  <2>1. /\ Goes(w, "name", "count")
        /\ UNCHANGED <<signaled, open, mem, faulted>>
    BY <1>2
  <2>2. ProcessInv' /\ Moved(w, "count")
    BY <1>0, <2>1, Moves DEF ProcessInv
  <2>3. PoolType'
    BY <1>0, <2>1 DEF PoolType
  <2>4. Submitted' = Submitted
    BY <1>0, <2>1, <2>2, <2>3 DEF Submitted
  <2>5. PlaceInv'
    BY <1>0, <2>1, <2>2, <2>3, <2>4 DEF PlaceInv, Pool
  <2>6. PeakInv'
    BY <1>0, <1>a, <2>1, <2>2, <2>3, <2>4, <2>5 DEF PeakInv, Counted, Pool
  <2> QED BY <1>0, <2>1, <2>2, <2>3, <2>4, <2>5, <2>6 DEF PoolInv, Only, Verdict
<1>3. CASE /\ Items!Go(w, "name", "count") /\ Items!Fault("call")
           /\ mem' = [mem EXCEPT !.named = FALSE]
           /\ UNCHANGED <<suspends, signaled, open, exit>>
  <2>1. /\ Goes(w, "name", "count")
        /\ Fault("call")
        /\ mem' = [mem EXCEPT !.named = FALSE]
        /\ UNCHANGED <<signaled, open>>
    BY <1>3
  <2>2. ProcessInv' /\ Moved(w, "count")
    BY <1>0, <2>1, Moves DEF ProcessInv
  <2>3. /\ PoolType' /\ ~mem'.named
        /\ UNCHANGED <<mem.next, mem.queue, mem.item, mem.returned, mem.active,
             mem.peak, mem.count, mem.observed, mem.completed, mem.highest>>
    BY <1>0, <2>1 DEF PoolType
  <2>4. Submitted' = Submitted
    BY <1>0, <2>1, <2>2, <2>3 DEF Submitted
  <2>5. PlaceInv'
    BY <1>0, <2>1, <2>2, <2>3, <2>4 DEF PlaceInv, Pool
  <2>6. PeakInv'
    BY <1>0, <1>a, <2>1, <2>2, <2>3, <2>4, <2>5 DEF PeakInv, Counted, Pool
  <2> QED BY <1>0, <2>1, <2>2, <2>3, <2>4, <2>5, <2>6 DEF PoolInv, Only, Verdict
<1>4. CASE Items!CountIn(w)
  <2>1. /\ Goes(w, "count", "sample")
        /\ mem' = [mem EXCEPT !.active = mem.active + 1, !.count[w] = mem.active + 1,
                                   !.highest = IF mem.active + 1 > @
                                     THEN mem.active + 1 ELSE @]
        /\ UNCHANGED <<signaled, open, faulted>>
    BY <1>4 DEF Items!CountIn
  <2>2. PICK n \in 1..2, h \in 1..2 :
                 /\ n = mem.active + 1 /\ n <= h /\ mem.highest <= h
                 /\ h = IF mem.active + 1 > mem.highest THEN mem.active + 1
                      ELSE mem.highest
    BY <1>0, <1>a, <2>1 DEF PeakInv, Counted, Pool
  <2>3. mem' = [mem EXCEPT !.active = n, !.count[w] = n, !.highest = h]
    BY <2>1, <2>2
  <2>4. ProcessInv' /\ Moved(w, "sample")
    BY <1>0, <2>1, Moves DEF ProcessInv
  <2>5. /\ PoolType' /\ mem'.active = n /\ mem'.highest = h /\ mem'.count[w] = n
        /\ \A v \in Pool \ {w} : mem'.count[v] = mem.count[v]
        /\ UNCHANGED <<mem.next, mem.queue, mem.item, mem.returned, mem.peak,
             mem.observed, mem.completed, mem.named>>
    <3>1. /\ w \in Worker
          /\ mem.count \in [Worker -> Nat]
          /\ n \in Nat
          /\ h \in Nat /\ n \in Int
      BY <1>0 DEF PoolType
    <3>2. PICK f \in [Worker -> Nat] : f = [mem.count EXCEPT ![w] = n]
      BY <3>1
    <3>3. f[w] = n /\ \A v \in Worker \ {w} : f[v] = mem.count[v]
      BY <3>1, <3>2
    <3>4. mem' = [mem EXCEPT !.active = n, !.count = f, !.highest = h]
      BY <2>3, <3>2, <3>3
    <3>5. /\ PoolType' /\ mem'.count = f /\ mem'.active = n /\ mem'.highest = h
          /\ UNCHANGED <<mem.next, mem.queue, mem.item, mem.returned, mem.peak,
               mem.observed, mem.completed, mem.named>>
      BY <1>0, <3>1, <3>4 DEF PoolType
    <3> QED BY <1>0, <3>2, <3>3, <3>5
  <2>6. Submitted' = Submitted
    BY <1>0, <2>1, <2>2, <2>3, <2>4, <2>5 DEF Submitted
  <2>7. PlaceInv'
    BY <1>0, <2>1, <2>2, <2>3, <2>4, <2>5, <2>6 DEF PlaceInv, Pool
  <2>8. PeakInv'
    BY <1>0, <1>a, <2>1, <2>2, <2>3, <2>4, <2>5 DEF PeakInv, Counted, Pool
  <2> QED BY <1>0, <2>1, <2>2, <2>3, <2>4, <2>5, <2>6, <2>7, <2>8 DEF PoolInv, Only,
             Verdict
<1>5. CASE Items!Store(w, "sample", [mem EXCEPT !.observed[w] = mem.peak], "raise")
  <2>1. /\ Goes(w, "sample", "raise")
        /\ mem' = [mem EXCEPT !.observed[w] = mem.peak]
        /\ UNCHANGED <<signaled, open, faulted>>
    BY <1>5
  <2>2. ProcessInv' /\ Moved(w, "raise")
    BY <1>0, <2>1, Moves DEF ProcessInv
  <2>3. /\ PoolType' /\ mem'.observed[w] = mem.peak
        /\ \A v \in Pool \ {w} : mem'.observed[v] = mem.observed[v]
        /\ UNCHANGED <<mem.next, mem.queue, mem.item, mem.returned, mem.active,
             mem.peak, mem.count, mem.completed, mem.named, mem.highest>>
    BY <1>0, <2>1 DEF PoolType
  <2>4. Submitted' = Submitted
    BY <1>0, <2>1, <2>2, <2>3 DEF Submitted
  <2>5. PlaceInv'
    BY <1>0, <2>1, <2>2, <2>3, <2>4 DEF PlaceInv, Pool
  <2>6. PeakInv'
    BY <1>0, <1>a, <2>1, <2>2, <2>3, <2>4, <2>5 DEF PeakInv, Counted, Pool
  <2> QED BY <1>0, <2>1, <2>2, <2>3, <2>4, <2>5, <2>6 DEF PoolInv, Only, Verdict
<1>6. CASE /\ mem.count[w] > mem.observed[w]
           /\ Items!Store(w, "raise", Items!CompareExchange(mem, w),
                          IF mem.peak = mem.observed[w] THEN "work" ELSE "raise")
  <2>1. /\ Goes(w, "raise", IF mem.peak = mem.observed[w] THEN "work" ELSE "raise")
        /\ mem' = [mem EXCEPT !.peak = IF @ = mem.observed[w] THEN mem.count[w] ELSE @,
                        !.observed[w] = mem.peak]
        /\ mem.count[w] > mem.observed[w]
        /\ UNCHANGED <<signaled, open, faulted>>
    BY <1>6 DEF Items!CompareExchange
  <2>2. PICK p \in Nat : p = IF mem.peak = mem.observed[w] THEN mem.count[w]
          ELSE mem.peak
    BY <1>0, <1>a
  <2>3. mem' = [mem EXCEPT !.peak = p, !.observed[w] = mem.peak]
    BY <2>1, <2>2
  <2>4. ProcessInv' /\ Moved(w, (IF mem.peak = mem.observed[w] THEN "work"
          ELSE "raise"))
    BY <1>0, <2>1, Moves DEF ProcessInv
  <2>5. /\ PoolType' /\ mem'.peak = p /\ mem'.observed[w] = mem.peak
        /\ \A v \in Pool \ {w} : mem'.observed[v] = mem.observed[v]
        /\ UNCHANGED <<mem.next, mem.queue, mem.item, mem.returned, mem.active,
             mem.count, mem.completed, mem.named, mem.highest>>
    BY <1>0, <2>3 DEF PoolType, Pool
  <2>6. Submitted' = Submitted
    BY <1>0, <2>1, <2>2, <2>3, <2>4, <2>5 DEF Submitted
  <2>7. PlaceInv'
    BY <1>0, <2>1, <2>2, <2>3, <2>4, <2>5, <2>6 DEF PlaceInv, Pool
  <2>8. PeakInv'
    BY <1>0, <1>a, <2>1, <2>2, <2>4, <2>5 DEF PeakInv, Counted, Pool
  <2> QED BY <1>0, <2>1, <2>2, <2>3, <2>4, <2>5, <2>6, <2>7, <2>8 DEF PoolInv, Only,
             Verdict
<1>7. CASE mem.count[w] <= mem.observed[w] /\ Items!Call(w, "raise", "work")
  <2>1. /\ Goes(w, "raise", "work")
        /\ UNCHANGED <<signaled, open, mem, faulted>>
        /\ mem.count[w] <= mem.observed[w]
    BY <1>7
  <2>2. ProcessInv' /\ Moved(w, "work")
    BY <1>0, <2>1, Moves DEF ProcessInv
  <2>3. PoolType'
    BY <1>0, <2>1 DEF PoolType
  <2>4. Submitted' = Submitted
    BY <1>0, <2>1, <2>2, <2>3 DEF Submitted
  <2>5. PlaceInv'
    BY <1>0, <2>1, <2>2, <2>3, <2>4 DEF PlaceInv, Pool
  <2>6. PeakInv'
    BY <1>0, <1>a, <2>1, <2>2, <2>3, <2>4, <2>5 DEF PeakInv, Counted, Pool
  <2> QED BY <1>0, <2>1, <2>2, <2>3, <2>4, <2>5, <2>6 DEF PoolInv, Only, Verdict
<1>8. CASE Items!Store(w, "work", [mem EXCEPT !.completed = @ \cup {mem.item[w]}],
             "leave")
  <2>1. /\ Goes(w, "work", "leave")
        /\ mem' = [mem EXCEPT !.completed = @ \cup {mem.item[w]}]
        /\ UNCHANGED <<signaled, open, faulted>>
    BY <1>8
  <2>2. PICK c \in SUBSET (1..Tasks) : c = mem.completed \cup {mem.item[w]}
    <3>1. mem.item[w] \in 1..Tasks
      BY <1>0, <1>a, <2>1 DEF PlaceInv
    <3> QED BY <1>a, <3>1
  <2>3. mem' = [mem EXCEPT !.completed = c]
    BY <2>1, <2>2
  <2>4. ProcessInv' /\ Moved(w, "leave")
    BY <1>0, <2>1, Moves DEF ProcessInv
  <2>5. /\ PoolType' /\ mem'.completed = c
        /\ UNCHANGED <<mem.next, mem.queue, mem.item, mem.returned, mem.active,
             mem.peak, mem.count, mem.observed, mem.named, mem.highest>>
    BY <1>0, <2>3 DEF PoolType, Pool
  <2>6. Submitted' = Submitted
    BY <1>0, <2>1, <2>2, <2>3, <2>4, <2>5 DEF Submitted
  <2>7. PlaceInv'
    BY <1>0, <2>1, <2>2, <2>3, <2>4, <2>5, <2>6 DEF PlaceInv, Pool
  <2>8. PeakInv'
    BY <1>0, <1>a, <2>1, <2>2, <2>3, <2>4, <2>5 DEF PeakInv, Counted, Pool
  <2> QED BY <1>0, <2>1, <2>2, <2>3, <2>4, <2>5, <2>6, <2>7, <2>8 DEF PoolInv, Only,
             Verdict
<1>9. CASE Items!Store(w, "leave", [mem EXCEPT !.active = @ - 1], "return")
  <2>1. /\ Goes(w, "leave", "return")
        /\ mem' = [mem EXCEPT !.active = @ - 1]
        /\ UNCHANGED <<signaled, open, faulted>>
    BY <1>9
  <2>2. PICK n \in Int : n = mem.active - 1
    BY <1>0, <1>a
  <2>3. mem' = [mem EXCEPT !.active = n]
    BY <2>1, <2>2
  <2>4. ProcessInv' /\ Moved(w, "return")
    BY <1>0, <2>1, Moves DEF ProcessInv
  <2>5. /\ PoolType' /\ mem'.active = n
        /\ UNCHANGED <<mem.next, mem.queue, mem.item, mem.returned, mem.peak,
             mem.count, mem.observed, mem.completed, mem.named, mem.highest>>
    BY <1>0, <2>3 DEF PoolType, Pool
  <2>6. Submitted' = Submitted
    BY <1>0, <2>1, <2>2, <2>3, <2>4, <2>5 DEF Submitted
  <2>7. PlaceInv'
    BY <1>0, <2>1, <2>2, <2>3, <2>4, <2>5, <2>6 DEF PlaceInv, Pool
  <2>8. PeakInv'
    BY <1>0, <1>a, <2>1, <2>2, <2>3, <2>4, <2>5 DEF PeakInv, Counted, Pool
  <2> QED BY <1>0, <2>1, <2>2, <2>3, <2>4, <2>5, <2>6, <2>7, <2>8 DEF PoolInv, Only,
             Verdict
<1>10. CASE Items!Store(w, "return", [mem EXCEPT !.returned = @ \cup {mem.item[w]},
                   !.item[w] = 0, !.count[w] = 0, !.observed[w] = 0], "none")
  <2>1. /\ Goes(w, "return", "none")
        /\ mem' = [mem EXCEPT !.returned = @ \cup {mem.item[w]}, !.item[w] = 0,
                                   !.count[w] = 0, !.observed[w] = 0]
        /\ UNCHANGED <<signaled, open, faulted>>
    BY <1>10
  <2>2. PICK r \in SUBSET (1..Tasks) :
                 r = mem.returned \cup {mem.item[w]} /\ mem.item[w] \in 1..Tasks
    <3>1. mem.item[w] \in 1..Tasks
      BY <1>0, <1>a, <2>1 DEF PlaceInv
    <3>2. mem.returned \cup {mem.item[w]} \in SUBSET (1..Tasks)
      BY <1>a, <3>1
    <3> QED BY <3>1, <3>2
  <2>3. mem' = [mem EXCEPT !.returned = r, !.item[w] = 0,
                                   !.count[w] = 0, !.observed[w] = 0]
    BY <2>1, <2>2
  <2>4. ProcessInv' /\ Moved(w, "none")
    BY <1>0, <2>1, Moves DEF ProcessInv
  <2>5. /\ PoolType' /\ mem'.returned = r /\ mem'.item[w] = 0
        /\ mem'.count[w] = 0 /\ mem'.observed[w] = 0
        /\ \A v \in Pool \ {w} : mem'.item[v] = mem.item[v]
        /\ \A v \in Pool \ {w} : mem'.count[v] = mem.count[v]
        /\ \A v \in Pool \ {w} : mem'.observed[v] = mem.observed[v]
        /\ UNCHANGED <<mem.next, mem.queue, mem.active, mem.peak, mem.completed,
             mem.named, mem.highest>>
    <3>0. PoolType
      BY <1>0
    <3>1. /\ w \in Worker
          /\ mem.item \in [Worker -> 0..Tasks]
          /\ mem.count \in [Worker -> Nat]
          /\ mem.observed \in [Worker -> Nat]
          /\ 0 \in 0..Tasks
          /\ 0 \in Nat
          /\ 0 \in Nat
      BY <1>0 DEF PoolType
    <3>2. PICK f \in [Worker -> 0..Tasks] : f = [mem.item EXCEPT ![w] = 0]
      BY <3>1
    <3>3. f[w] = 0 /\ \A v \in Worker \ {w} : f[v] = mem.item[v]
      BY <3>1, <3>2
    <3>4. PICK c \in [Worker -> Nat] : c = [mem.count EXCEPT ![w] = 0]
      BY <3>1
    <3>5. c[w] = 0 /\ \A v \in Worker \ {w} : c[v] = mem.count[v]
      BY <3>1, <3>4
    <3>6. PICK o \in [Worker -> Nat] : o = [mem.observed EXCEPT ![w] = 0]
      BY <3>1
    <3>7. o[w] = 0 /\ \A v \in Worker \ {w} : o[v] = mem.observed[v]
      BY <3>1, <3>6
    <3>8. mem' = [mem EXCEPT !.returned = r, !.item = f,
                                   !.count = c, !.observed = o]
      BY <2>3, <3>2, <3>3, <3>4, <3>5, <3>6, <3>7
    <3>9. /\ PoolType' /\ mem'.item = f /\ mem'.count = c /\ mem'.observed = o
          /\ mem'.returned = r
          /\ UNCHANGED <<mem.next, mem.queue, mem.active, mem.peak, mem.completed,
               mem.named, mem.highest>>
      BY <3>0, <3>1, <3>8 DEF PoolType
    <3> QED BY <1>0, <3>2, <3>3, <3>4, <3>5, <3>6, <3>7, <3>9
  <2>6. Submitted' = Submitted
    BY <1>0, <2>1, <2>2, <2>3, <2>4, <2>5 DEF Submitted
  <2>7. PlaceInv'
    <3>a. \A i \in 1..Len(mem.queue) :
             /\ mem.queue[i] \in Submitted \ mem.returned
             /\ \A v \in Pool : mem.item[v] # mem.queue[i]
             /\ \A j \in 1..Len(mem.queue) : mem.queue[i] = mem.queue[j] => i = j
      BY <1>0 DEF PlaceInv
    <3>1. \A i \in 1..Len(mem.queue) :
             /\ mem.queue[i] \in 1..Tasks /\ mem.queue[i] \in Submitted \ r
             /\ \A v \in Pool : mem.item[v] # mem.queue[i]
             /\ \A j \in 1..Len(mem.queue) : mem.queue[i] = mem.queue[j] => i = j
      BY <1>0, <1>a, <2>2, <3>a
    <3>2. \A v \in Pool : (mem'.item[v] = 0 <=> pc'[v] = "none")
      BY <1>0, <2>4, <2>5 DEF PlaceInv
    <3>3. \A v \in Pool \ {w} : mem.item[v] # 0 => mem.item[v] \in Submitted \ r
      BY <1>0, <2>2 DEF PlaceInv
    <3>4. pc'[Main] = pc[Main]
      BY <1>0, <2>4
    <3>5. /\ mem'.item["A"] = mem'.item["B"] => mem'.item["A"] = 0
          /\ r \subseteq Submitted /\ mem.returned \subseteq r
      BY <1>0, <2>2, <2>5 DEF PlaceInv
    <3>6. \A i \in 1..Len(mem.queue), v \in Pool : mem'.item[v] # mem.queue[i]
      BY <1>0, <2>5, <3>1
    <3>7. \A v \in Pool : mem'.item[v] # 0 => mem'.item[v] \in Submitted \ r
      BY <1>0, <2>5, <3>3
    <3>8. pc[Main] = "wait" => 1..mem.next - 1 \subseteq r
      BY <1>0, <3>5 DEF PlaceInv
    <3>9. /\ pc[Main] = "create" => mem.next = 1
          /\ pc[Main] \in {"close", "verdict"} => 1..Tasks \subseteq r
      BY <1>0, <3>5 DEF PlaceInv
    <3>10. /\ mem'.queue = mem.queue /\ mem'.returned = r /\ mem'.next = mem.next
           /\ pc'[Main] = pc[Main] /\ Submitted' = Submitted
      BY <2>5, <2>6, <3>4
    <3>11. \A i \in 1..Len(mem'.queue) :
             /\ mem'.queue[i] \in Submitted' \ mem'.returned
             /\ \A v \in Pool : mem'.item[v] # mem'.queue[i]
             /\ \A j \in 1..Len(mem'.queue) : mem'.queue[i] = mem'.queue[j] => i = j
      BY <3>1, <3>6, <3>10
    <3> HIDE DEF Submitted
    <3>12. /\ \A v \in Pool : mem'.item[v] # 0 =>
                mem'.item[v] \in Submitted' \ mem'.returned
           /\ mem'.returned \subseteq Submitted'
           /\ pc'[Main] = "create" => mem'.next = 1
           /\ pc'[Main] = "wait" => 1..mem'.next - 1 \subseteq mem'.returned
           /\ pc'[Main] \in {"close", "verdict"} => 1..Tasks \subseteq mem'.returned
      BY <3>5, <3>7, <3>8, <3>9, <3>10
    <3> QED BY <2>5, <3>2, <3>5, <3>11, <3>12 DEF PlaceInv
  <2>8. PeakInv'
    BY <1>0, <1>a, <2>1, <2>2, <2>3, <2>4, <2>5 DEF PeakInv, Counted, Pool
  <2> QED BY <1>0, <2>1, <2>2, <2>3, <2>4, <2>5, <2>6, <2>7, <2>8 DEF PoolInv, Only,
             Verdict
<1> QED BY <1>1, <1>2, <1>3, <1>4, <1>5, <1>6, <1>7, <1>8, <1>9, <1>10 DEF
           Items!PoolWorkCallback, Items!NameCallback, Items!RaisePeak, Items!Complete

\* The steps of thread_pool_callbacks.cpp.
LEMMA PoolStep ==
  ASSUME ProcessInv, UNCHANGED program, PoolInv, NEW t \in Thread, Items!Pool(t)
  PROVE  ProcessInv' /\ PoolInv'
<1> USE DEF Items!Go, Items!At, Items!Running, Items!Call, Items!others, Items!Store,
    Items!Main, Items!Fault, Items!ExitOn, Items!CheckFails, Items!EndProcess,
    Items!Return, Items!CloseEvents, Fault, Ended, Main, Moved, Faulty, NoFault, Alive,
    Goes
<1>0. /\ Main \in Thread /\ Main \notin Worker /\ Worker \subseteq Thread
      /\ Worker = {"A", "B", "C"} /\ signaled \cap Worker = {} /\ Pool \subseteq Worker
      /\ Tasks \in Nat \ {0}
      /\ PoolType /\ PlaceInv /\ PeakInv
  BY LifeCycleAssumption DEF ProcessInv, Thread, Worker, PoolInv, Pool
<1>a. /\ mem.next \in 1..Tasks /\ mem.queue \in Seq(1..Tasks) /\ mem.active \in Int
      /\ mem.peak \in Nat /\ mem.highest \in Nat /\ mem.returned \subseteq 1..Tasks
      /\ mem.completed \subseteq 1..Tasks /\ \A v \in Pool : mem.item[v] \in 0..Tasks
      /\ \A v \in Pool : mem.count[v] \in Nat /\ mem.observed[v] \in Nat
  BY <1>0 DEF PoolType, Pool
<1>1. CASE Items!Call(Main, "create", "submit")
  <2>1. /\ Goes(Main, "create", "submit")
        /\ UNCHANGED <<signaled, open, mem, faulted>>
    BY <1>1
  <2>2. ProcessInv' /\ Moved(Main, "submit")
    BY <1>0, <2>1, Moves DEF ProcessInv
  <2>3. PoolType'
    BY <1>0, <2>1 DEF PoolType
  <2>4. PlaceInv'
    BY <1>0, <2>1, <2>2, <2>3 DEF PlaceInv, Submitted, Pool
  <2>5. PeakInv'
    BY <1>0, <2>1, <2>2, <2>3, <2>4 DEF PeakInv, Counted, Pool
  <2> QED BY <1>0, <2>1, <2>2, <2>3, <2>4, <2>5 DEF PoolInv, Only, Verdict
<1>2. CASE Items!Store(Main, "submit", [mem EXCEPT !.queue = Append(@, mem.next),
             !.next = Items!NextTask],
                       IF Items!NextTask = 1 THEN "wait" ELSE "submit")
  <2>1. /\ Goes(Main, "submit", IF Items!NextTask = 1 THEN "wait" ELSE "submit")
        /\ mem' = [mem EXCEPT !.queue = Append(@, mem.next), !.next = Items!NextTask]
        /\ UNCHANGED <<signaled, open, faulted>>
    BY <1>2
  <2>2. PICK n \in 1..Tasks :
               n = Items!NextTask /\ n = IF mem.next = Tasks THEN 1 ELSE mem.next + 1
    <3>1. Items!NextTask = IF mem.next = Tasks THEN 1 ELSE mem.next + 1
      BY <1>0, <1>a, NextTasks DEF Items!NextTask
    <3>2. (IF mem.next = Tasks THEN 1 ELSE mem.next + 1) \in 1..Tasks
      BY <1>0, <1>a
    <3> QED BY <3>1, <3>2
  <2>3. PICK q \in Seq(1..Tasks) :
               /\ q = Append(mem.queue, mem.next) /\ Len(q) = Len(mem.queue) + 1
               /\ \A i \in 1..Len(q) :
                    q[i] = IF i \in 1..Len(mem.queue) THEN mem.queue[i] ELSE mem.next
    <3>1. /\ Append(mem.queue, mem.next) \in Seq(1..Tasks)
          /\ Len(Append(mem.queue, mem.next)) = Len(mem.queue) + 1
          /\ \A i \in 1..Len(mem.queue) : Append(mem.queue, mem.next)[i] = mem.queue[i]
          /\ Append(mem.queue, mem.next)[Len(mem.queue) + 1] = mem.next
      BY <1>a, AppendProperties
    <3>2. \A i \in 1..Len(mem.queue) + 1 :
            i \in 1..Len(mem.queue) \/ i = Len(mem.queue) + 1
      BY <1>a
    <3> QED BY <3>1, <3>2
  <2>4. /\ pc' = [pc EXCEPT ![Main] = IF n = 1 THEN "wait" ELSE "submit"]
        /\ mem' = [mem EXCEPT !.queue = q, !.next = n]
    BY <2>1, <2>2, <2>3
  <2>5. ProcessInv' /\ Moved(Main, IF n = 1 THEN "wait" ELSE "submit")
    BY <1>0, <2>1, <2>4, Moves DEF ProcessInv
  <2>6. /\ PoolType' /\ mem'.queue = q /\ mem'.next = n
        /\ UNCHANGED <<mem.item, mem.returned, mem.active, mem.peak, mem.count,
             mem.observed, mem.completed, mem.named, mem.highest>>
    BY <1>0, <2>4 DEF PoolType
  <2>7. Submitted' = Submitted \cup {mem.next} /\ mem.next \notin Submitted
    BY <1>0, <1>a, <2>1, <2>2, <2>5, <2>6 DEF Submitted
  <2>8. PlaceInv'
    <3>1. \A i \in 1..Len(q) :
            /\ q[i] \in Submitted' \ mem.returned
            /\ \A v \in Pool : mem.item[v] # q[i]
            /\ \A j \in 1..Len(q) : q[i] = q[j] => i = j
      BY <1>0, <1>a, <2>1, <2>3, <2>7 DEF PlaceInv
    <3>2. \A v \in Pool : (mem.item[v] = 0 <=> pc'[v] = "none")
      BY <1>0, <2>5 DEF PlaceInv, Pool
    <3>3. pc'[Main] = "wait" => 1..n - 1 \subseteq mem.returned
      BY <1>0, <2>2, <2>5
    <3>4. \A v \in Pool : mem.item[v] # 0 => mem.item[v] \in Submitted' \ mem.returned
      BY <1>0, <2>7 DEF PlaceInv
    <3>5. /\ mem.item["A"] = mem.item["B"] => mem.item["A"] = 0
          /\ mem.returned \subseteq Submitted'
      BY <1>0, <2>7 DEF PlaceInv
    <3>6. pc'[Main] \in {"wait", "submit"}
      BY <2>5
    <3> QED BY <2>6, <3>1, <3>2, <3>3, <3>4, <3>5, <3>6 DEF PlaceInv
  <2>9. PeakInv'
    BY <1>0, <1>a, <2>1, <2>5, <2>6 DEF PeakInv, Counted, Pool
  <2> QED BY <1>0, <2>1, <2>5, <2>6, <2>8, <2>9 DEF PoolInv, Only, Verdict
<1>3. CASE /\ mem.next \in mem.returned
           /\ Items!Store(Main, "wait", [mem EXCEPT !.next = Items!NextTask],
                          IF Items!NextTask = 1 THEN "close" ELSE "wait")
  <2>1. /\ Goes(Main, "wait", IF Items!NextTask = 1 THEN "close" ELSE "wait")
        /\ mem' = [mem EXCEPT !.next = Items!NextTask] /\ mem.next \in mem.returned
        /\ UNCHANGED <<signaled, open, faulted>>
    BY <1>3
  <2>2. PICK n \in 1..Tasks :
               n = Items!NextTask /\ n = IF mem.next = Tasks THEN 1 ELSE mem.next + 1
    <3>1. Items!NextTask = IF mem.next = Tasks THEN 1 ELSE mem.next + 1
      BY <1>0, <1>a, NextTasks DEF Items!NextTask
    <3>2. (IF mem.next = Tasks THEN 1 ELSE mem.next + 1) \in 1..Tasks
      BY <1>0, <1>a
    <3> QED BY <3>1, <3>2
  <2>3. /\ pc' = [pc EXCEPT ![Main] = IF n = 1 THEN "close" ELSE "wait"]
        /\ mem' = [mem EXCEPT !.next = n]
    BY <2>1, <2>2
  <2>4. ProcessInv' /\ Moved(Main, IF n = 1 THEN "close" ELSE "wait")
    BY <1>0, <2>1, <2>3, Moves DEF ProcessInv
  <2>5. /\ PoolType' /\ mem'.next = n
        /\ UNCHANGED <<mem.queue, mem.item, mem.returned, mem.active, mem.peak,
             mem.count, mem.observed, mem.completed, mem.named, mem.highest>>
    BY <1>0, <2>3 DEF PoolType
  <2>6. Submitted = 1..Tasks /\ Submitted' = 1..Tasks
    BY <1>0, <2>1, <2>4 DEF Submitted
  <2>7. 1..mem.next \subseteq mem.returned
    BY <1>0, <1>a, <2>1 DEF PlaceInv
  <2>8. PlaceInv'
    BY <1>0, <1>a, <2>1, <2>2, <2>4, <2>5, <2>6, <2>7 DEF PlaceInv, Pool
  <2>9. PeakInv'
    BY <1>0, <1>a, <2>1, <2>4, <2>5 DEF PeakInv, Counted, Pool
  <2> QED BY <1>0, <2>1, <2>4, <2>5, <2>8, <2>9 DEF PoolInv, Only, Verdict
<1>4. CASE Items!CloseEvents("close", "verdict")
  <2>1. /\ Goes(Main, "close", "verdict")
        /\ open' = FALSE
        /\ UNCHANGED <<signaled, mem, faulted>>
    BY <1>4
  <2>2. ProcessInv' /\ Moved(Main, "verdict")
    BY <1>0, <2>1, Moves DEF ProcessInv
  <2>3. PoolType'
    BY <1>0, <2>1 DEF PoolType
  <2>4. PlaceInv'
    BY <1>0, <2>1, <2>2, <2>3 DEF PlaceInv, Submitted, Pool
  <2>5. PeakInv'
    BY <1>0, <2>1, <2>2, <2>3, <2>4 DEF PeakInv, Counted, Pool
  <2> QED BY <1>0, <2>1, <2>2, <2>3, <2>4, <2>5 DEF PoolInv, Only, Verdict
<1>5. CASE Items!Return("verdict", /\ mem.completed = Items!Task /\ mem.named
                                /\ mem.peak \in 1..2 /\ mem.active = 0)
  <2>1. /\ pc[Main] = "verdict" /\ exit = "running"
        /\ exit' = IF /\ mem.completed = 1..Tasks /\ mem.named
                      /\ mem.peak \in 1..2 /\ mem.active = 0 THEN "passed" ELSE "failed"
        /\ UNCHANGED <<pc, suspends, signaled, open, mem, faulted>>
    BY <1>5 DEF Items!Task
  <2>2. ProcessInv'
    BY <2>1, Ends DEF Status
  <2>3. \A w \in Pool : pc[w] = "none"
    BY <1>0, <2>1 DEF PlaceInv, Submitted
  <2>4. mem.completed = 1..Tasks /\ 1 \in mem.completed
    <3>1. 1..Tasks \subseteq mem.completed /\ 1 \in 1..Tasks
      BY <1>0, <2>1 DEF PoolInv, PlaceInv
    <3> QED BY <1>a, <3>1
  <2>5. mem.active = 0 /\ mem.peak = mem.highest /\ mem.peak \in 1..2
    BY <1>0, <1>a, <2>3, <2>4 DEF PeakInv, Counted, Pool
  <2>6. PoolType' /\ PlaceInv' /\ PeakInv'
    BY <1>0, <2>1 DEF PoolType, PlaceInv, PeakInv, Submitted, Counted
  <2> QED BY <1>0, <2>1, <2>2, <2>3, <2>4, <2>5, <2>6 DEF PoolInv, Only, Verdict
<1>6. CASE Items!CheckFails(Main, {"create"})
  <2>1. /\ exit = "running" /\ exit' = "failed" /\ \E f \in Faults : Fault(f)
        /\ UNCHANGED <<pc, suspends, signaled, open, mem>>
    BY <1>6
  <2>2. ProcessInv' /\ faulted' # {} /\ faulted \subseteq faulted'
    BY <2>1, Ends DEF Status
  <2>3. PoolType' /\ PlaceInv' /\ PeakInv'
    BY <1>0, <2>1 DEF PoolType, PlaceInv, PeakInv, Submitted, Counted
  <2> QED BY <1>0, <2>1, <2>2, <2>3 DEF PoolInv, Only, Verdict
<1>7. CASE t \in Pool /\ (Items!TakeItem(t) \/ Items!PoolWorkCallback(t))
  BY <1>7, PoolWorkerStep
<1> QED BY <1>1, <1>2, <1>3, <1>4, <1>5, <1>6, <1>7 DEF Pool, Items!Pool,
           Items!PoolMain, Items!PoolThread

-----------------------------------------------------------------------------
(* The steps of Responsiveness: what the operations make of the memory *)

\* The queues of blocking_ui.cpp.
LEMMA Queues ==
  /\ {<<>>, StartPosted, ClosePosted} \subseteq Seq(MessageRecord)
  /\ StartPosted # <<>> /\ ClosePosted # <<>>
  /\ Head(StartPosted).kind = "start" /\ Head(ClosePosted).kind = "close"
  /\ Tail(StartPosted) = <<>> /\ Tail(ClosePosted) = <<>>
  /\ Append(<<>>, Window!Message("close", 0)) = ClosePosted
<1>1. /\ Window!Message("start", 0) \in MessageRecord
      /\ Window!Message("close", 0) \in MessageRecord
      /\ Window!Message("start", 0).kind = "start"
      /\ Window!Message("close", 0).kind = "close"
  BY DEF Window!Message, MessageRecord
<1> QED BY <1>1 DEF StartPosted, ClosePosted

\* A message is taken.
LEMMA Takes ==
  ASSUME NEW m \in WindowRecord, m.queue # <<>>
  PROVE  LET n == Window!Taken(m) IN
         /\ n \in WindowRecord /\ n.queue = Tail(m.queue) /\ n.automatic = m.automatic
         /\ n.due = m.due /\ n.quit = m.quit /\ n.window = m.window /\ n.beat = m.beat
         /\ n.since = m.since /\ n.busy = m.busy /\ n.completed = m.completed
         /\ n.failed = m.failed /\ n.closing = m.closing /\ n.worker = m.worker
         /\ n.received = m.received /\ n.runNumber = m.runNumber
         /\ n.cancelRequested = m.cancelRequested /\ n.cancelled = m.cancelled
         /\ n.batches = m.batches /\ n.postError = m.postError
         /\ n.nameFailed = m.nameFailed /\ n.clicks = m.clicks /\ n.early = m.early
<1>1. Tail(m.queue) \in Seq(MessageRecord)
  BY HeadTailProperties DEF WindowRecord
<1> QED BY <1>1 DEF Window!Taken, WindowRecord

\* A click is counted.
LEMMA Clicks ==
  ASSUME NEW m \in WindowRecord
  PROVE  LET n == Window!Clicked(m) IN
         /\ n \in WindowRecord /\ n.clicks = m.clicks + 1 /\ n.automatic = m.automatic
         /\ n.queue = m.queue /\ n.due = m.due /\ n.quit = m.quit /\ n.window = m.window
         /\ n.beat = m.beat /\ n.since = m.since /\ n.busy = m.busy
         /\ n.completed = m.completed /\ n.failed = m.failed /\ n.closing = m.closing
         /\ n.worker = m.worker /\ n.received = m.received /\ n.runNumber = m.runNumber
         /\ n.cancelRequested = m.cancelRequested /\ n.cancelled = m.cancelled
         /\ n.batches = m.batches /\ n.postError = m.postError
         /\ n.nameFailed = m.nameFailed /\ n.early = m.early
  BY DEF Window!Clicked, WindowRecord

\* A heartbeat.
LEMMA Beats ==
  ASSUME NEW m \in WindowRecord
  PROVE  LET n == Window!Heartbeat(m) IN
         /\ n \in WindowRecord /\ n.due = FALSE /\ n.beat = TRUE /\ n.since = TRUE
         /\ n.automatic = m.automatic /\ n.queue = m.queue /\ n.quit = m.quit
         /\ n.window = m.window /\ n.busy = m.busy /\ n.completed = m.completed
         /\ n.failed = m.failed /\ n.closing = m.closing /\ n.worker = m.worker
         /\ n.received = m.received /\ n.runNumber = m.runNumber
         /\ n.cancelRequested = m.cancelRequested /\ n.cancelled = m.cancelled
         /\ n.batches = m.batches /\ n.postError = m.postError
         /\ n.nameFailed = m.nameFailed /\ n.clicks = m.clicks /\ n.early = m.early
  BY DEF Window!Heartbeat, WindowRecord

\* WM_DESTROY.
LEMMA Destroys ==
  ASSUME NEW m \in WindowRecord
  PROVE  LET n == Window!Destroyed(m) IN
         /\ n \in WindowRecord /\ n.window = FALSE /\ n.quit = TRUE /\ n.due = FALSE
         /\ n.queue = <<>> /\ n.automatic = m.automatic /\ n.beat = m.beat
         /\ n.since = m.since /\ n.busy = m.busy /\ n.completed = m.completed
         /\ n.failed = m.failed /\ n.closing = m.closing /\ n.worker = m.worker
         /\ n.received = m.received /\ n.runNumber = m.runNumber
         /\ n.cancelRequested = m.cancelRequested /\ n.cancelled = m.cancelled
         /\ n.batches = m.batches /\ n.postError = m.postError
         /\ n.nameFailed = m.nameFailed /\ n.clicks = m.clicks /\ n.early = m.early
<1>1. <<>> \in Seq(MessageRecord)
  OBVIOUS
<1> QED BY <1>1 DEF Window!Destroyed, WindowRecord

\* The close is posted once.
LEMMA ClosePosts ==
  ASSUME NEW m \in WindowRecord
  PROVE  LET n == Window!PostClose(m) IN
         /\ n \in WindowRecord /\ n.closing = TRUE
         /\ n.queue = (IF m.closing THEN m.queue
                     ELSE Append(m.queue, Window!Message("close", 0)))
         /\ n.automatic = m.automatic /\ n.due = m.due /\ n.quit = m.quit
         /\ n.window = m.window /\ n.beat = m.beat /\ n.since = m.since
         /\ n.busy = m.busy /\ n.completed = m.completed /\ n.failed = m.failed
         /\ n.worker = m.worker /\ n.received = m.received /\ n.runNumber = m.runNumber
         /\ n.cancelRequested = m.cancelRequested /\ n.cancelled = m.cancelled
         /\ n.batches = m.batches /\ n.postError = m.postError
         /\ n.nameFailed = m.nameFailed /\ n.clicks = m.clicks /\ n.early = m.early
<1>1. Append(m.queue, Window!Message("close", 0)) \in Seq(MessageRecord)
  BY AppendProperties DEF Window!Message, MessageRecord, WindowRecord
<1>2. CASE m.closing
  BY <1>2 DEF Window!PostClose, WindowRecord
<1>3. CASE ~m.closing
  BY <1>1, <1>3 DEF Window!PostClose, WindowRecord
<1> QED BY <1>2, <1>3

\* StartWork of blocking_ui.cpp.
LEMMA BlockingStarts ==
  ASSUME NEW m \in WindowRecord
  PROVE  LET n == [m EXCEPT !.busy = TRUE, !.completed = FALSE, !.since = FALSE,
                              !.batches = FALSE] IN
         /\ n \in WindowRecord /\ n.busy = TRUE /\ n.completed = FALSE
         /\ n.since = FALSE /\ n.batches = FALSE /\ n.automatic = m.automatic
         /\ n.queue = m.queue /\ n.due = m.due /\ n.quit = m.quit /\ n.window = m.window
         /\ n.beat = m.beat /\ n.failed = m.failed /\ n.closing = m.closing
         /\ n.worker = m.worker /\ n.received = m.received /\ n.runNumber = m.runNumber
         /\ n.cancelRequested = m.cancelRequested /\ n.cancelled = m.cancelled
         /\ n.postError = m.postError /\ n.nameFailed = m.nameFailed
         /\ n.clicks = m.clicks /\ n.early = m.early
  BY DEF WindowRecord

\* ComputeFor has returned.
LEMMA BlockingComputes ==
  ASSUME NEW m \in WindowRecord
  PROVE  LET n == [m EXCEPT !.busy = FALSE, !.completed = TRUE, !.batches = TRUE,
                              !.failed = @ \/ m.since] IN
         /\ n \in WindowRecord /\ n.busy = FALSE /\ n.completed = TRUE
         /\ n.batches = TRUE /\ n.failed = (m.failed \/ m.since)
         /\ n.automatic = m.automatic /\ n.queue = m.queue /\ n.due = m.due
         /\ n.quit = m.quit /\ n.window = m.window /\ n.beat = m.beat
         /\ n.since = m.since /\ n.closing = m.closing /\ n.worker = m.worker
         /\ n.received = m.received /\ n.runNumber = m.runNumber
         /\ n.cancelRequested = m.cancelRequested /\ n.cancelled = m.cancelled
         /\ n.postError = m.postError /\ n.nameFailed = m.nameFailed
         /\ n.clicks = m.clicks /\ n.early = m.early
  BY DEF WindowRecord

\* WM_CLOSE of blocking_ui.cpp.
LEMMA BlockingCloses ==
  ASSUME NEW m \in WindowRecord
  PROVE  LET n == Window!CloseBlocking(m) IN
         /\ n \in WindowRecord /\ n.window = FALSE /\ n.quit = TRUE /\ n.due = FALSE
         /\ n.queue = <<>>
         /\ n.failed = (m.failed \/ (m.automatic /\ (~m.completed \/ ~m.beat)))
         /\ n.automatic = m.automatic /\ n.beat = m.beat /\ n.since = m.since
         /\ n.busy = m.busy /\ n.completed = m.completed /\ n.closing = m.closing
         /\ n.worker = m.worker /\ n.received = m.received /\ n.runNumber = m.runNumber
         /\ n.cancelRequested = m.cancelRequested /\ n.cancelled = m.cancelled
         /\ n.batches = m.batches /\ n.postError = m.postError
         /\ n.nameFailed = m.nameFailed /\ n.clicks = m.clicks /\ n.early = m.early
<1>1. PICK v \in BOOLEAN : v = (m.failed \/ (m.automatic /\ (~m.completed \/ ~m.beat)))
  OBVIOUS
<1> DEFINE k == [m EXCEPT !.failed = v]
<1>2. /\ k \in WindowRecord /\ k.failed = v
      /\ k.automatic = m.automatic /\ k.queue = m.queue /\ k.due = m.due
      /\ k.quit = m.quit /\ k.window = m.window /\ k.beat = m.beat /\ k.since = m.since
      /\ k.busy = m.busy /\ k.completed = m.completed /\ k.closing = m.closing
      /\ k.worker = m.worker /\ k.received = m.received /\ k.runNumber = m.runNumber
      /\ k.cancelRequested = m.cancelRequested /\ k.cancelled = m.cancelled
      /\ k.batches = m.batches /\ k.postError = m.postError
      /\ k.nameFailed = m.nameFailed /\ k.clicks = m.clicks /\ k.early = m.early
  BY DEF WindowRecord
<1>3. Window!CloseBlocking(m) = Window!Destroyed(k)
  BY <1>1 DEF Window!CloseBlocking
<1> HIDE DEF k
<1>4. LET n == Window!Destroyed(k) IN
      /\ n \in WindowRecord /\ ~n.window /\ n.quit /\ ~n.due /\ n.queue = <<>>
      /\ n.automatic = k.automatic /\ n.beat = k.beat /\ n.since = k.since
      /\ n.busy = k.busy /\ n.completed = k.completed /\ n.failed = k.failed
      /\ n.closing = k.closing /\ n.worker = k.worker /\ n.received = k.received
      /\ n.runNumber = k.runNumber /\ n.cancelRequested = k.cancelRequested
      /\ n.cancelled = k.cancelled /\ n.batches = k.batches /\ n.postError = k.postError
      /\ n.nameFailed = k.nameFailed /\ n.clicks = k.clicks /\ n.early = k.early
  BY <1>2, Destroys
<1> QED BY <1>1, <1>2, <1>3, <1>4

\* The steps of blocking_ui.cpp.
LEMMA BlockingStep ==
  ASSUME ProcessInv, BlockingInv, UNCHANGED program, NEW t \in Thread,
         Window!BlockingUi(t)
  PROVE  ProcessInv' /\ BlockingInv'
<1> USE DEF Window!Go, Window!At, Window!Running, Window!Store, Window!Main,
    Window!Fault, Window!ExitOn, Window!CheckFails, Window!EndProcess, Window!Return,
    Window!Idle, Window!UserActs, Window!ClicksStart, Window!Dispatch, Fault, Ended,
    Main, Moved, Faulty, NoFault, Alive, Goes
<1>0. /\ Main \in Thread /\ "C" \in Thread /\ Main # "C" /\ signaled \cap Worker = {}
      /\ open \in BOOLEAN /\ exit \in Status /\ mem \in WindowRecord
  BY DEF ProcessInv, Thread, Worker, BlockingInv, WindowType
<1>a. /\ Window!Posted("start") => mem.queue = StartPosted
      /\ Window!Posted("close") => mem.queue = ClosePosted
  BY Queues DEF BlockingInv, BlockingMemory, Window!Posted
<1>c. /\ BlockingMemory /\ mem.failed \in BOOLEAN /\ mem.automatic \in BOOLEAN
      /\ mem.completed \in BOOLEAN /\ mem.beat \in BOOLEAN /\ mem.since \in BOOLEAN
  BY <1>0 DEF BlockingInv, WindowRecord
<1>b. /\ Append(<<>>, Window!Message("close", 0)) = ClosePosted
      /\ <<>> # StartPosted /\ <<>> # ClosePosted /\ StartPosted # ClosePosted
  BY Queues
<1>1. CASE Window!Posted("start") /\ Window!StartBlocking(Window!Taken(mem))
  <2>1. mem.queue = StartPosted /\ Tail(mem.queue) = <<>> /\ mem.queue # <<>>
    BY <1>a, <1>1, Queues
  <2> DEFINE k == Window!Taken(mem)
  <2>2. /\ Goes(Main, "pump", "compute")
        /\ mem' = [k EXCEPT !.busy = TRUE, !.completed = FALSE, !.since = FALSE,
                              !.batches = FALSE]
        /\ UNCHANGED <<signaled, open, faulted>>
    BY <1>1, <2>1 DEF Window!StartBlocking
  <2>3. /\ k \in WindowRecord /\ k.queue = <<>> /\ k.automatic = mem.automatic
        /\ k.due = mem.due /\ k.quit = mem.quit /\ k.window = mem.window
        /\ k.beat = mem.beat /\ k.since = mem.since /\ k.completed = mem.completed
        /\ k.failed = mem.failed /\ k.closing = mem.closing /\ k.worker = mem.worker
        /\ k.early = mem.early
    BY <1>0, <2>1, Takes
  <2> HIDE DEF k
  <2>4. ProcessInv' /\ Moved(Main, "compute")
    BY <1>0, <2>2, Moves DEF ProcessInv
  <2>5. /\ mem' \in WindowRecord /\ mem'.completed = FALSE /\ mem'.since = FALSE
        /\ mem'.automatic = k.automatic /\ mem'.queue = k.queue /\ mem'.due = k.due
        /\ mem'.quit = k.quit /\ mem'.window = k.window /\ mem'.beat = k.beat
        /\ mem'.failed = k.failed /\ mem'.closing = k.closing /\ mem'.worker = k.worker
        /\ mem'.early = k.early
    BY <1>0, <2>2, <2>3, BlockingStarts
  <2>6. faulted \subseteq faulted' /\ (Excuse => Excuse')
    BY <2>2, <2>3, <2>5 DEF Excuse
  <2>7. BlockingMemory'
    BY <1>b, <1>c, <2>1, <2>3, <2>2, <2>4, <2>5, <2>6 DEF BlockingMemory, Excuse
  <2> QED BY <1>0, <2>2, <2>4, <2>5, <2>7 DEF BlockingInv, WindowType, Only
<1>2. CASE Window!ClicksStart /\ Window!StartBlocking(Window!Clicked(mem))
  <2>1. mem.queue = <<>> /\ mem.window /\ ~mem.closing
    BY <1>2
  <2> DEFINE k == Window!Clicked(mem)
  <2>2. /\ Goes(Main, "pump", "compute")
        /\ mem' = [k EXCEPT !.busy = TRUE, !.completed = FALSE, !.since = FALSE,
                              !.batches = FALSE]
        /\ UNCHANGED <<signaled, open, faulted>>
    BY <1>2, <2>1 DEF Window!StartBlocking
  <2>3. /\ k \in WindowRecord /\ k.automatic = mem.automatic /\ k.queue = mem.queue
        /\ k.due = mem.due /\ k.quit = mem.quit /\ k.window = mem.window
        /\ k.beat = mem.beat /\ k.since = mem.since /\ k.completed = mem.completed
        /\ k.failed = mem.failed /\ k.closing = mem.closing /\ k.worker = mem.worker
        /\ k.early = mem.early
    BY <1>0, <2>1, Clicks
  <2> HIDE DEF k
  <2>4. ProcessInv' /\ Moved(Main, "compute")
    BY <1>0, <2>2, Moves DEF ProcessInv
  <2>5. /\ mem' \in WindowRecord /\ mem'.completed = FALSE /\ mem'.since = FALSE
        /\ mem'.automatic = k.automatic /\ mem'.queue = k.queue /\ mem'.due = k.due
        /\ mem'.quit = k.quit /\ mem'.window = k.window /\ mem'.beat = k.beat
        /\ mem'.failed = k.failed /\ mem'.closing = k.closing /\ mem'.worker = k.worker
        /\ mem'.early = k.early
    BY <1>0, <2>2, <2>3, BlockingStarts
  <2>6. faulted \subseteq faulted' /\ (Excuse => Excuse')
    BY <2>2, <2>3, <2>5 DEF Excuse
  <2>7. BlockingMemory'
    BY <1>b, <1>c, <2>1, <2>3, <2>2, <2>4, <2>5, <2>6 DEF BlockingMemory, Excuse
  <2> QED BY <1>0, <2>2, <2>4, <2>5, <2>7 DEF BlockingInv, WindowType, Only
<1>3. CASE Window!ComputeHere
  <2>1. /\ Goes(Main, "compute", "pump")
        /\ mem' = [mem EXCEPT !.busy = FALSE, !.completed = TRUE, !.batches = TRUE,
                              !.failed = @ \/ mem.since]
        /\ UNCHANGED <<signaled, open, faulted>>
    BY <1>3 DEF Window!ComputeHere
  <2>2. ProcessInv' /\ Moved(Main, "pump")
    BY <1>0, <2>1, Moves DEF ProcessInv
  <2>3. /\ mem' \in WindowRecord /\ mem'.completed = TRUE
        /\ mem'.failed = (mem.failed \/ mem.since) /\ mem'.automatic = mem.automatic
        /\ mem'.queue = mem.queue /\ mem'.due = mem.due /\ mem'.quit = mem.quit
        /\ mem'.window = mem.window /\ mem'.beat = mem.beat /\ mem'.since = mem.since
        /\ mem'.closing = mem.closing /\ mem'.worker = mem.worker
        /\ mem'.early = mem.early
    BY <1>0, <2>1, BlockingComputes
  <2>4. faulted \subseteq faulted' /\ (Excuse => Excuse')
    BY <2>1, <2>3 DEF Excuse
  <2>5. BlockingMemory'
    BY <1>b, <1>c, <2>1, <2>2, <2>3, <2>4 DEF BlockingMemory, Excuse
  <2> QED BY <1>0, <2>1, <2>2, <2>3, <2>5 DEF BlockingInv, WindowType, Only
<1>4. CASE Window!TimerBlocking /\ ~(mem.automatic /\ mem.completed)
  <2>1. /\ Window!Heartbeat(mem).automatic = mem.automatic
        /\ Window!Heartbeat(mem).completed = mem.completed
    BY <1>0, Beats
  <2>2. mem.queue = <<>>
    BY <1>4 DEF Window!TimerBlocking
  <2>3. /\ Goes(Main, "pump", "pump")
        /\ mem' = Window!Heartbeat(mem)
        /\ UNCHANGED <<signaled, open, faulted>>
    BY <1>4, <2>1, <2>2 DEF Window!TimerBlocking
  <2>4. ProcessInv' /\ Moved(Main, "pump")
    BY <1>0, <2>3, Moves DEF ProcessInv
  <2>5. /\ mem' \in WindowRecord /\ mem'.due = FALSE /\ mem'.beat = TRUE
        /\ mem'.since = TRUE /\ mem'.automatic = mem.automatic /\ mem'.queue = mem.queue
        /\ mem'.quit = mem.quit /\ mem'.window = mem.window
        /\ mem'.completed = mem.completed /\ mem'.failed = mem.failed
        /\ mem'.closing = mem.closing /\ mem'.worker = mem.worker
        /\ mem'.early = mem.early
    BY <1>0, <2>3, Beats
  <2>6. faulted \subseteq faulted' /\ (Excuse => Excuse')
    BY <2>3, <2>5 DEF Excuse
  <2>7. BlockingMemory'
    BY <1>b, <1>c, <2>1, <2>2, <2>3, <2>4, <2>5, <2>6 DEF BlockingMemory, Excuse
  <2> QED BY <1>0, <2>3, <2>4, <2>5, <2>7 DEF BlockingInv, WindowType, Only
<1>5. CASE Window!TimerBlocking /\ mem.automatic /\ mem.completed
  <2>1. mem.queue = <<>> /\ mem.due /\ mem.automatic /\ mem.completed
    BY <1>5 DEF Window!TimerBlocking
  <2> DEFINE k == Window!Heartbeat(mem)
  <2>2. /\ Goes(Main, "pump", "pump")
        /\ mem' = Window!PostClose(k)
        /\ UNCHANGED <<signaled, open, faulted>>
    BY <1>5, <2>1 DEF Window!TimerBlocking, Window!Heartbeat
  <2>3. /\ k \in WindowRecord /\ k.due = FALSE /\ k.beat = TRUE /\ k.since = TRUE
        /\ k.automatic = mem.automatic /\ k.queue = mem.queue /\ k.quit = mem.quit
        /\ k.window = mem.window /\ k.completed = mem.completed /\ k.failed = mem.failed
        /\ k.closing = mem.closing /\ k.worker = mem.worker /\ k.early = mem.early
    BY <1>0, <2>1, Beats
  <2> HIDE DEF k
  <2>4. ProcessInv' /\ Moved(Main, "pump")
    BY <1>0, <2>2, Moves DEF ProcessInv
  <2>5. /\ mem' \in WindowRecord /\ mem'.closing = TRUE
        /\ mem'.queue = (IF k.closing THEN k.queue
                     ELSE Append(k.queue, Window!Message("close", 0)))
        /\ mem'.automatic = k.automatic /\ mem'.due = k.due /\ mem'.quit = k.quit
        /\ mem'.window = k.window /\ mem'.beat = k.beat /\ mem'.since = k.since
        /\ mem'.completed = k.completed /\ mem'.failed = k.failed
        /\ mem'.worker = k.worker /\ mem'.early = k.early
    BY <1>0, <2>2, <2>3, ClosePosts
  <2>6. mem'.queue = IF mem.closing THEN <<>> ELSE ClosePosted
    BY <1>b, <2>1, <2>3, <2>5
  <2>7. faulted \subseteq faulted' /\ (Excuse => Excuse')
    BY <2>2, <2>3, <2>5 DEF Excuse
  <2>8. BlockingMemory'
    BY <1>b, <1>c, <2>1, <2>3, <2>6, <2>2, <2>4, <2>5, <2>7 DEF BlockingMemory, Excuse
  <2> QED BY <1>0, <2>2, <2>4, <2>5, <2>8 DEF BlockingInv, WindowType, Only
<1>6. CASE Window!WatchdogBlocking
  <2>1. mem.queue = <<>> /\ mem.due
    BY <1>6 DEF Window!WatchdogBlocking
  <2> DEFINE k == Window!Heartbeat(mem)
  <2> DEFINE l == [k EXCEPT !.failed = TRUE]
  <2>2. /\ Goes(Main, "pump", "pump")
        /\ mem' = Window!PostClose(l)
        /\ Fault("slow") /\ UNCHANGED <<signaled, open>>
    BY <1>6, <2>1 DEF Window!WatchdogBlocking
  <2>3. /\ k \in WindowRecord /\ k.due = FALSE /\ k.beat = TRUE /\ k.since = TRUE
        /\ k.automatic = mem.automatic /\ k.queue = mem.queue /\ k.quit = mem.quit
        /\ k.window = mem.window /\ k.completed = mem.completed /\ k.failed = mem.failed
        /\ k.closing = mem.closing /\ k.worker = mem.worker /\ k.early = mem.early
    BY <1>0, <2>1, Beats
  <2> HIDE DEF k
  <2>4. /\ l \in WindowRecord /\ l.failed = TRUE /\ l.automatic = k.automatic
        /\ l.queue = k.queue /\ l.due = k.due /\ l.quit = k.quit /\ l.window = k.window
        /\ l.beat = k.beat /\ l.since = k.since /\ l.completed = k.completed
        /\ l.closing = k.closing /\ l.worker = k.worker /\ l.early = k.early
    BY <1>0, <2>1, <2>3, <2>3 DEF WindowRecord
  <2> HIDE DEF l
  <2>5. ProcessInv' /\ Moved(Main, "pump")
    BY <1>0, <2>2, Moves DEF ProcessInv
  <2>6. /\ mem' \in WindowRecord /\ mem'.closing = TRUE
        /\ mem'.queue = (IF l.closing THEN l.queue
                     ELSE Append(l.queue, Window!Message("close", 0)))
        /\ mem'.automatic = l.automatic /\ mem'.due = l.due /\ mem'.quit = l.quit
        /\ mem'.window = l.window /\ mem'.beat = l.beat /\ mem'.since = l.since
        /\ mem'.completed = l.completed /\ mem'.failed = l.failed
        /\ mem'.worker = l.worker /\ mem'.early = l.early
    BY <1>0, <2>2, <2>4, ClosePosts
  <2>7. mem'.queue = IF mem.closing THEN <<>> ELSE ClosePosted
    BY <1>b, <2>1, <2>3, <2>4, <2>6
  <2>8. faulted \subseteq faulted' /\ (Excuse => Excuse')
    BY <2>2, <2>4, <2>6 DEF Excuse
  <2>9. BlockingMemory'
    BY <1>b, <1>c, <2>1, <2>3, <2>4, <2>7, <2>2, <2>5, <2>6, <2>8 DEF BlockingMemory,
       Excuse
  <2> QED BY <1>0, <2>2, <2>5, <2>6, <2>9 DEF BlockingInv, WindowType, Only
<1>7. CASE /\ Window!Posted("close")
           /\ Window!Dispatch(Window!CloseBlocking(Window!Taken(mem)))
  <2>1. mem.queue = ClosePosted /\ Tail(mem.queue) = <<>> /\ mem.queue # <<>>
    BY <1>a, <1>7, Queues
  <2> DEFINE k == Window!Taken(mem)
  <2>2. /\ Goes(Main, "pump", "pump")
        /\ mem' = Window!CloseBlocking(k)
        /\ UNCHANGED <<signaled, open, faulted>>
    BY <1>7, <2>1
  <2>3. /\ k \in WindowRecord /\ k.queue = <<>> /\ k.automatic = mem.automatic
        /\ k.due = mem.due /\ k.quit = mem.quit /\ k.window = mem.window
        /\ k.beat = mem.beat /\ k.since = mem.since /\ k.completed = mem.completed
        /\ k.failed = mem.failed /\ k.closing = mem.closing /\ k.worker = mem.worker
        /\ k.early = mem.early
    BY <1>0, <2>1, Takes
  <2> HIDE DEF k
  <2>4. ProcessInv' /\ Moved(Main, "pump")
    BY <1>0, <2>2, Moves DEF ProcessInv
  <2>5. /\ mem' \in WindowRecord /\ mem'.window = FALSE /\ mem'.quit = TRUE
        /\ mem'.due = FALSE /\ mem'.queue = <<>>
        /\ mem'.failed = (mem.failed \/ (mem.automatic /\ (~mem.completed \/ ~mem.beat)))
        /\ mem'.automatic = k.automatic /\ mem'.beat = k.beat /\ mem'.since = k.since
        /\ mem'.completed = k.completed /\ mem'.closing = k.closing
        /\ mem'.worker = k.worker /\ mem'.early = k.early
    BY <1>0, <2>2, <2>3, BlockingCloses
  <2>6. faulted \subseteq faulted' /\ (Excuse => Excuse')
    BY <2>2, <2>3, <2>5 DEF Excuse
  <2>7. BlockingMemory'
    BY <1>b, <1>c, <2>1, <2>3, <2>2, <2>4, <2>5, <2>6 DEF BlockingMemory, Excuse
  <2> QED BY <1>0, <2>2, <2>4, <2>5, <2>7 DEF BlockingInv, WindowType, Only
<1>8. CASE /\ Window!UserActs
           /\ Window!Dispatch(Window!CloseBlocking([mem EXCEPT !.early = TRUE]))
  <2>1. mem.queue = <<>> /\ mem.window
    BY <1>8
  <2> DEFINE k == [mem EXCEPT !.early = TRUE]
  <2>2. /\ Goes(Main, "pump", "pump")
        /\ mem' = Window!CloseBlocking(k)
        /\ UNCHANGED <<signaled, open, faulted>>
    BY <1>8, <2>1
  <2>3. /\ k \in WindowRecord /\ k.early = TRUE /\ k.automatic = mem.automatic
        /\ k.queue = mem.queue /\ k.due = mem.due /\ k.quit = mem.quit
        /\ k.window = mem.window /\ k.beat = mem.beat /\ k.since = mem.since
        /\ k.completed = mem.completed /\ k.failed = mem.failed
        /\ k.closing = mem.closing /\ k.worker = mem.worker
    BY <1>0, <2>1 DEF WindowRecord
  <2> HIDE DEF k
  <2>4. ProcessInv' /\ Moved(Main, "pump")
    BY <1>0, <2>2, Moves DEF ProcessInv
  <2>5. /\ mem' \in WindowRecord /\ mem'.window = FALSE /\ mem'.quit = TRUE
        /\ mem'.due = FALSE /\ mem'.queue = <<>>
        /\ mem'.failed = (mem.failed \/ (mem.automatic /\ (~mem.completed \/ ~mem.beat)))
        /\ mem'.automatic = k.automatic /\ mem'.beat = k.beat /\ mem'.since = k.since
        /\ mem'.completed = k.completed /\ mem'.closing = k.closing
        /\ mem'.worker = k.worker /\ mem'.early = k.early
    BY <1>0, <2>2, <2>3, BlockingCloses
  <2>6. faulted \subseteq faulted' /\ (Excuse => Excuse')
    BY <2>2, <2>3, <2>5 DEF Excuse
  <2>7. BlockingMemory'
    BY <1>b, <1>c, <2>1, <2>3, <2>2, <2>4, <2>5, <2>6 DEF BlockingMemory, Excuse
  <2> QED BY <1>0, <2>2, <2>4, <2>5, <2>7 DEF BlockingInv, WindowType, Only
<1>9. CASE t = "C" /\ Window!Timer(t)
  <2>1. mem.window /\ t = "C"
    BY <1>9 DEF Window!Timer
  <2>2. /\ Goes(t, "none", "none")
        /\ mem' = [mem EXCEPT !.due = TRUE]
        /\ UNCHANGED <<signaled, open, faulted>>
    BY <1>9, <2>1 DEF Window!Timer
  <2>3. ProcessInv' /\ Moved(t, "none")
    BY <1>0, <2>2, Moves DEF ProcessInv
  <2>4. /\ mem' \in WindowRecord /\ mem'.due = TRUE /\ mem'.automatic = mem.automatic
        /\ mem'.queue = mem.queue /\ mem'.quit = mem.quit /\ mem'.window = mem.window
        /\ mem'.beat = mem.beat /\ mem'.since = mem.since
        /\ mem'.completed = mem.completed /\ mem'.failed = mem.failed
        /\ mem'.closing = mem.closing /\ mem'.worker = mem.worker
        /\ mem'.early = mem.early
    BY <1>0, <2>2 DEF WindowRecord
  <2>5. faulted \subseteq faulted' /\ (Excuse => Excuse')
    BY <2>2, <2>4 DEF Excuse
  <2>6. BlockingMemory'
    BY <1>b, <1>c, <2>1, <2>2, <2>3, <2>4, <2>5 DEF BlockingMemory, Excuse
  <2> QED BY <1>0, <2>2, <2>3, <2>4, <2>6 DEF BlockingInv, WindowType, Only
<1>10. CASE \/ Window!Idle /\ ~mem.due /\ mem.quit /\ Window!Return("pump", ~mem.failed)
            \/ Window!CheckFails(Main, {"pump"})
  <2>1. /\ exit = "running" /\ exit' \in {"passed", "failed"}
        /\ \/ ~mem.window /\ UNCHANGED faulted
              /\ exit' = IF mem.failed THEN "failed" ELSE "passed"
           \/ exit' = "failed" /\ \E f \in Faults : Fault(f)
        /\ UNCHANGED <<pc, suspends, signaled, open, mem>>
    BY <1>10, <1>c DEF BlockingMemory
  <2>2. ProcessInv'
    BY <2>1, Ends DEF Status
  <2>3. mem \in WindowRecord /\ mem' = mem
    BY <1>0, <2>1
  <2> QED BY <1>0, <2>1, <2>2, <2>3 DEF BlockingInv, BlockingMemory, WindowType, Only,
             Excuse
<1> QED BY <1>1, <1>2, <1>3, <1>4, <1>5, <1>6, <1>7, <1>8, <1>9, <1>10 DEF
           Window!BlockingUi, Window!TimerBlocking


\* A new run.
LEMMA RunsAnew ==
  ASSUME NEW m \in WindowRecord
  PROVE  LET n == Window!NewRun(m) IN
         /\ n \in WindowRecord /\ n.runNumber = m.runNumber + 1 /\ n.received = FALSE
         /\ n.completed = FALSE /\ n.since = FALSE /\ n.cancelRequested = FALSE
         /\ n.cancelled = FALSE /\ n.batches = FALSE /\ n.postError = FALSE
         /\ n.nameFailed = FALSE /\ n.busy = TRUE /\ n.automatic = m.automatic
         /\ n.queue = m.queue /\ n.due = m.due /\ n.quit = m.quit /\ n.window = m.window
         /\ n.beat = m.beat /\ n.failed = m.failed /\ n.closing = m.closing
         /\ n.worker = m.worker /\ n.clicks = m.clicks /\ n.early = m.early
<1>1. PICK r \in Nat : r = m.runNumber + 1
  BY DEF WindowRecord
<1> DEFINE k == [m EXCEPT !.runNumber = r, !.received = FALSE, !.completed = FALSE,
                          !.busy = TRUE, !.since = FALSE]
           n == [k EXCEPT !.cancelRequested = FALSE, !.cancelled = FALSE,
             !.batches = FALSE,
                          !.postError = FALSE, !.nameFailed = FALSE]
<1>2. Window!NewRun(m) = n
  BY <1>1 DEF Window!NewRun
<1>3. /\ k \in WindowRecord /\ k.runNumber = r /\ k.received = FALSE
      /\ k.completed = FALSE /\ k.busy = TRUE /\ k.since = FALSE
      /\ k.automatic = m.automatic /\ k.queue = m.queue /\ k.due = m.due
      /\ k.quit = m.quit /\ k.window = m.window /\ k.beat = m.beat
      /\ k.failed = m.failed /\ k.closing = m.closing /\ k.worker = m.worker
      /\ k.cancelRequested = m.cancelRequested /\ k.cancelled = m.cancelled
      /\ k.batches = m.batches /\ k.postError = m.postError
      /\ k.nameFailed = m.nameFailed /\ k.clicks = m.clicks /\ k.early = m.early
  BY DEF WindowRecord
<1> HIDE DEF k
<1>4. /\ n \in WindowRecord /\ n.cancelRequested = FALSE /\ n.cancelled = FALSE
      /\ n.batches = FALSE /\ n.postError = FALSE /\ n.nameFailed = FALSE
      /\ n.automatic = k.automatic /\ n.queue = k.queue /\ n.due = k.due
      /\ n.quit = k.quit /\ n.window = k.window /\ n.beat = k.beat /\ n.since = k.since
      /\ n.busy = k.busy /\ n.completed = k.completed /\ n.failed = k.failed
      /\ n.closing = k.closing /\ n.worker = k.worker /\ n.received = k.received
      /\ n.runNumber = k.runNumber /\ n.clicks = k.clicks /\ n.early = k.early
  BY <1>3 DEF WindowRecord
<1> HIDE DEF n
<1> QED BY <1>1, <1>2, <1>3, <1>4

\* BeginClose asks the worker to end, or closes the window.
LEMMA Closings ==
  ASSUME NEW m \in WindowRecord
  PROVE  LET n == Window!BeginClose(m) IN
         /\ n \in WindowRecord /\ n.closing
         /\ (m.worker => n.cancelRequested /\ n.window = m.window /\ n.quit = m.quit)
         /\ (~m.worker => n.cancelRequested = m.cancelRequested /\ ~n.window)
         /\ (~m.worker => n.quit \/ n.quit = m.quit) /\ n.automatic = m.automatic
         /\ (n.due => m.due) /\ (~m.worker /\ m.window => ~n.due)
         /\ n.since = m.since /\ n.busy = m.busy /\ n.completed = m.completed
         /\ n.failed = m.failed /\ n.worker = m.worker /\ n.cancelled = m.cancelled
         /\ n.batches = m.batches /\ n.postError = m.postError
         /\ n.nameFailed = m.nameFailed /\ n.early = m.early
<1> DEFINE c == [m EXCEPT !.closing = TRUE]
<1>1. /\ c \in WindowRecord /\ c.closing /\ c.automatic = m.automatic /\ c.quit = m.quit
      /\ c.window = m.window /\ c.since = m.since /\ c.busy = m.busy
      /\ c.completed = m.completed /\ c.failed = m.failed /\ c.worker = m.worker
      /\ c.cancelRequested = m.cancelRequested /\ c.cancelled = m.cancelled
      /\ c.batches = m.batches /\ c.postError = m.postError
      /\ c.nameFailed = m.nameFailed /\ c.early = m.early /\ c.due = m.due
  BY DEF WindowRecord
<1>2. Window!BeginClose(m) = IF c.worker THEN [c EXCEPT !.cancelRequested = TRUE]
                             ELSE IF c.window THEN Window!Destroyed(c) ELSE c
  BY DEF Window!BeginClose
<1> HIDE DEF c
<1>3. CASE c.worker
  <2>1. Window!BeginClose(m) = [c EXCEPT !.cancelRequested = TRUE]
    BY <1>2, <1>3
  <2> DEFINE n == [c EXCEPT !.cancelRequested = TRUE]
  <2>2. /\ n \in WindowRecord /\ n.cancelRequested /\ n.automatic = c.automatic
        /\ n.quit = c.quit /\ n.window = c.window /\ n.since = c.since
        /\ n.busy = c.busy /\ n.completed = c.completed /\ n.failed = c.failed
        /\ n.closing = c.closing /\ n.worker = c.worker /\ n.cancelled = c.cancelled
        /\ n.batches = c.batches /\ n.postError = c.postError
        /\ n.nameFailed = c.nameFailed /\ n.early = c.early /\ n.due = c.due
    BY <1>1 DEF WindowRecord
  <2> QED BY <1>1, <1>3, <2>1, <2>2
<1>4. CASE ~c.worker /\ c.window
  <2>1. Window!BeginClose(m) = Window!Destroyed(c)
    BY <1>2, <1>4
  <2>2. LET n == Window!Destroyed(c) IN
        /\ n \in WindowRecord /\ ~n.window /\ n.quit /\ n.automatic = c.automatic
        /\ n.since = c.since /\ n.busy = c.busy /\ n.completed = c.completed
        /\ n.failed = c.failed /\ n.closing = c.closing /\ n.worker = c.worker
        /\ n.cancelRequested = c.cancelRequested /\ n.cancelled = c.cancelled
        /\ n.batches = c.batches /\ n.postError = c.postError
        /\ n.nameFailed = c.nameFailed /\ n.early = c.early /\ ~n.due
    BY <1>1, Destroys
  <2> QED BY <1>1, <1>4, <2>1, <2>2
<1>5. CASE ~c.worker /\ ~c.window
  BY <1>1, <1>2, <1>5
<1> QED BY <1>3, <1>4, <1>5

\* What makes a run a failure.
Failing(m) ==
  \/ m.failed \/ pc["A"] = "failed"
  \/ ~m.cancelled /\ ~m.batches
  \/ m.automatic /\ (m.cancelled \/ ~m.since)

\* The result of a run is judged.
LEMMA Judges ==
  ASSUME NEW m \in WindowRecord
  PROVE  LET n == Window!Judged(m) IN
         /\ n \in WindowRecord /\ ~n.worker /\ ~n.busy /\ n.failed = Failing(m)
         /\ n.completed = (~n.failed /\ ~m.cancelled) /\ n.automatic = m.automatic
         /\ n.quit = m.quit /\ n.window = m.window /\ n.since = m.since
         /\ n.closing = m.closing /\ n.cancelRequested = m.cancelRequested
         /\ n.cancelled = m.cancelled /\ n.batches = m.batches
         /\ n.postError = m.postError /\ n.nameFailed = m.nameFailed
         /\ n.early = m.early /\ n.due = m.due
<1>1. PICK v \in BOOLEAN : v = Failing(m)
  BY DEF Failing
<1>2. PICK c \in BOOLEAN : c = (~Failing(m) /\ ~m.cancelled)
  OBVIOUS
<1>3. Window!Judged(m) = [m EXCEPT !.worker = FALSE, !.busy = FALSE, !.failed = v,
                                   !.completed = c]
  BY <1>1, <1>2 DEF Window!Judged, Failing
<1> DEFINE n ==
      [m EXCEPT !.worker = FALSE, !.busy = FALSE, !.failed = v, !.completed = c]
<1>4. /\ n \in WindowRecord /\ ~n.worker /\ ~n.busy /\ n.failed = v /\ n.completed = c
      /\ n.automatic = m.automatic /\ n.quit = m.quit /\ n.window = m.window
      /\ n.since = m.since /\ n.closing = m.closing
      /\ n.cancelRequested = m.cancelRequested /\ n.cancelled = m.cancelled
      /\ n.batches = m.batches /\ n.postError = m.postError
      /\ n.nameFailed = m.nameFailed /\ n.early = m.early /\ n.due = m.due
  BY DEF WindowRecord
<1> HIDE DEF n
<1>5. Window!Judged(m) = n
  BY <1>3 DEF n
<1> QED BY <1>1, <1>2, <1>4, <1>5

\* To close leaves it sound if there is a reason to end the worker, or to have
\* an automatic run not completed.
LEMMA ClosesSoundly ==
  ASSUME NEW m \in WindowRecord, NEW a, NEW f \in BOOLEAN, Steady(m, a, f),
         m.worker => Settled(m, f) /\ (f \/ m.early),
         ~m.worker /\ m.automatic => m.completed \/ Blamed(m, f)
  PROVE  Window!BeginClose(m) \in WindowRecord /\ Sound(Window!BeginClose(m), a, f)
<1> DEFINE n == Window!BeginClose(m)
<1>1. /\ n \in WindowRecord /\ n.closing
      /\ m.worker => n.cancelRequested /\ n.window = m.window /\ n.quit = m.quit
      /\ ~m.worker => n.cancelRequested = m.cancelRequested /\ ~n.window
      /\ ~m.worker => n.quit \/ n.quit = m.quit
      /\ (n.due => m.due) /\ (~m.worker /\ m.window => ~n.due)
      /\ n.automatic = m.automatic /\ n.since = m.since /\ n.busy = m.busy
      /\ n.completed = m.completed /\ n.failed = m.failed /\ n.worker = m.worker
      /\ n.cancelled = m.cancelled /\ n.batches = m.batches
      /\ n.postError = m.postError /\ n.nameFailed = m.nameFailed /\ n.early = m.early
  BY Closings
<1> HIDE DEF n
<1>2. Sound(n, a, f)
  BY <1>1 DEF Sound, Steady, Settled, Blamed
<1> QED BY <1>1, <1>2 DEF n

\* To judge the worker once it has ended leaves it sound, and an automatic run is
\* completed then unless there is a reason.
LEMMA JudgesSoundly ==
  ASSUME NEW m \in WindowRecord, NEW f \in BOOLEAN, Sound(m, pc["A"], f),
         m.worker, Ended("A")
  PROVE  LET j == Window!Judged(m) IN
         /\ j \in WindowRecord /\ Steady(j, pc["A"], f) /\ ~j.worker
         /\ j.failed \/ Settled(j, f)
         /\ j.automatic => j.completed \/ Blamed(j, f)
<1> DEFINE j == Window!Judged(m)
<1>1. /\ j \in WindowRecord /\ ~j.worker /\ ~j.busy /\ j.failed = Failing(m)
      /\ j.completed = (~j.failed /\ ~m.cancelled) /\ j.automatic = m.automatic
      /\ j.quit = m.quit /\ j.window = m.window /\ j.since = m.since
      /\ j.closing = m.closing /\ j.cancelRequested = m.cancelRequested
      /\ j.cancelled = m.cancelled /\ j.batches = m.batches
      /\ j.postError = m.postError /\ j.nameFailed = m.nameFailed /\ j.early = m.early
      /\ j.due = m.due
  BY Judges
<1> HIDE DEF j
<1>2. (Failing(m) => Blamed(m, f)) /\ (m.automatic /\ m.cancelled => Failing(m))
  BY DEF Failing, Sound, Steady, Blamed, Ended
<1>3. ~Failing(m) => ~m.failed /\ pc["A"] # "failed" /\ (m.cancelled \/ m.batches)
  BY DEF Failing
<1>4. Steady(j, pc["A"], f)
  BY <1>1, <1>2, <1>3 DEF Sound, Steady, Blamed, Ended
<1>5. /\ j.failed \/ Settled(j, f)
      /\ j.automatic => j.completed \/ Blamed(j, f)
  BY <1>1, <1>2 DEF Settled, Blamed
<1> QED BY <1>1, <1>4, <1>5 DEF j

\* TryFinishWorker leaves it sound.
LEMMA FinishesSoundly ==
  ASSUME NEW m \in WindowRecord, NEW f \in BOOLEAN, Sound(m, pc["A"], f)
  PROVE  /\ Window!TryFinishWorker(m) \in WindowRecord
         /\ Sound(Window!TryFinishWorker(m), pc["A"], f)
<1> DEFINE j == Window!Judged(m)
<1>1. Window!TryFinishWorker(m) =
        IF ~Window!MayFinish(m) THEN m
        ELSE IF j.closing \/ j.automatic \/ j.failed THEN Window!BeginClose(j) ELSE j
  BY DEF Window!TryFinishWorker
<1>2. CASE ~Window!MayFinish(m)
  BY <1>1, <1>2
<1>3. CASE Window!MayFinish(m)
  <2>1. /\ j \in WindowRecord /\ Steady(j, pc["A"], f) /\ ~j.worker
        /\ j.failed \/ Settled(j, f)
        /\ j.automatic => j.completed \/ Blamed(j, f)
    BY <1>3, JudgesSoundly DEF Window!MayFinish, Window!Ended, Ended
  <2> HIDE DEF j
  <2>2. /\ Window!BeginClose(j) \in WindowRecord
        /\ Sound(Window!BeginClose(j), pc["A"], f)
    BY <2>1, ClosesSoundly
  <2> QED BY <1>1, <1>3, <2>1, <2>2 DEF Sound
<1> QED BY <1>2, <1>3

\* A step after which the memory is sound.
LEMMA WindowMoves ==
  ASSUME ProcessInv, WorkerUiInv, NEW t \in Thread, NEW to,
         UNCHANGED <<program, suspends, signaled, open, exit>>,
         exit = "running", pc' = [pc EXCEPT ![t] = to], Faulty, mem' \in WindowRecord,
         Sound(mem', pc'["A"], faulted' # {}), t \in {Main, "A", "C"},
         t = Main => to \in {"pump", "after", "report"} /\ (to = "report" =>
           ~mem'.window),
         t = "A" => to \in {"begin", "poll", "post", "leave", "done", "failed"},
         t = "C" => to = "none",
         t # Main /\ pc[Main] = "report" => ~mem'.window
  PROVE  ProcessInv' /\ WorkerUiInv'
<1>1. /\ signaled \cap Worker = {} /\ open \in BOOLEAN /\ Main \in Thread /\ Main # "A"
      /\ Main # "C" /\ "A" \in Thread
  BY DEF ProcessInv, Thread, Worker, Main
<1>2. ProcessInv' /\ Moved(t, to)
  BY <1>1, Moves DEF ProcessInv
<1>3. Only({"A"})' /\ open'
  BY <1>1, <1>2 DEF Only, Moved, WorkerUiInv, Thread, Worker
<1>4. /\ pc'["A"] \in {"none", "begin", "poll", "post", "leave", "done", "failed"}
      /\ pc'[Main] \in {"pump", "after", "report"}
      /\ pc'[Main] = "report" => ~mem'.window
  BY <1>1, <1>2 DEF Moved, WorkerUiInv
<1> QED BY <1>2, <1>3, <1>4 DEF WorkerUiInv, WindowType

\* The same of one of Main after which no call has failed, and of one that has.
LEMMA Dispatches ==
  ASSUME ProcessInv, WorkerUiInv, UNCHANGED <<program, suspends, signaled, open, exit>>,
         exit = "running", NEW m \in WindowRecord, mem' = m, NEW to,
         pc' = [pc EXCEPT ![Main] = to],
         \/ UNCHANGED faulted /\ Sound(m, pc["A"], faulted # {})
         \/ (\E f \in Faults : Fault(f)) /\ Sound(m, pc["A"], TRUE),
         to \in {"pump", "after"} \/ (to = "report" /\ ~m.window)
  PROVE  ProcessInv' /\ WorkerUiInv'
<1>1. pc'["A"] = pc["A"] /\ Main \in Thread /\ Main # "A" /\ Main # "C"
  BY DEF ProcessInv, Thread, Worker, Main
<1>2. Sound(mem', pc'["A"], faulted' # {})
  <2>1. CASE UNCHANGED faulted /\ Sound(m, pc["A"], faulted # {})
    BY <1>1, <2>1
  <2>2. CASE (\E f \in Faults : Fault(f)) /\ Sound(m, pc["A"], TRUE)
    <3>1. (faulted' # {}) = TRUE
      BY <2>2 DEF Fault
    <3> QED BY <1>1, <2>2, <3>1
  <2> QED BY <2>1, <2>2
<1>3. Faulty
  BY DEF Faulty, NoFault
<1> QED BY <1>1, <1>2, <1>3, WindowMoves

\* What is sound is so if a call has failed.
LEMMA SoundAnyway ==
  ASSUME NEW m \in WindowRecord, NEW a, NEW f \in BOOLEAN, Sound(m, a, f)
  PROVE  Sound(m, a, TRUE)
BY DEF Sound, Steady, Settled, Blamed

\* StartWork of worker_ui.cpp.
LEMMA StartWorkerStep ==
  ASSUME ProcessInv, WorkerUiInv, UNCHANGED program, NEW m \in WindowRecord,
         Sound(m, pc["A"], faulted # {}), Window!StartWorker(m)
  PROVE  ProcessInv' /\ WorkerUiInv'
<1> USE DEF Window!Go, Window!At, Window!Running, Window!Store, Window!Dispatch,
    Window!Main, Main, Window!Fault, Fault, Moved, Faulty, NoFault, Alive
<1> DEFINE r == Window!NewRun(m)
<1>1. /\ r \in WindowRecord /\ ~r.completed /\ ~r.since /\ ~r.cancelRequested
      /\ ~r.cancelled /\ ~r.batches /\ ~r.postError /\ ~r.nameFailed /\ r.busy
      /\ r.automatic = m.automatic /\ r.quit = m.quit /\ r.window = m.window
      /\ r.failed = m.failed /\ r.closing = m.closing /\ r.worker = m.worker
      /\ r.early = m.early /\ r.due = m.due
  BY RunsAnew
<1> HIDE DEF r
<1>2. CASE ~Window!MayStart(m) /\ Window!Dispatch(m)
  BY <1>2, Dispatches
<1>3. Window!MayStart(m) => ~m.busy /\ ~m.closing /\ ~m.failed /\ ~m.worker /\ m.window
  BY DEF Window!MayStart, Sound, Steady
<1>4. CASE /\ Window!MayStart(m) /\ Window!At(Main, "pump")
           /\ pc' = [pc EXCEPT !["A"] = "begin"]
           /\ mem' = [r EXCEPT !.worker = TRUE]
           /\ UNCHANGED <<suspends, signaled, open, exit, faulted>>
  <2>1. /\ mem' \in WindowRecord /\ mem'.worker
        /\ ~mem'.completed /\ ~mem'.since /\ ~mem'.cancelRequested
        /\ ~mem'.cancelled /\ ~mem'.batches /\ ~mem'.postError /\ ~mem'.nameFailed
        /\ mem'.busy /\ mem'.automatic = r.automatic /\ mem'.quit = r.quit
        /\ mem'.window = r.window /\ mem'.failed = r.failed
        /\ mem'.closing = r.closing /\ mem'.early = r.early
    BY <1>1, <1>4 DEF WindowRecord
  <2>2. "A" \in Thread /\ "A" # Main /\ "A" # "C" /\ Main \in Thread
    BY DEF Thread, Worker
  <2>3. pc'["A"] = "begin" /\ exit = "running" /\ pc[Main] = "pump"
    BY <1>4, <2>2 DEF ProcessInv
  <2>4. Sound(mem', "begin", faulted' # {})
    BY <1>1, <1>3, <1>4, <2>1 DEF Sound, Steady, Settled, Blamed
  <2> QED BY <1>4, <2>1, <2>2, <2>3, <2>4, WindowMoves
<1>5. CASE /\ Window!MayStart(m) /\ Window!Go(Main, "pump", "pump")
           /\ Window!Fault("call")
           /\ mem' = Window!BeginClose([r EXCEPT !.failed = TRUE, !.busy = FALSE])
           /\ UNCHANGED <<suspends, signaled, open, exit>>
  <2> DEFINE k == [r EXCEPT !.failed = TRUE, !.busy = FALSE]
  <2>1. /\ k \in WindowRecord /\ k.failed /\ ~k.busy
        /\ ~k.completed /\ ~k.since /\ ~k.cancelRequested
        /\ ~k.cancelled /\ ~k.batches /\ ~k.postError /\ ~k.nameFailed
        /\ k.automatic = r.automatic /\ k.quit = r.quit /\ k.window = r.window
        /\ k.closing = r.closing /\ k.worker = r.worker /\ k.early = r.early
    BY <1>1 DEF WindowRecord
  <2> HIDE DEF k
  <2>2. Sound(k, pc["A"], TRUE)
    BY <1>1, <1>3, <1>5, <2>1 DEF Sound, Steady, Settled, Blamed
  <2>3. /\ Window!BeginClose(k) \in WindowRecord
        /\ Sound(Window!BeginClose(k), pc["A"], TRUE)
    BY <2>1, <2>2, ClosesSoundly DEF Sound, Steady
  <2>4. /\ mem' = Window!BeginClose(k) /\ pc' = [pc EXCEPT ![Main] = "pump"]
        /\ exit = "running" /\ \E f \in Faults : Fault(f)
        /\ UNCHANGED <<suspends, signaled, open, exit>>
    BY <1>5 DEF k
  <2> QED BY <2>3, <2>4, Dispatches
<1> QED BY <1>2, <1>4, <1>5 DEF Window!StartWorker, r

\* The message that the worker posts.
LEMMA CompletionPosted ==
  ASSUME NEW m \in WindowRecord
  PROVE  LET n == [m EXCEPT !.queue = Append(@, Window!Message("completed",
    m.runNumber))]
         IN  /\ n \in WindowRecord /\ n.automatic = m.automatic /\ n.quit = m.quit
             /\ n.window = m.window /\ n.since = m.since /\ n.busy = m.busy
             /\ n.completed = m.completed /\ n.failed = m.failed
             /\ n.closing = m.closing /\ n.worker = m.worker
             /\ n.cancelRequested = m.cancelRequested /\ n.cancelled = m.cancelled
             /\ n.batches = m.batches /\ n.postError = m.postError
             /\ n.nameFailed = m.nameFailed /\ n.early = m.early /\ n.due = m.due
<1>1. Window!Message("completed", m.runNumber) \in MessageRecord
  BY DEF Window!Message, MessageRecord, WindowRecord
<1>2. Append(m.queue, Window!Message("completed", m.runNumber)) \in Seq(MessageRecord)
  BY <1>1, AppendProperties DEF WindowRecord
<1> QED BY <1>2 DEF WindowRecord

\* The steps of the worker of worker_ui.cpp.
LEMMA ComputeWorkerStep ==
  ASSUME ProcessInv, WorkerUiInv, UNCHANGED program, Window!ComputeWorker("A")
  PROVE  ProcessInv' /\ WorkerUiInv'
<1> USE DEF Window!Go, Window!At, Window!Running, Window!Store, Window!Call,
    Window!Fails, Window!others, Main, Window!Fault, Fault, Moved, Faulty, NoFault,
    Alive
<1>0. /\ mem \in WindowRecord /\ Sound(mem, pc["A"], faulted # {})
      /\ pc[Main] = "report" => ~mem.window
      /\ "A" \in Thread /\ "A" # Main /\ "A" # "C" /\ pc = [u \in Thread |-> pc[u]]
  BY DEF WorkerUiInv, WindowType, ProcessInv, Thread, Worker
<1>1. CASE Window!Call("A", "begin", "poll")
  <2>1. /\ pc["A"] = "begin" /\ exit = "running" /\ pc' = [pc EXCEPT !["A"] = "poll"]
        /\ mem' = mem
        /\ UNCHANGED faulted
        /\ UNCHANGED <<suspends, signaled, open, exit>>
    BY <1>1
  <2>2. /\ mem' \in WindowRecord /\ mem'.automatic = mem.automatic
        /\ mem'.quit = mem.quit /\ mem'.window = mem.window /\ mem'.since = mem.since
        /\ mem'.busy = mem.busy /\ mem'.completed = mem.completed
        /\ mem'.failed = mem.failed /\ mem'.closing = mem.closing
        /\ mem'.worker = mem.worker /\ mem'.cancelRequested = mem.cancelRequested
        /\ mem'.cancelled = mem.cancelled /\ mem'.batches = mem.batches
        /\ mem'.postError = mem.postError /\ mem'.nameFailed = mem.nameFailed
        /\ mem'.early = mem.early /\ mem'.due = mem.due
    BY <1>0, <2>1
  <2>3. mem.worker /\ pc'["A"] = "poll"
    BY <1>0, <2>1 DEF Sound, Steady, Settled, Blamed
  <2>4. (faulted' # {}) = (faulted # {})
    BY <2>1
  <2>5. Sound(mem', "poll", faulted # {})
    BY <1>0, <2>1, <2>2, <2>3 DEF Sound, Steady, Settled, Blamed
  <2> QED BY <1>0, <2>1, <2>2, <2>3, <2>4, <2>5, WindowMoves
<1>2. CASE /\ Window!Go("A", "begin", "post") /\ Window!Fault("call")
           /\ mem' = [mem EXCEPT !.nameFailed = TRUE]
           /\ UNCHANGED <<suspends, signaled, open, exit>>
  <2>1. /\ pc["A"] = "begin" /\ exit = "running" /\ pc' = [pc EXCEPT !["A"] = "post"]
        /\ mem' = [mem EXCEPT !.nameFailed = TRUE]
        /\ Fault("call")
        /\ UNCHANGED <<suspends, signaled, open, exit>>
    BY <1>2
  <2>2. /\ mem' \in WindowRecord /\ mem'.nameFailed = TRUE
        /\ mem'.automatic = mem.automatic /\ mem'.quit = mem.quit
        /\ mem'.window = mem.window /\ mem'.since = mem.since /\ mem'.busy = mem.busy
        /\ mem'.completed = mem.completed /\ mem'.failed = mem.failed
        /\ mem'.closing = mem.closing /\ mem'.worker = mem.worker
        /\ mem'.cancelRequested = mem.cancelRequested /\ mem'.cancelled = mem.cancelled
        /\ mem'.batches = mem.batches /\ mem'.postError = mem.postError
        /\ mem'.early = mem.early /\ mem'.due = mem.due
    BY <1>0, <2>1 DEF WindowRecord
  <2>3. mem.worker /\ pc'["A"] = "post"
    BY <1>0, <2>1 DEF Sound, Steady, Settled, Blamed
  <2>4. (faulted' # {}) = TRUE
    BY <2>1
  <2>5. Sound(mem', "post", TRUE)
    BY <1>0, <2>1, <2>2, <2>3 DEF Sound, Steady, Settled, Blamed
  <2> QED BY <1>0, <2>1, <2>2, <2>3, <2>4, <2>5, WindowMoves
<1>3. CASE /\ mem.cancelRequested
           /\ Window!Store("A", "poll", [mem EXCEPT !.cancelled = TRUE], "post")
  <2>1. /\ pc["A"] = "poll" /\ exit = "running" /\ pc' = [pc EXCEPT !["A"] = "post"]
        /\ mem' = [mem EXCEPT !.cancelled = TRUE]
        /\ UNCHANGED faulted /\ mem.cancelRequested
        /\ UNCHANGED <<suspends, signaled, open, exit>>
    BY <1>3
  <2>2. /\ mem' \in WindowRecord /\ mem'.cancelled = TRUE
        /\ mem'.automatic = mem.automatic /\ mem'.quit = mem.quit
        /\ mem'.window = mem.window /\ mem'.since = mem.since /\ mem'.busy = mem.busy
        /\ mem'.completed = mem.completed /\ mem'.failed = mem.failed
        /\ mem'.closing = mem.closing /\ mem'.worker = mem.worker
        /\ mem'.cancelRequested = mem.cancelRequested /\ mem'.batches = mem.batches
        /\ mem'.postError = mem.postError /\ mem'.nameFailed = mem.nameFailed
        /\ mem'.early = mem.early /\ mem'.due = mem.due
    BY <1>0, <2>1 DEF WindowRecord
  <2>3. mem.worker /\ pc'["A"] = "post"
    BY <1>0, <2>1 DEF Sound, Steady, Settled, Blamed
  <2>4. (faulted' # {}) = (faulted # {})
    BY <2>1
  <2>5. Sound(mem', "post", faulted # {})
    BY <1>0, <2>1, <2>2, <2>3 DEF Sound, Steady, Settled, Blamed
  <2> QED BY <1>0, <2>1, <2>2, <2>3, <2>4, <2>5, WindowMoves
<1>4. CASE /\ ~mem.cancelRequested
           /\ Window!Store("A", "poll", [mem EXCEPT !.batches = TRUE], "poll")
  <2>1. /\ pc["A"] = "poll" /\ exit = "running" /\ pc' = [pc EXCEPT !["A"] = "poll"]
        /\ mem' = [mem EXCEPT !.batches = TRUE]
        /\ UNCHANGED faulted
        /\ UNCHANGED <<suspends, signaled, open, exit>>
    BY <1>4
  <2>2. /\ mem' \in WindowRecord /\ mem'.batches = TRUE
        /\ mem'.automatic = mem.automatic /\ mem'.quit = mem.quit
        /\ mem'.window = mem.window /\ mem'.since = mem.since /\ mem'.busy = mem.busy
        /\ mem'.completed = mem.completed /\ mem'.failed = mem.failed
        /\ mem'.closing = mem.closing /\ mem'.worker = mem.worker
        /\ mem'.cancelRequested = mem.cancelRequested /\ mem'.cancelled = mem.cancelled
        /\ mem'.postError = mem.postError /\ mem'.nameFailed = mem.nameFailed
        /\ mem'.early = mem.early /\ mem'.due = mem.due
    BY <1>0, <2>1 DEF WindowRecord
  <2>3. mem.worker /\ pc'["A"] = "poll"
    BY <1>0, <2>1 DEF Sound, Steady, Settled, Blamed
  <2>4. (faulted' # {}) = (faulted # {})
    BY <2>1
  <2>5. Sound(mem', "poll", faulted # {})
    BY <1>0, <2>1, <2>2, <2>3 DEF Sound, Steady, Settled, Blamed
  <2> QED BY <1>0, <2>1, <2>2, <2>3, <2>4, <2>5, WindowMoves
<1>5. CASE mem.batches /\ Window!Call("A", "poll", "post")
  <2>1. /\ pc["A"] = "poll" /\ exit = "running" /\ pc' = [pc EXCEPT !["A"] = "post"]
        /\ mem' = mem
        /\ UNCHANGED faulted /\ mem.batches
        /\ UNCHANGED <<suspends, signaled, open, exit>>
    BY <1>5
  <2>2. /\ mem' \in WindowRecord /\ mem'.automatic = mem.automatic
        /\ mem'.quit = mem.quit /\ mem'.window = mem.window /\ mem'.since = mem.since
        /\ mem'.busy = mem.busy /\ mem'.completed = mem.completed
        /\ mem'.failed = mem.failed /\ mem'.closing = mem.closing
        /\ mem'.worker = mem.worker /\ mem'.cancelRequested = mem.cancelRequested
        /\ mem'.cancelled = mem.cancelled /\ mem'.batches = mem.batches
        /\ mem'.postError = mem.postError /\ mem'.nameFailed = mem.nameFailed
        /\ mem'.early = mem.early /\ mem'.due = mem.due
    BY <1>0, <2>1
  <2>3. mem.worker /\ pc'["A"] = "post"
    BY <1>0, <2>1 DEF Sound, Steady, Settled, Blamed
  <2>4. (faulted' # {}) = (faulted # {})
    BY <2>1
  <2>5. Sound(mem', "post", faulted # {})
    BY <1>0, <2>1, <2>2, <2>3 DEF Sound, Steady, Settled, Blamed
  <2> QED BY <1>0, <2>1, <2>2, <2>3, <2>4, <2>5, WindowMoves
<1>6. CASE Window!Store("A", "post",
             [mem EXCEPT !.queue = Append(@, Window!Message("completed",
               mem.runNumber))],
             "leave")
  <2>1. /\ pc["A"] = "post" /\ exit = "running" /\ pc' = [pc EXCEPT !["A"] = "leave"]
        /\ mem' = [mem EXCEPT !.queue =
                                Append(@, Window!Message("completed", mem.runNumber))]
        /\ UNCHANGED faulted
        /\ UNCHANGED <<suspends, signaled, open, exit>>
    BY <1>6
  <2>2. /\ mem' \in WindowRecord /\ mem'.automatic = mem.automatic
        /\ mem'.quit = mem.quit /\ mem'.window = mem.window /\ mem'.since = mem.since
        /\ mem'.busy = mem.busy /\ mem'.completed = mem.completed
        /\ mem'.failed = mem.failed /\ mem'.closing = mem.closing
        /\ mem'.worker = mem.worker /\ mem'.cancelRequested = mem.cancelRequested
        /\ mem'.cancelled = mem.cancelled /\ mem'.batches = mem.batches
        /\ mem'.postError = mem.postError /\ mem'.nameFailed = mem.nameFailed
        /\ mem'.early = mem.early /\ mem'.due = mem.due
    BY <1>0, <2>1, CompletionPosted
  <2>3. mem.worker /\ pc'["A"] = "leave"
    BY <1>0, <2>1 DEF Sound, Steady, Settled, Blamed
  <2>4. (faulted' # {}) = (faulted # {})
    BY <2>1
  <2>5. Sound(mem', "leave", faulted # {})
    BY <1>0, <2>1, <2>2, <2>3 DEF Sound, Steady, Settled, Blamed
  <2> QED BY <1>0, <2>1, <2>2, <2>3, <2>4, <2>5, WindowMoves
<1>7. CASE /\ Window!Go("A", "post", "leave") /\ Window!Fault("call")
           /\ mem' = [mem EXCEPT !.postError = TRUE]
           /\ UNCHANGED <<suspends, signaled, open, exit>>
  <2>1. /\ pc["A"] = "post" /\ exit = "running" /\ pc' = [pc EXCEPT !["A"] = "leave"]
        /\ mem' = [mem EXCEPT !.postError = TRUE]
        /\ Fault("call")
        /\ UNCHANGED <<suspends, signaled, open, exit>>
    BY <1>7
  <2>2. /\ mem' \in WindowRecord /\ mem'.postError = TRUE
        /\ mem'.automatic = mem.automatic /\ mem'.quit = mem.quit
        /\ mem'.window = mem.window /\ mem'.since = mem.since /\ mem'.busy = mem.busy
        /\ mem'.completed = mem.completed /\ mem'.failed = mem.failed
        /\ mem'.closing = mem.closing /\ mem'.worker = mem.worker
        /\ mem'.cancelRequested = mem.cancelRequested /\ mem'.cancelled = mem.cancelled
        /\ mem'.batches = mem.batches /\ mem'.nameFailed = mem.nameFailed
        /\ mem'.early = mem.early /\ mem'.due = mem.due
    BY <1>0, <2>1 DEF WindowRecord
  <2>3. mem.worker /\ pc'["A"] = "leave"
    BY <1>0, <2>1 DEF Sound, Steady, Settled, Blamed
  <2>4. (faulted' # {}) = TRUE
    BY <2>1
  <2>5. Sound(mem', "leave", TRUE)
    BY <1>0, <2>1, <2>2, <2>3 DEF Sound, Steady, Settled, Blamed
  <2> QED BY <1>0, <2>1, <2>2, <2>3, <2>4, <2>5, WindowMoves
<1>8. CASE /\ mem.nameFailed \/ mem.postError
           /\ Window!Call("A", "leave", IF mem.nameFailed \/ mem.postError
                THEN "failed" ELSE "done")
  <2>1. /\ pc["A"] = "leave" /\ exit = "running" /\ pc' = [pc EXCEPT !["A"] = "failed"]
        /\ mem' = mem
        /\ UNCHANGED faulted /\ (mem.nameFailed \/ mem.postError)
        /\ UNCHANGED <<suspends, signaled, open, exit>>
    BY <1>8
  <2>2. /\ mem' \in WindowRecord /\ mem'.automatic = mem.automatic
        /\ mem'.quit = mem.quit /\ mem'.window = mem.window /\ mem'.since = mem.since
        /\ mem'.busy = mem.busy /\ mem'.completed = mem.completed
        /\ mem'.failed = mem.failed /\ mem'.closing = mem.closing
        /\ mem'.worker = mem.worker /\ mem'.cancelRequested = mem.cancelRequested
        /\ mem'.cancelled = mem.cancelled /\ mem'.batches = mem.batches
        /\ mem'.postError = mem.postError /\ mem'.nameFailed = mem.nameFailed
        /\ mem'.early = mem.early /\ mem'.due = mem.due
    BY <1>0, <2>1
  <2>3. mem.worker /\ pc'["A"] = "failed"
    BY <1>0, <2>1 DEF Sound, Steady, Settled, Blamed
  <2>4. (faulted' # {}) = (faulted # {})
    BY <2>1
  <2>5. Sound(mem', "failed", faulted # {})
    BY <1>0, <2>1, <2>2, <2>3 DEF Sound, Steady, Settled, Blamed
  <2> QED BY <1>0, <2>1, <2>2, <2>3, <2>4, <2>5, WindowMoves
<1>9. CASE /\ ~(mem.nameFailed \/ mem.postError)
            /\ Window!Call("A", "leave", IF mem.nameFailed \/ mem.postError
                 THEN "failed" ELSE "done")
  <2>1. /\ pc["A"] = "leave" /\ exit = "running" /\ pc' = [pc EXCEPT !["A"] = "done"]
        /\ mem' = mem
        /\ UNCHANGED faulted
        /\ UNCHANGED <<suspends, signaled, open, exit>>
    BY <1>9
  <2>2. /\ mem' \in WindowRecord /\ mem'.automatic = mem.automatic
        /\ mem'.quit = mem.quit /\ mem'.window = mem.window /\ mem'.since = mem.since
        /\ mem'.busy = mem.busy /\ mem'.completed = mem.completed
        /\ mem'.failed = mem.failed /\ mem'.closing = mem.closing
        /\ mem'.worker = mem.worker /\ mem'.cancelRequested = mem.cancelRequested
        /\ mem'.cancelled = mem.cancelled /\ mem'.batches = mem.batches
        /\ mem'.postError = mem.postError /\ mem'.nameFailed = mem.nameFailed
        /\ mem'.early = mem.early /\ mem'.due = mem.due
    BY <1>0, <2>1
  <2>3. mem.worker /\ pc'["A"] = "done"
    BY <1>0, <2>1 DEF Sound, Steady, Settled, Blamed
  <2>4. (faulted' # {}) = (faulted # {})
    BY <2>1
  <2>5. Sound(mem', "done", faulted # {})
    BY <1>0, <2>1, <2>2, <2>3 DEF Sound, Steady, Settled, Blamed
  <2> QED BY <1>0, <2>1, <2>2, <2>3, <2>4, <2>5, WindowMoves
<1> QED BY <1>1, <1>2, <1>3, <1>4, <1>5, <1>6, <1>7, <1>8, <1>9 DEF
           Window!ComputeWorker, Window!PostCompletion

\* The steps of the window of worker_ui.cpp.
LEMMA WorkerWindowStep ==
  ASSUME ProcessInv, WorkerUiInv, UNCHANGED program, Window!WorkerUi(Main)
  PROVE  ProcessInv' /\ WorkerUiInv'
<1> USE DEF Window!Go, Window!At, Window!Running, Window!Store, Window!Dispatch,
    Window!Call, Window!others, Window!Main, Main, Window!Fault, Fault,
    Window!CheckFails, Window!ExitOn, Window!Return, Window!EndProcess, Moved, Faulty,
    NoFault, Alive
<1>0. /\ mem \in WindowRecord /\ Sound(mem, pc["A"], faulted # {})
      /\ Sound(mem, pc["A"], TRUE) /\ (faulted # {}) \in BOOLEAN
      /\ pc[Main] = "report" => ~mem.window
  BY SoundAnyway DEF WorkerUiInv, WindowType
<1>a. ASSUME mem.queue # <<>>
      PROVE  LET n == Window!Taken(mem) IN
             n \in WindowRecord /\ Sound(n, pc["A"], faulted # {})
  <2>1. LET n == Window!Taken(mem) IN
        /\ n \in WindowRecord /\ n.automatic = mem.automatic /\ n.quit = mem.quit
        /\ n.window = mem.window /\ n.since = mem.since /\ n.busy = mem.busy
        /\ n.completed = mem.completed /\ n.failed = mem.failed
        /\ n.closing = mem.closing /\ n.worker = mem.worker
        /\ n.cancelRequested = mem.cancelRequested /\ n.cancelled = mem.cancelled
        /\ n.batches = mem.batches /\ n.postError = mem.postError
        /\ n.nameFailed = mem.nameFailed /\ n.early = mem.early /\ n.due = mem.due
    BY <1>0, <1>a, Takes
  <2> QED BY <1>0, <2>1 DEF Sound, Steady, Settled, Blamed
<1>1. CASE Window!Posted("start") /\ Window!StartWorker(Window!Taken(mem))
  BY <1>1, <1>a, StartWorkerStep DEF Window!Posted
<1>2. CASE Window!ClicksStart /\ Window!StartWorker(Window!Clicked(mem))
  <2>1. LET n == Window!Clicked(mem) IN
        /\ n \in WindowRecord /\ n.automatic = mem.automatic /\ n.quit = mem.quit
        /\ n.window = mem.window /\ n.since = mem.since /\ n.busy = mem.busy
        /\ n.completed = mem.completed /\ n.failed = mem.failed
        /\ n.closing = mem.closing /\ n.worker = mem.worker
        /\ n.cancelRequested = mem.cancelRequested /\ n.cancelled = mem.cancelled
        /\ n.batches = mem.batches /\ n.postError = mem.postError
        /\ n.nameFailed = mem.nameFailed /\ n.early = mem.early /\ n.due = mem.due
    BY <1>0, Clicks
  <2>2. Sound(Window!Clicked(mem), pc["A"], faulted # {})
    BY <1>0, <2>1 DEF Sound, Steady, Settled, Blamed
  <2> QED BY <1>2, <2>1, <2>2, StartWorkerStep
<1>3. CASE /\ Window!Posted("completed")
           /\ Window!Dispatch(Window!WorkCompleted(Head(mem.queue).run,
                Window!Taken(mem)))
  <2> DEFINE k == Window!Taken(mem)
             n == Window!WorkCompleted(Head(mem.queue).run, k)
             r == [k EXCEPT !.received = TRUE]
  <2>1. k \in WindowRecord /\ Sound(k, pc["A"], faulted # {})
    BY <1>3, <1>a DEF Window!Posted
  <2>2. n = k \/ n = Window!TryFinishWorker(r)
    BY DEF Window!WorkCompleted
  <2>3. mem' = n /\ pc' = [pc EXCEPT ![Main] = "pump"] /\ exit = "running"
        /\ UNCHANGED <<suspends, signaled, open, exit, faulted>>
    BY <1>3
  <2> HIDE DEF k, n
  <2>4. /\ r \in WindowRecord /\ r.automatic = k.automatic /\ r.quit = k.quit
        /\ r.window = k.window /\ r.since = k.since /\ r.busy = k.busy
        /\ r.completed = k.completed /\ r.failed = k.failed /\ r.closing = k.closing
        /\ r.worker = k.worker /\ r.cancelRequested = k.cancelRequested
        /\ r.cancelled = k.cancelled /\ r.batches = k.batches
        /\ r.postError = k.postError /\ r.nameFailed = k.nameFailed /\ r.early = k.early
        /\ r.due = k.due
    BY <2>1 DEF WindowRecord
  <2> HIDE DEF r
  <2>5. Sound(r, pc["A"], faulted # {})
    BY <2>1, <2>4 DEF Sound, Steady, Settled, Blamed
  <2>6. n \in WindowRecord /\ Sound(n, pc["A"], faulted # {})
    BY <1>0, <2>1, <2>2, <2>4, <2>5, FinishesSoundly
  <2> QED BY <2>3, <2>6, Dispatches
<1>4. CASE Window!Idle /\ mem.due /\ Window!Dispatch(Window!Heartbeat(mem))
  <2> DEFINE n == Window!Heartbeat(mem)
  <2>1. n \in WindowRecord /\ n.since /\ ~n.due /\ mem.window
        /\ n.automatic = mem.automatic /\ n.quit = mem.quit /\ n.window = mem.window
        /\ n.busy = mem.busy /\ n.completed = mem.completed /\ n.failed = mem.failed
        /\ n.closing = mem.closing /\ n.worker = mem.worker
        /\ n.cancelRequested = mem.cancelRequested /\ n.cancelled = mem.cancelled
        /\ n.batches = mem.batches /\ n.postError = mem.postError
        /\ n.nameFailed = mem.nameFailed /\ n.early = mem.early
    BY <1>0, <1>4, Beats DEF Sound, Steady
  <2> HIDE DEF n
  <2>2. Sound(n, pc["A"], faulted # {})
    BY <1>0, <2>1 DEF Sound, Steady, Settled, Blamed
  <2> QED BY <1>4, <2>1, <2>2, Dispatches DEF n
<1>5. CASE /\ Window!UserActs
           /\ Window!Dispatch(Window!CloseWorker([mem EXCEPT !.early = TRUE]))
  <2> DEFINE k == [mem EXCEPT !.early = TRUE]
  <2>1. PICK v \in BOOLEAN : v = (k.failed \/ (k.automatic /\ ~k.completed))
    OBVIOUS
  <2> DEFINE l == [k EXCEPT !.failed = v]
  <2>2. /\ k \in WindowRecord /\ k.early /\ k.automatic = mem.automatic
        /\ k.quit = mem.quit /\ k.window = mem.window /\ k.since = mem.since
        /\ k.busy = mem.busy /\ k.completed = mem.completed /\ k.failed = mem.failed
        /\ k.closing = mem.closing /\ k.worker = mem.worker
        /\ k.cancelRequested = mem.cancelRequested /\ k.cancelled = mem.cancelled
        /\ k.batches = mem.batches /\ k.postError = mem.postError
        /\ k.nameFailed = mem.nameFailed /\ k.due = mem.due
    BY <1>0 DEF WindowRecord
  <2>3. mem' = Window!BeginClose(l) /\ pc' = [pc EXCEPT ![Main] = "pump"]
        /\ exit = "running" /\ UNCHANGED <<suspends, signaled, open, exit, faulted>>
    BY <1>5, <2>1 DEF Window!CloseWorker
  <2> HIDE DEF k
  <2>4. /\ l \in WindowRecord /\ l.failed = v /\ l.automatic = k.automatic
        /\ l.quit = k.quit /\ l.window = k.window /\ l.since = k.since
        /\ l.busy = k.busy /\ l.completed = k.completed /\ l.closing = k.closing
        /\ l.worker = k.worker /\ l.cancelRequested = k.cancelRequested
        /\ l.cancelled = k.cancelled /\ l.batches = k.batches
        /\ l.postError = k.postError /\ l.nameFailed = k.nameFailed /\ l.early = k.early
        /\ l.due = k.due
    BY <2>2 DEF WindowRecord
  <2> HIDE DEF l
  <2>5. Sound(l, pc["A"], faulted # {})
    BY <1>0, <2>1, <2>2, <2>4 DEF Sound, Steady, Settled, Blamed
  <2>6. /\ Window!BeginClose(l) \in WindowRecord
        /\ Sound(Window!BeginClose(l), pc["A"], faulted # {})
    BY <1>0, <2>2, <2>4, <2>5, ClosesSoundly DEF Sound, Blamed
  <2> QED BY <2>3, <2>6, Dispatches
<1>6. CASE \/ Window!Idle /\ ~mem.due /\ mem.quit /\ Window!Call(Main, "pump", "report")
           \/ Window!Idle /\ ~mem.due /\ ~mem.quit /\ Window!Call(Main, "pump", "after")
  <2>1. mem.quit => ~mem.window
    BY <1>0 DEF Sound, Steady, Settled, Blamed
  <2> QED BY <1>0, <1>6, <2>1, Dispatches
<1>7. CASE Window!FinishedOrQuit
  <2> DEFINE c == IF mem.failed /\ ~mem.closing THEN Window!BeginClose(mem) ELSE mem
             n == Window!TryFinishWorker(c)
  <2>1. mem.failed => /\ mem.worker => faulted # {} \/ mem.early
                      /\ Blamed(mem, faulted # {})
    BY <1>0 DEF Sound, Steady, Settled, Blamed
  <2>2. mem.failed => /\ Window!BeginClose(mem) \in WindowRecord
                      /\ Sound(Window!BeginClose(mem), pc["A"], faulted # {})
    BY <1>0, <2>1, ClosesSoundly DEF Sound
  <2>3. c \in WindowRecord /\ Sound(c, pc["A"], faulted # {})
    BY <1>0, <2>2
  <2>4. /\ mem' = n /\ exit = "running"
        /\ pc' = [pc EXCEPT ![Main] = IF ~n.window /\ ~n.worker THEN "report"
             ELSE "pump"]
        /\ UNCHANGED <<suspends, signaled, open, exit, faulted>>
    BY <1>7 DEF Window!FinishedOrQuit
  <2> HIDE DEF c
  <2>5. n \in WindowRecord /\ Sound(n, pc["A"], faulted # {})
    BY <1>0, <2>3, FinishesSoundly
  <2> HIDE DEF n
  <2> QED BY <2>4, <2>5, Dispatches
<1>8. CASE \/ Window!RecordFailure("pump", "call")
           \/ mem.automatic /\ ~mem.closing /\ Window!RecordFailure("after", "slow")
  <2> DEFINE n == [mem EXCEPT !.failed = TRUE]
  <2>1. /\ mem' = n /\ exit = "running" /\ \E f \in Faults : Fault(f)
        /\ \/ pc' = [pc EXCEPT ![Main] = "pump"]
           \/ pc' = [pc EXCEPT ![Main] = "after"]
        /\ UNCHANGED <<suspends, signaled, open, exit>>
    BY <1>8 DEF Window!RecordFailure
  <2>2. /\ n \in WindowRecord /\ n.failed /\ n.automatic = mem.automatic
        /\ n.quit = mem.quit /\ n.window = mem.window /\ n.since = mem.since
        /\ n.busy = mem.busy /\ n.completed = mem.completed /\ n.closing = mem.closing
        /\ n.worker = mem.worker /\ n.cancelRequested = mem.cancelRequested
        /\ n.cancelled = mem.cancelled /\ n.batches = mem.batches
        /\ n.postError = mem.postError /\ n.nameFailed = mem.nameFailed
        /\ n.early = mem.early /\ n.due = mem.due
    BY <1>0 DEF WindowRecord
  <2> HIDE DEF n
  <2>3. Sound(n, pc["A"], TRUE)
    BY <1>0, <2>2 DEF Sound, Steady, Settled, Blamed
  <2> QED BY <2>1, <2>2, <2>3, Dispatches
<1>9. CASE \/ Window!Return("report", ~mem.failed /\ (mem.automatic => mem.completed))
           \/ Window!CheckFails(Main, {"pump", "after"})
  <2>1. /\ exit = "running" /\ exit' \in {"passed", "failed"}
        /\ \/ ~mem.window /\ UNCHANGED faulted
              /\ exit' = IF ~mem.failed /\ (mem.automatic => mem.completed)
                         THEN "passed" ELSE "failed"
           \/ exit' = "failed" /\ \E f \in Faults : Fault(f)
        /\ UNCHANGED <<pc, suspends, signaled, open, mem>>
    BY <1>0, <1>9
  <2>2. ProcessInv'
    BY <2>1, Ends DEF Status
  <2>3. Sound(mem', pc'["A"], faulted' # {})
    <3>1. faulted' = faulted \/ (faulted' # {}) = TRUE
      BY <2>1
    <3> QED BY <1>0, <2>1, <3>1
  <2>4. exit' = "passed" =>
          /\ ~mem.window /\ pc["A"] \in {"none", "done"}
          /\ mem.automatic => mem.completed /\ mem.batches /\ ~mem.cancelled
    BY <1>0, <2>1 DEF Sound, Steady, Settled, Blamed
  <2>5. exit' = "failed" => Blamed(mem', faulted' # {})
    <3>1. ~mem.window /\ ~(~mem.failed /\ (mem.automatic => mem.completed))
            => Blamed(mem, faulted # {})
      BY <1>0 DEF Sound, Steady, Settled, Blamed
    <3> QED BY <2>1, <3>1 DEF Blamed
  <2> QED BY <2>1, <2>2, <2>3, <2>4, <2>5 DEF WorkerUiInv, WindowType, Only
<1> QED BY <1>1, <1>2, <1>3, <1>4, <1>5, <1>6, <1>7, <1>8, <1>9 DEF Window!WorkerUi

\* The steps of worker_ui.cpp.
LEMMA WorkerUiStep ==
  ASSUME ProcessInv, WorkerUiInv, UNCHANGED program, NEW t \in Thread,
         Window!WorkerUi(t)
  PROVE  ProcessInv' /\ WorkerUiInv'
<1> USE DEF Window!Go, Window!At, Window!Running, Window!Store, Window!Dispatch,
    Window!Call, Window!Fails, Window!others, Window!Main, Main, Window!Fault, Fault,
    Moved, Faulty, NoFault, Alive
<1>1. CASE t = "C" /\ Window!Timer(t)
  <2>1. /\ exit = "running" /\ pc' = [pc EXCEPT ![t] = "none"]
        /\ mem' = [mem EXCEPT !.due = TRUE]
        /\ UNCHANGED <<suspends, signaled, open, exit, faulted>>
    BY <1>1 DEF Window!Timer
  <2>2. mem \in WindowRecord /\ Sound(mem, pc["A"], faulted # {})
    BY DEF WorkerUiInv, WindowType
  <2>3. /\ mem' \in WindowRecord /\ mem'.automatic = mem.automatic
        /\ mem'.quit = mem.quit /\ mem'.window = mem.window /\ mem'.since = mem.since
        /\ mem'.busy = mem.busy /\ mem'.completed = mem.completed
        /\ mem'.failed = mem.failed /\ mem'.closing = mem.closing
        /\ mem'.worker = mem.worker /\ mem'.cancelRequested = mem.cancelRequested
        /\ mem'.cancelled = mem.cancelled /\ mem'.batches = mem.batches
        /\ mem'.postError = mem.postError /\ mem'.nameFailed = mem.nameFailed
        /\ mem'.early = mem.early /\ mem'.due /\ mem.window
    BY <1>1, <2>1, <2>2 DEF Window!Timer, WindowRecord
  <2>4. pc'["A"] = pc["A"] /\ t # Main /\ t # "A" /\ (pc[Main] = "report" =>
          ~mem'.window)
    BY <1>1, <2>1, <2>3 DEF WorkerUiInv, ProcessInv
  <2>5. Sound(mem', pc'["A"], faulted' # {})
    BY <2>1, <2>2, <2>3, <2>4 DEF Sound, Steady, Settled, Blamed
  <2> QED BY <1>1, <2>1, <2>3, <2>4, <2>5, WindowMoves
<1>2. CASE t = "A" /\ Window!ComputeWorker(t)
  BY <1>2, ComputeWorkerStep
<1>3. CASE t = Main
  BY <1>3, WorkerWindowStep
<1> QED BY <1>1, <1>2, <1>3 DEF Window!WorkerUi

-----------------------------------------------------------------------------
(* All of them *)

\* Every step keeps the invariant of the program that runs.
LEMMA ActStep ==
  ASSUME LifeCycleInv, NEW t \in Thread, Step(t)
  PROVE  LifeCycleInv'
<1>0. ProcessInv /\ ProgramInv /\ UNCHANGED program /\ program \in Program /\ Act(t)
  BY DEF LifeCycleInv, Step, ProcessInv
<1>1. CASE program = "immediate"
  BY <1>0, <1>1, ImmediateStep DEF LifeCycleInv, ProgramInv, Act
<1>2. CASE program = "suspended"
  BY <1>0, <1>2, SuspendedStep DEF LifeCycleInv, ProgramInv, Act
<1>3. CASE program = "deep"
  BY <1>0, <1>3, DeepStep DEF LifeCycleInv, ProgramInv, Act
<1>4. CASE program = "shared"
  BY <1>0, <1>4, SharedStep DEF LifeCycleInv, ProgramInv, Act
<1>5. CASE program = "blocking"
  BY <1>0, <1>5, WaitStep DEF LifeCycleInv, ProgramInv, Act
<1>6. CASE program = "polling"
  BY <1>0, <1>6, WaitStep DEF LifeCycleInv, ProgramInv, Act
<1>7. CASE program = "singleCpu"
  BY <1>0, <1>7, AffinityStep DEF LifeCycleInv, ProgramInv, Act
<1>8. CASE program = "twoCpus"
  BY <1>0, <1>8, AffinityStep DEF LifeCycleInv, ProgramInv, Act
<1>9. CASE program = "equal"
  BY <1>0, <1>9, EqualStep DEF LifeCycleInv, ProgramInv, Act
<1>10. CASE program = "preemption"
  BY <1>0, <1>10, PreemptionStep DEF LifeCycleInv, ProgramInv, Act
<1>11. CASE program = "counted"
  BY <1>0, <1>11, CountedStep DEF LifeCycleInv, ProgramInv, Act
<1>12. CASE program = "contended"
  BY <1>0, <1>12, ContendedStep DEF LifeCycleInv, ProgramInv, Act
<1>13. CASE program = "closedWhileRunning"
  BY <1>0, <1>13, ClosedStep DEF LifeCycleInv, ProgramInv, Act
<1>14. CASE program = "retained"
  BY <1>0, <1>14, RetainedStep DEF LifeCycleInv, ProgramInv, Act
<1>15. CASE program = "dedicated"
  BY <1>0, <1>15, DedicatedStep DEF LifeCycleInv, ProgramInv, Act
<1>16. CASE program = "pool"
  BY <1>0, <1>16, PoolStep DEF LifeCycleInv, ProgramInv, Act
<1>17. CASE program = "alertable"
  BY <1>0, <1>17, ApcStep DEF LifeCycleInv, ProgramInv, Act
<1>18. CASE program = "nonAlertable"
  BY <1>0, <1>18, ApcStep DEF LifeCycleInv, ProgramInv, Act
<1>19. CASE program = "blockingUi"
  BY <1>0, <1>19, BlockingStep DEF LifeCycleInv, ProgramInv, Act
<1>20. CASE program = "workerUi"
  BY <1>0, <1>20, WorkerUiStep DEF LifeCycleInv, ProgramInv, Act
<1> QED BY <1>0, <1>1, <1>2, <1>3, <1>4, <1>5, <1>6, <1>7, <1>8, <1>9, <1>10, <1>11,
         <1>12, <1>13, <1>14, <1>15, <1>16, <1>17, <1>18, <1>19, <1>20 DEF Program

\* How a window begins.
LEMMA WindowBegins ==
  ASSUME NEW a \in BOOLEAN
  PROVE  LET m == Window!WindowMemory(a) IN
         /\ m \in WindowRecord /\ m.queue \in {<<>>, StartPosted} /\ m.window
         /\ ~m.worker /\ ~m.closing /\ ~m.since /\ ~m.due /\ ~m.quit
         /\ ~m.failed /\ ~m.completed /\ ~m.postError /\ ~m.nameFailed
         /\ ~m.cancelRequested /\ ~m.cancelled
<1>1. PICK q : q = IF a THEN <<Window!Message("start", 0)>> ELSE <<>>
  OBVIOUS
<1>2. q \in Seq(MessageRecord) /\ q \in {<<>>, StartPosted}
  BY <1>1, Queues DEF StartPosted
<1>3. PICK m : m = Window!WindowMemory(a)
  OBVIOUS
<1>4. m = [automatic |-> a, queue |-> q,
           due |-> FALSE, quit |-> FALSE, window |-> TRUE, beat |-> FALSE,
           since |-> FALSE, busy |-> FALSE, completed |-> FALSE, failed |-> FALSE,
           closing |-> FALSE, worker |-> FALSE, received |-> FALSE,
           runNumber |-> 0, cancelRequested |-> FALSE, cancelled |-> FALSE,
           batches |-> FALSE, postError |-> FALSE, nameFailed |-> FALSE,
           clicks |-> 0, early |-> FALSE]
  BY <1>1, <1>3 DEF Window!WindowMemory
<1>5. m \in WindowRecord
  BY <1>2, <1>4 DEF WindowRecord
<1> QED BY <1>2, <1>3, <1>4, <1>5

\* It holds at first.
LEMMA LifeCycleInit ==
  ASSUME Init
  PROVE  LifeCycleInv
<1> USE DEF Only, Verdict, Ended, Alive, Pair, Moved, Faulty, NoFault
<1>1. program \in Program
  BY DEF Init
<1>2. PICK m \in Memory(program) : Begin(First(program), m)
  BY DEF Init
<1>3. /\ pc = [t \in Thread |-> IF t = Main THEN First(program) ELSE "none"]
      /\ suspends = [t \in Thread |-> 0] /\ signaled = {} /\ open = TRUE
      /\ mem = m /\ exit = "running" /\ faulted = {}
  BY <1>2 DEF Begin
<1>4. Main \in Thread /\ Main \notin Worker /\ Worker \subseteq Thread
      /\ Worker = {"A", "B", "C"}
  BY DEF Thread, Worker, Main
<1>5. ProcessInv /\ pc[Main] = First(program) /\ \A w \in Worker : pc[w] = "none"
  BY <1>1, <1>3, <1>4 DEF ProcessInv, Status
<1>6. suspends["A"] = 0 /\ 0 \in Nat /\ Tasks \in Nat \ {0}
  BY <1>3, <1>4, LifeCycleAssumption
<1>7. CASE program \in {"immediate", "suspended", "deep"}
  <2>1. pc[Main] = "create"
    BY <1>5, <1>7 DEF First
  <2>2. mem = Birth!BirthMemory
    BY <1>2, <1>3, <1>7 DEF Memory
  <2>3. BirthInv("entered", "stop") /\ BirthInv("deepest", "release") /\ HeldInv
    BY <1>3, <1>4, <1>5, <2>1, <2>2 DEF Birth!BirthMemory, BirthInv, BirthType, HeldInv
  <2> QED BY <1>5, <1>7, <2>1, <2>3 DEF LifeCycleInv, ProgramInv, ImmediateInv,
             SuspendedInv, DeepInv
<1>8. CASE program = "shared"
  <2>1. pc[Main] = "create"
    BY <1>5, <1>8 DEF First
  <2>2. mem = State!SharedMemory
    BY <1>2, <1>3, <1>8 DEF Memory
  <2>3. PICK made : made = [w \in Pair |-> 0]
    OBVIOUS
  <2>4. PICK tls, captured :
          tls = [w \in Pair \cup {Main} |-> State!Null] /\ captured =
            [w \in Pair |-> State!Null]
    OBVIOUS
  <2>5. mem = [counter |-> 0, made |-> made, tls |-> tls, captured |-> captured]
    BY <2>2, <2>3, <2>4 DEF State!SharedMemory, State!Pair, State!Main, Main
  <2>6. SharedType
    BY <1>6, <2>3, <2>4, <2>5 DEF SharedType
  <2>7. mem.counter = 0 /\ \A w \in Pair : mem.made[w] = 0
    BY <1>4, <2>3, <2>4, <2>5
  <2>8. SharedInv
    BY <1>3, <1>4, <1>5, <1>6, <2>1, <2>6, <2>7 DEF SharedInv, SharedType, State!Of,
       State!CountedEvent
  <2> QED BY <1>5, <1>8, <2>8 DEF LifeCycleInv, ProgramInv
<1>9. CASE program \in {"blocking", "polling"}
  <2>1. pc[Main] = "create"
    BY <1>5, <1>9 DEF First
  <2>2. mem = Wait!WaitMemory
    BY <1>2, <1>3, <1>9 DEF Memory
  <2>3. WaitInv
    BY <1>3, <1>4, <1>5, <1>6, <2>1, <2>2 DEF Wait!WaitMemory, WaitInv, WaitType
  <2> QED BY <1>5, <1>9, <2>3 DEF LifeCycleInv, ProgramInv
<1>10. CASE program \in {"singleCpu", "twoCpus"}
  <2>1. pc[Main] = "select"
    BY <1>5, <1>10 DEF First
  <2>2. \E s \in SUBSET Processor : mem = Placed!AffinityMemory(s)
    BY <1>2, <1>3, <1>10 DEF Memory
  <2>3. AffinityType
    BY <1>4, <1>6, <2>2 DEF Placed!AffinityMemory, Placed!Pair, Cpus, AffinityType
  <2>4. AffinityInv
    BY <1>3, <1>4, <1>5, <1>6, <2>1, <2>3 DEF AffinityInv, Placed!Of
  <2> QED BY <1>5, <1>10, <2>4 DEF LifeCycleInv, ProgramInv
<1>11. CASE program \in {"equal", "preemption"}
  <2>1. pc[Main] = "setup"
    BY <1>5, <1>11 DEF First
  <2>2. mem = Priority!PriorityMemory
    BY <1>2, <1>3, <1>11 DEF Memory
  <2>3. PriorityType
    BY <1>4, <1>6, <2>2 DEF Priority!PriorityMemory, Priority!Pair, PriorityType
  <2>4. mem.success /\ mem.joined
    BY <1>4, <2>2 DEF Priority!PriorityMemory, Priority!Pair
  <2>5. WorkedInv
    BY <1>3, <1>4, <1>5, <1>6, <2>1, <2>3, <2>4 DEF WorkedInv
  <2>6. Joining
    BY <1>3, <1>4, <1>5, <1>6, <2>1, <2>3, <2>4, <2>5 DEF Joining
  <2>7. PriorityInv
    BY <1>3, <1>4, <1>5, <2>1, <2>3, <2>5, <2>6 DEF PriorityInv, PriorityVerdict
  <2>8. EqualInv /\ PreemptionInv
    BY <1>3, <1>4, <1>5, <2>1, <2>3, <2>4, <2>7 DEF EqualInv, PreemptionInv
  <2> QED BY <1>5, <2>8, <1>11 DEF LifeCycleInv, ProgramInv
<1>12. CASE program = "counted"
  <2>1. pc[Main] = "create"
    BY <1>5, <1>12 DEF First
  <2>2. mem = Count!SuspendMemory
    BY <1>2, <1>3, <1>12 DEF Memory
  <2>3. CountedInv
    BY <1>3, <1>4, <1>5, <1>6, <2>1, <2>2 DEF Count!SuspendMemory, CountedInv,
       SuspendType, CleanUp
  <2> QED BY <1>5, <1>12, <2>3 DEF LifeCycleInv, ProgramInv
<1>13. CASE program = "contended"
  <2>1. pc[Main] = "create"
    BY <1>5, <1>13 DEF First
  <2>2. mem = Mutex!MutexMemory
    BY <1>2, <1>3, <1>13 DEF Memory
  <2>3. MutexType
    BY <1>4, <1>6, <2>2 DEF Mutex!MutexMemory, Mutex!Pair, Mutex!Nobody, MutexType
  <2>4. mem.success /\ mem.joined /\ mem.owner = "nobody" /\ mem.value = 0
    BY <1>4, <2>2 DEF Mutex!MutexMemory, Mutex!Pair, Mutex!Nobody
  <2>5. CleanUp(Pair)
    BY <1>3, <1>4, <1>5, <1>6, <2>1, <2>3, <2>4 DEF CleanUp
  <2>6. OwnerInv
    BY <1>3, <1>4, <1>5, <1>6, <2>1, <2>3, <2>4, <2>5 DEF OwnerInv
  <2>7. PhaseInv
    BY <1>3, <1>4, <1>5, <1>6, <2>1, <2>3, <2>4, <2>5, <2>6 DEF PhaseInv, Waiting
  <2>8. JoinedInv
    BY <1>3, <1>4, <1>5, <1>6, <2>1, <2>3, <2>4, <2>5, <2>6, <2>7 DEF JoinedInv
  <2>9. ContendedInv
    BY <1>3, <1>4, <1>5, <1>6, <2>1, <2>3, <2>4, <2>5, <2>6, <2>7, <2>8 DEF ContendedInv
  <2> QED BY <1>5, <1>13, <2>9 DEF LifeCycleInv, ProgramInv
<1>14. CASE program \in {"closedWhileRunning", "retained"}
  <2>1. pc[Main] = "create"
    BY <1>5, <1>14 DEF First
  <2>2. mem = Handle!HandleMemory
    BY <1>2, <1>3, <1>14 DEF Memory
  <2>3. ClosedInv /\ RetainedInv
    BY <1>3, <1>4, <1>5, <1>6, <2>1, <2>2 DEF Handle!HandleMemory, ClosedInv,
       RetainedInv, HandleType, CleanUp
  <2> QED BY <1>5, <1>14, <2>3 DEF LifeCycleInv, ProgramInv
<1>15. CASE program = "dedicated"
  <2>1. pc[Main] = "create"
    BY <1>5, <1>15 DEF First
  <2>2. mem = Items!DedicatedMemory
    BY <1>2, <1>3, <1>15 DEF Memory
  <2>3. PICK none : none = [w \in Worker |-> FALSE]
    OBVIOUS
  <2>4. mem = [completed |-> none, valid |-> TRUE]
    BY <2>2, <2>3 DEF Items!DedicatedMemory, Items!Worker, Worker
  <2>5. DedicatedType
    BY <2>3, <2>4 DEF DedicatedType
  <2>6. mem.valid
    BY <1>4, <2>3, <2>4
  <2>7. DedicatedInv
    BY <1>3, <1>4, <1>5, <1>6, <2>1, <2>5, <2>6 DEF DedicatedInv
  <2> QED BY <1>5, <1>15, <2>7 DEF LifeCycleInv, ProgramInv
<1>16. CASE program = "pool"
  <2>1. pc[Main] = "create"
    BY <1>5, <1>16 DEF First
  <2>2. mem = Items!PoolMemory
    BY <1>2, <1>3, <1>16 DEF Memory
  <2>3. PICK zero : zero = [w \in Worker |-> 0]
    OBVIOUS
  <2>4. mem = [next |-> 1, queue |-> <<>>, item |-> zero, returned |-> {}, active |-> 0,
               peak |-> 0, count |-> zero, observed |-> zero, completed |-> {},
               named |-> TRUE, highest |-> 0]
    BY <2>2, <2>3 DEF Items!PoolMemory, Items!Worker, Worker
  <2>5. PoolType
    BY <1>6, <2>3, <2>4 DEF PoolType
  <2>6. /\ mem.queue = <<>> /\ mem.next = 1 /\ mem.returned = {} /\ mem.completed = {}
          /\ mem.active = 0 /\ mem.peak = 0 /\ mem.highest = 0 /\ mem.named
          /\ \A w \in Worker : mem.item[w] = 0
    BY <1>4, <2>3, <2>4
  <2>7. PlaceInv
    BY <1>3, <1>4, <1>5, <1>6, <2>1, <2>5, <2>6 DEF PlaceInv, Pool, Submitted
  <2>8. PeakInv
    BY <1>3, <1>4, <1>5, <1>6, <2>1, <2>5, <2>6, <2>7 DEF PeakInv, Counted, Pool
  <2>9. PoolInv
    BY <1>3, <1>4, <1>5, <1>6, <2>1, <2>5, <2>6, <2>7, <2>8 DEF PoolInv, Pool
  <2> QED BY <1>5, <1>16, <2>9 DEF LifeCycleInv, ProgramInv
<1>17. CASE program \in {"alertable", "nonAlertable"}
  <2>1. pc[Main] = "create"
    BY <1>5, <1>17 DEF First
  <2>2. mem = Apc!ApcMemory
    BY <1>2, <1>3, <1>17 DEF Memory
  <2>3. ApcInv
    BY <1>3, <1>4, <1>5, <1>6, <2>1, <2>2 DEF Apc!ApcMemory, ApcInv, ApcType
  <2> QED BY <1>5, <1>17, <2>3 DEF LifeCycleInv, ProgramInv
<1>18. CASE program \in {"blockingUi", "workerUi"}
  <2>1. pc[Main] = "pump"
    BY <1>5, <1>18 DEF First
  <2>2. \E a \in BOOLEAN : mem = Window!WindowMemory(a)
    BY <1>2, <1>3, <1>18 DEF Memory
  <2>3. PICK a \in BOOLEAN : mem = Window!WindowMemory(a)
    BY <2>2
  <2>4. /\ WindowType /\ mem.queue \in {<<>>, StartPosted} /\ mem.window
        /\ ~mem.worker /\ ~mem.closing /\ ~mem.since /\ ~mem.due /\ ~mem.quit
        /\ ~mem.failed /\ ~mem.completed /\ ~mem.postError /\ ~mem.nameFailed
        /\ ~mem.cancelRequested /\ ~mem.cancelled
    BY <2>3, WindowBegins DEF WindowType
  <2>5. BlockingMemory
    BY <2>1, <2>4, Queues DEF BlockingMemory
  <2>6. Sound(mem, pc["A"], faulted # {})
    BY <1>3, <1>4, <1>5, <2>4 DEF Sound, Steady, Settled, Blamed
  <2>7. BlockingInv /\ WorkerUiInv
    BY <1>3, <1>4, <1>5, <2>1, <2>4, <2>5, <2>6 DEF BlockingInv, WorkerUiInv
  <2> QED BY <1>5, <1>18, <2>7 DEF LifeCycleInv, ProgramInv
<1> QED BY <1>1, <1>7, <1>8, <1>9, <1>10, <1>11, <1>12, <1>13, <1>14, <1>15, <1>16,
         <1>17, <1>18 DEF Program

\* With the invariant the workers are where main looks for them.
LEMMA GatesFollow ==
  ASSUME LifeCycleInv
  PROVE  GatesHold
<1> USE DEF GatesHold, Gate, Looks, Created, Only, Verdict, Ended, Alive, Pair, Worker,
    Moved, Faulty, NoFault
<1>0. ProcessInv /\ ProgramInv /\ program \in Program
  BY DEF LifeCycleInv, ProcessInv
<1>1. CASE program \in {"immediate", "suspended", "deep"}
  BY <1>0, <1>1 DEF ProgramInv, ImmediateInv, SuspendedInv, DeepInv, BirthInv, HeldInv
<1>2. CASE program = "shared"
  BY <1>0, <1>2 DEF ProgramInv, SharedInv, State!Of, State!CountedEvent,
     State!ReadIsSafe, State!Pair, State!Main, Main
<1>3. CASE program \in {"blocking", "polling"}
  BY <1>0, <1>3 DEF ProgramInv, WaitInv
<1>4. CASE program \in {"singleCpu", "twoCpus"}
  BY <1>0, <1>4 DEF ProgramInv, AffinityInv, Placed!Of, Placed!PreparedEvent,
     Placed!DeadlineIsSet, Placed!Pair
<1>5. CASE program = "equal"
  BY <1>0, <1>5 DEF ProgramInv, EqualInv, PriorityInv, Joining, PriorityVerdict,
     Priority!Worked, PriorityExcuse, WorkedInv
<1>6. CASE program = "preemption"
  BY <1>0, <1>6 DEF ProgramInv, PreemptionInv, PriorityInv, Joining, PriorityVerdict,
     Priority!Worked, PriorityExcuse, WorkedInv, Priority!StartEvent
<1>7. CASE program = "counted"
  BY <1>0, <1>7 DEF ProgramInv, CountedInv, CleanUp
<1>8. CASE program = "contended"
  BY <1>0, <1>8 DEF ProgramInv, ContendedInv, CleanUp, OwnerInv, PhaseInv, JoinedInv,
     Waiting
<1>9. CASE program = "closedWhileRunning"
  BY <1>0, <1>9 DEF ProgramInv, ClosedInv, CleanUp
<1>10. CASE program = "retained"
  BY <1>0, <1>10 DEF ProgramInv, RetainedInv, CleanUp
<1>11. CASE program = "dedicated"
  BY <1>0, <1>11 DEF ProgramInv, DedicatedInv, Items!ReadyEvents, Items!ReadyEvent,
     Items!Worker
<1>12. CASE program = "pool"
  BY <1>0, <1>12 DEF ProgramInv, PoolInv, Pool
<1>13. CASE program \in {"alertable", "nonAlertable"}
  BY <1>0, <1>13 DEF ProgramInv, ApcInv
<1>14. CASE program = "blockingUi"
  BY <1>0, <1>14 DEF ProgramInv, BlockingInv, BlockingMemory, Excuse
<1>15. CASE program = "workerUi"
  BY <1>0, <1>15 DEF ProgramInv, WorkerUiInv, Sound, Steady, Blamed
<1> QED BY <1>0, <1>1, <1>2, <1>3, <1>4, <1>5, <1>6, <1>7, <1>8, <1>9, <1>10, <1>11,
         <1>12, <1>13, <1>14, <1>15 DEF Program

\* With the invariant nothing is closed under a worker.
LEMMA HandlesFollow ==
  ASSUME LifeCycleInv
  PROVE  HandlesOutliveThreads
<1> USE DEF HandlesOutliveThreads, Closed, Windowed, AllEnded, Only, Verdict, Ended,
    Alive, Pair, Worker, Moved, Faulty, NoFault
<1>0. ProcessInv /\ ProgramInv /\ program \in Program
  BY DEF LifeCycleInv, ProcessInv
<1>1. CASE program \in {"immediate", "suspended", "deep"}
  BY <1>0, <1>1 DEF ProgramInv, ImmediateInv, SuspendedInv, DeepInv, BirthInv, HeldInv
<1>2. CASE program = "shared"
  BY <1>0, <1>2 DEF ProgramInv, SharedInv
<1>3. CASE program \in {"blocking", "polling"}
  BY <1>0, <1>3 DEF ProgramInv, WaitInv
<1>4. CASE program \in {"singleCpu", "twoCpus"}
  BY <1>0, <1>4 DEF ProgramInv, AffinityInv
<1>5. CASE program = "equal"
  BY <1>0, <1>5 DEF ProgramInv, EqualInv, PriorityInv, Joining, PriorityVerdict,
     Priority!Worked, PriorityExcuse, WorkedInv
<1>6. CASE program = "preemption"
  BY <1>0, <1>6 DEF ProgramInv, PreemptionInv, PriorityInv, Joining, PriorityVerdict,
     Priority!Worked, PriorityExcuse, WorkedInv, Priority!StartEvent
<1>7. CASE program = "counted"
  BY <1>0, <1>7 DEF ProgramInv, CountedInv, CleanUp
<1>8. CASE program = "contended"
  BY <1>0, <1>8 DEF ProgramInv, ContendedInv, CleanUp, OwnerInv, PhaseInv, JoinedInv,
     Waiting
<1>9. CASE program = "closedWhileRunning"
  BY <1>0, <1>9 DEF ProgramInv, ClosedInv, CleanUp
<1>10. CASE program = "retained"
  BY <1>0, <1>10 DEF ProgramInv, RetainedInv, CleanUp
<1>11. CASE program = "dedicated"
  BY <1>0, <1>11 DEF ProgramInv, DedicatedInv
<1>12. CASE program = "pool"
  BY <1>0, <1>12 DEF ProgramInv, PoolInv, Pool, PoolType, PlaceInv, Submitted
<1>13. CASE program \in {"alertable", "nonAlertable"}
  BY <1>0, <1>13 DEF ProgramInv, ApcInv
<1>14. CASE program = "blockingUi"
  BY <1>0, <1>14 DEF ProgramInv, BlockingInv, BlockingMemory, Excuse
<1>15. CASE program = "workerUi"
  BY <1>0, <1>15 DEF ProgramInv, WorkerUiInv, Sound, Steady, Blamed
<1> QED BY <1>0, <1>1, <1>2, <1>3, <1>4, <1>5, <1>6, <1>7, <1>8, <1>9, <1>10, <1>11,
         <1>12, <1>13, <1>14, <1>15 DEF Program

\* With the invariant the exit code is right.
LEMMA VerdictFollows ==
  ASSUME LifeCycleInv
  PROVE  VerdictIsTrue
<1> USE DEF VerdictIsTrue, Closed, Windowed, Created, Shown, Starved, ClosedByUser,
    Only, Verdict, Ended,
    Alive, Pair, Worker, Moved, Faulty, NoFault
<1>0. ProcessInv /\ ProgramInv /\ program \in Program
  BY DEF LifeCycleInv, ProcessInv
<1>1. CASE program \in {"immediate", "suspended", "deep"}
  BY <1>0, <1>1 DEF ProgramInv, ImmediateInv, SuspendedInv, DeepInv, BirthInv, HeldInv
<1>2. CASE program = "shared"
  BY <1>0, <1>2 DEF ProgramInv, SharedInv
<1>3. CASE program \in {"blocking", "polling"}
  BY <1>0, <1>3 DEF ProgramInv, WaitInv
<1>4. CASE program \in {"singleCpu", "twoCpus"}
  BY <1>0, <1>4 DEF ProgramInv, AffinityInv
<1>5. CASE program = "equal"
  BY <1>0, <1>5 DEF ProgramInv, EqualInv, PriorityInv, Joining, PriorityVerdict,
     Priority!Worked, PriorityExcuse, WorkedInv
<1>6. CASE program = "preemption"
  BY <1>0, <1>6 DEF ProgramInv, PreemptionInv, PriorityInv, Joining, PriorityVerdict,
     Priority!Worked, PriorityExcuse, WorkedInv, Priority!StartEvent
<1>7. CASE program = "counted"
  BY <1>0, <1>7 DEF ProgramInv, CountedInv, CleanUp
<1>8. CASE program = "contended"
  BY <1>0, <1>8 DEF ProgramInv, ContendedInv, CleanUp, OwnerInv, PhaseInv, JoinedInv,
     Waiting
<1>9. CASE program = "closedWhileRunning"
  BY <1>0, <1>9 DEF ProgramInv, ClosedInv, CleanUp
<1>10. CASE program = "retained"
  BY <1>0, <1>10 DEF ProgramInv, RetainedInv, CleanUp
<1>11. CASE program = "dedicated"
  BY <1>0, <1>11 DEF ProgramInv, DedicatedInv
<1>12. CASE program = "pool"
  BY <1>0, <1>12 DEF ProgramInv, PoolInv, Pool
<1>13. CASE program \in {"alertable", "nonAlertable"}
  BY <1>0, <1>13 DEF ProgramInv, ApcInv
<1>14. CASE program = "blockingUi"
  BY <1>0, <1>14 DEF ProgramInv, BlockingInv, BlockingMemory, Excuse
<1>15. CASE program = "workerUi"
  BY <1>0, <1>15 DEF ProgramInv, WorkerUiInv, Sound, Steady, Blamed
<1> QED BY <1>0, <1>1, <1>2, <1>3, <1>4, <1>5, <1>6, <1>7, <1>8, <1>9, <1>10, <1>11,
         <1>12, <1>13, <1>14, <1>15 DEF Program

\* Every step of the life cycle keeps it.
LEMMA LifeCycleStep ==
  ASSUME LifeCycleInv, [Next]_vars
  PROVE  LifeCycleInv'
<1>1. CASE UNCHANGED vars
  <2>1. /\ ImmediateInv => ImmediateInv'
        /\ SuspendedInv => SuspendedInv'
        /\ DeepInv => DeepInv'
    BY <1>1 DEF vars, processVars, others, ImmediateInv, SuspendedInv, DeepInv, BirthInv,
       BirthType, HeldInv, Only, Verdict, Ended
  <2>2. SharedInv => SharedInv'
    BY <1>1 DEF vars, processVars, others, SharedInv, SharedType, Only, Verdict
  <2>3. WaitInv => WaitInv'
    BY <1>1 DEF vars, processVars, others, WaitInv, WaitType, Only, Verdict
  <2>11. AffinityInv => AffinityInv'
    <3>1. Cpu' = Cpu /\ Cpus' = Cpus
      BY <1>1, CpuStays DEF vars, processVars, others
    <3> QED BY <1>1, <3>1 DEF vars, processVars, others, AffinityInv, AffinityType, Only,
            Verdict
  <2>4. (DedicatedInv => DedicatedInv') /\ (ApcInv => ApcInv')
    BY <1>1 DEF vars, processVars, others, DedicatedInv, DedicatedType, ApcInv, ApcType,
       Only, Verdict, Ended
  <2>5. (EqualInv => EqualInv') /\ (PreemptionInv => PreemptionInv')
    BY <1>1 DEF vars, processVars, others, EqualInv, PreemptionInv, PriorityInv,
       PriorityType, WorkedInv, Joining, PriorityVerdict, PriorityExcuse,
       Priority!Worked, Only, Alive, Ended
  <2>6. (CountedInv => CountedInv') /\ (ContendedInv => ContendedInv')
    BY <1>1 DEF vars, processVars, others, CountedInv, SuspendType, ContendedInv,
       MutexType, OwnerInv, PhaseInv, JoinedInv, CleanUp, Only, Verdict, Alive, Ended
  <2>7. (ClosedInv => ClosedInv') /\ (RetainedInv => RetainedInv')
    BY <1>1 DEF vars, processVars, others, ClosedInv, RetainedInv, HandleType, CleanUp,
       Only, Verdict, Alive, Ended
  <2>8. PoolInv => PoolInv'
    BY <1>1 DEF vars, processVars, others, PoolInv, PoolType, PlaceInv, PeakInv,
       Submitted, Counted, Only, Verdict
  <2>9. (BlockingInv => BlockingInv') /\ (WorkerUiInv => WorkerUiInv')
    BY <1>1 DEF vars, processVars, others, BlockingInv, BlockingMemory, WorkerUiInv,
       WindowType, Excuse, Only, Sound, Steady, Settled, Blamed
  <2>10. ProcessInv' /\ program' = program
    BY <1>1 DEF LifeCycleInv, ProcessInv, vars, processVars, others
  <2> QED BY <2>1, <2>2, <2>3, <2>4, <2>5, <2>6, <2>7, <2>8, <2>9, <2>10, <2>11
          DEF LifeCycleInv, ProgramInv
<1>2. CASE \E t \in Thread : Step(t)
  BY <1>2, ActStep
<1> QED BY <1>1, <1>2 DEF Next, Exited

\* In every behaviour of every program its invariant holds.
THEOREM LifeCycleInvariant == Spec => []LifeCycleInv
<1>1. Init => LifeCycleInv
  BY LifeCycleInit
<1>2. LifeCycleInv /\ [Next]_vars => LifeCycleInv'
  BY LifeCycleStep
<1> QED BY <1>1, <1>2, PTL DEF Spec

\* Whenever main looks at a worker, the worker is where the program says it is.
THEOREM GatesAreHeld == Spec => []GatesHold
<1>1. LifeCycleInv => GatesHold
  BY GatesFollow
<1> QED BY <1>1, LifeCycleInvariant, PTL

\* No event is closed under a worker that may still use it, and no window under one
\* that may still post to it.
THEOREM HandlesAreOutlived == Spec => []HandlesOutliveThreads
<1>1. LifeCycleInv => HandlesOutliveThreads
  BY HandlesFollow
<1> QED BY <1>1, LifeCycleInvariant, PTL

\* The exit code says what has happened: a program passes only if it has shown
\* what it is about, and fails only if a call has failed, a wait has timed out, a
\* worker or the timer of an automatic run was never let run, or the user has
\* closed the window of an automatic run.
THEOREM VerdictsAreTrue == Spec => []VerdictIsTrue
<1>1. LifeCycleInv => VerdictIsTrue
  BY VerdictFollows
<1> QED BY <1>1, LifeCycleInvariant, PTL
=============================================================================
