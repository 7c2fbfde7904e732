----------------------------- MODULE LifeCycle ------------------------------
(***************************************************************************)
(* The programs of the thread life cycle, one of them in each behaviour,   *)
(* and what they promise: a worker that main looks at is where main thinks *)
(* it is, no event is closed under a worker, and the exit code is right.   *)
(***************************************************************************)
EXTENDS GatedProcess

CONSTANTS
  Increments,    \* of a worker that shares a counter
  Processor,     \* those of the machine
  MaxProgress,   \* bound of the ticks of a worker
  Tasks,         \* of the pool
  MaxClicks      \* bound of the user's clicks

ASSUME LifeCycleAssumption ==
  /\ Increments \in Nat /\ MaxProgress \in Nat /\ MaxClicks \in Nat
  /\ Tasks \in Nat \ {0}

VARIABLE program

vars == <<processVars, program>>

Birth    == INSTANCE ThreadBirth
State    == INSTANCE SharedState
Wait     == INSTANCE BusyWait
Placed   == INSTANCE Affinity
Priority == INSTANCE Priorities
Count    == INSTANCE SuspendCount
Mutex    == INSTANCE Contention
Handle   == INSTANCE HandleLifetime
Items    == INSTANCE WorkItems
Apc      == INSTANCE ApcDelivery
Window   == INSTANCE Responsiveness

\* The first label of main and the memories that each program begins with.
First(p) ==
  CASE p \in {"singleCpu", "twoCpus"} -> "select"
    [] p \in {"equal", "preemption"} -> "setup"
    [] p \in {"blockingUi", "workerUi"} -> "pump"
    [] OTHER -> "create"

Memory(p) ==
  CASE p \in {"immediate", "suspended", "deep"} -> {Birth!BirthMemory}
    [] p = "shared" -> {State!SharedMemory}
    [] p \in {"blocking", "polling"} -> {Wait!WaitMemory}
    [] p \in {"singleCpu", "twoCpus"} ->
         {Placed!AffinityMemory(s) : s \in SUBSET Processor}
    [] p \in {"equal", "preemption"} -> {Priority!PriorityMemory}
    [] p = "counted" -> {Count!SuspendMemory}
    [] p = "contended" -> {Mutex!MutexMemory}
    [] p \in {"closedWhileRunning", "retained"} -> {Handle!HandleMemory}
    [] p = "dedicated" -> {Items!DedicatedMemory}
    [] p = "pool" -> {Items!PoolMemory}
    [] p \in {"alertable", "nonAlertable"} -> {Apc!ApcMemory}
    [] p \in {"blockingUi", "workerUi"} -> {Window!WindowMemory(a) : a \in BOOLEAN}

Program ==
  {"immediate", "suspended", "deep", "shared", "blocking", "polling", "singleCpu",
   "twoCpus", "equal", "preemption", "counted", "contended", "closedWhileRunning",
   "retained", "dedicated", "pool", "alertable", "nonAlertable", "blockingUi",
   "workerUi"}

Init == /\ program \in Program
        /\ \E m \in Memory(program) : Begin(First(program), m)

Act(t) ==
  CASE program = "immediate" -> Birth!Immediate(t)
    [] program = "suspended" -> Birth!Suspended(t)
    [] program = "deep" -> Birth!Deep(t)
    [] program = "shared" -> State!Shared(t)
    [] program = "blocking" -> Wait!Blocking(t)
    [] program = "polling" -> Wait!Polling(t)
    [] program = "singleCpu" -> Placed!SingleCpu(t)
    [] program = "twoCpus" -> Placed!TwoCpus(t)
    [] program = "equal" -> Priority!Equal(t)
    [] program = "preemption" -> Priority!Preemption(t)
    [] program = "counted" -> Count!Counted(t)
    [] program = "contended" -> Mutex!Contended(t)
    [] program = "closedWhileRunning" -> Handle!ClosedWhileRunning(t)
    [] program = "retained" -> Handle!Retained(t)
    [] program = "dedicated" -> Items!Dedicated(t)
    [] program = "pool" -> Items!Pool(t)
    [] program = "alertable" -> Apc!Alertable(t)
    [] program = "nonAlertable" -> Apc!NonAlertable(t)
    [] program = "blockingUi" -> Window!BlockingUi(t)
    [] program = "workerUi" -> Window!WorkerUi(t)

Step(t) == UNCHANGED program /\ Act(t)

Exited == ~Running /\ UNCHANGED vars

Next == Exited \/ \E t \in Thread : Step(t)

\* Every thread that can run does, and a wait ends by its timeout only after
\* something has failed: a timeout never hides a handshake that blocks itself.
Prompt(t) == Step(t) /\ (faulted = {} => "slow" \notin faulted')

Spec == Init /\ [][Next]_vars /\ \A t \in Thread : WF_vars(Prompt(t))
-----------------------------------------------------------------------------
(* Properties *)

Created == {w \in Worker : pc[w] # "none"}

\* The labels at which main has a worker looked at, and where that is then.
Looks == {"sample", "look", "inspect", "watch"}
Gate(w, label) ==
  CASE program = "suspended" /\ label # "inspect" -> {"begin"}
    [] program \in {"equal", "counted"} -> {"begin"}
    [] program = "preemption" /\ w = "A" ->
         IF label = "inspect" THEN {"begin", "gate"}
                              ELSE {"burn", "publish", "done", "failed"}
    [] program = "closedWhileRunning" /\ label = "watch" -> {"hold"}
    [] program = "shared" -> {"hold"}
    [] OTHER -> {"gate"}

\* At the checkpoints at which the reader of these programs is told to inspect
\* the workers, every worker is where the text says: not begun while it is
\* suspended, at its gate, or holding still while main reads its stack and its
\* TLS slot.  Only a gate that has timed out has a worker elsewhere.  The
\* contender waits while the owner owns the mutex, and no pinned worker burns
\* time before its deadline is set.
GatesHold ==
  /\ pc[Main] \in Looks \ {"look"} /\ "slow" \notin faulted =>
       \A w \in Created : pc[w] \in Gate(w, pc[Main])
  /\ program = "suspended" /\ pc[Main] = "look" => mem.entered = 0
  /\ program = "shared" => State!ReadIsSafe
  /\ program \in {"singleCpu", "twoCpus"} => Placed!DeadlineIsSet
  /\ program = "contended" /\ pc[Main] = "inspect" /\ "slow" \notin faulted =>
       mem.owner = "A"

\* No event is closed while a worker may still wait for it or signal it, nor
\* the window while one may still post to it, whatever call has failed.
Windowed == program \in {"blockingUi", "workerUi"}
Closed == IF Windowed THEN ~mem.window ELSE ~open
HandlesOutliveThreads == Closed => AllEnded /\ (Windowed => ~mem.worker)

\* What a program has to have shown when it says PASS.
Shown ==
  CASE program = "shared" -> mem.counter = mem.made["A"] + mem.made["B"]
    [] program \in {"equal", "preemption"} -> \A w \in {"A", "B"} : mem.worked[w]
    [] program = "counted" -> mem.owed = 0 /\ suspends["A"] = 0
    [] program = "contended" -> mem.value = 3 /\ mem.owner = "nobody"
    [] program = "closedWhileRunning" -> mem.acknowledged > mem.before
    [] program = "pool" -> mem.peak = mem.highest
    [] program = "alertable" -> mem.called = 1 /\ mem.queued = 0
    [] program = "nonAlertable" -> mem.called = 0
    [] program = "blockingUi" -> mem.automatic => mem.completed
    [] program = "workerUi" ->
         mem.automatic => mem.completed /\ mem.batches /\ ~mem.cancelled
    [] OTHER -> TRUE

\* The schedules in which a program fails although nothing else has, and says
\* so: a worker that was never let run in its slice has no iterations to show
\* ("starvation can affect completion"), and the window of an automatic run has
\* had no heartbeat since the work was started.
Starved ==
  \/ program \in {"equal", "preemption"}
       /\ \E w \in Created : pc[w] = "done" /\ ~mem.worked[w]
  \/ program = "workerUi" /\ mem.automatic /\ ~mem.since

\* The user has closed the window of an automatic run.
ClosedByUser == Windowed /\ mem.automatic /\ mem.early

\* Exit code 0 means that every worker has ended well, that nothing is left
\* open and that the program has shown what it is about; exit code 1 means that
\* a call has failed or a wait has timed out, that a program has starved, or that
\* the user has closed the window of an automatic run: never a schedule other
\* than these, and of an interactive run never the user.
VerdictIsTrue ==
  /\ exit = "passed" =>
       /\ Closed /\ \A w \in Created : pc[w] = "done"
       /\ Shown
  /\ exit = "failed" => faulted # {} \/ Starved \/ ClosedByUser

\* Every program ends: as long as nothing has failed without the help of a
\* timeout, and then by its timeouts at the latest.  One with a window and
\* without --auto ends once the user has closed it or it has failed.
MustEnd ==
  Windowed => \/ mem.automatic \/ mem.closing \/ ~mem.window
              \/ program = "workerUi" /\ mem.failed
Terminates == MustEnd ~> exit # "running"
=============================================================================
