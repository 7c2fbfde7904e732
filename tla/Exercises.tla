----------------------------- MODULE Exercises ------------------------------
(***************************************************************************)
(* The small programs of the repository, one of them in each behaviour:    *)
(* what each of them computes, and that it ends.  Their waits have no      *)
(* timeout.                                                                *)
(***************************************************************************)
EXTENDS GatedProcess, FiniteSets, Sequences

CONSTANTS
  Rounds, Steps,                             \* of a thread that counts
  HASH_TABLE_SIZE, TargetLists, FileLists,   \* of the scan by hashes
  Directory, Target, Contents, Level, Depths, StackFrames   \* of the walk

VARIABLE program

vars == <<processVars, program>>

Counter == INSTANCE SharedCounters
Signal  == INSTANCE Signals
Local   == INSTANCE ThreadLocal
Table   == INSTANCE SentinelTable
Tree    == INSTANCE DirectoryWalk

ASSUME ExercisesAssumption ==
  /\ Rounds \in Nat /\ Steps \in Nat
  /\ Table!ValidInputs
  /\ Tree!IsTree /\ IsFiniteSet(Directory)

Counting == {"waitOnAddress", "safeFunction", "criticalSection", "srwLocked"}
Signaling == {"signaledEvent", "withApc"}
Locals == {"dynamic", "static"}
Program == Counting \cup Signaling \cup Locals \cup {"hashScan", "walk"}

First == IF program \in Locals \cup {"walk"} THEN "alloc" ELSE "create"

Memory ==
  CASE program \in Counting -> {Counter!CounterMemory}
    [] program \in Signaling -> {Signal!SignalsMemory}
    [] program \in Locals -> {Local!LocalMemory}
    [] program = "hashScan" -> Table!Inputs
    [] program = "walk" -> {Tree!WalkMemory(d) : d \in Depths}

Init == program \in Program /\ \E m \in Memory : Begin(First, m)

Act(t) ==
  CASE program = "waitOnAddress" -> Counter!WaitOnAddress(t)
    [] program = "safeFunction" -> Counter!SafeFunction(t)
    [] program = "criticalSection" -> Counter!CriticalSection(t)
    [] program = "srwLocked" -> Counter!SRWLocked(t)
    [] program = "signaledEvent" -> Signal!SignaledEvent(t)
    [] program = "withApc" -> Signal!WithAPC(t)
    [] program = "dynamic" -> Local!Dynamic(t)
    [] program = "static" -> Local!Static(t)
    [] program = "hashScan" -> Table!HashScan(t)
    [] program = "walk" -> Tree!Walk(t)

Step(t) == UNCHANGED program /\ Act(t)

Exited == ~Running /\ UNCHANGED vars

Next == Exited \/ \E t \in Thread : Step(t)

\* Every thread that can run does, and calls need not fail.
Spec ==
  /\ Init /\ [][Next]_vars
  /\ \A t \in Thread : WF_vars(Step(t) /\ faulted' = faulted)
-----------------------------------------------------------------------------
(* Properties *)

\* What each program has computed when it returns 0.
Computed ==
  CASE program = "waitOnAddress" -> ~mem.lost /\ mem.counter = 2 * Rounds
    [] program \in {"safeFunction", "criticalSection"} ->
         mem.counter = 3 * Rounds
    [] program = "srwLocked" -> mem.counter = 2 * Rounds
    [] program = "signaledEvent" -> faulted = {} => pc["A"] = "done"
    [] program = "withApc" -> mem.called + mem.queued = 1
    [] program \in Locals ->
         \A w \in Local!Pair : pc[w] = "done" =>
           /\ mem.found[w] = Local!InitialValue
           /\ mem.own[w] = Local!Parameter[w] + 10 * Steps
    [] program = "hashScan" ->
         /\ mem.total = Len(mem.files)
         /\ mem.matching = Cardinality({i \in DOMAIN mem.files :
              \E j \in DOMAIN mem.targets : mem.files[i] = mem.targets[j]})
    [] program = "walk" ->
         LET files == Cardinality(Tree!FilesDownTo(mem.maxDepth))
         IN  mem.counted <= files /\ (faulted = {} => mem.counted = files)

\* Why a program may return anything else.
Excused ==
  \/ faulted # {}
  \/ /\ program = "hashScan"
     /\ \E i, j \in DOMAIN mem.targets : i # j /\ mem.targets[i] = mem.targets[j]
  \/ program = "walk" /\ mem.maxDepth >= StackFrames

\* Each program computes what it is there to show, in every schedule: no
\* increment is lost under a lock or an interlocked operation, no thread finds
\* another one's thread-local value, a file matches exactly if its hash is that
\* of a target although 0 marks a vacant slot, and the files down to the depth
\* that was asked for are counted once each, or at most once when a part of the
\* listings cannot be read.  The two writers without a lock may lose an
\* increment, but the program does not return after that: its waiter is still
\* waiting.  The event and the critical section are closed when no thread can
\* use them any more, unless a call has failed, and the parameters of a thread
\* are freed once.
ResultIsRight ==
  /\ exit = "passed" => Computed
  /\ exit = "failed" => Excused
  /\ ~open /\ faulted = {} => AllEnded
  /\ program \in {"criticalSection", "srwLocked"} =>
       Cardinality(mem.holders) <= 1 /\ ~mem.lost
  /\ program = "walk" => Cardinality(mem.freed) <= 1

\* Every program ends: no wake-up is lost between the comparison and the sleep
\* of WaitOnAddress, and every walk in the hash table finds its vacant slot.
\* There are two ways to hang: an increment that overwrites another one, after
\* which the counter never reaches what the waiter waits for, and a SetEvent
\* that fails and is not looked at.
Lost == program \in Counting \cup Signaling /\ mem.lost
Terminates == <>(exit # "running" \/ Lost)
=============================================================================
