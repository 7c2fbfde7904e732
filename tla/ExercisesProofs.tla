-------------------------- MODULE ExercisesProofs ---------------------------
(***************************************************************************)
(* Exercises for any number of rounds, any table, any files and any tree   *)
(* of directories: what each of the small programs computes.               *)
(***************************************************************************)
EXTENDS Exercises, FiniteSetTheorems, SequenceTheorems, WellFoundedInduction, TLAPS

Label ==
  {"none", "begin", "done", "failed", "alloc", "create", "createB", "createC",
   "join", "joinB", "close", "verdict", "error", "set", "queue", "wait",
   "load", "add", "wake", "loop", "asleep", "unlock",
   "find", "assign", "work", "free", "probe", "scan", "walk"}

\* What is the same of every program: no thread is ever suspended.
ProcessInv ==
  /\ program \in Program
  /\ pc \in [Thread -> Label]
  /\ suspends = [t \in Thread |-> 0]
  /\ signaled \subseteq {"event"} /\ open \in BOOLEAN
  /\ exit \in Status /\ faulted \subseteq FaultKinds
-----------------------------------------------------------------------------
(* The counters *)

\* The memory of the programs that count.
CounterType ==
  mem \in [counter : Nat, made : [Worker -> Nat], read : [Worker -> Nat],
           holders : SUBSET Worker, handles : [0..2 -> Worker \cup {"none"}],
           lost : BOOLEAN]

\* No worker makes more than its rounds, and it ends with the last of them.
RoundsInv ==
  \A w \in Worker :
    /\ mem.made[w] <= Rounds
    /\ pc[w] \in {"load", "add"} => mem.made[w] < Rounds
    /\ pc[w] = "done" => mem.made[w] = Rounds
    /\ pc[w] # "failed"

\* The increments that the threads have made, of those that count.
Made(threads) ==
  LET m == mem.made
      Of(w) == IF w \in threads THEN m[w] ELSE 0
  IN  Of("A") + Of("B") + Of("C")

\* Every increment is in the counter.
SumInv(threads) == mem.counter = Made(threads)

\* One thread at a time is between the two ends of the lock, and what it has
\* read of the counter is what the counter is.
LockInv ==
  /\ \A w \in Worker : w \in mem.holders <=> pc[w] \in {"load", "add", "unlock"}
  /\ \A v, w \in mem.holders : v = w
  /\ \A w \in Worker : pc[w] = "add" => mem.read[w] = mem.counter
  /\ ~mem.lost

\* main creates each worker once, keeps the handles as the program stores them,
\* and goes on from its wait when these workers have ended.
MainInv(joined) ==
  /\ pc[Main] \in {"create", "createB", "createC", "join", "close", "verdict"}
  /\ pc[Main] = "create" => pc["A"] = "none"
  /\ pc[Main] \in {"create", "createB"} => pc["B"] = "none"
  /\ pc[Main] \in {"create", "createB", "createC"} => pc["C"] = "none"
  /\ IF program = "srwLocked"
     THEN pc[Main] = "createC" => mem.handles[0] = "B"
     ELSE /\ pc[Main] \in {"createB", "createC"} => mem.handles[0] = "A"
          /\ pc[Main] = "createC" => mem.handles[1] = "B"
  /\ pc[Main] = "join" => \A w \in joined : \E i \in 0..2 : mem.handles[i] = w
  /\ pc[Main] \in {"close", "verdict"} => \A w \in joined : pc[w] = "done"

\* In WaitOnAddressCode the counter falls behind the rounds of the writers with
\* the first increment that is lost, for good: what a writer has read is then
\* behind too, and so is what it has read before another one wrote.
Written == Made({"A", "B"})
WritersInv ==
  /\ mem.counter <= Written
  /\ ~mem.lost <=> mem.counter = Written
  /\ \A w \in {"A", "B"} :
       /\ mem.made[w] <= Rounds
       /\ pc[w] = "add" =>
            /\ mem.made[w] < Rounds
            /\ mem.read[w] <= Written
            /\ mem.lost \/ mem.read[w] # mem.counter => mem.read[w] < Written

\* Its waiter ends when the writers have made all their rounds, with no loss.
WaiterInv ==
  /\ mem.read["C"] >= Counter!Total => mem.counter = Counter!Total /\ ~mem.lost
  /\ pc["C"] = "done" => mem.read["C"] >= Counter!Total
  /\ \A w \in Worker : pc[w] # "failed"

\* What holds of each of the four.
WaitInv == CounterType /\ open /\ MainInv(Worker) /\ WritersInv /\ WaiterInv
InterlockedInv ==
  /\ CounterType /\ open /\ RoundsInv
  /\ SumInv(Worker) /\ MainInv(Worker)
CriticalInv ==
  /\ CounterType /\ RoundsInv /\ LockInv
  /\ SumInv(Worker) /\ MainInv(Worker)
  /\ ~open => pc[Main] = "verdict"
SRWInv ==
  /\ CounterType /\ open /\ RoundsInv /\ LockInv
  /\ SumInv({"B", "C"}) /\ MainInv({"B", "C"})

\* A step of a program that counts, and what it leaves alone.
LEMMA CounterProcess ==
  ASSUME ProcessInv, UNCHANGED program, NEW t \in Thread,
         \/ Counter!WaitOnAddress(t) \/ Counter!SafeFunction(t)
         \/ Counter!CriticalSection(t) \/ Counter!SRWLocked(t)
  PROVE  ProcessInv' /\ Running /\ faulted \subseteq faulted'
<1> USE DEF Running, Counter!Running, Counter!Store, Counter!Call, Counter!Go, Counter!At, Counter!others,
            Counter!Await, Counter!EndProcess, Counter!Return, Counter!CloseEvents,
            Counter!CheckFails, Counter!ExitOn, Counter!Fault, Counter!Create,
            Counter!CreateAll, Counter!CreateWriters, Counter!JoinAndReturn,
            Counter!CreateFails, Counter!Read, Counter!Write, Counter!Release,
            Counter!LastRound, Counter!Main, Counter!Worker, Main, Worker, Thread,
            ProcessInv, Label, Status, FaultKinds
<1>1. CASE Counter!WaitOnAddress(t)
  BY <1>1 DEF Counter!WaitOnAddress, Counter!WriterThread, Counter!WaiterThread,
              Counter!WakeByAddressAll
<1>2. CASE Counter!SafeFunction(t)
  BY <1>2 DEF Counter!SafeFunction, Counter!InterlockedThreadProc
<1>3. CASE Counter!CriticalSection(t)
  BY <1>3 DEF Counter!CriticalSection, Counter!LockedThreadProc, Counter!Acquire
<1>4. CASE Counter!SRWLocked(t)
  BY <1>4 DEF Counter!SRWLocked, Counter!LockedThreadProc, Counter!Acquire,
              Counter!ReaderThreadProc
<1> QED BY <1>1, <1>2, <1>3, <1>4

\* Reading the counter changes what its thread has read of it only.
LEMMA ReadStep ==
  ASSUME CounterType, NEW w \in Worker, NEW from, NEW to, Counter!Read(w, from, to)
  PROVE  /\ CounterType'
         /\ mem'.read = [mem.read EXCEPT ![w] = mem.counter]
         /\ UNCHANGED <<mem.counter, mem.made, mem.holders, mem.handles, mem.lost>>
BY DEF Counter!Read, Counter!Store, CounterType

\* Writing the counter: one more round is made, and an increment may be lost.
LEMMA WriteStep ==
  ASSUME CounterType, NEW w \in Worker, NEW from, NEW to, Counter!Write(w, from, to)
  PROVE  /\ CounterType'
         /\ mem'.counter = mem.read[w] + 1
         /\ mem'.made = [mem.made EXCEPT ![w] = @ + 1]
         /\ mem'.lost = (mem.lost \/ mem.counter # mem.read[w])
         /\ UNCHANGED <<mem.read, mem.holders, mem.handles>>
<1>1. PICK l \in BOOLEAN : l = (mem.lost \/ mem.counter # mem.read[w])
  BY DEF CounterType
<1>2. PICK n \in Nat : n = mem.read[w] + 1
  BY DEF CounterType
<1>3. PICK m \in [Worker -> Nat] : m = [mem.made EXCEPT ![w] = @ + 1]
  <2>1. mem.made \in [Worker -> Nat] /\ mem.made[w] + 1 \in Nat
    BY DEF CounterType
  <2>2. [mem.made EXCEPT ![w] = @ + 1] \in [Worker -> Nat]
    BY <2>1
  <2> QED BY <2>2
<1>4. mem' = [mem EXCEPT !.counter = n, !.made = m, !.lost = l]
  <2>1. mem' = [mem EXCEPT !.counter = mem.read[w] + 1, !.made[w] = @ + 1,
                           !.lost = @ \/ mem.counter # mem.read[w]]
    BY DEF Counter!Write, Counter!Store
  <2> QED BY <1>1, <1>2, <1>3, <2>1
<1>5. /\ CounterType'
      /\ mem'.counter = n /\ mem'.made = m /\ mem'.lost = l
      /\ UNCHANGED <<mem.read, mem.holders, mem.handles>>
  BY <1>4 DEF CounterType
<1> QED BY <1>1, <1>2, <1>3, <1>5, Zenon

\* Creating a thread stores its handle.
LEMMA CreateStep ==
  ASSUME CounterType, NEW w \in Worker, NEW i \in 0..2, NEW from, NEW to,
         Counter!Create(from, w, i, to)
  PROVE  /\ CounterType'
         /\ mem'.handles = [mem.handles EXCEPT ![i] = w]
         /\ UNCHANGED <<mem.counter, mem.made, mem.read, mem.holders, mem.lost>>
BY DEF Counter!Create, CounterType

\* Taking the lock and giving it back change its holders only.
LEMMA HolderStep ==
  ASSUME CounterType, NEW H \in SUBSET Worker, mem' = [mem EXCEPT !.holders = H]
  PROVE  /\ CounterType' /\ mem'.holders = H
         /\ UNCHANGED <<mem.counter, mem.made, mem.read, mem.handles, mem.lost>>
BY DEF CounterType

\* The sum of the rounds, as the steps change it.
LEMMA MadeGrows ==
  ASSUME CounterType, NEW S \in SUBSET Worker
  PROVE  /\ Made(S) \in Nat
         /\ UNCHANGED mem.made => Made(S)' = Made(S)
         /\ \A w \in Worker : mem'.made = [mem.made EXCEPT ![w] = @ + 1] =>
              Made(S)' = Made(S) + (IF w \in S THEN 1 ELSE 0)
<1>1. /\ mem.made \in [Worker -> Nat]
      /\ mem.made["A"] \in Nat /\ mem.made["B"] \in Nat /\ mem.made["C"] \in Nat
  BY DEF CounterType, Worker
<1>2. Made(S) \in Nat
  BY <1>1 DEF Made
<1>3. UNCHANGED mem.made => Made(S)' = Made(S)
  BY DEF Made
<1>4. ASSUME NEW w \in Worker, mem'.made = [mem.made EXCEPT ![w] = @ + 1]
      PROVE  Made(S)' = Made(S) + (IF w \in S THEN 1 ELSE 0)
  BY <1>1, <1>4 DEF Made, Worker
<1> QED BY <1>2, <1>3, <1>4

\* Creating the workers; each was not there before.
LEMMA CreatingStep ==
  ASSUME ProcessInv, CounterType, UNCHANGED program,
         \/ /\ program # "srwLocked" /\ MainInv(Worker) /\ Counter!CreateAll
         \/ /\ program = "srwLocked" /\ MainInv({"B", "C"}) /\ Counter!CreateWriters
  PROVE  /\ CounterType' /\ (RoundsInv => RoundsInv')
         /\ IF program = "srwLocked" THEN MainInv({"B", "C"})' ELSE MainInv(Worker)'
         /\ UNCHANGED <<mem.counter, mem.made, mem.read, mem.holders, mem.lost, open>>
         /\ pc'[Main] # "verdict"
         /\ \A w \in Worker :
              pc'[w] = pc[w] \/ (pc[w] = "none" /\ pc'[w] = "begin")
<1>0. pc \in [Thread -> Label] /\ mem.handles \in [0..2 -> Worker \cup {"none"}]
      /\ 0 \in 0..2 /\ 1 \in 0..2 /\ 2 \in 0..2
      /\ "A" \in Worker /\ "B" \in Worker /\ "C" \in Worker
      /\ {"createB", "createC", "join"} \subseteq Label
  BY DEF ProcessInv, CounterType, Worker, Label
<1>1. ASSUME NEW w \in Worker, NEW i \in 0..2, NEW from, NEW to \in Label,
             Counter!Create(from, w, i, to), pc[w] = "none", to # "verdict"
      PROVE  /\ CounterType' /\ (RoundsInv => RoundsInv')
             /\ UNCHANGED <<mem.counter, mem.made, mem.read, mem.holders, mem.lost, open>>
             /\ mem'.handles = [mem.handles EXCEPT ![i] = w]
             /\ pc[Main] = from /\ pc'[Main] = to /\ pc'[w] = "begin"
             /\ \A u \in Worker \ {w} : pc'[u] = pc[u]
  <2>1. /\ CounterType' /\ mem'.handles = [mem.handles EXCEPT ![i] = w]
        /\ UNCHANGED <<mem.counter, mem.made, mem.read, mem.holders, mem.lost>>
    BY <1>1, CreateStep
  <2>2. /\ pc[Main] = from /\ pc'[Main] = to /\ pc'[w] = "begin" /\ UNCHANGED open
        /\ \A u \in Worker \ {w} : pc'[u] = pc[u]
    BY <1>0, <1>1 DEF Counter!Create, Counter!At, Counter!Main, Main, Thread, Worker
  <2>3. RoundsInv => RoundsInv'
    BY <2>1, <2>2 DEF RoundsInv
  <2> QED BY <2>1, <2>2, <2>3
<1>2. CASE program # "srwLocked" /\ MainInv(Worker) /\ Counter!CreateAll
  <2>1. CASE Counter!Create("create", "A", 0, "createB")
    <3>1. pc[Main] = "create" /\ pc["A"] = "none"
      BY <1>2, <2>1 DEF MainInv, Counter!Create, Counter!At, Counter!Main, Main
    <3>2. /\ CounterType' /\ (RoundsInv => RoundsInv')
          /\ UNCHANGED <<mem.counter, mem.made, mem.read, mem.holders, mem.lost, open>>
          /\ mem'.handles = [mem.handles EXCEPT ![0] = "A"]
          /\ pc'[Main] = "createB" /\ pc'["A"] = "begin"
          /\ \A u \in Worker \ {"A"} : pc'[u] = pc[u]
      BY <1>0, <1>1, <2>1, <3>1
    <3>3. MainInv(Worker)'
      BY <1>0, <1>2, <3>1, <3>2 DEF MainInv, Worker
    <3> QED BY <1>2, <3>1, <3>2, <3>3
  <2>2. CASE Counter!Create("createB", "B", 1, "createC")
    <3>1. pc[Main] = "createB" /\ pc["B"] = "none"
      BY <1>2, <2>2 DEF MainInv, Counter!Create, Counter!At, Counter!Main, Main
    <3>2. /\ CounterType' /\ (RoundsInv => RoundsInv')
          /\ UNCHANGED <<mem.counter, mem.made, mem.read, mem.holders, mem.lost, open>>
          /\ mem'.handles = [mem.handles EXCEPT ![1] = "B"]
          /\ pc'[Main] = "createC" /\ pc'["B"] = "begin"
          /\ \A u \in Worker \ {"B"} : pc'[u] = pc[u]
      BY <1>0, <1>1, <2>2, <3>1
    <3>3. MainInv(Worker)'
      BY <1>0, <1>2, <3>1, <3>2 DEF MainInv, Worker
    <3> QED BY <1>2, <3>1, <3>2, <3>3
  <2>3. CASE Counter!Create("createC", "C", 2, "join")
    <3>1. pc[Main] = "createC" /\ pc["C"] = "none"
      BY <1>2, <2>3 DEF MainInv, Counter!Create, Counter!At, Counter!Main, Main
    <3>2. /\ CounterType' /\ (RoundsInv => RoundsInv')
          /\ UNCHANGED <<mem.counter, mem.made, mem.read, mem.holders, mem.lost, open>>
          /\ mem'.handles = [mem.handles EXCEPT ![2] = "C"]
          /\ pc'[Main] = "join" /\ pc'["C"] = "begin"
          /\ \A u \in Worker \ {"C"} : pc'[u] = pc[u]
      <4>1. "C" \in Worker /\ 2 \in 0..2 /\ "join" \in Label /\ "join" # "verdict"
        BY <1>0
      <4>2. CounterType' /\ (RoundsInv => RoundsInv')
        BY <1>1, <2>3, <3>1, <4>1
      <4>3. pc'[Main] = "join" /\ pc'["C"] = "begin"
        BY <1>1, <2>3, <3>1, <4>1
      <4>4. \A u \in Worker \ {"C"} : pc'[u] = pc[u]
        BY <1>1, <2>3, <3>1, <4>1
      <4>5. mem'.handles = [mem.handles EXCEPT ![2] = "C"]
        BY <1>1, <2>3, <3>1, <4>1
      <4>6. UNCHANGED <<mem.counter, mem.made, mem.read, mem.holders, mem.lost, open>>
        BY <1>1, <2>3, <3>1, <4>1
      <4> QED BY <4>2, <4>3, <4>4, <4>5, <4>6
    <3>3. MainInv(Worker)'
      BY <1>0, <1>2, <3>1, <3>2 DEF MainInv, Worker
    <3> QED BY <1>2, <3>1, <3>2, <3>3
  <2> QED BY <1>2, <2>1, <2>2, <2>3 DEF Counter!CreateAll
<1>3. CASE program = "srwLocked" /\ MainInv({"B", "C"}) /\ Counter!CreateWriters
  <2>1. CASE Counter!Create("create", "A", 0, "createB")
    <3>1. pc[Main] = "create" /\ pc["A"] = "none"
      BY <1>3, <2>1 DEF MainInv, Counter!Create, Counter!At, Counter!Main, Main
    <3>2. /\ CounterType' /\ (RoundsInv => RoundsInv')
          /\ UNCHANGED <<mem.counter, mem.made, mem.read, mem.holders, mem.lost, open>>
          /\ mem'.handles = [mem.handles EXCEPT ![0] = "A"]
          /\ pc'[Main] = "createB" /\ pc'["A"] = "begin"
          /\ \A u \in Worker \ {"A"} : pc'[u] = pc[u]
      BY <1>0, <1>1, <2>1, <3>1
    <3>3. MainInv({"B", "C"})'
      BY <1>0, <1>3, <3>1, <3>2 DEF MainInv, Worker
    <3> QED BY <1>3, <3>1, <3>2, <3>3
  <2>2. CASE Counter!Create("createB", "B", 0, "createC")
    <3>1. pc[Main] = "createB" /\ pc["B"] = "none"
      BY <1>3, <2>2 DEF MainInv, Counter!Create, Counter!At, Counter!Main, Main
    <3>2. /\ CounterType' /\ (RoundsInv => RoundsInv')
          /\ UNCHANGED <<mem.counter, mem.made, mem.read, mem.holders, mem.lost, open>>
          /\ mem'.handles = [mem.handles EXCEPT ![0] = "B"]
          /\ pc'[Main] = "createC" /\ pc'["B"] = "begin"
          /\ \A u \in Worker \ {"B"} : pc'[u] = pc[u]
      BY <1>0, <1>1, <2>2, <3>1
    <3>3. MainInv({"B", "C"})'
      BY <1>0, <1>3, <3>1, <3>2 DEF MainInv, Worker
    <3> QED BY <1>3, <3>1, <3>2, <3>3
  <2>3. CASE Counter!Create("createC", "C", 1, "join")
    <3>1. pc[Main] = "createC" /\ pc["C"] = "none"
      BY <1>3, <2>3 DEF MainInv, Counter!Create, Counter!At, Counter!Main, Main
    <3>2. /\ CounterType' /\ (RoundsInv => RoundsInv')
          /\ UNCHANGED <<mem.counter, mem.made, mem.read, mem.holders, mem.lost, open>>
          /\ mem'.handles = [mem.handles EXCEPT ![1] = "C"]
          /\ pc'[Main] = "join" /\ pc'["C"] = "begin"
          /\ \A u \in Worker \ {"C"} : pc'[u] = pc[u]
      <4>1. "C" \in Worker /\ 1 \in 0..2 /\ "join" \in Label /\ "join" # "verdict"
        BY <1>0
      <4>2. CounterType' /\ (RoundsInv => RoundsInv')
        BY <1>1, <2>3, <3>1, <4>1
      <4>3. pc'[Main] = "join" /\ pc'["C"] = "begin"
        BY <1>1, <2>3, <3>1, <4>1
      <4>4. \A u \in Worker \ {"C"} : pc'[u] = pc[u]
        BY <1>1, <2>3, <3>1, <4>1
      <4>5. mem'.handles = [mem.handles EXCEPT ![1] = "C"]
        BY <1>1, <2>3, <3>1, <4>1
      <4>6. UNCHANGED <<mem.counter, mem.made, mem.read, mem.holders, mem.lost, open>>
        BY <1>1, <2>3, <3>1, <4>1
      <4> QED BY <4>2, <4>3, <4>4, <4>5, <4>6
    <3>3. MainInv({"B", "C"})'
      BY <1>0, <1>3, <3>1, <3>2 DEF MainInv, Worker
    <3> QED BY <1>3, <3>1, <3>2, <3>3
  <2> QED BY <1>3, <2>1, <2>2, <2>3 DEF Counter!CreateWriters
<1> QED BY <1>2, <1>3

\* Waiting for the workers and the end of main.
LEMMA JoiningStep ==
  ASSUME ProcessInv, \A w \in Worker : pc[w] # "failed",
         NEW J \in SUBSET Worker, MainInv(J), UNCHANGED program,
         \/ Counter!JoinAndReturn \/ Counter!CreateFails
         \/ Counter!Await(Main, "join", Counter!Kept, "close")
         \/ Counter!CloseEvents("close", "verdict") \/ Counter!Return("verdict", TRUE)
  PROVE  /\ MainInv(J)' /\ UNCHANGED mem
         /\ \A w \in Worker : pc'[w] = pc[w]
         /\ open' = open \/ pc'[Main] = "verdict"
         /\ pc[Main] = "verdict" => pc'[Main] = "verdict"
         /\ exit' = "passed" => exit = "passed" \/ pc[Main] = "verdict"
         /\ exit' = "failed" => exit = "failed" \/ faulted' # {}
<1>0. /\ pc \in [Thread -> Label] /\ Main \in Thread /\ Main \notin Worker
      /\ Counter!Main = Main /\ Worker \subseteq Thread
  BY DEF ProcessInv, Thread, Main, Counter!Main, Worker
<1>1. CASE Counter!Await(Main, "join", Counter!Kept, "close")
  <2>1. /\ pc[Main] = "join" /\ pc' = [pc EXCEPT ![Main] = "close"]
        /\ UNCHANGED <<mem, open, exit, faulted>>
    BY <1>1 DEF Counter!Await, Counter!Call, Counter!Go, Counter!At, Counter!others
  <2>2. ASSUME NEW w \in J
        PROVE  pc[w] = "done"
    <3>1. w \in Counter!Kept /\ w \in Worker
      BY <2>1 DEF MainInv, Counter!Kept, Worker
    <3>2. w \in signaled \/ Counter!Ended(w)
      BY <1>1, <3>1 DEF Counter!Await, Counter!Satisfied
    <3>3. w \notin signaled /\ pc[w] # "failed"
      BY <3>1 DEF ProcessInv, Worker
    <3> QED BY <3>2, <3>3 DEF Counter!Ended
  <2>3. /\ pc'[Main] = "close"
        /\ \A w \in Worker : pc'[w] = pc[w]
    BY <1>0, <2>1
  <2>4. MainInv(J)'
    BY <2>1, <2>2, <2>3 DEF MainInv
  <2> QED BY <2>1, <2>3, <2>4
<1>2. CASE \/ Counter!Call(Main, "close", "verdict")
           \/ Counter!CloseEvents("close", "verdict")
  <2>1. /\ pc[Main] = "close" /\ pc' = [pc EXCEPT ![Main] = "verdict"]
        /\ UNCHANGED <<mem, exit, faulted>>
    BY <1>0, <1>2 DEF Counter!CloseEvents, Counter!Call, Counter!Go, Counter!At,
       Counter!others
  <2>2. pc'[Main] = "verdict" /\ \A w \in Worker : pc'[w] = pc[w]
    BY <1>0, <2>1
  <2>3. MainInv(J)'
    BY <2>1, <2>2 DEF MainInv
  <2> QED BY <2>1, <2>2, <2>3
<1>3. CASE Counter!Return("verdict", TRUE)
  BY <1>0, <1>3 DEF Counter!Return, Counter!EndProcess, Counter!At, MainInv
<1>4. CASE Counter!CreateFails
  BY <1>0, <1>4 DEF Counter!CreateFails, Counter!CheckFails, Counter!ExitOn,
     Counter!Fault, MainInv
<1> QED BY <1>0, <1>1, <1>2, <1>3, <1>4 DEF Counter!JoinAndReturn

\* A worker that is at work leaves what main knows.
LEMMA WorkerMoves ==
  ASSUME ProcessInv, NEW J \in SUBSET Worker, MainInv(J), UNCHANGED program,
         NEW w \in Worker, pc[w] \notin {"none", "done"},
         \A u \in Thread \ {w} : pc'[u] = pc[u],
         UNCHANGED mem.handles
  PROVE  MainInv(J)' /\ UNCHANGED pc[Main]
<1>1. pc'[Main] = pc[Main]
  BY DEF Thread, Main, Worker
<1>2. \A v \in Worker : pc[v] \in {"none", "done"} => pc'[v] = pc[v]
  BY DEF Thread
<1> QED BY <1>1, <1>2 DEF MainInv, Worker

\* In WaitOnAddressCode, what leaves the counter and what was read of it alone.
LEMMA WaitStays ==
  ASSUME WaitInv, CounterType', UNCHANGED <<mem.counter, mem.made, mem.read, mem.lost>>,
         \A w \in {"A", "B"} : pc'[w] = "add" => pc[w] = "add",
         pc'["C"] = "done" => pc["C"] = "done", \A w \in Worker : pc'[w] # "failed"
  PROVE  WritersInv' /\ WaiterInv'
BY DEF WaitInv, WritersInv, WaiterInv, Written, Made, Counter!Total

\* A thread reads the counter: a writer to add to it, the waiter to compare.
LEMMA WaitReads ==
  ASSUME WaitInv, ProcessInv, NEW w \in Worker, NEW from, NEW to \in {"add", "loop"},
         Counter!Read(w, from, to), to = "add" <=> w \in {"A", "B"},
         w \in {"A", "B"} => mem.made[w] < Rounds
  PROVE  CounterType' /\ WritersInv' /\ WaiterInv'
<1>1. /\ CounterType' /\ mem'.read = [mem.read EXCEPT ![w] = mem.counter]
      /\ UNCHANGED <<mem.counter, mem.made, mem.lost>>
  BY ReadStep DEF WaitInv
<1>2. pc' = [pc EXCEPT ![w] = to]
  BY DEF Counter!Read, Counter!Store, Counter!Go
<1>3. /\ pc \in [Thread -> Label] /\ Worker \subseteq Thread /\ Rounds \in Nat
      /\ mem.read \in [Worker -> Nat] /\ mem.counter \in Nat /\ mem.lost \in BOOLEAN
  BY ExercisesAssumption DEF ProcessInv, WaitInv, CounterType, Thread
<1>4. Written \in Nat /\ Written' = Written
  BY <1>1, MadeGrows DEF WaitInv, Written, Worker
<1>5. WritersInv'
  <2>1. \A v \in {"A", "B"} : mem'.read[v] = IF v = w THEN mem.counter ELSE mem.read[v]
    BY <1>1, <1>3 DEF Worker
  <2>2. \A v \in {"A", "B"} : pc'[v] = IF v = w THEN "add" ELSE pc[v]
    BY <1>2, <1>3 DEF Worker
  <2> QED BY <1>1, <1>3, <1>4, <2>1, <2>2 DEF WaitInv, WritersInv
<1>6. WaiterInv'
  <2>1. \A v \in Worker : pc'[v] # "failed"
    BY <1>2, <1>3 DEF WaitInv, WaiterInv
  <2>2. CASE w # "C"
    <3>1. mem'.read["C"] = mem.read["C"] /\ pc'["C"] = pc["C"]
      BY <1>1, <1>2, <1>3, <2>2 DEF Worker, Thread
    <3> QED BY <1>1, <2>1, <3>1 DEF WaitInv, WaiterInv, Counter!Total
  <2>3. CASE w = "C"
    <3>1. mem'.read["C"] = mem.counter /\ pc'["C"] = "loop"
      BY <1>1, <1>2, <1>3, <2>3 DEF Worker, Thread
    <3>2. Written <= Counter!Total
      <4>1. mem.made["A"] \in Nat /\ mem.made["B"] \in Nat
        BY DEF WaitInv, CounterType, Worker
      <4>2. mem.made["A"] <= Rounds /\ mem.made["B"] <= Rounds
        BY DEF WaitInv, WritersInv
      <4> QED BY <1>3, <4>1, <4>2 DEF Written, Made, Counter!Total
    <3>3. mem.counter >= Counter!Total => mem.counter = Counter!Total /\ ~mem.lost
      <4>1. mem.counter <= Written /\ (~mem.lost <=> mem.counter = Written)
        BY DEF WaitInv, WritersInv
      <4> QED BY <1>3, <1>4, <3>2, <4>1 DEF Counter!Total
    <3> QED BY <1>1, <2>1, <3>1, <3>3 DEF WaiterInv, Counter!Total
  <2> QED BY <2>2, <2>3
<1> QED BY <1>1, <1>5, <1>6

\* A writer stores what it has read and 1.
LEMMA WaitWrites ==
  ASSUME WaitInv, ProcessInv, NEW w \in {"A", "B"}, Counter!Write(w, "add", "wake")
  PROVE  CounterType' /\ WritersInv' /\ WaiterInv'
<1>1. /\ CounterType' /\ mem'.counter = mem.read[w] + 1
      /\ mem'.made = [mem.made EXCEPT ![w] = @ + 1]
      /\ mem'.lost = (mem.lost \/ mem.counter # mem.read[w])
      /\ UNCHANGED mem.read
  BY WriteStep DEF WaitInv, Worker
<1>2. pc[w] = "add" /\ pc' = [pc EXCEPT ![w] = "wake"]
  BY DEF Counter!Write, Counter!Store, Counter!Go, Counter!At
<1>3. /\ pc \in [Thread -> Label] /\ Worker \subseteq Thread /\ Rounds \in Nat
      /\ mem.read \in [Worker -> Nat] /\ mem.made \in [Worker -> Nat]
      /\ mem.counter \in Nat /\ mem.lost \in BOOLEAN /\ w \in Worker
  BY ExercisesAssumption DEF ProcessInv, WaitInv, CounterType, Thread, Worker
<1>4. Written \in Nat /\ Written' = Written + 1
  BY <1>1, <1>3, MadeGrows DEF WaitInv, Written, Worker
<1>5. /\ mem.counter <= Written /\ (~mem.lost <=> mem.counter = Written)
      /\ mem.made[w] < Rounds /\ mem.read[w] <= Written
      /\ mem.lost \/ mem.read[w] # mem.counter => mem.read[w] < Written
  BY <1>2 DEF WaitInv, WritersInv
<1>6. WritersInv'
  <2>1. mem.read[w] \in Nat
    BY <1>3
  <2>2. /\ mem'.counter <= Written'
        /\ ~mem'.lost <=> mem'.counter = Written'
    <3>1. CASE mem.lost \/ mem.counter # mem.read[w]
      <4>1. mem'.lost /\ mem.read[w] < Written
        BY <1>1, <1>5, <3>1
      <4> QED BY <1>1, <1>4, <2>1, <4>1
    <3>2. CASE ~(mem.lost \/ mem.counter # mem.read[w])
      <4>1. ~mem'.lost /\ mem.read[w] = Written
        BY <1>1, <1>5, <3>2
      <4> QED BY <1>1, <1>4, <2>1, <4>1
    <3> QED BY <3>1, <3>2
  <2>3. ASSUME NEW v \in {"A", "B"}
        PROVE  /\ mem'.made[v] <= Rounds
               /\ pc'[v] = "add" => /\ mem'.made[v] < Rounds
                                     /\ mem'.read[v] < Written'
    <3>1. CASE v = w
      <4>1. mem'.made[v] = mem.made[v] + 1 /\ pc'[v] = "wake" /\ mem.made[v] \in Nat
        BY <1>1, <1>2, <1>3, <3>1
      <4> QED BY <1>3, <1>5, <3>1, <4>1
    <3>2. CASE v # w
      <4>1. mem'.made[v] = mem.made[v] /\ pc'[v] = pc[v] /\ mem'.read[v] = mem.read[v]
            /\ mem.read[v] \in Nat
        BY <1>1, <1>2, <1>3, <3>2 DEF Worker
      <4>2. /\ mem.made[v] <= Rounds
            /\ pc[v] = "add" => mem.made[v] < Rounds /\ mem.read[v] <= Written
        BY DEF WaitInv, WritersInv
      <4> QED BY <1>4, <4>1, <4>2
    <3> QED BY <3>1, <3>2
  <2>4. \A v \in {"A", "B"} : mem'.read[v] \in Nat
    BY <1>1, <1>3 DEF Worker
  <2> QED BY <1>4, <2>2, <2>3, <2>4 DEF WritersInv
<1>7. WaiterInv'
  <2>1. \A v \in Worker : pc'[v] # "failed"
    BY <1>2, <1>3 DEF WaitInv, WaiterInv
  <2>2. pc'["C"] = pc["C"]
    BY <1>2, <1>3
  <2>3. mem.read["C"] < Counter!Total
    <3>1. /\ mem.made["A"] \in Nat /\ mem.made["B"] \in Nat
          /\ mem.made["A"] <= Rounds /\ mem.made["B"] <= Rounds
          /\ mem.made["A"] < Rounds \/ mem.made["B"] < Rounds
      BY <1>3, <1>5 DEF WaitInv, WritersInv, Worker
    <3>2. Written < Counter!Total
      <4>1. Written = mem.made["A"] + mem.made["B"]
        BY <3>1 DEF Written, Made
      <4> QED BY <1>3, <3>1, <4>1 DEF Counter!Total
    <3>3. mem.counter # Counter!Total
      BY <1>3, <1>4, <1>5, <3>2 DEF Counter!Total
    <3>4. mem.read["C"] \in Nat
      BY <1>3 DEF Worker
    <3> QED BY <1>3, <3>3, <3>4 DEF WaitInv, WaiterInv, Counter!Total
  <2>4. mem'.read["C"] = mem.read["C"] /\ mem.read["C"] \in Nat
    BY <1>1, <1>3 DEF Worker
  <2> QED BY <1>3, <2>1, <2>2, <2>3, <2>4 DEF WaitInv, WaiterInv, Counter!Total
<1> QED BY <1>1, <1>6, <1>7

\* In WaitOnAddressCode the waiter ends with all increments, or never.
LEMMA WaitStep ==
  ASSUME ProcessInv, program = "waitOnAddress", UNCHANGED program, WaitInv,
         NEW t \in Thread, Counter!WaitOnAddress(t)
  PROVE  WaitInv'
<1>0. /\ CounterType /\ open /\ MainInv(Worker) /\ WaiterInv
      /\ pc \in [Thread -> Label] /\ \A w \in Worker : pc[w] # "failed"
  BY DEF WaitInv, WaiterInv, ProcessInv
<1>1. CASE t = Main /\ Counter!CreateAll
  <2>1. /\ CounterType' /\ MainInv(Worker)'
        /\ UNCHANGED <<mem.counter, mem.made, mem.read, mem.lost, open>>
        /\ \A w \in Worker : pc'[w] = pc[w] \/ (pc[w] = "none" /\ pc'[w] = "begin")
    BY <1>0, <1>1, CreatingStep
  <2>2. WritersInv' /\ WaiterInv'
    BY <1>0, <2>1, WaitStays DEF Worker
  <2> QED BY <1>0, <2>1, <2>2 DEF WaitInv
<1>2. CASE t = Main /\ (Counter!JoinAndReturn \/ Counter!CreateFails)
  <2>1. MainInv(Worker)' /\ UNCHANGED mem /\ \A w \in Worker : pc'[w] = pc[w]
    BY <1>0, <1>2, JoiningStep
  <2>2. open'
    BY <1>0, <1>2 DEF Counter!JoinAndReturn, Counter!CreateFails, Counter!CheckFails,
       Counter!ExitOn, Counter!Await, Counter!Call, Counter!Return,
       Counter!EndProcess, Counter!others
  <2>3. CounterType' /\ UNCHANGED <<mem.counter, mem.made, mem.read, mem.lost>>
    BY <1>0, <2>1 DEF CounterType
  <2>4. WritersInv' /\ WaiterInv'
    BY <1>0, <2>1, <2>3, WaitStays DEF Worker
  <2> QED BY <2>1, <2>2, <2>3, <2>4 DEF WaitInv
<1>3. ASSUME NEW w \in Worker, pc[w] \notin {"none", "done"}, UNCHANGED open,
             \A u \in Thread \ {w} : pc'[u] = pc[u], UNCHANGED mem.handles,
             CounterType', WritersInv', WaiterInv'
      PROVE  WaitInv'
  BY <1>0, <1>3, WorkerMoves DEF WaitInv
<1>4. CASE t \in {"A", "B"} /\ Counter!WriterThread(t)
  <2>1. t \in Worker /\ Worker \subseteq Thread /\ mem \in [counter : Nat, made : [Worker -> Nat],
          read : [Worker -> Nat], holders : SUBSET Worker,
          handles : [0..2 -> Worker \cup {"none"}], lost : BOOLEAN]
    BY <1>0, <1>4 DEF Worker, Thread, CounterType
  <2>2. CASE Counter!NextRound(t) /\ Counter!Read(t, "begin", "add")
    <3>1. CounterType' /\ WritersInv' /\ WaiterInv'
      BY <1>4, <2>1, <2>2, WaitReads DEF Counter!NextRound
    <3>2. /\ pc[t] = "begin" /\ \A u \in Thread \ {t} : pc'[u] = pc[u]
          /\ UNCHANGED <<open, mem.handles>>
      BY <1>0, <2>1, <2>2, ReadStep DEF Counter!Read, Counter!Store, Counter!Go, Counter!At
    <3> QED BY <1>3, <2>1, <3>1, <3>2
  <2>3. CASE Counter!Write(t, "add", "wake")
    <3>1. CounterType' /\ WritersInv' /\ WaiterInv'
      BY <1>4, <2>3, WaitWrites
    <3>2. /\ pc[t] = "add" /\ \A u \in Thread \ {t} : pc'[u] = pc[u]
          /\ UNCHANGED <<open, mem.handles>>
      BY <1>0, <2>1, <2>3, WriteStep DEF Counter!Write, Counter!Store, Counter!Go, Counter!At
    <3> QED BY <1>3, <2>1, <3>1, <3>2
  <2>4. CASE Counter!WakeByAddressAll(t, "wake", "begin")
    <3>1. /\ pc[t] = "wake" /\ UNCHANGED <<open, mem, exit, faulted>>
          /\ pc' = [pc EXCEPT ![t] = "begin", !["C"] = IF @ = "asleep" THEN "load" ELSE @]
      BY <2>4 DEF Counter!WakeByAddressAll, Counter!At, Counter!others
    <3>2. /\ pc'[t] = "begin" /\ \A u \in Thread \ {t, "C"} : pc'[u] = pc[u]
          /\ pc'["C"] = IF pc["C"] = "asleep" THEN "load" ELSE pc["C"]
      BY <1>0, <1>4, <3>1 DEF Thread, Worker
    <3>3. CounterType' /\ UNCHANGED <<mem.counter, mem.made, mem.read, mem.lost>>
      BY <1>0, <3>1 DEF CounterType
    <3>4. WritersInv' /\ WaiterInv'
      BY <1>0, <1>4, <3>2, <3>3, WaitStays DEF Thread, Worker
    <3>5. MainInv(Worker)'
      <4>1. pc'[Main] = pc[Main]
        BY <1>4, <3>2 DEF Thread, Main, Worker
      <4>2. \A v \in Worker : pc[v] \in {"none", "done"} => pc'[v] = pc[v]
        BY <1>4, <3>1, <3>2 DEF Thread, Worker
      <4> QED BY <1>0, <3>1, <4>1, <4>2 DEF MainInv, Worker
    <3> QED BY <1>0, <3>1, <3>3, <3>4, <3>5 DEF WaitInv
  <2>5. CASE Counter!LastRound(t)
    <3>1. /\ pc[t] = "begin" /\ pc' = [pc EXCEPT ![t] = "done"]
          /\ UNCHANGED <<open, mem>>
      BY <2>5 DEF Counter!LastRound, Counter!Call, Counter!Go, Counter!At, Counter!others
    <3>2. pc'[t] = "done" /\ \A u \in Thread \ {t} : pc'[u] = pc[u]
      BY <1>0, <2>1, <3>1
    <3>3. CounterType' /\ UNCHANGED <<mem.counter, mem.made, mem.read, mem.lost, mem.handles>>
      BY <1>0, <3>1 DEF CounterType
    <3>4. WritersInv' /\ WaiterInv'
      BY <1>0, <1>4, <3>2, <3>3, WaitStays DEF Thread, Worker
    <3> QED BY <1>3, <2>1, <3>1, <3>2, <3>3, <3>4
  <2> QED BY <1>4, <2>2, <2>3, <2>4, <2>5 DEF Counter!WriterThread
<1>5. CASE t = "C" /\ Counter!WaiterThread(t)
  <2>1. "C" \in Worker /\ "C" \in Thread
    BY DEF Worker, Thread
  <2>2. ASSUME NEW from \in {"begin", "load"}, Counter!Read("C", from, "loop")
        PROVE  WaitInv'
    <3>1. CounterType' /\ WritersInv' /\ WaiterInv'
      BY <2>1, <2>2, WaitReads
    <3>2. /\ pc["C"] = from /\ \A u \in Thread \ {"C"} : pc'[u] = pc[u]
          /\ UNCHANGED <<open, mem.handles>>
      BY <1>0, <2>1, <2>2, ReadStep DEF Counter!Read, Counter!Store, Counter!Go, Counter!At
    <3> QED BY <1>3, <2>1, <3>1, <3>2
  <2>3. ASSUME NEW to \in {"done", "asleep", "load"}, Counter!Call("C", "loop", to),
               to = "done" => mem.read["C"] >= Counter!Total
        PROVE  WaitInv'
    <3>1. /\ pc["C"] = "loop" /\ pc' = [pc EXCEPT !["C"] = to] /\ UNCHANGED <<open, mem>>
      BY <2>3 DEF Counter!Call, Counter!Go, Counter!At, Counter!others
    <3>2. pc'["C"] = to /\ \A u \in Thread \ {"C"} : pc'[u] = pc[u]
      BY <1>0, <2>1, <3>1
    <3>3. CounterType' /\ UNCHANGED <<mem.counter, mem.made, mem.read, mem.lost, mem.handles>>
      BY <1>0, <3>1 DEF CounterType
    <3>4. WritersInv'
      BY <3>2, <3>3 DEF WaitInv, WritersInv, Written, Made, Thread, Worker
    <3>5. WaiterInv'
      BY <1>0, <2>3, <3>2, <3>3 DEF WaiterInv, Thread, Worker, Counter!Total
    <3> QED BY <1>3, <2>1, <3>1, <3>2, <3>3, <3>4, <3>5
  <2> QED BY <1>5, <2>2, <2>3 DEF Counter!WaiterThread
<1> QED BY <1>1, <1>2, <1>4, <1>5 DEF Counter!WaitOnAddress, Counter!Main, Main

\* An interlocked increment, or one under the lock: the worker's rounds and the
\* counter go up together.
LEMMA InterlockedStep ==
  ASSUME ProcessInv, CounterType, RoundsInv, NEW w \in Worker,
         Counter!InterlockedThreadProc(w)
  PROVE  /\ CounterType' /\ RoundsInv' /\ UNCHANGED <<mem.handles, open, exit>>
         /\ pc[w] = "begin" /\ \A u \in Thread \ {w} : pc'[u] = pc[u]
         /\ \/ UNCHANGED <<mem.counter, mem.made>>
            \/ /\ mem'.counter = mem.counter + 1
               /\ mem'.made = [mem.made EXCEPT ![w] = @ + 1]
<1>0. /\ pc \in [Thread -> Label] /\ w \in Thread
      /\ mem.counter \in Nat /\ mem.made \in [Worker -> Nat] /\ mem.made[w] \in Nat
      /\ Rounds \in Nat
  BY ExercisesAssumption DEF ProcessInv, CounterType, Thread
<1>1. CASE Counter!LastRound(w)
  <2>1. /\ pc[w] = "begin" /\ pc' = [pc EXCEPT ![w] = "done"]
        /\ UNCHANGED <<mem, open, exit>> /\ ~(mem.made[w] < Rounds)
    BY <1>1 DEF Counter!LastRound, Counter!NextRound, Counter!Call, Counter!Go,
       Counter!At, Counter!others
  <2>2. pc'[w] = "done" /\ \A u \in Thread \ {w} : pc'[u] = pc[u]
    BY <1>0, <2>1
  <2>3. RoundsInv'
    BY <1>0, <2>1, <2>2 DEF RoundsInv, Thread
  <2> QED BY <2>1, <2>2, <2>3 DEF CounterType
<1>2. CASE /\ Counter!NextRound(w)
           /\ Counter!Store(w, "begin", [mem EXCEPT !.counter = @ + 1,
                                                    !.made[w] = @ + 1], "begin")
  <2>1. /\ pc[w] = "begin" /\ pc' = pc /\ UNCHANGED <<open, exit>>
        /\ mem.made[w] < Rounds
    BY <1>0, <1>2 DEF Counter!NextRound, Counter!Store, Counter!Go, Counter!At
  <2>2. PICK n \in Nat : n = mem.counter + 1
    BY <1>0
  <2>3. PICK m \in [Worker -> Nat] : m = [mem.made EXCEPT ![w] = @ + 1]
    <3>1. mem.made[w] + 1 \in Nat
      BY <1>0
    <3>2. [mem.made EXCEPT ![w] = @ + 1] \in [Worker -> Nat]
      BY <1>0, <3>1
    <3> QED BY <3>2
  <2>4. mem' = [mem EXCEPT !.counter = n, !.made = m]
    BY <1>2, <2>2, <2>3 DEF Counter!Store
  <2>5. CounterType' /\ mem'.counter = n /\ mem'.made = m /\ UNCHANGED mem.handles
    BY <2>4 DEF CounterType
  <2>6. RoundsInv'
    BY <1>0, <2>1, <2>3, <2>5 DEF RoundsInv
  <2> QED BY <2>1, <2>2, <2>3, <2>5, <2>6
<1> QED BY <1>1, <1>2 DEF Counter!InterlockedThreadProc

\* In CreateThreadSafeFunction no increment is lost.
LEMMA SafeStep ==
  ASSUME ProcessInv, program = "safeFunction", UNCHANGED program, InterlockedInv,
         NEW t \in Thread, Counter!SafeFunction(t)
  PROVE  InterlockedInv'
<1>0. CounterType /\ open /\ RoundsInv /\ SumInv(Worker) /\ MainInv(Worker)
  BY DEF InterlockedInv
<1>1. CASE Counter!CreateAll
  <2>1. /\ CounterType' /\ RoundsInv' /\ MainInv(Worker)'
        /\ UNCHANGED <<mem.counter, mem.made, open>>
    BY <1>0, <1>1, CreatingStep
  <2>2. SumInv(Worker)'
    BY <1>0, <2>1, MadeGrows DEF SumInv
  <2> QED BY <1>0, <2>1, <2>2 DEF InterlockedInv
<1>2. CASE Counter!JoinAndReturn \/ Counter!CreateFails
  <2>1. MainInv(Worker)' /\ UNCHANGED mem /\ \A w \in Worker : pc'[w] = pc[w]
    BY <1>0, <1>2, JoiningStep DEF RoundsInv
  <2>2. open'
    BY <1>0, <1>2 DEF Counter!JoinAndReturn, Counter!CreateFails, Counter!CheckFails,
       Counter!ExitOn, Counter!Await, Counter!Call, Counter!Return,
       Counter!EndProcess, Counter!others
  <2> QED BY <1>0, <2>1, <2>2 DEF InterlockedInv, CounterType, RoundsInv, SumInv, Made
<1>3. CASE t \in Worker /\ Counter!InterlockedThreadProc(t)
  <2>1. /\ CounterType' /\ RoundsInv' /\ UNCHANGED <<mem.handles, open>>
        /\ pc[t] = "begin" /\ \A u \in Thread \ {t} : pc'[u] = pc[u]
        /\ \/ UNCHANGED <<mem.counter, mem.made>>
           \/ /\ mem'.counter = mem.counter + 1
              /\ mem'.made = [mem.made EXCEPT ![t] = @ + 1]
    BY <1>0, <1>3, InterlockedStep
  <2>2. MainInv(Worker)'
    BY <1>0, <1>3, <2>1, WorkerMoves
  <2>3. SumInv(Worker)'
    BY <1>0, <1>3, <2>1, MadeGrows DEF SumInv
  <2> QED BY <1>0, <2>1, <2>2, <2>3 DEF InterlockedInv
<1> QED BY <1>1, <1>2, <1>3 DEF Counter!SafeFunction, Counter!Worker, Worker

\* A step under the lock: one holder at a time, which adds to what is there.
LEMMA LockedStep ==
  ASSUME ProcessInv, CounterType, RoundsInv, LockInv, NEW w \in Worker,
         Counter!LockedThreadProc(w)
  PROVE  /\ CounterType' /\ RoundsInv' /\ LockInv'
         /\ UNCHANGED <<mem.handles, open, exit>>
         /\ pc[w] \notin {"none", "done"} /\ \A u \in Thread \ {w} : pc'[u] = pc[u]
         /\ \/ UNCHANGED <<mem.counter, mem.made>>
            \/ /\ mem'.counter = mem.counter + 1
               /\ mem'.made = [mem.made EXCEPT ![w] = @ + 1]
<1>0. /\ pc \in [Thread -> Label] /\ w \in Thread /\ Worker \subseteq Thread
      /\ mem.counter \in Nat /\ mem.made \in [Worker -> Nat] /\ mem.made[w] \in Nat
      /\ mem.holders \subseteq Worker /\ Rounds \in Nat /\ ~mem.lost
      /\ mem.read \in [Worker -> Nat]
  BY ExercisesAssumption DEF ProcessInv, CounterType, Thread, LockInv
<1>1. CASE Counter!LastRound(w)
  <2>1. /\ pc[w] = "begin" /\ pc' = [pc EXCEPT ![w] = "done"]
        /\ UNCHANGED <<mem, open, exit>> /\ ~(mem.made[w] < Rounds)
    BY <1>1 DEF Counter!LastRound, Counter!NextRound, Counter!Call, Counter!Go,
       Counter!At, Counter!others
  <2>2. pc'[w] = "done" /\ \A u \in Thread \ {w} : pc'[u] = pc[u]
    BY <1>0, <2>1
  <2>3. RoundsInv'
    BY <1>0, <2>1, <2>2 DEF RoundsInv
  <2>4. LockInv'
    BY <1>0, <2>1, <2>2 DEF LockInv
  <2> QED BY <2>1, <2>2, <2>3, <2>4 DEF CounterType
<1>2. CASE Counter!Acquire(w)
  <2>1. /\ pc[w] = "begin" /\ pc' = [pc EXCEPT ![w] = "load"]
        /\ UNCHANGED <<open, exit>> /\ mem.made[w] < Rounds /\ mem.holders = {}
        /\ mem' = [mem EXCEPT !.holders = @ \cup {w}]
    BY <1>2 DEF Counter!Acquire, Counter!Exclusive, Counter!NextRound, Counter!Store,
       Counter!Go, Counter!At
  <2>2. pc'[w] = "load" /\ \A u \in Thread \ {w} : pc'[u] = pc[u]
    BY <1>0, <2>1
  <2>3. mem' = [mem EXCEPT !.holders = {w}]
    BY <2>1
  <2>4. /\ CounterType' /\ mem'.holders = {w}
        /\ UNCHANGED <<mem.counter, mem.made, mem.read, mem.handles, mem.lost>>
    BY <2>3, HolderStep
  <2>5. RoundsInv'
    BY <1>0, <2>1, <2>2, <2>4 DEF RoundsInv
  <2>6. LockInv'
    BY <1>0, <2>1, <2>2, <2>4 DEF LockInv
  <2> QED BY <2>1, <2>2, <2>4, <2>5, <2>6
<1>3. CASE Counter!Read(w, "load", "add")
  <2>1. /\ pc[w] = "load" /\ pc' = [pc EXCEPT ![w] = "add"] /\ UNCHANGED <<open, exit>>
    BY <1>3 DEF Counter!Read, Counter!Store, Counter!Go, Counter!At
  <2>2. pc'[w] = "add" /\ \A u \in Thread \ {w} : pc'[u] = pc[u]
    BY <1>0, <2>1
  <2>3. /\ CounterType' /\ mem'.read = [mem.read EXCEPT ![w] = mem.counter]
        /\ UNCHANGED <<mem.counter, mem.made, mem.holders, mem.handles, mem.lost>>
    BY <1>3, ReadStep
  <2>4. RoundsInv'
    BY <1>0, <2>1, <2>2, <2>3 DEF RoundsInv
  <2>5. LockInv'
    BY <1>0, <2>1, <2>2, <2>3 DEF LockInv
  <2> QED BY <2>1, <2>2, <2>3, <2>4, <2>5
<1>4. CASE Counter!Write(w, "add", "unlock")
  <2>1. /\ pc[w] = "add" /\ pc' = [pc EXCEPT ![w] = "unlock"] /\ UNCHANGED <<open, exit>>
    BY <1>4 DEF Counter!Write, Counter!Store, Counter!Go, Counter!At
  <2>2. pc'[w] = "unlock" /\ \A u \in Thread \ {w} : pc'[u] = pc[u]
    BY <1>0, <2>1
  <2>3. mem.read[w] = mem.counter /\ mem.made[w] < Rounds
        /\ \A u \in Worker \ {w} : pc[u] \notin {"load", "add", "unlock"}
    BY <2>1 DEF LockInv, RoundsInv
  <2>4. /\ CounterType' /\ mem'.counter = mem.counter + 1
        /\ mem'.made = [mem.made EXCEPT ![w] = @ + 1] /\ ~mem'.lost
        /\ UNCHANGED <<mem.read, mem.holders, mem.handles>>
    BY <1>0, <1>4, <2>3, WriteStep
  <2>5. RoundsInv'
    BY <1>0, <2>2, <2>3, <2>4 DEF RoundsInv
  <2>6. LockInv'
    BY <1>0, <2>1, <2>2, <2>3, <2>4 DEF LockInv
  <2> QED BY <2>1, <2>2, <2>4, <2>5, <2>6
<1>5. CASE Counter!Release(w)
  <2>1. /\ pc[w] = "unlock" /\ pc' = [pc EXCEPT ![w] = "begin"] /\ UNCHANGED <<open, exit>>
        /\ mem' = [mem EXCEPT !.holders = @ \ {w}]
    BY <1>5 DEF Counter!Release, Counter!Store, Counter!Go, Counter!At
  <2>2. pc'[w] = "begin" /\ \A u \in Thread \ {w} : pc'[u] = pc[u]
    BY <1>0, <2>1
  <2>3. mem.holders = {w}
    BY <1>0, <2>1 DEF LockInv
  <2>4. mem' = [mem EXCEPT !.holders = {}]
    BY <2>1, <2>3
  <2>5. /\ CounterType' /\ mem'.holders = {}
        /\ UNCHANGED <<mem.counter, mem.made, mem.read, mem.handles, mem.lost>>
    BY <2>4, HolderStep
  <2>6. RoundsInv'
    BY <1>0, <2>2, <2>5 DEF RoundsInv
  <2>7. LockInv'
    BY <1>0, <2>1, <2>2, <2>3, <2>5 DEF LockInv
  <2> QED BY <2>1, <2>2, <2>5, <2>6, <2>7
<1> QED BY <1>1, <1>2, <1>3, <1>4, <1>5 DEF Counter!LockedThreadProc

\* What main does leaves the lock and the sum alone.
LEMMA MainLeavesLock ==
  ASSUME CounterType, LockInv,
         UNCHANGED <<mem.counter, mem.made, mem.read, mem.holders, mem.lost>>,
         \A w \in Worker : pc'[w] = pc[w] \/ (pc[w] = "none" /\ pc'[w] = "begin")
  PROVE  LockInv' /\ \A S \in SUBSET Worker : Made(S)' = Made(S)
<1>1. \A S \in SUBSET Worker : Made(S)' = Made(S)
  BY MadeGrows
<1>2. LockInv'
  BY DEF LockInv, CounterType
<1> QED BY <1>1, <1>2

\* In CreateThreadWithCriticalSection no increment is lost, and the section is
\* deleted when nobody can enter it.
LEMMA CriticalStep ==
  ASSUME ProcessInv, program = "criticalSection", UNCHANGED program, CriticalInv,
         NEW t \in Thread, Counter!CriticalSection(t)
  PROVE  CriticalInv'
<1>0. /\ CounterType /\ RoundsInv /\ LockInv /\ SumInv(Worker) /\ MainInv(Worker)
      /\ ~open => pc[Main] = "verdict"
  BY DEF CriticalInv
<1>1. CASE t = Main /\ Counter!CreateAll
  <2>1. /\ CounterType' /\ RoundsInv' /\ MainInv(Worker)'
        /\ UNCHANGED <<mem.counter, mem.made, mem.read, mem.holders, mem.lost, open>>
        /\ \A w \in Worker : pc'[w] = pc[w] \/ (pc[w] = "none" /\ pc'[w] = "begin")
    BY <1>0, <1>1, CreatingStep
  <2>2. LockInv' /\ SumInv(Worker)'
    BY <1>0, <2>1, MainLeavesLock DEF SumInv
  <2>3. pc[Main] # "verdict"
    BY <1>1 DEF Counter!CreateAll, Counter!Create, Counter!At, Counter!Main, Main
  <2> QED BY <1>0, <2>1, <2>2, <2>3 DEF CriticalInv
<1>2. CASE t = Main /\ \/ Counter!CreateFails
                       \/ Counter!Await(Main, "join", Counter!Kept, "close")
                       \/ Counter!CloseEvents("close", "verdict")
                       \/ Counter!Return("verdict", TRUE)
  <2>1. /\ MainInv(Worker)' /\ UNCHANGED mem /\ \A w \in Worker : pc'[w] = pc[w]
        /\ open' = open \/ pc'[Main] = "verdict"
        /\ pc[Main] = "verdict" => pc'[Main] = "verdict"
    BY <1>0, <1>2, JoiningStep DEF RoundsInv
  <2>2. UNCHANGED <<mem.counter, mem.made, mem.read, mem.holders, mem.lost>>
    BY <2>1
  <2>3. LockInv' /\ SumInv(Worker)'
    BY <1>0, <2>1, <2>2, MainLeavesLock DEF SumInv
  <2>4. CounterType' /\ RoundsInv'
    BY <1>0, <2>1 DEF CounterType, RoundsInv
  <2> QED BY <1>0, <2>1, <2>3, <2>4 DEF CriticalInv
<1>3. CASE t \in Worker /\ Counter!LockedThreadProc(t)
  <2>1. /\ CounterType' /\ RoundsInv' /\ LockInv' /\ UNCHANGED <<mem.handles, open>>
        /\ pc[t] \notin {"none", "done"} /\ \A u \in Thread \ {t} : pc'[u] = pc[u]
        /\ \/ UNCHANGED <<mem.counter, mem.made>>
           \/ /\ mem'.counter = mem.counter + 1
              /\ mem'.made = [mem.made EXCEPT ![t] = @ + 1]
    BY <1>0, <1>3, LockedStep
  <2>2. MainInv(Worker)' /\ UNCHANGED pc[Main]
    BY <1>0, <1>3, <2>1, WorkerMoves
  <2>3. SumInv(Worker)'
    BY <1>0, <1>3, <2>1, MadeGrows DEF SumInv
  <2> QED BY <1>0, <2>1, <2>2, <2>3 DEF CriticalInv
<1> QED BY <1>1, <1>2, <1>3 DEF Counter!CriticalSection, Counter!Worker, Worker,
        Counter!Main, Main

\* The reader of CreateThreadSRWLocked holds the lock alone, there being one
\* reader, and leaves the counter as it is.
LEMMA ReaderStep ==
  ASSUME ProcessInv, CounterType, RoundsInv, LockInv, Counter!ReaderThreadProc("A")
  PROVE  /\ CounterType' /\ RoundsInv' /\ LockInv'
         /\ UNCHANGED <<mem.handles, mem.counter, open, exit>>
         /\ pc["A"] \notin {"none", "done"} /\ \A u \in Thread \ {"A"} : pc'[u] = pc[u]
         /\ UNCHANGED mem.made \/ mem'.made = [mem.made EXCEPT !["A"] = @ + 1]
<1>0. /\ pc \in [Thread -> Label] /\ "A" \in Worker /\ Worker \subseteq Thread
      /\ mem.counter \in Nat /\ mem.made \in [Worker -> Nat] /\ mem.made["A"] \in Nat
      /\ mem.holders \subseteq Worker /\ Rounds \in Nat /\ ~mem.lost
      /\ mem.read \in [Worker -> Nat]
  BY ExercisesAssumption DEF ProcessInv, CounterType, Thread, Worker, LockInv
<1>1. CASE Counter!LastRound("A")
  <2>1. /\ pc["A"] = "begin" /\ pc' = [pc EXCEPT !["A"] = "done"]
        /\ UNCHANGED <<mem, open, exit>> /\ ~(mem.made["A"] < Rounds)
    BY <1>1 DEF Counter!LastRound, Counter!NextRound, Counter!Call, Counter!Go,
       Counter!At, Counter!others
  <2>2. pc'["A"] = "done" /\ \A u \in Thread \ {"A"} : pc'[u] = pc[u]
    BY <1>0, <2>1
  <2>3. RoundsInv'
    BY <1>0, <2>1, <2>2 DEF RoundsInv
  <2>4. LockInv'
    BY <1>0, <2>1, <2>2 DEF LockInv
  <2> QED BY <2>1, <2>2, <2>3, <2>4 DEF CounterType
<1>2. CASE /\ mem.holders = {} /\ Counter!NextRound("A")
           /\ Counter!Store("A", "begin", [mem EXCEPT !.holders = {"A"}], "load")
  <2>1. /\ pc["A"] = "begin" /\ pc' = [pc EXCEPT !["A"] = "load"]
        /\ UNCHANGED <<open, exit>> /\ mem.made["A"] < Rounds /\ mem.holders = {}
        /\ mem' = [mem EXCEPT !.holders = {"A"}]
    BY <1>2 DEF Counter!NextRound, Counter!Store, Counter!Go, Counter!At
  <2>2. pc'["A"] = "load" /\ \A u \in Thread \ {"A"} : pc'[u] = pc[u]
    BY <1>0, <2>1
  <2>3. /\ CounterType' /\ mem'.holders = {"A"}
        /\ UNCHANGED <<mem.counter, mem.made, mem.read, mem.handles, mem.lost>>
    BY <1>0, <2>1, HolderStep
  <2>4. RoundsInv'
    BY <1>0, <2>1, <2>2, <2>3 DEF RoundsInv
  <2>5. LockInv'
    BY <1>0, <2>1, <2>2, <2>3 DEF LockInv
  <2> QED BY <2>1, <2>2, <2>3, <2>4, <2>5
<1>3. CASE Counter!Store("A", "load", [mem EXCEPT !.read["A"] = mem.counter,
                                                  !.made["A"] = @ + 1], "unlock")
  <2>1. /\ pc["A"] = "load" /\ pc' = [pc EXCEPT !["A"] = "unlock"] /\ UNCHANGED <<open, exit>>
    BY <1>3 DEF Counter!Store, Counter!Go, Counter!At
  <2>2. pc'["A"] = "unlock" /\ \A u \in Thread \ {"A"} : pc'[u] = pc[u]
    BY <1>0, <2>1
  <2>3. PICK r \in [Worker -> Nat] : r = [mem.read EXCEPT !["A"] = mem.counter]
    BY <1>0
  <2>4. PICK m \in [Worker -> Nat] : m = [mem.made EXCEPT !["A"] = @ + 1]
    <3>1. mem.made["A"] + 1 \in Nat
      BY <1>0
    <3>2. [mem.made EXCEPT !["A"] = @ + 1] \in [Worker -> Nat]
      BY <1>0, <3>1
    <3> QED BY <3>2
  <2>5. mem' = [mem EXCEPT !.read = r, !.made = m]
    BY <1>3, <2>3, <2>4 DEF Counter!Store
  <2>6. /\ CounterType' /\ mem'.read = r /\ mem'.made = m
        /\ UNCHANGED <<mem.counter, mem.holders, mem.handles, mem.lost>>
    BY <2>5 DEF CounterType
  <2>7. RoundsInv'
    BY <1>0, <2>1, <2>2, <2>4, <2>6 DEF RoundsInv
  <2>8. LockInv'
    BY <1>0, <2>1, <2>2, <2>3, <2>6 DEF LockInv
  <2> QED BY <2>1, <2>2, <2>4, <2>6, <2>7, <2>8
<1>4. CASE Counter!Release("A")
  <2>1. Counter!LockedThreadProc("A")
    BY <1>4 DEF Counter!LockedThreadProc
  <2>2. mem' = [mem EXCEPT !.holders = @ \ {"A"}] /\ pc["A"] = "unlock"
    BY <1>4 DEF Counter!Release, Counter!Store, Counter!Go, Counter!At
  <2>3. UNCHANGED <<mem.counter, mem.made>>
    BY <2>2 DEF CounterType
  <2> QED BY <1>0, <2>1, <2>3, LockedStep
<1> QED BY <1>1, <1>2, <1>3, <1>4 DEF Counter!ReaderThreadProc

\* In CreateThreadSRWLocked no increment is lost, and the two writers are
\* awaited: the handle that is lost is the reader's.
LEMMA SRWStep ==
  ASSUME ProcessInv, program = "srwLocked", UNCHANGED program, SRWInv,
         NEW t \in Thread, Counter!SRWLocked(t)
  PROVE  SRWInv'
<1> DEFINE J == {"B", "C"}
<1>0. /\ CounterType /\ open /\ RoundsInv /\ LockInv /\ SumInv(J) /\ MainInv(J)
      /\ J \in SUBSET Worker /\ "A" \in Worker /\ "A" \notin J
  BY DEF SRWInv, Worker
<1>1. CASE t = Main /\ Counter!CreateWriters
  <2>1. /\ CounterType' /\ RoundsInv' /\ MainInv(J)'
        /\ UNCHANGED <<mem.counter, mem.made, mem.read, mem.holders, mem.lost, open>>
        /\ \A w \in Worker : pc'[w] = pc[w] \/ (pc[w] = "none" /\ pc'[w] = "begin")
    BY <1>0, <1>1, CreatingStep
  <2>2. LockInv' /\ SumInv(J)'
    BY <1>0, <2>1, MainLeavesLock DEF SumInv
  <2> QED BY <1>0, <2>1, <2>2 DEF SRWInv
<1>2. CASE t = Main /\ (Counter!JoinAndReturn \/ Counter!CreateFails)
  <2>1. MainInv(J)' /\ UNCHANGED mem /\ \A w \in Worker : pc'[w] = pc[w]
    BY <1>0, <1>2, JoiningStep DEF RoundsInv
  <2>2. UNCHANGED <<mem.counter, mem.made, mem.read, mem.holders, mem.lost>>
    BY <2>1
  <2>3. LockInv' /\ SumInv(J)'
    BY <1>0, <2>1, <2>2, MainLeavesLock DEF SumInv
  <2>4. CounterType' /\ RoundsInv'
    BY <1>0, <2>1 DEF CounterType, RoundsInv
  <2>5. open'
    BY <1>0, <1>2 DEF Counter!JoinAndReturn, Counter!CreateFails, Counter!CheckFails,
       Counter!ExitOn, Counter!Await, Counter!Call, Counter!Return,
       Counter!EndProcess, Counter!others
  <2> QED BY <2>1, <2>3, <2>4, <2>5 DEF SRWInv
<1>3. CASE t = "A" /\ Counter!ReaderThreadProc("A")
  <2>1. /\ CounterType' /\ RoundsInv' /\ LockInv'
        /\ UNCHANGED <<mem.handles, mem.counter, open>>
        /\ pc["A"] \notin {"none", "done"} /\ \A u \in Thread \ {"A"} : pc'[u] = pc[u]
        /\ UNCHANGED mem.made \/ mem'.made = [mem.made EXCEPT !["A"] = @ + 1]
    BY <1>0, <1>3, ReaderStep
  <2>2. MainInv(J)'
    BY <1>0, <2>1, WorkerMoves
  <2>3. SumInv(J)'
    BY <1>0, <2>1, MadeGrows DEF SumInv
  <2> QED BY <1>0, <2>1, <2>2, <2>3 DEF SRWInv
<1>4. CASE t \in J /\ Counter!LockedThreadProc(t)
  <2>1. /\ CounterType' /\ RoundsInv' /\ LockInv' /\ UNCHANGED <<mem.handles, open>>
        /\ pc[t] \notin {"none", "done"} /\ \A u \in Thread \ {t} : pc'[u] = pc[u]
        /\ \/ UNCHANGED <<mem.counter, mem.made>>
           \/ /\ mem'.counter = mem.counter + 1
              /\ mem'.made = [mem.made EXCEPT ![t] = @ + 1]
    BY <1>0, <1>4, LockedStep
  <2>2. MainInv(J)'
    BY <1>0, <1>4, <2>1, WorkerMoves
  <2>3. SumInv(J)'
    BY <1>0, <1>4, <2>1, MadeGrows DEF SumInv
  <2> QED BY <1>0, <2>1, <2>2, <2>3 DEF SRWInv
<1> QED BY <1>1, <1>2, <1>3, <1>4 DEF Counter!SRWLocked, Counter!Main, Main
-----------------------------------------------------------------------------
(* The two programs that tell a worker to end *)

SignalsType ==
  mem \in [success : BOOLEAN, queued : Nat, called : Nat, lost : BOOLEAN]

\* One worker, created by main's first call; main closes the event last.
OneWorkerInv ==
  /\ pc["B"] = "none" /\ pc["C"] = "none"
  /\ pc[Main] = "create" => pc["A"] = "none"
  /\ ~open => pc[Main] = "verdict"

\* main gives up on a failure only, and waits otherwise.
EventInv ==
  /\ SignalsType /\ OneWorkerInv
  /\ ~mem.success \/ pc["A"] = "failed" => faulted # {}
  /\ pc[Main] \in {"close", "verdict"} => Ended("A") \/ faulted # {}

\* The APC is queued once, and is on the queue or has been called.
ApcInv ==
  /\ SignalsType /\ OneWorkerInv
  /\ pc[Main] \in {"create", "queue", "set", "join", "close", "verdict"}
  /\ mem.called + mem.queued = IF pc[Main] \in {"create", "queue"} THEN 0 ELSE 1
  /\ pc[Main] \in {"close", "verdict"} => Ended("A")

\* A step of these programs, and what it leaves alone.
LEMMA SignalProcess ==
  ASSUME ProcessInv, UNCHANGED program, NEW t \in Thread,
         Signal!SignaledEvent(t) \/ Signal!WithAPC(t)
  PROVE  ProcessInv' /\ Running /\ faulted \subseteq faulted'
<1> USE DEF Running, Signal!Running, Signal!Store, Signal!Call, Signal!Go, Signal!At, Signal!others,
            Signal!Await, Signal!EndProcess, Signal!Return, Signal!CloseEvents,
            Signal!CheckFails, Signal!ExitOn, Signal!Fault, Signal!CreateThread,
            Signal!SignalEvent, Signal!CallAborts, Signal!StepFails,
            Signal!WorkerFails, Signal!Fails, Signal!Main, Main, Worker, Thread,
            ProcessInv, Label, Status, FaultKinds
<1>1. CASE Signal!SignaledEvent(t)
  BY <1>1 DEF Signal!SignaledEvent, Signal!SignaledMain, Signal!WaiterThread
<1>2. CASE Signal!WithAPC(t)
  BY <1>2 DEF Signal!WithAPC, Signal!ApcMain, Signal!WorkerThread, Signal!Called
<1> QED BY <1>1, <1>2

\* In CreateThreadSignaledEvent the event is closed under nobody.
LEMMA EventStep ==
  ASSUME ProcessInv, EventInv, NEW t \in Thread, Signal!SignaledEvent(t)
  PROVE  EventInv'
<1>0. /\ pc \in [Thread -> Label] /\ Main \in Thread /\ "A" \in Thread
      /\ "B" \in Thread /\ "C" \in Thread /\ Signal!Main = Main /\ Main = "main"
  BY DEF ProcessInv, Thread, Worker, Main, Signal!Main
<1>1. CASE t = Main /\ Signal!SignaledMain
  <2>1. CASE Signal!CreateThread("create", "A", 0, "set")
    BY <1>0, <2>1 DEF Signal!CreateThread, Signal!At, EventInv, OneWorkerInv,
       SignalsType, Ended
  <2>2. CASE Signal!SignalEvent(Main, "set", "event", "join")
    BY <1>0, <2>2 DEF Signal!SignalEvent, Signal!Go, Signal!At, EventInv, OneWorkerInv,
       SignalsType, Ended
  <2>3. ASSUME NEW from \in {"create", "set"}, Signal!StepFails(from, "call", "close")
        PROVE  EventInv'
    BY <1>0, <2>3 DEF Signal!StepFails, Signal!Go, Signal!At, Signal!Fault, EventInv,
       OneWorkerInv, SignalsType, Ended
  <2>4. CASE Signal!Await(Main, "join", {"A"}, "close")
    <3>1. Ended("A")
      BY <2>4 DEF Signal!Await, Signal!Satisfied, Signal!Ended, Ended, ProcessInv,
         Signal!Worker
    <3> QED BY <1>0, <2>4, <3>1 DEF Signal!Await, Signal!Call, Signal!Go, Signal!At,
            Signal!others, EventInv, OneWorkerInv, SignalsType, Ended
  <2>5. CASE Signal!CloseEvents("close", "verdict")
    BY <1>0, <2>5 DEF Signal!CloseEvents, Signal!Go, Signal!At, EventInv, OneWorkerInv,
       SignalsType, Ended
  <2>6. CASE Signal!Return("verdict", mem.success)
    BY <1>0, <2>6 DEF Signal!Return, Signal!EndProcess, EventInv, OneWorkerInv,
       SignalsType, Ended
  <2> QED BY <1>0, <1>1, <2>1, <2>2, <2>3, <2>4, <2>5, <2>6 DEF Signal!SignaledMain,
          Signal!CallAborts
<1>2. CASE t = "A" /\ Signal!WaiterThread("A")
  <2>1. CASE Signal!Call("A", "begin", "wait") \/ Signal!Await("A", "wait", {"event"}, "done")
    BY <1>0, <2>1 DEF Signal!Await, Signal!Call, Signal!Go, Signal!At, Signal!others,
       EventInv, OneWorkerInv, SignalsType, Ended
  <2>2. ASSUME NEW from \in {"begin", "wait"}, Signal!WorkerFails("A", from, "call")
        PROVE  EventInv'
    BY <1>0, <2>2 DEF Signal!WorkerFails, Signal!Fails, Signal!Fault, Signal!Go,
       Signal!At, EventInv, OneWorkerInv, SignalsType, Ended
  <2> QED BY <1>2, <2>1, <2>2 DEF Signal!WaiterThread
<1> QED BY <1>0, <1>1, <1>2 DEF Signal!SignaledEvent

\* In CreateThreadWithAPC the APC is called once, or never.
LEMMA ApcStep ==
  ASSUME ProcessInv, ApcInv, NEW t \in Thread, Signal!WithAPC(t)
  PROVE  ApcInv'
<1>0. /\ pc \in [Thread -> Label] /\ Main \in Thread /\ "A" \in Thread
      /\ "B" \in Thread /\ "C" \in Thread /\ Signal!Main = Main /\ Main = "main"
      /\ mem.queued \in Nat /\ mem.called \in Nat
  BY DEF ProcessInv, Thread, Worker, Main, Signal!Main, ApcInv, SignalsType
<1>1. CASE t = Main /\ Signal!ApcMain
  <2>1. CASE Signal!CreateThread("create", "A", 0, "queue")
    BY <1>0, <2>1 DEF Signal!CreateThread, Signal!At, ApcInv, OneWorkerInv,
       SignalsType, Ended
  <2>2. CASE Signal!Store(Main, "queue", [mem EXCEPT !.queued = @ + 1], "set")
    <3>1. PICK n \in Nat : n = mem.queued + 1
      BY <1>0
    <3>2. mem' = [mem EXCEPT !.queued = n] /\ UNCHANGED open
          /\ pc[Main] = "queue" /\ pc' = [pc EXCEPT ![Main] = "set"]
      BY <1>0, <2>2, <3>1 DEF Signal!Store, Signal!Go, Signal!At
    <3>3. SignalsType' /\ mem'.queued = n /\ UNCHANGED mem.called
      BY <3>2 DEF ApcInv, SignalsType
    <3> QED BY <1>0, <3>1, <3>2, <3>3 DEF ApcInv, OneWorkerInv, Ended
  <2>3. CASE Signal!SignalEvent(Main, "set", "event", "join")
    BY <1>0, <2>3 DEF Signal!SignalEvent, Signal!Go, Signal!At, ApcInv, OneWorkerInv,
       SignalsType, Ended
  <2>4. CASE /\ Signal!Go(Main, "set", "join") /\ mem' = [mem EXCEPT !.lost = TRUE]
             /\ UNCHANGED open
    <3>1. SignalsType' /\ UNCHANGED <<mem.called, mem.queued>>
      BY <2>4 DEF ApcInv, SignalsType
    <3> QED BY <1>0, <2>4, <3>1 DEF Signal!Go, Signal!At, ApcInv, OneWorkerInv, Ended
  <2>5. CASE Signal!Await(Main, "join", {"A"}, "close")
    <3>1. Ended("A")
      BY <2>5 DEF Signal!Await, Signal!Satisfied, Signal!Ended, Ended, ProcessInv,
         Signal!Worker
    <3> QED BY <1>0, <2>5, <3>1 DEF Signal!Await, Signal!Call, Signal!Go, Signal!At,
            Signal!others, ApcInv, OneWorkerInv, SignalsType, Ended
  <2>6. CASE Signal!CloseEvents("close", "verdict")
    BY <1>0, <2>6 DEF Signal!CloseEvents, Signal!Go, Signal!At, ApcInv, OneWorkerInv,
       SignalsType, Ended
  <2>7. CASE Signal!Return("verdict", TRUE) \/ Signal!CheckFails(Main, {"create", "queue"})
    BY <1>0, <2>7 DEF Signal!Return, Signal!EndProcess, Signal!CheckFails, Signal!ExitOn,
       ApcInv, OneWorkerInv, SignalsType, Ended
  <2> QED BY <1>0, <1>1, <2>1, <2>2, <2>3, <2>4, <2>5, <2>6, <2>7 DEF Signal!ApcMain
<1>2. CASE t = "A" /\ Signal!WorkerThread("A")
  <2>1. CASE mem' = Signal!Called(mem) /\ UNCHANGED open
             /\ (Signal!Go("A", "begin", "wait") \/ Signal!Go("A", "wait", "wait"))
    <3>1. PICK n \in Nat : n = mem.called + mem.queued
      BY <1>0
    <3>2. mem' = [mem EXCEPT !.called = n, !.queued = 0]
      BY <2>1, <3>1 DEF Signal!Called
    <3>3. SignalsType' /\ mem'.called = n /\ mem'.queued = 0
      BY <3>2 DEF ApcInv, SignalsType
    <3> QED BY <1>0, <2>1, <3>1, <3>3 DEF Signal!Go, Signal!At, ApcInv, OneWorkerInv, Ended
  <2>2. CASE Signal!Go("A", "wait", "done") /\ UNCHANGED <<open, mem>>
    BY <1>0, <2>2 DEF Signal!Go, Signal!At, ApcInv, OneWorkerInv, SignalsType, Ended
  <2> QED BY <1>2, <2>1, <2>2 DEF Signal!WorkerThread, Signal!Store
<1> QED BY <1>0, <1>1, <1>2 DEF Signal!WithAPC
-----------------------------------------------------------------------------
(* The two programs with a variable of each thread *)

LocalType ==
  mem \in [own : [Local!Pair \cup {Main} -> Int],
           allocated : [Local!Pair \cup {Main} -> BOOLEAN],
           found : [Local!Pair -> Int], steps : [Local!Pair -> Nat], index : BOOLEAN]

\* A worker finds the initial value, whatever the other one has done, and ends
\* with its parameter and its steps.
OwnInv ==
  \A w \in Local!Pair :
    /\ pc[w] \in {"none", "begin", "find", "assign"} =>
         mem.own[w] = Local!InitialValue /\ mem.steps[w] = 0
    /\ pc[w] \in {"assign", "work", "free", "done"} => mem.found[w] = Local!InitialValue
    /\ pc[w] \in {"work", "free", "done"} =>
         mem.own[w] = Local!Parameter[w] + 10 * mem.steps[w]
    /\ pc[w] \in {"free", "done"} => mem.steps[w] = Steps

LocalInv ==
  /\ LocalType /\ OwnInv /\ open
  /\ pc[Main] \in {"alloc", "create"} => pc["A"] = "none"
  /\ pc[Main] \in {"alloc", "create", "join", "createB"} => pc["B"] = "none"

\* A step of these programs, and what it leaves alone.
LEMMA LocalProcess ==
  ASSUME ProcessInv, UNCHANGED program, NEW t \in Thread,
         Local!Dynamic(t) \/ Local!Static(t)
  PROVE  ProcessInv' /\ Running /\ faulted \subseteq faulted'
<1> USE DEF Running, Local!Running, Local!Store, Local!Call, Local!Go, Local!At, Local!others,
            Local!Await, Local!EndProcess, Local!Return, Local!CheckFails,
            Local!ExitOn, Local!Fault, Local!CreateThread, Local!WorkerFails,
            Local!Fails, Local!OneAfterTheOther, Local!Work, Local!Pair,
            Local!Main, Main, Worker, Thread, ProcessInv, Label, Status, FaultKinds
<1>1. CASE Local!Dynamic(t)
  BY <1>1 DEF Local!Dynamic, Local!DynamicMain, Local!DynamicWorker
<1>2. CASE Local!Static(t)
  BY <1>2 DEF Local!Static, Local!StaticMain, Local!StaticWorker
<1> QED BY <1>1, <1>2

\* What a worker does with its variable.
LEMMA LocalWork ==
  ASSUME ProcessInv, LocalInv, NEW w \in Local!Pair,
         Local!DynamicWorker(w) \/ Local!StaticWorker(w)
  PROVE  LocalInv'
<1>0. /\ pc \in [Thread -> Label] /\ w \in Thread /\ Local!Pair \subseteq Thread
      /\ w # Main /\ Main \in Thread /\ w \in Local!Pair \cup {Main}
      /\ pc[w] \in {"begin", "find", "assign", "work", "free"} => pc[w] # "none"
      /\ LocalType /\ OwnInv /\ open
      /\ mem.own \in [Local!Pair \cup {Main} -> Int] /\ mem.own[w] \in Int
      /\ mem.steps \in [Local!Pair -> Nat] /\ mem.steps[w] \in Nat
      /\ mem.found \in [Local!Pair -> Int]
  BY DEF ProcessInv, Thread, Worker, Main, Local!Pair, LocalInv, LocalType
<1>1. Local!InitialValue \in Int /\ Local!Parameter[w] \in Int
  BY DEF Local!InitialValue, Local!Parameter, Local!Pair
<1>2. ASSUME NEW from \in Label \ {"none"}, NEW to \in Label \ {"none"}, Local!Go(w, from, to)
      PROVE  /\ pc[w] = from /\ pc'[w] = to
             /\ \A u \in Thread \ {w} : pc'[u] = pc[u]
             /\ pc'[Main] \in {"alloc", "create"} => pc'["A"] = "none"
             /\ pc'[Main] \in {"alloc", "create", "join", "createB"} => pc'["B"] = "none"
  <2>1. pc[w] = from /\ pc'[w] = to /\ \A u \in Thread \ {w} : pc'[u] = pc[u]
    BY <1>0, <1>2 DEF Local!Go, Local!At
  <2> QED BY <1>0, <2>1 DEF LocalInv, Local!Pair, Thread, Worker
<1>3. {"begin", "find", "assign", "work", "free", "done", "failed"} \subseteq Label \ {"none"}
  BY DEF Label
<1>4. CASE \/ Local!Go(w, "begin", "find") \/ Local!Go(w, "begin", "failed")
           \/ Local!Go(w, "free", "done")
  <2>1. CASE UNCHANGED <<mem, open>>
    <3>1. LocalType' /\ open' /\ OwnInv'
      BY <1>0, <1>2, <1>3, <1>4, <2>1 DEF LocalType, OwnInv
    <3> QED BY <1>2, <1>3, <1>4, <3>1 DEF LocalInv
  <2>2. ASSUME NEW b \in BOOLEAN, mem' = [mem EXCEPT !.allocated[w] = b], UNCHANGED open
        PROVE  LocalInv'
    <3>1. LocalType' /\ UNCHANGED <<mem.own, mem.found, mem.steps>>
      BY <1>0, <2>2 DEF LocalType
    <3>2. OwnInv'
      BY <1>0, <1>2, <1>3, <1>4, <3>1 DEF OwnInv
    <3> QED BY <1>0, <1>2, <1>3, <1>4, <2>2, <3>1, <3>2 DEF LocalInv
  <2>3. \/ UNCHANGED <<mem, open>>
        \/ \E b \in BOOLEAN : mem' = [mem EXCEPT !.allocated[w] = b] /\ UNCHANGED open
    BY <1>4 DEF Local!DynamicWorker, Local!StaticWorker, Local!Work, Local!WorkerFails,
       Local!Fails, Local!Store, Local!Call, Local!Go, Local!At, Local!others
  <2> QED BY <2>1, <2>2, <2>3
<1>5. CASE Local!Store(w, "find", [mem EXCEPT !.found[w] = mem.own[w]], "assign")
  <2>1. /\ LocalType' /\ mem'.found = [mem.found EXCEPT ![w] = mem.own[w]]
        /\ UNCHANGED <<mem.own, mem.steps, open>>
    BY <1>0, <1>5 DEF LocalType, Local!Store
  <2>2. Local!Go(w, "find", "assign")
    BY <1>5 DEF Local!Store
  <2>3. OwnInv'
    BY <1>0, <1>2, <1>3, <2>1, <2>2 DEF OwnInv
  <2> QED BY <1>0, <1>2, <1>3, <2>1, <2>2, <2>3 DEF LocalInv
<1>6. CASE Local!Store(w, "assign", [mem EXCEPT !.own[w] = Local!Parameter[w]], "work")
  <2>1. /\ LocalType' /\ mem'.own = [mem.own EXCEPT ![w] = Local!Parameter[w]]
        /\ UNCHANGED <<mem.found, mem.steps, open>>
    BY <1>0, <1>1, <1>6 DEF LocalType, Local!Store
  <2>2. Local!Go(w, "assign", "work")
    BY <1>6 DEF Local!Store
  <2>3. OwnInv'
    BY <1>0, <1>1, <1>2, <1>3, <2>1, <2>2 DEF OwnInv
  <2> QED BY <1>0, <1>2, <1>3, <2>1, <2>2, <2>3 DEF LocalInv
<1>7. CASE Local!Store(w, "work", [mem EXCEPT !.own[w] = @ + 10, !.steps[w] = @ + 1], "work")
  <2>1. PICK o \in [Local!Pair \cup {Main} -> Int] : o = [mem.own EXCEPT ![w] = @ + 10]
    <3>1. mem.own[w] + 10 \in Int
      BY <1>0
    <3>2. [mem.own EXCEPT ![w] = @ + 10] \in [Local!Pair \cup {Main} -> Int]
      BY <1>0, <3>1
    <3> QED BY <3>2
  <2>2. PICK s \in [Local!Pair -> Nat] : s = [mem.steps EXCEPT ![w] = @ + 1]
    <3>1. mem.steps[w] + 1 \in Nat
      BY <1>0
    <3>2. [mem.steps EXCEPT ![w] = @ + 1] \in [Local!Pair -> Nat]
      BY <1>0, <3>1
    <3> QED BY <3>2
  <2>3. mem' = [mem EXCEPT !.own = o, !.steps = s] /\ UNCHANGED open
    BY <1>7, <2>1, <2>2 DEF Local!Store
  <2>4. LocalType' /\ mem'.own = o /\ mem'.steps = s /\ UNCHANGED mem.found
    BY <1>0, <2>3 DEF LocalType
  <2>5. Local!Go(w, "work", "work")
    BY <1>7 DEF Local!Store
  <2>6. mem'.own[w] = mem.own[w] + 10 /\ mem'.steps[w] = mem.steps[w] + 1
        /\ \A u \in Local!Pair \ {w} : mem'.own[u] = mem.own[u] /\ mem'.steps[u] = mem.steps[u]
    BY <1>0, <2>1, <2>2, <2>4
  <2>7. OwnInv'
    <3>1. pc[w] = "work" /\ pc'[w] = "work" /\ \A u \in Local!Pair \ {w} : pc'[u] = pc[u]
      BY <1>0, <1>2, <1>3, <2>5
    <3>2. mem'.own[w] = Local!Parameter[w] + 10 * mem'.steps[w]
      BY <1>0, <1>1, <2>6, <3>1 DEF OwnInv
    <3> QED BY <1>0, <2>4, <2>6, <3>1, <3>2 DEF OwnInv
  <2> QED BY <1>0, <1>2, <1>3, <2>3, <2>4, <2>5, <2>7 DEF LocalInv
<1>8. CASE mem.steps[w] = Steps /\ Local!Call(w, "work", "free")
  <2>1. Local!Go(w, "work", "free") /\ UNCHANGED <<mem, open>>
    BY <1>8 DEF Local!Call, Local!others
  <2>2. LocalType' /\ OwnInv'
    BY <1>0, <1>2, <1>3, <1>8, <2>1 DEF LocalType, OwnInv
  <2> QED BY <1>0, <1>2, <1>3, <2>1, <2>2 DEF LocalInv
<1> QED BY <1>4, <1>5, <1>6, <1>7, <1>8 DEF Local!DynamicWorker, Local!StaticWorker,
        Local!Work, Local!WorkerFails, Local!Fails, Local!Store, Local!Call

\* main creates the second worker when the first has ended.
LEMMA LocalStep ==
  ASSUME ProcessInv, LocalInv, NEW t \in Thread, Local!Dynamic(t) \/ Local!Static(t)
  PROVE  LocalInv'
<1>0. /\ pc \in [Thread -> Label] /\ Main \in Thread /\ Local!Pair \subseteq Thread
      /\ Local!Main = Main /\ Main = "main" /\ Local!Pair = {"A", "B"}
  BY DEF ProcessInv, Thread, Worker, Main, Local!Pair, Local!Main
<1>1. CASE t \in Local!Pair /\ (Local!DynamicWorker(t) \/ Local!StaticWorker(t))
  BY <1>1, LocalWork
<1>2. ASSUME NEW w \in Local!Pair, NEW from, NEW to,
             Local!CreateThread(from, w, 0, to), pc[w] = "none",
             w = "A" => to = "join" /\ pc["B"] = "none", w = "B" => to = "joinB"
      PROVE  LocalInv'
  <2>1. /\ pc'[Main] = to /\ pc'[w] = "begin" /\ UNCHANGED <<mem, open>>
        /\ \A u \in Local!Pair \ {w} : pc'[u] = pc[u]
    BY <1>0, <1>2 DEF Local!CreateThread
  <2>2. LocalType' /\ OwnInv'
    BY <1>2, <2>1 DEF LocalInv, LocalType, OwnInv
  <2> QED BY <1>0, <1>2, <2>1, <2>2 DEF LocalInv
<1>3. ASSUME UNCHANGED open,
             pc[Main] \in {"alloc", "create"} <=> pc'[Main] \in {"alloc", "create"},
             pc[Main] \in {"alloc", "create", "join", "createB"} <=>
               pc'[Main] \in {"alloc", "create", "join", "createB"},
             \A u \in Local!Pair : pc'[u] = pc[u],
             UNCHANGED mem \/ \E b \in BOOLEAN : mem' = [mem EXCEPT !.index = b]
      PROVE  LocalInv'
  <2>1. LocalType' /\ UNCHANGED <<mem.own, mem.found, mem.steps>>
    BY <1>3 DEF LocalInv, LocalType
  <2>2. OwnInv'
    BY <1>3, <2>1 DEF LocalInv, OwnInv
  <2> QED BY <1>0, <1>3, <2>1, <2>2 DEF LocalInv
<1>4. CASE t = Main /\ Local!OneAfterTheOther("close")
  <2>1. CASE Local!CreateThread("create", "A", 0, "join")
    BY <1>0, <1>2, <2>1 DEF LocalInv, Local!CreateThread, Local!At
  <2>2. CASE Local!CreateThread("createB", "B", 0, "joinB")
    BY <1>0, <1>2, <2>2 DEF LocalInv, Local!CreateThread, Local!At
  <2>3. CASE \/ Local!Await(Main, "join", {"A"}, "createB")
             \/ Local!Await(Main, "joinB", {"B"}, "close")
             \/ Local!CheckFails(Main, {"alloc", "create", "createB"})
    BY <1>0, <1>3, <2>3 DEF Local!Await, Local!Call, Local!Go, Local!At, Local!others,
       Local!CheckFails, Local!ExitOn
  <2> QED BY <1>0, <1>4, <2>1, <2>2, <2>3 DEF Local!OneAfterTheOther
<1>5. CASE t = Main /\ Local!OneAfterTheOther("verdict")
  <2>1. CASE Local!CreateThread("create", "A", 0, "join")
    BY <1>0, <1>2, <2>1 DEF LocalInv, Local!CreateThread, Local!At
  <2>2. CASE Local!CreateThread("createB", "B", 0, "joinB")
    BY <1>0, <1>2, <2>2 DEF LocalInv, Local!CreateThread, Local!At
  <2>3. CASE \/ Local!Await(Main, "join", {"A"}, "createB")
             \/ Local!Await(Main, "joinB", {"B"}, "verdict")
             \/ Local!CheckFails(Main, {"alloc", "create", "createB"})
    BY <1>0, <1>3, <2>3 DEF Local!Await, Local!Call, Local!Go, Local!At, Local!others,
       Local!CheckFails, Local!ExitOn
  <2> QED BY <1>0, <1>5, <2>1, <2>2, <2>3 DEF Local!OneAfterTheOther
<1>6. CASE \/ Local!Store(Main, "alloc", [mem EXCEPT !.index = TRUE], "create")
           \/ Local!Store(Main, "close", [mem EXCEPT !.index = FALSE], "verdict")
           \/ Local!Return("verdict", TRUE) \/ Local!Call(Main, "alloc", "create")
  BY <1>0, <1>3, <1>6 DEF Local!Store, Local!Return, Local!EndProcess, Local!Call,
     Local!Go, Local!At, Local!others
<1> QED BY <1>0, <1>1, <1>4, <1>5, <1>6 DEF Local!Dynamic, Local!Static,
        Local!DynamicMain, Local!StaticMain
-----------------------------------------------------------------------------
(* The scan by hashes *)

\* Every set of numbers that has an element has a least one.
LEMMA LeastNat ==
  ASSUME NEW T, T \subseteq Nat, T # {}
  PROVE  \E x \in T : \A y \in T : x <= y
<1>1. PICK R : R = OpToRel(<, Nat)
  OBVIOUS
<1>2. IsWellFoundedOn(R, Nat)
  BY <1>1, NatLessThanWellFounded
<1>3. \A x, y \in Nat : x < y => <<x, y>> \in R
  BY <1>1 DEF OpToRel
<1>4. PICK x \in T : \A y \in T : ~(<<y, x>> \in R)
  BY <1>2, WFMin
<1>5. ASSUME NEW y \in T PROVE x <= y
  <2>1. ~(<<y, x>> \in R) /\ x \in Nat /\ y \in Nat
    BY <1>4
  <2>2. ~(y < x)
    BY <2>1, <1>3
  <2> QED BY <2>1, <2>2
<1> QED BY <1>5

\* A walk that goes on from each of its slots comes by all of them.
LEMMA WholeTable ==
  ASSUME NEW P \in SUBSET Table!Slot, P # {}, \A i \in P : Table!Advance(i) \in P
  PROVE  P = Table!Slot
<1> DEFINE N == HASH_TABLE_SIZE
<1>0. N \in Nat \ {0} /\ Table!Slot = 0..N-1 /\ P \subseteq 0..N-1
  BY ExercisesAssumption DEF Table!ValidInputs, Table!Slot
<1>1. ASSUME NEW i \in P PROVE IF i = N - 1 THEN 0 \in P ELSE i + 1 \in P
  <2>1. (i + 1) % N = IF i = N - 1 THEN 0 ELSE i + 1
    BY <1>0
  <2> QED BY <1>1, <2>1 DEF Table!Advance
<1>2. ASSUME NEW x \in P, NEW y \in x..N-1 PROVE y \in P
  <2> SUFFICES ASSUME y \notin P PROVE FALSE
    OBVIOUS
  <2> DEFINE T == {z \in x..N-1 : z \notin P}
  <2>1. T \subseteq Nat /\ T # {}
    BY <1>0, <1>2
  <2>2. PICK z \in T : \A u \in T : z <= u
    BY <2>1, LeastNat
  <2>3. z # x /\ z - 1 \in x..N-1 /\ z - 1 \notin T /\ z - 1 # N - 1
    BY <1>0, <1>2, <2>2
  <2>4. z - 1 \in P /\ (z - 1) + 1 = z
    BY <1>0, <2>2, <2>3
  <2> QED BY <1>1, <2>2, <2>3, <2>4
<1>3. PICK x \in P : TRUE
  OBVIOUS
<1>4. N - 1 \in P
  BY <1>0, <1>2, <1>3
<1>5. 0 \in P
  BY <1>1, <1>4
<1> QED BY <1>0, <1>2, <1>5

\* The walk for a hash from its home slot to a slot: those it has come by.
Walk(hash, to, passed) ==
  /\ Table!HashFunction(hash) \in passed \cup {to}
  /\ \A i \in passed : Table!Advance(i) \in passed \cup {to}

\* The walk for a hash has found it in no slot, and none of them vacant.
Walking(hash) ==
  \E passed \in SUBSET Table!Slot :
    /\ Walk(hash, mem.index, passed)
    /\ \A i \in passed : mem.table[i] \notin {Table!EmptySlot, hash}

\* A hash is in a slot that the walk for it reaches.
Stored(hash) ==
  \E s \in Table!Slot, passed \in SUBSET Table!Slot :
    /\ Walk(hash, s, passed) /\ mem.table[s] = hash
    /\ \A i \in passed : mem.table[i] # Table!EmptySlot

\* The memory of the scan.
ScanType ==
  mem \in [table : [Table!Slot -> Nat], targets : Seq(Table!TargetHash),
           files : Seq(Nat), next : Nat \ {0}, index : Table!Slot,
           total : Nat, matching : Nat]

\* The targets before n are what the table holds, and each can be found.
TableInv(n) ==
  /\ \A i \in Table!Slot : mem.table[i] # Table!EmptySlot =>
       \E j \in 1..n : mem.table[i] = mem.targets[j]
  /\ \A j \in 1..n : Stored(mem.targets[j])

\* The first n files that are of a target.
Matching(n) ==
  {i \in 1..n : \E j \in DOMAIN mem.targets : mem.files[i] = mem.targets[j]}

ScanInv ==
  /\ ScanType /\ open /\ pc[Main] \in {"create", "probe", "scan", "walk"}
  /\ pc[Main] \in {"create", "probe"} =>
       /\ mem.next <= Len(mem.targets) + 1 /\ TableInv(mem.next - 1)
       /\ mem.total = 0 /\ mem.matching = 0
  /\ pc[Main] = "probe" => mem.next <= Len(mem.targets) /\ Walking(mem.targets[mem.next])
  /\ pc[Main] \in {"scan", "walk"} =>
       /\ mem.next <= Len(mem.files) + 1 /\ TableInv(Len(mem.targets))
       /\ mem.total = IF pc[Main] = "scan" THEN mem.next - 1 ELSE mem.next
       /\ mem.matching = Cardinality(Matching(mem.next - 1))
  /\ pc[Main] = "walk" =>
       /\ mem.next <= Len(mem.files) /\ mem.files[mem.next] # Table!EmptySlot
       /\ Walking(mem.files[mem.next])

\* A walk that comes to a vacant slot has shown that the hash is not stored.
LEMMA NotStored ==
  ASSUME ScanType, NEW hash \in Nat, Walking(hash), hash # Table!EmptySlot,
         mem.table[mem.index] = Table!EmptySlot
  PROVE  ~Stored(hash)
<1> SUFFICES ASSUME Stored(hash) PROVE FALSE
  OBVIOUS
<1>1. PICK P \in SUBSET Table!Slot :
        Walk(hash, mem.index, P) /\ \A i \in P : mem.table[i] \notin {Table!EmptySlot, hash}
  BY DEF Walking
<1>2. PICK s \in Table!Slot, Q \in SUBSET Table!Slot :
        /\ Walk(hash, s, Q) /\ mem.table[s] = hash
        /\ \A i \in Q : mem.table[i] # Table!EmptySlot
  BY DEF Stored
<1>3. s \notin P /\ mem.index \notin Q \cup {s} /\ mem.index \in Table!Slot
  BY <1>1, <1>2 DEF ScanType
<1>4. Table!HashFunction(hash) \in P \cap Q
  BY <1>1, <1>2, <1>3 DEF Walk
<1>5. \A i \in P \cap Q : Table!Advance(i) \in P \cap Q
  BY <1>1, <1>2, <1>3 DEF Walk
<1>6. P \cap Q = Table!Slot
  BY <1>4, <1>5, WholeTable
<1> QED BY <1>3, <1>6

\* The walk goes on, past a slot with another hash.
LEMMA WalkOn ==
  ASSUME ScanType, NEW hash \in Nat, Walking(hash),
         mem.table[mem.index] \notin {Table!EmptySlot, hash},
         mem' = [mem EXCEPT !.index = Table!Advance(mem.index)]
  PROVE  /\ ScanType' /\ Walking(hash)'
         /\ UNCHANGED <<mem.table, mem.targets, mem.files, mem.next, mem.total, mem.matching>>
<1>0. PICK k \in Table!Slot : k = mem.index
  BY DEF ScanType
<1>1. Table!Advance(k) \in Table!Slot
  BY <1>0, ExercisesAssumption DEF Table!ValidInputs, Table!Slot, Table!Advance
<1>2. /\ ScanType' /\ mem'.index = Table!Advance(k)
      /\ UNCHANGED <<mem.table, mem.targets, mem.files, mem.next, mem.total, mem.matching>>
  BY <1>0, <1>1 DEF ScanType
<1>3. PICK P \in SUBSET Table!Slot :
        Walk(hash, k, P) /\ \A i \in P : mem.table[i] \notin {Table!EmptySlot, hash}
  BY <1>0 DEF Walking
<1>4. Walk(hash, mem'.index, P \cup {k}) /\ P \cup {k} \in SUBSET Table!Slot
  BY <1>2, <1>3 DEF Walk
<1>5. \A i \in P \cup {k} : mem'.table[i] \notin {Table!EmptySlot, hash}
  BY <1>0, <1>2, <1>3
<1>6. Walking(hash)'
  BY <1>4, <1>5 DEF Walking, Walk
<1> QED BY <1>2, <1>6

\* The walk begins at the home slot.
LEMMA WalkStarts ==
  ASSUME NEW hash \in Nat, mem'.index = Table!HashFunction(hash)
  PROVE  Walking(hash)' /\ Table!HashFunction(hash) \in Table!Slot
<1>1. Table!HashFunction(hash) \in Table!Slot
  BY ExercisesAssumption DEF Table!ValidInputs, Table!Slot, Table!HashFunction
<1>2. Walk(hash, mem'.index, {})
  BY DEF Walk
<1>3. Walking(hash)'
  <2>1. {} \in SUBSET Table!Slot
    OBVIOUS
  <2> QED BY <1>2, <2>1 DEF Walking, Walk
<1> QED BY <1>1, <1>3

\* A step of the scan leaves the rest of the process alone.
LEMMA TableProcess ==
  ASSUME ProcessInv, UNCHANGED program, NEW t \in Thread, Table!HashScan(t)
  PROVE  ProcessInv' /\ Running /\ faulted \subseteq faulted'
BY DEF Running, Table!Running, Table!HashScan, Table!Insert, Table!NextFile, Table!IsHashInHashTable,
       Table!Store, Table!Go, Table!At, Table!EndProcess, Table!Return,
       Table!CheckFails, Table!ExitOn, Table!Fault, Table!Main, Main, Thread,
       ProcessInv, Label, Status, FaultKinds
\* A hash is put into the vacant slot that the walk for it has come to; those
\* that are stored can still be found.
LEMMA InsertStep ==
  ASSUME ScanType, NEW hash, NEW next \in Nat \ {0}, next <= Len(mem.targets),
         hash = mem.targets[next], Walking(hash), TableInv(next - 1),
         mem.table[mem.index] = Table!EmptySlot,
         mem' = [mem EXCEPT !.table[mem.index] = hash, !.next = next + 1]
  PROVE  /\ ScanType' /\ TableInv(next)' /\ mem'.next = next + 1
         /\ UNCHANGED <<mem.targets, mem.files, mem.index, mem.total, mem.matching>>
<1>0. PICK k \in Table!Slot : k = mem.index
  BY DEF ScanType
<1>1. hash \in Table!TargetHash /\ hash \in Nat /\ hash # Table!EmptySlot
  BY DEF ScanType, Table!TargetHash, Table!FileHash
<1>2. PICK table \in [Table!Slot -> Nat] : table = [mem.table EXCEPT ![k] = hash]
  BY <1>1 DEF ScanType
<1>3. next + 1 \in Nat \ {0}
  OBVIOUS
<1>4. mem' = [mem EXCEPT !.table = table, !.next = next + 1]
  BY <1>0, <1>2
<1>5. /\ ScanType' /\ mem'.table = table /\ mem'.next = next + 1
      /\ UNCHANGED <<mem.targets, mem.files, mem.index, mem.total, mem.matching>>
  BY <1>3, <1>4 DEF ScanType
<1>6. mem.table \in [Table!Slot -> Nat] /\ table[k] = hash
      /\ \A i \in Table!Slot \ {k} : table[i] = mem.table[i]
  BY <1>2 DEF ScanType
<1>7. \A i \in Table!Slot : mem'.table[i] # Table!EmptySlot =>
        \E j \in 1..next : mem'.table[i] = mem'.targets[j]
  <2> SUFFICES ASSUME NEW i \in Table!Slot, table[i] # Table!EmptySlot
               PROVE  \E j \in 1..next : table[i] = mem.targets[j]
    BY <1>5
  <2>1. CASE i = k
    BY <1>6, <2>1
  <2>2. CASE i # k
    <3>1. PICK j \in 1..next - 1 : mem.table[i] = mem.targets[j]
      BY <1>6, <2>2 DEF TableInv
    <3>2. j \in 1..next
      OBVIOUS
    <3> QED BY <1>6, <2>2, <3>1, <3>2
  <2> QED BY <2>1, <2>2
<1>8. ASSUME NEW h \in Nat, h # Table!EmptySlot, Stored(h) \/ h = hash
      PROVE  Stored(h)'
  <2>1. CASE Stored(h)
    <3>1. PICK s \in Table!Slot, Q \in SUBSET Table!Slot :
            /\ Walk(h, s, Q) /\ mem.table[s] = h
            /\ \A i \in Q : mem.table[i] # Table!EmptySlot
      BY <2>1 DEF Stored
    <3>2. s # k /\ mem'.table[s] = h
      BY <1>0, <1>5, <1>6, <1>8, <3>1
    <3>3. \A i \in Q : mem'.table[i] # Table!EmptySlot
      BY <1>0, <1>5, <1>6, <3>1
    <3> QED BY <3>1, <3>2, <3>3 DEF Stored, Walk
  <2>2. CASE h = hash
    <3>1. PICK P \in SUBSET Table!Slot :
            Walk(hash, k, P) /\ \A i \in P : mem.table[i] \notin {Table!EmptySlot, hash}
      BY <1>0 DEF Walking
    <3>2. \A i \in P : mem'.table[i] # Table!EmptySlot
      BY <1>1, <1>5, <1>6, <3>1
    <3>3. mem'.table[k] = hash
      BY <1>5, <1>6
    <3> QED BY <2>2, <3>1, <3>2, <3>3 DEF Stored, Walk
  <2> QED BY <1>8, <2>1, <2>2
<1>9. \A j \in 1..next : Stored(mem.targets[j])'
  <2> TAKE j \in 1..next
  <2>0. mem.targets[j] \in Nat /\ mem.targets[j] # Table!EmptySlot
    BY DEF ScanType, Table!TargetHash, Table!FileHash
  <2>1. Stored(mem.targets[j]) \/ mem.targets[j] = hash
    BY DEF TableInv
  <2>2. PICK h \in Nat : h = mem.targets[j] /\ h = mem'.targets[j]
    BY <1>5, <2>0
  <2>3. Stored(h)'
    BY <1>8, <2>0, <2>1, <2>2
  <2> QED BY <2>2, <2>3 DEF Stored
<1> QED BY <1>5, <1>7, <1>9 DEF TableInv
\* One more file has been compared with the targets.
LEMMA OneMoreFile ==
  ASSUME ScanType, NEW n \in Nat, n <= Len(mem.files), n # 0
  PROVE  /\ Cardinality(Matching(n - 1)) \in Nat
         /\ Cardinality(Matching(n)) =
              Cardinality(Matching(n - 1)) +
                IF \E j \in DOMAIN mem.targets : mem.files[n] = mem.targets[j] THEN 1 ELSE 0
<1>1. IsFiniteSet(Matching(n - 1)) /\ n \notin Matching(n - 1)
  <2>1. IsFiniteSet(1..n - 1) /\ Matching(n - 1) \in SUBSET (1..n - 1)
    BY FS_Interval DEF Matching
  <2> QED BY <2>1, FS_Subset
<1>2. Cardinality(Matching(n - 1)) \in Nat
  BY <1>1, FS_CardinalityType
<1>3. Matching(n) = Matching(n - 1) \cup
        IF \E j \in DOMAIN mem.targets : mem.files[n] = mem.targets[j] THEN {n} ELSE {}
  <2>1. 1..n = (1..n - 1) \cup {n}
    OBVIOUS
  <2> QED BY <2>1 DEF Matching
<1>4. CASE \E j \in DOMAIN mem.targets : mem.files[n] = mem.targets[j]
  <2>1. Matching(n) = Matching(n - 1) \cup {n}
    BY <1>3, <1>4
  <2>2. Cardinality(Matching(n)) = Cardinality(Matching(n - 1)) + 1
    BY <1>1, <2>1, FS_AddElement
  <2> QED BY <1>2, <1>4, <2>2
<1>5. CASE ~ \E j \in DOMAIN mem.targets : mem.files[n] = mem.targets[j]
  <2>1. Matching(n) = Matching(n - 1)
    BY <1>3, <1>5
  <2> QED BY <1>2, <1>5, <2>1
<1> QED BY <1>4, <1>5

\* The table is left alone.
LEMMA TableStays ==
  ASSUME UNCHANGED <<mem.table, mem.targets, mem.files>>, NEW n, NEW m
  PROVE  /\ TableInv(n) => TableInv(n)'
         /\ Matching(m)' = Matching(m)
BY DEF TableInv, Stored, Matching

\* A step that changes nothing of it.
LEMMA ScanStays ==
  ASSUME ScanInv, UNCHANGED <<mem, open, pc>>
  PROVE  ScanInv'
<1>1. ScanType' /\ open' /\ pc'[Main] \in {"create", "probe", "scan", "walk"}
  BY DEF ScanInv, ScanType
<1>2. pc'[Main] \in {"create", "probe"} =>
        /\ mem'.next <= Len(mem'.targets) + 1 /\ TableInv(mem.next - 1)'
        /\ mem'.total = 0 /\ mem'.matching = 0
  BY DEF ScanInv, TableInv, Stored
<1>3. pc'[Main] = "probe" =>
        mem'.next <= Len(mem'.targets) /\ Walking(mem.targets[mem.next])'
  BY DEF ScanInv, Walking
<1>4. pc'[Main] \in {"scan", "walk"} =>
        /\ mem'.next <= Len(mem'.files) + 1 /\ TableInv(Len(mem.targets))'
        /\ mem'.total = IF pc'[Main] = "scan" THEN mem'.next - 1 ELSE mem'.next
        /\ mem'.matching = Cardinality(Matching(mem.next - 1)')
  BY DEF ScanInv, TableInv, Stored, Matching
<1>5. pc'[Main] = "walk" =>
        /\ mem'.next <= Len(mem'.files) /\ mem'.files[mem'.next] # Table!EmptySlot
        /\ Walking(mem.files[mem.next])'
  BY DEF ScanInv, Walking
<1> QED BY <1>1, <1>2, <1>3, <1>4, <1>5 DEF ScanInv

\* The targets are put into the table, or one of them is there twice.
LEMMA InsertingStep ==
  ASSUME ProcessInv, ScanInv, Table!Insert
  PROVE  /\ ScanInv'
         /\ exit' # exit =>
              \E i, j \in DOMAIN mem.targets : i # j /\ mem.targets[i] = mem.targets[j]
<1>0. PICK next \in Nat \ {0} : next = mem.next
  BY DEF ScanInv, ScanType
<1>1. PICK hash \in Table!TargetHash : hash = mem.targets[next]
  BY <1>0 DEF Table!Insert, ScanInv, ScanType
<1>2. hash \in Nat /\ hash # Table!EmptySlot /\ ScanType /\ next <= Len(mem.targets)
      /\ Main \in Thread /\ Table!Main = Main /\ pc \in [Thread -> Label]
  BY <1>0, <1>1 DEF Table!TargetHash, Table!FileHash, ScanInv, Table!Insert,
     Thread, Table!Main, Main, ProcessInv
<1>3. CASE Table!Store(Main, "create", [mem EXCEPT !.index = Table!HashFunction(hash)], "probe")
  <2>1. pc[Main] = "create" /\ pc'[Main] = "probe" /\ UNCHANGED <<open, exit>>
        /\ mem' = [mem EXCEPT !.index = Table!HashFunction(hash)]
    BY <1>2, <1>3 DEF Table!Store, Table!Go, Table!At
  <2>2. mem'.index = Table!HashFunction(hash)
    BY <1>2, <2>1 DEF ScanType
  <2>3. Walking(hash)' /\ Table!HashFunction(hash) \in Table!Slot
    BY <1>2, <2>2, WalkStarts
  <2>4. ScanType'
        /\ UNCHANGED <<mem.table, mem.targets, mem.files, mem.next, mem.total, mem.matching>>
    BY <1>2, <2>1, <2>3 DEF ScanType
  <2>5. TableInv(next - 1)'
    BY <1>0, <2>1, <2>4, TableStays DEF ScanInv
  <2>6. hash = mem'.targets[mem'.next] /\ next - 1 = mem'.next - 1
    BY <1>0, <1>1, <2>4
  <2>7. TableInv(mem.next - 1)' /\ Walking(mem.targets[mem.next])'
    BY <2>3, <2>5, <2>6 DEF TableInv, Stored, Walking
  <2>8. mem'.next <= Len(mem'.targets) /\ mem'.next <= Len(mem'.targets) + 1
        /\ mem'.total = 0 /\ mem'.matching = 0
    BY <1>0, <1>2, <2>1, <2>4 DEF ScanInv, ScanType
  <2>9. ScanType' /\ open' /\ pc'[Main] = "probe"
    BY <2>1, <2>4 DEF ScanInv
  <2> QED BY <2>1, <2>7, <2>8, <2>9 DEF ScanInv
<1>4. CASE /\ Table!Current \notin {Table!EmptySlot, hash}
           /\ Table!Store(Main, "probe", [mem EXCEPT !.index = Table!Advance(@)], "probe")
  <2>1. pc[Main] = "probe" /\ pc'[Main] = "probe" /\ UNCHANGED <<open, exit>>
        /\ mem' = [mem EXCEPT !.index = Table!Advance(mem.index)]
    BY <1>2, <1>4 DEF Table!Store, Table!Go, Table!At
  <2>2. Walking(hash) /\ TableInv(next - 1)
    BY <1>0, <1>1, <2>1 DEF ScanInv
  <2>3. /\ ScanType' /\ Walking(hash)'
        /\ UNCHANGED <<mem.table, mem.targets, mem.files, mem.next, mem.total, mem.matching>>
    BY <1>2, <1>4, <2>1, <2>2, WalkOn DEF Table!Current
  <2>4. TableInv(next - 1)'
    BY <2>2, <2>3, TableStays
  <2>5. hash = mem'.targets[mem'.next] /\ next - 1 = mem'.next - 1
    BY <1>0, <1>1, <2>3
  <2>6. TableInv(mem.next - 1)' /\ Walking(mem.targets[mem.next])'
    BY <2>3, <2>4, <2>5 DEF TableInv, Stored, Walking
  <2>7. mem'.next <= Len(mem'.targets) /\ mem'.next <= Len(mem'.targets) + 1
        /\ mem'.total = 0 /\ mem'.matching = 0
    BY <1>0, <1>2, <2>1, <2>3 DEF ScanInv, ScanType
  <2>8. ScanType' /\ open' /\ pc'[Main] \in {"create", "probe", "scan", "walk"}
    BY <2>1, <2>3 DEF ScanInv
  <2> QED BY <2>1, <2>6, <2>7, <2>8 DEF ScanInv
<1>5. CASE Table!Current = hash /\ Table!EndProcess(Main, "probe", "failed")
  <2>1. pc[Main] = "probe" /\ UNCHANGED <<pc, open, mem>> /\ exit' = "failed"
        /\ mem.table[mem.index] = hash
    BY <1>2, <1>5 DEF Table!EndProcess, Table!At, Table!Current
  <2>2. PICK j \in 1..next - 1 : mem.targets[j] = hash
    BY <1>0, <1>2, <2>1 DEF ScanInv, ScanType, TableInv
  <2>3. j \in DOMAIN mem.targets /\ next \in DOMAIN mem.targets /\ j # next
    BY <1>2 DEF ScanType
  <2>4. ScanInv'
    BY <2>1, ScanStays
  <2> QED BY <1>1, <2>1, <2>2, <2>3, <2>4
<1>6. CASE /\ Table!Current = Table!EmptySlot
           /\ Table!Store(Main, "probe", [mem EXCEPT !.table[mem.index] = hash,
                                                     !.next = @ + 1], "create")
  <2>1. pc[Main] = "probe" /\ pc'[Main] = "create" /\ UNCHANGED <<open, exit>>
        /\ mem' = [mem EXCEPT !.table[mem.index] = hash, !.next = next + 1]
    BY <1>0, <1>2, <1>6 DEF Table!Store, Table!Go, Table!At
  <2>2. Walking(hash) /\ TableInv(next - 1)
    BY <1>0, <1>1, <2>1 DEF ScanInv
  <2>3. /\ ScanType' /\ TableInv(next)' /\ mem'.next = next + 1
        /\ UNCHANGED <<mem.targets, mem.files, mem.index, mem.total, mem.matching>>
    BY <1>1, <1>2, <1>6, <2>1, <2>2, InsertStep DEF Table!Current
  <2>4. TableInv(mem.next - 1)'
    <3>1. next = mem'.next - 1
      BY <2>3
    <3> QED BY <2>3, <3>1 DEF TableInv, Stored
  <2>5. mem'.next <= Len(mem'.targets) + 1 /\ mem'.total = 0 /\ mem'.matching = 0
    BY <1>0, <1>2, <2>1, <2>3 DEF ScanInv, ScanType
  <2>6. ScanType' /\ open' /\ pc'[Main] \in {"create", "probe", "scan", "walk"}
    BY <2>1, <2>3 DEF ScanInv
  <2> QED BY <2>1, <2>4, <2>5, <2>6 DEF ScanInv
<1> QED BY <1>0, <1>1, <1>3, <1>4, <1>5, <1>6 DEF Table!Insert, Table!Main, Main
\* A file has been counted, among the matching ones exactly if it is of a target.
LEMMA FileDone ==
  ASSUME ScanInv, NEW total \in Nat, NEW matching \in Nat, mem.next <= Len(mem.files),
         pc[Main] \in {"scan", "walk"}, pc'[Main] = "scan", open', total = mem.next,
         mem' = [mem EXCEPT !.total = total, !.matching = matching, !.next = mem.next + 1],
         matching = mem.matching +
           IF \E j \in DOMAIN mem.targets : mem.files[mem.next] = mem.targets[j] THEN 1 ELSE 0
  PROVE  ScanInv'
<1>0. PICK next \in Nat \ {0} : next = mem.next
  BY DEF ScanInv, ScanType
<1>1. ScanType /\ next + 1 \in Nat \ {0} /\ TableInv(Len(mem.targets))
      /\ mem.matching = Cardinality(Matching(next - 1)) /\ Len(mem.files) \in Nat
  BY <1>0 DEF ScanInv, ScanType
<1>2. ScanType' /\ mem'.next = next + 1 /\ mem'.total = next /\ mem'.matching = matching
      /\ UNCHANGED <<mem.table, mem.targets, mem.files, mem.index>>
  BY <1>0, <1>1 DEF ScanType
<1>3. TableInv(Len(mem.targets))'
  <2>1. PICK n : n = Len(mem.targets) /\ n = Len(mem'.targets)
    BY <1>2
  <2>2. TableInv(n)'
    BY <1>1, <1>2, <2>1, TableStays
  <2> QED BY <2>1, <2>2 DEF TableInv, Stored
<1>4. matching = Cardinality(Matching(next))
  BY <1>0, <1>1, OneMoreFile
<1>5. Matching(next)' = Matching(next)
  BY <1>2, TableStays
<1>6. mem'.matching = Cardinality(Matching(mem.next - 1)')
  <2>1. next = mem'.next - 1
    BY <1>0, <1>2
  <2> QED BY <1>2, <1>4, <1>5, <2>1 DEF Matching
<1>7. mem'.next <= Len(mem'.files) + 1 /\ mem'.total = mem'.next - 1
  BY <1>0, <1>1, <1>2
<1> QED BY <1>2, <1>3, <1>6, <1>7 DEF ScanInv

\* The files are looked up, and those are counted that are of a target.
LEMMA LookingStep ==
  ASSUME ProcessInv, ScanInv, Table!NextFile \/ Table!IsHashInHashTable
  PROVE  ScanInv'
<1>0. PICK next \in Nat \ {0} : next = mem.next
  BY DEF ScanInv, ScanType
<1>1. PICK hash \in Nat : hash = mem.files[next]
  BY <1>0 DEF Table!NextFile, Table!IsHashInHashTable, ScanInv, ScanType
<1>2. /\ ScanType /\ next <= Len(mem.files) /\ Main \in Thread /\ Table!Main = Main
      /\ pc \in [Thread -> Label] /\ next + 1 \in Nat /\ mem.total \in Nat
      /\ mem.total + 1 \in Nat /\ mem.matching \in Nat /\ mem.matching + 1 \in Nat
  BY <1>0 DEF ScanInv, ScanType, Table!NextFile, Table!IsHashInHashTable,
     Thread, Table!Main, Main, ProcessInv
<1>3. ASSUME NEW j \in DOMAIN mem.targets
      PROVE  j \in 1..Len(mem.targets) /\ mem.targets[j] # Table!EmptySlot
  BY <1>2 DEF ScanType, Table!TargetHash, Table!FileHash
<1>4. CASE /\ hash = Table!EmptySlot
           /\ Table!Store(Main, "scan", [mem EXCEPT !.total = @ + 1, !.next = @ + 1], "scan")
  <2>1. pc[Main] = "scan" /\ pc'[Main] = "scan" /\ UNCHANGED <<open, exit>>
        /\ mem' = [mem EXCEPT !.total = @ + 1, !.next = @ + 1]
    BY <1>2, <1>4 DEF Table!Store, Table!Go, Table!At
  <2>2. PICK total \in Nat : total = mem.total + 1
    BY <1>2
  <2>3. PICK matching \in Nat : matching = mem.matching
    BY <1>2
  <2>4. mem' = [mem EXCEPT !.total = total, !.matching = matching, !.next = mem.next + 1]
    BY <1>2, <2>1, <2>2, <2>3 DEF ScanType
  <2>5. total = mem.next /\ open'
    BY <1>0, <2>1, <2>2 DEF ScanInv
  <2>6. ~ \E j \in DOMAIN mem.targets : mem.files[mem.next] = mem.targets[j]
    BY <1>0, <1>1, <1>3, <1>4
  <2>7. matching = mem.matching +
          IF \E j \in DOMAIN mem.targets : mem.files[mem.next] = mem.targets[j] THEN 1 ELSE 0
    BY <1>2, <2>3, <2>6
  <2> QED BY <1>0, <1>2, <2>1, <2>4, <2>5, <2>7, FileDone
<1>5. CASE /\ hash # Table!EmptySlot
           /\ Table!Store(Main, "scan", [mem EXCEPT !.total = @ + 1,
                                                    !.index = Table!HashFunction(hash)], "walk")
  <2>1. pc[Main] = "scan" /\ pc'[Main] = "walk" /\ UNCHANGED <<open, exit>>
        /\ mem' = [mem EXCEPT !.total = @ + 1, !.index = Table!HashFunction(hash)]
    BY <1>2, <1>5 DEF Table!Store, Table!Go, Table!At
  <2>2. PICK total \in Nat : total = mem.total + 1
    BY <1>2
  <2>3. mem' = [mem EXCEPT !.total = total, !.index = Table!HashFunction(hash)]
    BY <2>1, <2>2
  <2>4. mem'.index = Table!HashFunction(hash)
    BY <1>2, <2>3 DEF ScanType
  <2>5. Walking(hash)' /\ Table!HashFunction(hash) \in Table!Slot
    BY <2>4, WalkStarts
  <2>6. ScanType' /\ mem'.total = total
        /\ UNCHANGED <<mem.table, mem.targets, mem.files, mem.next, mem.matching>>
    BY <1>2, <2>3, <2>5 DEF ScanType
  <2>7. TableInv(Len(mem.targets))' /\ UNCHANGED Matching(mem.next - 1)
    BY <2>1, <2>6, TableStays DEF ScanInv, TableInv, Stored, Matching
  <2>8. hash = mem'.files[mem'.next]
    BY <1>0, <1>1, <2>6
  <2>9. Walking(mem.files[mem.next])' /\ mem'.files[mem'.next] # Table!EmptySlot
    BY <1>5, <2>5, <2>8 DEF Walking
  <2>10. mem'.next <= Len(mem'.files) /\ mem'.next <= Len(mem'.files) + 1
         /\ mem'.total = mem'.next
    <3>1. Len(mem.files) \in Nat /\ mem.total = next - 1
      BY <1>0, <1>2, <2>1 DEF ScanInv, ScanType
    <3> QED BY <1>0, <1>2, <2>2, <2>6, <3>1
  <2>11. mem'.matching = Cardinality(Matching(mem.next - 1)')
    BY <2>1, <2>6, <2>7 DEF ScanInv
  <2>12. ScanType' /\ open' /\ pc'[Main] = "walk"
    BY <2>1, <2>6 DEF ScanInv
  <2> QED BY <2>7, <2>9, <2>10, <2>11, <2>12 DEF ScanInv
<1>6. CASE /\ Table!Current = hash
           /\ Table!Store(Main, "walk", [mem EXCEPT !.matching = @ + 1, !.next = @ + 1], "scan")
  <2>1. pc[Main] = "walk" /\ pc'[Main] = "scan" /\ UNCHANGED <<open, exit>>
        /\ mem' = [mem EXCEPT !.matching = @ + 1, !.next = @ + 1]
        /\ mem.table[mem.index] = hash
    BY <1>2, <1>6 DEF Table!Store, Table!Go, Table!At, Table!Current
  <2>2. PICK total \in Nat : total = mem.total
    BY <1>2
  <2>3. PICK matching \in Nat : matching = mem.matching + 1
    BY <1>2
  <2>4. mem' = [mem EXCEPT !.total = total, !.matching = matching, !.next = mem.next + 1]
    BY <1>2, <2>1, <2>2, <2>3 DEF ScanType
  <2>5. total = mem.next /\ open'
    BY <1>0, <2>1, <2>2 DEF ScanInv
  <2>6. \E j \in DOMAIN mem.targets : mem.files[mem.next] = mem.targets[j]
    <3>1. mem.index \in Table!Slot /\ hash # Table!EmptySlot /\ TableInv(Len(mem.targets))
      BY <1>0, <1>1, <1>2, <2>1 DEF ScanInv, ScanType
    <3>2. \E j \in 1..Len(mem.targets) : hash = mem.targets[j]
      BY <2>1, <3>1 DEF TableInv
    <3> QED BY <1>0, <1>1, <1>2, <3>2 DEF ScanType
  <2>7. matching = mem.matching +
          IF \E j \in DOMAIN mem.targets : mem.files[mem.next] = mem.targets[j] THEN 1 ELSE 0
    BY <1>2, <2>3, <2>6
  <2> QED BY <1>0, <1>2, <2>1, <2>4, <2>5, <2>7, FileDone
<1>7. CASE /\ Table!Current = Table!EmptySlot
           /\ Table!Store(Main, "walk", [mem EXCEPT !.next = @ + 1], "scan")
  <2>1. pc[Main] = "walk" /\ pc'[Main] = "scan" /\ UNCHANGED <<open, exit>>
        /\ mem' = [mem EXCEPT !.next = @ + 1]
        /\ mem.table[mem.index] = Table!EmptySlot
    BY <1>2, <1>7 DEF Table!Store, Table!Go, Table!At, Table!Current
  <2>2. PICK total \in Nat : total = mem.total
    BY <1>2
  <2>3. PICK matching \in Nat : matching = mem.matching
    BY <1>2
  <2>4. mem' = [mem EXCEPT !.total = total, !.matching = matching, !.next = mem.next + 1]
    BY <1>2, <2>1, <2>2, <2>3 DEF ScanType
  <2>5. total = mem.next /\ open'
    BY <1>0, <2>1, <2>2 DEF ScanInv
  <2>6. ~ \E j \in DOMAIN mem.targets : mem.files[mem.next] = mem.targets[j]
    <3>1. Walking(hash) /\ hash # Table!EmptySlot /\ TableInv(Len(mem.targets))
      BY <1>0, <1>1, <2>1 DEF ScanInv
    <3>2. ~Stored(hash)
      BY <1>2, <2>1, <3>1, NotStored
    <3>3. \A j \in 1..Len(mem.targets) : hash # mem.targets[j]
      BY <3>1, <3>2 DEF TableInv
    <3> QED BY <1>0, <1>1, <1>3, <3>3
  <2>7. matching = mem.matching +
          IF \E j \in DOMAIN mem.targets : mem.files[mem.next] = mem.targets[j] THEN 1 ELSE 0
    BY <1>2, <2>3, <2>6
  <2> QED BY <1>0, <1>2, <2>1, <2>4, <2>5, <2>7, FileDone
<1>8. CASE /\ Table!Current \notin {Table!EmptySlot, hash}
           /\ Table!Store(Main, "walk", [mem EXCEPT !.index = Table!Advance(@)], "walk")
  <2>1. pc[Main] = "walk" /\ pc'[Main] = "walk" /\ UNCHANGED <<open, exit>>
        /\ mem' = [mem EXCEPT !.index = Table!Advance(mem.index)]
    BY <1>2, <1>8 DEF Table!Store, Table!Go, Table!At
  <2>2. Walking(hash)
    BY <1>0, <1>1, <2>1 DEF ScanInv
  <2>3. /\ ScanType' /\ Walking(hash)'
        /\ UNCHANGED <<mem.table, mem.targets, mem.files, mem.next, mem.total, mem.matching>>
    BY <1>2, <1>8, <2>1, <2>2, WalkOn DEF Table!Current
  <2>4. TableInv(Len(mem.targets))' /\ UNCHANGED Matching(mem.next - 1)
    BY <2>1, <2>3, TableStays DEF ScanInv, TableInv, Stored, Matching
  <2>5. hash = mem'.files[mem'.next]
    BY <1>0, <1>1, <2>3
  <2>6. Walking(mem.files[mem.next])'
    BY <2>3, <2>5 DEF Walking
  <2>7. mem'.matching = Cardinality(Matching(mem.next - 1)')
    BY <2>1, <2>3, <2>4 DEF ScanInv
  <2>8. mem'.next <= Len(mem'.files) /\ mem'.next <= Len(mem'.files) + 1
        /\ mem'.total = mem'.next /\ mem'.files[mem'.next] # Table!EmptySlot
    BY <1>0, <1>2, <2>1, <2>3 DEF ScanInv, ScanType
  <2>9. ScanType' /\ open' /\ pc'[Main] = "walk"
    BY <2>1, <2>3 DEF ScanInv
  <2> QED BY <2>4, <2>6, <2>7, <2>8, <2>9 DEF ScanInv
<1> QED BY <1>0, <1>1, <1>4, <1>5, <1>6, <1>7, <1>8 DEF Table!NextFile,
        Table!IsHashInHashTable, Table!Main, Main
\* In HashTableCalculation a file matches exactly if its hash is that of a
\* target; the program fails on a call, or on a target that is there twice.
LEMMA ScanStep ==
  ASSUME ProcessInv, program = "hashScan", ScanInv, NEW t \in Thread, Table!HashScan(t)
  PROVE  /\ ScanInv'
         /\ exit' # exit => /\ UNCHANGED <<pc, mem>>
                            /\ exit' = "passed" => Computed
                            /\ exit' = "failed" => Excused \/ faulted' # {}
<1>0. /\ ScanType /\ Main \in Thread /\ Table!Main = Main /\ pc \in [Thread -> Label]
  BY DEF ScanInv, Thread, Table!Main, Main, ProcessInv
<1>1. CASE Table!Insert
  <2>1. ScanInv' /\ (exit' # exit => Excused)
    BY <1>1, InsertingStep DEF Excused
  <2>2. exit' # exit => UNCHANGED <<pc, mem>> /\ exit' = "failed"
    BY <1>1 DEF Table!Insert, Table!Store, Table!EndProcess
  <2> QED BY <2>1, <2>2
<1>2. CASE /\ mem.next > Len(mem.targets)
           /\ Table!Store(Main, "create", [mem EXCEPT !.next = 1], "scan")
  <2>0. PICK first \in Nat \ {0} : first = 1
    OBVIOUS
  <2>1. pc[Main] = "create" /\ pc'[Main] = "scan" /\ UNCHANGED <<open, exit>>
        /\ mem' = [mem EXCEPT !.next = 1]
    BY <1>0, <1>2 DEF Table!Store, Table!Go, Table!At
  <2>2. ScanType' /\ mem'.next = 1
        /\ UNCHANGED <<mem.table, mem.targets, mem.files, mem.total, mem.matching>>
    <3>1. mem' = [mem EXCEPT !.next = first]
      BY <2>0, <2>1
    <3> QED BY <1>0, <2>0, <3>1 DEF ScanType
  <2>3. mem.next - 1 = Len(mem.targets) /\ Len(mem.files) \in Nat
    BY <1>0, <1>2, <2>1 DEF ScanInv, ScanType
  <2>4. TableInv(Len(mem.targets))'
    BY <2>1, <2>2, <2>3, TableStays DEF ScanInv, TableInv, Stored
  <2>5. mem'.total = 0 /\ mem'.matching = 0
    BY <2>1, <2>2 DEF ScanInv
  <2>6. Matching(mem.next - 1)' = {}
    <3>1. 1..mem'.next - 1 = {}
      BY <2>2
    <3> QED BY <3>1 DEF Matching
  <2>7. mem'.matching = Cardinality(Matching(mem.next - 1)')
    BY <2>5, <2>6, FS_EmptySet
  <2>8. mem'.next <= Len(mem'.files) + 1 /\ mem'.total = mem'.next - 1
    BY <2>2, <2>3, <2>5
  <2>9. ScanType' /\ open' /\ pc'[Main] = "scan"
    BY <2>1, <2>2 DEF ScanInv
  <2> QED BY <2>1, <2>4, <2>7, <2>8, <2>9 DEF ScanInv
<1>3. CASE Table!NextFile \/ Table!IsHashInHashTable
  <2>1. ScanInv'
    BY <1>3, LookingStep
  <2>2. exit' = exit
    BY <1>3 DEF Table!NextFile, Table!IsHashInHashTable, Table!Store
  <2> QED BY <2>1, <2>2
<1>4. CASE mem.next > Len(mem.files) /\ Table!Return("scan", TRUE)
  <2>1. pc[Main] = "scan" /\ UNCHANGED <<pc, open, mem>> /\ exit' = "passed"
    BY <1>0, <1>4 DEF Table!Return, Table!EndProcess, Table!At
  <2>2. ScanInv'
    BY <2>1, ScanStays
  <2>3. mem.next - 1 = Len(mem.files) /\ mem.total = mem.next - 1
        /\ mem.matching = Cardinality(Matching(mem.next - 1))
    BY <1>0, <1>4, <2>1 DEF ScanInv, ScanType
  <2>4. DOMAIN mem.files = 1..Len(mem.files)
    BY <1>0 DEF ScanType
  <2>5. Matching(mem.next - 1) = {i \in DOMAIN mem.files :
                    \E j \in DOMAIN mem.targets : mem.files[i] = mem.targets[j]}
    BY <2>3, <2>4 DEF Matching
  <2>6. Computed
    BY <2>3, <2>5 DEF Computed, Counting, Signaling, Locals
  <2> QED BY <2>1, <2>2, <2>6
<1>5. CASE Table!CheckFails(Main, {"create"})
  <2>1. UNCHANGED <<pc, open, mem>> /\ exit' = "failed" /\ faulted' # {}
    BY <1>5 DEF Table!CheckFails, Table!ExitOn, Table!Fault
  <2> QED BY <2>1, ScanStays
<1> QED BY <1>0, <1>1, <1>2, <1>3, <1>4, <1>5 DEF Table!HashScan
-----------------------------------------------------------------------------
(* The walk over the directories *)

\* The calls of FilesEnumStartForDirectory, one for each level.
WalkFrame == [directory : Directory, next : Nat \ {0}]
WalkStack == Seq(WalkFrame)

\* The entries that a walk has passed that has come by some directories, and is
\* in those of the stack.
PassedBy(stack, seen) ==
  {e \in Tree!EntryId :
     /\ e[1] \in seen
     /\ \A i \in 1..Len(stack) : stack[i].directory = e[1] => e[2] < stack[i].next}

FilesOf(entries) == {e \in entries : Tree!EntryAt(e) = Tree!File}

\* A walk down to a depth: it is in directories that it has come by, one on each
\* level; it has come to each of them by the entry of the one above; and, unless
\* one could not be opened, it has come by all that have such an entry.
Seen(stack, seen, depth, complete) ==
  /\ stack \in WalkStack /\ seen \in SUBSET Directory
  /\ \A i \in 1..Len(stack) :
       /\ stack[i].directory \in seen /\ Level[stack[i].directory] = i - 1
       /\ stack[i].next <= Len(Contents[stack[i].directory]) + 1
  /\ \A d \in seen : Level[d] <= depth
  /\ \A d \in seen \ {Target} :
       \E e \in PassedBy(stack, seen) : Tree!EntryAt(e) = Tree!Subdirectory(d)
  /\ complete => \A e \in PassedBy(stack, seen), d \in Directory :
       Tree!EntryAt(e) = Tree!Subdirectory(d) /\ Level[e[1]] < depth => d \in seen

\* The stack when the innermost call goes on to its next entry.
PassOne(stack) ==
  Append(SubSeq(stack, 1, Len(stack) - 1), [stack[Len(stack)] EXCEPT !.next = @ + 1])

\* The stack when it has called itself for the directory of that entry.
Entered(stack, x) == Append(PassOne(stack), Tree!Frame(x))

\* What is known of the tree, one fact at a time.
LEMMA TreeFacts ==
  /\ Target \in Directory /\ Level \in [Directory -> Nat] /\ Level[Target] = 0
  /\ StackFrames \in Nat \ {0} /\ Depths \subseteq Nat
  /\ \A d \in Directory : Len(Contents[d]) \in Nat
  /\ \A d \in Directory : \A k \in 1..Len(Contents[d]) : <<d, k>> \in Tree!EntryId
  /\ \A e \in Tree!EntryId : /\ e[1] \in Directory /\ e[2] \in 1..Len(Contents[e[1]])
                             /\ e = <<e[1], e[2]>>
  /\ \A e \in Tree!EntryId :
       \/ Tree!EntryAt(e) \in {Tree!File, Tree!Link}
       \/ \E d \in Directory : Tree!EntryAt(e) = Tree!Subdirectory(d)
  /\ \A d \in Directory \ {Target} :
       \E e \in Tree!EntryId : Tree!EntryAt(e) = Tree!Subdirectory(d)
  /\ \A e \in Tree!EntryId, d \in Directory :
       Tree!EntryAt(e) = Tree!Subdirectory(d) => Level[d] = Level[e[1]] + 1
  /\ \A e1, e2 \in Tree!EntryId, d \in Directory :
       Tree!EntryAt(e1) = Tree!Subdirectory(d) /\ Tree!EntryAt(e2) = Tree!Subdirectory(d)
         => e1 = e2
<1>1. Tree!IsTree
  BY ExercisesAssumption
<1>2. /\ Target \in Directory /\ Level \in [Directory -> Nat] /\ Level[Target] = 0
      /\ StackFrames \in Nat \ {0} /\ Depths \subseteq Nat
      /\ Contents \in [Directory -> Seq({Tree!File, Tree!Link} \cup
                                        {Tree!Subdirectory(d) : d \in Directory})]
  BY <1>1 DEF Tree!IsTree
<1>3. \A d \in Directory : Len(Contents[d]) \in Nat
  BY <1>2
<1>4. \A d \in Directory : \A k \in 1..Len(Contents[d]) : <<d, k>> \in Tree!EntryId
  BY DEF Tree!EntryId
<1>5. \A e \in Tree!EntryId : /\ e[1] \in Directory /\ e[2] \in 1..Len(Contents[e[1]])
                              /\ e = <<e[1], e[2]>>
  BY DEF Tree!EntryId
<1>6. ASSUME NEW e \in Tree!EntryId
      PROVE  \/ Tree!EntryAt(e) \in {Tree!File, Tree!Link}
             \/ \E d \in Directory : Tree!EntryAt(e) = Tree!Subdirectory(d)
  <2>1. e[1] \in Directory /\ e[2] \in 1..Len(Contents[e[1]])
    BY <1>5
  <2>2. PICK S : S = {Tree!File, Tree!Link} \cup {Tree!Subdirectory(d) : d \in Directory}
    OBVIOUS
  <2>3. Contents \in [Directory -> Seq(S)]
    BY <1>2, <2>2
  <2>4. Contents[e[1]] \in Seq(S)
    BY <2>1, <2>3
  <2>5. Tree!EntryAt(e) \in S
    BY <2>1, <2>4 DEF Tree!EntryAt
  <2> QED BY <2>2, <2>5
<1>7. \A d \in Directory : Tree!Subdirectory(d).kind = "directory"
  BY DEF Tree!Subdirectory
<1>8. \A d \in Directory \ {Target} :
        \E e \in Tree!EntryId : Tree!EntryAt(e) = Tree!Subdirectory(d)
  BY <1>1 DEF Tree!IsTree
<1>9. \A e \in Tree!EntryId, d \in Directory :
        Tree!EntryAt(e) = Tree!Subdirectory(d) => Level[d] = Level[e[1]] + 1
  BY <1>1 DEF Tree!IsTree
<1>10. \A e1, e2 \in Tree!EntryId :
         Tree!EntryAt(e1).kind = "directory" /\ Tree!EntryAt(e1) = Tree!EntryAt(e2) => e1 = e2
  BY <1>1 DEF Tree!IsTree
<1>11. ASSUME NEW e1 \in Tree!EntryId, NEW e2 \in Tree!EntryId, NEW d \in Directory,
              Tree!EntryAt(e1) = Tree!Subdirectory(d), Tree!EntryAt(e2) = Tree!Subdirectory(d)
       PROVE  e1 = e2
  BY <1>7, <1>10, <1>11
<1> QED BY <1>2, <1>3, <1>4, <1>5, <1>6, <1>8, <1>9, <1>11

\* The stack without its innermost call.
LEMMA Front ==
  ASSUME NEW stack \in WalkStack, stack # <<>>
  PROVE  \E front \in WalkStack :
           /\ front = SubSeq(stack, 1, Len(stack) - 1) /\ Len(front) = Len(stack) - 1
           /\ \A i \in 1..Len(stack) - 1 : front[i] = stack[i]
<1>1. PICK m \in Nat \ {0} : m = Len(stack)
  BY DEF WalkStack
<1>2. m - 1 \in Int /\ 1 \in Int /\ \A i \in 1..m - 1 : stack[i] \in WalkFrame
  BY <1>1 DEF WalkStack
<1>3. PICK front : front = SubSeq(stack, 1, m - 1)
  OBVIOUS
<1>4. /\ front \in Seq(WalkFrame)
      /\ Len(front) = IF 1 <= m - 1 THEN (m - 1) - 1 + 1 ELSE 0
      /\ \A i \in 1..(m - 1) - 1 + 1 : front[i] = stack[1 + i - 1]
  BY <1>2, <1>3, SubSeqProperties
<1>5. Len(front) = m - 1 /\ \A i \in 1..m - 1 : front[i] = stack[i]
  BY <1>1, <1>4
<1> QED BY <1>1, <1>3, <1>4, <1>5 DEF WalkStack

\* The call for a directory starts at its first entry.
LEMMA NewFrame ==
  ASSUME NEW x \in Directory
  PROVE  \E f \in WalkFrame : f = Tree!Frame(x) /\ f.directory = x /\ f.next = 1
<1>1. PICK first \in Nat \ {0} : first = 1
  OBVIOUS
<1>2. PICK f : f = [directory |-> x, next |-> first]
  OBVIOUS
<1>3. f \in WalkFrame /\ f.directory = x /\ f.next = first
  BY <1>2 DEF WalkFrame
<1> QED BY <1>1, <1>2, <1>3 DEF Tree!Frame

\* One more entry is passed, the one that the innermost call is at.
LEMMA Passing ==
  ASSUME NEW stack, NEW seen, NEW depth, NEW complete, Seen(stack, seen, depth, complete),
         stack # <<>>, NEW d, d = stack[Len(stack)].directory,
         NEW n, n = stack[Len(stack)].next, n <= Len(Contents[d])
  PROVE  /\ d \in Directory /\ n \in Nat \ {0} /\ Len(stack) \in Nat \ {0}
         /\ Level[d] = Len(stack) - 1
         /\ <<d, n>> \in Tree!EntryId /\ <<d, n>> \notin PassedBy(stack, seen)
         /\ PassedBy(PassOne(stack), seen) = PassedBy(stack, seen) \cup {<<d, n>>}
         /\ PassOne(stack) \in WalkStack /\ Len(PassOne(stack)) = Len(stack)
         /\ \A i \in 1..Len(stack) :
              /\ PassOne(stack)[i].directory \in seen
              /\ Level[PassOne(stack)[i].directory] = i - 1
              /\ PassOne(stack)[i].next <= Len(Contents[PassOne(stack)[i].directory]) + 1
<1> DEFINE m == Len(stack)
           new == PassOne(stack)
<1>0. stack \in WalkStack /\ m \in Nat \ {0} /\ seen \in SUBSET Directory
  BY DEF Seen, WalkStack
<1>1. ASSUME NEW i \in 1..m
      PROVE  /\ stack[i] \in WalkFrame
             /\ stack[i].directory \in seen /\ Level[stack[i].directory] = i - 1
             /\ stack[i].next <= Len(Contents[stack[i].directory]) + 1
  <2>1. stack[i] \in WalkFrame
    BY <1>0 DEF WalkStack
  <2> QED BY <2>1 DEF Seen
<1>2. d \in Directory /\ n \in Nat \ {0} /\ Level[d] = m - 1 /\ d \in seen
      /\ stack[m] = [directory |-> d, next |-> n]
  BY <1>0, <1>1 DEF WalkFrame
<1>3. PICK last : last = [directory |-> d, next |-> n + 1]
  OBVIOUS
<1>4. [stack[m] EXCEPT !.next = @ + 1] = last
  BY <1>2, <1>3
<1>5. new \in WalkStack /\ Len(new) = m /\ new[m] = last
      /\ \A i \in 1..m - 1 : new[i] = stack[i]
  <2>1. last \in WalkFrame
    BY <1>2, <1>3 DEF WalkFrame
  <2>2. PICK front \in WalkStack : /\ front = SubSeq(stack, 1, m - 1)
                                   /\ Len(front) = m - 1
                                   /\ \A i \in 1..m - 1 : front[i] = stack[i]
    BY <1>0, Front
  <2>3. new = Append(front, last)
    BY <1>4, <2>2 DEF PassOne
  <2> QED BY <1>0, <2>1, <2>2, <2>3 DEF WalkStack
<1>6. \A i \in 1..m - 1 : stack[i].directory # d
  BY <1>0, <1>1, <1>2
<1>7. <<d, n>> \in Tree!EntryId /\ <<d, n>>[1] = d /\ <<d, n>>[2] = n
  BY <1>2, TreeFacts
<1>8. <<d, n>> \notin PassedBy(stack, seen)
  BY <1>0, <1>2, <1>7 DEF PassedBy
<1>9. ASSUME NEW e \in Tree!EntryId
      PROVE  e \in PassedBy(new, seen) <=> e \in PassedBy(stack, seen) \cup {<<d, n>>}
  <2>1. e[1] \in Directory /\ e[2] \in Nat /\ e = <<e[1], e[2]>>
    BY TreeFacts
  <2>2. CASE e[1] # d
    <3>1. (\A i \in 1..m : new[i].directory = e[1] => e[2] < new[i].next)
            <=> (\A i \in 1..m : stack[i].directory = e[1] => e[2] < stack[i].next)
      BY <1>0, <1>2, <1>3, <1>5, <2>2
    <3> QED BY <1>5, <2>1, <2>2, <3>1 DEF PassedBy
  <2>3. CASE e[1] = d
    <3>1. (\A i \in 1..m : new[i].directory = e[1] => e[2] < new[i].next) <=> e[2] < n + 1
      BY <1>0, <1>2, <1>3, <1>5, <1>6, <2>3
    <3>2. (\A i \in 1..m : stack[i].directory = e[1] => e[2] < stack[i].next) <=> e[2] < n
      BY <1>0, <1>2, <1>6, <2>3
    <3>3. e[2] < n + 1 <=> e[2] < n \/ e[2] = n
      BY <1>2, <2>1
    <3> QED BY <1>2, <1>5, <2>1, <2>3, <3>1, <3>2, <3>3 DEF PassedBy
  <2> QED BY <2>2, <2>3
<1>10. PassedBy(new, seen) = PassedBy(stack, seen) \cup {<<d, n>>}
  <2>1. PassedBy(new, seen) \subseteq Tree!EntryId /\ PassedBy(stack, seen) \subseteq Tree!EntryId
    BY DEF PassedBy
  <2> QED BY <1>7, <1>9, <2>1
<1>11. ASSUME NEW i \in 1..m
       PROVE  /\ new[i].directory \in seen /\ Level[new[i].directory] = i - 1
              /\ new[i].next <= Len(Contents[new[i].directory]) + 1
  <2>1. CASE i = m
    <3>1. Len(Contents[d]) \in Nat
      BY <1>2, TreeFacts
    <3> QED BY <1>2, <1>3, <1>5, <2>1, <3>1
  <2>2. CASE i # m
    <3>1. i \in 1..m - 1 /\ new[i] = stack[i]
      BY <1>0, <1>5, <2>2
    <3> QED BY <1>1, <3>1
  <2> QED BY <2>1, <2>2
<1> QED BY <1>0, <1>2, <1>5, <1>7, <1>8, <1>10, <1>11
\* The entry is not one of a directory that is to be entered.
LEMMA PassedOn ==
  ASSUME NEW stack, NEW seen, NEW depth \in Nat, NEW complete,
         Seen(stack, seen, depth, complete), stack # <<>>,
         NEW d, d = stack[Len(stack)].directory,
         NEW n, n = stack[Len(stack)].next, n <= Len(Contents[d]),
         NEW still, still => complete,
         \A x \in Directory : still /\ Tree!EntryAt(<<d, n>>) = Tree!Subdirectory(x) =>
           ~(Level[d] < depth)
  PROVE  /\ Seen(PassOne(stack), seen, depth, still)
         /\ PassedBy(stack, seen) \subseteq PassedBy(PassOne(stack), seen)
<1> DEFINE P == PassedBy(stack, seen)
           Q == PassedBy(PassOne(stack), seen)
<1>1. /\ Q = P \cup {<<d, n>>} /\ PassOne(stack) \in WalkStack
      /\ Len(PassOne(stack)) = Len(stack) /\ d \in Directory
      /\ \A i \in 1..Len(stack) :
           /\ PassOne(stack)[i].directory \in seen
           /\ Level[PassOne(stack)[i].directory] = i - 1
           /\ PassOne(stack)[i].next <= Len(Contents[PassOne(stack)[i].directory]) + 1
  BY Passing
<1>2. \A c \in seen : Level[c] <= depth
  BY DEF Seen
<1>3. \A c \in seen \ {Target} : \E e \in Q : Tree!EntryAt(e) = Tree!Subdirectory(c)
  BY <1>1 DEF Seen
<1>4. ASSUME still, NEW e \in Q, NEW c \in Directory,
             Tree!EntryAt(e) = Tree!Subdirectory(c), Level[e[1]] < depth
      PROVE  c \in seen
  <2>1. CASE e \in P
    BY <1>4, <2>1 DEF Seen
  <2>2. CASE e = <<d, n>>
    BY <1>4, <2>2
  <2> QED BY <1>1, <2>1, <2>2
<1>5. seen \in SUBSET Directory
  BY DEF Seen
<1> QED BY <1>1, <1>2, <1>3, <1>4, <1>5 DEF Seen

\* The entry is one of a directory, which no other entry has led to.
LEMMA Descending ==
  ASSUME NEW stack, NEW seen, NEW depth \in Nat, NEW complete,
         Seen(stack, seen, depth, complete), stack # <<>>,
         NEW d, d = stack[Len(stack)].directory,
         NEW n, n = stack[Len(stack)].next, n <= Len(Contents[d]),
         NEW x \in Directory, Tree!EntryAt(<<d, n>>) = Tree!Subdirectory(x),
         Level[d] < depth, NEW new, new = Entered(stack, x),
         NEW more, more = seen \cup {x}
  PROVE  /\ Seen(new, more, depth, complete)
         /\ PassedBy(new, more) = PassedBy(stack, seen) \cup {<<d, n>>}
<1> DEFINE P == PassedBy(stack, seen)
           one == PassOne(stack)
           m == Len(stack)
           Q == PassedBy(new, more)
<1>1. /\ PassedBy(one, seen) = P \cup {<<d, n>>} /\ one \in WalkStack
      /\ Len(one) = m /\ d \in Directory /\ m \in Nat \ {0} /\ Level[d] = m - 1
      /\ <<d, n>> \in Tree!EntryId /\ <<d, n>> \notin P
  BY Passing
<1>2. \A i \in 1..m :
        /\ one[i].directory \in seen /\ Level[one[i].directory] = i - 1
        /\ one[i].next <= Len(Contents[one[i].directory]) + 1
  BY Passing
<1>3. Level[x] = m /\ x # Target
  BY <1>1, TreeFacts
<1>4. x \notin seen
  <2> SUFFICES ASSUME x \in seen PROVE FALSE
    OBVIOUS
  <2>1. PICK e \in P : Tree!EntryAt(e) = Tree!Subdirectory(x)
    BY <1>3 DEF Seen
  <2>2. e \in Tree!EntryId
    BY DEF PassedBy
  <2>3. e = <<d, n>>
    BY <1>1, <2>1, <2>2, TreeFacts
  <2> QED BY <1>1, <2>3
<1>5. PICK f \in WalkFrame : f = Tree!Frame(x) /\ f.directory = x /\ f.next = 1
  BY NewFrame
<1>6. new \in WalkStack /\ Len(new) = m + 1 /\ new[m + 1] = f
      /\ \A i \in 1..m : new[i] = one[i]
  BY <1>1, <1>5 DEF WalkStack, Entered
<1>7. ASSUME NEW e \in Tree!EntryId
      PROVE  e \in Q <=> e \in PassedBy(one, seen)
  <2>1. e[1] \in Directory /\ e[2] \in Nat \ {0}
    BY TreeFacts
  <2>2. (\A i \in 1..m + 1 : new[i].directory = e[1] => e[2] < new[i].next)
          <=> /\ \A i \in 1..m : one[i].directory = e[1] => e[2] < one[i].next
              /\ e[1] # x
    <3>1. \A i \in 1..m + 1 : i \in 1..m \/ i = m + 1
      BY <1>1
    <3>2. 1..m \subseteq 1..m + 1 /\ m + 1 \in 1..m + 1
      BY <1>1
    <3>3. (new[m + 1].directory = e[1] => e[2] < new[m + 1].next) <=> e[1] # x
      BY <1>5, <1>6, <2>1
    <3> QED BY <1>6, <3>1, <3>2, <3>3
  <2> QED BY <1>1, <1>4, <1>6, <2>2 DEF PassedBy
<1>8. Q = P \cup {<<d, n>>}
  <2>1. Q \subseteq Tree!EntryId /\ PassedBy(one, seen) \subseteq Tree!EntryId
    BY DEF PassedBy
  <2> QED BY <1>1, <1>7, <2>1
<1>9. ASSUME NEW i \in 1..Len(new)
      PROVE  /\ new[i].directory \in more /\ Level[new[i].directory] = i - 1
             /\ new[i].next <= Len(Contents[new[i].directory]) + 1
  <2>1. CASE i = m + 1
    <3>1. Len(Contents[x]) \in Nat
      BY TreeFacts
    <3> QED BY <1>1, <1>3, <1>5, <1>6, <2>1, <3>1
  <2>2. CASE i # m + 1
    <3>1. i \in 1..m
      BY <1>1, <1>6, <2>2
    <3> QED BY <1>2, <1>6, <3>1
  <2> QED BY <2>1, <2>2
<1>10. more \in SUBSET Directory /\ \A c \in more : Level[c] <= depth
  BY <1>1, <1>3 DEF Seen
<1>11. \A c \in more \ {Target} : \E e \in Q : Tree!EntryAt(e) = Tree!Subdirectory(c)
  BY <1>8 DEF Seen
<1>12. ASSUME complete, NEW e \in Q, NEW c \in Directory,
              Tree!EntryAt(e) = Tree!Subdirectory(c), Level[e[1]] < depth
       PROVE  c \in more
  <2>1. CASE e \in P
    BY <1>12, <2>1 DEF Seen
  <2>2. CASE e = <<d, n>>
    <3>1. Tree!Subdirectory(c) = Tree!Subdirectory(x)
      BY <1>12, <2>2
    <3>2. c = x
      BY <3>1 DEF Tree!Subdirectory
    <3> QED BY <3>2
  <2> QED BY <1>8, <2>1, <2>2
<1> QED BY <1>6, <1>8, <1>9, <1>10, <1>11, <1>12 DEF Seen

\* The call for a directory ends, with entries to come or none.
LEMMA BreakingOff ==
  ASSUME NEW stack, NEW seen, NEW depth, NEW complete, Seen(stack, seen, depth, complete),
         stack # <<>>
  PROVE  LET new == SubSeq(stack, 1, Len(stack) - 1) IN
         /\ Seen(new, seen, depth, FALSE)
         /\ PassedBy(stack, seen) \subseteq PassedBy(new, seen)
<1> DEFINE m == Len(stack)
           new == SubSeq(stack, 1, Len(stack) - 1)
<1>0. stack \in WalkStack /\ m \in Nat \ {0} /\ seen \in SUBSET Directory
  BY DEF Seen, WalkStack
<1>1. new \in WalkStack /\ Len(new) = m - 1 /\ \A i \in 1..m - 1 : new[i] = stack[i]
  BY <1>0, Front
<1>2. 1..m - 1 \subseteq 1..m
  BY <1>0
<1>3. PassedBy(stack, seen) \subseteq PassedBy(new, seen)
  BY <1>1, <1>2 DEF PassedBy
<1>4. ASSUME NEW i \in 1..Len(new)
      PROVE  /\ new[i].directory \in seen /\ Level[new[i].directory] = i - 1
             /\ new[i].next <= Len(Contents[new[i].directory]) + 1
  <2>1. i \in 1..m /\ new[i] = stack[i]
    BY <1>0, <1>1
  <2> QED BY <2>1 DEF Seen
<1>5. \A c \in seen \ {Target} :
        \E e \in PassedBy(new, seen) : Tree!EntryAt(e) = Tree!Subdirectory(c)
  BY <1>3 DEF Seen
<1>6. \A d \in seen : Level[d] <= depth
  BY DEF Seen
<1> QED BY <1>0, <1>1, <1>3, <1>4, <1>5, <1>6 DEF Seen

\* A directory has no more entries, and its call ends.
LEMMA Popping ==
  ASSUME NEW stack, NEW seen, NEW depth, NEW complete, Seen(stack, seen, depth, complete),
         stack # <<>>,
         ~(stack[Len(stack)].next <= Len(Contents[stack[Len(stack)].directory]))
  PROVE  LET new == SubSeq(stack, 1, Len(stack) - 1) IN
         /\ Seen(new, seen, depth, complete)
         /\ PassedBy(new, seen) = PassedBy(stack, seen)
<1> DEFINE m == Len(stack)
           new == SubSeq(stack, 1, Len(stack) - 1)
<1>0. stack \in WalkStack /\ m \in Nat \ {0} /\ seen \in SUBSET Directory
  BY DEF Seen, WalkStack
<1>1. new \in WalkStack /\ Len(new) = m - 1 /\ \A i \in 1..m - 1 : new[i] = stack[i]
  BY <1>0, Front
<1>2. PICK d, n : d = stack[m].directory /\ n = stack[m].next
  OBVIOUS
<1>3. d \in Directory /\ n \in Nat /\ Len(Contents[d]) \in Nat /\ n = Len(Contents[d]) + 1
  <2>1. stack[m] \in WalkFrame
    BY <1>0 DEF WalkStack
  <2>2. d \in Directory /\ n \in Nat /\ Len(Contents[d]) \in Nat
    BY <1>2, <2>1, TreeFacts DEF WalkFrame
  <2>3. n <= Len(Contents[d]) + 1 /\ ~(n <= Len(Contents[d]))
    BY <1>0, <1>2 DEF Seen
  <2> QED BY <2>2, <2>3
<1>4. ASSUME NEW e \in Tree!EntryId
      PROVE  (\A i \in 1..m : stack[i].directory = e[1] => e[2] < stack[i].next)
               <=> (\A i \in 1..m - 1 : new[i].directory = e[1] => e[2] < new[i].next)
  <2>1. e[2] \in 1..Len(Contents[e[1]])
    BY TreeFacts
  <2>2. stack[m].directory = e[1] => e[2] < stack[m].next
    BY <1>2, <1>3, <2>1
  <2>3. \A i \in 1..m : i \in 1..m - 1 \/ i = m
    BY <1>0
  <2>4. 1..m - 1 \subseteq 1..m
    BY <1>0
  <2> QED BY <1>1, <2>2, <2>3, <2>4
<1>5. PassedBy(new, seen) = PassedBy(stack, seen)
  BY <1>1, <1>4 DEF PassedBy
<1>6. ASSUME NEW i \in 1..Len(new)
      PROVE  /\ new[i].directory \in seen /\ Level[new[i].directory] = i - 1
             /\ new[i].next <= Len(Contents[new[i].directory]) + 1
  <2>1. i \in 1..m /\ new[i] = stack[i]
    BY <1>0, <1>1
  <2> QED BY <2>1 DEF Seen
<1> QED BY <1>0, <1>1, <1>5, <1>6 DEF Seen

\* The walk starts with the directory that is given to the program.
LEMMA Starting ==
  ASSUME NEW depth \in Nat, NEW complete
  PROVE  LET new == Append(<<>>, Tree!Frame(Target)) IN
         /\ Seen(<<>>, {}, depth, complete) /\ PassedBy(<<>>, {}) = {}
         /\ Seen(new, {Target}, depth, complete) /\ PassedBy(new, {Target}) = {}
<1> DEFINE new == Append(<<>>, Tree!Frame(Target))
<1>1. Target \in Directory /\ Level[Target] = 0 /\ Len(Contents[Target]) \in Nat
  BY TreeFacts
<1>2. PICK f \in WalkFrame : f = Tree!Frame(Target) /\ f.directory = Target /\ f.next = 1
  BY <1>1, NewFrame
<1>3. new \in WalkStack /\ Len(new) = 1 /\ new[1] = f /\ <<>> \in WalkStack /\ Len(<<>>) = 0
  BY <1>2 DEF WalkStack
<1>4. PassedBy(<<>>, {}) = {}
  BY DEF PassedBy
<1>5. PassedBy(new, {Target}) = {}
  <2> SUFFICES ASSUME NEW e \in Tree!EntryId, e \in PassedBy(new, {Target}) PROVE FALSE
    BY DEF PassedBy
  <2>1. e[1] = Target /\ e[2] < 1
    BY <1>2, <1>3 DEF PassedBy
  <2>2. e[2] \in 1..Len(Contents[e[1]])
    BY TreeFacts
  <2> QED BY <1>1, <2>1, <2>2
<1>6. Seen(<<>>, {}, depth, complete)
  BY <1>3, <1>4 DEF Seen
<1>7. Seen(new, {Target}, depth, complete)
  <2>1. ASSUME NEW i \in 1..Len(new)
        PROVE  /\ new[i].directory \in {Target} /\ Level[new[i].directory] = i - 1
               /\ new[i].next <= Len(Contents[new[i].directory]) + 1
    <3>1. i = 1 /\ new[i] = f
      BY <1>3
    <3> QED BY <1>1, <1>2, <3>1
  <2>2. {Target} \in SUBSET Directory /\ \A d \in {Target} : Level[d] <= depth
    BY <1>1
  <2> QED BY <1>3, <1>5, <2>1, <2>2 DEF Seen
<1> QED BY <1>4, <1>5, <1>6, <1>7

\* A walk that is over has passed no files below its depth; and, if it has left no
\* directory out, all of the others.
LEMMA OnlySeen ==
  ASSUME NEW seen, NEW depth \in Nat, NEW complete, Seen(<<>>, seen, depth, complete)
  PROVE  FilesOf(PassedBy(<<>>, seen)) \subseteq Tree!FilesDownTo(depth)
<1>1. \A d \in seen : Level[d] <= depth
  BY DEF Seen
<1> QED BY <1>1 DEF FilesOf, PassedBy, Tree!FilesDownTo

LEMMA AllSeen ==
  ASSUME NEW seen, NEW depth \in Nat, Seen(<<>>, seen, depth, TRUE), Target \in seen
  PROVE  FilesOf(PassedBy(<<>>, seen)) = Tree!FilesDownTo(depth)
<1>0. seen \in SUBSET Directory /\ \A d \in seen : Level[d] <= depth
  BY DEF Seen
<1>1. \A e \in Tree!EntryId : e \in PassedBy(<<>>, seen) <=> e[1] \in seen
  BY DEF PassedBy
<1>2. ASSUME NEW d \in Directory, Level[d] <= depth PROVE d \in seen
  <2> SUFFICES ASSUME d \notin seen PROVE FALSE
    OBVIOUS
  <2> DEFINE Missed == {c \in Directory : Level[c] <= depth /\ c \notin seen}
             T == {Level[c] : c \in Missed}
  <2>0. \A c \in Directory : Level[c] \in Nat
    BY TreeFacts
  <2>1. T \subseteq Nat /\ T # {}
    <3>1. d \in Missed
      BY <1>2
    <3> QED BY <2>0, <3>1
  <2>2. PICK l \in T : \A k \in T : l <= k
    BY <2>1, LeastNat
  <2>3. PICK c \in Missed : l = Level[c]
    BY <2>2
  <2>4. PICK e \in Tree!EntryId : Tree!EntryAt(e) = Tree!Subdirectory(c)
    BY <2>3, TreeFacts
  <2>5. e[1] \in Directory /\ Level[e[1]] \in Nat /\ Level[c] = Level[e[1]] + 1
    BY <2>3, <2>4, TreeFacts
  <2>6. Level[e[1]] < depth /\ Level[e[1]] \notin T
    <3>1. Level[c] <= depth /\ Level[c] \in Nat
      BY <2>0, <2>3
    <3>2. Level[e[1]] < depth
      BY <2>5, <3>1
    <3>3. ~(Level[c] <= Level[e[1]])
      BY <2>5
    <3> QED BY <2>2, <2>3, <3>2, <3>3
  <2>7. e[1] \in seen
    BY <2>5, <2>6
  <2>8. c \in seen
    BY <1>1, <2>3, <2>4, <2>6, <2>7 DEF Seen
  <2> QED BY <2>3, <2>8
<1>3. \A e \in Tree!EntryId : e[1] \in seen <=> Level[e[1]] <= depth
  BY <1>0, <1>2, TreeFacts
<1>4. PassedBy(<<>>, seen) \subseteq Tree!EntryId
  BY DEF PassedBy
<1> QED BY <1>1, <1>3, <1>4 DEF FilesOf, Tree!FilesDownTo

\* The tree has finitely many entries.
LEMMA FilesFinite ==
  /\ \A stack, seen : /\ IsFiniteSet(FilesOf(PassedBy(stack, seen)))
                      /\ Cardinality(FilesOf(PassedBy(stack, seen))) \in Nat
  /\ \A depth : IsFiniteSet(Tree!FilesDownTo(depth))
<1> DEFINE In(d) == {<<d, k>> : k \in 1..Len(Contents[d])}
           f == [d \in Directory |-> In(d)]
           all == {In(d) : d \in Directory}
<1>1. IsFiniteSet(Directory)
  BY ExercisesAssumption
<1>2. ASSUME NEW d \in Directory PROVE IsFiniteSet(In(d))
  <2>1. Len(Contents[d]) \in Nat
    BY TreeFacts
  <2>2. 1 \in Int /\ Len(Contents[d]) \in Int
    BY <2>1
  <2>3. IsFiniteSet(1..Len(Contents[d])) /\ IsFiniteSet({d})
    BY <2>2, FS_Interval, FS_Singleton
  <2>4. IsFiniteSet({d} \X (1..Len(Contents[d])))
    BY <2>3, FS_Product
  <2>5. In(d) \in SUBSET ({d} \X (1..Len(Contents[d])))
    OBVIOUS
  <2> QED BY <2>4, <2>5, FS_Subset
<1>3. IsFiniteSet(all)
  <2>1. f \in Surjection(Directory, all)
    BY DEF Surjection
  <2> QED BY <1>1, <2>1, FS_Surjection
<1>4. IsFiniteSet(UNION all)
  BY <1>2, <1>3, FS_UNION
<1>5. IsFiniteSet(Tree!EntryId)
  BY <1>4 DEF Tree!EntryId
<1>6. ASSUME NEW stack, NEW seen
      PROVE  /\ IsFiniteSet(FilesOf(PassedBy(stack, seen)))
             /\ Cardinality(FilesOf(PassedBy(stack, seen))) \in Nat
  <2>1. FilesOf(PassedBy(stack, seen)) \in SUBSET Tree!EntryId
    BY DEF FilesOf, PassedBy
  <2> QED BY <1>5, <2>1, FS_Subset, FS_CardinalityType
<1>7. ASSUME NEW depth PROVE IsFiniteSet(Tree!FilesDownTo(depth))
  <2>1. Tree!FilesDownTo(depth) \in SUBSET Tree!EntryId
    BY DEF Tree!FilesDownTo
  <2> QED BY <1>5, <2>1, FS_Subset
<1> QED BY <1>6, <1>7

\* The memory of the walk.
WalkType ==
  mem \in [maxDepth : Depths, stack : WalkStack, counted : Nat, freed : SUBSET Thread]

\* The files that a walk has passed are counted, unless a listing has failed.
Walked(stack, seen, depth, counted, complete) ==
  /\ Seen(stack, seen, depth, complete)
  /\ counted <= Cardinality(FilesOf(PassedBy(stack, seen)))
  /\ complete => /\ counted = Cardinality(FilesOf(PassedBy(stack, seen)))
                 /\ Target \in seen

\* The walk before it starts, and then; main waits for its thread, which frees
\* the parameters, or has freed them and reports that there is no thread.
WalkInv ==
  /\ WalkType /\ open /\ pc["B"] = "none" /\ pc["C"] = "none"
  /\ pc[Main] \in {"alloc", "create", "error", "join", "verdict"}
  /\ pc[Main] \in {"alloc", "create", "error"} => pc["A"] = "none"
  /\ pc[Main] = "error" => faulted # {}
  /\ pc[Main] = "verdict" => pc["A"] = "done"
  /\ pc["A"] \in {"none", "begin", "walk", "done"}
  /\ IF pc["A"] \in {"none", "begin"}
     THEN mem.stack = <<>> /\ mem.counted = 0
     ELSE \E seen : Walked(mem.stack, seen, mem.maxDepth, mem.counted, faulted = {})
  /\ pc["A"] = "done" => mem.stack = <<>>
  /\ mem.freed = IF pc[Main] = "error" THEN {Main}
                 ELSE IF pc["A"] = "done" THEN {"A"} ELSE {}

\* A step of the walk leaves the rest of the process alone.
LEMMA TreeProcess ==
  ASSUME ProcessInv, UNCHANGED program, NEW t \in Thread, Tree!Walk(t)
  PROVE  ProcessInv' /\ Running /\ faulted \subseteq faulted'
BY DEF Running, Tree!Running, Tree!Walk, Tree!WalkMain, Tree!FileEnumThreadFunc,
       Tree!FilesEnumStartForDirectory, Tree!EnterDirectory, Tree!ListingFails,
       Tree!Store, Tree!Call, Tree!Go, Tree!At, Tree!others, Tree!Await,
       Tree!EndProcess, Tree!Return, Tree!CreateThread,
       Tree!CheckFails, Tree!ExitOn, Tree!Fault, Tree!Main, Main, Thread, Worker,
       ProcessInv, Label, Status, FaultKinds

\* One more entry is counted if it is a file.
LEMMA OneMoreEntry ==
  ASSUME NEW entries, NEW e, e \notin entries, IsFiniteSet(FilesOf(entries))
  PROVE  /\ IsFiniteSet(FilesOf(entries \cup {e}))
         /\ Cardinality(FilesOf(entries)) \in Nat
         /\ Cardinality(FilesOf(entries \cup {e})) =
              Cardinality(FilesOf(entries)) + IF Tree!EntryAt(e) = Tree!File THEN 1 ELSE 0
<1>1. Cardinality(FilesOf(entries)) \in Nat
  BY FS_CardinalityType
<1>2. CASE Tree!EntryAt(e) = Tree!File
  <2>1. FilesOf(entries \cup {e}) = FilesOf(entries) \cup {e} /\ e \notin FilesOf(entries)
    BY <1>2 DEF FilesOf
  <2>2. IsFiniteSet(FilesOf(entries) \cup {e})
        /\ Cardinality(FilesOf(entries) \cup {e}) = Cardinality(FilesOf(entries)) + 1
    BY <2>1, FS_AddElement
  <2> QED BY <1>1, <1>2, <2>1, <2>2
<1>3. CASE Tree!EntryAt(e) # Tree!File
  <2>1. FilesOf(entries \cup {e}) = FilesOf(entries)
    BY <1>3 DEF FilesOf
  <2> QED BY <1>1, <1>3, <2>1
<1> QED BY <1>2, <1>3

\* The thread goes on with its walk.
LEMMA WalkGoes ==
  ASSUME ProcessInv, WalkInv, NEW from, NEW stack \in WalkStack, NEW counted \in Nat,
         NEW seen, Tree!Go("A", from, "walk"), from # "none", UNCHANGED open,
         mem' = [mem EXCEPT !.stack = stack, !.counted = counted],
         Walked(stack, seen, mem.maxDepth, counted, faulted' = {}),
         faulted \subseteq faulted', pc["A"] # "done"
  PROVE  WalkInv'
<1>1. /\ pc["A"] # "none" /\ pc'["A"] = "walk" /\ pc'["B"] = "none" /\ pc'["C"] = "none"
      /\ pc'[Main] = pc[Main]
  BY DEF Tree!Go, Tree!At, ProcessInv, WalkInv, Thread, Worker, Main
<1>2. /\ WalkType' /\ mem'.stack = stack /\ mem'.counted = counted
      /\ UNCHANGED <<mem.maxDepth, mem.freed>>
  BY DEF WalkInv, WalkType
<1>3. Walked(mem'.stack, seen, mem'.maxDepth, mem'.counted, faulted' = {})
  BY <1>2
<1>4. pc'[Main] \notin {"alloc", "create", "error", "verdict"}
  BY <1>1 DEF WalkInv
<1>5. mem'.freed = {}
  BY <1>1, <1>2, <1>4 DEF WalkInv
<1> QED BY <1>1, <1>2, <1>3, <1>4, <1>5 DEF WalkInv
\* The thread of the walk; it fails when the stack has no room for a level.
LEMMA WalkThread ==
  ASSUME ProcessInv, WalkInv, Tree!FileEnumThreadFunc("A")
  PROVE  /\ WalkInv'
         /\ exit' # exit => /\ UNCHANGED <<pc, mem>> /\ exit' = "failed"
                            /\ mem.maxDepth >= StackFrames
<1>0. /\ WalkType /\ pc \in [Thread -> Label] /\ "A" \in Thread /\ Main \in Thread
      /\ Main # "A" /\ mem.maxDepth \in Nat /\ mem.counted \in Nat /\ mem.stack \in WalkStack
      /\ StackFrames \in Nat \ {0} /\ faulted \subseteq FaultKinds
  BY TreeFacts DEF WalkInv, WalkType, ProcessInv, Thread, Worker, Main
<1>1. ASSUME NEW from, pc["A"] = from, NEW status, Tree!EndProcess("A", from, status)
      PROVE  WalkInv' /\ UNCHANGED <<pc, mem>> /\ exit' = status
  <2>1. UNCHANGED <<pc, mem, open, faulted>> /\ exit' = status
    BY <1>1 DEF Tree!EndProcess
  <2> QED BY <2>1 DEF WalkInv, WalkType
<1>2. \A from : Tree!Go("A", from, "walk") => pc["A"] = from
  BY DEF Tree!Go, Tree!At
<1>3. CASE Tree!EnterDirectory("A", "begin", <<>>, Target)
  <2>1. PICK new : new = Append(<<>>, Tree!Frame(Target))
    OBVIOUS
  <2>2. \A complete : /\ Seen(<<>>, {}, mem.maxDepth, complete) /\ PassedBy(<<>>, {}) = {}
                      /\ Seen(new, {Target}, mem.maxDepth, complete)
                      /\ PassedBy(new, {Target}) = {}
    BY <1>0, <2>1, Starting
  <2>3. FilesOf({}) = {} /\ IsFiniteSet({}) /\ Cardinality({}) = 0
    BY FS_EmptySet DEF FilesOf
  <2>4. new \in WalkStack /\ <<>> \in WalkStack
    BY <2>2 DEF Seen
  <2>5. PICK none \in Nat : none = 0
    OBVIOUS
  <2>11. PassedBy(<<>>, {}) = {} /\ PassedBy(new, {Target}) = {}
    BY <2>2
  <2>12. none = Cardinality({}) /\ none <= none
    BY <2>3, <2>5
  <2>10. /\ FilesOf(PassedBy(new, {Target})) = {} /\ FilesOf(PassedBy(<<>>, {})) = {}
         /\ none = Cardinality({}) /\ none <= none
    BY <2>3, <2>11, <2>12
  <2>9. Walked(new, {Target}, mem.maxDepth, none, faulted' = {})
    BY <2>2, <2>10 DEF Walked
  <2>6. CASE Tree!Store("A", "begin", [mem EXCEPT !.stack = new], "walk")
    <3>1. /\ Tree!Go("A", "begin", "walk") /\ mem' = [mem EXCEPT !.stack = new]
          /\ UNCHANGED <<open, exit, faulted>>
      BY <2>6 DEF Tree!Store
    <3>2. pc["A"] = "begin" /\ mem.counted = 0
      BY <1>2, <3>1 DEF WalkInv
    <3>3. mem' = [mem EXCEPT !.stack = new, !.counted = none]
      BY <1>0, <2>5, <3>1, <3>2 DEF WalkType
    <3>4. WalkInv'
      BY <2>4, <2>9, <3>1, <3>2, <3>3, WalkGoes
    <3> QED BY <3>1, <3>4
  <2>7. CASE Len(<<>>) = StackFrames
    BY <1>0, <2>7
  <2>8. CASE /\ Tree!Go("A", "begin", "walk") /\ Tree!Fault("call")
             /\ mem' = [mem EXCEPT !.stack = <<>>] /\ UNCHANGED <<open, exit>>
    <3>1. pc["A"] = "begin" /\ mem.counted = 0
      BY <1>2, <2>8 DEF WalkInv
    <3>2. mem' = [mem EXCEPT !.stack = <<>>, !.counted = none]
      BY <1>0, <2>5, <2>8, <3>1 DEF WalkType
    <3>3. faulted' # {} /\ faulted \subseteq faulted'
      BY <2>8 DEF Tree!Fault
    <3>4. Walked(<<>>, {}, mem.maxDepth, none, faulted' = {})
      BY <2>2, <2>10, <3>3 DEF Walked
    <3>5. WalkInv'
      BY <2>4, <2>8, <3>1, <3>2, <3>3, <3>4, WalkGoes
    <3> QED BY <2>8, <3>5
  <2> QED BY <1>3, <2>1, <2>6, <2>7, <2>8 DEF Tree!EnterDirectory
<1>4. CASE Tree!FilesEnumStartForDirectory("A")
  <2>0. /\ pc["A"] = "walk" /\ mem.stack # <<>>
    BY <1>4 DEF Tree!FilesEnumStartForDirectory, Tree!EnterDirectory, Tree!ListingFails,
       Tree!Store,
       Tree!EndProcess, Tree!Go, Tree!At
  <2>1. PICK seen : Walked(mem.stack, seen, mem.maxDepth, mem.counted, faulted = {})
    BY <2>0 DEF WalkInv
  <2>2. PICK stack \in WalkStack, depth \in Nat, counted \in Nat, complete \in BOOLEAN :
          /\ stack = mem.stack /\ depth = mem.maxDepth /\ counted = mem.counted
          /\ complete = (faulted = {})
    BY <1>0
  <2>3. /\ Seen(stack, seen, depth, complete) /\ stack # <<>>
        /\ IsFiniteSet(FilesOf(PassedBy(stack, seen)))
        /\ Cardinality(FilesOf(PassedBy(stack, seen))) \in Nat
        /\ counted <= Cardinality(FilesOf(PassedBy(stack, seen)))
        /\ complete => /\ counted = Cardinality(FilesOf(PassedBy(stack, seen)))
                       /\ Target \in seen
    BY <2>0, <2>1, <2>2, FilesFinite DEF Walked
  <2>4. PICK d, n : d = stack[Len(stack)].directory /\ n = stack[Len(stack)].next
    OBVIOUS
  <2>5. PICK front : front = SubSeq(stack, 1, Len(stack) - 1)
    OBVIOUS
  <2>6. PICK one : one = PassOne(stack)
    OBVIOUS
  <2>7. /\ Tree!Passed = one /\ Tree!Popped = front /\ Tree!Top.directory = d
        /\ Tree!Top.next = n /\ Tree!Current = Tree!EntryAt(<<d, n>>)
    BY <2>2, <2>4, <2>5, <2>6 DEF Tree!Passed, Tree!Popped, Tree!Top, Tree!Current,
       Tree!EntryAt, PassOne
  <2>10. Tree!HasEntry <=> n <= Len(Contents[d])
    BY <2>7 DEF Tree!HasEntry
  <2>8. CASE n <= Len(Contents[d]) /\ ~Tree!ListingFails("A")
    <3>1. /\ PassedBy(one, seen) = PassedBy(stack, seen) \cup {<<d, n>>}
          /\ <<d, n>> \in Tree!EntryId /\ <<d, n>> \notin PassedBy(stack, seen)
          /\ one \in WalkStack /\ Len(one) = Len(stack) /\ Level[d] = Len(stack) - 1
          /\ Len(stack) \in Nat
      BY <2>3, <2>4, <2>6, <2>8, Passing
    <3>2. PICK entry : entry = Tree!EntryAt(<<d, n>>)
      OBVIOUS
    <3>3. /\ entry \in {Tree!File, Tree!Link} \/
               \E x \in Directory : entry = Tree!Subdirectory(x)
          /\ Tree!File.kind = "file" /\ Tree!Link.kind = "link"
          /\ \A x \in Directory : Tree!Subdirectory(x).kind = "directory"
                                  /\ Tree!Subdirectory(x).directory = x
      BY <3>1, <3>2, TreeFacts DEF Tree!File, Tree!Link, Tree!Subdirectory
    <3>4. /\ IsFiniteSet(FilesOf(PassedBy(one, seen)))
          /\ Cardinality(FilesOf(PassedBy(one, seen))) =
               Cardinality(FilesOf(PassedBy(stack, seen)))
                 + IF entry = Tree!File THEN 1 ELSE 0
      BY <2>3, <3>1, <3>2, OneMoreEntry
    <3>8. entry # Tree!File => FilesOf(PassedBy(one, seen)) = FilesOf(PassedBy(stack, seen))
      BY <3>1, <3>2 DEF FilesOf
    <3>5. CASE entry.kind = "file" /\ Tree!Store("A", "walk",
                 [mem EXCEPT !.counted = @ + 1, !.stack = one], "walk")
      <4>1. entry = Tree!File
        BY <3>3, <3>5
      <4>2. PICK more \in Nat : more = counted + 1
        BY <2>2
      <4>3. /\ Tree!Go("A", "walk", "walk") /\ mem' = [mem EXCEPT !.stack = one, !.counted = more]
            /\ UNCHANGED <<open, exit, faulted>>
        BY <2>2, <3>5, <4>2 DEF Tree!Store
      <4>4. Seen(one, seen, depth, complete)
        <5>1. \A x \in Directory : Tree!EntryAt(<<d, n>>) # Tree!Subdirectory(x)
          BY <3>2, <3>3, <4>1
        <5> QED BY <2>3, <2>4, <2>6, <2>8, <5>1, PassedOn
      <4>7. /\ more <= Cardinality(FilesOf(PassedBy(one, seen)))
            /\ complete => more = Cardinality(FilesOf(PassedBy(one, seen)))
        BY <2>2, <2>3, <3>4, <4>1, <4>2
      <4>5. Walked(one, seen, mem.maxDepth, more, faulted' = {})
        BY <2>2, <2>3, <4>3, <4>4, <4>7 DEF Walked
      <4>6. WalkInv'
        BY <2>0, <3>1, <4>3, <4>5, WalkGoes
      <4> QED BY <4>3, <4>6
    <3>6. CASE /\ entry.kind # "file"
               /\ ~(entry.kind = "directory" /\ Tree!MayDescend(Len(mem.stack) - 1))
               /\ Tree!Store("A", "walk", [mem EXCEPT !.stack = one], "walk")
      <4>1. entry # Tree!File
        BY <3>3, <3>6
      <4>2. /\ Tree!Go("A", "walk", "walk")
            /\ mem' = [mem EXCEPT !.stack = one, !.counted = counted]
            /\ UNCHANGED <<open, exit, faulted>>
        BY <1>0, <2>2, <3>6 DEF Tree!Store, WalkType
      <4>3. \A x \in Directory : entry = Tree!Subdirectory(x) => ~(Level[d] < depth)
        BY <2>2, <3>1, <3>3, <3>6 DEF Tree!MayDescend
      <4>4. Seen(one, seen, depth, complete)
        BY <2>3, <2>4, <2>6, <2>8, <3>2, <4>3, PassedOn
      <4>5. Walked(one, seen, mem.maxDepth, counted, faulted' = {})
        BY <2>2, <2>3, <3>4, <3>8, <4>1, <4>2, <4>4 DEF Walked
      <4>6. WalkInv'
        BY <2>0, <2>2, <3>1, <4>2, <4>5, WalkGoes
      <4> QED BY <4>2, <4>6
    <3>7. CASE /\ entry.kind = "directory" /\ Tree!MayDescend(Len(mem.stack) - 1)
               /\ Tree!EnterDirectory("A", "walk", one, entry.directory)
      <4>1. PICK x \in Directory : entry = Tree!Subdirectory(x) /\ entry.directory = x
        BY <3>3, <3>7
      <4>2. entry # Tree!File /\ Len(stack) - 1 < depth
        BY <2>2, <3>3, <3>7 DEF Tree!MayDescend
      <4>3. PICK new : new = Append(one, Tree!Frame(x))
        OBVIOUS
      <4>4. CASE Tree!Store("A", "walk", [mem EXCEPT !.stack = new], "walk")
        <5>1. /\ Tree!Go("A", "walk", "walk")
              /\ mem' = [mem EXCEPT !.stack = new, !.counted = counted]
              /\ UNCHANGED <<open, exit, faulted>>
          BY <1>0, <2>2, <4>4 DEF Tree!Store, WalkType
        <5>2. /\ Seen(new, seen \cup {x}, depth, complete)
              /\ PassedBy(new, seen \cup {x}) = PassedBy(stack, seen) \cup {<<d, n>>}
          <6>1. Tree!EntryAt(<<d, n>>) = Tree!Subdirectory(x)
            BY <3>2, <4>1
          <6>2. /\ Seen(stack, seen, depth, complete) /\ stack # <<>>
                /\ d = stack[Len(stack)].directory /\ n = stack[Len(stack)].next
                /\ n <= Len(Contents[d]) /\ Level[d] < depth
                /\ new = Entered(stack, x)
            BY <2>3, <2>4, <2>6, <2>8, <3>1, <4>2, <4>3 DEF Entered
          <6>3. PICK more : more = seen \cup {x}
            OBVIOUS
          <6>4. Seen(new, more, depth, complete)
            BY <6>1, <6>2, <6>3, Descending
          <6>5. PassedBy(new, more) = PassedBy(stack, seen) \cup {<<d, n>>}
            BY <6>1, <6>2, <6>3, Descending
          <6> QED BY <6>3, <6>4, <6>5
        <5>3. PassedBy(new, seen \cup {x}) = PassedBy(one, seen)
          BY <3>1, <5>2
        <5>4. Walked(new, seen \cup {x}, mem.maxDepth, counted, faulted' = {})
          BY <2>2, <2>3, <3>4, <3>8, <4>2, <5>1, <5>2, <5>3 DEF Walked
        <5>5. new \in WalkStack
          BY <5>2 DEF Seen
        <5>6. WalkInv'
          BY <2>0, <2>2, <5>1, <5>4, <5>5, WalkGoes
        <5> QED BY <5>1, <5>6
      <4>5. CASE Len(one) = StackFrames /\ Tree!EndProcess("A", "walk", "failed")
        <5>1. WalkInv' /\ UNCHANGED <<pc, mem>> /\ exit' = "failed"
          BY <1>1, <2>0, <4>5
        <5>2. mem.maxDepth >= StackFrames
          BY <1>0, <2>2, <3>1, <4>2, <4>5
        <5> QED BY <5>1, <5>2
      <4>6. CASE /\ Tree!Go("A", "walk", "walk") /\ Tree!Fault("call")
                 /\ mem' = [mem EXCEPT !.stack = one] /\ UNCHANGED <<open, exit>>
        <5>1. mem' = [mem EXCEPT !.stack = one, !.counted = counted]
          BY <1>0, <2>2, <4>6 DEF WalkType
        <5>2. faulted' # {} /\ faulted \subseteq faulted'
          BY <4>6 DEF Tree!Fault
        <5>3. PICK still \in BOOLEAN : still = (faulted' = {}) /\ ~still
          BY <5>2
        <5>4. Seen(one, seen, depth, still)
          BY <2>3, <2>4, <2>6, <2>8, <5>3, PassedOn
        <5>5. Walked(one, seen, mem.maxDepth, counted, faulted' = {})
          BY <2>2, <2>3, <3>4, <3>8, <4>2, <5>4, <5>3 DEF Walked
        <5>6. WalkInv'
          BY <2>0, <2>2, <3>1, <4>6, <5>1, <5>2, <5>5, WalkGoes
        <5> QED BY <4>6, <5>6
      <4> QED BY <3>7, <4>1, <4>3, <4>4, <4>5, <4>6 DEF Tree!EnterDirectory
    <3> QED BY <1>4, <2>2, <2>7, <2>8, <2>10, <3>2, <3>5, <3>6, <3>7
            DEF Tree!FilesEnumStartForDirectory
  <2>9. CASE ~(n <= Len(Contents[d])) /\ ~Tree!ListingFails("A")
    <3>1. Tree!Store("A", "walk", [mem EXCEPT !.stack = front], "walk")
      BY <1>4, <2>2, <2>7, <2>9, <2>10 DEF Tree!FilesEnumStartForDirectory
    <3>2. /\ Tree!Go("A", "walk", "walk")
          /\ mem' = [mem EXCEPT !.stack = front, !.counted = counted]
          /\ UNCHANGED <<open, exit, faulted>>
      BY <1>0, <2>2, <3>1 DEF Tree!Store, WalkType
    <3>3. /\ Seen(front, seen, depth, complete)
          /\ PassedBy(front, seen) = PassedBy(stack, seen)
      BY <2>3, <2>4, <2>5, <2>9, Popping
    <3>4. Walked(front, seen, mem.maxDepth, counted, faulted' = {})
      BY <2>2, <2>3, <3>2, <3>3 DEF Walked
    <3>5. front \in WalkStack
      BY <3>3 DEF Seen
    <3>6. WalkInv'
      BY <2>0, <2>2, <3>2, <3>4, <3>5, WalkGoes
    <3> QED BY <3>2, <3>6
  <2>11. CASE Tree!ListingFails("A")
    <3>1. PICK left :
            /\ Tree!Go("A", "walk", "walk") /\ UNCHANGED <<open, exit>>
            /\ mem' = [mem EXCEPT !.stack = left, !.counted = counted]
            /\ left = front \/ (n <= Len(Contents[d]) /\ left = one)
      BY <1>0, <2>2, <2>7, <2>10, <2>11 DEF Tree!ListingFails, WalkType
    <3>2. faulted' # {} /\ faulted \subseteq faulted'
      BY <2>11 DEF Tree!ListingFails, Tree!Fault
    <3>3. PICK still \in BOOLEAN : still = (faulted' = {}) /\ ~still
      BY <3>2
    <3>4. /\ Seen(left, seen, depth, still)
          /\ PassedBy(stack, seen) \subseteq PassedBy(left, seen)
      <4>1. CASE left = front
        BY <2>3, <2>5, <3>3, <4>1, BreakingOff
      <4>2. CASE n <= Len(Contents[d]) /\ left = one
        <5>1. /\ Seen(one, seen, depth, still)
              /\ PassedBy(stack, seen) \subseteq PassedBy(one, seen)
          BY <2>3, <2>4, <2>6, <3>3, <4>2, PassedOn
        <5> QED BY <4>2, <5>1
      <4> QED BY <3>1, <4>1, <4>2
    <3>5. counted <= Cardinality(FilesOf(PassedBy(left, seen)))
      <4>1. PICK few, many : /\ few = FilesOf(PassedBy(stack, seen))
                             /\ many = FilesOf(PassedBy(left, seen))
        OBVIOUS
      <4>2. few \in SUBSET many /\ IsFiniteSet(many) /\ Cardinality(many) \in Nat
        BY <3>4, <4>1, FilesFinite DEF FilesOf
      <4>3. Cardinality(few) <= Cardinality(many)
        BY <4>2, FS_Subset
      <4> QED BY <2>2, <2>3, <4>1, <4>2, <4>3
    <3>6. Walked(left, seen, mem.maxDepth, counted, faulted' = {})
      BY <2>2, <3>3, <3>4, <3>5 DEF Walked
    <3>7. left \in WalkStack
      BY <3>4 DEF Seen
    <3>8. WalkInv'
      BY <2>0, <2>2, <3>1, <3>2, <3>6, <3>7, WalkGoes
    <3> QED BY <3>1, <3>8
  <2> QED BY <2>8, <2>9, <2>11
<1>5. CASE /\ mem.stack = <<>>
           /\ Tree!Store("A", "walk", [mem EXCEPT !.freed = @ \cup {"A"}], "done")
  <2>1. /\ pc["A"] = "walk" /\ pc'["A"] = "done" /\ pc'["B"] = pc["B"] /\ pc'["C"] = pc["C"]
        /\ pc'[Main] = pc[Main] /\ UNCHANGED <<open, exit, faulted>>
        /\ mem' = [mem EXCEPT !.freed = @ \cup {"A"}]
    BY <1>0, <1>5 DEF Tree!Store, Tree!Go, Tree!At, Thread, Worker
  <2>2. mem.freed = {} /\ pc[Main] \notin {"alloc", "create", "error", "verdict"}
    BY <2>1 DEF WalkInv
  <2>3. /\ WalkType' /\ mem'.freed = {"A"}
        /\ UNCHANGED <<mem.stack, mem.maxDepth, mem.counted>>
    BY <1>0, <2>1, <2>2 DEF WalkType
  <2>4. PICK seen : Walked(mem.stack, seen, mem.maxDepth, mem.counted, faulted = {})
    BY <2>1 DEF WalkInv
  <2>5. Walked(mem'.stack, seen, mem'.maxDepth, mem'.counted, faulted' = {})
    BY <2>1, <2>3, <2>4
  <2> QED BY <1>5, <2>1, <2>2, <2>3, <2>5 DEF WalkInv
<1> QED BY <1>3, <1>4, <1>5 DEF Tree!FileEnumThreadFunc
\* main, which leaves the walk to its thread.
LEMMA WalkMainStep ==
  ASSUME ProcessInv, WalkInv, Tree!WalkMain
  PROVE  /\ WalkInv'
         /\ exit' # exit => /\ UNCHANGED <<pc, mem>>
                            /\ exit' = "passed" => pc["A"] = "done"
                            /\ exit' = "failed" => faulted # {} \/ faulted' # {}
<1>0. /\ WalkType /\ pc \in [Thread -> Label] /\ "A" \in Thread /\ "B" \in Thread
      /\ "C" \in Thread /\ Main \in Thread /\ Main \notin {"A", "B", "C"}
      /\ Tree!Main = Main /\ mem.freed \in SUBSET Thread
  BY DEF WalkInv, WalkType, ProcessInv, Thread, Worker, Main, Tree!Main
<1>1. ASSUME UNCHANGED <<mem, open, faulted>>, pc'[Main] # "error", pc[Main] # "error",
             pc'[Main] \in {"alloc", "create", "join", "verdict"},
             pc'["B"] = pc["B"], pc'["C"] = pc["C"],
             pc'["A"] = pc["A"] \/ (pc["A"] = "none" /\ pc'["A"] = "begin"),
             pc'[Main] \in {"alloc", "create"} => pc'["A"] = "none",
             pc'[Main] = "verdict" => pc'["A"] = "done"
      PROVE  WalkInv'
  <2>1. WalkType' /\ UNCHANGED <<mem.stack, mem.maxDepth, mem.counted, mem.freed>>
    BY <1>1 DEF WalkInv, WalkType
  <2> QED BY <1>1, <2>1 DEF WalkInv
<1>2. CASE Tree!Call(Main, "alloc", "create")
  <2>1. /\ pc[Main] = "alloc" /\ pc'[Main] = "create" /\ UNCHANGED <<mem, open, exit, faulted>>
        /\ \A w \in {"A", "B", "C"} : pc'[w] = pc[w]
    BY <1>0, <1>2 DEF Tree!Call, Tree!Go, Tree!At, Tree!others
  <2>2. WalkInv'
    BY <1>1, <2>1 DEF WalkInv
  <2> QED BY <2>1, <2>2
<1>3. CASE Tree!CreateThread("create", "A", 0, "join")
  <2>1. /\ pc[Main] = "create" /\ pc'[Main] = "join" /\ pc'["A"] = "begin"
        /\ UNCHANGED <<mem, open, exit, faulted>> /\ pc'["B"] = pc["B"] /\ pc'["C"] = pc["C"]
    BY <1>0, <1>3 DEF Tree!CreateThread, Tree!At
  <2>2. WalkInv'
    BY <1>1, <2>1 DEF WalkInv
  <2> QED BY <2>1, <2>2
<1>4. CASE /\ Tree!Go(Main, "create", "error") /\ Tree!Fault("call")
           /\ mem' = [mem EXCEPT !.freed = @ \cup {Main}] /\ UNCHANGED <<open, exit>>
  <2>1. /\ pc[Main] = "create" /\ pc'[Main] = "error" /\ faulted' # {}
        /\ \A w \in {"A", "B", "C"} : pc'[w] = pc[w]
    BY <1>0, <1>4 DEF Tree!Go, Tree!At, Tree!Fault
  <2>2. mem.freed = {} /\ pc["A"] = "none"
    BY <2>1 DEF WalkInv
  <2>3. /\ WalkType' /\ mem'.freed = {Main}
        /\ UNCHANGED <<mem.stack, mem.maxDepth, mem.counted>>
    BY <1>0, <1>4, <2>2 DEF WalkType
  <2>4. WalkInv'
    BY <1>4, <2>1, <2>2, <2>3 DEF WalkInv
  <2> QED BY <1>4, <2>4
<1>5. ASSUME NEW from, NEW status, Tree!EndProcess(Main, from, status)
      PROVE  WalkInv' /\ UNCHANGED <<pc, mem, faulted>> /\ exit' = status /\ pc[Main] = from
  <2>1. UNCHANGED <<pc, mem, open, faulted>> /\ exit' = status /\ pc[Main] = from
    BY <1>5 DEF Tree!EndProcess, Tree!At
  <2> QED BY <2>1 DEF WalkInv, WalkType
<1>6. CASE Tree!EndProcess(Main, "error", "failed")
  <2>1. WalkInv' /\ UNCHANGED <<pc, mem>> /\ exit' = "failed" /\ pc[Main] = "error"
    BY <1>5, <1>6
  <2> QED BY <2>1 DEF WalkInv
<1>7. CASE Tree!Await(Main, "join", {"A"}, "verdict")
  <2>1. /\ pc[Main] = "join" /\ pc'[Main] = "verdict" /\ UNCHANGED <<mem, open, exit, faulted>>
        /\ \A w \in {"A", "B", "C"} : pc'[w] = pc[w]
    BY <1>0, <1>7 DEF Tree!Await, Tree!Call, Tree!Go, Tree!At, Tree!others
  <2>2. pc["A"] \in {"done", "failed"}
    BY <1>7 DEF Tree!Await, Tree!Satisfied, Tree!Ended, ProcessInv, Tree!Worker
  <2>3. pc["A"] = "done"
    BY <2>2 DEF WalkInv
  <2>4. WalkInv'
    BY <1>1, <2>1, <2>3 DEF WalkInv
  <2> QED BY <2>1, <2>4
<1>8. CASE Tree!Return("verdict", TRUE)
  <2>1. WalkInv' /\ UNCHANGED <<pc, mem>> /\ exit' = "passed" /\ pc[Main] = "verdict"
    <3>1. Tree!EndProcess(Main, "verdict", "passed")
      BY <1>0, <1>8 DEF Tree!Return
    <3> QED BY <1>5, <3>1
  <2> QED BY <2>1 DEF WalkInv
<1>9. CASE Tree!CheckFails(Main, {"alloc"})
  <2>1. /\ UNCHANGED <<pc, mem, open>> /\ exit' = "failed" /\ faulted' # {}
        /\ pc[Main] = "alloc"
    BY <1>9 DEF Tree!CheckFails, Tree!ExitOn, Tree!Fault
  <2>2. WalkType' /\ pc["A"] = "none"
    BY <2>1 DEF WalkInv, WalkType
  <2>3. WalkInv'
    BY <2>1, <2>2 DEF WalkInv
  <2> QED BY <2>1, <2>3
<1> QED BY <1>0, <1>2, <1>3, <1>4, <1>6, <1>7, <1>8, <1>9 DEF Tree!WalkMain

\* In FileEnumAlgorithm the files down to the depth are counted once each,
\* unless a directory could not be opened or there is no room for a level.
LEMMA TreeStep ==
  ASSUME ProcessInv, program = "walk", WalkInv, NEW t \in Thread, Tree!Walk(t)
  PROVE  /\ WalkInv'
         /\ exit' # exit => /\ UNCHANGED <<pc, mem>>
                            /\ exit' = "passed" => Computed
                            /\ exit' = "failed" => Excused \/ faulted' # {}
<1>1. CASE Tree!WalkMain
  <2>1. /\ WalkInv'
        /\ exit' # exit => /\ UNCHANGED <<pc, mem>>
                           /\ exit' = "passed" => pc["A"] = "done"
                           /\ exit' = "failed" => faulted # {} \/ faulted' # {}
    BY <1>1, WalkMainStep
  <2>2. ASSUME pc["A"] = "done", faulted = {}
        PROVE  mem.counted = Cardinality(Tree!FilesDownTo(mem.maxDepth))
    <3>1. PICK seen : Walked(mem.stack, seen, mem.maxDepth, mem.counted, faulted = {})
      BY <2>2 DEF WalkInv
    <3>2. mem.stack = <<>> /\ mem.maxDepth \in Nat
      BY <2>2, TreeFacts DEF WalkInv, WalkType
    <3>3. PICK depth \in Nat : depth = mem.maxDepth
      BY <3>2
    <3>4. PICK complete \in BOOLEAN : complete = (faulted = {})
      OBVIOUS
    <3>5. Walked(<<>>, seen, depth, mem.counted, complete) /\ complete = TRUE
      BY <2>2, <3>1, <3>2, <3>3, <3>4
    <3>6. Seen(<<>>, seen, depth, TRUE) /\ Target \in seen
          /\ mem.counted = Cardinality(FilesOf(PassedBy(<<>>, seen)))
      BY <3>5 DEF Walked
    <3>7. FilesOf(PassedBy(<<>>, seen)) = Tree!FilesDownTo(depth)
      BY <3>6, AllSeen
    <3> QED BY <3>3, <3>6, <3>7
  <2>3. ASSUME pc["A"] = "done"
        PROVE  mem.counted <= Cardinality(Tree!FilesDownTo(mem.maxDepth))
    <3>1. PICK seen : Walked(mem.stack, seen, mem.maxDepth, mem.counted, faulted = {})
      BY <2>3 DEF WalkInv
    <3>2. mem.stack = <<>> /\ mem.maxDepth \in Nat /\ mem.counted \in Nat
      BY <2>3, TreeFacts DEF WalkInv, WalkType
    <3>3. PICK depth \in Nat : depth = mem.maxDepth
      BY <3>2
    <3>4. PICK complete \in BOOLEAN : complete = (faulted = {})
      OBVIOUS
    <3>5. PICK counted \in Nat : counted = mem.counted
      BY <3>2
    <3>6. /\ Seen(<<>>, seen, depth, complete)
          /\ counted <= Cardinality(FilesOf(PassedBy(<<>>, seen)))
      BY <3>1, <3>2, <3>3, <3>4, <3>5 DEF Walked
    <3>7. PICK few, all : few = FilesOf(PassedBy(<<>>, seen)) /\ all = Tree!FilesDownTo(depth)
      OBVIOUS
    <3>8. few \in SUBSET all /\ IsFiniteSet(all) /\ Cardinality(few) \in Nat
      BY <3>6, <3>7, OnlySeen, FilesFinite
    <3>9. Cardinality(few) <= Cardinality(all) /\ Cardinality(all) \in Nat
      BY <3>8, FS_Subset, FS_CardinalityType
    <3>10. counted <= Cardinality(all)
      BY <3>6, <3>7, <3>8, <3>9
    <3> QED BY <3>3, <3>5, <3>7, <3>10
  <2> QED BY <2>1, <2>2, <2>3 DEF Computed, Excused, Counting, Signaling, Locals
<1>2. CASE t = "A" /\ Tree!FileEnumThreadFunc("A")
  <2>1. /\ WalkInv'
        /\ exit' # exit => /\ UNCHANGED <<pc, mem>> /\ exit' = "failed"
                           /\ mem.maxDepth >= StackFrames
    BY <1>2, WalkThread
  <2> QED BY <2>1 DEF Excused
<1> QED BY <1>1, <1>2 DEF Tree!Walk
-----------------------------------------------------------------------------
(* All of them *)

\* The invariant of the program that runs.
ProgramInv ==
  /\ program = "waitOnAddress" => WaitInv
  /\ program = "safeFunction" => InterlockedInv
  /\ program = "criticalSection" => CriticalInv
  /\ program = "srwLocked" => SRWInv
  /\ program = "signaledEvent" => EventInv
  /\ program = "withApc" => ApcInv
  /\ program \in Locals => LocalInv
  /\ program = "hashScan" => ScanInv
  /\ program = "walk" => WalkInv

\* How a program ends is right.
VerdictInv ==
  /\ exit = "passed" => Computed
  /\ exit = "failed" => Excused

ExercisesInv == ProcessInv /\ ProgramInv /\ VerdictInv

\* The sum of what the workers have made, when they all have ended.
LEMMA AllRounds ==
  ASSUME CounterType, RoundsInv, NEW J \in SUBSET Worker, \A w \in J : pc[w] = "done"
  PROVE  /\ J = Worker => Made(J) = 3 * Rounds
         /\ J = {"B", "C"} => Made(J) = 2 * Rounds
<1>1. \A w \in J : mem.made[w] = Rounds
  BY DEF RoundsInv
<1>2. Rounds \in Nat
  BY ExercisesAssumption
<1>3. CASE J = Worker
  <2>1. mem.made["A"] = Rounds /\ mem.made["B"] = Rounds /\ mem.made["C"] = Rounds
    BY <1>1, <1>3 DEF Worker
  <2>2. Made(Worker) = Rounds + Rounds + Rounds
    BY <2>1 DEF Made, Worker
  <2> QED BY <1>2, <1>3, <2>2 DEF Worker
<1>4. CASE J = {"B", "C"}
  <2>1. mem.made["B"] = Rounds /\ mem.made["C"] = Rounds
    BY <1>1, <1>4
  <2>2. Made(J) = 0 + Rounds + Rounds
    BY <1>4, <2>1 DEF Made
  <2> QED BY <1>2, <1>4, <2>2 DEF Worker
<1> QED BY <1>3, <1>4

\* How the programs that count end.
LEMMA CountingEnds ==
  ASSUME ProcessInv, ProgramInv, program \in Counting, NEW t \in Thread,
         \/ program = "waitOnAddress" /\ Counter!WaitOnAddress(t)
         \/ program = "safeFunction" /\ Counter!SafeFunction(t)
         \/ program = "criticalSection" /\ Counter!CriticalSection(t)
         \/ program = "srwLocked" /\ Counter!SRWLocked(t),
         exit' # exit
  PROVE  /\ UNCHANGED <<pc, mem>>
         /\ exit' = "passed" => Computed
         /\ exit' = "failed" => faulted' # {}
<1>1. Counter!Return("verdict", TRUE) \/ Counter!CreateFails
  BY DEF Counter!WaitOnAddress, Counter!SafeFunction, Counter!CriticalSection,
     Counter!SRWLocked, Counter!JoinAndReturn, Counter!CreateAll, Counter!CreateWriters,
     Counter!Create, Counter!WriterThread, Counter!WaiterThread, Counter!WakeByAddressAll,
     Counter!LastRound, Counter!Read, Counter!Write, Counter!Store, Counter!Call,
     Counter!Await, Counter!CloseEvents, Counter!others, Counter!InterlockedThreadProc,
     Counter!LockedThreadProc, Counter!ReaderThreadProc, Counter!Acquire, Counter!Release
<1>2. CASE Counter!CreateFails
  BY <1>2 DEF Counter!CreateFails, Counter!CheckFails, Counter!ExitOn, Counter!Fault
<1>3. CASE Counter!Return("verdict", TRUE)
  <2>1. UNCHANGED <<pc, mem>> /\ exit' = "passed" /\ pc[Main] = "verdict"
    BY <1>3 DEF Counter!Return, Counter!EndProcess, Counter!At, Counter!Main, Main
  <2>2. CASE program = "waitOnAddress"
    <3>1. MainInv(Worker) /\ WaiterInv
      BY <2>2 DEF ProgramInv, WaitInv
    <3>2. pc["C"] = "done"
      BY <2>1, <3>1 DEF MainInv, Worker
    <3>3. ~mem.lost /\ mem.counter = 2 * Rounds
      BY <3>1, <3>2 DEF WaiterInv, Counter!Total
    <3> QED BY <2>1, <2>2, <3>3 DEF Computed, Locals
  <2>3. CASE program \in {"safeFunction", "criticalSection"}
    <3>1. CounterType /\ RoundsInv /\ SumInv(Worker) /\ MainInv(Worker)
      BY <2>3 DEF ProgramInv, InterlockedInv, CriticalInv
    <3>2. \A w \in Worker : pc[w] = "done"
      BY <2>1, <3>1 DEF MainInv
    <3>3. mem.counter = 3 * Rounds
      BY <3>1, <3>2, AllRounds DEF SumInv
    <3> QED BY <2>1, <2>3, <3>3 DEF Computed, Locals
  <2>4. CASE program = "srwLocked"
    <3>1. CounterType /\ RoundsInv /\ SumInv({"B", "C"}) /\ MainInv({"B", "C"})
      BY <2>4 DEF ProgramInv, SRWInv
    <3>2. \A w \in {"B", "C"} : pc[w] = "done"
      BY <2>1, <3>1 DEF MainInv
    <3>3. mem.counter = 2 * Rounds
      BY <3>1, <3>2, AllRounds DEF SumInv, Worker
    <3> QED BY <2>1, <2>4, <3>3 DEF Computed, Locals
  <2> QED BY <2>2, <2>3, <2>4 DEF Counting
<1> QED BY <1>1, <1>2, <1>3

\* How the programs with an event end.
LEMMA SignalingEnds ==
  ASSUME ProcessInv, ProgramInv, NEW t \in Thread,
         \/ program = "signaledEvent" /\ Signal!SignaledEvent(t)
         \/ program = "withApc" /\ Signal!WithAPC(t),
         exit' # exit
  PROVE  /\ UNCHANGED <<pc, mem>>
         /\ exit' = "passed" => Computed
         /\ exit' = "failed" => faulted # {} \/ faulted' # {}
<1>1. CASE program = "signaledEvent" /\ Signal!SignaledEvent(t)
  <2>1. Signal!Return("verdict", mem.success)
    BY <1>1 DEF Signal!SignaledEvent, Signal!SignaledMain, Signal!WaiterThread,
       Signal!CreateThread, Signal!SignalEvent, Signal!CallAborts, Signal!StepFails,
       Signal!Await, Signal!CloseEvents, Signal!Call, Signal!others,
       Signal!WorkerFails, Signal!Fails
  <2>2. /\ UNCHANGED <<pc, mem>> /\ pc[Main] = "verdict"
        /\ exit' = IF mem.success THEN "passed" ELSE "failed"
    BY <2>1 DEF Signal!Return, Signal!EndProcess, Signal!At, Signal!Main, Main
  <2>3. /\ EventInv /\ (~mem.success => faulted # {})
        /\ pc["A"] = "failed" => faulted # {}
        /\ pc["A"] \in {"done", "failed"} \/ faulted # {}
    BY <1>1, <2>2 DEF ProgramInv, EventInv, Ended
  <2>4. faulted = {} => pc["A"] = "done"
    BY <2>3
  <2>5. Computed
    BY <1>1, <2>4 DEF Computed, Locals
  <2> QED BY <2>2, <2>3, <2>5
<1>2. CASE program = "withApc" /\ Signal!WithAPC(t)
  <2>1. Signal!Return("verdict", TRUE) \/ Signal!CheckFails(Main, {"create", "queue"})
    BY <1>2 DEF Signal!WithAPC, Signal!ApcMain, Signal!WorkerThread, Signal!Store,
       Signal!CreateThread, Signal!SignalEvent, Signal!Await, Signal!CloseEvents,
       Signal!Call, Signal!others, Signal!Main, Main
  <2>2. CASE Signal!CheckFails(Main, {"create", "queue"})
    BY <2>2 DEF Signal!CheckFails, Signal!ExitOn, Signal!Fault
  <2>3. CASE Signal!Return("verdict", TRUE)
    <3>1. UNCHANGED <<pc, mem>> /\ exit' = "passed" /\ pc[Main] = "verdict"
      BY <2>3 DEF Signal!Return, Signal!EndProcess, Signal!At, Signal!Main, Main
    <3>2. mem.called + mem.queued = 1
      BY <1>2, <3>1 DEF ProgramInv, ApcInv
    <3> QED BY <1>2, <3>1, <3>2 DEF Computed, Locals
  <2> QED BY <2>1, <2>2, <2>3
<1> QED BY <1>1, <1>2

\* How the programs with a variable of each thread end.
LEMMA LocalsEnd ==
  ASSUME ProcessInv, ProgramInv, program \in Locals, NEW t \in Thread,
         Local!Dynamic(t) \/ Local!Static(t), exit' # exit
  PROVE  /\ UNCHANGED <<pc, mem>>
         /\ exit' = "passed" => Computed
         /\ exit' = "failed" => faulted' # {}
<1>1. \/ Local!Return("verdict", TRUE)
      \/ Local!CheckFails(Main, {"alloc", "create", "createB"})
  BY DEF Local!Dynamic, Local!DynamicMain, Local!DynamicWorker, Local!Static,
     Local!StaticMain, Local!StaticWorker, Local!OneAfterTheOther, Local!Work,
     Local!Store, Local!Call, Local!CreateThread, Local!Await, Local!others,
     Local!WorkerFails, Local!Fails, Local!Main, Main
<1>2. CASE Local!CheckFails(Main, {"alloc", "create", "createB"})
  BY <1>2 DEF Local!CheckFails, Local!ExitOn, Local!Fault
<1>3. CASE Local!Return("verdict", TRUE)
  <2>1. UNCHANGED <<pc, mem>> /\ exit' = "passed"
    BY <1>3 DEF Local!Return, Local!EndProcess
  <2>2. LocalType /\ OwnInv
    BY DEF ProgramInv, LocalInv
  <2>3. ASSUME NEW w \in Local!Pair, pc[w] = "done"
        PROVE  /\ mem.found[w] = Local!InitialValue
               /\ mem.own[w] = Local!Parameter[w] + 10 * Steps
    BY <2>2, <2>3 DEF OwnInv
  <2>4. Computed
    BY <2>3 DEF Computed, Locals
  <2> QED BY <2>1, <2>4
<1> QED BY <1>1, <1>2, <1>3
\* A step of the program that runs is one that its proof is about.
LEMMA ActStep ==
  ASSUME ProcessInv, ProgramInv, NEW t \in Thread, Step(t)
  PROVE  /\ ProcessInv' /\ ProgramInv' /\ Running /\ faulted \subseteq faulted'
         /\ exit' # exit => /\ UNCHANGED <<pc, mem>>
                            /\ exit' = "passed" => Computed
                            /\ exit' = "failed" => Excused \/ faulted' # {}
<1> USE DEF Step
<1>0. program \in Program /\ program' = program
  BY DEF ProcessInv
<1>1. CASE program = "waitOnAddress"
  <2>1. Counter!WaitOnAddress(t)
    BY <1>1 DEF Act
  <2> QED BY <1>0, <1>1, <2>1, CounterProcess, WaitStep, CountingEnds
          DEF ProgramInv, Counting, Locals
<1>2. CASE program = "safeFunction"
  <2>1. Counter!SafeFunction(t)
    BY <1>2 DEF Act
  <2> QED BY <1>0, <1>2, <2>1, CounterProcess, SafeStep, CountingEnds
          DEF ProgramInv, Counting, Locals
<1>3. CASE program = "criticalSection"
  <2>1. Counter!CriticalSection(t)
    BY <1>3 DEF Act
  <2> QED BY <1>0, <1>3, <2>1, CounterProcess, CriticalStep, CountingEnds
          DEF ProgramInv, Counting, Locals
<1>4. CASE program = "srwLocked"
  <2>1. Counter!SRWLocked(t)
    BY <1>4 DEF Act
  <2> QED BY <1>0, <1>4, <2>1, CounterProcess, SRWStep, CountingEnds
          DEF ProgramInv, Counting, Locals
<1>5. CASE program = "signaledEvent"
  <2>1. Signal!SignaledEvent(t)
    BY <1>5 DEF Act
  <2>2. ProcessInv' /\ Running /\ faulted \subseteq faulted' /\ EventInv'
    BY <1>0, <1>5, <2>1, SignalProcess, EventStep DEF ProgramInv
  <2>3. exit' # exit => /\ UNCHANGED <<pc, mem>>
                        /\ exit' = "passed" => Computed
                        /\ exit' = "failed" => faulted # {} \/ faulted' # {}
    BY <1>5, <2>1, SignalingEnds
  <2> QED BY <1>0, <1>5, <2>2, <2>3 DEF ProgramInv, Locals, Excused
<1>6. CASE program = "withApc"
  <2>1. Signal!WithAPC(t)
    BY <1>6 DEF Act
  <2>2. ProcessInv' /\ Running /\ faulted \subseteq faulted' /\ ApcInv'
    BY <1>0, <1>6, <2>1, SignalProcess, ApcStep DEF ProgramInv
  <2>3. exit' # exit => /\ UNCHANGED <<pc, mem>>
                        /\ exit' = "passed" => Computed
                        /\ exit' = "failed" => faulted # {} \/ faulted' # {}
    BY <1>6, <2>1, SignalingEnds
  <2> QED BY <1>0, <1>6, <2>2, <2>3 DEF ProgramInv, Locals, Excused
<1>7. CASE program \in Locals
  <2>1. Local!Dynamic(t) \/ Local!Static(t)
    BY <1>7 DEF Act, Locals
  <2>2. ProcessInv' /\ Running /\ faulted \subseteq faulted' /\ LocalInv'
    BY <1>0, <1>7, <2>1, LocalProcess, LocalStep DEF ProgramInv
  <2>3. exit' # exit => /\ UNCHANGED <<pc, mem>>
                        /\ exit' = "passed" => Computed
                        /\ exit' = "failed" => faulted' # {}
    BY <1>7, <2>1, LocalsEnd
  <2> QED BY <1>0, <1>7, <2>2, <2>3 DEF ProgramInv, Locals
<1>8. CASE program = "hashScan"
  <2>1. Table!HashScan(t)
    BY <1>8 DEF Act
  <2> QED BY <1>0, <1>8, <2>1, TableProcess, ScanStep DEF ProgramInv, Locals
<1>9. CASE program = "walk"
  <2>1. Tree!Walk(t)
    BY <1>9 DEF Act
  <2> QED BY <1>0, <1>9, <2>1, TreeProcess, TreeStep DEF ProgramInv, Locals
<1> QED BY <1>0, <1>1, <1>2, <1>3, <1>4, <1>5, <1>6, <1>7, <1>8, <1>9
        DEF Program, Counting, Signaling

\* What holds at the start.
LEMMA ExercisesInit == Init => ExercisesInv
<1> SUFFICES ASSUME Init PROVE ExercisesInv
  OBVIOUS
<1>1. PICK m \in Memory : Begin(First, m)
  BY DEF Init
<1>2. /\ pc = [t \in Thread |-> IF t = Main THEN First ELSE "none"]
      /\ suspends = [t \in Thread |-> 0] /\ signaled = {} /\ open = TRUE
      /\ mem = m /\ exit = "running" /\ faulted = {}
  BY <1>1 DEF Begin
<1>3. /\ pc \in [Thread -> Label] /\ pc[Main] = First
      /\ \A w \in Worker : pc[w] = "none"
  BY <1>2 DEF First, Label, Thread, Main, Worker
<1>4. program \in Program
  BY DEF Init
<1>5. ProcessInv
  BY <1>2, <1>3, <1>4 DEF ProcessInv, Status
<1>6. VerdictInv
  BY <1>2 DEF VerdictInv
<1>7. CASE program \in Counting
  <2>0. m = Counter!CounterMemory
    BY <1>7 DEF Memory, Counting, Signaling, Locals
  <2>1. CounterType /\ mem.counter = 0 /\ mem.holders = {} /\ mem.lost = FALSE
        /\ \A w \in Worker : mem.made[w] = 0 /\ mem.read[w] = 0
    BY <1>2, <2>0 DEF CounterType, Counter!CounterMemory, Counter!Worker, Worker
  <2>2. \A S \in SUBSET Worker : Made(S) = 0
    BY <2>1 DEF Made, Worker
  <2>3. RoundsInv
    BY <1>3, <2>1, ExercisesAssumption DEF RoundsInv
  <2>4. LockInv
    BY <1>3, <2>1 DEF LockInv
  <2>5. \A S \in SUBSET Worker : SumInv(S)
    BY <2>1, <2>2 DEF SumInv
  <2>6. pc[Main] = "create"
    BY <1>3, <1>7 DEF First, Counting, Locals
  <2>7. \A J : MainInv(J)
    BY <1>3, <2>6 DEF MainInv, Worker
  <2>8. WritersInv
    BY <1>3, <2>1, <2>2, ExercisesAssumption DEF WritersInv, Written, Worker
  <2>9. WaiterInv
    BY <1>3, <2>1, ExercisesAssumption DEF WaiterInv, Counter!Total, Worker
  <2> QED BY <1>2, <1>3, <1>5, <1>6, <1>7, <2>1, <2>3, <2>4, <2>5, <2>7, <2>8, <2>9
          DEF ExercisesInv, ProgramInv, WaitInv, InterlockedInv, CriticalInv, SRWInv,
          Counting, Locals, Worker
<1>8. CASE program \in Signaling
  <2>0. m = Signal!SignalsMemory
    BY <1>8 DEF Memory, Counting, Signaling, Locals
  <2>1. SignalsType /\ mem.success = TRUE /\ mem.queued = 0 /\ mem.called = 0
    BY <1>2, <2>0 DEF SignalsType, Signal!SignalsMemory
  <2>2. pc[Main] = "create" /\ pc["A"] = "none" /\ pc["B"] = "none" /\ pc["C"] = "none"
    BY <1>3, <1>8 DEF First, Signaling, Locals, Worker
  <2> QED BY <1>2, <1>5, <1>6, <1>8, <2>1, <2>2
          DEF ExercisesInv, ProgramInv, EventInv, ApcInv, OneWorkerInv, Signaling, Locals
<1>9. CASE program \in Locals
  <2>0. m = Local!LocalMemory
    BY <1>9 DEF Memory, Counting, Signaling, Locals
  <2>1. LocalType /\ \A w \in Local!Pair : mem.own[w] = Local!InitialValue /\ mem.steps[w] = 0
    BY <1>2, <2>0 DEF LocalType, Local!LocalMemory, Local!Main, Main, Local!Pair,
       Local!InitialValue
  <2>2. OwnInv
    BY <1>3, <2>1 DEF OwnInv, Local!Pair, Worker
  <2>3. pc[Main] = "alloc"
    BY <1>3, <1>9 DEF First
  <2> QED BY <1>2, <1>3, <1>5, <1>6, <1>9, <2>1, <2>2, <2>3
          DEF ExercisesInv, ProgramInv, LocalInv, Locals, Worker
<1>10. CASE program = "hashScan"
  <2>0. PICK targets \in TargetLists, files \in FileLists : m = Table!ScanMemory(targets, files)
    BY <1>10 DEF Memory, Counting, Signaling, Locals, Table!Inputs
  <2>1. /\ targets \in Seq(Table!TargetHash) /\ files \in Seq(Nat)
        /\ HASH_TABLE_SIZE \in Nat \ {0}
    BY <2>0, ExercisesAssumption DEF Table!ValidInputs, Table!FileHash
  <2>2. 0 \in Table!Slot /\ 1 \in Nat \ {0}
    BY <2>1 DEF Table!Slot
  <2>3. PICK table \in [Table!Slot -> Nat] : table = [i \in Table!Slot |-> Table!EmptySlot]
    BY DEF Table!EmptySlot
  <2>4. mem = [table |-> table, targets |-> targets, files |-> files, next |-> 1,
               index |-> 0, total |-> 0, matching |-> 0]
    BY <1>2, <2>0, <2>3 DEF Table!ScanMemory
  <2>5. /\ ScanType /\ mem.next = 1 /\ mem.total = 0 /\ mem.matching = 0
        /\ mem.table = table /\ mem.targets = targets
    BY <2>1, <2>2, <2>4 DEF ScanType
  <2>6. TableInv(mem.next - 1)
    BY <2>3, <2>5 DEF TableInv
  <2>7. pc[Main] = "create"
    BY <1>3, <1>10 DEF First, Locals
  <2>8. mem.next <= Len(mem.targets) + 1
    BY <2>1, <2>5
  <2>9. ScanInv
    BY <1>2, <2>5, <2>6, <2>7, <2>8 DEF ScanInv
  <2> QED BY <1>5, <1>6, <1>10, <2>9 DEF ExercisesInv, ProgramInv, Locals
<1>11. CASE program = "walk"
  <2>0. PICK depth \in Depths : m = Tree!WalkMemory(depth)
    BY <1>11 DEF Memory, Counting, Signaling, Locals
  <2>1. <<>> \in WalkStack
    BY DEF WalkStack
  <2>2. mem = [maxDepth |-> depth, stack |-> <<>>, counted |-> 0, freed |-> {}]
    BY <1>2, <2>0 DEF Tree!WalkMemory
  <2>3. WalkType /\ mem.stack = <<>> /\ mem.counted = 0 /\ mem.freed = {}
    BY <2>1, <2>2 DEF WalkType
  <2>4. pc[Main] = "alloc" /\ pc["A"] = "none" /\ pc["B"] = "none" /\ pc["C"] = "none"
    BY <1>3, <1>11 DEF First, Worker
  <2>5. WalkInv
    BY <1>2, <2>3, <2>4 DEF WalkInv
  <2> QED BY <1>5, <1>6, <1>11, <2>5 DEF ExercisesInv, ProgramInv, Locals
<1> QED BY <1>4, <1>7, <1>8, <1>9, <1>10, <1>11 DEF Program

\* What has been computed still is, and what excuses a failure still does.
LEMMA VerdictStays ==
  ASSUME ProcessInv, UNCHANGED <<pc, mem, program>>, faulted \subseteq faulted'
  PROVE  (Computed => Computed') /\ (Excused => Excused')
<1>1. faulted # {} => faulted' # {}
  OBVIOUS
<1>2. Excused => Excused'
  BY <1>1 DEF Excused
<1>3. UNCHANGED Tree!FilesDownTo(mem.maxDepth)
  BY DEF Tree!FilesDownTo
<1>4. ASSUME Computed PROVE Computed'
  <2>1. CASE program \in Counting
    BY <1>3, <1>4, <2>1 DEF Computed, Counting, Signaling, Locals
  <2>2. CASE program \in Signaling
    BY <1>1, <1>4, <2>2 DEF Computed, Counting, Signaling, Locals
  <2>3. CASE program \in Locals
    BY <1>4, <2>3 DEF Computed, Counting, Signaling, Locals
  <2>4. CASE program = "hashScan"
    BY <1>4, <2>4 DEF Computed, Locals
  <2>5. CASE program = "walk"
    BY <1>1, <1>3, <1>4, <2>5 DEF Computed, Locals
  <2> QED BY <2>1, <2>2, <2>3, <2>4, <2>5 DEF ProcessInv, Program
<1> QED BY <1>2, <1>4

\* A step that changes nothing.
LEMMA ExercisesStay ==
  ASSUME ExercisesInv, UNCHANGED vars
  PROVE  ExercisesInv'
<1>1. UNCHANGED <<pc, suspends, signaled, open, mem, exit, faulted, program>>
  BY DEF vars, processVars, others
<1>2. ProcessInv'
  BY <1>1 DEF ExercisesInv, ProcessInv
<1>3. VerdictInv'
  BY <1>1, VerdictStays DEF ExercisesInv, VerdictInv
<1>4. UNCHANGED <<CounterType, RoundsInv, LockInv>>
      /\ \A S : UNCHANGED <<SumInv(S), MainInv(S)>>
  BY <1>1 DEF CounterType, RoundsInv, LockInv, SumInv, Made, MainInv
<1>5. UNCHANGED <<WritersInv, WaiterInv>>
  BY <1>1 DEF WritersInv, WaiterInv, Written, Made
<1>6. UNCHANGED <<WaitInv, InterlockedInv, CriticalInv, SRWInv>>
  BY <1>1, <1>4, <1>5 DEF WaitInv, InterlockedInv, CriticalInv, SRWInv
<1>7. UNCHANGED <<EventInv, ApcInv>>
  BY <1>1 DEF EventInv, ApcInv, OneWorkerInv, SignalsType, Ended
<1>8. LocalInv => LocalInv'
  BY <1>1 DEF LocalInv, LocalType, OwnInv
<1>9. ScanInv => ScanInv'
  BY <1>1, ScanStays
<1>10. WalkInv => WalkInv'
  BY <1>1 DEF WalkInv, WalkType
<1>11. ProgramInv'
  BY <1>1, <1>6, <1>7, <1>8, <1>9, <1>10 DEF ExercisesInv, ProgramInv
<1> QED BY <1>2, <1>3, <1>11 DEF ExercisesInv

\* What a step preserves.
LEMMA ExercisesStep == ExercisesInv /\ [Next]_vars => ExercisesInv'
<1> SUFFICES ASSUME ExercisesInv, [Next]_vars PROVE ExercisesInv'
  OBVIOUS
<1>1. CASE UNCHANGED vars
  BY <1>1, ExercisesStay
<1>2. ASSUME NEW t \in Thread, Step(t)
      PROVE  ExercisesInv'
  <2>1. /\ ProcessInv' /\ ProgramInv' /\ exit = "running" /\ faulted \subseteq faulted'
        /\ exit' # exit => /\ UNCHANGED <<pc, mem>>
                           /\ exit' = "passed" => Computed
                           /\ exit' = "failed" => Excused \/ faulted' # {}
    BY <1>2, ActStep DEF ExercisesInv, Running
  <2>2. CASE exit' = exit
    BY <2>1, <2>2 DEF ExercisesInv, VerdictInv
  <2>3. CASE exit' # exit
    <3>1. UNCHANGED program
      BY <1>2 DEF Step
    <3>2. (Computed => Computed') /\ (Excused => Excused')
      BY <2>1, <2>3, <3>1, VerdictStays DEF ExercisesInv
    <3>3. faulted' # {} => Excused'
      BY DEF Excused
    <3> QED BY <2>1, <2>3, <3>2, <3>3 DEF ExercisesInv, VerdictInv
  <2> QED BY <2>2, <2>3
<1> QED BY <1>1, <1>2 DEF Next, Exited

\* The invariant says all that ResultIsRight does.
LEMMA ExercisesRight == ExercisesInv => ResultIsRight
<1> SUFFICES ASSUME ExercisesInv PROVE ResultIsRight
  OBVIOUS
<1>1. program \in Program /\ ProcessInv /\ ProgramInv
  BY DEF ExercisesInv, ProcessInv
<1>2. (exit = "passed" => Computed) /\ (exit = "failed" => Excused)
  BY DEF ExercisesInv, VerdictInv
<1>3. ASSUME ~open, faulted = {} PROVE AllEnded
  <2>1. CASE program = "criticalSection"
    <3>1. \A w \in Worker : pc[w] = "done"
      BY <1>1, <1>3, <2>1 DEF ProgramInv, CriticalInv, MainInv
    <3> QED BY <3>1 DEF AllEnded, Alive, Ended
  <2>2. CASE program \in Signaling
    <3>1. pc["A"] \in {"done", "failed"} /\ pc["B"] = "none" /\ pc["C"] = "none"
      BY <1>1, <1>3, <2>2
         DEF ProgramInv, EventInv, ApcInv, OneWorkerInv, Ended, Signaling
    <3> QED BY <3>1 DEF AllEnded, Alive, Ended, Worker
  <2>3. CASE program \notin Signaling \cup {"criticalSection"}
    <3>1. open
      BY <1>1, <2>3 DEF ProgramInv, WaitInv, InterlockedInv, SRWInv, LocalInv, ScanInv,
         WalkInv, Program, Counting, Signaling
    <3> QED BY <1>3, <3>1
  <2> QED BY <2>1, <2>2, <2>3
<1>4. ASSUME program \in {"criticalSection", "srwLocked"}
      PROVE  Cardinality(mem.holders) <= 1 /\ ~mem.lost
  <2>1. LockInv
    BY <1>1, <1>4 DEF ProgramInv, CriticalInv, SRWInv
  <2>2. mem.holders = {} \/ \E w : mem.holders = {w}
    BY <2>1 DEF LockInv
  <2>3. Cardinality(mem.holders) \in {0, 1}
    BY <2>2, FS_EmptySet, FS_Singleton
  <2> QED BY <2>1, <2>3 DEF LockInv
<1>5. ASSUME program = "walk" PROVE Cardinality(mem.freed) <= 1
  <2>1. mem.freed = {} \/ \E t : mem.freed = {t}
    BY <1>1, <1>5 DEF ProgramInv, WalkInv
  <2>2. Cardinality(mem.freed) \in {0, 1}
    BY <2>1, FS_EmptySet, FS_Singleton
  <2> QED BY <2>2
<1> QED BY <1>2, <1>3, <1>4, <1>5 DEF ResultIsRight

\* What holds of each of the small programs in all their states, for any number
\* of rounds, any hashes and any tree: the sums that the threads make, the walks
\* to the vacant slots of the table, and the entries that a walk has passed.
THEOREM ExercisesInvariant == Spec => []ExercisesInv
<1> QED BY ExercisesInit, ExercisesStep, PTL DEF Spec

\* Each of the small programs computes what it is there to show, in every
\* schedule, or a call has failed: nothing is lost under a lock, thread-local
\* values are each thread's own, the table finds exactly the hashes that it
\* was given, and every file of the tree is counted once.
THEOREM ResultsAreRight == Spec => []ResultIsRight
<1> QED BY ExercisesInvariant, ExercisesRight, PTL
=============================================================================
