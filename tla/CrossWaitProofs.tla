-------------------------- MODULE CrossWaitProofs ---------------------------
(***************************************************************************)
(* CrossWait whatever fails: who owns the two mutexes, that the workers    *)
(* never both acquire their second one, and that main's verdict is true.   *)
(***************************************************************************)
EXTENDS CrossWait, TLAPS

Before == {"none", "first", "announceOwned", "waitBegin", "announceAttempt"}
After  == {"report", "done"}

\* A worker that has announced its attempt has come that far, and one that is
\* at the other's mutex, or has it, has seen the other's announcement.
MeetInv == \A w \in Worker :
  /\ w \in attempting => pc[w] \notin Before
  /\ pc[w] \in {"cross", "releaseSecond"} => Other(w) \in attempting

\* A worker that has acquired its second mutex is past the wait, and the other
\* had already let go of its own.
AcquiredInv == \A w \in Worker :
  second[w] = "acquired" =>
    /\ pc[w] \in {"releaseSecond", "releaseFirst"} \cup After
    /\ pc[Other(w)] \in After

\* A worker that leaves without error has a result.
ResultInv == \A w \in Worker :
  pc[w] \in {"releaseSecond", "releaseFirst"} \cup After =>
    error[w] \/ second[w] \in {"timeout", "acquired"}

\* Where main is, and which workers there are.
StartedInv ==
  /\ mpc \notin {"start", "awaitOwned", "awaitAttempts", "join"} => k = 0
  /\ mpc = "start" => handlesOpen
  /\ mpc = "create" => \A w \in Worker : pc[w] = "none"
  /\ mpc = "start" => \A w \in Worker : pc[w] = "none" <=> w >= k
  /\ mpc = "abort" => ~success
  /\ mpc \notin {"create", "start"} /\ success =>
       \A w \in Worker : pc[w] # "none"

\* Worker w has been joined, and what main has made of it.
Joined(w) == \/ mpc \in {"verdict", "close", "return", "exited"}
             \/ mpc = "join" /\ k > w
JoinedInv ==
  /\ \A w \in Worker : Joined(w) => /\ success => pc[w] = "done" /\ Succeeded(w)
                                    /\ allJoined => Ended(w)
  /\ mpc \in {"close", "return", "exited"} /\ success =>
       \E w \in Worker : second[w] = "timeout"
  /\ handlesOpen \/ \A w \in Worker : Ended(w)

\* Without a fault nobody aborts and nothing fails.
QuietInv == faulted = {} => /\ success /\ ~abort /\ ~late
                            /\ \A w \in Worker : ~error[w]

IInv == /\ TypeOK /\ OwnersReleaseMutexes /\ MeetInv /\ AcquiredInv
        /\ NeverBothAcquire /\ ResultInv /\ StartedInv /\ JoinedInv /\ QuietInv

\* The initial state satisfies the invariant.
LEMMA InitInv == Init => IInv
<1> SUFFICES ASSUME Init PROVE IInv
  OBVIOUS
<1>1. TypeOK
  BY DEF Init, TypeOK, MainStep, WorkerStep, Result, Worker
<1>2. OwnersReleaseMutexes
  BY DEF Init, OwnersReleaseMutexes, Worker, Other, Nobody
<1>3. MeetInv /\ AcquiredInv /\ NeverBothAcquire /\ ResultInv
  BY DEF Init, MeetInv, AcquiredInv, NeverBothAcquire, ResultInv, Worker, After
<1>4. StartedInv /\ JoinedInv /\ QuietInv
  BY DEF Init, StartedInv, JoinedInv, QuietInv, Joined, Ended
<1> QED
  BY <1>1, <1>2, <1>3, <1>4 DEF IInv

\* No step leads out of the types: first of the worker's variables, then of
\* main's.
LEMMA TypeStep == ASSUME TypeOK, [Next]_vars PROVE TypeOK'
<1> USE CrossWaitAssumption
    DEF TypeOK, MainStep, WorkerStep, Result, Freed, AbortOnError, SetAbort, Worker,
        Other, Nobody, Step, Fails, GoTo, MainFails, EachWorker, NextIndex,
        NoFault, Fault, Running, mainVars, workerVars, events
<1>1. ASSUME NEW w \in Worker, DeadlockWorker(w) PROVE TypeOK'
  <2> USE <1>1 DEF DeadlockWorker, TakeFirst, FirstGivesUp, AnnounceOwned, WaitBegin,
        AnnounceAttempt, WaitOther, TakeSecond, SecondTimesOut, SecondAborted,
        ReleaseSecond, ReleaseFirst, Report
  <2>1. UNCHANGED <<mpc, k, success, allJoined, handlesOpen, late>>
    OBVIOUS
  <2>2. pc' \in [Worker -> WorkerStep]
    OBVIOUS
  <2>3. second' \in [Worker -> Result]
    OBVIOUS
  <2>4. error' \in [Worker -> BOOLEAN]
    OBVIOUS
  <2>5. owner' \in [Worker -> Worker \cup {Nobody}]
    OBVIOUS
  <2>6. firstOwned' \subseteq Worker /\ attempting' \subseteq Worker
    OBVIOUS
  <2>7. begin' \in BOOLEAN /\ abort' \in BOOLEAN
    OBVIOUS
  <2>8. faulted' \subseteq Faults
    OBVIOUS
  <2> QED
    BY <2>1, <2>2, <2>3, <2>4, <2>5, <2>6, <2>7, <2>8, Zenon DEF TypeOK
<1>2. CASE Main
  <2> USE <1>2 DEF Main, CreateObjects, StartWorker, AwaitOwned, ReleaseCross,
        AwaitAttempts, PassCheckpoint, Abort, JoinWorker, JoinFails, Verdict,
        CloseObjects, Exit
  <2>1. mpc' \in MainStep /\ k' \in Worker
    OBVIOUS
  <2>2. success' \in BOOLEAN /\ allJoined' \in BOOLEAN /\ handlesOpen' \in BOOLEAN
    OBVIOUS
  <2>3. pc' \in [Worker -> WorkerStep]
    OBVIOUS
  <2>4. UNCHANGED <<second, error, owner>>
    OBVIOUS
  <2>5. firstOwned' \subseteq Worker /\ attempting' \subseteq Worker
    OBVIOUS
  <2>6. begin' \in BOOLEAN /\ abort' \in BOOLEAN /\ late' \in BOOLEAN
    OBVIOUS
  <2>7. faulted' \subseteq Faults
    OBVIOUS
  <2> QED
    BY <2>1, <2>2, <2>3, <2>4, <2>5, <2>6, <2>7, Zenon DEF TypeOK
<1>3. CASE Deadline
  BY <1>3 DEF Deadline
<1>4. CASE UNCHANGED vars
  BY <1>4 DEF vars
<1> QED
  BY <1>1, <1>2, <1>3, <1>4 DEF Next, Exited

\* A mutex is taken when it is free, and given up at FinishWorker only.
LEMMA OwnerStep ==
  ASSUME TypeOK, OwnersReleaseMutexes, StartedInv, [Next]_vars
  PROVE  OwnersReleaseMutexes'
<1> USE CrossWaitAssumption
    DEF TypeOK, OwnersReleaseMutexes, StartedInv, SecondFree, Freed, Signaled,
        GivesUp, Worker, Other, Nobody, Step, Fails, GoTo, MainFails,
        EachWorker, NextIndex, NoFault, Fault, Running, mainVars, workerVars,
        events
<1>1. ASSUME NEW w \in Worker, DeadlockWorker(w) PROVE OwnersReleaseMutexes'
  BY <1>1
  DEF DeadlockWorker, TakeFirst, FirstGivesUp, AnnounceOwned, WaitBegin,
      AnnounceAttempt, WaitOther, TakeSecond, SecondTimesOut, SecondAborted,
      ReleaseSecond, ReleaseFirst, Report
<1>2. CASE Main
  BY <1>2
  DEF Main, CreateObjects, StartWorker, AwaitOwned, ReleaseCross,
      AwaitAttempts, PassCheckpoint, Abort, JoinWorker, JoinFails, Verdict,
      CloseObjects, Exit
<1>3. CASE Deadline
  BY <1>3 DEF Deadline
<1>4. CASE UNCHANGED vars
  BY <1>4 DEF vars
<1> QED
  BY <1>1, <1>2, <1>3, <1>4 DEF Next, Exited

\* An announcement stays.
LEMMA MeetStep ==
  ASSUME TypeOK, MeetInv, StartedInv, [Next]_vars
  PROVE  MeetInv'
<1> USE CrossWaitAssumption
    DEF TypeOK, MeetInv, StartedInv, Before, Signaled, Worker, Other, Nobody,
        Step, Fails, GoTo, MainFails, EachWorker, NextIndex, NoFault, Fault,
        Running, mainVars, workerVars, events
<1>1. ASSUME NEW w \in Worker, DeadlockWorker(w) PROVE MeetInv'
  BY <1>1
  DEF DeadlockWorker, TakeFirst, FirstGivesUp, AnnounceOwned, WaitBegin,
      AnnounceAttempt, WaitOther, TakeSecond, SecondTimesOut, SecondAborted,
      ReleaseSecond, ReleaseFirst, Report
<1>2. CASE Main
  BY <1>2
  DEF Main, CreateObjects, StartWorker, AwaitOwned, ReleaseCross,
      AwaitAttempts, PassCheckpoint, Abort, JoinWorker, JoinFails, Verdict,
      CloseObjects, Exit
<1>3. CASE Deadline
  BY <1>3 DEF Deadline
<1>4. CASE UNCHANGED vars
  BY <1>4 DEF vars
<1> QED
  BY <1>1, <1>2, <1>3, <1>4 DEF Next, Exited

\* The mutex acquired is free, its worker has met this one: it is leaving.
LEMMA AcquiredStep ==
  ASSUME TypeOK, OwnersReleaseMutexes, MeetInv, AcquiredInv, StartedInv, [Next]_vars
  PROVE  AcquiredInv'
<1> USE CrossWaitAssumption
    DEF TypeOK, OwnersReleaseMutexes, MeetInv, AcquiredInv, StartedInv,
        Before, After, SecondFree, Signaled, Worker, Other, Nobody, Step,
        Fails, GoTo, MainFails, EachWorker, NextIndex, NoFault, Fault,
        Running, mainVars, workerVars, events
<1>1. ASSUME NEW w \in Worker, DeadlockWorker(w) PROVE AcquiredInv'
  BY <1>1
  DEF DeadlockWorker, TakeFirst, FirstGivesUp, AnnounceOwned, WaitBegin,
      AnnounceAttempt, WaitOther, TakeSecond, SecondTimesOut, SecondAborted,
      ReleaseSecond, ReleaseFirst, Report
<1>2. CASE Main
  BY <1>2
  DEF Main, CreateObjects, StartWorker, AwaitOwned, ReleaseCross,
      AwaitAttempts, PassCheckpoint, Abort, JoinWorker, JoinFails, Verdict,
      CloseObjects, Exit
<1>3. CASE Deadline
  BY <1>3 DEF Deadline
<1>4. CASE UNCHANGED vars
  BY <1>4 DEF vars
<1> QED
  BY <1>1, <1>2, <1>3, <1>4 DEF Next, Exited

\* So the second to acquire would do so in a worker that is leaving.
LEMMA NotBothStep ==
  ASSUME TypeOK, AcquiredInv, NeverBothAcquire, [Next]_vars
  PROVE  NeverBothAcquire'
<1> USE CrossWaitAssumption
    DEF TypeOK, AcquiredInv, NeverBothAcquire, After, Worker, Other, Nobody,
        Step, Fails, GoTo, MainFails, EachWorker, NextIndex, NoFault, Fault,
        Running, mainVars, workerVars, events
<1>1. ASSUME NEW w \in Worker, DeadlockWorker(w) PROVE NeverBothAcquire'
  BY <1>1
  DEF DeadlockWorker, TakeFirst, FirstGivesUp, AnnounceOwned, WaitBegin,
      AnnounceAttempt, WaitOther, TakeSecond, SecondTimesOut, SecondAborted,
      ReleaseSecond, ReleaseFirst, Report
<1>2. CASE Main
  BY <1>2
  DEF Main, CreateObjects, StartWorker, AwaitOwned, ReleaseCross,
      AwaitAttempts, PassCheckpoint, Abort, JoinWorker, JoinFails, Verdict,
      CloseObjects, Exit
<1>3. CASE Deadline
  BY <1>3 DEF Deadline
<1>4. CASE UNCHANGED vars
  BY <1>4 DEF vars
<1> QED
  BY <1>1, <1>2, <1>3, <1>4 DEF Next, Exited

\* main starts the workers one after the other.
LEMMA StartedStep ==
  ASSUME TypeOK, StartedInv, [Next]_vars
  PROVE  StartedInv'
<1> USE CrossWaitAssumption
    DEF TypeOK, StartedInv, Ended, Worker, Other, Nobody, Step, Fails, GoTo,
        MainFails, EachWorker, NextIndex, NoFault, Fault, Running, mainVars,
        workerVars, events
<1>1. ASSUME NEW w \in Worker, DeadlockWorker(w) PROVE StartedInv'
  BY <1>1
  DEF DeadlockWorker, TakeFirst, FirstGivesUp, AnnounceOwned, WaitBegin,
      AnnounceAttempt, WaitOther, TakeSecond, SecondTimesOut, SecondAborted,
      ReleaseSecond, ReleaseFirst, Report
<1>2. CASE Main
  BY <1>2
  DEF Main, CreateObjects, StartWorker, AwaitOwned, ReleaseCross,
      AwaitAttempts, PassCheckpoint, Abort, JoinWorker, JoinFails, Verdict,
      CloseObjects, Exit
<1>3. CASE Deadline
  BY <1>3 DEF Deadline
<1>4. CASE UNCHANGED vars
  BY <1>4 DEF vars
<1> QED
  BY <1>1, <1>2, <1>3, <1>4 DEF Next, Exited

\* Every way out of DeadlockWorker sets an error or a result.
LEMMA ResultStep ==
  ASSUME TypeOK, ResultInv, StartedInv, [Next]_vars
  PROVE  ResultInv'
<1> USE CrossWaitAssumption
    DEF TypeOK, ResultInv, StartedInv, After, Worker, Other, Nobody, Step,
        Fails, GoTo, MainFails, EachWorker, NextIndex, NoFault, Fault,
        Running, mainVars, workerVars, events
<1>1. ASSUME NEW w \in Worker, DeadlockWorker(w) PROVE ResultInv'
  BY <1>1
  DEF DeadlockWorker, TakeFirst, FirstGivesUp, AnnounceOwned, WaitBegin,
      AnnounceAttempt, WaitOther, TakeSecond, SecondTimesOut, SecondAborted,
      ReleaseSecond, ReleaseFirst, Report
<1>2. CASE Main
  BY <1>2
  DEF Main, CreateObjects, StartWorker, AwaitOwned, ReleaseCross,
      AwaitAttempts, PassCheckpoint, Abort, JoinWorker, JoinFails, Verdict,
      CloseObjects, Exit
<1>3. CASE Deadline
  BY <1>3 DEF Deadline
<1>4. CASE UNCHANGED vars
  BY <1>4 DEF vars
<1> QED
  BY <1>1, <1>2, <1>3, <1>4 DEF Next, Exited

\* What main has made of a worker that has ended stays true.
LEMMA JoinedStep ==
  ASSUME TypeOK, StartedInv, JoinedInv, [Next]_vars
  PROVE  JoinedInv'
<1> USE CrossWaitAssumption
    DEF TypeOK, JoinedInv, Joined, StartedInv, Succeeded, Ended, Worker,
        Other, Nobody, Step, Fails, GoTo, MainFails, EachWorker, NextIndex,
        NoFault, Fault, Running, mainVars, workerVars, events
<1>1. ASSUME NEW w \in Worker, DeadlockWorker(w) PROVE JoinedInv'
  BY <1>1
  DEF DeadlockWorker, TakeFirst, FirstGivesUp, AnnounceOwned, WaitBegin,
      AnnounceAttempt, WaitOther, TakeSecond, SecondTimesOut, SecondAborted,
      ReleaseSecond, ReleaseFirst, Report
<1>2. CASE Main
  <2>1. CASE JoinWorker
    <3>1. Ended(k) /\ success' => pc[k] = "done" /\ Succeeded(k)
      BY <1>2, <2>1 DEF JoinWorker
    <3>2. UNCHANGED <<pc, second, error, allJoined, handlesOpen>> /\ (success' => success)
      BY <2>1 DEF JoinWorker
    <3> QED BY <2>1, <3>1, <3>2 DEF JoinWorker
  <2>2. CASE ~JoinWorker
    BY <1>2, <2>2
    DEF Main, CreateObjects, StartWorker, AwaitOwned, ReleaseCross,
        AwaitAttempts, PassCheckpoint, Abort, JoinFails, Verdict,
        CloseObjects, Exit
  <2> QED BY <2>1, <2>2
<1>3. CASE Deadline
  BY <1>3 DEF Deadline
<1>4. CASE UNCHANGED vars
  BY <1>4 DEF vars
<1> QED
  BY <1>1, <1>2, <1>3, <1>4 DEF Next, Exited

\* Without a fault no wait gives up, and at the verdict both have results, not
\* both of them "acquired".
LEMMA QuietStep ==
  ASSUME IInv, [Next]_vars
  PROVE  QuietInv'
<1> USE CrossWaitAssumption
    DEF IInv, TypeOK, QuietInv, ResultInv, AcquiredInv, NeverBothAcquire,
        StartedInv, JoinedInv, Joined, Succeeded, Ended, GivesUp,
        AbortOnError, SetAbort, After, Worker, Other, Nobody, Step, Fails, GoTo,
        MainFails, EachWorker, NextIndex, NoFault, Fault, Running, mainVars,
        workerVars, events
<1>1. ASSUME NEW w \in Worker, DeadlockWorker(w) PROVE QuietInv'
  BY <1>1
  DEF DeadlockWorker, TakeFirst, FirstGivesUp, AnnounceOwned, WaitBegin,
      AnnounceAttempt, WaitOther, TakeSecond, SecondTimesOut, SecondAborted,
      ReleaseSecond, ReleaseFirst, Report
<1>2. CASE Main
  BY <1>2
  DEF Main, CreateObjects, StartWorker, AwaitOwned, ReleaseCross,
      AwaitAttempts, PassCheckpoint, Abort, JoinWorker, JoinFails, Verdict,
      CloseObjects, Exit
<1>3. CASE Deadline
  BY <1>3 DEF Deadline
<1>4. CASE UNCHANGED vars
  BY <1>4 DEF vars
<1> QED
  BY <1>1, <1>2, <1>3, <1>4 DEF Next, Exited

\* The invariant holds in every reachable state.
THEOREM Invariance == Spec => []IInv
<1>1. IInv /\ [Next]_vars => IInv'
  <2> SUFFICES ASSUME IInv, [Next]_vars PROVE IInv'
    OBVIOUS
  <2> QED
    BY TypeStep, OwnerStep, MeetStep, AcquiredStep, NotBothStep, StartedStep,
       ResultStep, JoinedStep, QuietStep
    DEF IInv
<1> QED BY InitInv, <1>1, PTL DEF Spec

\* Whatever fails, every variable stays in its set.
THEOREM TypeCorrect == Spec => []TypeOK
<1>1. IInv => TypeOK
  BY DEF IInv
<1> QED BY Invariance, <1>1, PTL

\* Whatever fails, each mutex belongs to the worker whose code says so, and is
\* given back before its worker ends: no wait returns WAIT_ABANDONED.
THEOREM MutexesReleased == Spec => []OwnersReleaseMutexes
<1>1. IInv => OwnersReleaseMutexes
  BY DEF IInv
<1> QED BY Invariance, <1>1, PTL

\* The two workers never both acquire their second mutex: one at least ends its
\* wait in the timeout or the abort.
THEOREM CycleIsBroken == Spec => []NeverBothAcquire
<1>1. IInv => NeverBothAcquire
  BY DEF IInv
<1> QED BY Invariance, <1>1, PTL

\* "PASS" is the truth, it is printed if nothing fails, and no handle is closed
\* under a worker.
THEOREM VerdictCorrect == Spec => []VerdictIsTrue
<1>1. IInv => VerdictIsTrue
  BY DEF IInv, VerdictIsTrue, JoinedInv, Joined, QuietInv, Ended
<1> QED BY Invariance, <1>1, PTL
=============================================================================
