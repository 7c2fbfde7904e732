----------------------------- MODULE CrossWait ------------------------------
(***************************************************************************)
(* bounded_deadlock.cpp (thread life cycle, 07): two workers each take a   *)
(* mutex of their own, meet, and then wait for the other's with a timeout. *)
(* main lets them go on phase by phase, and aborts, joins and judges them. *)
(*                                                                         *)
(* Time is one bit: late says that g_deadline has passed, and only then    *)
(* does a wait of RemainingMs() time out.  The wait for the second mutex   *)
(* has a timeout of its own and may end in it whenever the mutex is held.  *)
(***************************************************************************)
EXTENDS Naturals

CONSTANT Faults   \* what may go wrong, a subset of FaultKinds

\* create: an event or a mutex; thread: _beginthreadex, or NameThread after it;
\* setAbort: SetEvent(g_abort), wherever it is called; deadline: 18 seconds go by.
FaultKinds == {"create", "thread", "setEvent", "setAbort", "checkpoint", "deadline"}

ASSUME CrossWaitAssumption == Faults \subseteq FaultKinds

Worker   == {0, 1}
Other(w) == 1 - w
Nobody   == 2

MainStep   == {"create", "start", "awaitOwned", "release", "awaitAttempts",
               "checkpoint", "abort", "join", "verdict", "close", "return",
               "exited"}
WorkerStep == {"none", "first", "announceOwned", "waitBegin",
               "announceAttempt", "waitOther", "cross", "releaseSecond",
               "releaseFirst", "report", "done"}
Result     == {"none", "timeout", "acquired", "aborted"}

VARIABLES
  mpc, k,              \* main, and the worker it is at
  success, allJoined,  \* main's verdict so far
  handlesOpen,         \* the mutexes and events
  pc,                  \* DeadlockWorker
  second,              \* WorkerState.secondResult
  error,               \* WorkerState.error is set
  owner,               \* of g_mutexes
  firstOwned, attempting, begin, abort,  \* the events that are signaled
  late,                \* g_deadline has passed
  faulted              \* history: the faults that have happened

mainVars   == <<mpc, k, success, allJoined, handlesOpen>>
workerVars == <<pc, second, error>>
events     == <<firstOwned, attempting, begin, abort>>
vars == <<mainVars, workerVars, owner, events, late, faulted>>

Init ==
  /\ mpc = "create" /\ k = 0 /\ success = TRUE /\ allJoined = TRUE
  /\ handlesOpen = FALSE
  /\ pc = [w \in Worker |-> "none"] /\ second = [w \in Worker |-> "none"]
  /\ error = [w \in Worker |-> FALSE]
  /\ owner = [w \in Worker |-> Nobody]
  /\ firstOwned = {} /\ attempting = {} /\ begin = FALSE /\ abort = FALSE
  /\ late = FALSE /\ faulted = {}

NoFault == UNCHANGED faulted
Fault(f) == f \in Faults /\ faulted' = faulted \cup {f}
Running == mpc # "exited"

\* WaitForMultipleObjects(g_abort, object, RemainingMs()): the object was
\* signaled, or g_abort was, which goes first, or the deadline has passed.
Signaled(e) == ~abort /\ e
GivesUp(e)  == abort \/ (~e /\ late)

\* The clock reaches g_deadline.
Deadline == /\ Running /\ ~late /\ Fault("deadline")
            /\ late' = TRUE
            /\ UNCHANGED <<mainVars, workerVars, owner, events>>
-----------------------------------------------------------------------------
(* DeadlockWorker *)

Step(w, from, to) == /\ Running /\ pc[w] = from /\ pc' = [pc EXCEPT ![w] = to]
                     /\ UNCHANGED <<mainVars, late>>

\* To FinishWorker with an error, and with the worker's own mutex.
Fails(w, from) == /\ Step(w, from, "releaseFirst")
                  /\ error' = [error EXCEPT ![w] = TRUE]
                  /\ UNCHANGED <<second, owner, events>>

TakeFirst(w) ==
  /\ Step(w, "first", "announceOwned") /\ Signaled(owner[w] = Nobody)
  /\ owner' = [owner EXCEPT ![w] = w]
  /\ UNCHANGED <<second, error, events, faulted>>

\* FinishWorker without a mutex.
FirstGivesUp(w) ==
  /\ Step(w, "first", "report") /\ GivesUp(owner[w] = Nobody)
  /\ error' = [error EXCEPT ![w] = TRUE]
  /\ UNCHANGED <<second, owner, events, faulted>>

AnnounceOwned(w) ==
  \/ /\ Step(w, "announceOwned", "waitBegin") /\ NoFault
     /\ firstOwned' = firstOwned \cup {w}
     /\ UNCHANGED <<second, error, owner, attempting, begin, abort>>
  \/ Fails(w, "announceOwned") /\ Fault("setEvent")

\* WaitPhase(g_beginCrossWait).
WaitBegin(w) ==
  \/ /\ Step(w, "waitBegin", "announceAttempt") /\ Signaled(begin)
     /\ UNCHANGED <<second, error, owner, events, faulted>>
  \/ Fails(w, "waitBegin") /\ GivesUp(begin) /\ NoFault

AnnounceAttempt(w) ==
  \/ /\ Step(w, "announceAttempt", "waitOther") /\ NoFault
     /\ attempting' = attempting \cup {w}
     /\ UNCHANGED <<second, error, owner, firstOwned, begin, abort>>
  \/ Fails(w, "announceAttempt") /\ Fault("setEvent")

\* WaitPhase(g_attempting[other]).
WaitOther(w) ==
  \/ /\ Step(w, "waitOther", "cross") /\ Signaled(Other(w) \in attempting)
     /\ UNCHANGED <<second, error, owner, events, faulted>>
  \/ Fails(w, "waitOther") /\ GivesUp(Other(w) \in attempting) /\ NoFault

\* The other's mutex is free.  Mutant: a lock that does not exclude.
SecondTaken(w) == TRUE
SecondFree(w) == owner[Other(w)] = Nobody

\* The wait for it ends in ownership ...
TakeSecond(w) ==
  /\ Step(w, "cross", "releaseSecond") /\ Signaled(SecondFree(w))
  /\ owner' = [owner EXCEPT ![Other(w)] = w]
  /\ second' = [second EXCEPT ![w] = "acquired"]
  /\ UNCHANGED <<error, events, faulted>>

\* ... in the timeout, which is no error ...
SecondTimesOut(w) ==
  /\ Step(w, "cross", "releaseFirst") /\ ~abort /\ owner[Other(w)] # Nobody
  /\ second' = [second EXCEPT ![w] = "timeout"]
  /\ UNCHANGED <<error, owner, events, faulted>>

\* ... or in the abort.
SecondAborted(w) ==
  /\ Step(w, "cross", "releaseFirst") /\ abort
  /\ second' = [second EXCEPT ![w] = "aborted"]
  /\ error' = [error EXCEPT ![w] = TRUE]
  /\ UNCHANGED <<owner, events, faulted>>

\* FinishWorker: ReleaseMutex of the other's mutex, if it is owned ...
ReleaseSecond(w) ==
  /\ Step(w, "releaseSecond", "releaseFirst")
  /\ owner' = [owner EXCEPT ![Other(w)] = Nobody]
  /\ UNCHANGED <<second, error, events, faulted>>

\* ... then of the worker's own.  Mutant: the worker keeps it.
Kept(w) == owner[w]
Freed(w) == Nobody
ReleaseFirst(w) ==
  /\ Step(w, "releaseFirst", "report")
  /\ owner' = [owner EXCEPT ![w] = Freed(w)]
  /\ UNCHANGED <<second, error, events, faulted>>

\* SetEvent(g_abort), which may fail: nobody is told then.
SetAbort == \/ abort' = TRUE /\ NoFault
            \/ UNCHANGED abort /\ Fault("setAbort")

\* Store the error and abort the other and main.  Mutant: an error is kept
\* to oneself.
AbortNobody(w) == UNCHANGED <<abort, faulted>>
AbortOnError(w) == \/ error[w] /\ SetAbort
                   \/ ~error[w] /\ UNCHANGED <<abort, faulted>>
Report(w) ==
  /\ Step(w, "report", "done") /\ AbortOnError(w)
  /\ UNCHANGED <<second, error, owner, firstOwned, attempting, begin>>

DeadlockWorker(w) ==
  \/ TakeFirst(w) \/ FirstGivesUp(w) \/ AnnounceOwned(w) \/ WaitBegin(w)
  \/ AnnounceAttempt(w) \/ WaitOther(w) \/ TakeSecond(w) \/ SecondTimesOut(w)
  \/ SecondAborted(w) \/ ReleaseSecond(w) \/ ReleaseFirst(w) \/ Report(w)
-----------------------------------------------------------------------------
(* main *)

GoTo(from, to) == mpc = from /\ mpc' = to /\ UNCHANGED late

\* A phase fails: success is lost and the workers are to be aborted.
MainFails(from) == /\ GoTo(from, "abort") /\ success' = FALSE /\ k' = 0
                   /\ UNCHANGED <<allJoined, handlesOpen, second, error, owner,
                                  events>>

\* From one worker to the next, and after both to another phase, at worker 0
\* again.  Mutant: the index is not reset.
IndexGoesOn == k + 1
NextIndex == 1 - k
EachWorker(at, to) == /\ GoTo(at, IF k = 0 THEN at ELSE to) /\ k' = NextIndex
                      /\ UNCHANGED <<handlesOpen, second, error, owner>>

\* The events and the mutexes.
CreateObjects ==
  \/ /\ GoTo("create", "start") /\ handlesOpen' = TRUE /\ NoFault
     /\ UNCHANGED <<k, success, allJoined, workerVars, owner, events>>
  \/ MainFails("create") /\ UNCHANGED pc /\ Fault("create")

\* _beginthreadex and NameThread of worker k.
StartWorker ==
  \/ /\ EachWorker("start", "awaitOwned") /\ NoFault
     /\ pc' = [pc EXCEPT ![k] = "first"]
     /\ UNCHANGED <<success, allJoined, events>>
  \/ /\ MainFails("start") /\ Fault("thread")
     /\ pc' \in {pc, [pc EXCEPT ![k] = "first"]}

\* AwaitPhase(g_firstOwned[k]).
AwaitOwned ==
  \/ /\ EachWorker("awaitOwned", "release") /\ Signaled(k \in firstOwned)
     /\ UNCHANGED <<success, allJoined, pc, events, faulted>>
  \/ /\ MainFails("awaitOwned") /\ GivesUp(k \in firstOwned)
     /\ UNCHANGED <<pc, faulted>>

\* SetEvent(g_beginCrossWait).
ReleaseCross ==
  \/ /\ GoTo("release", "awaitAttempts") /\ begin' = TRUE /\ NoFault
     /\ UNCHANGED <<k, success, allJoined, handlesOpen, workerVars, owner,
                    firstOwned, attempting, abort>>
  \/ MainFails("release") /\ UNCHANGED pc /\ Fault("setEvent")

\* AwaitPhase(g_attempting[k]).
AwaitAttempts ==
  \/ /\ EachWorker("awaitAttempts", "checkpoint") /\ Signaled(k \in attempting)
     /\ UNCHANGED <<success, allJoined, pc, events, faulted>>
  \/ /\ MainFails("awaitAttempts") /\ GivesUp(k \in attempting)
     /\ UNCHANGED <<pc, faulted>>

\* Checkpoint: Enter, a second, or no console.
PassCheckpoint ==
  \/ /\ GoTo("checkpoint", "join") /\ NoFault
     /\ UNCHANGED <<k, success, allJoined, handlesOpen, workerVars, owner, events>>
  \/ MainFails("checkpoint") /\ UNCHANGED pc /\ Fault("checkpoint")

\* SetEvent(g_abort), if there is one.
Abort ==
  /\ GoTo("abort", "join")
  /\ \/ handlesOpen /\ SetAbort
     \/ ~handlesOpen /\ UNCHANGED <<abort, faulted>>
  /\ UNCHANGED <<k, success, allJoined, handlesOpen, workerVars, owner,
                 firstOwned, attempting, begin>>

\* The worker has ended well: exit code, error and result.
Succeeded(w) == ~error[w] /\ second[w] \in {"timeout", "acquired"}

\* Worker k is joined and its result taken into the verdict.  Mutant: main
\* does not wait.
EndedAnyhow(w) == TRUE
Ended(w) == pc[w] \in {"none", "done"}

JoinWorker ==
  /\ EachWorker("join", "verdict") /\ Ended(k)
  /\ success' = (success /\ (pc[k] = "none" \/ Succeeded(k)))
  /\ UNCHANGED <<allJoined, pc, events, faulted>>

\* The join times out.
JoinFails ==
  /\ EachWorker("join", "verdict") /\ late /\ ~Ended(k)
  /\ success' = FALSE /\ allJoined' = FALSE /\ SetAbort
  /\ UNCHANGED <<pc, firstOwned, attempting, begin>>

\* "Expected at least one second-mutex timeout."; close the objects if no
\* worker can use them, and return.
Verdict ==
  /\ GoTo("verdict", "close")
  /\ success' = (success /\ \E w \in Worker : second[w] = "timeout")
  /\ UNCHANGED <<k, allJoined, handlesOpen, workerVars, owner, events, faulted>>

CloseObjects ==
  /\ GoTo("close", "return") /\ handlesOpen' = (handlesOpen /\ ~allJoined)
  /\ UNCHANGED <<k, success, allJoined, workerVars, owner, events, faulted>>

Exit ==
  /\ GoTo("return", "exited")
  /\ UNCHANGED <<k, success, allJoined, handlesOpen, workerVars, owner, events,
                 faulted>>

Main == \/ CreateObjects \/ StartWorker \/ AwaitOwned \/ ReleaseCross
        \/ AwaitAttempts \/ PassCheckpoint \/ Abort \/ JoinWorker \/ JoinFails
        \/ Verdict \/ CloseObjects \/ Exit

Exited == ~Running /\ UNCHANGED vars

Next == Main \/ Deadline \/ Exited \/ \E w \in Worker : DeadlockWorker(w)

\* The scheduler runs every thread that can run, and a bounded wait ends.  The
\* deadline comes some day; it is made to come only where it has to, once
\* g_abort could not be signaled.
Spec == /\ Init /\ [][Next]_vars /\ WF_vars(Main)
        /\ \A w \in Worker : WF_vars(DeadlockWorker(w))
        /\ WF_vars("setAbort" \in faulted /\ Deadline)
-----------------------------------------------------------------------------
(* Properties *)

\* Every variable stays in its set.
TypeOK ==
  /\ mpc \in MainStep /\ k \in Worker
  /\ success \in BOOLEAN /\ allJoined \in BOOLEAN /\ handlesOpen \in BOOLEAN
  /\ pc \in [Worker -> WorkerStep] /\ second \in [Worker -> Result]
  /\ error \in [Worker -> BOOLEAN]
  /\ owner \in [Worker -> Worker \cup {Nobody}]
  /\ firstOwned \subseteq Worker /\ attempting \subseteq Worker
  /\ begin \in BOOLEAN /\ abort \in BOOLEAN /\ late \in BOOLEAN
  /\ faulted \subseteq Faults

\* The cycle is broken by a timeout or an abort and by nothing else: the two
\* workers never both acquire their second mutex.
NeverBothAcquire == \E w \in Worker : second[w] # "acquired"

\* A mutex belongs to the worker whose code says so, and no worker ends with
\* one: none of the waits ever returns WAIT_ABANDONED.
OwnersReleaseMutexes ==
  \A w \in Worker :
    /\ owner[w] = w <=> pc[w] \notin {"none", "first", "report", "done"}
    /\ owner[w] = Other(w) <=> pc[Other(w)] = "releaseSecond"

\* "PASS" is printed only of two workers that have ended without error, at
\* least one of them by its timeout; without a fault it is printed.  And while
\* a worker is at work, the objects it waits for are open.
VerdictIsTrue ==
  /\ mpc \in {"return", "exited"} =>
       /\ success => /\ \A w \in Worker : pc[w] = "done" /\ Succeeded(w)
                     /\ \E w \in Worker : second[w] = "timeout"
       /\ faulted = {} => success
  /\ handlesOpen \/ \A w \in Worker : pc[w] \in {"none", "done"}

\* The deadlock is bounded: whatever fails, the program ends by its timeout and
\* its aborts, without waiting for the 18 seconds to go by.  If it is the abort
\* that cannot be signaled, the workers and main sit out the 18 seconds and then
\* end, each on its own.
Terminates == <>(mpc = "exited")
=============================================================================
