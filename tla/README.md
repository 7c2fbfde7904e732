# WinApiDev101 in TLA+

WinApiDev101 is a collection of C++ programs that show the threads, the
synchronisation objects and the asynchronous I/O of the Win32 API. Each is a
process of its own with one source file; none has tests. This directory models
all of them but two that only print what they read, checks the models with TLC,
and proves the safety properties of every one modelled with TLAPS, for every
value of the constants.

## Inventory

Every program keeps its state in globals and in the locals of its threads, and
its threads interact through shared memory and kernel objects (events,
semaphores, mutexes, critical sections, completion ports, thread pools).
Nothing is persisted. `main` creates, waits, cleans up and returns; when it
returns, the process ends with whatever thread still runs.

| Program | State | Operations | What is hard | What makes it correct |
|---|---|---|---|---|
| AsyncIOExample | queue (`pHead`..`pTail`), event `hDataAvailable`, `bFinished`; each thread's buffer, offset and result | `EnqueueBuffer`, `DequeueBuffer`, `ReaderThread`, `WriterThread`, `StartCopy` | a flag written outside the lock, a wait with a timeout, results ignored, buffers that change hands | no chunk lost, event and queue agree, a buffer is freed once, TRUE means copied, it ends |
| CreateIOCompletionPortExample | `g_OpCount`, `g_hCompletionEvent`, the port, `IO_DATA` in flight | `WorkerThreadProc`, `StartCopy`, 16 times | completions in any order, a count that must not reach zero early, an event created late | the count is that of the live operations, the event means nothing is in flight |
| ThreadPoolImplementFileEnumeration | hash table, `g_ActiveTasks`, counters by phase, work items | table operations, `EnqueueDirectory`, `ScanDirectoryCallback`, two phases in `wmain` | callbacks that queue callbacks, look-ups without a lock, failures half way | look-up is membership, zero tasks means no callback, the recap is exact |
| CreateThreadWithSemaphore | ring of five slots, two indices, two semaphores, a critical section | `ProducerThread`, `ConsumerThread` | the ring full and empty, tokens, clean-up under a running thread | FIFO, no slot overwritten, no deadlock |
| HashTableCalculation | hash table with 0 as the empty mark | insert, look-up, recursive directory walk | walks that only a vacant slot ends, the hash 0 | look-up is membership, it ends |
| FileEnumAlgorithm | recursion over directories | directory walk with a filter | depth, reparse points | every file once |
| CreateThreadSRWLocked, CreateThreadSafeFunction, CreateThreadWithCriticalSection | one counter | increments under a lock or interlocked, a reader | handles and joins | no lost update, all joined |
| WaitOnAddressCode | one counter without a lock | two writers, a waiter on the address | lost update, and with it a waiter that never ends | the waiter ends |
| CreateThreadSignaledEvent, CreateThreadWithAPC | an event; an APC queue | set and wait; queue and alertable wait | order of signal and wait | the wait ends |
| CreateThreadWithDynamicTLS, CreateThreadWithStaticTLS | a value per thread | set and get | sharing by mistake | a thread sees its own value |
| ExplorePEB, ProcessAndThreadEnum | none of their own | query and print | - | - |
| WindowsThreadLlifecycle 01-12 | gates (events), counters, mutexes, suspend counts, handles, a pool, a window | birth, gates, waits, affinity, priority, suspend, mutexes, termination, pools, APCs, messages | abort and deadline against every phase, bounded waits, messages after the window has gone | workers end on every path, mutexes are released by their owner, the verdict printed is true |

## Modules

| Module | Models | State and actions |
|---|---|---|
| `FifoTransfer` | nothing by itself: the promise of a hand-over buffer | `sent`, `received`; `Send`, `Receive` |
| `AsyncCopy` | AsyncIOExample | the program counters `rpc`, `wpc`, `mpc` of `ReaderThread`, `WriterThread` and `StartCopy`/`main`; `queue`, `hDataAvailable`, `bFinished`; one action per call with each of its outcomes |
| `BoundedBuffer` | CreateThreadWithSemaphore | the ring and its indices, both semaphore counts, the owner of the critical section; one action per call of either thread |
| `HashTable` | the table of ThreadPoolImplementFileEnumeration | `g_HashTable` as values with a flag; array inserts one hash at a time, clear; look-up, `HashEmpty` and the probe walk as operators |
| `IocpCopy` | CreateIOCompletionPortExample | the port as a queue of packets, the sets of reads and writes in flight, `g_OpCount`, the event as null, unset, set or stale; `WorkerThreadProc`, `StartCopy`, and `Device`, which completes operations in any order |
| `ScanPool` | the scan of ThreadPoolImplementFileEnumeration | work items by directory and phase with their stage, `g_ActiveTasks`, the counters; the callback entry by entry, `wmain`'s two phases |
| `CrossWait` | bounded_deadlock of life cycle 07 | the two mutexes by their owner, the phase events as the sets of workers that have set them, `g_abort`; `DeadlockWorker` wait by wait with `FinishWorker`, `main` phase by phase, and the deadline |
| `GatedProcess` | nothing by itself: what the programs of the life cycle, and the small programs, share | the label of each thread `pc`, `suspends`, the `signaled` events, whether they are `open`, the memory `mem`, how the process ended `exit`; the steps a program is put together from |
| `ThreadBirth` | life cycle 01 and 09 | created at once, or suspended and resumed; the gate deep in the worker's stack |
| `SharedState` | life cycle 02 | two workers, two gates, the counter, what the TLS slots and main's pointers point to |
| `BusyWait` | life cycle 03 | the blocking worker, the polling one, main's observation of either |
| `Affinity` | life cycle 04 | the eligible processors, pinning, the deadline, where each worker ran |
| `Priorities` | life cycle 05 | the stop and start events, bounded burning, clean-up and joins |
| `SuspendCount` | life cycle 06 | the count, the resumes owed, the clean-up that pays them |
| `Contention` | mutex_contention of life cycle 07 | the mutex by its owner, the owner's and the contender's phases, the abort |
| `HandleLifetime` | life cycle 08 | the handles main has, the worker's progress and its acknowledgement |
| `WorkItems` | life cycle 10 | dedicated threads with two gates; the pool, its counters and its peak |
| `ApcDelivery` | life cycle 11 | the APC queued and called, the alertable wait and the other |
| `Responsiveness` | life cycle 12 | the message queue, the timer, the user, `AppState`, the worker and its message |
| `SharedCounters` | CreateThreadSafeFunction, CreateThreadWithCriticalSection, CreateThreadSRWLocked, WaitOnAddressCode | the counter with its reads and writes, the lock by its holders, the sleepers on the address |
| `Signals` | CreateThreadSignaledEvent, CreateThreadWithAPC | the event, the APC queue |
| `ThreadLocal` | CreateThreadWithDynamicTLS, CreateThreadWithStaticTLS | each thread's own value |
| `SentinelTable` | HashTableCalculation | the table with 0 as the vacant mark, each step of a walk, the two counts |
| `DirectoryWalk` | FileEnumAlgorithm | the calls on the stack, the depth, the parameters and who frees them |
| `Exercises` | the ten programs of the five modules above | the program that runs; the step of each of its threads |
| `LifeCycle` | the twenty programs of the life cycle other than bounded_deadlock | the program that runs; the step of each of its threads |
| `MC*` | | instances for TLC |
| `*Proofs` | | theorems and their proofs |

How a program becomes a model:

* A chunk, a buffer or an `IO_DATA` is the number of its chunk; a file's content
  is the sequence or set of chunks in it. A directory entry is a directory, a
  file with the hash of its extension, or one that is skipped. `CRC32W` and the
  paths are not computed.
* A block under a critical section is one step where everything that it touches
  is touched only under that section; in `BoundedBuffer`, where the exclusion is
  itself of interest, entering, working and leaving are steps of their own.
  Interlocked operations are one step each. `bFinished`, which is written
  outside the section, is read and written in steps of its own.
* What may fail is listed by name in `FaultKinds`; the constant `Faults` says
  which of these may happen in an instance, `faulted` remembers which did.
  Each is an alternative of the action that makes the call.
* A wait that may time out is two actions. A timeout of the writer's wait
  stands for one second without a signal: with the reader still at work that is
  the fault `slowRead`.
* In `CrossWait` time is one bit, `late`: the 18 seconds of `g_deadline` are
  over. `RemainingMs` is never zero, so a wait for what is already signaled ends
  well even then; the bounded wait for the second mutex may time out whenever
  the mutex is held. `g_abort` is first in every wait, so it goes first.
* Variables marked "history" are not in the code; no guard reads them.
* The programs built on `GatedProcess` are one process each, with main and up to
  three workers. A step is one call of the program and is written with the
  label it leaves and the label it leads to: `SignalEvent(w, "begin",
  "prepared", "gate")` is `SetEvent(prepared)` at the worker's entry. What a
  thread does between two calls that others can see is part of one of them.
  `AwaitOrExit` is `WaitOne` or `WaitBoth`, whose timeout ends the process;
  `CheckFails` lists the labels at which some call may fail and do so;
  `StepFails`, `AwaitOrAbort`, `Join` and `CloseJoined` are the other
  convention of these programs, where main remembers the failure and cleans
  up. `SharedCounters`, `Signals`, `ThreadLocal`, `SentinelTable` and
  `DirectoryWalk` borrow the same steps.
* Such a program has two faults: `call`, some call that can fail has failed, and
  `slow`, a bounded wait has timed out, or a loop has met the deadline it looks
  at. Which call it is is the label. A worker that does no work because it never
  ran is no fault but a schedule.
* `LifeCycle` and `Exercises` choose the program in the initial state.
  They are the compositions: each instantiates its modules over the one state
  of `GatedProcess`, states the properties over all the programs at once, and
  dispatches the step of each thread to the program that was chosen.

`ScanPool` takes the hash table for the set of the hashes in it: that is
`LookupIsMembership` of `HashTable`, proved in `HashTableProofs`, and the room
for every hash of a phase follows from `ResultTellsInsertion` (three
hashes, 1024 slots: a call cannot find the table full).

## Runs

| Run | Instance | Shows |
|---|---|---|
| `async_copy` | 3 chunks, all faults | the properties of the queue, buffers and threads below, and that the program is a `FifoTransfer` |
| `async_copy_slow_read` | 2 chunks, only a slow read | violation: success reported, a chunk missing |
| `async_copy_write_fails` | 2 chunks, only a failing write | violation: success reported, a chunk missing |
| `bounded_buffer` | 3 slots, 7 items, all faults | tokens, FIFO, termination |
| `hash_table` | 3 slots, 6 hashes, arrays of up to 2 | look-up, uniqueness, the answer of each call |
| `iocp_copy` | 3 chunks, 2 copies, all faults | count, ownership, quiescence, result, files, termination |
| `iocp_outrun` | 1 chunk, 1 copy, only the outrun | violation: the count is zero and the event never signaled |
| `scan_pool` | 4 directories, 2 drives, 2 threads, 2 phases, all faults | count, table, recap, termination |
| `scan_queue_drive` | the same, only a drive that cannot be queued | violation: the table is cleared under running callbacks |
| `cross_wait` | the two workers, all faults | the cycle is broken, mutexes go back, the verdict, termination |
| `life_cycle` | the other 20 programs of the life cycle, all faults | what main looks at holds still, handles outlive threads, the exit code is right, termination |
| `exercises` | the 10 small programs, failing calls | the result is right in every schedule, termination but for two known reasons |

Why the bounds are enough:

* Three chunks make a queue that is empty, has one item and has several, a
  first, a middle and a last chunk, and a reader that is ahead of the writer by
  more than one. The proofs in `AsyncCopyProofs` have no bound.
* Seven items in three slots go round the ring more than twice, full and
  empty; `BoundedBufferProofs` has no bound.
* Six hashes in three slots: every home slot has two of them, the walk wraps
  round, the table fills up and refuses. `HashTableProofs` has no bound.
* With three chunks a write and the read after the next are in flight at the
  same time and complete in either order. The second copy starts with the stale
  handles of the first.
* The forest has a directory below a directory below a drive, a drive without
  subdirectories, an entry that is skipped, files of either phase and a file
  without extension; two threads let a parent run beside its child and the
  drives beside one another.
* `CrossWait` has the two workers of the program and no bound.
* `life_cycle`: the workers are those of each program. Of the six tasks of
  life cycle 10 there are three, in the pool on two threads: two callbacks
  overlap, and each finds the other's peak both raised and not yet raised;
  of 100000 increments there are two, which is enough for the counter to be
  read half way. Three processors, any of which may be eligible: none, too few,
  and a gap below the lowest. The progress counter stops at 4, enough for
  ticks before the request, between main's reading and the request, and after.
  Two clicks: a second run, and a click that comes while the first is under way
  or the window is closing. These five are the constants `Tasks`, `Increments`,
  `Processor`, `MaxProgress` and `MaxClicks`; `LifeCycleProofs` has no bound.
* `exercises`: two rounds of increments by the threads of each program, so that
  a round overlaps both rounds of another; two steps of a thread-local value.
  The table has three slots for two targets of any hash and two files of any
  hash, 0 among them: walks that collide, wrap round, and end at the only
  vacant slot. The tree has three levels, a link back to its top, and any
  depth asked for; the stack has room for two calls instead of seven, so that
  it runs out within the tree. `ExercisesProofs` has no bound.

No state is cut off: all counters are bounded by the instances themselves.

### Properties

`AsyncCopy`: `Conservation` (file, writer and queue hold every chunk enqueued,
in order), `EventTracksQueue` (the event is up over a waiting item and not for
long over an empty queue), `BufferOwnership` (each buffer is freed at most
once, and not while it is in use), `SuccessMeansComplete` (two threads that
report success have copied all that was queued, which is all that was read),
`QueueOutlivesThreads`, `Terminates`, `IsFifo`. `SuccessMeansComplete` has one
exception, a read that outlasts the writer's wait; a queue item that cannot be
allocated leaves a hole, and then the rest is in order all the same.
`BoundedBuffer`: `TokensConserved`, `ConsumedAsProduced`, `Terminates`,
`IsFifo`. `HashTable`: `LookupIsMembership`, `OneSlotEach`,
`ResultTellsInsertion` (the step that ends a call of
`InsertHashArrayInHashTable` answers TRUE exactly if all of the array is in the
table, and FALSE only if no slot is left for a hash that is not). `IocpCopy`:
`OpCountIsLive`, `IoDataOwnership`, `SignalMeansQuiescent`, `TrueMeansCopied`
(TRUE, unless an operation failed, means a destination without holes, and the
whole file unless an `IO_DATA` could not be allocated), `FilesOutliveOperations`,
`Terminates`. `ScanPool`: `ActiveCountsTasks`, `CallbackSeesItsTable`,
`RecapIsExact` (the recap counts the entries that the listings gave, once each;
`FindNextFileW` may break a listing off, which the code takes for its end and
counts nowhere, so it counts as far as it came), `Terminates`. `CrossWait`:
`NeverBothAcquire`,
`OwnersReleaseMutexes` (on every way out of `DeadlockWorker`; so no wait
can return `WAIT_ABANDONED`, and the model has no such outcome), `VerdictIsTrue`
(PASS and the open handles), `Terminates` (the timeout and the aborts are
enough; only where `SetEvent(g_abort)` itself fails must the deadline come to
the rescue).

`LifeCycle` (life cycle 01 to 12):
* `GatesHold`: whenever main samples or inspects its workers, or tells the user
  to, each is where the text says: not begun while suspended, at its gate, or
  holding still while main reads its stack and TLS through pointers. The
  mutex is owned, the deadline set.
* `HandlesOutliveThreads`: however the clean-up was come to, no event is closed
  that a worker may still wait for or set, and no window destroyed that one may
  still post to.
* `VerdictIsTrue`: exit code 0 means that every worker has ended well and that
  the program has shown what it is about (the counter has every increment, no
  resume is owed, the peak is the highest count, the APC was called or not);
  1 means that a call failed or a wait timed out. Two more ways to fail are
  named, and no other: `Starved`, where a program says of itself that a worker
  of life cycle 05 had no iteration in its slice, or that the window of 12 had
  no tick while its worker ran; and `ClosedByUser`, a window of an automatic run
  closed before its work was done. In an interactive run the user's close is a
  successful end, as life cycle 12's README has it.
* `Terminates`: every program ends; one with a window, when its user closes it.

`Exercises` (the small programs): `ResultIsRight` (no lost update where there
is a lock or an interlocked operation, a thread finds its own value, a file
matches exactly if its hash is a target's, each file down to the depth asked
for is counted once, or at most once if a listing fails or a path is too long,
parameters are freed once; WaitOnAddressCode returns only with every increment
in its counter: its two writers may lose one, but then its waiter waits on) and
`Terminates` (no wake-up is lost between the comparison and the sleep of
`WaitOnAddress`, every walk finds its vacant slot).

### Fairness

Each specification has weak fairness of each thread: the Windows scheduler
runs every ready thread in the end, and a step that is enabled here is one that
its thread can take without another's help. For `IocpCopy` it is also assumed
that every operation completes, for `ScanPool` that the pool runs every work
item. Fairness is of the thread as a whole and never of a single outcome: a
fault never has to happen, and never has to stop happening.
In `CrossWait` the deadline is a fault and has no fairness, so that nothing may
rest on it, until `g_abort` could not be signaled: then it does come.
In `life_cycle` fairness is that of the steps of each thread that are no
timeout, until a first fault has happened: two threads that wait for each other
would not be helped by their timeouts, and `Terminates` would fail. After a
fault the timeouts count too, since that is what these programs have them for
(a call that failed half way leaves a worker at a gate that only its own
timeout opens). In `exercises`, whose waits have no timeout, fairness is that
of the steps that are no fault.
`IocpCopy` is checked without TLC's deadlock check, since main really does
wait for ever when the worker has outrun it. So is `exercises`, where two
programs really can hang: WaitOnAddressCode after a lost increment, and
CreateThreadWithAPC when its `SetEvent`, whose result it does not look at,
fails. `Terminates` there names these two and no other.

## What the runs found

1. `WriterThread` reads `bFinished` after its wait has timed out
   (AsyncIOExample.cpp:179-185). When a read takes longer than the wait, the
   reader can enqueue the chunk and finish between the two: the writer leaves
   with the chunk in the queue, and StartCopy reports success.
2. `StartCopy` does not read the results of its threads
   (AsyncIOExample.cpp:261-268): a failed read or write is reported as success.
3. `StartCopy` creates `g_hCompletionEvent` after the first read has been
   started (CreateIOCompletionPortExample.cpp:220-232). A worker that is done
   by then signals NULL or the closed event of the copy before, and StartCopy
   waits for ever.
4. A drive that cannot be queued makes `ScanAllFixedAndRemovableDrives` return
   without draining (ThreadPoolImplementFileEnumeration.cpp:346-349): the next
   phase clears the table under running callbacks, which line 259 rules out.

## Proofs

All theorems are for every value of the constants that meets the module's
named assumption; TLC evaluates these assumptions in the runs above.

* `BoundedBufferProofs`. The properties are not inductive by themselves. The
  invariant ties everything to the loop indices: each semaphore count, with the
  token in the hands of a thread, is a difference of the two; `g_In` is ahead
  of `g_Out` by the difference of their moves, wrapped round; and the slots from
  `g_Out` on hold the items stored and not yet passed, in order. From it follow
  the type, the tokens, the order, and that every step is a step of
  `FifoTransfer`. The critical section is not needed: with one thread at each
  end the semaphores alone keep the two off the same slot.
* `HashTableProofs`. The invariant is that every occupied slot holds an inserted
  hash, with `LookupIsMembership` and `OneSlotEach`, and that the array of the
  call under way is what has been inserted of it and what is yet to come, from
  which `ResultTellsInsertion` follows as a property of steps. The lemma under it
  is that the probes of a walk reach every slot exactly once; an insert takes the
  first vacant slot of a walk, which no successful look-up crosses.
* `AsyncCopyProofs`. The invariant adds to the properties the order of
  `StartCopy` (which threads can exist at each point) and what each thread
  knows of its chunk: a writer that writes has one, a reader enqueues one
  below the end of the file. `Conservation` alone does not say who may free a
  buffer, so a second invariant, proved on top of the first, does the
  bookkeeping: chunks are enqueued in the order of the file, a freed chunk is
  one the writer has put into the file (or failed to) or the one the reader
  could not hand over, and a writer that saw a signal, or `bFinished` over an
  empty queue, has all there is. `BufferOwnership` and `SuccessMeansComplete`
  follow from it. `IsFifo` follows from both, action by action: under the
  mapping `sent <- enqueued`, `received <- dest` an enqueue is a `Send`, a
  write a `Receive`, and every other step a stutter.
* `CrossWaitProofs`. Two workers that both acquire would each have had to find
  the other's mutex free. The invariant says why they cannot: a worker that is
  at the other's mutex has seen the other announce itself, so the other has
  taken its own mutex before, and finding it free means that the other is
  leaving, with its result. For the verdict it adds what main knows of each
  worker it has joined, and that without a fault there is no abort.
* `IocpCopyProofs`. Every property says something about the `IO_DATA` alive, so
  the invariant locates each of them. Only the last chunk allocated is being
  read, and at most one packet in the port is about it (`FrontierInv`); no two
  packets are about the same chunk (`Distinct`), which makes the two cases of a
  packet taken from the port and of an operation completed by `Device` the same
  argument; `IoDataOwnership` then says that exactly the live ones are
  somewhere. `g_OpCount` is the size of that set (`CountInv`), and since the
  last decrement is the one that signals, a set event means `Quiet`. `MainInv`
  carries this along `StartCopy`, also into the next copy with its stale event,
  and `FaultInv` through the two failures of the set-up that leave the count at
  one, or the worker behind. `TrueMeansCopied` needs `CopyInv`: unless an
  operation has failed, every chunk allocated is in the file, being written, or the one
  about to be read, and the last one allocated is the last of the file unless an
  allocation has failed. Nothing else gets into the file (`WrittenInv`).
* `ScanPoolProofs`. Directories, listings, drives and the number of threads are
  constants, so the theorems are about every forest. An item becomes known
  once: its drive is behind `wmain`, or the one entry that leads to it is
  behind the callback of its parent (`OriginInv`; that one entry is
  `ScanPoolAssumption`, a directory has one parent). This is why a `QueueDirectory`
  finds its item new, and `g_ActiveTasks` stays the size of the set of items
  queued or running plus the ones counted ahead of their submission (`CountInv`).
  The drain therefore leaves an empty pool, and `TableInv` follows: a phase
  begins and ends with nobody running, unless a drive could not be queued. The
  recap takes `CoverInv` (nothing passed is forgotten), `ListingInv` (how far
  each listing is, and that only a broken-off one ends before its last entry) and
  `CountersInv`, which reads each counter as the number of entries passed; at the
  end of a phase these are the entries found in the directories visited. The
  prover sees no cardinality by itself, so each counter that moves cites one lemma on
  a set that gains one element.
  `TableIsImmutable` is the comment of line 259 with the failure excluded that
  the run `scan_queue_drive` shows to break it.
* `ExercisesProofs`. Each of the ten programs has an invariant of its own, and
  `ProgramInv` is that of the one that runs. The lock keeps what its holder has
  read equal to the counter (`LockInv`), so that the counter is always the sum
  of the rounds made (`SumInv`), and main's wait makes the sum complete
  (`MainInv`). Without the lock the counter falls behind the rounds with the
  first increment that is lost, and so does what a writer reads from then on
  (`WritersInv`): the waiter can only have seen the full count if none was lost
  (`WaiterInv`).
  A thread-local value is what its own thread has made of it (`OwnInv`).
  In the table with 0 as its vacant mark, a hash is found if there is a set of
  slots that starts at its home, is closed under the next step up to the hash,
  and has no vacant slot (`Stored`); a walk that is under way has come by such a
  set too (`Walking`). That a walk which gives up at a vacant slot has not
  missed a stored hash follows from these sets alone, and that a set closed
  under the step of a walk is the `WholeTable` from the least-element principle
  of the natural numbers. The walk over directories is a recursion, so its
  invariant has a history of its own: a set of directories, of which each was
  come by through the one entry that leads to it. The entries passed are those
  of this set but for what the stack has left of its innermost ones, the count is
  the number of files among them (`Walked`; at most that number once a listing
  has failed), and when the stack is empty a
  directory that was missed would have a parent that was missed, on a lower
  level (`AllSeen`). The assumptions are that 0 is no target (the targets are
  constants of the program) and that a file system without its links is a finite
  tree.
* `LifeCycleProofs`. As in `ExercisesProofs` there is one invariant per program,
  on top of what is the same of all (`ProcessInv`), and for each program one
  lemma for the steps of its workers and one for those of main, over lemmas on the
  steps that `GatedProcess` offers. Where a worker is, main can only know by
  events, so that `GatesHold` is not inductive by itself: the invariants say for
  each event where the worker that set it can be from then on, and that it has
  not gone on because what it waits for has not been set. The only excuse is a
  timeout of the worker's own gate (`slow`), and that is why `GatesHold` names it.
  A program that ends at its first failure ends its threads with it; where main
  cleans up instead, `CleanUp` and what follows it say at each step of the
  clean-up which workers have been joined, and that they were joined before
  `open` changes, which gives `HandlesOutliveThreads`. Of a program's own:
  the owner of the mutex by label, and that until main has seen the contention
  the owner is at its gate (`OwnerInv`, `PhaseInv`); the resumes owed are the
  suspend count; a task is in one place, the queue, a thread, or the set of those
  returned (`PlaceInv`); a highest count of callbacks that is not the peak yet
  is still carried by one that is about to raise it (`PeakInv`), so that the
  peak is right when all are done. For the windows, the queue of the one that
  computes holds one message at most (`BlockingMemory`), and the one with a worker
  is there as long as the worker is, which has left work undone only if it was
  told to, by a fault or the user (`Sound`). The assumptions are that the bounds
  are natural numbers and that there is a task. The programs, their workers (two
  threads in the pool) and their events are those of the code.

All invariants that the runs check are proved, and `IsFifo` with them. Only
model-checked is liveness, `Terminates` of each run, which the prover does not
handle (it would need `ENABLED`); the four violations are counterexamples that
TLC finds.

## Not modelled

* In AsyncIOExample: `CreateEvent` failing in `InitQueue`, whose result is
  ignored, and what follows from it (`SetEvent` fails and a linked node is
  freed); the event leaked by `DestroyQueue`, which closes the address of the
  handle.
* In CreateIOCompletionPortExample: the second `CloseHandle` of stale handles
  has no effect in the model; an empty source file, whose first read fails, is
  the fault `firstRead`.
* In ThreadPoolImplementFileEnumeration: the CRC and the extension's place in
  the path, the failing initialisation of pool and table (the program ends
  before its first phase), and the lock around the printing.
* In bounded_deadlock: `WAIT_ABANDONED` (see above), `WAIT_FAILED` and a failing
  `ReleaseMutex`, `GetExitCodeThread` or `CloseHandle`, which need a handle that
  is not valid; the naming of the main thread, before anything exists.
* In the life cycle: what is measured or printed (processor time, cycles,
  addresses, thread names), `WAIT_FAILED` of the APC worker, which needs a handle
  that is not valid, and the painting of the windows. Which thread the
  scheduler prefers is left open: a property may not rest on priorities.
* In WaitOnAddressCode: wake-ups without a cause, which its loop would absorb.
* In HashTableCalculation: the CRC (a file has a hash) and the recursion over the
  drives (a sequence of files); it follows links to directories, so a
  link back would make that sequence long, which `DirectoryWalk` shows for
  FileEnumAlgorithm, where links are skipped.
* In FileEnumAlgorithm: the parsing of its arguments and the paths.
* ExplorePEB and ProcessAndThreadEnum: they read system structures and print
  them. They have no state of their own, one thread, and no second step that
  could find the first one's result changed.
* Time, printing, processor usage, and the names and addresses of threads.

## Plan

| Step | Module | Models | Properties and theorems |
|---|---|---|---|
| done | `AsyncCopy`, `BoundedBuffer`, `HashTable`, `IocpCopy`, `ScanPool`, `CrossWait` | the six programs with a component of their own | as above |
| done | `GatedProcess` and the modules on it, `LifeCycle`, `Exercises` | the life cycle and the small programs | as above |
| done | `AsyncCopyProofs`, `BoundedBufferProofs`, `HashTableProofs`, `IocpCopyProofs`, `ScanPoolProofs`, `CrossWaitProofs` | | every safety property of the six programs with a component of their own |
| done | `Exercises`, `ExercisesProofs` | the small programs for any rounds, table and tree | `ResultIsRight` |
| done | `LifeCycle`, `LifeCycleProofs` | the programs of the life cycle for any increments, processors, tasks, ticks and clicks | `GatesHold`, `HandlesOutliveThreads`, `VerdictIsTrue` |
| next | `AsyncCopy` | `InitQueue` without its event, up to the freed node that is still linked | an enqueue that fails leaves the queue as it was: the code does not |
