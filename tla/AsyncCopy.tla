----------------------------- MODULE AsyncCopy ------------------------------
(***************************************************************************)
(* AsyncIOExample.cpp: StartCopy starts ReaderThread, which reads a file   *)
(* chunk by chunk into a queue, and WriterThread, which empties the queue  *)
(* into the destination.  The queue is guarded by a critical section and   *)
(* announced by the manual-reset event hDataAvailable; bFinished is        *)
(* written outside the critical section.                                   *)
(*                                                                         *)
(* A chunk is its number in the source file; the buffer allocated for it   *)
(* has the same name.  A critical-section block is one step: all that it   *)
(* touches, but for the event, is touched under the lock only.             *)
(***************************************************************************)
EXTENDS Naturals, Sequences

CONSTANTS NumChunks,    \* chunks in the source file
          Faults        \* what may go wrong, a subset of FaultKinds

\* The calls that may fail; and a read that takes longer than the writer's
\* wait of one second.
FaultKinds == {"openSource", "allocChunk", "read", "eof", "allocItem",
               "openDest", "write", "createReader", "createWriter",
               "slowRead"}

ASSUME AsyncCopyAssumption == /\ NumChunks \in Nat
                              /\ Faults \subseteq FaultKinds

Chunk == 1..NumChunks
NULL  == 0

VARIABLES
  queue,          \* the items from pHead to pTail
  hDataAvailable, \* the event is signaled
  bFinished,
  queueLive,      \* between InitQueue and DestroyQueue
  rpc, rOffset, rChunk, rResult,          \* ReaderThread
  wpc, wChunk, wWait, wResult, dest,      \* WriterThread; dest is the file
  mpc, mResult,                           \* StartCopy and main
  enqueued,       \* history: every chunk ever linked into the queue
  frees,          \* history: how often LocalFree was called on a buffer
  faulted         \* history: the faults that have happened

queueVars  == <<queue, hDataAvailable, bFinished>>
readerVars == <<rpc, rOffset, rChunk, rResult>>
writerVars == <<wpc, wChunk, wWait, wResult, dest>>
mainVars   == <<mpc, mResult, queueLive>>
histVars   == <<enqueued, frees, faulted>>
vars == <<queueVars, readerVars, writerVars, mainVars, histVars>>

Init ==
  /\ queue = <<>> /\ hDataAvailable = FALSE /\ bFinished = FALSE
  /\ queueLive = FALSE
  /\ rpc = "none" /\ rOffset = 0 /\ rChunk = NULL /\ rResult = FALSE
  /\ wpc = "none" /\ wChunk = NULL /\ wWait = "signaled" /\ wResult = FALSE
  /\ dest = <<>>
  /\ mpc = "initQueue" /\ mResult = FALSE
  /\ enqueued = <<>> /\ frees = [c \in Chunk |-> 0]
  /\ faulted = {}

\* LocalFree of a chunk buffer.
Free(c) == frees' = [frees EXCEPT ![c] = @ + 1]

NoFault == UNCHANGED faulted
Fault(f) == f \in Faults /\ faulted' = faulted \cup {f}

\* The process has ended: no thread takes another step.
Running == mpc # "exited"
-----------------------------------------------------------------------------
(* ReaderThread *)

\* CreateFileA and GetFileSizeEx.
ReaderOpen ==
  /\ Running /\ rpc = "open"
  /\ \/ rpc' = "read" /\ NoFault
     \/ rpc' = "signal" /\ Fault("openSource")
  /\ UNCHANGED <<rOffset, rChunk, rResult, queueVars, writerVars, mainVars,
                 enqueued, frees>>

\* The loop test of ReaderThread.  Mutant: one read too many.
MoreToReadOffByOne == rOffset <= NumChunks
MoreToRead == rOffset < NumChunks

\* The loop test fails: the whole file was read.
ReaderAtEnd ==
  /\ Running /\ rpc = "read" /\ ~MoreToRead
  /\ rpc' = "signal" /\ rResult' = TRUE
  /\ UNCHANGED <<rOffset, rChunk, queueVars, writerVars, mainVars, histVars>>

\* LocalAlloc, ReadFile and GetOverlappedResult of the next chunk.
ReadChunk ==
  /\ Running /\ rpc = "read" /\ MoreToRead
  /\ rChunk' = rOffset + 1
  /\ rpc' = "enqueue"
  /\ UNCHANGED <<rOffset, rResult, queueVars, writerVars, mainVars, histVars>>

\* The allocation fails and pChunkBuffer is NULL, or the read fails and the
\* cleanup frees the buffer, which was not handed to the queue.
ReadFails ==
  /\ Running /\ rpc = "read" /\ MoreToRead
  /\ \/ rChunk' = NULL /\ Fault("allocChunk")
     \/ rChunk' = rOffset + 1 /\ Fault("read")
  /\ rpc' = "cleanup"
  /\ UNCHANGED <<rOffset, rResult, queueVars, writerVars, mainVars, enqueued,
                 frees>>

\* Zero bytes were read: the buffer is freed and the loop ends in success.
ReadEof ==
  /\ Running /\ rpc = "read" /\ MoreToRead /\ Fault("eof")
  /\ rChunk' = rOffset + 1 /\ Free(rOffset + 1)
  /\ rpc' = "cleanup" /\ rResult' = TRUE
  /\ UNCHANGED <<rOffset, queueVars, writerVars, mainVars, enqueued>>

\* The list with a new tail.  Mutant: the item is linked at the head.
LinkedAtHead(c) == <<c>> \o queue
Linked(c) == Append(queue, c)

\* EnqueueBuffer; its result is ignored and the offset advances either way.
Enqueue ==
  /\ Running /\ rpc = "enqueue"
  /\ \/ /\ queue' = Linked(rChunk)
        /\ hDataAvailable' = TRUE
        /\ enqueued' = Append(enqueued, rChunk)
        /\ NoFault
     \/ Fault("allocItem") /\ UNCHANGED <<queue, hDataAvailable, enqueued>>
  /\ rOffset' = rOffset + 1
  /\ rpc' = "read"
  /\ UNCHANGED <<rChunk, rResult, bFinished, writerVars, mainVars, frees>>

\* The reader still owns its last buffer.  Mutant: its result is not asked.
OwnsAnyBuffer == rChunk # NULL
OwnsBuffer == ~rResult /\ rChunk # NULL

\* _END_OF_FUNC: free the buffer unless the copy succeeded or there is none.
ReaderCleanup ==
  /\ Running /\ rpc = "cleanup"
  /\ IF OwnsBuffer THEN Free(rChunk) ELSE UNCHANGED frees
  /\ rpc' = "signal"
  /\ UNCHANGED <<rOffset, rChunk, rResult, queueVars, writerVars, mainVars,
                 enqueued, faulted>>

\* SetEvent under the critical section ...
ReaderSignal ==
  /\ Running /\ rpc = "signal"
  /\ hDataAvailable' = TRUE
  /\ rpc' = "finish"
  /\ UNCHANGED <<rOffset, rChunk, rResult, queue, bFinished, writerVars,
                 mainVars, histVars>>

\* ... and bFinished after it, outside.
ReaderFinish ==
  /\ Running /\ rpc = "finish"
  /\ bFinished' = TRUE
  /\ rpc' = "done"
  /\ UNCHANGED <<rOffset, rChunk, rResult, queue, hDataAvailable, writerVars,
                 mainVars, histVars>>

Reader == \/ ReaderOpen \/ ReaderAtEnd \/ ReadChunk \/ ReadFails \/ ReadEof
          \/ Enqueue \/ ReaderCleanup \/ ReaderSignal \/ ReaderFinish
-----------------------------------------------------------------------------
(* WriterThread *)

\* CreateFileA of the destination.
WriterOpen ==
  /\ Running /\ wpc = "open"
  /\ \/ wpc' = "wait" /\ NoFault
     \/ wpc' = "done" /\ Fault("openDest")
  /\ UNCHANGED <<wChunk, wWait, wResult, dest, queueVars, readerVars, mainVars,
                 enqueued, frees>>

\* WaitForSingleObject(hDataAvailable, 1000) returns WAIT_OBJECT_0 ...
WaitSignaled ==
  /\ Running /\ wpc = "wait" /\ hDataAvailable
  /\ wWait' = "signaled" /\ wpc' = "check"
  /\ UNCHANGED <<wChunk, wResult, dest, queueVars, readerVars, mainVars,
                 histVars>>

\* ... or WAIT_TIMEOUT.
WaitTimeout ==
  /\ Running /\ wpc = "wait" /\ ~hDataAvailable
  /\ IF rpc = "done" THEN NoFault ELSE Fault("slowRead")
  /\ wWait' = "timeout" /\ wpc' = "check"
  /\ UNCHANGED <<wChunk, wResult, dest, queueVars, readerVars, mainVars,
                 enqueued, frees>>

\* The loop's exit after a wait.  Mutants: the wait's result is ignored; there
\* is no exit here.
FinishedAnyhow == bFinished
NeverFinished == FALSE
FinishedAfterWait == wWait = "timeout" /\ bFinished

\* Read bFinished under the lock and act on the wait's result.
CheckFinished ==
  /\ Running /\ wpc = "check"
  /\ IF FinishedAfterWait
     THEN wpc' = "done" /\ wResult' = TRUE
     ELSE /\ wpc' = IF wWait = "timeout" THEN "wait" ELSE "dequeue"
          /\ UNCHANGED wResult
  /\ UNCHANGED <<wChunk, wWait, dest, queueVars, readerVars, mainVars,
                 histVars>>

\* The list without its head.  Mutant: pHead is cleared with pTail.
UnlinkedAll == <<>>
Unlinked == Tail(queue)

\* The event after that: ResetEvent when nothing is left.  Mutant: always.
EventReset == FALSE
EventAfterDequeue == hDataAvailable /\ Unlinked # <<>>

\* DequeueBuffer of a non-empty queue; the last item resets the event.
Dequeue ==
  /\ Running /\ wpc = "dequeue" /\ queue # <<>>
  /\ wChunk' = Head(queue)
  /\ queue' = Unlinked
  /\ hDataAvailable' = EventAfterDequeue
  /\ wpc' = "write"
  /\ UNCHANGED <<wWait, wResult, dest, bFinished, readerVars, mainVars,
                 histVars>>

\* DequeueBuffer returns NULL.
DequeueNothing ==
  /\ Running /\ wpc = "dequeue" /\ queue = <<>>
  /\ wpc' = "recheck"
  /\ UNCHANGED <<wChunk, wWait, wResult, dest, queueVars, readerVars, mainVars,
                 histVars>>

\* After a NULL item: stop if bFinished, otherwise wait again.
RecheckFinished ==
  /\ Running /\ wpc = "recheck"
  /\ \/ bFinished /\ wpc' = "done" /\ wResult' = TRUE
     \/ ~bFinished /\ wpc' = "wait" /\ UNCHANGED wResult
  /\ UNCHANGED <<wChunk, wWait, dest, queueVars, readerVars, mainVars,
                 histVars>>

\* WriteFile and GetOverlappedResult at the writer's own offset, LocalFree.
WriteChunk ==
  /\ Running /\ wpc = "write"
  /\ dest' = Append(dest, wChunk)
  /\ Free(wChunk)
  /\ wpc' = "wait"
  /\ UNCHANGED <<wChunk, wWait, wResult, queueVars, readerVars, mainVars,
                 enqueued, faulted>>

\* The write fails or is short: free the buffer and leave.
WriteFails ==
  /\ Running /\ wpc = "write" /\ Fault("write")
  /\ Free(wChunk)
  /\ wpc' = "done"
  /\ UNCHANGED <<wChunk, wWait, wResult, dest, queueVars, readerVars, mainVars,
                 enqueued>>

Writer == \/ WriterOpen \/ WaitSignaled \/ WaitTimeout \/ CheckFinished
          \/ Dequeue \/ DequeueNothing \/ RecheckFinished
          \/ WriteChunk \/ WriteFails
-----------------------------------------------------------------------------
(* StartCopy, then main *)

MainStep(from, to) ==
  /\ Running /\ mpc = from /\ mpc' = to
  /\ UNCHANGED <<queueVars, enqueued, frees>>

InitQueue ==
  /\ MainStep("initQueue", "createReader") /\ NoFault
  /\ queueLive' = TRUE
  /\ UNCHANGED <<mResult, readerVars, writerVars>>

CreateReader ==
  \/ /\ MainStep("createReader", "createWriter") /\ NoFault
     /\ rpc' = "open"
     /\ UNCHANGED <<mResult, queueLive, rOffset, rChunk, rResult, writerVars>>
  \/ /\ Fault("createReader")
     /\ MainStep("createReader", "destroy")
     /\ UNCHANGED <<mResult, queueLive, readerVars, writerVars>>

CreateWriter ==
  \/ /\ MainStep("createWriter", "joinReader") /\ NoFault
     /\ wpc' = "open"
     /\ UNCHANGED <<mResult, queueLive, wChunk, wWait, wResult, dest,
                    readerVars>>
  \/ /\ Fault("createWriter")
     /\ MainStep("createWriter", "destroy")
     /\ UNCHANGED <<mResult, queueLive, readerVars, writerVars>>

\* WaitForSingleObject(thread, INFINITE) returns.  Mutant: it does not wait.
NotJoined(pc) == pc # "none"
Joined(pc) == pc = "done"

JoinReader ==
  /\ Joined(rpc)
  /\ MainStep("joinReader", "joinWriter") /\ NoFault
  /\ UNCHANGED <<mResult, queueLive, readerVars, writerVars>>

\* The threads' results are not looked at: StartCopy returns TRUE.
JoinWriter ==
  /\ Joined(wpc)
  /\ MainStep("joinWriter", "destroy") /\ NoFault
  /\ mResult' = TRUE
  /\ UNCHANGED <<queueLive, readerVars, writerVars>>

DestroyQueue ==
  /\ MainStep("destroy", "return") /\ NoFault
  /\ queueLive' = FALSE
  /\ UNCHANGED <<mResult, readerVars, writerVars>>

\* main returns: the process ends with whatever thread still runs.
Exit ==
  /\ MainStep("return", "exited") /\ NoFault
  /\ UNCHANGED <<mResult, queueLive, readerVars, writerVars>>

Main == \/ InitQueue \/ CreateReader \/ CreateWriter \/ JoinReader
        \/ JoinWriter \/ DestroyQueue \/ Exit

Exited == mpc = "exited" /\ UNCHANGED vars

Next == Reader \/ Writer \/ Main \/ Exited

\* The scheduler runs every thread that can run, I/O completes, and a wait
\* that nobody signals times out.
Fairness == WF_vars(Reader) /\ WF_vars(Writer) /\ WF_vars(Main)

Spec == Init /\ [][Next]_vars /\ Fairness
-----------------------------------------------------------------------------
(* Properties *)

\* Every variable stays in its set.
TypeOK ==
  /\ queue \in Seq(Chunk) /\ dest \in Seq(Chunk) /\ enqueued \in Seq(Chunk)
  /\ hDataAvailable \in BOOLEAN /\ bFinished \in BOOLEAN
  /\ queueLive \in BOOLEAN /\ rResult \in BOOLEAN /\ wResult \in BOOLEAN
  /\ mResult \in BOOLEAN
  /\ rpc \in {"none", "open", "read", "enqueue", "cleanup", "signal",
              "finish", "done"}
  /\ wpc \in {"none", "open", "wait", "check", "dequeue", "recheck", "write",
              "done"}
  /\ mpc \in {"initQueue", "createReader", "createWriter", "joinReader",
              "joinWriter", "destroy", "return", "exited"}
  /\ rOffset \in 0..NumChunks
  /\ rChunk \in Chunk \cup {NULL} /\ wChunk \in Chunk \cup {NULL}
  /\ wWait \in {"signaled", "timeout"}
  /\ frees \in [Chunk -> Nat]
  /\ faulted \subseteq Faults

\* The chunk that has left the queue and is not in the file: the one being
\* written, or the one whose write failed.
InHand == IF \/ wpc = "write"
             \/ wpc = "done" /\ ~wResult /\ wChunk # NULL
          THEN <<wChunk>> ELSE <<>>

\* Between ReaderThread and the destination no chunk is lost, duplicated or
\* reordered by the queue, whatever fails and whoever is slow.
Conservation == dest \o InHand \o queue = enqueued

\* hDataAvailable never stays down over a waiting item, and is up over an
\* empty queue only between the reader's last SetEvent and the end: the writer
\* does not sleep through an item, nor spin for long.
EventTracksQueue ==
  /\ queue # <<>> => hDataAvailable
  /\ hDataAvailable /\ queue = <<>> => rpc \in {"finish", "done"}

\* A chunk buffer is freed once at most, by the thread that owns it: never
\* while it is queued, being filled or being written.
BufferOwnership ==
  /\ \A c \in Chunk : frees[c] <= 1
  /\ \A i \in 1..Len(queue) : frees[queue[i]] = 0
  /\ rpc = "enqueue" => frees[rChunk] = 0
  /\ wpc = "write" => frees[wChunk] = 0

\* If both threads report success, the file holds all that was queued, in order:
\* bFinished and the event together tell the writer no lie.  It takes a read
\* that outlasts a wait of the writer to make this false.  And unless an item
\* could not be allocated, which the reader does not look at, that is all it has
\* read.
SuccessMeansComplete ==
  rResult /\ wResult /\ "slowRead" \notin faulted
    => /\ dest = enqueued
       /\ "allocItem" \notin faulted => dest = [i \in 1..rOffset |-> i]

\* DestroyQueue deletes the critical section only when no thread can enter it,
\* unless the writer could not be created: then StartCopy leaves a reader.
QueueOutlivesThreads ==
  \/ queueLive
  \/ rpc \in {"none", "done"} /\ wpc \in {"none", "done"}
  \/ "createWriter" \in faulted

\* "[*] Copy Completed Successfully." is true whenever StartCopy gets there.
CompletedMeansCopied == mResult => dest = [i \in 1..NumChunks |-> i]

\* The copy ends: neither thread waits for ever on the event or on the other.
Terminates == <>(mpc = "exited")

\* The queue and the two threads around it are a FIFO transfer from the
\* chunks read to the file.
Fifo == INSTANCE FifoTransfer WITH Item <- Chunk, Capacity <- NumChunks,
                                   sent <- enqueued, received <- dest
IsFifo == Fifo!Spec
=============================================================================
