-------------------------- MODULE AsyncCopyProofs ---------------------------
(***************************************************************************)
(* AsyncCopy for every length of the file and every set of faults: the     *)
(* queue loses nothing, the event follows the queue, each buffer has one   *)
(* owner, and the copy implements FifoTransfer.                            *)
(***************************************************************************)
EXTENDS AsyncCopy, SequenceTheorems, TLAPS

\* Which threads can exist at each point of StartCopy.
MainInv ==
  /\ mpc \in {"initQueue", "createReader"} => rpc = "none"
  /\ mpc \in {"initQueue", "createReader", "createWriter"} => wpc = "none"
  /\ mpc \in {"createReader", "createWriter", "joinReader", "joinWriter",
              "destroy"} => queueLive
  /\ mpc = "joinWriter" => rpc = "done"
  /\ mpc \in {"destroy", "return", "exited"} =>
       \/ rpc \in {"none", "done"} /\ wpc \in {"none", "done"}
       \/ "createWriter" \in faulted

\* The writer has a chunk when it writes, and a result only when it is done.
WriterInv ==
  /\ wpc = "write" => wChunk # NULL
  /\ wpc \in {"none", "open"} => wChunk = NULL
  /\ wResult => wpc = "done"

\* The reader enqueues the chunk at its offset.
ReaderInv == rpc = "enqueue" => rOffset < NumChunks /\ rChunk # NULL

IInv == TypeOK /\ MainInv /\ WriterInv /\ ReaderInv /\ EventTracksQueue
               /\ Conservation

\* The initial state satisfies the invariant.
LEMMA InitInv == Init => IInv
<1> SUFFICES ASSUME Init PROVE IInv
  OBVIOUS
<1>1. TypeOK
  <2>1. rOffset \in 0..NumChunks
    BY AsyncCopyAssumption DEF Init
  <2>2. frees \in [Chunk -> Nat]
    BY DEF Init
  <2>3. /\ queue \in Seq(Chunk)
        /\ dest \in Seq(Chunk)
        /\ enqueued \in Seq(Chunk)
    BY DEF Init
  <2> QED BY <2>1, <2>2, <2>3 DEF Init, TypeOK
<1>2. MainInv /\ WriterInv /\ ReaderInv /\ EventTracksQueue
  BY DEF Init, MainInv, WriterInv, ReaderInv, EventTracksQueue, NULL
<1>3. Conservation
  BY DEF Init, Conservation, InHand
<1> QED BY <1>1, <1>2, <1>3 DEF IInv

\* LocalFree keeps the counts of the frees natural numbers.
LEMMA FreeCounts ==
  ASSUME frees \in [Chunk -> Nat], NEW c \in Chunk, Free(c)
  PROVE  frees' \in [Chunk -> Nat]
BY DEF Free

\* No step leaves the sets of TypeOK: the steps of the reader ...
LEMMA TypeReader == TypeOK /\ ReaderInv /\ Reader => TypeOK'
<1> SUFFICES ASSUME TypeOK, ReaderInv, Reader PROVE TypeOK'
  OBVIOUS
<1> USE DEF TypeOK, queueVars, readerVars, writerVars, mainVars, histVars,
        MoreToRead, Fault, NoFault
<1>0. ASSUME MoreToRead PROVE rOffset + 1 \in Chunk
  BY <1>0, AsyncCopyAssumption DEF Chunk
<1>1. CASE ReaderOpen
  BY <1>1 DEF ReaderOpen
<1>2. CASE ReaderAtEnd
  BY <1>2 DEF ReaderAtEnd
<1>3. CASE ReadChunk
  BY <1>3, <1>0 DEF ReadChunk
<1>4. CASE ReadFails
  BY <1>4, <1>0 DEF ReadFails
<1>5. CASE ReadEof
  <2>1. frees' \in [Chunk -> Nat]
    BY <1>5, <1>0, FreeCounts DEF ReadEof
  <2> QED BY <1>5, <1>0, <2>1 DEF ReadEof
<1>6. CASE Enqueue
  <2>1. rChunk \in Chunk
    BY <1>6 DEF Enqueue, ReaderInv
  <2>2. rOffset + 1 \in 0..NumChunks
    BY <1>6, AsyncCopyAssumption DEF Enqueue, ReaderInv
  <2>3. queue' \in Seq(Chunk) /\ enqueued' \in Seq(Chunk)
    <3>1. /\ Append(queue, rChunk) \in Seq(Chunk)
          /\ Append(enqueued, rChunk) \in Seq(Chunk)
      BY <2>1
    <3>2. /\ queue' \in {queue, Append(queue, rChunk)}
          /\ enqueued' \in {enqueued, Append(enqueued, rChunk)}
      BY <1>6 DEF Enqueue, Linked
    <3> QED BY <3>1, <3>2
  <2>4. hDataAvailable' \in BOOLEAN /\ faulted' \subseteq Faults
    BY <1>6 DEF Enqueue
  <2>5. rOffset' \in 0..NumChunks /\ rpc' = "read"
    BY <1>6, <2>2 DEF Enqueue
  <2>6. UNCHANGED <<rChunk, rResult, bFinished, writerVars, mainVars, frees>>
    BY <1>6 DEF Enqueue
  <2> HIDE <1>6
  <2> QED BY <2>3, <2>4, <2>5, <2>6
<1>7. CASE ReaderCleanup
  <2>1. frees' \in [Chunk -> Nat]
    <3>1. CASE OwnsBuffer
      <4>1. rChunk \in Chunk
        BY <3>1 DEF OwnsBuffer
      <4>2. Free(rChunk)
        BY <1>7, <3>1 DEF ReaderCleanup
      <4> QED BY <4>1, <4>2, FreeCounts
    <3>2. CASE ~OwnsBuffer
      BY <1>7, <3>2 DEF ReaderCleanup
    <3> QED BY <3>1, <3>2
  <2> QED BY <1>7, <2>1 DEF ReaderCleanup
<1>8. CASE ReaderSignal
  BY <1>8 DEF ReaderSignal
<1>9. CASE ReaderFinish
  BY <1>9 DEF ReaderFinish
<1> QED BY <1>1, <1>2, <1>3, <1>4, <1>5, <1>6, <1>7, <1>8, <1>9 DEF Reader

\* ... of the writer ...
LEMMA TypeWriter == TypeOK /\ WriterInv /\ Writer => TypeOK'
<1> SUFFICES ASSUME TypeOK, WriterInv, Writer PROVE TypeOK'
  OBVIOUS
<1> USE DEF TypeOK, queueVars, readerVars, writerVars, mainVars, histVars,
        Fault, NoFault
<1>1. CASE WriterOpen
  BY <1>1 DEF WriterOpen
<1>2. CASE WaitSignaled
  BY <1>2 DEF WaitSignaled
<1>3. CASE WaitTimeout
  BY <1>3 DEF WaitTimeout
<1>4. CASE CheckFinished
  <2>1. wpc' \in {"done", "wait", "dequeue"} /\ wResult' \in BOOLEAN
    BY <1>4 DEF CheckFinished
  <2>2. UNCHANGED <<wChunk, wWait, dest, queueVars, readerVars, mainVars,
                    histVars>>
    BY <1>4 DEF CheckFinished
  <2> QED BY <2>1, <2>2
<1>5. CASE Dequeue
  <2>1. Head(queue) \in Chunk /\ Tail(queue) \in Seq(Chunk)
    BY <1>5 DEF Dequeue
  <2>2. EventAfterDequeue \in BOOLEAN
    BY DEF EventAfterDequeue
  <2> QED BY <1>5, <2>1, <2>2 DEF Dequeue, Unlinked
<1>6. CASE DequeueNothing
  BY <1>6 DEF DequeueNothing
<1>7. CASE RecheckFinished
  <2>1. wpc' \in {"done", "wait"} /\ wResult' \in BOOLEAN
    BY <1>7 DEF RecheckFinished
  <2>2. UNCHANGED <<wChunk, wWait, dest, queueVars, readerVars, mainVars,
                    histVars>>
    BY <1>7 DEF RecheckFinished
  <2> QED BY <2>1, <2>2
<1>8. CASE WriteChunk
  <2>1. wChunk \in Chunk
    BY <1>8 DEF WriteChunk, WriterInv
  <2>2. dest' \in Seq(Chunk)
    BY <1>8, <2>1 DEF WriteChunk
  <2>3. frees' \in [Chunk -> Nat]
    BY <1>8, <2>1, FreeCounts DEF WriteChunk
  <2> QED BY <1>8, <2>2, <2>3 DEF WriteChunk
<1>9. CASE WriteFails
  <2>1. wChunk \in Chunk
    BY <1>9 DEF WriteFails, WriterInv
  <2>2. frees' \in [Chunk -> Nat]
    BY <1>9, <2>1, FreeCounts DEF WriteFails
  <2> QED BY <1>9, <2>2 DEF WriteFails
<1> QED BY <1>1, <1>2, <1>3, <1>4, <1>5, <1>6, <1>7, <1>8, <1>9 DEF Writer

\* ... and of StartCopy and main.
LEMMA TypeMain == TypeOK /\ Main => TypeOK'
<1> SUFFICES ASSUME TypeOK, Main PROVE TypeOK'
  OBVIOUS
<1> USE DEF TypeOK, queueVars, readerVars, writerVars, MainStep, Fault, NoFault
<1>1. CASE InitQueue
  BY <1>1 DEF InitQueue
<1>2. CASE CreateReader
  BY <1>2 DEF CreateReader
<1>3. CASE CreateWriter
  BY <1>3 DEF CreateWriter
<1>4. CASE JoinReader
  BY <1>4 DEF JoinReader
<1>5. CASE JoinWriter
  BY <1>5 DEF JoinWriter
<1>6. CASE DestroyQueue
  <2>1. mpc' = "return" /\ queueLive' = FALSE
    BY <1>6 DEF DestroyQueue
  <2>2. UNCHANGED <<mResult, readerVars, writerVars, queueVars, histVars>>
    BY <1>6 DEF DestroyQueue, histVars
  <2> QED BY <2>1, <2>2, ZenonT(60) DEF histVars
<1>7. CASE Exit
  BY <1>7 DEF Exit
<1> QED BY <1>1, <1>2, <1>3, <1>4, <1>5, <1>6, <1>7 DEF Main

\* Every step keeps the order of StartCopy: a thread exists only after its
\* creation and the queue until the threads have been joined.
LEMMA MainInvStep == TypeOK /\ MainInv /\ Next => MainInv'
<1> SUFFICES ASSUME TypeOK, MainInv, Next PROVE MainInv'
  OBVIOUS
<1> USE DEF MainInv, queueVars, readerVars, writerVars, mainVars, histVars,
        Fault, NoFault
<1>1. CASE Reader
  <2>1. /\ rpc \notin {"none", "done"} /\ rpc' # "none"
        /\ UNCHANGED <<mpc, queueLive, wpc>>
        /\ faulted \subseteq faulted'
    BY <1>1 DEF Reader, ReaderOpen, ReaderAtEnd, ReadChunk, ReadFails,
                ReadEof, Enqueue, ReaderCleanup, ReaderSignal, ReaderFinish
  <2> QED BY <2>1
<1>2. CASE Writer
  <2>1. /\ wpc \notin {"none", "done"} /\ wpc' # "none"
        /\ UNCHANGED <<mpc, queueLive, rpc>>
        /\ faulted \subseteq faulted'
    BY <1>2 DEF Writer, WriterOpen, WaitSignaled, WaitTimeout, CheckFinished,
                Dequeue, DequeueNothing, RecheckFinished, WriteChunk,
                WriteFails
  <2> QED BY <2>1
<1>3. CASE Main
  <2> USE DEF MainStep
  <2>1. CASE InitQueue
    BY <2>1 DEF InitQueue
  <2>2. CASE CreateReader
    BY <2>2 DEF CreateReader
  <2>3. CASE CreateWriter
    BY <2>3 DEF CreateWriter
  <2>4. CASE JoinReader
    BY <2>4 DEF JoinReader, Joined
  <2>5. CASE JoinWriter
    BY <2>5 DEF JoinWriter, Joined
  <2>6. CASE DestroyQueue
    BY <2>6 DEF DestroyQueue
  <2>7. CASE Exit
    BY <2>7 DEF Exit
  <2> QED BY <1>3, <2>1, <2>2, <2>3, <2>4, <2>5, <2>6, <2>7 DEF Main
<1>4. CASE Exited
  BY <1>4 DEF Exited, vars
<1> QED BY <1>1, <1>2, <1>3, <1>4 DEF Next

\* Every step keeps what the threads know of their own chunk.
LEMMA ThreadInvStep ==
  IInv /\ Next => WriterInv' /\ ReaderInv'
<1> SUFFICES ASSUME IInv, Next PROVE WriterInv' /\ ReaderInv'
  OBVIOUS
<1> USE DEF IInv, WriterInv, ReaderInv, queueVars, readerVars, writerVars,
        mainVars, histVars
<1>1. CASE Reader
  <2>1. UNCHANGED <<wpc, wChunk, wResult>>
    BY <1>1 DEF Reader, ReaderOpen, ReaderAtEnd, ReadChunk, ReadFails,
                ReadEof, Enqueue, ReaderCleanup, ReaderSignal, ReaderFinish
  <2>2. \/ rpc' # "enqueue"
        \/ rOffset' = rOffset /\ MoreToRead /\ rChunk' = rOffset + 1
    BY <1>1 DEF Reader, ReaderOpen, ReaderAtEnd, ReadChunk, ReadFails,
                ReadEof, Enqueue, ReaderCleanup, ReaderSignal, ReaderFinish
  <2>3. rOffset \in Nat
    BY AsyncCopyAssumption DEF TypeOK
  <2> QED BY <2>1, <2>2, <2>3 DEF MoreToRead, NULL
<1>2. CASE Writer
  <2>1. UNCHANGED <<rpc, rOffset, rChunk>>
    BY <1>2 DEF Writer, WriterOpen, WaitSignaled, WaitTimeout, CheckFinished,
                Dequeue, DequeueNothing, RecheckFinished, WriteChunk,
                WriteFails
  <2>2. WriterInv'
    <3>1. CASE Dequeue
      <4>1. Head(queue) \in Chunk
        BY <3>1 DEF Dequeue, TypeOK
      <4>2. Head(queue) # NULL
        BY <4>1, AsyncCopyAssumption DEF Chunk, NULL
      <4> QED BY <3>1, <4>2 DEF Dequeue
    <3>2. CASE ~Dequeue
      BY <1>2, <3>2 DEF Writer, WriterOpen, WaitSignaled, WaitTimeout,
                CheckFinished, DequeueNothing, RecheckFinished, WriteChunk,
                WriteFails
    <3> QED BY <3>1, <3>2
  <2> QED BY <2>1, <2>2
<1>3. CASE Main
  <2>1. UNCHANGED <<wChunk, wResult, rOffset, rChunk>>
    BY <1>3 DEF Main, InitQueue, CreateReader, CreateWriter, JoinReader,
                JoinWriter, DestroyQueue, Exit
  <2>2. \/ UNCHANGED wpc
        \/ wpc' = "open" /\ wpc = "none"
    BY <1>3 DEF Main, InitQueue, CreateReader, CreateWriter, JoinReader,
                JoinWriter, DestroyQueue, Exit, MainStep, MainInv
  <2>3. UNCHANGED rpc \/ rpc' = "open"
    BY <1>3 DEF Main, InitQueue, CreateReader, CreateWriter, JoinReader,
                JoinWriter, DestroyQueue, Exit
  <2> QED BY <2>1, <2>2, <2>3
<1>4. CASE Exited
  BY <1>4 DEF Exited, vars
<1> QED BY <1>1, <1>2, <1>3, <1>4 DEF Next

\* Every step that moves the queue moves the event with it.
LEMMA EventStep == IInv /\ Next => EventTracksQueue'
<1> SUFFICES ASSUME IInv, Next PROVE EventTracksQueue'
  OBVIOUS
<1> USE DEF IInv, EventTracksQueue, queueVars
<1>1. CASE Enqueue
  <2>1. Append(queue, rChunk) # <<>>
    BY DEF TypeOK
  <2> QED BY <1>1, <2>1 DEF Enqueue, Linked
<1>2. CASE ReaderSignal \/ ReaderFinish
  BY <1>2 DEF ReaderSignal, ReaderFinish
<1>3. CASE Dequeue
  BY <1>3 DEF Dequeue, EventAfterDequeue, readerVars
<1>4. CASE Reader /\ ~Enqueue /\ ~ReaderSignal /\ ~ReaderFinish
  BY <1>4 DEF Reader, ReaderOpen, ReaderAtEnd, ReadChunk, ReadFails, ReadEof,
              ReaderCleanup
<1>5. CASE Writer /\ ~Dequeue
  BY <1>5 DEF Writer, WriterOpen, WaitSignaled, WaitTimeout, CheckFinished,
              DequeueNothing, RecheckFinished, WriteChunk, WriteFails,
              readerVars
<1>6. CASE Main
  BY <1>6 DEF Main, InitQueue, CreateReader, CreateWriter, JoinReader,
              JoinWriter, DestroyQueue, Exit, MainStep, MainInv, readerVars
<1>7. CASE Exited
  BY <1>7 DEF Exited, vars, readerVars
<1> QED BY <1>1, <1>2, <1>3, <1>4, <1>5, <1>6, <1>7 DEF Next, Reader, Writer

\* An item appended to the last part of a sequence is appended to the whole.
LEMMA AppendToConcat ==
  ASSUME NEW s \in Seq(Chunk), NEW t \in Seq(Chunk), NEW q \in Seq(Chunk),
         NEW c \in Chunk
  PROVE  s \o t \o Append(q, c) = Append(s \o t \o q, c)
OBVIOUS

\* The head of the last part may be taken over by the middle, if that is empty.
LEMMA HeadToHand ==
  ASSUME NEW s \in Seq(Chunk), NEW q \in Seq(Chunk), q # <<>>
  PROVE  s \o <<Head(q)>> \o Tail(q) = s \o <<>> \o q
OBVIOUS

\* Writing the chunk in hand moves it to the end of the first part.
LEMMA HandToFile ==
  ASSUME NEW s \in Seq(Chunk), NEW q \in Seq(Chunk), NEW c \in Chunk
  PROVE  Append(s, c) \o <<>> \o q = s \o <<c>> \o q
<1>1. s \o <<c>> = Append(s, c)
  OBVIOUS
<1>2. Append(s, c) \o <<>> = Append(s, c)
  OBVIOUS
<1> QED BY <1>1, <1>2

\* Every step moves a chunk from the reader to the queue, to the writer's hand
\* and to the file, and none anywhere else.
LEMMA ConservationStep == IInv /\ WriterInv' /\ Next => Conservation'
<1> SUFFICES ASSUME IInv, WriterInv', Next PROVE Conservation'
  OBVIOUS
<1> USE DEF IInv, queueVars, writerVars, histVars
<1>0. InHand \in Seq(Chunk)
  BY DEF InHand, TypeOK, WriterInv
<1>1. CASE Enqueue
  <2>1. CASE UNCHANGED <<queue, enqueued>>
    BY <1>1, <2>1 DEF Enqueue, Conservation, InHand
  <2>2. CASE /\ queue' = Append(queue, rChunk)
             /\ enqueued' = Append(enqueued, rChunk)
    <3>1. rChunk \in Chunk
      BY <1>1 DEF Enqueue, ReaderInv, TypeOK
    <3>2. dest \o InHand \o Append(queue, rChunk)
            = Append(dest \o InHand \o queue, rChunk)
      BY <1>0, <3>1, AppendToConcat DEF TypeOK
    <3>3. dest' = dest /\ InHand' = InHand
      BY <1>1 DEF Enqueue, InHand
    <3> QED BY <2>2, <3>2, <3>3 DEF Conservation
  <2> QED BY <1>1, <2>1, <2>2 DEF Enqueue, Linked
<1>2. CASE Dequeue
  <2>1. InHand = <<>> /\ InHand' = <<Head(queue)>>
    BY <1>2 DEF Dequeue, InHand
  <2>2. dest \o <<Head(queue)>> \o Tail(queue) = dest \o <<>> \o queue
    BY <1>2, HeadToHand DEF Dequeue, TypeOK
  <2> QED BY <1>2, <2>1, <2>2 DEF Dequeue, Unlinked, Conservation
<1>3. CASE WriteChunk
  <2>1. wChunk \in Chunk
    BY <1>3 DEF WriteChunk, WriterInv, TypeOK
  <2>2. InHand = <<wChunk>> /\ InHand' = <<>>
    BY <1>3 DEF WriteChunk, InHand
  <2>3. Append(dest, wChunk) \o <<>> \o queue = dest \o <<wChunk>> \o queue
    BY <2>1, HandToFile DEF TypeOK
  <2> QED BY <1>3, <2>2, <2>3 DEF WriteChunk, Conservation
<1>4. CASE WriteFails
  <2>1. InHand = <<wChunk>> /\ InHand' = <<wChunk>>
    BY <1>4 DEF WriteFails, InHand, WriterInv
  <2> QED BY <1>4, <2>1 DEF WriteFails, Conservation
<1>5. CASE Writer /\ ~Dequeue /\ ~WriteChunk /\ ~WriteFails
  <2>1. UNCHANGED <<dest, queue, enqueued>>
    BY <1>5 DEF Writer, WriterOpen, WaitSignaled, WaitTimeout, CheckFinished,
                DequeueNothing, RecheckFinished
  <2>2. InHand = <<>> /\ InHand' = <<>>
    BY <1>5 DEF Writer, WriterOpen, WaitSignaled, WaitTimeout, CheckFinished,
                DequeueNothing, RecheckFinished, InHand, WriterInv
  <2> QED BY <2>1, <2>2 DEF Conservation
<1>6. CASE Reader /\ ~Enqueue
  <2>1. UNCHANGED <<queue, enqueued, dest, wpc, wResult, wChunk>>
    BY <1>6 DEF Reader, ReaderOpen, ReaderAtEnd, ReadChunk, ReadFails,
                ReadEof, ReaderCleanup, ReaderSignal, ReaderFinish
  <2> QED BY <2>1 DEF Conservation, InHand
<1>7. CASE Main
  <2>1. UNCHANGED <<dest, queue, enqueued>>
    BY <1>7 DEF Main, InitQueue, CreateReader, CreateWriter, JoinReader,
                JoinWriter, DestroyQueue, Exit, MainStep
  <2>2. InHand' = InHand
    BY <1>7 DEF Main, InitQueue, CreateReader, CreateWriter, JoinReader,
                JoinWriter, DestroyQueue, Exit, MainStep, InHand, MainInv
  <2> QED BY <2>1, <2>2 DEF Conservation
<1>8. CASE Exited
  BY <1>8 DEF Exited, vars, Conservation, InHand
<1> QED BY <1>1, <1>2, <1>3, <1>4, <1>5, <1>6, <1>7, <1>8
        DEF Next, Reader, Writer

\* The inductive invariant: the order of StartCopy, what each thread knows of
\* its chunk, and the two properties of the queue carry each other.
THEOREM Invariance == Spec => []IInv
<1>1. Init => IInv
  BY InitInv
<1>2. IInv /\ [Next]_vars => IInv'
  <2> SUFFICES ASSUME IInv, [Next]_vars PROVE IInv'
    OBVIOUS
  <2>1. CASE Next
    <3>1. TypeOK'
      <4>1. CASE Exited
        BY <4>1 DEF Exited, IInv, TypeOK, vars, queueVars, readerVars,
                    writerVars, mainVars, histVars
      <4> QED BY <2>1, <4>1, TypeReader, TypeWriter, TypeMain DEF Next, IInv
    <3>2. MainInv' /\ WriterInv' /\ ReaderInv' /\ EventTracksQueue'
      BY <2>1, MainInvStep, ThreadInvStep, EventStep DEF IInv
    <3>3. Conservation'
      BY <2>1, <3>2, ConservationStep
    <3> QED BY <3>1, <3>2, <3>3 DEF IInv
  <2>2. CASE UNCHANGED vars
    BY <2>2 DEF IInv, TypeOK, MainInv, WriterInv, ReaderInv, EventTracksQueue,
                Conservation, InHand, vars, queueVars, readerVars, writerVars,
                mainVars, histVars
  <2> QED BY <2>1, <2>2
<1> QED BY <1>1, <1>2, PTL DEF Spec

\* The variables of AsyncIOExample's queue and threads stay in their sets.
THEOREM TypeCorrect == Spec => []TypeOK
<1>1. IInv => TypeOK
  BY DEF IInv
<1> QED BY <1>1, Invariance, PTL

\* EnqueueBuffer and DequeueBuffer neither lose, duplicate nor reorder a chunk
\* on its way from ReaderThread to the destination file.
THEOREM NothingLost == Spec => []Conservation
<1>1. IInv => Conservation
  BY DEF IInv
<1> QED BY <1>1, Invariance, PTL

\* hDataAvailable is never down over a waiting item, and up over an empty
\* queue only at the reader's end.
THEOREM EventFollowsQueue == Spec => []EventTracksQueue
<1>1. IInv => EventTracksQueue
  BY DEF IInv
<1> QED BY <1>1, Invariance, PTL

\* DestroyQueue comes after the threads, unless the writer was never created.
THEOREM QueueDestroyedLast == Spec => []QueueOutlivesThreads
<1>1. IInv => QueueOutlivesThreads
  BY DEF IInv, TypeOK, MainInv, QueueOutlivesThreads
<1> QED BY <1>1, Invariance, PTL
-----------------------------------------------------------------------------
(* Who owns a buffer, and what success means *)

\* The chunks are enqueued in the order of the file, each once; without a
\* failed allocation none is left out.  The reader holds the one at its offset.
OrderInv ==
  /\ Len(enqueued) <= rOffset
  /\ \A i \in 1..Len(enqueued) : enqueued[i] <= rOffset
  /\ \A i, j \in 1..Len(enqueued) : i < j => enqueued[i] < enqueued[j]
  /\ "allocItem" \notin faulted =>
       Len(enqueued) = rOffset /\ \A i \in 1..rOffset : enqueued[i] = i
  /\ rpc = "enqueue" \/ (rpc = "cleanup" /\ rChunk # NULL) => rChunk = rOffset + 1

\* How many of the enqueued chunks the writer has freed: those in the file, and
\* the one whose write failed.
FreedByWriter == Len(dest) + (IF wpc = "done" THEN Len(InHand) ELSE 0)

\* The reader has freed the buffer it did not hand over.
FreedByReader(c) ==
  c = rOffset + 1 /\ (rpc \in {"signal", "finish", "done"} \/ (rpc = "cleanup" /\ rResult))

\* No buffer is freed but by the one that owned it, and none twice.
FreeInv ==
  \A c \in Chunk :
    /\ frees[c] <= 1
    /\ frees[c] # 0 =>
         FreedByReader(c) \/ \E i \in 1..FreedByWriter : enqueued[i] = c

\* What the writer has learnt from the event and bFinished about the reader.
EndInv ==
  /\ bFinished => rpc = "done"
  /\ wpc = "check" /\ wWait = "signaled" => queue # <<>> \/ rpc \in {"finish", "done"}
  /\ wpc = "dequeue" => queue # <<>> \/ rpc \in {"finish", "done"}
  /\ wpc = "recheck" => queue = <<>> /\ rpc \in {"finish", "done"}
  /\ "slowRead" \notin faulted =>
       /\ wpc = "check" /\ wWait = "timeout" => queue = <<>> /\ rpc = "done"
       /\ wResult => queue = <<>> /\ rpc \in {"finish", "done"}

\* The same, named.
BufferInv == OrderInv /\ FreeInv /\ EndInv

\* Which position of enqueued each chunk on its way is at.
LEMMA Positions ==
  ASSUME TypeOK, WriterInv, Conservation
  PROVE  /\ Len(InHand) \in {0, 1} /\ InHand \in Seq(Chunk)
         /\ Len(enqueued) = Len(dest) + Len(InHand) + Len(queue)
         /\ \A i \in 1..Len(dest) : dest[i] = enqueued[i]
         /\ InHand # <<>> => wChunk = enqueued[Len(dest) + 1]
         /\ \A i \in 1..Len(queue) :
              queue[i] = enqueued[Len(dest) + Len(InHand) + i]
<1>1. /\ InHand \in Seq(Chunk) /\ Len(InHand) \in {0, 1}
      /\ InHand # <<>> => wChunk \in Chunk /\ InHand = <<wChunk>>
  BY DEF InHand, TypeOK, WriterInv
<1>2. PICK h \in Seq(Chunk) : h = InHand
  BY <1>1
<1>3. enqueued = dest \o h \o queue
  BY <1>2 DEF Conservation
<1>4. dest \in Seq(Chunk) /\ queue \in Seq(Chunk)
  BY DEF TypeOK
<1>5. PICK s \in Seq(Chunk) : s = dest \o h
  BY <1>4, ConcatProperties
<1>6. /\ Len(s) = Len(dest) + Len(h)
      /\ \A i \in 1..Len(dest) : s[i] = dest[i]
      /\ \A i \in 1..Len(h) : s[Len(dest) + i] = h[i]
  BY <1>4, <1>5
<1>7. /\ Len(enqueued) = Len(s) + Len(queue)
      /\ \A i \in 1..Len(s) : enqueued[i] = s[i]
      /\ \A i \in 1..Len(queue) : enqueued[Len(s) + i] = queue[i]
  BY <1>3, <1>4, <1>5
<1>8. Len(dest) \in Nat /\ Len(h) \in {0, 1} /\ Len(queue) \in Nat
  BY <1>1, <1>2, <1>4
<1>9. \A i \in 1..Len(dest) : dest[i] = enqueued[i]
  BY <1>6, <1>7, <1>8
<1>10. h # <<>> => wChunk = enqueued[Len(dest) + 1]
  <2> SUFFICES ASSUME h # <<>> PROVE wChunk = enqueued[Len(dest) + 1]
    OBVIOUS
  <2>1. Len(h) = 1 /\ h[1] = wChunk
    BY <1>1, <1>2
  <2> QED BY <1>6, <1>7, <1>8, <2>1
<1> QED BY <1>1, <1>2, <1>6, <1>7, <1>8, <1>9, <1>10

\* Every chunk is enqueued behind those before it in the file.
LEMMA OrderStep == IInv /\ OrderInv /\ Next => OrderInv'
<1> SUFFICES ASSUME IInv, OrderInv, Next PROVE OrderInv'
  OBVIOUS
<1>0. /\ rOffset \in Nat /\ enqueued \in Seq(Chunk) /\ NumChunks \in Nat
      /\ \A i \in 1..Len(enqueued) : enqueued[i] \in Nat
  BY AsyncCopyAssumption DEF IInv, TypeOK, Chunk
<1>1. CASE Enqueue
  <2>1. /\ rOffset' = rOffset + 1 /\ rpc' = "read" /\ rChunk = rOffset + 1
        /\ rChunk \in Chunk
    BY <1>1 DEF Enqueue, OrderInv, IInv, ReaderInv, TypeOK
  <2>2. CASE enqueued' = Append(enqueued, rChunk) /\ UNCHANGED faulted
    <3>1. /\ Len(enqueued') = Len(enqueued) + 1
          /\ enqueued'[Len(enqueued) + 1] = rOffset + 1
          /\ \A i \in 1..Len(enqueued) : enqueued'[i] = enqueued[i]
      BY <1>0, <2>1, <2>2
    <3>2. /\ Len(enqueued') <= rOffset'
          /\ \A i \in 1..Len(enqueued') : enqueued'[i] <= rOffset'
      BY <1>0, <2>1, <3>1 DEF OrderInv
    <3>3. \A i, j \in 1..Len(enqueued') : i < j => enqueued'[i] < enqueued'[j]
      <4> SUFFICES ASSUME NEW i \in 1..Len(enqueued'), NEW j \in 1..Len(enqueued'), i < j
                   PROVE  enqueued'[i] < enqueued'[j]
        OBVIOUS
      <4>1. i \in 1..Len(enqueued) /\ enqueued'[i] = enqueued[i] /\ enqueued[i] <= rOffset
        BY <1>0, <3>1 DEF OrderInv
      <4>2. CASE j = Len(enqueued) + 1
        BY <1>0, <3>1, <4>1, <4>2
      <4>3. CASE j \in 1..Len(enqueued)
        BY <3>1, <4>1, <4>3 DEF OrderInv
      <4> QED BY <1>0, <3>1, <4>2, <4>3
    <3>4. "allocItem" \notin faulted' =>
            Len(enqueued') = rOffset' /\ \A i \in 1..rOffset' : enqueued'[i] = i
      BY <1>0, <2>1, <2>2, <3>1 DEF OrderInv
    <3> QED BY <2>1, <3>2, <3>3, <3>4 DEF OrderInv
  <2>3. CASE UNCHANGED enqueued /\ "allocItem" \in faulted'
    BY <1>0, <2>1, <2>3 DEF OrderInv
  <2> QED BY <1>1, <2>2, <2>3 DEF Enqueue, Linked, Fault, NoFault
<1>2. CASE ~Enqueue
  <2>1. /\ UNCHANGED <<enqueued, rOffset>>
        /\ "allocItem" \notin faulted' => "allocItem" \notin faulted
        /\ \/ UNCHANGED <<rpc, rChunk>>
           \/ rpc' \notin {"enqueue", "cleanup"}
           \/ rChunk' \in {NULL, rOffset + 1} /\ (rpc' = "enqueue" => rChunk' = rOffset + 1)
    BY <1>2 DEF Next, Reader, ReaderOpen, ReaderAtEnd, ReadChunk, ReadFails, ReadEof,
       ReaderCleanup, ReaderSignal, ReaderFinish, Writer, WriterOpen, WaitSignaled,
       WaitTimeout, CheckFinished, Dequeue, DequeueNothing, RecheckFinished, WriteChunk,
       WriteFails, Main, InitQueue, CreateReader, CreateWriter, JoinReader, JoinWriter,
       DestroyQueue, Exit, MainStep, Exited, vars, histVars, readerVars, Fault, NoFault
  <2> QED BY <2>1 DEF OrderInv
<1> QED BY <1>1, <1>2

\* A buffer that is queued, being filled or being written is not freed.
LEMMA NotFreed ==
  ASSUME IInv, OrderInv, FreeInv
  PROVE  /\ \A i \in (FreedByWriter + 1)..Len(enqueued) : frees[enqueued[i]] = 0
         /\ FreedByWriter <= Len(enqueued) /\ FreedByWriter \in Nat
         /\ wpc = "write" => FreedByWriter = Len(dest) /\ wChunk = enqueued[Len(dest) + 1]
                             /\ Len(dest) < Len(enqueued) /\ frees[wChunk] = 0
         /\ rOffset + 1 \in Chunk /\ ~FreedByReader(rOffset + 1) => frees[rOffset + 1] = 0
<1>0. /\ rOffset \in Nat /\ enqueued \in Seq(Chunk) /\ frees \in [Chunk -> Nat]
      /\ \A i \in 1..Len(enqueued) : enqueued[i] \in Chunk /\ enqueued[i] \in Nat
      /\ dest \in Seq(Chunk) /\ queue \in Seq(Chunk) /\ Len(enqueued) \in Nat
      /\ Len(dest) \in Nat /\ Len(queue) \in Nat
  <2>1. /\ rOffset \in Nat /\ frees \in [Chunk -> Nat]
        /\ dest \in Seq(Chunk) /\ queue \in Seq(Chunk)
    BY AsyncCopyAssumption DEF IInv, TypeOK
  <2>2. Chunk \subseteq Nat
    BY DEF Chunk
  <2>3. enqueued \in Seq(Chunk)
    BY DEF IInv, TypeOK
  <2>4. \A i \in 1..Len(enqueued) : enqueued[i] \in Chunk
    BY <2>3
  <2>5. Len(enqueued) \in Nat /\ Len(dest) \in Nat /\ Len(queue) \in Nat
    BY <2>1, <2>3
  <2> QED BY <2>1, <2>2, <2>3, <2>4, <2>5
<1>1. /\ Len(InHand) \in {0, 1}
      /\ Len(enqueued) = Len(dest) + Len(InHand) + Len(queue)
      /\ InHand # <<>> => wChunk = enqueued[Len(dest) + 1]
  BY Positions DEF IInv
<1>2. /\ FreedByWriter <= Len(enqueued) /\ FreedByWriter \in Nat
      /\ FreedByWriter >= Len(dest)
  BY <1>0, <1>1 DEF FreedByWriter
<1>3. ASSUME NEW i \in (FreedByWriter + 1)..Len(enqueued) PROVE frees[enqueued[i]] = 0
  <2>1. PICK c \in Chunk : c = enqueued[i]
    BY <1>0, <1>2
  <2>2. i \in 1..Len(enqueued) /\ c <= rOffset
    BY <1>0, <1>2, <2>1 DEF OrderInv
  <2>3. ~FreedByReader(c)
    BY <1>0, <2>1, <2>2 DEF FreedByReader
  <2>4. ASSUME NEW j \in 1..FreedByWriter PROVE enqueued[j] # c
    <3>1. j \in 1..Len(enqueued) /\ j < i
      BY <1>0, <1>2
    <3>2. enqueued[j] < enqueued[i]
      BY <2>2, <3>1 DEF OrderInv
    <3> QED BY <1>0, <2>1, <2>2, <3>1, <3>2
  <2> QED BY <2>1, <2>3, <2>4 DEF FreeInv
<1>4. ASSUME wpc = "write"
      PROVE  /\ FreedByWriter = Len(dest) /\ wChunk = enqueued[Len(dest) + 1]
             /\ Len(dest) < Len(enqueued) /\ frees[wChunk] = 0
  <2>1. InHand # <<>> /\ Len(InHand) = 1
    BY <1>4 DEF InHand
  <2>2. FreedByWriter = Len(dest) /\ Len(dest) < Len(enqueued)
    BY <1>0, <1>1, <1>4, <2>1 DEF FreedByWriter
  <2> QED BY <1>0, <1>1, <1>3, <2>1, <2>2
<1>5. ASSUME rOffset + 1 \in Chunk, ~FreedByReader(rOffset + 1)
      PROVE  frees[rOffset + 1] = 0
  <2>1. \A i \in 1..FreedByWriter : enqueued[i] # rOffset + 1
    <3>1. \A i \in 1..FreedByWriter : i \in 1..Len(enqueued)
      BY <1>0, <1>2
    <3> QED BY <1>0, <3>1 DEF OrderInv
  <2> QED BY <1>5, <2>1 DEF FreeInv
<1> QED BY <1>2, <1>3, <1>4, <1>5

\* What has been freed stays accounted for: no step takes a chunk back.
LEMMA FreedGrows ==
  ASSUME IInv, OrderInv, FreeInv, Next
  PROVE  /\ \A c \in Chunk : FreedByReader(c) => FreedByReader(c)'
         /\ FreedByWriter' \in Nat /\ FreedByWriter <= FreedByWriter'
         /\ \A i \in 1..FreedByWriter : enqueued'[i] = enqueued[i]
<1>0. /\ rOffset \in Nat /\ enqueued \in Seq(Chunk) /\ Len(dest) \in Nat
      /\ dest \in Seq(Chunk) /\ TypeOK
  BY AsyncCopyAssumption DEF IInv, TypeOK
<1>1. ASSUME NEW c \in Chunk, FreedByReader(c) PROVE FreedByReader(c)'
  BY <1>1 DEF IInv, MainInv, FreedByReader, Next, Reader, ReaderOpen, ReaderAtEnd,
     ReadChunk, ReadFails, ReadEof, Enqueue, ReaderCleanup, ReaderSignal, ReaderFinish,
     Writer, WriterOpen, WaitSignaled, WaitTimeout, CheckFinished, Dequeue,
     DequeueNothing, RecheckFinished, WriteChunk, WriteFails, Main, InitQueue,
     CreateReader, CreateWriter, JoinReader, JoinWriter, DestroyQueue, Exit, MainStep,
     Exited, vars, readerVars
<1>2. /\ wpc = "done" => UNCHANGED <<wpc, wResult, wChunk, dest>>
      /\ dest' = dest \/ (WriteChunk /\ dest' = Append(dest, wChunk))
  BY DEF IInv, MainInv, Next, Reader, ReaderOpen, ReaderAtEnd,
     ReadChunk, ReadFails, ReadEof, Enqueue, ReaderCleanup, ReaderSignal, ReaderFinish,
     Writer, WriterOpen, WaitSignaled, WaitTimeout, CheckFinished, Dequeue,
     DequeueNothing, RecheckFinished, WriteChunk, WriteFails, Main, InitQueue,
     CreateReader, CreateWriter, JoinReader, JoinWriter, DestroyQueue, Exit, MainStep,
     Exited, vars, writerVars
<1>3. FreedByWriter' \in Nat /\ FreedByWriter <= FreedByWriter'
  <2>1. Len(InHand) \in {0, 1} /\ Len(InHand') \in {0, 1}
    BY DEF InHand
  <2>2. CASE wpc = "done"
    BY <1>0, <1>2, <2>1, <2>2 DEF FreedByWriter, InHand
  <2>3. CASE wpc # "done"
    <3>1. Len(dest') \in Nat /\ Len(dest') >= Len(dest)
      <4>1. CASE WriteChunk /\ dest' = Append(dest, wChunk)
        <5>1. wChunk \in Chunk
          BY <4>1 DEF WriteChunk, IInv, WriterInv, TypeOK
        <5> QED BY <1>0, <4>1, <5>1
      <4> QED BY <1>0, <1>2, <4>1
    <3> QED BY <1>0, <2>1, <2>3, <3>1 DEF FreedByWriter
  <2> QED BY <2>2, <2>3
<1>4. ASSUME NEW i \in 1..FreedByWriter PROVE enqueued'[i] = enqueued[i]
  <2>1. i \in 1..Len(enqueued)
    BY NotFreed, <1>0
  <2>2. enqueued' = enqueued \/ (Enqueue /\ enqueued' = Append(enqueued, rChunk))
    BY DEF Next, Reader, ReaderOpen, ReaderAtEnd,
       ReadChunk, ReadFails, ReadEof, Enqueue, Linked, ReaderCleanup, ReaderSignal,
       ReaderFinish, Writer, WriterOpen, WaitSignaled, WaitTimeout, CheckFinished, Dequeue,
       DequeueNothing, RecheckFinished, WriteChunk, WriteFails, Main, InitQueue,
       CreateReader, CreateWriter, JoinReader, JoinWriter, DestroyQueue, Exit, MainStep,
       Exited, vars, histVars
  <2>3. CASE Enqueue /\ enqueued' = Append(enqueued, rChunk)
    <3>1. rChunk \in Chunk
      BY <2>3 DEF Enqueue, IInv, ReaderInv, TypeOK
    <3> QED BY <1>0, <2>1, <2>3, <3>1
  <2> QED BY <2>2, <2>3
<1> QED BY <1>1, <1>3, <1>4

\* Every LocalFree is of a buffer not freed before, by its owner.
LEMMA FreeStep == IInv /\ OrderInv /\ FreeInv /\ WriterInv' /\ Next => FreeInv'
<1> SUFFICES ASSUME IInv, OrderInv, FreeInv, WriterInv', Next PROVE FreeInv'
  OBVIOUS
<1> DEFINE Owned(c) == FreedByReader(c) \/ \E i \in 1..FreedByWriter : enqueued[i] = c
<1>0. /\ rOffset \in Nat /\ frees \in [Chunk -> Nat] /\ FreedByWriter \in Nat
      /\ Len(dest) \in Nat /\ dest \in Seq(Chunk) /\ TypeOK /\ ReaderInv /\ WriterInv
  BY AsyncCopyAssumption, NotFreed DEF IInv, TypeOK
<1>1. ASSUME NEW c \in Chunk, Owned(c) PROVE Owned(c)'
  <2>1. CASE FreedByReader(c)
    BY <2>1, FreedGrows
  <2>2. ASSUME NEW i \in 1..FreedByWriter, enqueued[i] = c PROVE Owned(c)'
    <3>1. i \in 1..FreedByWriter' /\ enqueued'[i] = c
      BY <1>0, <2>2, FreedGrows
    <3> QED BY <3>1
  <2> QED BY <1>1, <2>1, <2>2
<1>2. \/ UNCHANGED frees
      \/ \E c \in Chunk : Free(c) /\ frees[c] = 0 /\ Owned(c)'
  <2>1. CASE WriteChunk \/ WriteFails
    <3>1. /\ wChunk \in Chunk /\ frees[wChunk] = 0 /\ wChunk = enqueued[Len(dest) + 1]
          /\ Free(wChunk) /\ UNCHANGED enqueued
      BY <1>0, <2>1, NotFreed DEF WriteChunk, WriteFails, WriterInv, TypeOK
    <3>2. FreedByWriter' = Len(dest) + 1
      <4>1. CASE WriteChunk
        <5>1. wpc' = "wait" /\ Len(dest') = Len(dest) + 1
          BY <1>0, <3>1, <4>1 DEF WriteChunk
        <5> QED BY <1>0, <5>1 DEF FreedByWriter
      <4>2. CASE WriteFails
        <5>1. wpc' = "done" /\ dest' = dest /\ InHand' = <<wChunk>>
          BY <1>0, <4>2 DEF WriteFails, InHand, WriterInv
        <5>2. Len(InHand') = 1
          BY <5>1
        <5> QED BY <1>0, <5>1, <5>2 DEF FreedByWriter
      <4> QED BY <2>1, <4>1, <4>2
    <3>3. PICK c \in Chunk : c = wChunk
      BY <3>1
    <3>4. Len(dest) + 1 \in 1..FreedByWriter' /\ enqueued'[Len(dest) + 1] = c
      BY <1>0, <3>1, <3>2, <3>3
    <3>5. Owned(c)'
      BY <3>4
    <3> QED BY <3>1, <3>3, <3>5
  <2>2. CASE ReadEof \/ (ReaderCleanup /\ OwnsBuffer)
    <3>1. PICK c \in Nat : c = rOffset + 1
      BY <1>0
    <3>2. c \in Chunk /\ Free(c) /\ ~FreedByReader(c) /\ FreedByReader(c)'
      <4>1. CASE ReadEof
        <5>1. c \in Chunk
          BY <1>0, <3>1, <4>1, AsyncCopyAssumption DEF ReadEof, MoreToRead, Chunk
        <5> QED BY <3>1, <4>1, <5>1 DEF ReadEof, FreedByReader
      <4>2. CASE ReaderCleanup /\ OwnsBuffer
        <5>1. rChunk = c /\ c \in Chunk
          BY <1>0, <3>1, <4>2 DEF ReaderCleanup, OwnsBuffer, OrderInv, TypeOK
        <5> QED BY <3>1, <4>2, <5>1 DEF ReaderCleanup, OwnsBuffer, FreedByReader
      <4> QED BY <2>2, <4>1, <4>2
    <3>3. frees[c] = 0
      BY <3>1, <3>2, NotFreed
    <3> QED BY <3>2, <3>3
  <2>3. CASE /\ ~WriteChunk /\ ~WriteFails /\ ~ReadEof
             /\ ~(ReaderCleanup /\ OwnsBuffer)
    BY <2>3 DEF Next, Reader, ReaderOpen, ReaderAtEnd,
       ReadChunk, ReadFails, Enqueue, ReaderCleanup, ReaderSignal,
       ReaderFinish, Writer, WriterOpen, WaitSignaled, WaitTimeout, CheckFinished, Dequeue,
       DequeueNothing, RecheckFinished, Main, InitQueue,
       CreateReader, CreateWriter, JoinReader, JoinWriter, DestroyQueue, Exit, MainStep,
       Exited, vars, histVars
  <2> QED BY <2>1, <2>2, <2>3
<1>3. \A c \in Chunk : frees[c] <= 1 /\ (frees[c] # 0 => Owned(c))
  BY DEF FreeInv
<1>4. \A c \in Chunk : frees'[c] <= 1 /\ (frees'[c] # 0 => Owned(c)')
  <2>1. CASE UNCHANGED frees
    BY <1>1, <1>3, <2>1
  <2>2. ASSUME NEW c \in Chunk, Free(c), frees[c] = 0, Owned(c)'
        PROVE  \A d \in Chunk : frees'[d] <= 1 /\ (frees'[d] # 0 => Owned(d)')
    <3> HIDE DEF Owned
    <3>1. frees'[c] = 1 /\ \A d \in Chunk \ {c} : frees'[d] = frees[d]
      BY <1>0, <2>2 DEF Free
    <3> QED BY <1>1, <1>3, <2>2, <3>1
  <2> QED BY <1>2, <2>1, <2>2
<1> QED BY <1>4 DEF FreeInv

\* bFinished and the event tell the writer of the reader's end.
LEMMA EndStep == IInv /\ EndInv /\ Next => EndInv'
<1> SUFFICES ASSUME IInv, EndInv, Next PROVE EndInv'
  OBVIOUS
<1>0. /\ EventTracksQueue /\ MainInv /\ WriterInv
      /\ queue \in Seq(Chunk) /\ rChunk \in Chunk \cup {NULL}
  BY DEF IInv, TypeOK
<1> USE DEF EndInv, queueVars, readerVars, writerVars, histVars
<1>1. CASE Enqueue
  <2>1. queue' = queue \/ queue' # <<>>
    BY <1>0, <1>1 DEF Enqueue, Linked
  <2> QED BY <1>1, <2>1 DEF Enqueue, Fault, NoFault
<1>2. CASE Reader /\ ~Enqueue
  <2>1. /\ UNCHANGED <<queue, wpc, wWait, wResult>>
        /\ "slowRead" \notin faulted' => "slowRead" \notin faulted
        /\ rpc \in {"finish", "done"} => rpc' \in {"finish", "done"}
        /\ rpc # "done" /\ (bFinished' => bFinished \/ rpc' = "done")
    BY <1>2 DEF Reader, ReaderOpen, ReaderAtEnd, ReadChunk, ReadFails, ReadEof,
       ReaderCleanup, ReaderSignal, ReaderFinish, Fault, NoFault
  <2> QED BY <2>1
<1>3. CASE Writer
  <2>1. CASE WriterOpen
    BY <1>0, <2>1 DEF WriterOpen, Fault, NoFault, WriterInv
  <2>2. CASE WaitSignaled
    BY <1>0, <2>2 DEF WaitSignaled, EventTracksQueue, WriterInv
  <2>3. CASE WaitTimeout
    BY <1>0, <2>3 DEF WaitTimeout, EventTracksQueue, WriterInv, Fault, NoFault
  <2>4. CASE CheckFinished
    BY <1>0, <2>4 DEF CheckFinished, FinishedAfterWait, WriterInv, TypeOK, IInv
  <2>5. CASE Dequeue
    BY <1>0, <2>5 DEF Dequeue, WriterInv
  <2>6. CASE DequeueNothing
    BY <1>0, <2>6 DEF DequeueNothing, WriterInv
  <2>7. CASE RecheckFinished
    BY <1>0, <2>7 DEF RecheckFinished, WriterInv
  <2>8. CASE WriteChunk \/ WriteFails
    BY <1>0, <2>8 DEF WriteChunk, WriteFails, WriterInv, Fault
  <2> QED BY <1>3, <2>1, <2>2, <2>3, <2>4, <2>5, <2>6, <2>7, <2>8 DEF Writer
<1>4. CASE Main
  <2>1. /\ UNCHANGED <<queue, bFinished, wWait, wResult>>
        /\ UNCHANGED wpc \/ wpc' = "open"
        /\ UNCHANGED rpc \/ (rpc = "none" /\ rpc' = "open")
        /\ "slowRead" \notin faulted' => "slowRead" \notin faulted
    BY <1>0, <1>4 DEF Main, InitQueue, CreateReader, CreateWriter, JoinReader, JoinWriter,
       DestroyQueue, Exit, MainStep, MainInv, Fault, NoFault
  <2> QED BY <2>1
<1>5. CASE Exited
  BY <1>5 DEF Exited, vars
<1> QED BY <1>1, <1>2, <1>3, <1>4, <1>5 DEF Next

\* The order of the chunks, the buffers and the end of the copy are kept.
THEOREM Bookkeeping == Spec => []BufferInv
<1>1. Init => BufferInv
  BY DEF Init, BufferInv, OrderInv, FreeInv, EndInv
<1>2. IInv /\ IInv' /\ BufferInv /\ [Next]_vars => BufferInv'
  <2> SUFFICES ASSUME IInv, IInv', BufferInv, [Next]_vars PROVE BufferInv'
    OBVIOUS
  <2>1. CASE Next
    BY <2>1, OrderStep, FreeStep, EndStep DEF BufferInv, IInv
  <2>2. CASE UNCHANGED vars
    BY <2>2 DEF BufferInv, OrderInv, FreeInv, EndInv, FreedByReader, FreedByWriter,
       InHand, vars, queueVars, readerVars, writerVars, mainVars, histVars
  <2> QED BY <2>1, <2>2
<1> QED BY <1>1, <1>2, Invariance, PTL DEF Spec

\* No chunk buffer is freed twice, or while it is queued, filled or written.
THEOREM BuffersOwned == Spec => []BufferOwnership
<1>1. IInv /\ BufferInv => BufferOwnership
  <2> SUFFICES ASSUME IInv, OrderInv, FreeInv PROVE BufferOwnership
    BY DEF BufferInv
  <2>1. \A i \in 1..Len(queue) : frees[queue[i]] = 0
    <3> SUFFICES ASSUME NEW i \in 1..Len(queue) PROVE frees[queue[i]] = 0
      OBVIOUS
    <3>1. /\ Len(dest) \in Nat /\ Len(queue) \in Nat /\ Len(InHand) \in {0, 1}
          /\ Len(enqueued) = Len(dest) + Len(InHand) + Len(queue)
          /\ queue[i] = enqueued[Len(dest) + Len(InHand) + i]
      <4>1. Len(dest) \in Nat /\ Len(queue) \in Nat
        BY DEF IInv, TypeOK
      <4> QED BY <4>1, Positions DEF IInv
    <3>2. Len(dest) + Len(InHand) + i \in (FreedByWriter + 1)..Len(enqueued)
      BY <3>1 DEF FreedByWriter
    <3> QED BY <3>1, <3>2, NotFreed
  <2>2. rpc = "enqueue" => frees[rChunk] = 0
    <3> SUFFICES ASSUME rpc = "enqueue" PROVE frees[rChunk] = 0
      OBVIOUS
    <3>1. rChunk = rOffset + 1 /\ rChunk \in Chunk
      BY DEF OrderInv, IInv, ReaderInv, TypeOK
    <3>2. ~FreedByReader(rOffset + 1)
      BY DEF FreedByReader
    <3> QED BY <3>1, <3>2, NotFreed
  <2> QED BY <2>1, <2>2, NotFreed DEF BufferOwnership, FreeInv
<1> QED BY <1>1, Invariance, Bookkeeping, PTL

\* If both threads report success, the file is what the reader has queued, and what
\* it has read.
THEOREM SuccessIsComplete == Spec => []SuccessMeansComplete
<1>1. IInv /\ BufferInv => SuccessMeansComplete
  <2> SUFFICES ASSUME IInv, OrderInv, EndInv, wResult, "slowRead" \notin faulted
               PROVE  /\ dest = enqueued
                      /\ "allocItem" \notin faulted => dest = [i \in 1..rOffset |-> i]
    BY DEF BufferInv, SuccessMeansComplete
  <2>1. queue = <<>> /\ InHand = <<>>
    BY DEF EndInv, InHand, IInv, WriterInv
  <2>2. /\ Len(dest) = Len(enqueued) /\ \A i \in 1..Len(dest) : dest[i] = enqueued[i]
        /\ dest = [i \in 1..Len(dest) |-> dest[i]]
        /\ enqueued = [i \in 1..Len(enqueued) |-> enqueued[i]]
    <3>1. Len(InHand) = 0 /\ Len(queue) = 0
      BY <2>1
    <3>2. Len(dest) \in Nat /\ Len(enqueued) \in Nat
      BY DEF IInv, TypeOK
    <3>3. Len(dest) = Len(enqueued)
      BY <3>1, <3>2, Positions DEF IInv
    <3>4. \A i \in 1..Len(dest) : dest[i] = enqueued[i]
      BY Positions DEF IInv
    <3>5. dest \in Seq(Chunk) /\ enqueued \in Seq(Chunk)
      BY DEF IInv, TypeOK
    <3>6. /\ dest = [i \in 1..Len(dest) |-> dest[i]]
          /\ enqueued = [i \in 1..Len(enqueued) |-> enqueued[i]]
      BY <3>5
    <3> QED BY <3>3, <3>4, <3>6
  <2>3. dest = enqueued
    BY <2>2
  <2>4. ASSUME "allocItem" \notin faulted PROVE dest = [i \in 1..rOffset |-> i]
    <3>1. Len(enqueued) = rOffset /\ \A i \in 1..rOffset : enqueued[i] = i
      BY <2>4 DEF OrderInv
    <3> QED BY <2>2, <3>1
  <2> QED BY <2>3, <2>4
<1> QED BY <1>1, Invariance, Bookkeeping, PTL

\* AsyncCopy implements FifoTransfer: EnqueueBuffer is a Send, a write to the
\* file a Receive, and every other step a stutter, whatever fails.
THEOREM ImplementsFifo == Spec => IsFifo
<1>1. Init => Fifo!Init
  BY DEF Init, Fifo!Init
<1>2. IInv /\ BufferInv /\ [Next]_vars => [Fifo!Next]_<<enqueued, dest>>
  <2> SUFFICES ASSUME IInv, OrderInv, FreeInv, [Next]_vars
               PROVE  Fifo!Next \/ UNCHANGED <<enqueued, dest>>
    BY DEF BufferInv
  <2>0. Len(dest) \in Nat /\ Len(enqueued) \in Nat /\ rOffset \in Nat /\ NumChunks \in Nat
    BY AsyncCopyAssumption DEF IInv, TypeOK
  <2>1. CASE Enqueue
    <3>1. rChunk \in Chunk /\ rOffset < NumChunks /\ UNCHANGED dest
      BY <2>1 DEF Enqueue, IInv, ReaderInv, TypeOK, writerVars
    <3>2. Len(enqueued) - Len(dest) < NumChunks
      BY <2>0, <3>1 DEF OrderInv
    <3>3. enqueued' = enqueued \/ enqueued' = Append(enqueued, rChunk)
      BY <2>1 DEF Enqueue
    <3> QED BY <3>1, <3>2, <3>3 DEF Fifo!Next, Fifo!Send
  <2>2. CASE WriteChunk
    <3>1. dest' = Append(dest, wChunk) /\ UNCHANGED enqueued
      BY <2>2 DEF WriteChunk
    <3>2. Len(dest) < Len(enqueued) /\ wChunk = enqueued[Len(dest) + 1]
      BY <2>2, NotFreed DEF WriteChunk
    <3> QED BY <3>1, <3>2 DEF Fifo!Next, Fifo!Receive
  <2>3. CASE ~Enqueue /\ ~WriteChunk
    BY <2>3 DEF Next, Reader, ReaderOpen, ReaderAtEnd, ReadChunk, ReadFails, ReadEof,
       ReaderCleanup, ReaderSignal, ReaderFinish, Writer, WriterOpen, WaitSignaled,
       WaitTimeout, CheckFinished, Dequeue, DequeueNothing, RecheckFinished,
       WriteFails, Main, InitQueue, CreateReader, CreateWriter, JoinReader, JoinWriter,
       DestroyQueue, Exit, MainStep, Exited, vars, histVars, writerVars
  <2> QED BY <2>1, <2>2, <2>3
<1> QED BY <1>1, <1>2, Invariance, Bookkeeping, PTL DEF Spec, IsFifo, Fifo!Spec
=============================================================================
