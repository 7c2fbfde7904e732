--------------------------- MODULE IocpCopyProofs ---------------------------
(***************************************************************************)
(* IocpCopy for every number of chunks and copies and every set of faults: *)
(* g_OpCount counts the live IO_DATA, so that the completion event is      *)
(* signaled when nothing is left, and TRUE is said of a complete copy.     *)
(***************************************************************************)
EXTENDS IocpCopy, FiniteSetTheorems, TLAPS

\* Nothing is in flight, in the port or in the worker's hands.
Quiet ==
  /\ reading = {} /\ writing = {}
  /\ wpc \in {"none", "get", "done"}
  /\ \A i \in 1..Len(port) : port[i] = Quit

\* The call is between its first ReadFile and the end of its worker.
Copying == mpc \in {"createEvent", "wait", "join"}

\* What holds at each point of StartCopy and of main.
MainInv ==
  /\ mpc \in {"open", "createWorker", "read"} =>
       Quiet /\ port = <<>> /\ g_OpCount = 0 /\ ~bResult
  /\ mpc \in {"open", "createWorker"} => wpc \in {"none", "done"}
  /\ mpc \in {"createWorker", "read"} => allocated = 0
  /\ mpc = "read" => wpc = "get"
  /\ Copying => ~bResult /\ allocated >= 1
  /\ mpc \in {"createWorker", "read"} \/ Copying => open
  /\ mpc \in {"cleanup", "return", "exited"} =>
       Quiet \/ "createEvent" \in faulted
  /\ bResult => Quiet /\ wpc = "done" /\ g_OpCount = 0
  /\ bResult /\ mpc = "return" => port = <<>>
  /\ mpc \in {"open", "createWorker", "read", "createEvent", "return", "exited"}
       => g_hCompletionEvent \in {"null", "stale"}
  /\ mpc = "join" => g_hCompletionEvent = "set"

\* After a fault of the set-up the call fails, and no other call follows.
FaultInv ==
  /\ faulted \cap {"firstRead", "createEvent"} # {} =>
       mpc \in {"cleanup", "return", "exited"} /\ ~bResult
  /\ "firstRead" \in faulted => Quiet /\ g_OpCount = 1 /\ wpc # "none"

\* Only the last chunk allocated is being read, and it is read once.
FrontierInv ==
  /\ reading \subseteq {allocated}
  /\ \A i \in 1..Len(port) : port[i].op = "read" =>
       port[i].chunk = allocated /\ reading = {}
  /\ wpc \in {"write", "next", "read"} =>
       /\ pIoData = allocated /\ allocated \in Chunk
       /\ reading = {}
       /\ \A i \in 1..Len(port) : port[i].op # "read"

\* An IO_DATA has one packet in the port at most.
Distinct ==
  \A i, j \in 1..Len(port) :
    port[i].chunk = port[j].chunk /\ port[i] # Quit => i = j

\* None is freed before it is allocated.
PacketInv ==
  /\ Distinct
  /\ \A c \in Chunk : c > allocated => frees[c] = 0

\* The count, at every point of the program but after a failed first read.
CountInv ==
  /\ "firstRead" \notin faulted =>
       g_OpCount = Cardinality(Live) + (IF wpc = "decrement" THEN 1 ELSE 0)
  /\ wpc = "decrement" => pIoData \in 1..allocated /\ frees[pIoData] = 1
  /\ wpc = "signal" => g_OpCount = 0

\* The chunk last allocated has yet to be read, or written.
ReadAhead ==
  \/ reading # {} \/ wpc \in {"write", "read"}
  \/ \E i \in 1..Len(port) : port[i].op = "read"

LosesData == {"createEvent", "write", "read", "eof", "failed"}

\* Without a fault that loses data every chunk that was allocated is on its way to
\* the file, and there are more to come unless the next could not be allocated.
CopyInv ==
  faulted \cap LosesData = {} =>
    /\ \A i \in 1..Len(port) : port[i].status = "ok"
    /\ Copying \/ bResult =>
         /\ \A c \in 1..allocated :
              c \in dest \cup writing \/ (c = allocated /\ ReadAhead)
         /\ \/ allocated = NumChunks \/ ReadAhead \/ wpc = "next"
            \/ "alloc" \in faulted

\* Only what was allocated has been written.
WrittenInv == dest \subseteq 1..allocated

IInv == /\ TypeOK /\ MainInv /\ FaultInv /\ FrontierInv /\ PacketInv /\ CountInv
        /\ IoDataOwnership /\ SignalMeansQuiescent /\ FilesOutliveOperations
        /\ CopyInv /\ WrittenInv
-----------------------------------------------------------------------------
(* The port and the live IO_DATA *)

Packet == {Quit} \cup [op : {"read", "write"}, chunk : Chunk,
                       status : {"ok", "eof", "failed"}]

\* A packet that is queued comes after the ones in the port.
LEMMA PortAppend ==
  ASSUME port \in Seq(Packet), NEW p \in Packet, port' = Append(port, p)
  PROVE  /\ port' \in Seq(Packet)
         /\ Len(port') = Len(port) + 1 /\ Len(port) \in Nat
         /\ \A i \in 1..Len(port) : port'[i] = port[i]
         /\ port'[Len(port) + 1] = p
         /\ \A i \in 1..Len(port') : i \in 1..Len(port) \/ i = Len(port) + 1
OBVIOUS

\* The packets that stay in the port move up by one.
LEMMA PortTail ==
  ASSUME port \in Seq(Packet), port # <<>>, port' = Tail(port)
  PROVE  /\ port' \in Seq(Packet)
         /\ Len(port') = Len(port) - 1 /\ Len(port) \in Nat \ {0}
         /\ Head(port) = port[1] /\ Head(port) \in Packet
         /\ \A i \in 1..Len(port') : i + 1 \in 1..Len(port) /\ port'[i] = port[i + 1]
         /\ \A i \in 1..Len(port) : i = 1 \/ i - 1 \in 1..Len(port')
OBVIOUS

\* The port is empty after a close.
LEMMA PortEmpty ==
  ASSUME port' = <<>>
  PROVE  port' \in Seq(Packet) /\ 1..Len(port') = {}
OBVIOUS

\* The live IO_DATA are finitely many, no more than were allocated.
LEMMA LiveFinite ==
  ASSUME TypeOK
  PROVE  /\ IsFiniteSet(Live) /\ Live \subseteq Chunk
         /\ Cardinality(Live) \in Nat /\ Cardinality(Live) <= allocated
<1>1. /\ allocated \in Nat /\ allocated <= NumChunks
  BY IocpCopyAssumption DEF TypeOK
<1>2. /\ IsFiniteSet(1..allocated)
      /\ Cardinality(1..allocated) = allocated
  BY <1>1, FS_Interval
<1>3. Live \subseteq 1..allocated
  BY DEF Live
<1>4. IsFiniteSet(Live) /\ Cardinality(Live) <= Cardinality(1..allocated)
  BY <1>2, <1>3, FS_Subset
<1>5. Live \subseteq Chunk
  BY <1>1, <1>3, IocpCopyAssumption DEF Chunk
<1> QED BY <1>2, <1>4, <1>5, FS_CardinalityType

\* Freeing a live IO_DATA leaves one less.
LEMMA LiveFree ==
  ASSUME TypeOK, NEW c \in Live, Free(c), allocated' = allocated
  PROVE  /\ Live' = Live \ {c} /\ Cardinality(Live') = Cardinality(Live) - 1
         /\ frees'[c] = 1
         /\ frees' \in [Chunk -> Nat]
<1>1. c \in Chunk /\ frees[c] = 0 /\ c \in 1..allocated
  BY LiveFinite DEF Live
<1>2. /\ frees' = [frees EXCEPT ![c] = @ + 1]
      /\ frees \in [Chunk -> Nat]
  BY DEF TypeOK, Free
<1>3. frees' \in [Chunk -> Nat] /\ frees'[c] = 1
  BY <1>1, <1>2
<1>4. 1..allocated \subseteq Chunk
  BY IocpCopyAssumption DEF TypeOK, Chunk
<1>5. Live' = Live \ {c}
  BY <1>1, <1>2, <1>4 DEF Live
<1> QED BY <1>3, <1>5, LiveFinite, FS_RemoveElement

\* Allocating the next IO_DATA adds one.
LEMMA LiveAllocate ==
  ASSUME TypeOK, PacketInv, allocated < NumChunks,
         allocated' = allocated + 1, frees' = frees
  PROVE  /\ Live' = Live \cup {allocated + 1}
         /\ Cardinality(Live') = Cardinality(Live) + 1
<1>1. allocated + 1 \in Chunk /\ allocated \in Nat
  BY IocpCopyAssumption DEF TypeOK, Chunk
<1>2. frees[allocated + 1] = 0
  BY <1>1 DEF PacketInv
<1>3. 1..(allocated + 1) = 1..allocated \cup {allocated + 1}
  BY <1>1
<1>4. Live' = Live \cup {allocated + 1}
  BY <1>2, <1>3 DEF Live
<1>5. allocated + 1 \notin Live
  BY <1>1 DEF Live
<1> QED BY <1>4, <1>5, LiveFinite, FS_AddElement

\* What allocates and frees nothing leaves the live ones alone.
LEMMA LiveSame ==
  ASSUME UNCHANGED <<allocated, frees>>
  PROVE  Live' = Live
BY DEF Live
-----------------------------------------------------------------------------
(* The types *)

\* The initial state satisfies the invariant.
LEMMA InitInv == Init => IInv
<1> SUFFICES ASSUME Init PROVE IInv
  OBVIOUS
<1> USE DEF Init
<1>1. TypeOK
  <2>1. /\ port \in Seq({Quit} \cup [op : {"read", "write"}, chunk : Chunk,
                                      status : {"ok", "eof", "failed"}])
        /\ frees \in [Chunk -> Nat]
        /\ copy \in 1..Copies
        /\ 0 \in 0..NumChunks
    BY IocpCopyAssumption
  <2>2. /\ mpc = "open" /\ bResult = FALSE /\ open = FALSE
        /\ g_hCompletionEvent = "null" /\ wpc = "none"
        /\ g_OpCount = 0 /\ pIoData = 0 /\ allocated = 0
        /\ reading = {} /\ writing = {} /\ dest = {} /\ faulted = {}
    OBVIOUS
  <2> HIDE DEF Init
  <2> QED BY <2>1, <2>2 DEF TypeOK
<1>2. Live = {} /\ Cardinality(Live) = 0
  BY FS_EmptySet DEF Live
<1>3. 1..Len(port) = {}
  OBVIOUS
<1>4. MainInv /\ FaultInv /\ FrontierInv
  BY <1>3 DEF MainInv, FaultInv, FrontierInv, Quiet, Copying
<1>5. PacketInv /\ CountInv
  BY <1>2, <1>3 DEF PacketInv, Distinct, CountInv, Chunk
<1>6. IoDataOwnership /\ SignalMeansQuiescent /\ FilesOutliveOperations
  BY <1>2, <1>3 DEF IoDataOwnership, SignalMeansQuiescent,
     FilesOutliveOperations, InPort, InHand
<1>7. CopyInv /\ WrittenInv
  BY <1>3 DEF CopyInv, Copying, WrittenInv
<1> QED BY <1>1, <1>4, <1>5, <1>6, <1>7 DEF IInv

\* No step of StartCopy leaves the sets of TypeOK ...
LEMMA TypeMain == IInv /\ Main => TypeOK'
<1> SUFFICES ASSUME IInv, Main PROVE TypeOK'
  OBVIOUS
<1>0. TypeOK /\ MainInv
  BY DEF IInv
<1> USE <1>0, IocpCopyAssumption
    DEF TypeOK, GoTo, mainVars, workerVars, deviceVars, heapVars, NoFault, Fault
<1>1. CASE Open
  <2>1. /\ port' \in Seq({Quit} \cup [op : {"read", "write"}, chunk : Chunk,
                                       status : {"ok", "eof", "failed"}])
        /\ frees' \in [Chunk -> Nat]
    BY <1>1 DEF Open
  <2>2. /\ mpc' \in {"createWorker", "cleanup"} /\ open' \in BOOLEAN
        /\ dest' = {} /\ allocated' = 0 /\ faulted' \subseteq Faults
    BY <1>1 DEF Open
  <2>3. UNCHANGED <<copy, bResult, g_hCompletionEvent, g_OpCount, workerVars,
                    reading, writing>>
    BY <1>1 DEF Open
  <2> QED BY <2>1, <2>2, <2>3
<1>2. CASE CreateWorker
  BY <1>2 DEF CreateWorker
<1>3. CASE FirstRead
  <2>1. 1 \in Chunk /\ {0, 1} \subseteq 0..NumChunks
    BY DEF Chunk
  <2>2. /\ mpc' \in {"createEvent", "cleanup"}
        /\ reading' \subseteq Chunk /\ allocated' \in 0..NumChunks
        /\ g_OpCount' \in 0..NumChunks /\ faulted' \subseteq Faults
    BY <1>3, <2>1 DEF FirstRead
  <2>3. UNCHANGED <<copy, bResult, g_hCompletionEvent, open, workerVars, port,
                    writing, dest, frees>>
    BY <1>3 DEF FirstRead
  <2> QED BY <2>2, <2>3
<1>4. CASE CreateEvent
  BY <1>4 DEF CreateEvent
<1>5. CASE WaitEvent
  BY <1>5, PortAppend DEF WaitEvent, Packet
<1>6. CASE JoinWorker
  BY <1>6 DEF JoinWorker
<1>7. CASE Cleanup
  <2>1. g_hCompletionEvent' \in {"null", "stale"} /\ open' = FALSE
    BY <1>7 DEF Cleanup
  <2>2. port' = <<>>
    BY <1>7 DEF Cleanup
  <2> QED BY <1>7, <2>1, <2>2, PortEmpty DEF Cleanup, Packet
<1>8. CASE Return
  <2>1. mpc' \in {"open", "exited"} /\ bResult' \in BOOLEAN
    BY <1>8 DEF Return
  <2>2. copy' \in 1..Copies
    BY <1>8 DEF Return
  <2>3. UNCHANGED <<open, g_hCompletionEvent, g_OpCount, workerVars,
                    deviceVars, heapVars, faulted>>
    BY <1>8 DEF Return
  <2> QED BY <2>1, <2>2, <2>3
<1> QED BY <1>1, <1>2, <1>3, <1>4, <1>5, <1>6, <1>7, <1>8 DEF Main

\* ... of the devices ...
LEMMA TypeDevice == IInv /\ Device => TypeOK'
<1> SUFFICES ASSUME IInv, Device PROVE TypeOK'
  OBVIOUS
<1>0. TypeOK
  BY DEF IInv
<1> USE <1>0 DEF TypeOK, mainVars, workerVars, heapVars, NoFault, Fault
<1>1. ASSUME NEW op \in {"read", "write"}, NEW c \in Chunk,
             NEW status \in {"ok", "eof", "failed"}, Complete(op, c, status)
      PROVE  port' \in Seq({Quit} \cup [op : {"read", "write"}, chunk : Chunk,
                                         status : {"ok", "eof", "failed"}])
  <2>1. [op |-> op, chunk |-> c, status |-> status] \in Packet
    BY DEF Packet
  <2> QED BY <1>1, <2>1, PortAppend DEF Complete, Packet
<1>2. CASE ReadCompletes
  BY <1>2, <1>1 DEF ReadCompletes
<1>3. CASE WriteCompletes
  BY <1>3, <1>1 DEF WriteCompletes
<1> QED BY <1>2, <1>3 DEF Device

\* ... or of the worker.
LEMMA TypeWorker == IInv /\ WorkerThreadProc => TypeOK'
<1> SUFFICES ASSUME IInv, WorkerThreadProc PROVE TypeOK'
  OBVIOUS
<1>0. TypeOK /\ CountInv /\ FrontierInv /\ FaultInv
  BY DEF IInv
<1>a. Cardinality(Live) \in Nat /\ Cardinality(Live) <= allocated
  BY <1>0, LiveFinite
<1> USE <1>0, IocpCopyAssumption
    DEF TypeOK, Worker, mainVars, workerVars, deviceVars, heapVars, NoFault, Fault
<1>1. CASE GetPacket
  <2>1. /\ port' \in Seq({Quit} \cup [op : {"read", "write"}, chunk : Chunk,
                                       status : {"ok", "eof", "failed"}])
        /\ Head(port).chunk \in Chunk
    BY <1>1, PortTail DEF GetPacket, Packet
  <2>2. frees' \in [Chunk -> Nat]
    BY <1>1, <2>1 DEF GetPacket, Free
  <2> QED BY <1>1, <2>1, <2>2 DEF GetPacket, Chunk
<1>2. CASE GetNull
  BY <1>2, PortTail DEF GetNull, Packet
<1>3. CASE WriteFile
  <2>1. pIoData \in Chunk
    BY <1>3 DEF WriteFile, FrontierInv
  <2>2. frees' \in [Chunk -> Nat]
    BY <1>3, <2>1 DEF WriteFile, Free
  <2> QED BY <1>3, <2>1, <2>2 DEF WriteFile
<1>4. CASE NoNextRead
  BY <1>4 DEF NoNextRead
<1>5. CASE CountNextRead
  <2>1. allocated = pIoData /\ allocated < NumChunks
    BY <1>5 DEF CountNextRead, FrontierInv, MoreRemains
  <2>2. "firstRead" \notin faulted
    BY <1>5 DEF CountNextRead, FaultInv, Quiet
  <2>3. g_OpCount = Cardinality(Live)
    BY <1>5, <1>a, <2>2 DEF CountNextRead, CountInv
  <2>4. g_OpCount + 1 \in 0..NumChunks
    BY <2>1, <2>3, <1>a
  <2>5. g_OpCount' \in 0..NumChunks
    BY <1>5, <2>4 DEF CountNextRead, Incremented
  <2>6. allocated' \in 0..NumChunks /\ pIoData' \in 0..NumChunks
    BY <1>5, <2>1 DEF CountNextRead
  <2> QED BY <1>5, <2>5, <2>6 DEF CountNextRead
<1>6. CASE NextRead
  <2>1. pIoData \in Chunk
    BY <1>6 DEF NextRead, FrontierInv
  <2>2. frees' \in [Chunk -> Nat]
    BY <1>6, <2>1 DEF NextRead, Free
  <2> QED BY <1>6, <2>1, <2>2 DEF NextRead
<1>7. CASE Decrement
  <2>1. "firstRead" \notin faulted
    BY <1>7 DEF Decrement, FaultInv, Quiet
  <2>2. g_OpCount = Cardinality(Live) + 1
    BY <1>7, <2>1 DEF Decrement, CountInv
  <2>3. g_OpCount - 1 \in 0..NumChunks
    BY <2>2, <1>a
  <2> QED BY <1>7, <2>3 DEF Decrement
<1>8. CASE Signal
  BY <1>8 DEF Signal
<1> QED BY <1>1, <1>2, <1>3, <1>4, <1>5, <1>6, <1>7, <1>8 DEF WorkerThreadProc
-----------------------------------------------------------------------------
(* The points of StartCopy *)

\* When all is quiet no operation completes ...
LEMMA QuietDevice == Quiet => ~Device
BY DEF Quiet, Device, ReadCompletes, WriteCompletes

\* ... and the worker can only end.
LEMMA QuietWorker ==
  ASSUME TypeOK, Quiet, WorkerThreadProc
  PROVE  GetNull /\ Quiet'
<1>1. wpc = "get"
  BY DEF Quiet, WorkerThreadProc, GetPacket, GetNull, WriteFile, NoNextRead,
         CountNextRead, NextRead, Decrement, Signal, Worker
<1>2. port \in Seq(Packet)
  BY DEF TypeOK, Packet
<1>3. port # <<>> => Head(port) = Quit
  BY <1>2 DEF Quiet
<1>4. GetNull
  BY <1>1, <1>3 DEF WorkerThreadProc, GetPacket, GetNull, WriteFile,
         NoNextRead, CountNextRead, NextRead, Decrement, Signal, Worker
<1>5. \A i \in 1..Len(port') : port'[i] = Quit
  <2>1. CASE UNCHANGED port
    BY <2>1 DEF Quiet
  <2>2. CASE port # <<>> /\ port' = Tail(port)
    BY <1>2, <2>2, PortTail DEF Quiet
  <2> QED BY <1>4, <2>1, <2>2 DEF GetNull
<1> QED BY <1>1, <1>4, <1>5 DEF Quiet, GetNull, Worker

\* The steps of StartCopy keep what holds at its points.
LEMMA MainInvMain == IInv /\ Main => MainInv' /\ FaultInv'
<1> SUFFICES ASSUME IInv, Main PROVE MainInv' /\ FaultInv'
  OBVIOUS
<1>0. TypeOK /\ MainInv /\ FaultInv /\ SignalMeansQuiescent
  BY DEF IInv
<1> USE <1>0 DEF MainInv, FaultInv, Quiet, Copying, GoTo, mainVars, workerVars,
      deviceVars, heapVars, NoFault, Fault
<1>1. CASE Open
  <2>1. 1..Len(port') = {}
    BY <1>1 DEF Open
  <2> QED BY <1>1, <2>1 DEF Open
<1>2. CASE CreateWorker
  BY <1>2 DEF CreateWorker
<1>3. CASE FirstRead
  BY <1>3 DEF FirstRead
<1>4. CASE CreateEvent
  BY <1>4 DEF CreateEvent
<1>5. CASE WaitEvent
  BY <1>5 DEF WaitEvent, EventSignaled
<1>6. CASE JoinWorker
  BY <1>6 DEF JoinWorker, SignalMeansQuiescent
<1>7. CASE Cleanup
  <2>1. 1..Len(port') = {}
    BY <1>7 DEF Cleanup
  <2> QED BY <1>7, <2>1 DEF Cleanup, TypeOK
<1>8. CASE Return
  BY <1>8 DEF Return
<1> QED BY <1>1, <1>2, <1>3, <1>4, <1>5, <1>6, <1>7, <1>8 DEF Main

\* So do the completions ...
LEMMA MainInvDevice == IInv /\ Device => MainInv' /\ FaultInv'
<1> SUFFICES ASSUME IInv, Device PROVE MainInv' /\ FaultInv'
  OBVIOUS
<1>1. MainInv /\ FaultInv /\ ~Quiet
  BY QuietDevice DEF IInv
<1>2. UNCHANGED <<mpc, bResult, open, g_hCompletionEvent, g_OpCount, wpc,
                  allocated>>
  BY DEF Device, ReadCompletes, WriteCompletes, mainVars, workerVars, heapVars
<1>3. faulted' \in {faulted, faulted \cup {"eof"}, faulted \cup {"failed"}}
  BY DEF Device, ReadCompletes, WriteCompletes, NoFault, Fault
<1> QED BY <1>1, <1>2, <1>3 DEF MainInv, FaultInv, Copying

\* ... and the steps of the worker.
LEMMA MainInvWorker == IInv /\ WorkerThreadProc => MainInv' /\ FaultInv'
<1> SUFFICES ASSUME IInv, WorkerThreadProc PROVE MainInv' /\ FaultInv'
  OBVIOUS
<1>1. TypeOK /\ MainInv /\ FaultInv /\ FrontierInv
  BY DEF IInv
<1>2. UNCHANGED <<mpc, bResult, open>>
  BY DEF WorkerThreadProc, GetPacket, GetNull, WriteFile, NoNextRead,
         CountNextRead, NextRead, Decrement, Signal, mainVars
<1>3. CASE Quiet
  <2>1. GetNull /\ Quiet'
    BY <1>1, <1>3, QuietWorker
  <2> QED BY <1>1, <1>2, <1>3, <2>1
          DEF MainInv, FaultInv, Copying, GetNull, Worker, heapVars
<1>4. CASE ~Quiet
  <2>1. faulted' \in {faulted, faulted \cup {"write"}, faulted \cup {"alloc"},
                      faulted \cup {"read"}, faulted \cup {"outrun"}}
    BY DEF WorkerThreadProc, GetPacket, GetNull, WriteFile, NoNextRead,
           CountNextRead, NextRead, Decrement, Signal, NoFault, Fault
  <2>2. g_hCompletionEvent \in {"null", "stale", "set"} =>
          UNCHANGED g_hCompletionEvent
    BY DEF WorkerThreadProc, GetPacket, GetNull, WriteFile, NoNextRead,
           CountNextRead, NextRead, Decrement, Signal
  <2>3. allocated >= 1 => allocated' >= 1
    <3>1. CASE CountNextRead
      BY <1>1, <3>1, IocpCopyAssumption DEF CountNextRead, TypeOK, FrontierInv, Worker
    <3>2. CASE ~CountNextRead
      BY <3>2 DEF WorkerThreadProc, GetPacket, GetNull, WriteFile, NoNextRead,
           NextRead, Decrement, Signal, heapVars
    <3> QED BY <3>1, <3>2
  <2> QED BY <1>1, <1>2, <1>4, <2>1, <2>2, <2>3 DEF MainInv, FaultInv, Copying
<1> QED BY <1>3, <1>4
-----------------------------------------------------------------------------
(* The chunk that is being read *)

\* What a completion appends to the port: at most one packet.
LEMMA CompleteAppends ==
  ASSUME TypeOK, NEW op \in {"read", "write"}, NEW c \in Chunk,
         NEW status \in {"ok", "eof", "failed"}, Complete(op, c, status)
  PROVE  \/ UNCHANGED port
         \/ /\ [op |-> op, chunk |-> c, status |-> status] \in Packet
            /\ port' = Append(port, [op |-> op, chunk |-> c, status |-> status])
BY DEF Complete, Packet

\* A completed read leaves no read in flight, and is the only one in the port.
LEMMA FrontierDevice == IInv /\ Device => FrontierInv'
<1> SUFFICES ASSUME IInv, Device PROVE FrontierInv'
  OBVIOUS
<1>0. TypeOK /\ FrontierInv
  BY DEF IInv
<1>1. port \in Seq(Packet) /\ reading \subseteq Chunk /\ writing \subseteq Chunk
  BY <1>0 DEF TypeOK, Packet
<1>2. CASE ReadCompletes
  <2>1. PICK c \in reading, status \in {"ok", "eof", "failed"} :
          Complete("read", c, status) /\ reading' = reading \ {c}
    BY <1>2 DEF ReadCompletes
  <2>2. c = allocated /\ reading' = {}
    BY <1>0, <2>1 DEF FrontierInv
  <2>3. \A i \in 1..Len(port) : port[i].op # "read"
    BY <1>0, <2>1 DEF FrontierInv
  <2>4. \A i \in 1..Len(port') : port'[i].op = "read" => port'[i].chunk = allocated
    <3>1. CASE UNCHANGED port
      BY <2>3, <3>1
    <3>2. CASE /\ [op |-> "read", chunk |-> c, status |-> status] \in Packet
               /\ port' = Append(port, [op |-> "read", chunk |-> c, status |-> status])
      BY <1>1, <2>2, <2>3, <3>2, PortAppend
    <3> QED BY <1>0, <1>1, <2>1, <3>1, <3>2, CompleteAppends
  <2>5. wpc \notin {"write", "next", "read"} /\ UNCHANGED <<wpc, allocated>>
    BY <1>0, <1>2, <2>1 DEF FrontierInv, ReadCompletes, workerVars, heapVars
  <2> QED BY <2>2, <2>4, <2>5 DEF FrontierInv
<1>3. CASE WriteCompletes
  <2>1. PICK c \in writing, status \in {"ok", "failed"} :
          Complete("write", c, status)
    BY <1>3 DEF WriteCompletes
  <2>2. \A i \in 1..Len(port') : port'[i].op = "read" =>
          i \in 1..Len(port) /\ port'[i] = port[i]
    <3>1. CASE UNCHANGED port
      BY <3>1
    <3>2. CASE /\ [op |-> "write", chunk |-> c, status |-> status] \in Packet
               /\ port' = Append(port, [op |-> "write", chunk |-> c, status |-> status])
      BY <1>1, <2>1, <3>2, PortAppend
    <3> QED BY <1>0, <1>1, <2>1, <3>1, <3>2, CompleteAppends
  <2>3. UNCHANGED <<wpc, pIoData, allocated, reading>>
    BY <1>3 DEF WriteCompletes, workerVars, heapVars
  <2> QED BY <1>0, <2>2, <2>3 DEF FrontierInv
<1> QED BY <1>2, <1>3 DEF Device

\* StartCopy starts the first read when there is nothing else.
LEMMA FrontierMain == IInv /\ Main => FrontierInv'
<1> SUFFICES ASSUME IInv, Main PROVE FrontierInv'
  OBVIOUS
<1>0. TypeOK /\ FrontierInv /\ MainInv
  BY DEF IInv
<1> USE <1>0 DEF FrontierInv, workerVars, deviceVars, heapVars
<1>1. CASE Open
  <2>1. 1..Len(port') = {}
    BY <1>1 DEF Open
  <2> QED BY <1>1, <2>1 DEF Open, MainInv, Quiet
<1>2. CASE CreateWorker
  BY <1>2 DEF CreateWorker, MainInv, Quiet
<1>3. CASE FirstRead
  <2>1. 1..Len(port') = {}
    BY <1>3 DEF FirstRead, MainInv
  <2> QED BY <1>3, <2>1 DEF FirstRead, MainInv, Quiet
<1>4. CASE CreateEvent
  BY <1>4 DEF CreateEvent
<1>5. CASE WaitEvent
  <2>1. port \in Seq(Packet) /\ Quit \in Packet /\ port' = Append(port, Quit)
    BY <1>5 DEF TypeOK, Packet, WaitEvent
  <2>2. \A i \in 1..Len(port') : port'[i].op = "read" =>
          i \in 1..Len(port) /\ port'[i] = port[i]
    BY <2>1, PortAppend DEF Quit
  <2> QED BY <1>5, <2>2 DEF WaitEvent
<1>6. CASE JoinWorker
  BY <1>6 DEF JoinWorker
<1>7. CASE Cleanup
  <2>1. 1..Len(port') = {}
    BY <1>7 DEF Cleanup
  <2> QED BY <1>7, <2>1 DEF Cleanup
<1>8. CASE Return
  BY <1>8 DEF Return
<1> QED BY <1>1, <1>2, <1>3, <1>4, <1>5, <1>6, <1>7, <1>8 DEF Main

\* The worker takes the completed read from the port and goes on to the next.
LEMMA FrontierWorker == IInv /\ WorkerThreadProc => FrontierInv'
<1> SUFFICES ASSUME IInv, WorkerThreadProc PROVE FrontierInv'
  OBVIOUS
<1>0. TypeOK /\ FrontierInv /\ PacketInv
  BY DEF IInv
<1>a. port \in Seq(Packet)
  BY <1>0 DEF TypeOK, Packet
<1> USE <1>0 DEF FrontierInv, Worker, mainVars, deviceVars, heapVars
<1>1. CASE GetPacket
  <2>1. port # <<>> /\ port' = Tail(port) /\ Head(port) # Quit
    BY <1>1 DEF GetPacket
  <2>2. \A i \in 1..Len(port') : i + 1 \in 1..Len(port) /\ port'[i] = port[i + 1]
    BY <1>a, <2>1, PortTail
  <2>3. UNCHANGED <<reading, allocated>> /\ pIoData' = port[1].chunk
    BY <1>1, <1>a, PortTail DEF GetPacket
  <2>4. CASE Head(port).op = "read" /\ wpc' = "write"
    <3>1. 1 \in 1..Len(port) /\ port[1] = Head(port) /\ port[1] \in Packet
      BY <1>a, <2>1, PortTail
    <3>2. pIoData' = allocated /\ reading = {} /\ allocated \in Chunk
      BY <2>1, <2>3, <2>4, <3>1 DEF Packet
    <3>3. \A i \in 1..Len(port') : port'[i].op # "read"
      <4> SUFFICES ASSUME NEW i \in 1..Len(port'), port'[i].op = "read"
                   PROVE  FALSE
        OBVIOUS
      <4>1. i + 1 \in 1..Len(port) /\ port[i + 1].op = "read"
        BY <2>2
      <4>2. port[i + 1].chunk = port[1].chunk /\ port[1] # Quit
        BY <2>1, <2>4, <3>1, <4>1
      <4>3. i + 1 = 1
        BY <3>1, <4>1, <4>2 DEF PacketInv, Distinct
      <4> QED BY <1>a, <4>3
    <3> QED BY <2>3, <2>4, <3>2, <3>3
  <2>5. CASE wpc' = "decrement"
    BY <2>2, <2>3, <2>5
  <2> QED BY <1>1, <2>4, <2>5 DEF GetPacket
<1>2. CASE GetNull
  <2>1. \A i \in 1..Len(port') : \E j \in 1..Len(port) : port'[i] = port[j]
    BY <1>2, <1>a, PortTail DEF GetNull
  <2> QED BY <1>2, <2>1 DEF GetNull
<1>3. CASE WriteFile
  BY <1>3 DEF WriteFile
<1>4. CASE NoNextRead
  BY <1>4 DEF NoNextRead
<1>5. CASE CountNextRead
  <2>1. allocated' \in Chunk
    BY <1>5, IocpCopyAssumption DEF CountNextRead, MoreRemains, Chunk, TypeOK
  <2> QED BY <1>5, <2>1 DEF CountNextRead
<1>6. CASE NextRead
  BY <1>6 DEF NextRead
<1>7. CASE Decrement
  BY <1>7 DEF Decrement
<1>8. CASE Signal
  BY <1>8 DEF Signal
<1> QED BY <1>1, <1>2, <1>3, <1>4, <1>5, <1>6, <1>7, <1>8 DEF WorkerThreadProc
-----------------------------------------------------------------------------
(* The owners of an IO_DATA *)

\* The chunks in the port after a packet has been queued ...
LEMMA InPortAppend ==
  ASSUME TypeOK, Distinct, NEW p \in Packet, port' = Append(port, p),
         p = Quit \/ ~InPort(p.chunk)
  PROVE  /\ Distinct'
         /\ \A c : InPort(c)' <=> InPort(c) \/ c = p.chunk
<1>1. port \in Seq(Packet)
  BY DEF TypeOK, Packet
<1>2. /\ Len(port') = Len(port) + 1 /\ Len(port) \in Nat
      /\ \A i \in 1..Len(port) : port'[i] = port[i]
      /\ port'[Len(port) + 1] = p
      /\ \A i \in 1..Len(port') : i \in 1..Len(port) \/ i = Len(port) + 1
  BY <1>1, PortAppend
<1>3. Distinct'
  <2> SUFFICES ASSUME NEW i \in 1..Len(port'), NEW j \in 1..Len(port'),
                      port'[i].chunk = port'[j].chunk, port'[i] # Quit
               PROVE  i = j
    BY DEF Distinct
  <2>1. CASE i \in 1..Len(port) /\ j \in 1..Len(port)
    BY <1>2, <2>1 DEF Distinct
  <2>2. CASE i = Len(port) + 1 /\ j = Len(port) + 1
    BY <2>2
  <2>3. CASE i \in 1..Len(port) /\ j = Len(port) + 1
    <3>1. port[i] \in Packet /\ port[i] # Quit /\ port[i].chunk = p.chunk
      BY <1>1, <1>2, <2>3
    <3>2. InPort(p.chunk) /\ p.chunk # 0
      BY <2>3, <3>1 DEF InPort, Packet, Chunk
    <3> QED BY <3>2 DEF Quit
  <2>4. CASE i = Len(port) + 1 /\ j \in 1..Len(port)
    <3>1. InPort(p.chunk)
      BY <1>2, <2>4 DEF InPort
    <3> QED BY <1>2, <2>4, <3>1
  <2> QED BY <1>2, <2>1, <2>2, <2>3, <2>4
<1>4. ASSUME NEW c PROVE InPort(c)' <=> InPort(c) \/ c = p.chunk
  <2>1. InPort(c)' => InPort(c) \/ c = p.chunk
    BY <1>2 DEF InPort
  <2>2. InPort(c) => InPort(c)'
    <3>1. 1..Len(port) \subseteq 1..Len(port')
      BY <1>2
    <3> QED BY <1>2, <3>1 DEF InPort
  <2>3. c = p.chunk => InPort(c)'
    <3>1. Len(port) + 1 \in 1..Len(port')
      BY <1>2
    <3> QED BY <1>2, <3>1 DEF InPort
  <2> QED BY <2>1, <2>2, <2>3
<1> QED BY <1>3, <1>4

\* ... and after the first one has been taken.
LEMMA InPortTail ==
  ASSUME TypeOK, Distinct, NEW p, port # <<>>, p = Head(port), port' = Tail(port)
  PROVE  /\ Distinct'
         /\ \A c : InPort(c) <=> InPort(c)' \/ c = p.chunk
         /\ p # Quit => ~InPort(p.chunk)'
<1>1. port \in Seq(Packet)
  BY DEF TypeOK, Packet
<1>2. /\ Len(port') = Len(port) - 1 /\ Len(port) \in Nat \ {0}
      /\ p = port[1]
      /\ \A i \in 1..Len(port') : i + 1 \in 1..Len(port) /\ port'[i] = port[i + 1]
      /\ \A i \in 1..Len(port) : i = 1 \/ i - 1 \in 1..Len(port')
  BY <1>1, PortTail
<1>3. Distinct'
  <2> SUFFICES ASSUME NEW i \in 1..Len(port'), NEW j \in 1..Len(port'),
                      port'[i].chunk = port'[j].chunk, port'[i] # Quit
               PROVE  i = j
    BY DEF Distinct
  <2>1. i + 1 = j + 1
    BY <1>2 DEF Distinct
  <2> QED BY <2>1, <1>2
<1>4. ASSUME NEW c PROVE InPort(c) <=> InPort(c)' \/ c = p.chunk
  <2>1. ASSUME NEW i \in 1..Len(port), port[i].chunk = c
        PROVE  InPort(c)' \/ c = p.chunk
    <3>1. CASE i = 1
      BY <1>2, <2>1, <3>1
    <3>2. CASE i - 1 \in 1..Len(port')
      <4>1. port'[i - 1] = port[i]
        BY <1>2, <3>2
      <4> QED BY <2>1, <3>2, <4>1 DEF InPort
    <3> QED BY <1>2, <3>1, <3>2
  <2>2. InPort(c)' => InPort(c)
    BY <1>2 DEF InPort
  <2>3. InPort(p.chunk)
    <3>1. 1 \in 1..Len(port)
      BY <1>2
    <3> QED BY <1>2, <3>1 DEF InPort
  <2> QED BY <2>1, <2>2, <2>3 DEF InPort
<1>5. ASSUME p # Quit, NEW i \in 1..Len(port'),
             port'[i].chunk = p.chunk
      PROVE  FALSE
  <2>1. /\ i + 1 \in 1..Len(port) /\ 1 \in 1..Len(port)
        /\ port[1].chunk = port[i + 1].chunk /\ port[1] # Quit
    BY <1>2, <1>5
  <2>2. 1 = i + 1
    BY <2>1 DEF Distinct
  <2> QED BY <1>2, <2>2
<1>6. p # Quit => ~InPort(p.chunk)'
  BY <1>5 DEF InPort
<1> QED BY <1>3, <1>4, <1>6

\* Nothing is in a port that has been closed.
LEMMA InPortEmpty ==
  ASSUME port' = <<>>
  PROVE  Distinct' /\ \A c : ~InPort(c)'
BY PortEmpty DEF Distinct, InPort

\* The steps of StartCopy change no owner, but for the first IO_DATA.
LEMMA OwnersMain == IInv /\ Main => IoDataOwnership' /\ PacketInv'
<1> SUFFICES ASSUME IInv, Main PROVE IoDataOwnership' /\ PacketInv'
  OBVIOUS
<1>0. TypeOK /\ MainInv /\ IoDataOwnership /\ PacketInv
  BY DEF IInv
<1>1. CASE Open
  <2>1. \A c \in Chunk : frees'[c] = 0
    BY <1>1 DEF Open
  <2>2. reading' = {} /\ writing' = {} /\ wpc' \in {"none", "done"}
    BY <1>0, <1>1 DEF Open, MainInv, Quiet, workerVars
  <2>3. Live' = {}
    BY <1>1 DEF Open, Live
  <2>4. Distinct' /\ \A c : ~InPort(c)'
    BY <1>1, InPortEmpty DEF Open
  <2>5. \A c : ~InHand(c)'
    BY <2>2 DEF InHand
  <2> QED BY <2>1, <2>2, <2>3, <2>4, <2>5 DEF IoDataOwnership, PacketInv
<1>2. CASE FirstRead
  <2>1. UNCHANGED <<port, frees, writing, wpc, pIoData, open>> /\ wpc = "get"
    BY <1>0, <1>2 DEF FirstRead, MainInv, workerVars
  <2>2. Distinct' /\ \A c : ~InPort(c)'
    BY <1>0, <1>2, <2>1, InPortEmpty DEF MainInv, FirstRead
  <2>3. writing = {} /\ reading = {} /\ allocated = 0
    BY <1>0, <1>2 DEF MainInv, FirstRead, Quiet
  <2>4. \A c \in Chunk : frees[c] = 0
    BY <1>0, <2>3 DEF PacketInv, Chunk
  <2>5. \A c : ~InHand(c)'
    BY <2>1 DEF InHand
  <2>6. CASE reading' = {1} /\ allocated' = 1
    <3>1. 1 \in Chunk
      BY IocpCopyAssumption DEF Chunk
    <3>2. Live' = {1}
      BY <2>1, <2>4, <2>6, <3>1 DEF Live
    <3> QED BY <2>1, <2>2, <2>3, <2>4, <2>5, <2>6, <3>1, <3>2
            DEF IoDataOwnership, PacketInv
  <2>7. CASE UNCHANGED <<reading, allocated>>
    <3>1. Live' = {}
      BY <2>3, <2>7 DEF Live
    <3> QED BY <2>1, <2>2, <2>3, <2>4, <2>5, <2>7, <3>1
            DEF IoDataOwnership, PacketInv
  <2> QED BY <1>2, <2>6, <2>7 DEF FirstRead
<1>3. CASE WaitEvent
  <2>1. Quit \in Packet /\ port' = Append(port, Quit)
    BY <1>3 DEF Packet, WaitEvent
  <2>2. Distinct' /\ \A c : InPort(c)' <=> InPort(c) \/ c = Quit.chunk
    BY <1>0, <2>1, InPortAppend DEF PacketInv
  <2>3. \A c \in Chunk : InPort(c)' <=> InPort(c)
    BY <2>2 DEF Quit, Chunk
  <2>4. UNCHANGED <<reading, writing, wpc, pIoData, open, allocated, frees>>
    BY <1>3 DEF WaitEvent, workerVars, heapVars
  <2>5. Live' = Live /\ \A c : InHand(c)' <=> InHand(c)
    BY <2>4 DEF Live, InHand
  <2>6. Live \subseteq Chunk
    BY <1>0, LiveFinite
  <2> QED BY <1>0, <2>2, <2>3, <2>4, <2>5, <2>6 DEF IoDataOwnership, PacketInv
<1>4. CASE Cleanup
  <2>1. UNCHANGED <<reading, writing, wpc, pIoData, allocated, frees>> /\ ~open'
    BY <1>4 DEF Cleanup, workerVars, heapVars
  <2>2. Distinct' /\ \A c : ~InPort(c)'
    BY <1>4, InPortEmpty DEF Cleanup
  <2>3. Live' = Live /\ \A c : InHand(c)' <=> InHand(c)
    BY <2>1 DEF Live, InHand
  <2> QED BY <1>0, <2>1, <2>2, <2>3 DEF IoDataOwnership, PacketInv
<1>5. CASE CreateWorker \/ CreateEvent \/ JoinWorker \/ Return
  <2>1. UNCHANGED <<deviceVars, heapVars, pIoData, open>>
    BY <1>5 DEF CreateWorker, CreateEvent, JoinWorker, Return, workerVars,
       mainVars, GoTo
  <2>2. \A c : InHand(c)' <=> InHand(c)
    <3>1. CASE CreateWorker
      BY <1>0, <3>1 DEF CreateWorker, InHand, MainInv
    <3>2. CASE CreateEvent \/ JoinWorker \/ Return
      BY <3>2 DEF CreateEvent, JoinWorker, Return, InHand, workerVars
    <3> QED BY <1>5, <3>1, <3>2
  <2>3. Live' = Live /\ Distinct' /\ \A c : InPort(c)' <=> InPort(c)
    BY <1>0, <2>1 DEF Live, PacketInv, Distinct, InPort, deviceVars, heapVars
  <2> QED BY <1>0, <2>1, <2>2, <2>3
          DEF IoDataOwnership, PacketInv, deviceVars, heapVars
<1> QED BY <1>1, <1>2, <1>3, <1>4, <1>5 DEF Main

\* A completion moves its IO_DATA to the port, if that is still open.
LEMMA CompleteMoves ==
  ASSUME TypeOK, PacketInv, NEW op \in {"read", "write"}, NEW c \in Chunk,
         NEW status \in {"ok", "eof", "failed"}, Complete(op, c, status),
         ~InPort(c)
  PROVE  /\ Distinct'
         /\ \A d : InPort(d)' => InPort(d) \/ d = c
         /\ \A d : InPort(d) => InPort(d)'
         /\ open => InPort(c)'
<1> DEFINE p == [op |-> op, chunk |-> c, status |-> status]
<1>1. p \in Packet /\ p.chunk = c
  BY DEF Packet
<1>2. CASE open
  <2>1. port' = Append(port, p)
    BY <1>2 DEF Complete
  <2> HIDE DEF p
  <2>2. /\ Distinct'
        /\ \A d : InPort(d)' <=> InPort(d) \/ d = p.chunk
    BY <1>1, <2>1, InPortAppend DEF PacketInv
  <2> QED BY <1>1, <2>2
<1>3. CASE ~open
  BY <1>3 DEF Complete, PacketInv, Distinct, InPort
<1> QED BY <1>2, <1>3

\* A completion hands its IO_DATA over to the port.
LEMMA OwnersDevice == IInv /\ Device => IoDataOwnership' /\ PacketInv'
<1> SUFFICES ASSUME IInv, Device PROVE IoDataOwnership' /\ PacketInv'
  OBVIOUS
<1>0. TypeOK /\ IoDataOwnership /\ PacketInv
  BY DEF IInv
<1>1. UNCHANGED <<wpc, pIoData, open, allocated, frees>>
  BY DEF Device, ReadCompletes, WriteCompletes, mainVars, workerVars, heapVars
<1>2. Live' = Live /\ \A c : InHand(c)' <=> InHand(c)
  BY <1>1 DEF Live, InHand
<1>3. reading \subseteq Chunk /\ writing \subseteq Chunk /\ Live \subseteq Chunk
  BY <1>0, LiveFinite DEF TypeOK
<1>4. ASSUME NEW op \in {"read", "write"}, NEW c \in reading \cup writing,
             NEW status \in {"ok", "eof", "failed"}, Complete(op, c, status),
             \/ reading' = reading \ {c} /\ writing' = writing /\ c \in reading
             \/ reading' = reading /\ writing' = writing \ {c} /\ c \in writing
      PROVE  IoDataOwnership' /\ PacketInv'
  <2>1. c \in Chunk /\ ~InPort(c) /\ ~InHand(c) /\ c \in Live
    BY <1>0, <1>3 DEF IoDataOwnership
  <2>2. /\ Distinct'
        /\ \A d : InPort(d)' => InPort(d) \/ d = c
        /\ \A d : InPort(d) => InPort(d)'
        /\ open => InPort(c)'
    BY <1>0, <1>4, <2>1, CompleteMoves
  <2>3. c \notin reading' \cup writing'
    BY <1>0, <1>4, <2>1 DEF IoDataOwnership
  <2>4. \A d \in Chunk : d # c => (d \in reading' <=> d \in reading)
                               /\ (d \in writing' <=> d \in writing)
    BY <1>4
  <2>5. PacketInv'
    BY <1>0, <1>1, <2>2 DEF PacketInv
  <2>6. ASSUME NEW d \in Chunk
        PROVE  /\ frees'[d] <= 1
               /\ d \in reading' \cup writing' \/ InPort(d)' \/ InHand(d)' => d \in Live'
               /\ ~(d \in reading' /\ d \in writing')
               /\ InPort(d)' => d \notin reading' \cup writing'
               /\ InHand(d)' => d \notin reading' \cup writing' /\ ~InPort(d)'
    <3>1. CASE d = c
      BY <1>0, <1>1, <1>2, <2>1, <2>3, <3>1 DEF IoDataOwnership
    <3>2. CASE d # c
      BY <1>0, <1>1, <1>2, <2>2, <2>4, <3>2 DEF IoDataOwnership
    <3> QED BY <3>1, <3>2
  <2>7. open' => \A d \in Live' :
                   d \in reading' \cup writing' \/ InPort(d)' \/ InHand(d)'
    BY <1>0, <1>1, <1>2, <1>3, <2>2, <2>4 DEF IoDataOwnership
  <2> QED BY <2>5, <2>6, <2>7 DEF IoDataOwnership
<1>5. CASE ReadCompletes
  BY <1>4, <1>5 DEF ReadCompletes
<1>6. CASE WriteCompletes
  BY <1>4, <1>6 DEF WriteCompletes
<1> QED BY <1>5, <1>6 DEF Device

\* The worker frees only what it has in hand.
LEMMA OwnersWorker == IInv /\ WorkerThreadProc => IoDataOwnership' /\ PacketInv'
<1> SUFFICES ASSUME IInv, WorkerThreadProc PROVE IoDataOwnership' /\ PacketInv'
  OBVIOUS
<1>0. TypeOK /\ IoDataOwnership /\ PacketInv /\ FrontierInv
  BY DEF IInv
<1>a. Live \subseteq Chunk /\ \A c \in Live : c \in 1..allocated
  BY <1>0, LiveFinite DEF Live
<1>b. ASSUME NEW c \in Live, Free(c), UNCHANGED allocated
      PROVE  /\ Live' = Live \ {c} /\ frees'[c] = 1
             /\ \A d \in Chunk : d # c => frees'[d] = frees[d]
             /\ \A d \in Chunk : d > allocated' => frees'[d] = 0
  <2>1. Live' = Live \ {c} /\ frees'[c] = 1
    BY <1>0, <1>b, LiveFree
  <2>2. \A d \in Chunk : d # c => frees'[d] = frees[d]
    BY <1>0, <1>b DEF Free, TypeOK
  <2>3. c <= allocated
    BY <1>0, <1>a DEF TypeOK
  <2> QED BY <1>0, <1>b, <2>1, <2>2, <2>3, IocpCopyAssumption
          DEF PacketInv, Chunk, TypeOK
<1> USE DEF Worker, mainVars, deviceVars, heapVars
<1>1. CASE GetPacket
  <2>1. PICK p : p = Head(port)
    OBVIOUS
  <2>2. port # <<>> /\ port' = Tail(port) /\ p # Quit /\ wpc = "get"
    BY <1>1, <2>1 DEF GetPacket
  <2>3. p.chunk \in Chunk
    BY <1>0, <2>1, <2>2, PortTail DEF TypeOK, Packet
  <2>4. /\ Distinct'
        /\ \A d : InPort(d) <=> InPort(d)' \/ d = p.chunk
        /\ ~InPort(p.chunk)'
    BY <1>0, <2>1, <2>2, InPortTail DEF PacketInv
  <2>5. /\ p.chunk \in Live /\ p.chunk \notin reading \cup writing
        /\ \A d : ~InHand(d)
    BY <1>0, <2>2, <2>3, <2>4 DEF IoDataOwnership, InHand
  <2>6. UNCHANGED <<reading, writing, open, allocated>> /\ pIoData' = p.chunk
    BY <1>1, <2>1 DEF GetPacket
  <2>7. CASE wpc' = "write" /\ UNCHANGED frees
    <3>1. Live' = Live /\ \A d : InHand(d)' <=> d = p.chunk
      BY <2>6, <2>7 DEF Live, InHand
    <3> QED BY <1>0, <1>a, <2>3, <2>4, <2>5, <2>6, <2>7, <3>1
            DEF IoDataOwnership, PacketInv
  <2>8. CASE wpc' = "decrement" /\ Free(p.chunk)
    <3>1. \A d : ~InHand(d)'
      BY <2>8 DEF InHand
    <3>2. /\ Live' = Live \ {p.chunk} /\ frees'[p.chunk] = 1
          /\ \A d \in Chunk : d # p.chunk => frees'[d] = frees[d]
          /\ \A d \in Chunk : d > allocated' => frees'[d] = 0
      BY <1>b, <2>5, <2>6, <2>8
    <3>3. PacketInv'
      BY <2>4, <3>2 DEF PacketInv
    <3> QED BY <1>0, <1>a, <2>3, <2>4, <2>5, <2>6, <3>1, <3>2, <3>3
            DEF IoDataOwnership
  <2> QED BY <1>1, <2>1, <2>7, <2>8 DEF GetPacket
<1>2. CASE GetNull
  <2>1. Distinct' /\ \A d \in Chunk : InPort(d)' <=> InPort(d)
    <3>1. CASE UNCHANGED port
      BY <1>0, <3>1 DEF PacketInv, Distinct, InPort
    <3>2. CASE port # <<>> /\ Head(port) = Quit /\ port' = Tail(port)
      <4>1. Distinct' /\ \A d : InPort(d) <=> InPort(d)' \/ d = Quit.chunk
        BY <1>0, <3>2, InPortTail DEF PacketInv
      <4> QED BY <4>1 DEF Quit, Chunk
    <3> QED BY <1>2, <3>1, <3>2 DEF GetNull
  <2>2. UNCHANGED <<reading, writing, open, allocated, frees>>
    BY <1>2 DEF GetNull
  <2>3. Live' = Live /\ \A d : ~InHand(d) /\ ~InHand(d)'
    BY <1>2, <2>2 DEF GetNull, Live, InHand
  <2> QED BY <1>0, <1>a, <2>1, <2>2, <2>3 DEF IoDataOwnership, PacketInv
<1>3. CASE UNCHANGED port /\ wpc \in {"write", "read"}
           /\ (WriteFile \/ NextRead)
  <2>1. /\ pIoData \in Chunk /\ InHand(pIoData)
        /\ \A d : InHand(d) => d = pIoData
    BY <1>0, <1>3 DEF FrontierInv, InHand
  <2>2. /\ pIoData \in Live /\ pIoData \notin reading \cup writing
        /\ ~InPort(pIoData)
    BY <1>0, <2>1 DEF IoDataOwnership
  <2>3. Distinct' /\ \A d : InPort(d)' <=> InPort(d)
    BY <1>0, <1>3 DEF PacketInv, Distinct, InPort
  <2>4. UNCHANGED <<open, allocated>> /\ \A d : ~InHand(d)'
    BY <1>3 DEF WriteFile, NextRead, InHand
  <2>5. CASE /\ UNCHANGED frees
             /\ \/ writing' = writing \cup {pIoData} /\ UNCHANGED reading
                \/ reading' = reading \cup {pIoData} /\ UNCHANGED writing
    <3>1. Live' = Live
      BY <2>4, <2>5 DEF Live
    <3>2. PacketInv'
      BY <1>0, <2>3, <2>4, <2>5 DEF PacketInv
    <3> QED BY <1>0, <1>a, <2>1, <2>2, <2>3, <2>4, <2>5, <3>1, <3>2
            DEF IoDataOwnership
  <2>6. CASE Free(pIoData) /\ UNCHANGED <<reading, writing>>
    <3>1. /\ Live' = Live \ {pIoData} /\ frees'[pIoData] = 1
          /\ \A d \in Chunk : d # pIoData => frees'[d] = frees[d]
          /\ \A d \in Chunk : d > allocated' => frees'[d] = 0
      BY <1>b, <2>2, <2>4, <2>6
    <3>2. PacketInv'
      BY <2>3, <3>1 DEF PacketInv
    <3> QED BY <1>0, <1>a, <2>1, <2>2, <2>3, <2>4, <2>6, <3>1, <3>2
            DEF IoDataOwnership
  <2> QED BY <1>3, <2>5, <2>6 DEF WriteFile, NextRead
<1>4. CASE CountNextRead
  <2>1. /\ pIoData = allocated /\ allocated < NumChunks
        /\ allocated' = allocated + 1 /\ pIoData' = allocated + 1
        /\ UNCHANGED <<frees, reading, writing, port, open>>
        /\ wpc = "next" /\ wpc' = "read"
    BY <1>0, <1>4 DEF CountNextRead, MoreRemains, FrontierInv
  <2>2. Live' = Live \cup {allocated + 1}
    BY <1>0, <2>1, LiveAllocate
  <2>3. /\ allocated + 1 \in Chunk /\ allocated + 1 \notin Live
        /\ frees[allocated + 1] = 0
    BY <1>0, <1>a, <2>1, IocpCopyAssumption DEF TypeOK, Chunk, PacketInv
  <2>4. /\ allocated + 1 \notin reading \cup writing
        /\ ~InPort(allocated + 1)
    BY <1>0, <2>3 DEF IoDataOwnership
  <2>5. /\ Distinct' /\ \A d : InPort(d)' <=> InPort(d)
        /\ \A d : ~InHand(d) /\ (InHand(d)' <=> d = allocated + 1)
    BY <1>0, <2>1 DEF PacketInv, Distinct, InPort, InHand
  <2>6. PacketInv'
    BY <1>0, <2>1, <2>5, IocpCopyAssumption DEF PacketInv, Chunk, TypeOK
  <2> QED BY <1>0, <1>a, <2>1, <2>2, <2>3, <2>4, <2>5, <2>6 DEF IoDataOwnership
<1>5. CASE NoNextRead \/ Decrement \/ Signal
  <2>1. UNCHANGED <<reading, writing, port, open, allocated, frees>>
    BY <1>5 DEF NoNextRead, Decrement, Signal
  <2>2. \A d : ~InHand(d) /\ ~InHand(d)'
    BY <1>5 DEF NoNextRead, Decrement, Signal, InHand
  <2>3. Live' = Live /\ Distinct' /\ \A d : InPort(d)' <=> InPort(d)
    BY <1>0, <2>1 DEF Live, PacketInv, Distinct, InPort
  <2> QED BY <1>0, <1>a, <2>1, <2>2, <2>3 DEF IoDataOwnership, PacketInv
<1> QED BY <1>1, <1>2, <1>3, <1>4, <1>5
        DEF WorkerThreadProc, WriteFile, NextRead
-----------------------------------------------------------------------------
(* The count *)

\* What the worker takes from the port or has in hand is live.
LEMMA TakenIsLive ==
  ASSUME IInv
  PROVE  /\ port # <<>> /\ Head(port) # Quit => Head(port).chunk \in Live
         /\ wpc \in {"write", "read"} => pIoData \in Live
<1>0. TypeOK /\ IoDataOwnership /\ FrontierInv
  BY DEF IInv
<1>1. ASSUME port # <<>>, Head(port) # Quit
      PROVE  Head(port).chunk \in Live
  <2>1. port \in Seq(Packet)
    BY <1>0 DEF TypeOK, Packet
  <2>2. Head(port) = port[1] /\ Head(port) \in Packet /\ 1 \in 1..Len(port)
    BY <1>1, <2>1
  <2>3. Head(port).chunk \in Chunk /\ InPort(Head(port).chunk)
    BY <1>1, <2>2 DEF InPort, Packet
  <2> QED BY <1>0, <2>3 DEF IoDataOwnership
<1>2. ASSUME wpc \in {"write", "read"}
      PROVE  pIoData \in Live
  BY <1>0, <1>2 DEF IoDataOwnership, FrontierInv, InHand
<1> QED BY <1>1, <1>2

\* StartCopy begins to count when it has allocated the first IO_DATA.
LEMMA CountMain == IInv /\ Main => CountInv'
<1> SUFFICES ASSUME IInv, Main PROVE CountInv'
  OBVIOUS
<1>0. TypeOK /\ MainInv /\ FaultInv /\ PacketInv /\ CountInv
  BY DEF IInv
<1>1. CASE Open
  <2>1. Live' = {}
    BY <1>1 DEF Open, Live
  <2>2. g_OpCount' = 0 /\ wpc' \in {"none", "done"}
    BY <1>0, <1>1 DEF Open, MainInv, workerVars
  <2> QED BY <2>1, <2>2, FS_EmptySet DEF CountInv
<1>2. CASE FirstRead
  <2>1. wpc' = "get"
    BY <1>0, <1>2 DEF FirstRead, MainInv, workerVars
  <2>2. CASE allocated' = 1
    <3>1. \A c \in Chunk : frees[c] = 0
      BY <1>0, <1>2 DEF PacketInv, MainInv, FirstRead, Chunk
    <3>2. 1 \in Chunk
      BY IocpCopyAssumption DEF Chunk
    <3>3. Live' = {1}
      BY <1>2, <2>2, <3>1, <3>2 DEF FirstRead, Live
    <3>4. Cardinality(Live') = 1
      BY <3>3, FS_Singleton
    <3> QED BY <1>2, <2>1, <3>4 DEF FirstRead, CountInv
  <2>3. CASE "firstRead" \in faulted'
    BY <2>1, <2>3 DEF CountInv
  <2> QED BY <1>2, <2>2, <2>3 DEF FirstRead, Fault
<1>3. CASE ~(Open \/ FirstRead)
  <2>1. UNCHANGED <<g_OpCount, allocated, frees, pIoData>>
    BY <1>3 DEF Main, CreateWorker, CreateEvent, WaitEvent, JoinWorker, Cleanup,
       Return, heapVars, workerVars
  <2>2. Live' = Live
    BY <2>1 DEF Live
  <2>3. \/ UNCHANGED wpc
        \/ wpc \in {"none", "done"} /\ wpc' = "get"
    BY <1>0, <1>3 DEF Main, CreateWorker, CreateEvent, WaitEvent, JoinWorker,
       Cleanup, Return, workerVars, MainInv
  <2>4. "firstRead" \in faulted => "firstRead" \in faulted'
    BY <1>3 DEF Main, CreateWorker, CreateEvent, WaitEvent, JoinWorker, Cleanup,
       Return, Fault, NoFault
  <2> QED BY <1>0, <2>1, <2>2, <2>3, <2>4 DEF CountInv
<1> QED BY <1>1, <1>2, <1>3

\* A completion counts nothing.
LEMMA CountDevice == IInv /\ Device => CountInv'
<1> SUFFICES ASSUME IInv, Device PROVE CountInv'
  OBVIOUS
<1>1. UNCHANGED <<g_OpCount, allocated, frees, wpc, pIoData>>
  BY DEF Device, ReadCompletes, WriteCompletes, heapVars, workerVars
<1>2. Live' = Live
  BY <1>1 DEF Live
<1>3. "firstRead" \in faulted => "firstRead" \in faulted'
  BY DEF Device, ReadCompletes, WriteCompletes, Fault, NoFault
<1> QED BY <1>1, <1>2, <1>3 DEF CountInv, IInv

\* The worker counts an IO_DATA that it allocates, and one that it has freed.
LEMMA CountWorker == IInv /\ WorkerThreadProc => CountInv'
<1> SUFFICES ASSUME IInv, WorkerThreadProc PROVE CountInv'
  OBVIOUS
<1>0. TypeOK /\ CountInv /\ FrontierInv /\ PacketInv
  BY DEF IInv
<1>a. Cardinality(Live) \in Nat /\ g_OpCount \in Nat
  BY <1>0, LiveFinite, IocpCopyAssumption DEF TypeOK
<1>b. "firstRead" \in faulted => "firstRead" \in faulted'
  BY DEF WorkerThreadProc, GetPacket, GetNull, WriteFile, NoNextRead,
         CountNextRead, NextRead, Decrement, Signal, Fault, NoFault
<1>c. ASSUME NEW c \in Live, Free(c), UNCHANGED <<g_OpCount, allocated>>,
             pIoData' = c, wpc \in {"get", "write", "read"},
             wpc' = "decrement"
      PROVE  CountInv'
  <2>1. Cardinality(Live') = Cardinality(Live) - 1 /\ frees'[c] = 1
    BY <1>0, <1>c, LiveFree
  <2>2. c \in 1..allocated'
    BY <1>c DEF Live
  <2> QED BY <1>0, <1>a, <1>b, <1>c, <2>1, <2>2 DEF CountInv
<1>d. ASSUME UNCHANGED <<g_OpCount, allocated, frees>>,
             wpc # "decrement", wpc' \notin {"decrement", "signal"}
      PROVE  CountInv'
  <2>1. Live' = Live
    BY <1>d DEF Live
  <2> QED BY <1>0, <1>b, <1>d, <2>1 DEF CountInv
<1> USE DEF Worker, heapVars
<1>1. CASE GetPacket
  <2>1. CASE wpc' = "write" /\ UNCHANGED frees
    BY <1>1, <1>d, <2>1 DEF GetPacket
  <2>2. CASE wpc' = "decrement" /\ Free(Head(port).chunk)
    <3>1. PICK c \in Live : c = Head(port).chunk
      BY <1>1, TakenIsLive DEF GetPacket
    <3> QED BY <1>1, <1>c, <2>2, <3>1 DEF GetPacket
  <2> QED BY <1>1, <2>1, <2>2 DEF GetPacket
<1>2. CASE GetNull
  BY <1>2, <1>d DEF GetNull
<1>3. CASE WriteFile \/ NextRead
  <2>1. /\ wpc \in {"write", "read"}
        /\ UNCHANGED <<g_OpCount, allocated, pIoData>>
        /\ \/ wpc' \in {"next", "get"} /\ UNCHANGED frees
           \/ wpc' = "decrement" /\ Free(pIoData)
    BY <1>3 DEF WriteFile, NextRead
  <2>2. PICK c \in Live : c = pIoData
    BY <2>1, TakenIsLive
  <2> QED BY <1>c, <1>d, <2>1, <2>2
<1>4. CASE NoNextRead
  BY <1>4, <1>d DEF NoNextRead
<1>5. CASE CountNextRead
  <2>1. /\ pIoData = allocated /\ allocated < NumChunks
        /\ allocated' = allocated + 1 /\ g_OpCount' = g_OpCount + 1
        /\ frees' = frees /\ wpc = "next" /\ wpc' = "read"
    BY <1>0, <1>5 DEF CountNextRead, MoreRemains, FrontierInv, Incremented
  <2>2. Cardinality(Live') = Cardinality(Live) + 1
    BY <1>0, <2>1, LiveAllocate
  <2> QED BY <1>0, <1>a, <1>b, <2>1, <2>2 DEF CountInv
<1>6. CASE Decrement
  <2>1. Live' = Live
    BY <1>6 DEF Decrement, Live
  <2>2. /\ wpc = "decrement" /\ wpc' = IF g_OpCount = 1 THEN "signal" ELSE "get"
        /\ g_OpCount' = g_OpCount - 1
    BY <1>6 DEF Decrement, ReachesZero
  <2> QED BY <1>0, <1>a, <1>b, <2>1, <2>2 DEF CountInv
<1>7. CASE Signal
  BY <1>7, <1>d DEF Signal
<1> QED BY <1>1, <1>2, <1>3, <1>4, <1>5, <1>6, <1>7 DEF WorkerThreadProc
-----------------------------------------------------------------------------
(* The event and the files *)

\* When the count is zero and no IO_DATA is live, nothing is in use.
LEMMA NoLiveIsQuiet ==
  ASSUME IInv, "firstRead" \notin faulted, g_OpCount = 0
  PROVE  /\ reading = {} /\ writing = {}
         /\ \A i \in 1..Len(port) : port[i] = Quit
<1>0. TypeOK /\ CountInv /\ IoDataOwnership
  BY DEF IInv
<1>1. IsFiniteSet(Live) /\ Cardinality(Live) \in Nat
  BY <1>0, LiveFinite
<1>2. Cardinality(Live) = 0
  BY <1>0, <1>1 DEF CountInv
<1>3. Live = {}
  BY <1>1, <1>2, FS_EmptySet
<1>4. reading \subseteq Chunk /\ writing \subseteq Chunk
  BY <1>0 DEF TypeOK
<1>5. reading = {} /\ writing = {} /\ \A c \in Chunk : ~InPort(c)
  BY <1>0, <1>3, <1>4 DEF IoDataOwnership
<1>6. \A i \in 1..Len(port) : port[i] \in Packet
  BY <1>0 DEF TypeOK, Packet
<1> QED BY <1>5, <1>6 DEF Packet, InPort

\* The event is set by the worker only, and then when nothing is left.
LEMMA SignalStep == IInv /\ Next => SignalMeansQuiescent'
<1> SUFFICES ASSUME IInv, Next, g_hCompletionEvent' = "set"
             PROVE  /\ reading' = {} /\ writing' = {} /\ g_OpCount' = 0
                    /\ wpc' \in {"get", "done"}
                    /\ \A i \in 1..Len(port') : port'[i] = Quit
  BY DEF SignalMeansQuiescent
<1>0. TypeOK /\ MainInv /\ FaultInv /\ CountInv /\ SignalMeansQuiescent
  BY DEF IInv
<1>1. CASE g_hCompletionEvent = "set"
  <2>1. Quiet /\ g_OpCount = 0 /\ wpc \in {"get", "done"}
    BY <1>0, <1>1 DEF SignalMeansQuiescent, Quiet
  <2>2. mpc \in {"wait", "join", "cleanup"}
    BY <1>0, <1>1 DEF MainInv, TypeOK
  <2>3. CASE WaitEvent
    <3>1. port \in Seq(Packet) /\ Quit \in Packet /\ port' = Append(port, Quit)
      BY <1>0, <2>3 DEF WaitEvent, TypeOK, Packet
    <3>2. \A i \in 1..Len(port') : port'[i] = Quit
      BY <2>1, <3>1, PortAppend DEF Quiet
    <3> QED BY <2>1, <2>3, <3>2 DEF WaitEvent, Quiet, workerVars
  <2>4. CASE JoinWorker
    BY <2>1, <2>4 DEF JoinWorker, Quiet, workerVars, deviceVars
  <2>5. ~Cleanup
    BY <1>1 DEF Cleanup
  <2>6. CASE WorkerThreadProc
    <3>1. GetNull /\ Quiet'
      BY <1>0, <2>1, <2>6, QuietWorker
    <3> QED BY <2>1, <3>1 DEF GetNull, Quiet, Worker
  <2>7. CASE Exited
    BY <2>2, <2>7 DEF Exited, Running
  <2> QED BY <2>1, <2>2, <2>3, <2>4, <2>5, <2>6, <2>7, QuietDevice
          DEF Next, Main, Open, CreateWorker, FirstRead, CreateEvent, Return
<1>2. CASE g_hCompletionEvent # "set"
  <2>1. Signal
    BY <1>2 DEF Next, Main, Open, CreateWorker, FirstRead, CreateEvent,
       WaitEvent, JoinWorker, Cleanup, Return, Device, ReadCompletes,
       WriteCompletes, WorkerThreadProc, GetPacket, GetNull, WriteFile,
       NoNextRead, CountNextRead, NextRead, Decrement, Exited, vars
  <2>2. "firstRead" \notin faulted
    BY <1>0, <2>1 DEF FaultInv, Quiet, Signal, Worker
  <2>3. g_OpCount = 0
    BY <1>0, <2>1 DEF CountInv, Signal, Worker
  <2> QED BY <2>1, <2>2, <2>3, NoLiveIsQuiet DEF Signal, Worker, deviceVars
<1> QED BY <1>1, <1>2

\* An operation starts on open files, and they are closed when all is quiet or
\* after the event could not be created.
LEMMA FilesStep == IInv /\ Next => FilesOutliveOperations'
<1> SUFFICES ASSUME IInv, Next, reading' \cup writing' # {}
             PROVE  open' \/ "createEvent" \in faulted'
  BY DEF FilesOutliveOperations
<1>0. MainInv /\ FilesOutliveOperations
  BY DEF IInv
<1>1. "createEvent" \in faulted => "createEvent" \in faulted'
  BY DEF Next, Main, Open, CreateWorker, FirstRead, CreateEvent,
     WaitEvent, JoinWorker, Cleanup, Return, Device, ReadCompletes,
     WriteCompletes, WorkerThreadProc, GetPacket, GetNull, WriteFile,
     NoNextRead, CountNextRead, NextRead, Decrement, Signal, Exited, vars,
     Fault, NoFault
<1>2. CASE Main
  BY <1>0, <1>1, <1>2 DEF Main, Open, CreateWorker, FirstRead, CreateEvent,
     WaitEvent, JoinWorker, Cleanup, Return, MainInv, Quiet,
     FilesOutliveOperations, deviceVars
<1>3. CASE Device
  BY <1>0, <1>1, <1>3 DEF Device, ReadCompletes, WriteCompletes,
     FilesOutliveOperations, mainVars
<1>4. CASE WorkerThreadProc
  BY <1>0, <1>1, <1>4 DEF WorkerThreadProc, GetPacket, GetNull, WriteFile,
     NoNextRead, CountNextRead, NextRead, Decrement, Signal,
     FilesOutliveOperations, mainVars, deviceVars
<1>5. CASE Exited
  BY <1>0, <1>5 DEF Exited, vars, FilesOutliveOperations, mainVars, deviceVars
<1> QED BY <1>2, <1>3, <1>4, <1>5 DEF Next
-----------------------------------------------------------------------------
(* The copy *)

\* Nothing in the chunks' way is forgotten by StartCopy ...
LEMMA CopyMain == IInv /\ Main => CopyInv'
<1> SUFFICES ASSUME IInv, Main, faulted' \cap LosesData = {}
             PROVE  /\ \A i \in 1..Len(port') : port'[i].status = "ok"
                    /\ Copying' \/ bResult' =>
                         /\ \A c \in 1..allocated' :
                              c \in dest' \cup writing' \/ (c = allocated' /\ ReadAhead')
                         /\ \/ allocated' = NumChunks \/ ReadAhead' \/ wpc' = "next"
                            \/ "alloc" \in faulted'
  BY DEF CopyInv
<1>0. TypeOK /\ MainInv
  BY DEF IInv
<1>1. /\ faulted \cap LosesData = {}
      /\ "alloc" \in faulted => "alloc" \in faulted'
  BY DEF Main, Open, CreateWorker, FirstRead, CreateEvent,
     WaitEvent, JoinWorker, Cleanup, Return, Fault, NoFault
<1>2. /\ \A i \in 1..Len(port) : port[i].status = "ok"
      /\ Copying \/ bResult =>
           /\ \A c \in 1..allocated :
                c \in dest \cup writing \/ (c = allocated /\ ReadAhead)
           /\ \/ allocated = NumChunks \/ ReadAhead \/ wpc = "next"
              \/ "alloc" \in faulted
  BY <1>1 DEF CopyInv, IInv
<1>3. CASE Open
  BY <1>0, <1>3 DEF Open, GoTo, Copying, MainInv
<1>4. CASE CreateWorker
  BY <1>0, <1>2, <1>4 DEF CreateWorker, GoTo, Copying, MainInv, deviceVars
<1>5. CASE FirstRead
  <2>1. CASE mpc' = "createEvent" /\ reading' = {1} /\ allocated' = 1
    <3>1. ReadAhead' /\ \A c \in 1..allocated' : c = allocated'
      BY <2>1 DEF ReadAhead
    <3> QED BY <1>2, <1>5, <3>1 DEF FirstRead
  <2>2. CASE mpc' = "cleanup"
    BY <1>0, <1>2, <1>5, <2>2 DEF FirstRead, GoTo, Copying, MainInv
  <2> QED BY <1>5, <2>1, <2>2 DEF FirstRead, GoTo
<1>6. CASE CreateEvent \/ JoinWorker
  <2>1. UNCHANGED <<port, reading, writing, dest, wpc, allocated>> /\ Copying
    BY <1>6 DEF CreateEvent, JoinWorker, deviceVars, heapVars, workerVars, Copying
  <2>2. ReadAhead' <=> ReadAhead
    BY <2>1 DEF ReadAhead
  <2> QED BY <1>1, <1>2, <2>1, <2>2
<1>7. CASE WaitEvent
  <2>1. port \in Seq(Packet) /\ Quit \in Packet /\ port' = Append(port, Quit)
    BY <1>0, <1>7 DEF WaitEvent, TypeOK, Packet
  <2>2. \A i \in 1..Len(port) : i \in 1..Len(port') /\ port'[i] = port[i]
    BY <2>1, PortAppend
  <2>3. \A i \in 1..Len(port') : port'[i].status = "ok"
    BY <1>2, <2>1, PortAppend DEF Quit
  <2>4. UNCHANGED <<reading, writing, dest, wpc, allocated>> /\ Copying
    BY <1>7 DEF WaitEvent, heapVars, workerVars, Copying
  <2>5. ReadAhead => ReadAhead'
    BY <2>2, <2>4 DEF ReadAhead
  <2> QED BY <1>1, <1>2, <2>3, <2>4, <2>5
<1>8. CASE Cleanup
  <2>1. 1..Len(port') = {}
    BY <1>8 DEF Cleanup
  <2>2. UNCHANGED <<reading, writing, dest, wpc, allocated, bResult>> /\ ~Copying'
    BY <1>8 DEF Cleanup, GoTo, heapVars, workerVars, Copying
  <2>3. bResult => ~ReadAhead
    BY <1>0 DEF MainInv, Quiet, ReadAhead, Quit
  <2> QED BY <1>1, <1>2, <2>1, <2>2, <2>3
<1>9. CASE Return
  <2>1. UNCHANGED <<port, reading, writing, dest, wpc, allocated>> /\ ~Copying'
    BY <1>9 DEF Return, deviceVars, heapVars, workerVars, Copying
  <2>2. ReadAhead' <=> ReadAhead
    BY <2>1 DEF ReadAhead
  <2>3. bResult' => bResult
    BY <1>9 DEF Return
  <2> QED BY <1>1, <1>2, <2>1, <2>2, <2>3
<1> QED BY <1>3, <1>4, <1>5, <1>6, <1>7, <1>8, <1>9 DEF Main

\* ... by the devices ...
LEMMA CopyDevice == IInv /\ Device => CopyInv'
<1> SUFFICES ASSUME IInv, Device, faulted' \cap LosesData = {}
             PROVE  /\ \A i \in 1..Len(port') : port'[i].status = "ok"
                    /\ Copying' \/ bResult' =>
                         /\ \A c \in 1..allocated' :
                              c \in dest' \cup writing' \/ (c = allocated' /\ ReadAhead')
                         /\ \/ allocated' = NumChunks \/ ReadAhead' \/ wpc' = "next"
                            \/ "alloc" \in faulted'
  BY DEF CopyInv
<1>0. TypeOK /\ MainInv
  BY DEF IInv
<1>1. /\ faulted \cap LosesData = {}
      /\ "alloc" \in faulted => "alloc" \in faulted'
  BY DEF Device, ReadCompletes, WriteCompletes, Fault, NoFault
<1>2. /\ \A i \in 1..Len(port) : port[i].status = "ok"
      /\ Copying \/ bResult =>
           /\ \A c \in 1..allocated :
                c \in dest \cup writing \/ (c = allocated /\ ReadAhead)
           /\ \/ allocated = NumChunks \/ ReadAhead \/ wpc = "next"
              \/ "alloc" \in faulted
  BY <1>1 DEF CopyInv, IInv
<1>3. UNCHANGED <<mpc, bResult, open, wpc, allocated>>
  BY DEF Device, ReadCompletes, WriteCompletes, mainVars, workerVars, heapVars
<1>4. Copying' = Copying /\ ~bResult /\ (Copying => open)
  BY <1>0, <1>3, QuietDevice DEF Copying, MainInv
<1>5. port \in Seq(Packet) /\ reading \subseteq Chunk /\ writing \subseteq Chunk
  BY <1>0 DEF TypeOK, Packet
<1>6. ASSUME NEW op \in {"read", "write"}, NEW c \in Chunk, Complete(op, c, "ok")
      PROVE  /\ \A i \in 1..Len(port') : port'[i].status = "ok"
             /\ \A i \in 1..Len(port) : i \in 1..Len(port') /\ port'[i] = port[i]
             /\ open => \E i \in 1..Len(port') : port'[i].op = op
  <2> DEFINE p == [op |-> op, chunk |-> c, status |-> "ok"]
  <2>1. p \in Packet /\ p.op = op /\ p.status = "ok"
    BY DEF Packet
  <2>2. CASE open
    <3>1. port' = Append(port, p)
      BY <1>6, <2>2 DEF Complete
    <3> HIDE DEF p
    <3>2. /\ Len(port') = Len(port) + 1 /\ Len(port) \in Nat
          /\ \A i \in 1..Len(port) : port'[i] = port[i]
          /\ port'[Len(port) + 1] = p
          /\ \A i \in 1..Len(port') : i \in 1..Len(port) \/ i = Len(port) + 1
      BY <1>5, <2>1, <3>1, PortAppend
    <3>3. \A i \in 1..Len(port') : port'[i].status = "ok"
      BY <1>2, <2>1, <3>2
    <3>4. Len(port) + 1 \in 1..Len(port') /\ 1..Len(port) \subseteq 1..Len(port')
      BY <3>2
    <3> QED BY <2>1, <3>2, <3>3, <3>4
  <2>3. CASE ~open
    BY <1>2, <1>6, <2>3 DEF Complete
  <2> QED BY <2>2, <2>3
<1>7. CASE ReadCompletes
  <2>1. PICK c \in reading : Complete("read", c, "ok")
    BY <1>7 DEF ReadCompletes, Fault, LosesData
  <2>2. /\ \A i \in 1..Len(port') : port'[i].status = "ok"
        /\ open => \E i \in 1..Len(port') : port'[i].op = "read"
    BY <1>5, <1>6, <2>1
  <2>3. Copying => ReadAhead'
    BY <1>4, <2>2 DEF ReadAhead
  <2>4. UNCHANGED <<dest, writing>>
    BY <1>7 DEF ReadCompletes
  <2> QED BY <1>2, <1>3, <1>4, <2>2, <2>3, <2>4
<1>8. CASE WriteCompletes
  <2>1. PICK c \in writing : /\ Complete("write", c, "ok")
                             /\ dest' = dest \cup {c} /\ writing' = writing \ {c}
    BY <1>8 DEF WriteCompletes, Fault, LosesData
  <2>2. /\ \A i \in 1..Len(port') : port'[i].status = "ok"
        /\ \A i \in 1..Len(port) : i \in 1..Len(port') /\ port'[i] = port[i]
    BY <1>5, <1>6, <2>1
  <2>3. ReadAhead => ReadAhead'
    BY <1>3, <1>8, <2>2 DEF ReadAhead, WriteCompletes
  <2>4. dest \cup writing \subseteq dest' \cup writing'
    BY <2>1
  <2> QED BY <1>1, <1>2, <1>3, <1>4, <2>2, <2>3, <2>4
<1> QED BY <1>7, <1>8 DEF Device

\* ... or by the worker.
LEMMA CopyWorker == IInv /\ WorkerThreadProc => CopyInv'
<1> SUFFICES ASSUME IInv, WorkerThreadProc, faulted' \cap LosesData = {}
             PROVE  /\ \A i \in 1..Len(port') : port'[i].status = "ok"
                    /\ Copying' \/ bResult' =>
                         /\ \A c \in 1..allocated' :
                              c \in dest' \cup writing' \/ (c = allocated' /\ ReadAhead')
                         /\ \/ allocated' = NumChunks \/ ReadAhead' \/ wpc' = "next"
                            \/ "alloc" \in faulted'
  BY DEF CopyInv
<1>0. TypeOK /\ MainInv /\ FrontierInv
  BY DEF IInv
<1>1. /\ faulted \cap LosesData = {}
      /\ "alloc" \in faulted => "alloc" \in faulted'
  BY DEF WorkerThreadProc, GetPacket, GetNull, WriteFile, NoNextRead,
     CountNextRead, NextRead, Decrement, Signal, Fault, NoFault
<1>2. /\ \A i \in 1..Len(port) : port[i].status = "ok"
      /\ Copying \/ bResult =>
           /\ \A c \in 1..allocated :
                c \in dest \cup writing \/ (c = allocated /\ ReadAhead)
           /\ \/ allocated = NumChunks \/ ReadAhead \/ wpc = "next"
              \/ "alloc" \in faulted
  BY <1>1 DEF CopyInv, IInv
<1>3. UNCHANGED <<mpc, bResult, open, dest>>
  BY DEF WorkerThreadProc, GetPacket, GetNull, WriteFile, NoNextRead,
         CountNextRead, NextRead, Decrement, Signal, mainVars, deviceVars
<1>4. wpc \notin {"none", "done"}
  BY DEF WorkerThreadProc, GetPacket, GetNull, WriteFile, NoNextRead,
         CountNextRead, NextRead, Decrement, Signal, Worker
<1>5. ~bResult /\ (Copying => open) /\ Copying' = Copying
  BY <1>0, <1>3, <1>4 DEF MainInv, Copying
<1>6. port \in Seq(Packet)
  BY <1>0 DEF TypeOK, Packet
<1>7. ASSUME port # <<>>, port' = Tail(port), Head(port).op # "read"
      PROVE  /\ \A i \in 1..Len(port') : port'[i].status = "ok"
             /\ \A i \in 1..Len(port) : port[i].op = "read" =>
                  \E j \in 1..Len(port') : port'[j].op = "read"
  <2>1. /\ Head(port) = port[1] /\ Len(port) \in Nat
        /\ \A i \in 1..Len(port') : i + 1 \in 1..Len(port) /\ port'[i] = port[i + 1]
        /\ \A i \in 1..Len(port) : i = 1 \/ i - 1 \in 1..Len(port')
    BY <1>6, <1>7, PortTail
  <2>2. ASSUME NEW i \in 1..Len(port), port[i].op = "read"
        PROVE  \E j \in 1..Len(port') : port'[j].op = "read"
    <3>1. i - 1 \in 1..Len(port')
      BY <1>7, <2>1, <2>2
    <3>2. port'[i - 1] = port[i]
      BY <2>1, <3>1
    <3> QED BY <2>2, <3>1, <3>2
  <2> QED BY <1>2, <2>1, <2>2
<1> USE DEF Worker, mainVars, deviceVars, heapVars
<1>8. CASE GetPacket
  <2>1. port # <<>> /\ port' = Tail(port)
    BY <1>8 DEF GetPacket
  <2>2. Head(port) = port[1] /\ 1 \in 1..Len(port)
    BY <1>6, <2>1, PortTail
  <2>3. UNCHANGED <<reading, writing, allocated>> /\ wpc = "get"
    BY <1>8 DEF GetPacket
  <2>4. CASE wpc' = "write"
    <3>1. \A i \in 1..Len(port') : port'[i].status = "ok"
      BY <1>2, <1>6, <2>1, PortTail
    <3>2. ReadAhead'
      BY <2>4 DEF ReadAhead
    <3> QED BY <1>2, <1>3, <1>5, <2>3, <3>1, <3>2
  <2>5. CASE Head(port).op = "write" \/ Head(port).status # "ok"
    <3>1. Head(port).op # "read"
      BY <1>2, <2>2, <2>5
    <3>2. ReadAhead => ReadAhead'
      BY <1>7, <2>1, <2>3, <3>1 DEF ReadAhead
    <3> QED BY <1>1, <1>2, <1>3, <1>5, <1>7, <2>1, <2>3, <3>1, <3>2
  <2> QED BY <1>8, <2>4, <2>5 DEF GetPacket
<1>9. CASE GetNull
  <2>1. UNCHANGED <<reading, writing, allocated>> /\ wpc = "get"
    BY <1>9 DEF GetNull
  <2>2. CASE UNCHANGED port
    <3>1. ReadAhead => ReadAhead'
      BY <2>1, <2>2 DEF ReadAhead
    <3> QED BY <1>1, <1>2, <1>3, <1>5, <2>1, <2>2, <3>1
  <2>3. CASE port # <<>> /\ port' = Tail(port) /\ Head(port) = Quit
    <3>1. Head(port).op # "read"
      BY <2>3 DEF Quit
    <3>2. ReadAhead => ReadAhead'
      BY <1>7, <2>1, <2>3, <3>1 DEF ReadAhead
    <3> QED BY <1>1, <1>2, <1>3, <1>5, <1>7, <2>1, <2>3, <3>1, <3>2
  <2> QED BY <1>9, <2>2, <2>3 DEF GetNull
<1>10. CASE WriteFile
  <2>1. UNCHANGED <<port, allocated>> /\ pIoData = allocated
    BY <1>0, <1>10 DEF WriteFile, FrontierInv
  <2>2. CASE Copying
    <3>1. wpc' = "next" /\ writing' = writing \cup {pIoData}
      BY <1>5, <1>10, <2>2 DEF WriteFile, Fault, LosesData
    <3> QED BY <1>2, <1>3, <1>5, <2>1, <2>2, <3>1
  <2> QED BY <1>2, <1>3, <1>5, <2>1, <2>2
<1>11. CASE NoNextRead \/ CountNextRead
  <2>1. /\ UNCHANGED <<port, reading, writing>>
        /\ pIoData = allocated /\ wpc = "next" /\ ~ReadAhead
    BY <1>0, <1>11 DEF NoNextRead, CountNextRead, FrontierInv, ReadAhead
  <2>2. Copying => \A c \in 1..allocated : c \in dest' \cup writing'
    BY <1>2, <1>3, <2>1
  <2>3. CASE NoNextRead
    <3>1. /\ allocated' = NumChunks \/ "alloc" \in faulted'
          /\ allocated' = allocated
      <4>1. (~MoreRemains \/ "alloc" \in faulted') /\ allocated' = allocated
        BY <2>3 DEF NoNextRead, Fault
      <4> QED BY <1>0, <2>1, <4>1, IocpCopyAssumption DEF MoreRemains, TypeOK
    <3> QED BY <1>2, <1>3, <1>5, <2>1, <2>2, <3>1
  <2>4. CASE CountNextRead
    <3>1. ReadAhead' /\ allocated' = allocated + 1
      BY <2>1, <2>4 DEF CountNextRead, ReadAhead
    <3>2. \A c \in 1..allocated' : c \in 1..allocated \/ c = allocated'
      BY <1>0, <3>1, IocpCopyAssumption DEF TypeOK
    <3> QED BY <1>2, <1>3, <1>5, <2>1, <2>2, <3>1, <3>2
  <2> QED BY <1>11, <2>3, <2>4
<1>12. CASE NextRead
  <2>1. UNCHANGED <<port, writing, allocated>>
    BY <1>12 DEF NextRead
  <2>2. CASE Copying
    <3>1. reading' # {}
      BY <1>5, <1>12, <2>2 DEF NextRead, Fault, LosesData
    <3>2. ReadAhead'
      BY <3>1 DEF ReadAhead
    <3> QED BY <1>2, <1>3, <1>5, <2>1, <2>2, <3>2
  <2> QED BY <1>2, <1>3, <1>5, <2>1, <2>2
<1>13. CASE Decrement \/ Signal
  <2>1. /\ UNCHANGED <<port, reading, writing, allocated>>
        /\ wpc \notin {"write", "read", "next"}
    BY <1>13 DEF Decrement, Signal
  <2>2. ReadAhead => ReadAhead'
    BY <2>1 DEF ReadAhead
  <2> QED BY <1>1, <1>2, <1>3, <1>5, <2>1, <2>2
<1> QED BY <1>8, <1>9, <1>10, <1>11, <1>12, <1>13 DEF WorkerThreadProc

\* A write that completes is one of a chunk that was allocated.
LEMMA WrittenStep == IInv /\ Next => WrittenInv'
<1> SUFFICES ASSUME IInv, Next PROVE WrittenInv'
  OBVIOUS
<1>0. /\ TypeOK /\ MainInv /\ FrontierInv /\ IoDataOwnership
      /\ dest \subseteq 1..allocated /\ allocated \in Nat
  BY IocpCopyAssumption DEF IInv, WrittenInv, TypeOK
<1>1. CASE dest' = {}
  BY <1>1 DEF WrittenInv
<1>2. CASE WriteCompletes
  <2>1. PICK c \in writing : dest' \subseteq dest \cup {c}
    BY <1>2 DEF WriteCompletes
  <2>2. c \in 1..allocated
    BY <1>0, <2>1 DEF IoDataOwnership, Live, TypeOK
  <2>3. allocated' = allocated
    BY <1>2 DEF WriteCompletes, heapVars
  <2> QED BY <1>0, <2>1, <2>2, <2>3 DEF WrittenInv
<1>3. CASE dest' = dest /\ allocated' = allocated
  BY <1>0, <1>3 DEF WrittenInv
<1>4. CASE FirstRead
  <2>1. allocated = 0 /\ dest' = dest
    BY <1>0, <1>4 DEF FirstRead, MainInv
  <2> QED BY <1>0, <2>1 DEF WrittenInv
<1>5. CASE CountNextRead
  <2>1. allocated' = allocated + 1 /\ dest' = dest
    BY <1>0, <1>5 DEF CountNextRead, FrontierInv, Worker, deviceVars
  <2>2. 1..allocated \subseteq 1..allocated'
    BY <1>0, <2>1
  <2> QED BY <1>0, <2>1, <2>2 DEF WrittenInv
<1>6. \/ dest' = {} \/ WriteCompletes \/ FirstRead \/ CountNextRead
      \/ dest' = dest /\ allocated' = allocated
  BY DEF Next, Main, Open, CreateWorker, CreateEvent, WaitEvent, JoinWorker, Cleanup,
     Return, Device, ReadCompletes, WorkerThreadProc, GetPacket, GetNull, WriteFile,
     NoNextRead, NextRead, Decrement, Signal, Exited, vars, deviceVars, heapVars
<1> QED BY <1>1, <1>2, <1>3, <1>4, <1>5, <1>6
-----------------------------------------------------------------------------
(* The theorems *)

\* A step that changes nothing keeps the invariant.
LEMMA Stutter == IInv /\ UNCHANGED vars => IInv'
<1> SUFFICES ASSUME IInv, UNCHANGED vars PROVE IInv'
  OBVIOUS
<1> USE DEF vars, mainVars, workerVars, deviceVars, heapVars
<1>1. Live' = Live /\ (Copying' <=> Copying) /\ (Quiet' <=> Quiet)
      /\ (ReadAhead' <=> ReadAhead)
      /\ \A c : (InPort(c)' <=> InPort(c)) /\ (InHand(c)' <=> InHand(c))
  BY DEF Live, Copying, Quiet, ReadAhead, InPort, InHand
<1>2. TypeOK'
  BY DEF TypeOK, IInv
<1>3. MainInv' /\ FaultInv' /\ FrontierInv'
  BY <1>1 DEF MainInv, FaultInv, FrontierInv, IInv
<1>4. PacketInv' /\ CountInv' /\ IoDataOwnership'
  BY <1>1 DEF PacketInv, Distinct, CountInv, IoDataOwnership, IInv
<1>5. SignalMeansQuiescent' /\ FilesOutliveOperations' /\ CopyInv' /\ WrittenInv'
  BY <1>1 DEF SignalMeansQuiescent, FilesOutliveOperations, CopyInv, WrittenInv, IInv
<1> QED BY <1>2, <1>3, <1>4, <1>5 DEF IInv

\* The invariant is inductive.
LEMMA NextInv == IInv /\ [Next]_vars => IInv'
<1> SUFFICES ASSUME IInv, [Next]_vars PROVE IInv'
  OBVIOUS
<1>1. CASE Main
  <2>1. SignalMeansQuiescent' /\ FilesOutliveOperations' /\ WrittenInv'
    BY <1>1, SignalStep, FilesStep, WrittenStep DEF Next
  <2> QED BY <1>1, <2>1, TypeMain, MainInvMain, FrontierMain, OwnersMain,
             CountMain, CopyMain DEF IInv
<1>2. CASE Device
  <2>1. SignalMeansQuiescent' /\ FilesOutliveOperations' /\ WrittenInv'
    BY <1>2, SignalStep, FilesStep, WrittenStep DEF Next
  <2> QED BY <1>2, <2>1, TypeDevice, MainInvDevice, FrontierDevice, OwnersDevice,
             CountDevice, CopyDevice DEF IInv
<1>3. CASE WorkerThreadProc
  <2>1. SignalMeansQuiescent' /\ FilesOutliveOperations' /\ WrittenInv'
    BY <1>3, SignalStep, FilesStep, WrittenStep DEF Next
  <2> QED BY <1>3, <2>1, TypeWorker, MainInvWorker, FrontierWorker, OwnersWorker,
             CountWorker, CopyWorker DEF IInv
<1>4. CASE Exited \/ UNCHANGED vars
  BY <1>4, Stutter DEF Exited
<1> QED BY <1>1, <1>2, <1>3, <1>4 DEF Next

\* The invariant holds of every state the program can be in.
THEOREM Invariance == Spec => []IInv
BY InitInv, NextInv, PTL DEF Spec

\* Every variable stays in its set: g_OpCount is never negative and never above
\* the number of chunks.
THEOREM TypeCorrect == Spec => []TypeOK
<1>1. IInv => TypeOK
  BY DEF IInv
<1> QED BY <1>1, Invariance, PTL

\* g_OpCount is the number of live IO_DATA, but for the one just freed, from the
\* first ReadFile to the end of the worker.
THEOREM CountIsLive == Spec => []OpCountIsLive
<1>1. IInv => OpCountIsLive
  BY DEF IInv, OpCountIsLive, FaultInv, CountInv
<1> QED BY <1>1, Invariance, PTL

\* Each IO_DATA has one owner, is freed once, and not while it is in use.
THEOREM OneOwner == Spec => []IoDataOwnership
<1>1. IInv => IoDataOwnership
  BY DEF IInv
<1> QED BY <1>1, Invariance, PTL

\* The worker signals g_hCompletionEvent when nothing is left to do.
THEOREM SignalIsQuiescent == Spec => []SignalMeansQuiescent
<1>1. IInv => SignalMeansQuiescent
  BY DEF IInv
<1> QED BY <1>1, Invariance, PTL

\* StartCopy closes the files when no operation on them is in flight, unless the
\* event could not be created.
THEOREM FilesStayOpen == Spec => []FilesOutliveOperations
<1>1. IInv => FilesOutliveOperations
  BY DEF IInv
<1> QED BY <1>1, Invariance, PTL

\* StartCopy says TRUE of a copy without holes, if no operation failed, and of a
\* complete one if no allocation did either.
THEOREM TrueIsCopied == Spec => []TrueMeansCopied
<1>1. IInv => TrueMeansCopied
  <2> SUFFICES ASSUME IInv, bResult,
                      faulted \cap {"write", "read", "eof", "failed"} = {}
               PROVE  dest = 1..allocated /\ ("alloc" \notin faulted => dest = Chunk)
    BY DEF TrueMeansCopied
  <2>1. TypeOK /\ MainInv /\ FaultInv /\ CopyInv /\ WrittenInv
    BY DEF IInv
  <2>2. faulted \cap LosesData = {}
    BY <2>1 DEF FaultInv, LosesData
  <2>3. Quiet /\ wpc = "done"
    BY <2>1 DEF MainInv
  <2>4. ~ReadAhead /\ writing = {}
    BY <2>3 DEF Quiet, ReadAhead, Quit
  <2>5. \A c \in 1..allocated : c \in dest
    BY <2>1, <2>2, <2>4 DEF CopyInv
  <2>6. "alloc" \notin faulted => allocated = NumChunks
    BY <2>1, <2>2, <2>3, <2>4 DEF CopyInv
  <2> QED BY <2>1, <2>5, <2>6 DEF WrittenInv, Chunk
<1> QED BY <1>1, Invariance, PTL
=============================================================================
