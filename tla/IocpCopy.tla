------------------------------ MODULE IocpCopy ------------------------------
(***************************************************************************)
(* CreateIOCompletionPortExample.cpp: main calls StartCopy several times.  *)
(* Each call starts WorkerThreadProc on a new completion port, issues the  *)
(* first read and waits for g_hCompletionEvent; from there the worker      *)
(* turns the completion of a read into a write and the next read, and      *)
(* signals the event when g_OpCount has come down to zero.                 *)
(*                                                                         *)
(* An IO_DATA with its buffer is named by the number of its chunk.  The    *)
(* kernel's part is Device: an operation in flight completes at any time,  *)
(* in any order, and leaves a packet in the port.                          *)
(***************************************************************************)
EXTENDS Naturals, Sequences, FiniteSets

CONSTANTS NumChunks,   \* chunks in the source file
          Copies,      \* calls of StartCopy; 16 in main
          Faults       \* what may go wrong, a subset of FaultKinds

\* setup: opening and preallocating the files, or the port; outrun: the worker
\* signals the event before StartCopy has created it.
FaultKinds == {"setup", "createWorker", "firstRead", "createEvent", "outrun",
               "write", "alloc", "read", "eof", "failed"}

ASSUME IocpCopyAssumption == /\ NumChunks \in Nat \ {0}
                             /\ Copies \in Nat \ {0}
                             /\ Faults \subseteq FaultKinds

Chunk == 1..NumChunks
Quit  == [op |-> "quit", chunk |-> 0, status |-> "ok"]

VARIABLES
  mpc, copy, bResult,          \* StartCopy, and main's loop index from 1
  g_hCompletionEvent,          \* "null", "unset", "set" or "stale"
  g_OpCount,
  open,                        \* the files and the port of this call are open
  wpc, pIoData,                \* WorkerThreadProc and the chunk it handles
  port,                        \* the packets queued in the completion port
  reading, writing,            \* the operations in flight
  dest,                        \* the chunks in the destination file
  allocated,                   \* history: IO_DATA allocated in this call: 1..allocated
  frees,                       \* history: how often each was freed
  faulted                      \* history: the faults that have happened

mainVars   == <<mpc, copy, bResult, open>>
workerVars == <<wpc, pIoData>>
deviceVars == <<port, reading, writing, dest>>
heapVars   == <<allocated, frees>>
vars == <<mainVars, g_hCompletionEvent, g_OpCount, workerVars, deviceVars,
          heapVars, faulted>>

Init ==
  /\ mpc = "open" /\ copy = 1 /\ bResult = FALSE /\ open = FALSE
  /\ g_hCompletionEvent = "null" /\ g_OpCount = 0
  /\ wpc = "none" /\ pIoData = 0
  /\ port = <<>> /\ reading = {} /\ writing = {} /\ dest = {}
  /\ allocated = 0 /\ frees = [c \in Chunk |-> 0]
  /\ faulted = {}

NoFault == UNCHANGED faulted
Fault(f) == f \in Faults /\ faulted' = faulted \cup {f}
Running == mpc # "exited"
Free(c) == frees' = [frees EXCEPT ![c] = @ + 1]
-----------------------------------------------------------------------------
(* StartCopy and main *)

GoTo(to) == mpc' = to /\ UNCHANGED <<copy, bResult>>

\* Open both files, preallocate, create the port and associate the files.
Open ==
  /\ mpc = "open"
  /\ \/ GoTo("createWorker") /\ open' = TRUE /\ NoFault
     \/ GoTo("cleanup") /\ Fault("setup") /\ UNCHANGED open
  /\ port' = <<>> /\ dest' = {}
  /\ allocated' = 0 /\ frees' = [c \in Chunk |-> 0]
  /\ UNCHANGED <<g_hCompletionEvent, g_OpCount, workerVars, reading, writing>>

CreateWorker ==
  /\ mpc = "createWorker"
  /\ \/ GoTo("read") /\ wpc' = "get" /\ NoFault
     \/ GoTo("cleanup") /\ Fault("createWorker") /\ UNCHANGED wpc
  /\ UNCHANGED <<g_hCompletionEvent, g_OpCount, open, pIoData, deviceVars,
                 heapVars>>

\* The count becomes one; the allocations and the first ReadFile may fail.
FirstRead ==
  /\ mpc = "read"
  /\ g_OpCount' = 1
  /\ \/ GoTo("createEvent") /\ reading' = {1} /\ allocated' = 1 /\ NoFault
     \/ GoTo("cleanup") /\ Fault("firstRead") /\ UNCHANGED <<reading, allocated>>
  /\ UNCHANGED <<g_hCompletionEvent, open, workerVars, port, writing, dest, frees>>

CreateEvent ==
  /\ mpc = "createEvent"
  /\ \/ GoTo("wait") /\ g_hCompletionEvent' = "unset" /\ NoFault
     \/ GoTo("cleanup") /\ g_hCompletionEvent' = "null" /\ Fault("createEvent")
  /\ UNCHANGED <<g_OpCount, open, workerVars, deviceVars, heapVars>>

\* WaitForSingleObject(g_hCompletionEvent, INFINITE) returns.  Mutant: it only
\* needs the event to exist.
EventCreated == g_hCompletionEvent # "null"
EventSignaled == g_hCompletionEvent = "set"

\* The wait for the event returns; the worker is told to quit.
WaitEvent ==
  /\ mpc = "wait" /\ EventSignaled
  /\ GoTo("join")
  /\ port' = Append(port, Quit)
  /\ UNCHANGED <<g_hCompletionEvent, g_OpCount, open, workerVars, reading,
                 writing, dest, heapVars, faulted>>

JoinWorker ==
  /\ mpc = "join" /\ wpc = "done"
  /\ mpc' = "cleanup" /\ bResult' = TRUE
  /\ UNCHANGED <<copy, g_hCompletionEvent, g_OpCount, open, workerVars,
                 deviceVars, heapVars, faulted>>

\* Every handle that is not NULL is closed and keeps its value; the packets of
\* a closed port are gone.
Cleanup ==
  /\ mpc = "cleanup"
  /\ GoTo("return") /\ open' = FALSE
  /\ g_hCompletionEvent' = IF g_hCompletionEvent = "null" THEN "null" ELSE "stale"
  /\ port' = <<>>
  /\ UNCHANGED <<g_OpCount, workerVars, reading, writing, dest, heapVars, faulted>>

\* main goes on with the next copy, or ends the process.
Return ==
  /\ mpc = "return"
  /\ IF bResult /\ copy < Copies
     THEN mpc' = "open" /\ copy' = copy + 1 /\ bResult' = FALSE
     ELSE mpc' = "exited" /\ UNCHANGED <<copy, bResult>>
  /\ UNCHANGED <<open, g_hCompletionEvent, g_OpCount, workerVars, deviceVars,
                 heapVars, faulted>>

Main == \/ Open \/ CreateWorker \/ FirstRead \/ CreateEvent \/ WaitEvent
        \/ JoinWorker \/ Cleanup \/ Return
-----------------------------------------------------------------------------
(* The devices and the completion port *)

Complete(op, c, status) ==
  port' = IF open
          THEN Append(port, [op |-> op, chunk |-> c, status |-> status])
          ELSE port

\* A read transfers data, transfers nothing, or fails.
ReadCompletes ==
  /\ Running
  /\ \E c \in reading :
       /\ \/ Complete("read", c, "ok") /\ NoFault
          \/ Complete("read", c, "eof") /\ Fault("eof")
          \/ Complete("read", c, "failed") /\ Fault("failed")
       /\ reading' = reading \ {c}
  /\ UNCHANGED <<mainVars, g_hCompletionEvent, g_OpCount, workerVars, writing,
                 dest, heapVars>>

WriteCompletes ==
  /\ Running
  /\ \E c \in writing :
       /\ \/ Complete("write", c, "ok") /\ dest' = dest \cup {c} /\ NoFault
          \/ Complete("write", c, "failed") /\ UNCHANGED dest /\ Fault("failed")
       /\ writing' = writing \ {c}
  /\ UNCHANGED <<mainVars, g_hCompletionEvent, g_OpCount, workerVars, reading,
                 heapVars>>

Device == ReadCompletes \/ WriteCompletes
-----------------------------------------------------------------------------
(* WorkerThreadProc *)

Worker(from, to) == Running /\ wpc = from /\ wpc' = to

\* GetQueuedCompletionStatus returns a packet.  A read that has transferred
\* data goes on to WriteFile; any other operation is over: its buffer and
\* IO_DATA are freed.
GetPacket ==
  /\ open /\ port # <<>> /\ Head(port) # Quit
  /\ port' = Tail(port) /\ pIoData' = Head(port).chunk
  /\ \/ /\ Head(port).op = "read" /\ Head(port).status = "ok"
        /\ Worker("get", "write")
        /\ UNCHANGED frees
     \/ /\ Head(port).op = "write" \/ Head(port).status # "ok"
        /\ Worker("get", "decrement")
        /\ Free(Head(port).chunk)
  /\ UNCHANGED <<mainVars, g_hCompletionEvent, g_OpCount, reading, writing,
                 dest, allocated, faulted>>

\* The NULL packet, or a port closed under the wait, ends the thread.
GetNull ==
  /\ \/ open /\ port # <<>> /\ Head(port) = Quit /\ port' = Tail(port)
     \/ ~open /\ UNCHANGED port
  /\ Worker("get", "done")
  /\ UNCHANGED <<mainVars, g_hCompletionEvent, g_OpCount, pIoData, reading,
                 writing, dest, heapVars, faulted>>

\* WriteFile with the IO_DATA of the read.  Mutant: ERROR_IO_PENDING is taken
\* for a failure.
WriteFilePendingFails ==
  /\ Worker("write", "decrement")
  /\ Free(pIoData) /\ writing' = writing \cup {pIoData}
  /\ UNCHANGED <<mainVars, g_hCompletionEvent, g_OpCount, pIoData, port,
                 reading, dest, allocated, faulted>>
WriteFile ==
  /\ \/ /\ open /\ Worker("write", "next") /\ NoFault
        /\ writing' = writing \cup {pIoData} /\ UNCHANGED frees
     \/ /\ Worker("write", "decrement")
        /\ IF open THEN Fault("write") ELSE NoFault
        /\ Free(pIoData) /\ UNCHANGED writing
  /\ UNCHANGED <<mainVars, g_hCompletionEvent, g_OpCount, pIoData, port,
                 reading, dest, allocated>>

\* More data remains.  Mutant: one read past the end.
MoreRemainsOffByOne == pIoData <= NumChunks
MoreRemains == pIoData < NumChunks

\* There is no next chunk, or no memory for it: back to the port.
NoNextRead ==
  /\ Worker("next", "get")
  /\ IF MoreRemains THEN Fault("alloc") ELSE NoFault
  /\ UNCHANGED <<mainVars, g_hCompletionEvent, g_OpCount, pIoData, deviceVars,
                 heapVars>>

\* InterlockedIncrement64.  Mutant: the next read is not counted.
NotIncremented == g_OpCount
Incremented == g_OpCount + 1

\* The next IO_DATA is allocated and counted ...
CountNextRead ==
  /\ MoreRemains
  /\ Worker("next", "read")
  /\ allocated' = pIoData + 1 /\ pIoData' = pIoData + 1
  /\ g_OpCount' = Incremented
  /\ UNCHANGED <<mainVars, g_hCompletionEvent, deviceVars, frees, faulted>>

\* ... before its ReadFile, which may fail.
NextRead ==
  /\ \/ /\ open /\ Worker("read", "get") /\ NoFault
        /\ reading' = reading \cup {pIoData} /\ UNCHANGED frees
     \/ /\ Worker("read", "decrement")
        /\ IF open THEN Fault("read") ELSE NoFault
        /\ Free(pIoData) /\ UNCHANGED reading
  /\ UNCHANGED <<mainVars, g_hCompletionEvent, g_OpCount, pIoData, port,
                 writing, dest, allocated>>

\* InterlockedDecrement64 returns zero.  Mutant: the old value is tested.
WasZero == g_OpCount = 0
ReachesZero == g_OpCount = 1

\* InterlockedDecrement64.
Decrement ==
  /\ Worker("decrement", IF ReachesZero THEN "signal" ELSE "get")
  /\ g_OpCount' = g_OpCount - 1
  /\ UNCHANGED <<mainVars, g_hCompletionEvent, pIoData, deviceVars, heapVars,
                 faulted>>

\* SetEvent: it fails on a handle that is NULL or closed, and nobody looks.
Signal ==
  /\ Worker("signal", "get")
  /\ \/ /\ g_hCompletionEvent \in {"unset", "set"}
        /\ g_hCompletionEvent' = "set" /\ NoFault
     \/ /\ g_hCompletionEvent \in {"null", "stale"}
        /\ UNCHANGED g_hCompletionEvent
        /\ IF mpc = "createEvent" THEN Fault("outrun") ELSE NoFault
  /\ UNCHANGED <<mainVars, g_OpCount, pIoData, deviceVars, heapVars>>

WorkerThreadProc == \/ GetPacket \/ GetNull \/ WriteFile \/ NoNextRead
                    \/ CountNextRead \/ NextRead \/ Decrement \/ Signal

Exited == ~Running /\ UNCHANGED vars

Next == Main \/ Device \/ WorkerThreadProc \/ Exited

\* Both threads run when they can, and every operation completes.
Spec == /\ Init /\ [][Next]_vars
        /\ WF_vars(Main) /\ WF_vars(Device) /\ WF_vars(WorkerThreadProc)
-----------------------------------------------------------------------------
(* Properties *)

\* Every variable stays in its set; the count is never negative.
TypeOK ==
  /\ mpc \in {"open", "createWorker", "read", "createEvent", "wait", "join",
              "cleanup", "return", "exited"}
  /\ copy \in 1..Copies /\ bResult \in BOOLEAN /\ open \in BOOLEAN
  /\ g_hCompletionEvent \in {"null", "unset", "set", "stale"}
  /\ g_OpCount \in 0..NumChunks
  /\ wpc \in {"none", "get", "write", "next", "read", "decrement", "signal",
              "done"}
  /\ pIoData \in 0..NumChunks
  /\ port \in Seq({Quit} \cup [op : {"read", "write"}, chunk : Chunk,
                               status : {"ok", "eof", "failed"}])
  /\ reading \subseteq Chunk /\ writing \subseteq Chunk /\ dest \subseteq Chunk
  /\ allocated \in 0..NumChunks /\ frees \in [Chunk -> Nat]
  /\ faulted \subseteq Faults

InPort(c) == \E i \in 1..Len(port) : port[i].chunk = c
InHand(c) == wpc \in {"write", "read"} /\ pIoData = c
Live == {c \in 1..allocated : frees[c] = 0}

\* g_OpCount is the number of live IO_DATA, but for the one just freed: it
\* comes down to zero when the last operation is over and not before.
OpCountIsLive ==
  mpc \in {"createEvent", "wait", "join"} =>
    g_OpCount = Cardinality(Live) + (IF wpc = "decrement" THEN 1 ELSE 0)

\* A live IO_DATA is in flight, in the port or in the worker's hands, and in
\* one of these only; one in use is never freed, and none is freed twice.
IoDataOwnership ==
  /\ \A c \in Chunk :
       /\ frees[c] <= 1
       /\ c \in reading \cup writing \/ InPort(c) \/ InHand(c) => c \in Live
       /\ ~(c \in reading /\ c \in writing)
       /\ InPort(c) => c \notin reading \cup writing
       /\ InHand(c) => c \notin reading \cup writing /\ ~InPort(c)
  /\ open => \A c \in Live : c \in reading \cup writing \/ InPort(c) \/ InHand(c)

\* Once the event is signaled nothing is in flight and nothing is left to do:
\* StartCopy may close the files and free the worker.
SignalMeansQuiescent ==
  g_hCompletionEvent = "set" =>
    /\ reading = {} /\ writing = {} /\ g_OpCount = 0
    /\ wpc \in {"get", "done"}
    /\ \A i \in 1..Len(port) : port[i] = Quit

\* StartCopy says TRUE of a copy without holes, unless an operation failed on
\* the way, which it does not learn: the file has the chunks that were read, and
\* only without memory for the next of them are these not all.
TrueMeansCopied ==
  bResult /\ faulted \cap {"write", "read", "eof", "failed"} = {}
    => /\ dest = 1..allocated
       /\ "alloc" \notin faulted => dest = Chunk

\* The files stay open while operations on them are in flight, unless the
\* event could not be created: then StartCopy closes them under the worker.
FilesOutliveOperations ==
  reading \cup writing # {} => open \/ "createEvent" \in faulted

\* "g_hCompleteEvent is signaled when g_OpCount reaches zero."
SignaledAtZero ==
  mpc = "wait" /\ g_OpCount = 0 /\ wpc # "signal" => g_hCompletionEvent = "set"

\* All copies end, unless the worker has outrun the creation of its event.
Terminates == <>(mpc = "exited" \/ "outrun" \in faulted)
=============================================================================
