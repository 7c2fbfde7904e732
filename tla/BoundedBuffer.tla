--------------------------- MODULE BoundedBuffer ----------------------------
(***************************************************************************)
(* CreateThreadWithSemaphore.cpp: ProducerThread and ConsumerThread share  *)
(* a ring of BUFFER_SIZE slots.  One semaphore counts the empty slots, one *)
(* the full ones, and a critical section guards the ring; waits and        *)
(* releases happen outside it, and their results are not looked at.        *)
(***************************************************************************)
EXTENDS Naturals, Sequences

CONSTANTS BUFFER_SIZE,
          PRODUCE_ITEMS,
          Faults         \* the creations that may fail

FaultKinds == {"semaphore", "producer", "consumer"}

ASSUME BoundedBufferAssumption == /\ BUFFER_SIZE \in Nat \ {0}
                                  /\ PRODUCE_ITEMS \in Nat
                                  /\ Faults \subseteq FaultKinds

Slot == 0..BUFFER_SIZE - 1
Item == 1..PRODUCE_ITEMS

VARIABLES
  g_Buffer, g_In, g_Out,
  g_hEmptySemaphore, g_hFullSemaphore,  \* their counts
  lock,          \* who is in the critical section, or "free"
  handlesOpen,   \* main has not closed the semaphores yet
  ppc, pi,       \* ProducerThread and its loop index
  cpc, ci,       \* ConsumerThread and its loop index
  mpc,           \* main
  produced,      \* history: the items stored in the ring
  consumed       \* history: the items read from it

ring  == <<g_Buffer, g_In, g_Out>>
sems  == <<g_hEmptySemaphore, g_hFullSemaphore>>
pvars == <<ppc, pi>>
cvars == <<cpc, ci>>
vars  == <<ring, sems, lock, handlesOpen, pvars, cvars, mpc, produced, consumed>>

Init ==
  /\ g_Buffer = [s \in Slot |-> 0] /\ g_In = 0 /\ g_Out = 0
  /\ g_hEmptySemaphore = BUFFER_SIZE /\ g_hFullSemaphore = 0
  /\ lock = "free" /\ handlesOpen = TRUE
  /\ ppc = "none" /\ pi = 0
  /\ cpc = "none" /\ ci = 0
  /\ mpc = "init"
  /\ produced = <<>> /\ consumed = <<>>

Running == mpc # "exited"

\* (index + 1) % BUFFER_SIZE.  Mutant: the index wraps one slot too late.
NextSlotLate(s) == (s + 1) % (BUFFER_SIZE + 1)
NextSlot(s) == (s + 1) % BUFFER_SIZE

\* WaitForSingleObject(semaphore, INFINITE) with count c returns and leaves c2.
\* On a closed handle it fails at once, which nobody notices.  Mutant: the
\* wait does not block.
AcquiredAnyhow(c, c2) == c2 = (IF c > 0 THEN c - 1 ELSE c)
Acquired(c, c2) ==
  \/ handlesOpen /\ c > 0 /\ c2 = c - 1
  \/ ~handlesOpen /\ c2 = c

\* The count after ReleaseSemaphore: it never exceeds the maximum, and the
\* call fails there.  Mutant: the release is forgotten.
NotReleased(c) == c
Released(c) == IF handlesOpen /\ c < BUFFER_SIZE THEN c + 1 ELSE c
-----------------------------------------------------------------------------
(* ProducerThread *)

PWait ==
  /\ Running /\ ppc = "wait"
  /\ Acquired(g_hEmptySemaphore, g_hEmptySemaphore')
  /\ ppc' = "enter"
  /\ UNCHANGED <<ring, g_hFullSemaphore, lock, handlesOpen, pi, cvars, mpc,
                 produced, consumed>>

PEnter ==
  /\ Running /\ ppc = "enter" /\ lock = "free"
  /\ lock' = "producer" /\ ppc' = "store"
  /\ UNCHANGED <<ring, sems, handlesOpen, pi, cvars, mpc, produced, consumed>>

PStore ==
  /\ Running /\ ppc = "store"
  /\ g_Buffer' = [g_Buffer EXCEPT ![g_In] = pi + 1]
  /\ produced' = Append(produced, pi + 1)
  /\ ppc' = "leave"
  /\ UNCHANGED <<g_In, g_Out, sems, lock, handlesOpen, pi, cvars, mpc, consumed>>

PLeave ==
  /\ Running /\ ppc = "leave"
  /\ g_In' = NextSlot(g_In)
  /\ lock' = "free" /\ ppc' = "release"
  /\ UNCHANGED <<g_Buffer, g_Out, sems, handlesOpen, pi, cvars, mpc, produced,
                 consumed>>

\* Mutant: the producer gives its token back to the semaphore it took it from.
PReleaseEmpty ==
  /\ Running /\ ppc = "release"
  /\ g_hEmptySemaphore' = Released(g_hEmptySemaphore)
  /\ pi' = pi + 1
  /\ ppc' = IF pi + 1 < PRODUCE_ITEMS THEN "wait" ELSE "done"
  /\ UNCHANGED <<ring, g_hFullSemaphore, lock, handlesOpen, cvars, mpc,
                 produced, consumed>>
PRelease ==
  /\ Running /\ ppc = "release"
  /\ g_hFullSemaphore' = Released(g_hFullSemaphore)
  /\ pi' = pi + 1
  /\ ppc' = IF pi + 1 < PRODUCE_ITEMS THEN "wait" ELSE "done"
  /\ UNCHANGED <<ring, g_hEmptySemaphore, lock, handlesOpen, cvars, mpc,
                 produced, consumed>>

Producer == PWait \/ PEnter \/ PStore \/ PLeave \/ PRelease
-----------------------------------------------------------------------------
(* ConsumerThread *)

CWait ==
  /\ Running /\ cpc = "wait"
  /\ Acquired(g_hFullSemaphore, g_hFullSemaphore')
  /\ cpc' = "enter"
  /\ UNCHANGED <<ring, g_hEmptySemaphore, lock, handlesOpen, pvars, ci, mpc,
                 produced, consumed>>

CEnter ==
  /\ Running /\ cpc = "enter" /\ lock = "free"
  /\ lock' = "consumer" /\ cpc' = "read"
  /\ UNCHANGED <<ring, sems, handlesOpen, pvars, ci, mpc, produced, consumed>>

CRead ==
  /\ Running /\ cpc = "read"
  /\ consumed' = Append(consumed, g_Buffer[g_Out])
  /\ cpc' = "leave"
  /\ UNCHANGED <<ring, sems, lock, handlesOpen, pvars, ci, mpc, produced>>

CLeave ==
  /\ Running /\ cpc = "leave"
  /\ g_Out' = NextSlot(g_Out)
  /\ lock' = "free" /\ cpc' = "release"
  /\ UNCHANGED <<g_Buffer, g_In, sems, handlesOpen, pvars, ci, mpc, produced,
                 consumed>>

CRelease ==
  /\ Running /\ cpc = "release"
  /\ g_hEmptySemaphore' = Released(g_hEmptySemaphore)
  /\ ci' = ci + 1
  /\ cpc' = IF ci + 1 < PRODUCE_ITEMS THEN "wait" ELSE "done"
  /\ UNCHANGED <<ring, g_hFullSemaphore, lock, handlesOpen, pvars, mpc,
                 produced, consumed>>

Consumer == CWait \/ CEnter \/ CRead \/ CLeave \/ CRelease
-----------------------------------------------------------------------------
(* main *)

\* A thread's first step is its loop test.
FirstStep == IF PRODUCE_ITEMS > 0 THEN "wait" ELSE "done"

MainStep(from, to) ==
  /\ mpc = from /\ mpc' = to
  /\ UNCHANGED <<ring, sems, lock, pi, ci, produced, consumed>>

CreateSemaphores ==
  /\ \/ MainStep("init", "createProducer")
     \/ "semaphore" \in Faults /\ MainStep("init", "cleanup")
  /\ UNCHANGED <<handlesOpen, ppc, cpc>>

CreateProducer ==
  \/ /\ MainStep("createProducer", "createConsumer")
     /\ ppc' = FirstStep
     /\ UNCHANGED <<handlesOpen, cpc>>
  \/ /\ "producer" \in Faults
     /\ MainStep("createProducer", "cleanup")
     /\ UNCHANGED <<handlesOpen, ppc, cpc>>

\* If it fails, the producer is left running.
CreateConsumer ==
  \/ /\ MainStep("createConsumer", "joinProducer")
     /\ cpc' = FirstStep
     /\ UNCHANGED <<handlesOpen, ppc>>
  \/ /\ "consumer" \in Faults
     /\ MainStep("createConsumer", "cleanup")
     /\ UNCHANGED <<handlesOpen, ppc, cpc>>

\* WaitForSingleObject(thread, INFINITE) returns.  Mutant: it does not wait.
NotJoined(pc) == pc # "none"
Joined(pc) == pc = "done"

JoinProducer ==
  /\ Joined(ppc)
  /\ MainStep("joinProducer", "joinConsumer")
  /\ UNCHANGED <<handlesOpen, ppc, cpc>>

JoinConsumer ==
  /\ Joined(cpc)
  /\ MainStep("joinConsumer", "cleanup")
  /\ UNCHANGED <<handlesOpen, ppc, cpc>>

\* Close the semaphores and delete the critical section ...
Cleanup ==
  /\ MainStep("cleanup", "return")
  /\ handlesOpen' = FALSE
  /\ UNCHANGED <<ppc, cpc>>

\* ... and end the process, at any moment of whatever thread still runs.
Exit ==
  /\ MainStep("return", "exited")
  /\ UNCHANGED <<handlesOpen, ppc, cpc>>

Main == \/ CreateSemaphores \/ CreateProducer \/ CreateConsumer
        \/ JoinProducer \/ JoinConsumer \/ Cleanup \/ Exit

Exited == mpc = "exited" /\ UNCHANGED vars

Next == Producer \/ Consumer \/ Main \/ Exited

\* The scheduler runs every thread that can run.
Spec == Init /\ [][Next]_vars
             /\ WF_vars(Producer) /\ WF_vars(Consumer) /\ WF_vars(Main)
-----------------------------------------------------------------------------
(* Properties *)

\* Every variable stays in its set; the indices never leave the ring.
TypeOK ==
  /\ g_Buffer \in [Slot -> 0..PRODUCE_ITEMS]
  /\ g_In \in Slot /\ g_Out \in Slot
  /\ g_hEmptySemaphore \in 0..BUFFER_SIZE
  /\ g_hFullSemaphore \in 0..BUFFER_SIZE
  /\ lock \in {"free", "producer", "consumer"}
  /\ handlesOpen \in BOOLEAN
  /\ ppc \in {"none", "wait", "enter", "store", "leave", "release", "done"}
  /\ cpc \in {"none", "wait", "enter", "read", "leave", "release", "done"}
  /\ pi \in 0..PRODUCE_ITEMS /\ ci \in 0..PRODUCE_ITEMS
  /\ mpc \in {"init", "createProducer", "createConsumer", "joinProducer",
              "joinConsumer", "cleanup", "return", "exited"}
  /\ produced \in Seq(Item) /\ consumed \in Seq(0..PRODUCE_ITEMS)

\* The tokens between a wait on one semaphore and the release of the other.
ProducerHolds == IF ppc \in {"enter", "store", "leave", "release"} THEN 1 ELSE 0
ConsumerHolds == IF cpc \in {"enter", "read", "leave", "release"} THEN 1 ELSE 0

\* The semaphores and the threads hold BUFFER_SIZE tokens between them: none
\* is lost (a slot would never be used again) and none made up (an item would
\* be overwritten), so no release meets the semaphore's maximum.
TokensConserved ==
  handlesOpen => g_hEmptySemaphore + g_hFullSemaphore
                   + ProducerHolds + ConsumerHolds = BUFFER_SIZE

\* What is consumed is what was produced, in order, each item once: no slot is
\* overwritten before it is read, nor read before it is written or twice.
ConsumedAsProduced ==
  handlesOpen => /\ Len(consumed) <= Len(produced)
                 /\ \A k \in 1..Len(consumed) : consumed[k] = produced[k]

\* Everything is produced and consumed, and main ends: nobody waits for ever
\* on a semaphore, the critical section or a thread.
Terminates ==
  /\ <>(mpc = "exited")
  /\ (cpc # "none") ~> (Len(consumed) = PRODUCE_ITEMS)

\* Until main closes the semaphores the ring is a FIFO transfer that never
\* holds more than BUFFER_SIZE items.
Fifo == INSTANCE FifoTransfer WITH Capacity <- BUFFER_SIZE,
                                   sent <- produced, received <- consumed
IsFifo == Fifo!Init /\ [][handlesOpen => Fifo!Next]_<<produced, consumed>>
=============================================================================
