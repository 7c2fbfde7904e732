------------------------ MODULE BoundedBufferProofs -------------------------
(***************************************************************************)
(* BoundedBuffer for every ring size and every number of items: the two    *)
(* semaphores alone keep the ring a FIFO transfer.  The invariant ties the *)
(* counts and both indices to the two loop indices.                        *)
(***************************************************************************)
EXTENDS BoundedBuffer, TLAPS

InLoop(pc) == pc \notin {"none", "done"}

\* A thread that is in its loop has an item left, and it starts with none done.
LoopInv == /\ InLoop(ppc) => pi < PRODUCE_ITEMS
           /\ InLoop(cpc) => ci < PRODUCE_ITEMS
           /\ mpc \in {"init", "createProducer"} => ppc = "none" /\ pi = 0
           /\ mpc \in {"init", "createProducer", "createConsumer"} =>
                cpc = "none" /\ ci = 0

\* How far each side has got: items stored and read, indices advanced.
Stored   == pi + (IF ppc \in {"leave", "release"} THEN 1 ELSE 0)
Read     == ci + (IF cpc \in {"leave", "release"} THEN 1 ELSE 0)
InMoves  == pi + (IF ppc = "release" THEN 1 ELSE 0)
OutMoves == ci + (IF cpc = "release" THEN 1 ELSE 0)

\* Each count, with the tokens in the threads' hands, is a difference of the
\* loop indices.
TokenInv == /\ g_hFullSemaphore + ci + ConsumerHolds = pi
            /\ g_hEmptySemaphore + pi + ProducerHolds = BUFFER_SIZE + ci

\* The k-th item stored or read is item k.
HistoryInv == /\ Len(produced) = Stored
              /\ \A k \in 1..Stored : produced[k] = k
              /\ Len(consumed) = Read
              /\ \A k \in 1..Read : consumed[k] = k

\* The slot x steps after g_Out, for x up to the ring's size.
Wrap(x) == IF x < BUFFER_SIZE THEN x ELSE x - BUFFER_SIZE

\* g_In is ahead of g_Out by what is in the ring, and what is in the ring
\* lies between them in order.
RingInv == /\ g_In = Wrap(g_Out + (InMoves - OutMoves))
           /\ \A k \in OutMoves + 1..Stored :
                g_Buffer[Wrap(g_Out + (k - OutMoves - 1))] = k

IInv == /\ TypeOK /\ LoopInv
        /\ handlesOpen => TokenInv /\ HistoryInv /\ RingInv

\* Adding one modulo the ring's size.
LEMMA NextSlotWraps ==
  ASSUME NEW s \in Slot
  PROVE  NextSlot(s) \in Slot /\ NextSlot(s) = Wrap(s + 1)
<1>1. CASE s + 1 < BUFFER_SIZE
  BY <1>1, BoundedBufferAssumption DEF NextSlot, Slot, Wrap
<1>2. CASE s + 1 = BUFFER_SIZE
  BY <1>2, BoundedBufferAssumption DEF NextSlot, Slot, Wrap
<1> QED BY <1>1, <1>2, BoundedBufferAssumption DEF Slot

\* In a state of the invariant the tokens bound what the ring holds.
LEMMA RingBounds ==
  ASSUME TypeOK, TokenInv
  PROVE  /\ OutMoves \in Nat /\ InMoves \in Nat /\ Stored \in Nat /\ Read \in Nat
         /\ ci <= OutMoves /\ OutMoves <= Read /\ Read <= pi
         /\ pi <= InMoves /\ InMoves <= Stored
         /\ Stored <= OutMoves + BUFFER_SIZE
         /\ ppc = "store" => Stored < ci + BUFFER_SIZE
         /\ cpc = "read" => ci < pi
  BY BoundedBufferAssumption
  DEF TypeOK, TokenInv, OutMoves, InMoves, Stored, Read, ProducerHolds,
      ConsumerHolds

\* The initial state satisfies the invariant.
LEMMA InitInv == Init => IInv
<1> SUFFICES ASSUME Init PROVE IInv
  OBVIOUS
<1>1. TypeOK
  BY BoundedBufferAssumption DEF Init, TypeOK, Slot
<1>2. LoopInv
  BY DEF Init, LoopInv, InLoop
<1>3. TokenInv
  BY BoundedBufferAssumption
  DEF Init, TokenInv, ProducerHolds, ConsumerHolds
<1>4. HistoryInv
  BY DEF Init, HistoryInv, Stored, Read
<1>5. RingInv
  BY BoundedBufferAssumption
  DEF Init, RingInv, Wrap, InMoves, OutMoves, Stored
<1> QED BY <1>1, <1>2, <1>3, <1>4, <1>5 DEF IInv

\* No step leaves the sets of TypeOK, and no loop runs too far.
LEMMA TypeStep == TypeOK /\ LoopInv /\ [Next]_vars => TypeOK' /\ LoopInv'
<1> SUFFICES ASSUME TypeOK, LoopInv, [Next]_vars PROVE TypeOK' /\ LoopInv'
  OBVIOUS
<1> USE BoundedBufferAssumption
    DEF TypeOK, LoopInv, InLoop, ring, sems, pvars, cvars, Item
<1>1. CASE PWait
  BY <1>1 DEF PWait, Acquired
<1>2. CASE PEnter
  BY <1>2 DEF PEnter
<1>3. CASE PStore
  <2>1. pi + 1 \in Item
    BY <1>3 DEF PStore
  <2>2. g_Buffer' \in [Slot -> 0..PRODUCE_ITEMS]
    BY <1>3, <2>1 DEF PStore
  <2>3. produced' \in Seq(Item)
    BY <1>3, <2>1 DEF PStore
  <2> QED BY <1>3, <2>2, <2>3 DEF PStore
<1>4. CASE PLeave
  BY <1>4, NextSlotWraps DEF PLeave
<1>5. CASE PRelease
  BY <1>5 DEF PRelease, Released
<1>6. CASE CWait
  BY <1>6 DEF CWait, Acquired
<1>7. CASE CEnter
  BY <1>7 DEF CEnter
<1>8. CASE CRead
  <2>1. g_Buffer[g_Out] \in 0..PRODUCE_ITEMS
    OBVIOUS
  <2>2. consumed' \in Seq(0..PRODUCE_ITEMS)
    BY <1>8, <2>1 DEF CRead
  <2> QED BY <1>8, <2>2 DEF CRead
<1>9. CASE CLeave
  BY <1>9, NextSlotWraps DEF CLeave
<1>10. CASE CRelease
  BY <1>10 DEF CRelease, Released
<1>11. CASE Main
  <2> USE DEF MainStep
  <2>1. CASE CreateSemaphores
    BY <2>1 DEF CreateSemaphores
  <2>2. CASE CreateProducer
    BY <2>2 DEF CreateProducer, FirstStep
  <2>3. CASE CreateConsumer
    BY <2>3 DEF CreateConsumer, FirstStep
  <2>4. CASE JoinProducer \/ JoinConsumer
    BY <2>4 DEF JoinProducer, JoinConsumer
  <2>5. CASE Cleanup \/ Exit
    BY <2>5 DEF Cleanup, Exit
  <2> QED BY <1>11, <2>1, <2>2, <2>3, <2>4, <2>5 DEF Main
<1>12. CASE UNCHANGED vars
  BY <1>12 DEF vars
<1> QED
  BY <1>1, <1>2, <1>3, <1>4, <1>5, <1>6, <1>7, <1>8, <1>9, <1>10, <1>11, <1>12
  DEF Next, Producer, Consumer, Exited

\* main moves a thread from its birth to its loop test and touches nothing
\* else that the invariant is about.
LEMMA MainFrame ==
  ASSUME LoopInv, Main
  PROVE  /\ UNCHANGED <<ring, sems, pi, ci, produced, consumed>>
         /\ ppc' = ppc \/ (ppc = "none" /\ ppc' \in {"wait", "done"})
         /\ cpc' = cpc \/ (cpc = "none" /\ cpc' \in {"wait", "done"})
<1> USE DEF MainStep, LoopInv, ring, sems
<1>1. CASE CreateSemaphores
  BY <1>1 DEF CreateSemaphores
<1>2. CASE CreateProducer
  BY <1>2 DEF CreateProducer, FirstStep
<1>3. CASE CreateConsumer
  BY <1>3 DEF CreateConsumer, FirstStep
<1>4. CASE JoinProducer \/ JoinConsumer
  BY <1>4 DEF JoinProducer, JoinConsumer
<1>5. CASE Cleanup \/ Exit
  BY <1>5 DEF Cleanup, Exit
<1> QED BY <1>1, <1>2, <1>3, <1>4, <1>5 DEF Main

\* The tokens: a wait and a release move one between a count and a hand.
LEMMA TokenStep ==
  ASSUME TypeOK, LoopInv, TokenInv, handlesOpen, [Next]_vars
  PROVE  TokenInv'
<1> USE BoundedBufferAssumption
    DEF TypeOK, TokenInv, ProducerHolds, ConsumerHolds, ring, sems, pvars, cvars
<1>1. CASE PWait
  BY <1>1 DEF PWait, Acquired
<1>2. CASE PEnter \/ PStore \/ PLeave
  BY <1>2 DEF PEnter, PStore, PLeave
<1>3. CASE PRelease
  <2>1. g_hFullSemaphore < BUFFER_SIZE
    BY <1>3 DEF PRelease
  <2> QED BY <1>3, <2>1 DEF PRelease, Released
<1>4. CASE CWait
  BY <1>4 DEF CWait, Acquired
<1>5. CASE CEnter \/ CRead \/ CLeave
  BY <1>5 DEF CEnter, CRead, CLeave
<1>6. CASE CRelease
  <2>1. g_hEmptySemaphore < BUFFER_SIZE
    BY <1>6 DEF CRelease
  <2> QED BY <1>6, <2>1 DEF CRelease, Released
<1>7. CASE Main
  BY <1>7, MainFrame
<1>8. CASE UNCHANGED vars
  BY <1>8 DEF vars
<1> QED BY <1>1, <1>2, <1>3, <1>4, <1>5, <1>6, <1>7, <1>8
        DEF Next, Producer, Consumer, Exited

\* The histories: what is stored is the next item, and by RingInv the slot
\* read holds the next one too.
LEMMA HistoryStep ==
  ASSUME TypeOK, LoopInv, TokenInv, HistoryInv, RingInv, handlesOpen, [Next]_vars
  PROVE  HistoryInv'
<1> USE BoundedBufferAssumption DEF TypeOK, HistoryInv, Stored, Read, pvars, cvars
<1>1. CASE PStore
  BY <1>1 DEF PStore
<1>2. CASE PWait \/ PEnter \/ PLeave
  BY <1>2 DEF PWait, PEnter, PLeave
<1>3. CASE PRelease
  BY <1>3 DEF PRelease
<1>4. CASE CRead
  <2>1. g_Buffer[g_Out] = ci + 1
    <3>1. ci < pi /\ OutMoves = ci /\ cpc = "read"
      BY <1>4, RingBounds DEF CRead, OutMoves
    <3>2. g_Buffer[Wrap(g_Out + (ci + 1 - OutMoves - 1))] = ci + 1
      BY <3>1 DEF RingInv
    <3>3. g_Out + (ci + 1 - OutMoves - 1) = g_Out /\ Wrap(g_Out) = g_Out
      BY <3>1 DEF Slot, Wrap
    <3> QED BY <3>2, <3>3
  <2> QED BY <1>4, <2>1 DEF CRead
<1>5. CASE CWait \/ CEnter \/ CLeave
  BY <1>5 DEF CWait, CEnter, CLeave
<1>6. CASE CRelease
  BY <1>6 DEF CRelease
<1>7. CASE Main
  BY <1>7, MainFrame
<1>8. CASE UNCHANGED vars
  BY <1>8 DEF vars
<1> QED BY <1>1, <1>2, <1>3, <1>4, <1>5, <1>6, <1>7, <1>8
        DEF Next, Producer, Consumer, Exited

\* The ring: distinct items within BUFFER_SIZE of g_Out have distinct slots,
\* and both indices step on in the same way.
LEMMA RingStep ==
  ASSUME TypeOK, LoopInv, TokenInv, HistoryInv, RingInv, handlesOpen, [Next]_vars
  PROVE  RingInv'
<1> USE BoundedBufferAssumption
    DEF TypeOK, RingInv, InMoves, OutMoves, Stored, ring, pvars, cvars
<1>1. CASE PStore
  <2>1. /\ InMoves' = InMoves /\ OutMoves' = OutMoves
        /\ Stored' = Stored + 1 /\ InMoves = Stored
    BY <1>1 DEF PStore
  <2>2. Stored \in Nat /\ OutMoves \in Nat /\ OutMoves <= Stored
        /\ Stored < OutMoves + BUFFER_SIZE
    <3> HIDE DEF InMoves, OutMoves, Stored
    <3> QED BY <1>1, RingBounds DEF PStore
  <2>3. g_Buffer' = [g_Buffer EXCEPT ![g_In] = Stored + 1]
    BY <1>1 DEF PStore
  <2>4. g_In = Wrap(g_Out + (Stored - OutMoves)) /\ g_In \in Slot /\ g_Out \in Slot
    BY <2>1
  <2>5. ASSUME NEW k \in OutMoves + 1..Stored + 1
        PROVE  g_Buffer'[Wrap(g_Out + (k - OutMoves - 1))] = k
    <3> DEFINE w == Wrap(g_Out + (k - OutMoves - 1))
    <3> HIDE DEF InMoves, OutMoves, Stored
    <3>1. w \in Slot
      BY <2>2, <2>4 DEF Wrap, Slot
    <3>2. CASE k = Stored + 1
      <4>1. w = g_In
        BY <2>2, <2>4, <3>2
      <4> QED BY <2>3, <2>4, <3>2, <4>1
    <3>3. CASE k \in OutMoves + 1..Stored
      <4>1. w # g_In
        BY <2>2, <2>4, <3>3 DEF Wrap, Slot
      <4>2. g_Buffer[w] = k
        BY <3>3
      <4> QED BY <2>3, <3>1, <4>1, <4>2
    <3> QED BY <2>2, <3>2, <3>3
  <2>6. g_In' = g_In /\ g_Out' = g_Out
    BY <1>1 DEF PStore
  <2> HIDE DEF InMoves, OutMoves, Stored
  <2> QED BY <2>1, <2>4, <2>5, <2>6 DEF Wrap
<1>2. CASE PLeave
  <2>1. /\ InMoves' = InMoves + 1 /\ OutMoves' = OutMoves /\ Stored' = Stored
        /\ g_Buffer' = g_Buffer /\ g_Out' = g_Out /\ g_In' = NextSlot(g_In)
        /\ Stored = InMoves + 1
    BY <1>2 DEF PLeave
  <2>2. g_In' = Wrap(g_In + 1)
    BY <2>1, NextSlotWraps
  <2> HIDE DEF InMoves, OutMoves, Stored
  <2>3. InMoves \in Nat /\ OutMoves \in Nat /\ OutMoves <= InMoves
        /\ InMoves < OutMoves + BUFFER_SIZE
    BY <2>1, RingBounds
  <2>4. g_In' = Wrap(g_Out + (InMoves' - OutMoves'))
    BY <2>1, <2>2, <2>3 DEF Wrap, Slot
  <2> QED BY <2>1, <2>4 DEF Wrap
<1>3. CASE PWait \/ PEnter \/ PRelease
  <2>1. /\ InMoves' = InMoves /\ OutMoves' = OutMoves /\ Stored' = Stored
        /\ g_Buffer' = g_Buffer /\ g_In' = g_In /\ g_Out' = g_Out
    <3>1. CASE PWait \/ PEnter
      BY <3>1 DEF PWait, PEnter
    <3>2. CASE PRelease
      BY <3>2 DEF PRelease
    <3> QED BY <1>3, <3>1, <3>2
  <2> HIDE DEF InMoves, OutMoves, Stored
  <2> QED BY <2>1 DEF Wrap
<1>4. CASE CLeave
  <2>1. /\ InMoves' = InMoves /\ OutMoves' = OutMoves + 1 /\ Stored' = Stored
        /\ g_Buffer' = g_Buffer /\ g_In' = g_In /\ g_Out' = NextSlot(g_Out)
        /\ Read = OutMoves + 1
    BY <1>4 DEF CLeave, Read
  <2>2. g_Out' = Wrap(g_Out + 1) /\ g_Out' \in Slot
    BY <2>1, NextSlotWraps
  <2> HIDE DEF InMoves, OutMoves, Stored
  <2>3. InMoves \in Nat /\ OutMoves \in Nat /\ Stored \in Nat
        /\ OutMoves < InMoves /\ InMoves <= Stored
        /\ Stored <= OutMoves + BUFFER_SIZE
    BY <2>1, RingBounds
  <2>4. g_In' = Wrap(g_Out' + (InMoves' - OutMoves'))
    BY <2>1, <2>2, <2>3 DEF Wrap, Slot
  <2>5. ASSUME NEW k \in OutMoves' + 1..Stored'
        PROVE  g_Buffer'[Wrap(g_Out' + (k - OutMoves' - 1))] = k
    <3>1. k \in OutMoves + 1..Stored
      BY <2>1, <2>3
    <3>2. Wrap(g_Out' + (k - OutMoves' - 1)) = Wrap(g_Out + (k - OutMoves - 1))
      BY <2>1, <2>2, <2>3, <3>1 DEF Wrap, Slot
    <3> QED BY <2>1, <3>1, <3>2
  <2> QED BY <2>4, <2>5 DEF Wrap
<1>5. CASE CWait \/ CEnter \/ CRead \/ CRelease
  <2>1. /\ InMoves' = InMoves /\ OutMoves' = OutMoves /\ Stored' = Stored
        /\ g_Buffer' = g_Buffer /\ g_In' = g_In /\ g_Out' = g_Out
    <3>1. CASE CWait \/ CEnter \/ CRead
      BY <3>1 DEF CWait, CEnter, CRead
    <3>2. CASE CRelease
      BY <3>2 DEF CRelease
    <3> QED BY <1>5, <3>1, <3>2
  <2> HIDE DEF InMoves, OutMoves, Stored
  <2> QED BY <2>1 DEF Wrap
<1>6. CASE Main
  BY <1>6, MainFrame DEF Wrap
<1>7. CASE UNCHANGED vars
  BY <1>7 DEF vars, Wrap
<1> QED BY <1>1, <1>2, <1>3, <1>4, <1>5, <1>6, <1>7
        DEF Next, Producer, Consumer, Exited

\* The invariant is inductive.
LEMMA StepInv == IInv /\ [Next]_vars => IInv'
<1> SUFFICES ASSUME IInv, [Next]_vars PROVE IInv'
  OBVIOUS
<1>1. TypeOK' /\ LoopInv'
  BY TypeStep DEF IInv
<1>2. handlesOpen' => handlesOpen
  <2>1. CASE Main
    BY <2>1 DEF Main, CreateSemaphores, CreateProducer, CreateConsumer,
       JoinProducer, JoinConsumer, Cleanup, Exit
  <2>2. CASE Producer
    BY <2>2 DEF Producer, PWait, PEnter, PStore, PLeave, PRelease
  <2>3. CASE Consumer
    BY <2>3 DEF Consumer, CWait, CEnter, CRead, CLeave, CRelease
  <2> QED BY <2>1, <2>2, <2>3 DEF Next, Exited, vars
<1>3. ASSUME handlesOpen PROVE TokenInv' /\ HistoryInv' /\ RingInv'
  BY <1>3, TokenStep, HistoryStep, RingStep DEF IInv
<1> QED BY <1>1, <1>2, <1>3 DEF IInv

\* The strengthened invariant holds always.
THEOREM Invariance == Spec => []IInv
  BY InitInv, StepInv, PTL DEF Spec

\* Every variable stays in its set for every ring size and item count.
THEOREM TypeCorrect == Spec => []TypeOK
  BY Invariance, PTL DEF IInv

\* Tokens are neither lost nor made up.
THEOREM TokensAreConserved == Spec => []TokensConserved
<1>1. IInv => TokensConserved
  BY BoundedBufferAssumption
  DEF IInv, TypeOK, TokenInv, TokensConserved, ProducerHolds, ConsumerHolds
<1> QED BY <1>1, Invariance, PTL

\* The consumer gets what the producer stored, in order and once.
THEOREM TransferIsFaithful == Spec => []ConsumedAsProduced
<1>1. IInv => ConsumedAsProduced
  <2> SUFFICES ASSUME IInv, handlesOpen
               PROVE  /\ Len(consumed) <= Len(produced)
                      /\ \A k \in 1..Len(consumed) : consumed[k] = produced[k]
    BY DEF ConsumedAsProduced
  <2>1. Stored \in Nat /\ Read \in Nat /\ Read <= Stored
    <3>1. pi \in Nat
      BY DEF IInv, TypeOK
    <3> QED BY <3>1, RingBounds DEF IInv
  <2> QED BY <2>1 DEF IInv, HistoryInv
<1> QED BY <1>1, Invariance, PTL

\* BoundedBuffer implements FifoTransfer with the capacity of the ring, until
\* main closes the semaphores: a store is a Send, a read is a Receive, every
\* other step a stutter.
THEOREM ImplementsFifo == Spec => IsFifo
<1>1. Init => Fifo!Init
  BY DEF Init, Fifo!Init
<1>2. ASSUME IInv, [Next]_vars
      PROVE  [handlesOpen => Fifo!Next]_<<produced, consumed>>
  <2> SUFFICES ASSUME handlesOpen
               PROVE  Fifo!Next \/ UNCHANGED <<produced, consumed>>
    OBVIOUS
  <2> USE <1>2 DEF IInv
  <2>1. CASE PStore
    <3>1. pi + 1 \in Item
      BY <2>1, BoundedBufferAssumption DEF PStore, TypeOK, LoopInv, InLoop, Item
    <3>2. Len(produced) - Len(consumed) < BUFFER_SIZE
      <4>1. Stored \in Nat /\ Read \in Nat /\ ci \in Nat /\ ci <= Read
            /\ Stored < ci + BUFFER_SIZE
        BY <2>1, RingBounds DEF PStore, TypeOK
      <4> QED BY <4>1, BoundedBufferAssumption DEF HistoryInv
    <3>3. produced' = Append(produced, pi + 1) /\ UNCHANGED consumed
      BY <2>1 DEF PStore
    <3> QED BY <3>1, <3>2, <3>3 DEF Fifo!Next, Fifo!Send
  <2>2. CASE CRead
    <3>1. consumed' = Append(consumed, g_Buffer[g_Out]) /\ UNCHANGED produced
      BY <2>2 DEF CRead
    <3>2. Len(consumed) = ci /\ Read = ci /\ cpc = "read"
      <4>1. cpc = "read" /\ Read = ci
        BY <2>2 DEF CRead, Read, TypeOK
      <4> QED BY <4>1 DEF HistoryInv
    <3>3. ci < Stored /\ ci \in Nat /\ Stored \in Nat
      BY <3>2, RingBounds DEF TypeOK
    <3>4. HistoryInv'
      BY HistoryStep
    <3>5. consumed'[ci + 1] = ci + 1
      <4>1. Read' = ci + 1
        BY <2>2 DEF CRead, Read
      <4> QED BY <3>3, <3>4, <4>1 DEF HistoryInv
    <3>6. g_Buffer[g_Out] = produced[ci + 1]
      <4>1. consumed'[ci + 1] = g_Buffer[g_Out]
        BY <3>1, <3>2 DEF TypeOK
      <4>2. produced[ci + 1] = ci + 1
        BY <3>3 DEF HistoryInv
      <4> QED BY <3>5, <4>1, <4>2
    <3>7. Len(consumed) < Len(produced)
      BY <3>2, <3>3 DEF HistoryInv
    <3> QED BY <3>1, <3>2, <3>6, <3>7 DEF Fifo!Next, Fifo!Receive
  <2>3. CASE PWait \/ PEnter \/ PLeave \/ PRelease
    BY <2>3 DEF PWait, PEnter, PLeave, PRelease
  <2>4. CASE CWait \/ CEnter \/ CLeave \/ CRelease
    BY <2>4 DEF CWait, CEnter, CLeave, CRelease
  <2>5. CASE Main
    BY <2>5, MainFrame
  <2>6. CASE UNCHANGED vars
    BY <2>6 DEF vars
  <2> QED BY <2>1, <2>2, <2>3, <2>4, <2>5, <2>6 DEF Next, Producer, Consumer, Exited
<1> QED BY <1>1, <1>2, Invariance, PTL DEF Spec, IsFifo
=============================================================================
