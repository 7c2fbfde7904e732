---------------------------- MODULE FifoTransfer ----------------------------
(***************************************************************************)
(* What a hand-over buffer between one producer and one consumer promises: *)
(* every item received was sent, in the order of sending, once, and no     *)
(* more than Capacity items are between the two ends.  BoundedBuffer and   *)
(* AsyncCopy are shown to implement it.                                    *)
(***************************************************************************)
EXTENDS Naturals, Sequences

CONSTANTS Item,      \* what may be sent
          Capacity   \* a number: the most items sent and not yet received

VARIABLES sent, received

Init == sent = <<>> /\ received = <<>>

Send == /\ Len(sent) - Len(received) < Capacity
        /\ \E x \in Item : sent' = Append(sent, x)
        /\ UNCHANGED received

Receive == /\ Len(received) < Len(sent)
           /\ received' = Append(received, sent[Len(received) + 1])
           /\ UNCHANGED sent

Next == Send \/ Receive

Spec == Init /\ [][Next]_<<sent, received>>
=============================================================================
