----------------------------- MODULE BrokerRelay ----------------------------
(***************************************************************************)
(* The refinement of PickRelay by Broker: the line is the pick in the      *)
(* hands of the pick processor, then the input queue; what is remembered   *)
(* is what the table holds.                                                *)
(***************************************************************************)
EXTENDS Broker

InHand == IF processor \in {"popped", "stamped"} THEN <<item.pick>> ELSE <<>>

Relay == INSTANCE PickRelay WITH
    Capacity <- QueueCapacity,
    up <- running,
    pending <- InHand \o mInputQueue,
    known <- { i.pick : i \in database },
    lost <- metrics.overflow,
    faults <- outcome.failed

\* The pipeline takes picks in the order in which it accepted them, stores none
\* that was not accepted or that it remembers, counts every pick that it drops,
\* and at a crash loses no more of them, though their publishers were told that
\* they were taken, than the queue holds and one; and the line moves.
ImplementsRelay == Relay!Spec
=============================================================================
