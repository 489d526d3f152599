----------------------------- MODULE BoundedFifo -----------------------------
(***************************************************************************)
(* What a bounded single-producer single-consumer queue promises: the      *)
(* consumer receives exactly what the producer sent, in the order it was   *)
(* sent, and at most Cap items are in flight.  The state is the two        *)
(* histories seen by the two ends.                                         *)
(***************************************************************************)
EXTENDS Naturals, Sequences

CONSTANTS
    Item,   \* what may be queued
    Cap     \* how many items may be in flight

VARIABLES
    sent,   \* the items the producer was told are queued
    rcvd    \* the items handed to the consumer

fifoVars == <<sent, rcvd>>

FifoInit == sent = <<>> /\ rcvd = <<>>

Send(x) ==
    /\ Len(sent) - Len(rcvd) < Cap
    /\ sent' = Append(sent, x)
    /\ UNCHANGED rcvd

Receive ==
    /\ Len(rcvd) < Len(sent)
    /\ rcvd' = Append(rcvd, sent[Len(rcvd) + 1])
    /\ UNCHANGED sent

FifoNext == Receive \/ \E x \in Item : Send(x)

FifoSpec == FifoInit /\ [][FifoNext]_fifoVars
=============================================================================
