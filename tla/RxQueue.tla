------------------------------- MODULE RxQueue -------------------------------
(***************************************************************************)
(* What a channel's receive ring promises its readers (spec.md, section    *)
(* 4.5), with no indices, no lock and no wait queue: a bounded FIFO of     *)
(* data messages.  While the channel is open a message may join the tail   *)
(* if the queue is not full.  A reader takes the message at the head, open *)
(* or not.  Once the channel has been shut, the messages still queued may  *)
(* be discarded.  Messages the ring refuses (full, or not open) never     *)
(* enter the queue, so they are not steps of this specification.           *)
(*                                                                         *)
(* RioRxRing implements this specification: RioRxRing!RxQueueRefinement   *)
(* is its Spec under a refinement mapping.                                 *)
(***************************************************************************)
EXTENDS Naturals, Sequences

CONSTANTS
    Msgs,       \* data messages
    Capacity    \* RIOCM_RX_RING_SIZE

VARIABLES
    q,          \* messages queued, oldest first
    delivered,  \* messages handed to readers, in the order they were taken
    open        \* the channel still accepts data

vars == <<q, delivered, open>>

Init == q = <<>> /\ delivered = <<>> /\ open = TRUE

\* A data message for the channel is queued.
Enqueue(m) ==
    /\ open
    /\ Len(q) < Capacity
    /\ q' = Append(q, m)
    /\ UNCHANGED <<delivered, open>>

\* A reader takes the oldest queued message.
Dequeue ==
    /\ q # <<>>
    /\ delivered' = Append(delivered, Head(q))
    /\ q' = Tail(q)
    /\ UNCHANGED open

\* The channel leaves the connected state.
Shut ==
    /\ open
    /\ open' = FALSE
    /\ UNCHANGED <<q, delivered>>

\* The channel object is destroyed with messages still queued.
Discard ==
    /\ ~open
    /\ q' = <<>>
    /\ UNCHANGED <<delivered, open>>

Next == (\E m \in Msgs : Enqueue(m)) \/ Dequeue \/ Shut \/ Discard

Spec == Init /\ [][Next]_vars

================================================================================
