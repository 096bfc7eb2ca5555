------------------------------ MODULE RioSession ------------------------------
(***************************************************************************)
(* What one rio_cm connection promises its two users, the requester (the  *)
(* channel that called connect) and the acceptor (the channel accept       *)
(* created for it), with the wire, the work queues and the threads         *)
(* abstracted away.                                                        *)
(*                                                                         *)
(* - The requester side is open only once the acceptor side has been       *)
(*   opened for it.                                                        *)
(* - A side closed while open sends the other a close notice; a notice is  *)
(*   delivered (closing the other side) unless it is lost, and every loss  *)
(*   is counted.                                                           *)
(* - Nothing more: an acceptor opened after its requester gave up stays    *)
(*   open (half-open), and a requester may stay connecting forever.        *)
(***************************************************************************)
EXTENDS Naturals

VARIABLES
    req,     \* the requester: "idle", "connecting", "open" or "closed"
    acc,     \* the acceptor: "none", "open" or "closed"
    notice,  \* close notices in flight: a subset of {"toReq", "toAcc"}
    lostN    \* close notices lost so far

vars == <<req, acc, notice, lostN>>

Init == req = "idle" /\ acc = "none" /\ notice = {} /\ lostN = 0

Connect == req = "idle" /\ req' = "connecting" /\ UNCHANGED <<acc, notice, lostN>>

\* The request never left the requester.
Abort == req = "connecting" /\ req' = "idle" /\ UNCHANGED <<acc, notice, lostN>>

\* The acceptor is opened for a requester that asked, whatever it does now.
Accept ==
    /\ acc = "none" /\ req # "idle"
    /\ acc' = "open"
    /\ UNCHANGED <<req, notice, lostN>>

Establish ==
    /\ req = "connecting" /\ acc # "none"
    /\ req' = "open"
    /\ UNCHANGED <<acc, notice, lostN>>

\* A side closing while open notifies the other, or loses the notice.
Notify(n) == \/ notice' = notice \cup {n} /\ UNCHANGED lostN
             \/ lostN' = lostN + 1 /\ UNCHANGED notice

CloseReq ==
    /\ req # "closed"
    /\ req' = "closed"
    /\ IF req = "open" THEN Notify("toAcc") ELSE UNCHANGED <<notice, lostN>>
    /\ UNCHANGED acc

CloseAcc ==
    /\ acc = "open"
    /\ acc' = "closed"
    /\ Notify("toReq")
    /\ UNCHANGED req

Deliver(n) ==
    /\ n \in notice
    /\ notice' = notice \ {n}
    /\ IF n = "toAcc"
       THEN /\ acc' = IF acc = "open" THEN "closed" ELSE acc
            /\ UNCHANGED req
       ELSE /\ req' = IF req \in {"connecting", "open"} THEN "closed" ELSE req
            /\ UNCHANGED acc
    /\ UNCHANGED lostN

Lose(n) ==
    /\ n \in notice
    /\ notice' = notice \ {n} /\ lostN' = lostN + 1
    /\ UNCHANGED <<req, acc>>

Next ==
    \/ Connect \/ Abort \/ Accept \/ Establish \/ CloseReq \/ CloseAcc
    \/ \E n \in {"toReq", "toAcc"} : Deliver(n) \/ Lose(n)

\* Weak fairness of Deliver(n), written out: Deliver(n) is enabled exactly
\* when n \in notice, since its other conjuncts only assign.
DeliverFair(n) == <>[](n \in notice) => []<><<Deliver(n)>>_vars

\* A notice in flight is eventually delivered or lost.
Spec == Init /\ [][Next]_vars /\ DeliverFair("toReq") /\ DeliverFair("toAcc")

=============================================================================
