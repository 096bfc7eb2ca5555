------------------------------- MODULE RioLink -------------------------------
(***************************************************************************)
(* Two rio_cm nodes joined by their control messages.  Node A's channels  *)
(* (ReqChans) connect to node B's listening channel lb; each accept on B   *)
(* creates one of the channels AccChans; either user closes its channels.  *)
(* Each node's side is the code of riocm_ch_connect, riocm_ch_accept,      *)
(* cm_chan_close/riocm_ch_close and rio_cm_handler's three handlers, cut   *)
(* where the code drops a lock or sleeps.                                  *)
(*                                                                         *)
(* net[n] is what is on its way to node n, oldest first: the TX ring and   *)
(* its tx_reqs list keep control messages in order (RioTx's ControlFifo),  *)
(* the inbound mailbox and the RX tasklet do too, and riocm_wq is a        *)
(* single-threaded work queue.  A control message is lost when a          *)
(* GFP_ATOMIC allocation fails: the tx_req of riocm_post_send on a full    *)
(* ring, or the work item of rio_ibmsg_handler.  At most MaxLoss fail, and *)
(* dropped records the messages lost.  Reference counts and the 3 s       *)
(* completion wait are RioChannel's; lb itself is never closed here.       *)
(***************************************************************************)
EXTENDS Naturals, Sequences, FiniteSets

CONSTANTS
    ReqChans,  \* node A's channels, created IDLE by cm_chan_create
    AccChans,  \* the ids riocm_ch_alloc may give B's accepted channels
    MaxLoss    \* bound on failing GFP_ATOMIC allocations

ASSUME ReqChans \cap AccChans = {} /\ "lb" \notin ReqChans \cup AccChans
ASSUME MaxLoss \in Nat

Nodes == {"A", "B"}
Chans == ReqChans \cup AccChans
NodeOf(c) == IF c \in ReqChans THEN "A" ELSE "B"
Msgs == [op : {"CONN_REQ", "CONN_ACK", "CONN_CLOSE"},
         dst : Chans \cup {"lb"}, src : Chans]

VARIABLES
    st,       \* st[c]: ch->state; "NONE" before riocm_ch_alloc
    idr,      \* the channels published in ch_idr
    remCh,    \* remCh[c]: ch->rem_channel
    acceptq,  \* lb's accept_queue: requester channels, oldest first
    net,      \* net[n]: control messages on their way to node n
    pcA,      \* pcA[c]: the thread of node A in riocm_ch_connect for c
    pcB,      \* B's thread in riocm_ch_accept
    wqAck,    \* the CONN_ACK A's riocm_wq has checked and not yet applied, or {}
    dropped,  \* control messages lost to a failed allocation
    losses    \* failed allocations so far

vars == <<st, idr, remCh, acceptq, net, pcA, pcB, wqAck, dropped, losses>>

\* A's channels were made by cm_chan_create (IDLE); lb is listening.
Init ==
    /\ st = [c \in Chans |-> IF c \in ReqChans THEN "IDLE" ELSE "NONE"]
    /\ idr = ReqChans
    /\ remCh = [c \in Chans |-> "none"]
    /\ acceptq = <<>>
    /\ net = [n \in Nodes |-> <<>>]
    /\ pcA = [c \in ReqChans |-> "idle"] /\ pcB = "idle" /\ wqAck = {}
    /\ dropped = {} /\ losses = 0

(***************************************************************************)
(* riocm_post_send of a control header (req = 1): queued in order (-EBUSY *)
(* puts it on tx_reqs, sent when the ring drains), or lost when the ring   *)
(* is full and the tx_req kzalloc fails (-ENOMEM).                         *)
(***************************************************************************)
Lost(m) == losses < MaxLoss /\ losses' = losses + 1 /\ dropped' = dropped \cup {m}

PostCtl(m) ==
    \/ net' = [net EXCEPT ![NodeOf(m.dst)] = Append(@, m)]
       /\ UNCHANGED <<dropped, losses>>
    \/ Lost(m) /\ UNCHANGED net

\* Mutant of SendClose: posted with req = 0, so a full ring returns -EBUSY
\* without queueing a tx_req and the CONN_CLOSE is silently not sent.
SendClose_NoReq(c) ==
    \/ PostCtl([op |-> "CONN_CLOSE", dst |-> remCh[c], src |-> c])
    \/ UNCHANGED <<net, dropped, losses>>

\* riocm_send_close: a CONN_CLOSE to the remote channel (req = 1).
SendClose(c) == PostCtl([op |-> "CONN_CLOSE", dst |-> remCh[c], src |-> c])

\* riocm_ch_close(ch): exchange to DESTROYING, CONN_CLOSE only if the
\* channel was CONNECTED, wake_up_all (the waiter sees the state change).
ChClose(c, old) ==
    /\ st' = [st EXCEPT ![c] = "DESTROYING"]
    /\ IF old = "CONNECTED" THEN SendClose(c)
                            ELSE UNCHANGED <<net, dropped, losses>>

-----------------------------------------------------------------------------
(* riocm_ch_connect for channel c of node A.                              *)

\* The IDLE -> CONNECT exchange and the channel fields; rem_channel is the
\* listener's id until the CONN_ACK names the new channel.
ConnectStart(c) ==
    /\ pcA[c] = "idle" /\ c \in idr /\ st[c] = "IDLE"
    /\ st' = [st EXCEPT ![c] = "CONNECT"]
    /\ remCh' = [remCh EXCEPT ![c] = "lb"]
    /\ pcA' = [pcA EXCEPT ![c] = "post"]
    /\ UNCHANGED <<idr, acceptq, net, pcB, dropped, losses, wqAck>>

\* riocm_post_send of the CONN_REQ: 0 or -EBUSY go on to wait; -ENOMEM
\* exchanges CONNECT -> IDLE back and returns.
ConnectPost(c) ==
    /\ pcA[c] = "post"
    /\ \/ /\ net' = [net EXCEPT !["B"] = Append(@, [op |-> "CONN_REQ",
                                                     dst |-> "lb", src |-> c])]
          /\ pcA' = [pcA EXCEPT ![c] = "lock"]
          /\ UNCHANGED <<st, losses>>
       \/ /\ losses < MaxLoss /\ losses' = losses + 1
          /\ st' = IF st[c] = "CONNECT" THEN [st EXCEPT ![c] = "IDLE"] ELSE st
          /\ pcA' = [pcA EXCEPT ![c] = "idle"]
          /\ UNCHANGED net
    /\ UNCHANGED <<idr, remCh, acceptq, pcB, dropped, wqAck>>

\* Under ch->lock: wait only while still CONNECT.
ConnectLock(c) ==
    /\ pcA[c] = "lock"
    /\ pcA' = [pcA EXCEPT ![c] = IF st[c] = "CONNECT" THEN "wait" ELSE "idle"]
    /\ UNCHANGED <<st, idr, remCh, acceptq, net, pcB, dropped, losses, wqAck>>

\* riocm_wait_for_connect_resp returns on a signal (-EINTR), on a state
\* change (0, then -1 unless CONNECTED) or when RIOCM_CONNECT_TO expires
\* (-ETIME); none of these changes the state, so a timed-out channel stays
\* CONNECT.
ConnectWait(c) ==
    /\ pcA[c] = "wait"
    /\ pcA' = [pcA EXCEPT ![c] = "idle"]
    /\ UNCHANGED <<st, idr, remCh, acceptq, net, pcB, dropped, losses, wqAck>>

-----------------------------------------------------------------------------
(* riocm_ch_accept on node B, while AccChans has an unused id.            *)

\* A blocking accept: take a queued request at once, else sleep.
AcceptStart ==
    /\ pcB = "idle" /\ \E nb \in AccChans : st[nb] = "NONE"
    /\ pcB' = IF acceptq = <<>> THEN "wait" ELSE "take"
    /\ UNCHANGED <<st, idr, remCh, acceptq, net, pcA, dropped, losses, wqAck>>

\* riocm_wait_for_connect_req: a signal (-EINTR) or the timeout (-ETIME,
\* checked after the queue) returns; a queued request is taken.
AcceptWait ==
    /\ pcB = "wait"
    /\ \/ pcB' = "idle"
       \/ acceptq # <<>> /\ pcB' = "take"
    /\ UNCHANGED <<st, idr, remCh, acceptq, net, pcA, dropped, losses, wqAck>>

\* The first request is taken, riocm_ch_alloc publishes a new channel, its
\* fields come from the request, it is CONNECTED, and riocm_send_ack's
\* result is ignored: a lost CONN_ACK still returns the new channel.
AcceptTake ==
    LET r == Head(acceptq) IN
    /\ pcB = "take"
    /\ \E nb \in AccChans :
         /\ st[nb] = "NONE"
         /\ idr' = idr \cup {nb}
         /\ remCh' = [remCh EXCEPT ![nb] = r]
         /\ st' = [st EXCEPT ![nb] = "CONNECTED"]
         /\ PostCtl([op |-> "CONN_ACK", dst |-> r, src |-> nb])
    /\ acceptq' = Tail(acceptq)
    /\ pcB' = "idle"
    /\ UNCHANGED <<pcA, wqAck>>

-----------------------------------------------------------------------------
(* Closing by a user: cm_chan_close removes the id, then riocm_ch_close.  *)
ChanClose(c) ==
    /\ c \in idr
    /\ idr' = idr \ {c}
    /\ ChClose(c, st[c])
    /\ UNCHANGED <<remCh, acceptq, pcA, pcB, wqAck>>

-----------------------------------------------------------------------------
(* The inbound path of node n: rio_ibmsg_handler takes the oldest message *)
(* and queues a work item (lost when its kzalloc fails); rio_cm_handler    *)
(* dispatches on ch_op.                                                    *)

\* riocm_req_handler: lb is LISTEN, the request joins its accept_queue.
ReqHandler(m) ==
    /\ acceptq' = Append(acceptq, m.src)
    /\ UNCHANGED <<st, idr, remCh, dropped, losses, wqAck>>

\* riocm_resp_handler up to line 426: riocm_get_channel finds the channel
\* and its state is CONNECT, read without ch->lock; the work item then
\* holds the message.  Otherwise it returns -ENODEV or -EINVAL.
RespHandler(m) ==
    /\ wqAck' = IF m.dst \in idr /\ st[m.dst] = "CONNECT" THEN {m} ELSE {}
    /\ UNCHANGED <<st, idr, remCh, acceptq, dropped, losses>>

\* Mutant of RespExch: rem_channel taken from dst_ch instead of src_ch.
RespExch_DstCh ==
    \E m \in wqAck :
        /\ st' = [st EXCEPT ![m.dst] = "CONNECTED"]
        /\ remCh' = [remCh EXCEPT ![m.dst] = m.dst]
        /\ wqAck' = {}
        /\ UNCHANGED <<idr, acceptq, net, pcA, pcB, dropped, losses>>

\* The rest of riocm_resp_handler: riocm_exch to CONNECTED whatever the state
\* is now (a close may have made it DESTROYING since the check), the
\* acceptor's channel as rem_channel, wake_up, put.
RespExch ==
    \E m \in wqAck :
        /\ st' = [st EXCEPT ![m.dst] = "CONNECTED"]
        /\ remCh' = [remCh EXCEPT ![m.dst] = m.src]
        /\ wqAck' = {}
        /\ UNCHANGED <<idr, acceptq, net, pcA, pcB, dropped, losses>>

\* riocm_close_handler: idr_find and idr_remove, DISCONNECT, then
\* riocm_ch_close, which sends nothing back.
CloseHandler(m) ==
    /\ IF m.dst \in idr
       THEN /\ idr' = idr \ {m.dst}
            /\ st' = [st EXCEPT ![m.dst] = "DESTROYING"]
       ELSE UNCHANGED <<idr, st>>
    /\ UNCHANGED <<remCh, acceptq, dropped, losses, wqAck>>

rio_cm_handler(m) ==
    CASE m.op = "CONN_REQ" -> ReqHandler(m)
      [] m.op = "CONN_ACK" -> RespHandler(m)
      [] m.op = "CONN_CLOSE" -> CloseHandler(m)

\* riocm_wq is single-threaded: A's next item waits for the CONN_ACK held.
Receive(n) ==
    LET m == Head(net[n]) IN
    /\ net[n] # <<>> /\ (n = "A" => wqAck = {})
    /\ net' = [net EXCEPT ![n] = Tail(@)]
    /\ \/ rio_cm_handler(m)
       \/ Lost(m) /\ UNCHANGED <<st, idr, remCh, acceptq, wqAck>>
    /\ UNCHANGED <<pcA, pcB>>

Next ==
    \/ \E c \in ReqChans :
          ConnectStart(c) \/ ConnectPost(c) \/ ConnectLock(c) \/ ConnectWait(c)
    \/ AcceptStart \/ AcceptWait \/ AcceptTake
    \/ \E c \in Chans : ChanClose(c)
    \/ \E n \in Nodes : Receive(n)
    \/ RespExch

\* The RX tasklet and riocm_wq run what is queued.
Spec == Init /\ [][Next]_vars
        /\ \A n \in Nodes : WF_vars(Receive(n)) /\ WF_vars(RespExch)

-----------------------------------------------------------------------------
TypeOK ==
    /\ st \in [Chans -> {"NONE", "IDLE", "CONNECT", "CONNECTED", "DISCONNECT",
                         "DESTROYING"}]
    /\ idr \subseteq Chans
    \* rem_channel names a channel of the other node
    /\ \A c \in ReqChans : remCh[c] \in {"none", "lb"} \cup AccChans
    /\ \A c \in AccChans : remCh[c] \in {"none"} \cup ReqChans
    /\ acceptq \in Seq(ReqChans)
    /\ net \in [Nodes -> Seq(Msgs)]
    /\ pcA \in [ReqChans -> {"idle", "post", "lock", "wait"}]
    /\ pcB \in {"idle", "wait", "take"}
    /\ wqAck \subseteq Msgs /\ Cardinality(wqAck) <= 1
    /\ dropped \subseteq Msgs /\ losses \in 0 .. MaxLoss

(***************************************************************************)
(* The refinement mapping, per requester channel c: its state as its user *)
(* sees it, the state of the channel B accepted for it, a CONN_CLOSE on   *)
(* its way between the two as a notice, and their lost CONN_CLOSEs.       *)
(***************************************************************************)
Partner(c) == {nb \in AccChans : st[nb] # "NONE" /\ remCh[nb] = c}

\* A channel out of ch_idr is closed to its user: every ioctl on its id fails
\* in riocm_get_channel, whatever state a late handler writes into it.
ReqView(c) == CASE c \notin idr -> "closed"
                [] st[c] = "IDLE" -> "idle"
                [] st[c] = "CONNECT" -> "connecting"
                [] st[c] = "CONNECTED" -> "open"
                [] OTHER -> "closed"

AccView(c) == IF Partner(c) = {} THEN "none"
              ELSE IF \E nb \in Partner(c) : st[nb] = "CONNECTED" THEN "open"
              ELSE "closed"

IsClose(m, from, to) == m.op = "CONN_CLOSE" /\ m.src \in from /\ m.dst = to

InFlight(n, from, to) == \E i \in 1 .. Len(net[n]) : IsClose(net[n][i], from, to)

NoticeView(c) ==
    { n \in {"toReq", "toAcc"} :
        IF n = "toReq" THEN InFlight("A", Partner(c), c)
                       ELSE \E nb \in Partner(c) : InFlight("B", {c}, nb) }

LostView(c) == Cardinality({m \in dropped : \/ IsClose(m, Partner(c), c)
                                             \/ IsClose(m, {c}, remCh[c])})

SessionVars(c) == <<ReqView(c), AccView(c), NoticeView(c), LostView(c)>>

Session(c) == INSTANCE RioSession
    WITH req <- ReqView(c), acc <- AccView(c),
         notice <- NoticeView(c), lostN <- LostView(c)

(***************************************************************************)
(* Every connection implements the session contract: a requester is       *)
(* CONNECTED only after B's accept created a channel for it, and by the   *)
(* CONN_ACK of that very channel (riocm_resp_handler's checks, against a  *)
(* CONN_ACK that may arrive after a timeout, a close or another           *)
(* connection's traffic); a channel closed while CONNECTED sends its peer *)
(* a CONN_CLOSE that closes it (riocm_ch_close, riocm_close_handler)       *)
(* unless an allocation failure loses it; and every such close eventually *)
(* reaches the peer.                                                       *)
(***************************************************************************)
\* Session(c)!Spec for every c, with the [] taken outside the quantifier.
SessionRefinement ==
    /\ \A c \in ReqChans : Session(c)!Init
    /\ [][\A c \in ReqChans : Session(c)!Next \/ UNCHANGED SessionVars(c)]_vars
    /\ \A c \in ReqChans : /\ Session(c)!DeliverFair("toReq")
                           /\ Session(c)!DeliverFair("toAcc")

(***************************************************************************)
(* An accepted channel whose requester has closed is eventually closed    *)
(* too: otherwise it stays CONNECTED with nobody at the other end.        *)
(***************************************************************************)
HalfOpenResolved ==
    \A nb \in AccChans :
        (st[nb] = "CONNECTED" /\ remCh[nb] \notin idr) ~> st[nb] # "CONNECTED"

=============================================================================
