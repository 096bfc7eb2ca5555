-------------------------------- MODULE RioTx --------------------------------
(***************************************************************************)
(* The outbound path of one cm_dev (src/rio_cm.c): the TX ring tx_buf[]    *)
(* with its cursors tx_slot / tx_ack_slot and counter tx_cnt, the deferred *)
(* request list tx_reqs, riocm_post_send() and the completion handler      *)
(* rio_txcq_handler() run from the transport's outbound interrupt.         *)
(*                                                                         *)
(* The transport (the mport driver behind rio_add_outb_message) is modelled *)
(* as a FIFO hw of the messages it accepted and has not completed, and the *)
(* index hwTail of its oldest descriptor.  When it completes k messages it *)
(* calls the completion callback with slot = the index after the last one  *)
(* completed; k > 1 is a coalesced interrupt.                              *)
(*                                                                         *)
(* Every call of riocm_post_send is one message, numbered by its position  *)
(* in msgs; the payload itself is abstracted away.                         *)
(***************************************************************************)
EXTENDS Naturals, Sequences, SequencesExt

CONSTANTS
    TxRingSize,        \* RIOCM_TX_RING_SIZE (128 in the code)
    MaxPosts,          \* bound on the number of riocm_post_send calls
    TransportRejects,  \* whether a DATA message may be refused by the transport
    MaxTxReqFail       \* bound on failing GFP_ATOMIC tx_req allocations

ASSUME /\ TxRingSize \in Nat \ {0}
       \* the code advances the cursors with "& (RIOCM_TX_RING_SIZE - 1)"
       /\ \E e \in 0..TxRingSize : 2^e = TxRingSize
       /\ MaxPosts \in Nat
       /\ TransportRejects \in BOOLEAN
       /\ MaxTxReqFail \in Nat

Slots == 0 .. TxRingSize - 1

\* Message ids are 1..MaxPosts; 0 stands for a NULL tx_buf[] entry.
NoBuf == 0
MsgIds == 1 .. MaxPosts

\* The callers of riocm_post_send: riocm_ch_send (DATA, req = 0),
\* riocm_ch_connect (CONN_REQ), riocm_send_ack (CONN_ACK) and
\* riocm_send_close (CONN_CLOSE), all three with req = 1.
Ops == {"DATA", "CONN_REQ", "CONN_ACK", "CONN_CLOSE"}
IsControl(op) == op # "DATA"

\* Where the buffer handed to riocm_post_send lives: connect and send_ack
\* pass the address of a header on their own stack, send_close a kzalloc'ed
\* header, and cm_chan_msg_send a kmalloc'ed data buffer.
BufOrigin(op) == IF op \in {"CONN_REQ", "CONN_ACK"} THEN "stack" ELSE "heap"

VARIABLES
    txBuf,    \* cm->tx_buf[]: message id tracked in each slot, or NoBuf
    txSlot,   \* cm->tx_slot: next slot to fill
    txAck,    \* cm->tx_ack_slot: oldest slot not yet acknowledged
    txCnt,    \* cm->tx_cnt: number of outstanding slots
    txReqs,   \* cm->tx_reqs: ids of deferred control messages, list order
    hw,       \* transport: ids accepted and not yet completed, oldest first
    hwTail,   \* transport: descriptor index of the oldest of hw
    sent,     \* ids accepted by the transport, in the order it accepted them
    msgs,     \* msgs[i]: the i-th riocm_post_send call: op and return code
    frees,    \* frees[i]: how often the buffer of message i was kfree'd
    reqFails  \* failed tx_req allocations so far

cm == <<txBuf, txSlot, txAck, txCnt, txReqs>>
vars == <<txBuf, txSlot, txAck, txCnt, txReqs, hw, hwTail, sent, msgs, frees,
          reqFails>>

Init ==
    /\ txBuf = [s \in Slots |-> NoBuf]
    /\ txSlot = 0
    /\ txAck = 0
    /\ txCnt = 0
    /\ txReqs = <<>>
    /\ hw = <<>>
    /\ hwTail = 0
    /\ sent = <<>>
    /\ msgs = <<>>
    /\ frees = [i \in MsgIds |-> 0]
    /\ reqFails = 0

Next1(s) == (s + 1) % TxRingSize

(***************************************************************************)
(* rio_add_outb_message: the transport takes a copy of the message into    *)
(* its own descriptor ring, or refuses it (for a DATA message whose length *)
(* the driver rejects).  accepted is the outcome.                          *)
(***************************************************************************)
AddOutb(m, accepted) ==
    IF accepted THEN /\ hw' = Append(hw, m)
                     /\ sent' = Append(sent, m)
                ELSE UNCHANGED <<hw, sent>>

(***************************************************************************)
(* riocm_post_send(cm, rdev, buffer, len, req) called for a message op.    *)
(* Ring full: a control message (req = 1) is appended to tx_reqs, and the  *)
(* call returns -EBUSY either way.  Otherwise the buffer is recorded at    *)
(* tx_slot, handed to the transport, and tx_cnt / tx_slot advance whatever *)
(* rio_add_outb_message returned.                                          *)
(***************************************************************************)
\* Mutant of DeferReq: list_add instead of list_add_tail.
DeferReq_AtHead(op, m) == IF IsControl(op) THEN <<m>> \o txReqs ELSE txReqs

\* The tx_req allocation of the full-ring branch: only control messages
\* (req = 1) are queued, at the tail of cm->tx_reqs.
DeferReq(op, m) == IF IsControl(op) THEN Append(txReqs, m) ELSE txReqs

\* A control message's tx_req kzalloc(GFP_ATOMIC) may fail (-ENOMEM): the
\* message is neither deferred nor sent.
PostSendFull(op, m) ==
    /\ txCnt = TxRingSize
    /\ \/ /\ txReqs' = DeferReq(op, m)
          /\ msgs' = Append(msgs, [op |-> op, rc |-> "EBUSY"])
          /\ UNCHANGED reqFails
       \/ /\ IsControl(op) /\ reqFails < MaxTxReqFail
          /\ reqFails' = reqFails + 1
          /\ msgs' = Append(msgs, [op |-> op, rc |-> "ENOMEM"])
          /\ UNCHANGED txReqs
    /\ UNCHANGED <<txBuf, txSlot, txAck, txCnt, hw, hwTail, sent>>

\* Mutant of PostSendRing: the ring-full test off by one (tx_cnt > size).
PostSendRing_OffByOne(op, m) ==
    /\ txCnt <= TxRingSize
    /\ msgs' = Append(msgs, [op |-> op, rc |-> "OK"])
    /\ AddOutb(m, TRUE)
    /\ txBuf' = [txBuf EXCEPT ![txSlot] = m]
    /\ txCnt' = txCnt + 1
    /\ txSlot' = Next1(txSlot)
    /\ UNCHANGED <<txAck, txReqs, hwTail, reqFails>>

PostSendRing(op, m) ==
    /\ txCnt < TxRingSize
    /\ \E accepted \in IF TransportRejects /\ ~IsControl(op)
                       THEN BOOLEAN ELSE {TRUE} :
         /\ AddOutb(m, accepted)
         /\ msgs' = Append(msgs, [op |-> op,
                                  rc |-> IF accepted THEN "OK" ELSE "EINVAL"])
    /\ txBuf' = [txBuf EXCEPT ![txSlot] = m]
    /\ txCnt' = txCnt + 1
    /\ txSlot' = Next1(txSlot)
    /\ UNCHANGED <<txAck, txReqs, hwTail, reqFails>>

riocm_post_send(op, m) == PostSendFull(op, m) \/ PostSendRing(op, m)

(***************************************************************************)
(* The callers of riocm_post_send, each with what it does with the buffer  *)
(* once the call returns.  The checks before the call (channel lookup,     *)
(* CONNECTED state, argument checks) return without touching the engine.  *)
(***************************************************************************)
NewPost(op) == Len(msgs) < MaxPosts /\ riocm_post_send(op, Len(msgs) + 1)

\* riocm_ch_send: the caller's buffer posted with req = 0.
riocm_ch_send == NewPost("DATA")

\* cm_chan_msg_send: the user data is copied into a kmalloc'ed buffer,
\* handed to riocm_ch_send and kfree'd whatever the result.
cm_chan_msg_send ==
    /\ riocm_ch_send
    /\ frees' = [frees EXCEPT ![Len(msgs) + 1] = 1]

\* Mutant: riocm_send_close kfree's its header even when it was deferred.
SendClose_FreeAlways ==
    /\ NewPost("CONN_CLOSE")
    /\ frees' = [frees EXCEPT ![Len(msgs) + 1] = 1]

\* riocm_send_close: a kzalloc'ed header posted with req = 1; on -EBUSY the
\* tx_req owns it and the call returns 0, otherwise it is kfree'd.
riocm_send_close ==
    /\ NewPost("CONN_CLOSE")
    /\ frees' = [frees EXCEPT ![Len(msgs) + 1] =
                    IF msgs'[Len(msgs) + 1].rc = "EBUSY" THEN 0 ELSE 1]

\* riocm_ch_connect (CONN_REQ) and riocm_send_ack (CONN_ACK): a header on
\* the caller's stack, posted with req = 1 and never freed by the caller.
SendStackHdr(op) ==
    /\ op \in {"CONN_REQ", "CONN_ACK"}
    /\ NewPost(op)
    /\ UNCHANGED frees

(***************************************************************************)
(* The "while" loop of rio_txcq_handler: starting from tx_ack_slot, clear  *)
(* slots while tx_cnt > 0 and (ack_slot # slot or the ring is full).       *)
(* Returns <<ack_slot, tx_cnt>> after the loop.                            *)
(***************************************************************************)
\* Mutant of AckLoop: the "|| tx_cnt == RIOCM_TX_RING_SIZE" case dropped.
RECURSIVE AckLoop_NoFullWrap(_, _, _)
AckLoop_NoFullWrap(ack, cnt, slot) ==
    IF cnt > 0 /\ ack # slot
    THEN AckLoop_NoFullWrap(Next1(ack), cnt - 1, slot)
    ELSE <<ack, cnt>>

RECURSIVE AckLoop(_, _, _)
AckLoop(ack, cnt, slot) ==
    IF cnt > 0 /\ (ack # slot \/ cnt = TxRingSize)
    THEN AckLoop(Next1(ack), cnt - 1, slot)
    ELSE <<ack, cnt>>

\* The slots the loop clears: txCnt - cnt1 of them starting at txAck.
Cleared(cnt1) == {(txAck + i) % TxRingSize : i \in 0 .. txCnt - cnt1 - 1}

\* Mutants of DeferredMoved: the list_for_each_entry_safe loop replaced by
\* a single request, and the refill block left out altogether.
DeferredMoved_One(cnt1) ==
    IF txReqs # <<>> /\ cnt1 < TxRingSize THEN 1 ELSE 0
DeferredMoved_None(cnt1) == 0

\* How many deferred requests the refill loop of rio_txcq_handler moves into
\* the ring once tx_cnt is cnt1: all of them, or until the ring is full.
DeferredMoved(cnt1) ==
    IF txReqs # <<>> /\ cnt1 < TxRingSize
    THEN Min({Len(txReqs), TxRingSize - cnt1}) ELSE 0

(***************************************************************************)
(* The transport completes its k oldest messages and its interrupt calls   *)
(* riocm_outb_msg_event -> rio_txcq_handler(cm, slot).  The handler clears *)
(* acknowledged slots, then, if tx_reqs is not empty and the ring has room,*)
(* moves deferred requests, oldest first, into the ring and the transport  *)
(* until the list is empty or tx_cnt reaches RIOCM_TX_RING_SIZE.  The      *)
(* header a deferred request points to is kfree'd once submitted.          *)
(***************************************************************************)
rio_txcq_handler(k) ==
    /\ k \in 1 .. Len(hw)
    /\ LET slot   == (hwTail + k) % TxRingSize
           loop   == AckLoop(txAck, txCnt, slot)
           ack1   == loop[1]
           cnt1   == loop[2]
           buf1   == [s \in Slots |-> IF s \in Cleared(cnt1) THEN NoBuf
                                                           ELSE txBuf[s]]
           r      == DeferredMoved(cnt1)
           moved  == SubSeq(txReqs, 1, r)
           hwLeft == SubSeq(hw, k + 1, Len(hw))
       IN /\ txAck' = ack1
          /\ txBuf' = [s \in Slots |->
                         IF \E i \in 1..r : s = (txSlot + i - 1) % TxRingSize
                         THEN moved[((s + TxRingSize - txSlot) % TxRingSize) + 1]
                         ELSE buf1[s]]
          /\ txCnt' = cnt1 + r
          /\ txSlot' = (txSlot + r) % TxRingSize
          /\ txReqs' = SubSeq(txReqs, r + 1, Len(txReqs))
          \* deferred requests are control headers: the transport takes them
          /\ hw' = hwLeft \o moved
          /\ sent' = sent \o moved
          /\ hwTail' = slot
          \* kfree(req->buffer) for every request moved
          /\ frees' = [i \in MsgIds |-> frees[i] + IF Contains(moved, i) THEN 1
                                                                      ELSE 0]
          /\ UNCHANGED <<msgs, reqFails>>

Next ==
    \/ cm_chan_msg_send \/ riocm_send_close
    \/ \E op \in Ops : SendStackHdr(op)
    \/ \E k \in 1 .. TxRingSize : rio_txcq_handler(k)

\* The transport completes what it accepted, and its interrupt handler runs
\* the completion callback (the mport stays running in this module).
Fairness == WF_vars(\E k \in 1 .. TxRingSize : rio_txcq_handler(k))

Spec == Init /\ [][Next]_vars /\ Fairness

-----------------------------------------------------------------------------
(***************************************************************************)
(* Properties.                                                             *)
(***************************************************************************)

TypeOK ==
    /\ txBuf \in [Slots -> {NoBuf} \cup MsgIds]
    /\ txSlot \in Slots /\ txAck \in Slots
    /\ txCnt \in 0 .. TxRingSize
    /\ txReqs \in Seq(MsgIds) /\ hw \in Seq(MsgIds) /\ sent \in Seq(MsgIds)
    /\ hwTail \in Slots
    /\ msgs \in Seq([op : Ops, rc : {"OK", "EBUSY", "EINVAL", "ENOMEM"}])
    /\ frees \in [MsgIds -> Nat] /\ reqFails \in 0 .. MaxTxReqFail

\* The ring window [tx_ack_slot, tx_ack_slot + tx_cnt), read in order.
RingWindow == [i \in 1 .. txCnt |-> txBuf[(txAck + i - 1) % TxRingSize]]

(***************************************************************************)
(* tx_cnt counts exactly the messages the transport still holds: the ring  *)
(* window from tx_ack_slot holds, in order, the messages the transport has *)
(* accepted and not completed, every slot outside it is NULL, and the two  *)
(* rings agree on the index of the oldest.  This is what the FIXME in      *)
(* rio_txcq_handler says matters ("correct tracking of tx_count"); if it   *)
(* fails, post_send overruns the transport's ring or stalls with a ring    *)
(* it believes full.                                                       *)
(***************************************************************************)
TxCountTracksTransport ==
    /\ RingWindow = hw
    /\ \A s \in Slots : txBuf[s] # NoBuf <=>
                        s \in {(txAck + i) % TxRingSize : i \in 0 .. txCnt - 1}
    /\ txCnt > 0 => txAck = hwTail

(***************************************************************************)
(* A control message is only deferred behind a full ring: whenever tx_reqs *)
(* is not empty, tx_cnt = RIOCM_TX_RING_SIZE.  Otherwise a deferred header *)
(* would wait for a completion that may never come, and a later control    *)
(* message could reach the ring before it.                                 *)
(***************************************************************************)
DeferredOnlyWhenFull == txReqs # <<>> => txCnt = TxRingSize

(***************************************************************************)
(* Control messages reach the transport in the order riocm_post_send was   *)
(* called for them, through the deferred list or not (spec 5: deferred    *)
(* control messages are sent FIFO; only DATA may overtake them).           *)
(***************************************************************************)
ControlFifo ==
    \A i, j \in 1 .. Len(sent) :
        /\ i < j
        /\ IsControl(msgs[sent[i]].op) /\ IsControl(msgs[sent[j]].op)
        => sent[i] < sent[j]

(***************************************************************************)
(* A control message is never lost: one that riocm_post_send accepted or   *)
(* deferred eventually reaches the transport (spec 4.6: control messages  *)
(* must not be lost under ring pressure; the handshake never retransmits).*)
(***************************************************************************)
ControlEventuallySent ==
    \A m \in MsgIds :
        (m <= Len(msgs) /\ IsControl(msgs[m].op) /\ msgs[m].rc # "ENOMEM")
            ~> Contains(sent, m)

(***************************************************************************)
(* A deferred tx_req owns its buffer (spec 3: "TxReq owns its payload      *)
(* until transmitted"): rio_txcq_handler sends and then kfree()s           *)
(* req->buffer, so every deferred buffer must be heap memory that outlives *)
(* the call that posted it.                                                *)
(***************************************************************************)
DeferredBufferOwned ==
    \A i \in 1 .. Len(txReqs) : BufOrigin(msgs[txReqs[i]].op) = "heap"

(***************************************************************************)
(* Every heap buffer handed to riocm_post_send is kfree'd exactly once, by *)
(* the right party: the caller when the engine did not keep it, and        *)
(* rio_txcq_handler once a deferred request has been submitted; until      *)
(* then it is not freed at all.  The ownership passes on the -EBUSY path   *)
(* of riocm_send_close and back in the refill loop of rio_txcq_handler.    *)
(***************************************************************************)
HeapBuffersFreedOnce ==
    \A m \in 1 .. Len(msgs) :
        BufOrigin(msgs[m].op) = "heap" =>
            frees[m] = IF Contains(txReqs, m) THEN 0 ELSE 1

=============================================================================
