------------------------------ MODULE RioRxRing ------------------------------
(***************************************************************************)
(* The receive side of one connected channel of rio_cm (src/rio_cm.c):     *)
(* its rx_ring (buf[], head, tail, count, inuse[], inuse_cnt), its wait    *)
(* queue, its kref, and the code that uses them.                           *)
(*                                                                         *)
(* Actors:                                                                 *)
(*  - the RX tasklet running rio_rx_data_handler for each inbound data     *)
(*    message ("rx");                                                      *)
(*  - user threads (Threads) in the CM_CHAN_RECEIVE ioctl: cm_chan_msg_rcv *)
(*    -> riocm_ch_receive (-> riocm_wait_for_rx_data) -> copy_to_user ->   *)
(*    riocm_ch_free_rxbuf -> riocm_put_channel;                            *)
(*  - one closer ("cl"): a local close or a remote CONN_CLOSE, which       *)
(*    unpublishes the channel and runs riocm_ch_close.                     *)
(* Steps are cut where the code takes or drops a lock or sleeps.  The      *)
(* channel starts CONNECTED and registered (kref 1, held by ch_idr), with  *)
(* the empty ring riocm_ch_alloc leaves.                                   *)
(*                                                                         *)
(* The wait queue is FIFO of exclusive entries (prepare_to_wait_exclusive  *)
(* adds at the tail).  wake_up wakes the first entry whose task is not     *)
(* running and removes it (autoremove_wake_function); entries of running   *)
(* tasks are skipped and stay.  A timer or a signal makes the task running *)
(* but leaves its entry queued until finish_wait.                          *)
(***************************************************************************)
EXTENDS Integers, Sequences, FiniteSets, SequencesExt

CONSTANTS
    Threads,      \* user threads calling the receive ioctl
    RingSize,     \* RIOCM_RX_RING_SIZE
    MaxMsgs,      \* bound on inbound data messages
    Signals,      \* whether user threads receive signals
    NoBuf         \* NULL buffer pointer

ASSUME /\ RingSize \in Nat \ {0} /\ MaxMsgs \in Nat /\ Signals \in BOOLEAN
       /\ NoBuf \notin Nat

Msgs == 1..MaxMsgs          \* message i is the i-th data message to arrive
Slots == 0..RingSize - 1
RX == "rx"
CL == "cl"

VARIABLES
    state,      \* ch->state
    inIdr,      \* the channel is in ch_idr
    ref,        \* ch->ref
    done,       \* riocm_ch_free ran (ch->comp completed)
    freed,      \* kfree(ch) ran
    rbuf,       \* ch->rx_ring.buf[]
    head,       \* ch->rx_ring.head
    tail,       \* ch->rx_ring.tail
    count,      \* ch->rx_ring.count
    inuse,      \* ch->rx_ring.inuse[]
    inuseCnt,   \* ch->rx_ring.inuse_cnt
    waitq,      \* entries on ch->wait_q, oldest first
    running,    \* running[t]: t's task state is TASK_RUNNING
    pc,         \* pc[a]: step actor a is at
    tmo,        \* tmo[t]: the receive timeout: "inf", "fin", or "zero" (expired)
    sig,        \* sig[t]: a signal is pending for t
    got,        \* got[t]: the buffer riocm_ch_receive gave t
    arrived,    \* data messages the RX tasklet has taken from the pool
    accepted,   \* messages stored on the ring (history)
    delivered,  \* messages riocm_ch_receive handed out, in order (history)
    frees       \* frees[m]: number of kfree calls on message m's buffer

chVars == <<state, inIdr, ref, done, freed>>
ringVars == <<rbuf, head, tail, count, inuse, inuseCnt>>
waitVars == <<waitq, running>>
thVars == <<pc, tmo, sig, got>>
histVars == <<arrived, accepted, delivered, frees>>
vars == <<chVars, ringVars, waitVars, thVars, histVars>>

Init ==
    /\ state = "CONNECTED" /\ inIdr = TRUE /\ ref = 1
    /\ done = FALSE /\ freed = FALSE
    /\ rbuf = [i \in Slots |-> NoBuf] /\ head = 0 /\ tail = 0 /\ count = 0
    /\ inuse = [i \in Slots |-> NoBuf] /\ inuseCnt = 0
    /\ waitq = <<>> /\ running = [t \in Threads |-> TRUE]
    /\ pc = [a \in Threads \cup {RX, CL} |-> "idle"]
    /\ tmo = [t \in Threads |-> "inf"]
    /\ sig = [t \in Threads |-> FALSE]
    /\ got = [t \in Threads |-> NoBuf]
    /\ arrived = 0 /\ accepted = {} /\ delivered = <<>>
    /\ frees = [m \in Msgs |-> 0]

-----------------------------------------------------------------------------
(* Helpers.                                                                *)

\* kfree of the buffers in S (distinct pointers).
Kfree(S) == frees' = [m \in Msgs |-> IF m \in S THEN frees[m] + 1 ELSE frees[m]]

\* riocm_ch_free's kfree calls: if inuse_cnt # 0, every non-NULL inuse[]
\* entry and, if count # 0, every non-NULL buf[] entry.  The arrays are
\* not cleared first, so a pointer left in two entries is freed twice.
ChFreeCount(m) ==
    (IF inuseCnt # 0 THEN Cardinality({i \in Slots : inuse[i] = m}) ELSE 0)
    + IF count # 0 THEN Cardinality({i \in Slots : rbuf[i] = m}) ELSE 0

\* kfree of the buffers in S, then riocm_put_channel: kref_put runs
\* riocm_ch_free, which completes ch->comp, when the count drops to 0.
Release(S) ==
    /\ ref' = ref - 1
    /\ done' = (done \/ ref = 1)
    /\ frees' = [m \in Msgs |-> frees[m] + (IF m \in S THEN 1 ELSE 0)
                               + (IF ref = 1 THEN ChFreeCount(m) ELSE 0)]

PutRef == Release({})

\* wake_up: the first queued entry whose task is not running.
WakeUp ==
    LET sleepers == {i \in 1..Len(waitq) : ~running[waitq[i]]}
    IN IF sleepers = {} THEN UNCHANGED waitVars
       ELSE LET i == Min(sleepers) IN
            /\ running' = [running EXCEPT ![waitq[i]] = TRUE]
            /\ waitq' = RemoveAt(waitq, i)

\* wake_up_all: every queued entry whose task is not running.
WakeUpAll ==
    /\ running' = [t \in Threads |-> running[t] \/ t \in ToSet(waitq)]
    /\ waitq' = SelectSeq(waitq, LAMBDA t : running[t])

\* prepare_to_wait_exclusive: queue the entry at the tail unless it is
\* already queued, and set the task state to TASK_INTERRUPTIBLE.
PrepareToWait(t) ==
    /\ waitq' = IF t \in ToSet(waitq) THEN waitq ELSE Append(waitq, t)
    /\ running' = [running EXCEPT ![t] = FALSE]

\* finish_wait: task running again, entry off the queue.
FinishWait(t) ==
    /\ waitq' = SelectSeq(waitq, LAMBDA u : u # t)
    /\ running' = [running EXCEPT ![t] = TRUE]

Goto(a, l) == pc' = [pc EXCEPT ![a] = l]

\* The messages on the ring, oldest first.
RingWindow == [i \in 1..count |-> rbuf[(tail + i - 1) % RingSize]]


-----------------------------------------------------------------------------
(* The RX tasklet: rio_rx_data_handler for the next inbound data message.  *)

\* riocm_get_channel(hdr->dst_ch): a message for a channel no longer in
\* ch_idr is freed (-ENODEV); otherwise the handler holds a reference.
RxGet ==
    /\ pc[RX] = "idle"
    /\ arrived < MaxMsgs
    /\ arrived' = arrived + 1
    /\ IF inIdr
       THEN /\ ref' = ref + 1
            /\ Goto(RX, "push")
            /\ UNCHANGED frees
       ELSE /\ Kfree({arrived + 1})
            /\ UNCHANGED <<ref, pc>>
    /\ UNCHANGED <<state, inIdr, done, freed, ringVars, waitVars, tmo, sig,
                   got, accepted, delivered>>

\* Mutant: the new message is stored one slot past head.
RxStore_HeadFirst ==
    /\ rbuf' = [rbuf EXCEPT ![(head + 1) % RingSize] = arrived]
    /\ head' = (head + 1) % RingSize
    /\ count' = count + 1
    /\ accepted' = accepted \cup {arrived}
    /\ WakeUp
    /\ PutRef

\* Store the message at head, wake one waiter, riocm_put_channel.
RxStore ==
    /\ rbuf' = [rbuf EXCEPT ![head] = arrived]
    /\ head' = (head + 1) % RingSize
    /\ count' = count + 1
    /\ accepted' = accepted \cup {arrived}
    /\ WakeUp
    /\ PutRef

\* Mutant: the full-ring test is missing.
RxPush_NoFullCheck ==
    /\ pc[RX] = "push"
    /\ Goto(RX, "idle")
    /\ IF state # "CONNECTED"
       THEN Release({arrived}) /\ UNCHANGED <<ringVars, waitVars, accepted>>
       ELSE RxStore /\ UNCHANGED <<tail, inuse, inuseCnt>>
    /\ UNCHANGED <<state, inIdr, freed, tmo, sig, got, arrived, delivered>>

\* Under ch->lock: a channel that is not CONNECTED (-EIO) or a full ring
\* (-ENOMEM) drops the message (kfree, then riocm_put_channel); otherwise
\* RxStore.
RxPush ==
    /\ pc[RX] = "push"
    /\ Goto(RX, "idle")
    /\ IF state # "CONNECTED" \/ count = RingSize
       THEN Release({arrived}) /\ UNCHANGED <<ringVars, waitVars, accepted>>
       ELSE RxStore /\ UNCHANGED <<tail, inuse, inuseCnt>>
    /\ UNCHANGED <<state, inIdr, freed, tmo, sig, got, arrived, delivered>>

-----------------------------------------------------------------------------
(* A user thread in cm_chan_msg_rcv.                                       *)

\* riocm_get_channel(msg.ch_num), with a finite timeout (msg.rxto) or
\* MAX_SCHEDULE_TIMEOUT.  A lookup that misses (-ENODEV) changes nothing.
RcvStart(t) ==
    /\ pc[t] = "idle"
    /\ inIdr
    /\ ref' = ref + 1
    /\ \E to \in {"inf", "fin"} : tmo' = [tmo EXCEPT ![t] = to]
    /\ Goto(t, "check")
    /\ UNCHANGED <<state, inIdr, done, freed, ringVars, waitVars, sig, got,
                   histVars>>

\* riocm_ch_receive: riocm_comp(ch, CONNECTED) under ch->lock (-EAGAIN),
\* then the unlocked test inuse_cnt == RIOCM_RX_RING_SIZE (-ENOMEM).
RcvCheck(t) ==
    /\ pc[t] = "check"
    /\ Goto(t, IF state # "CONNECTED" \/ inuseCnt = RingSize THEN "put"
                                                          ELSE "lock")
    /\ UNCHANGED <<chVars, ringVars, waitVars, tmo, sig, got, histVars>>

\* Mutant: the slot at tail is not cleared.
RingTake_NoClear ==
    /\ count' = count - 1
    /\ tail' = (tail + 1) % RingSize
    /\ UNCHANGED <<rbuf, head>>

\* Take the message at tail off the ring.
RingTake ==
    /\ rbuf' = [rbuf EXCEPT ![tail] = NoBuf]
    /\ count' = count - 1
    /\ tail' = (tail + 1) % RingSize
    /\ UNCHANGED head

\* Still under ch->lock: RingTake, then record the message in the first
\* free inuse[] entry; with no free entry the message is freed and the
\* call returns -ENOMEM.
Pop(t) ==
    LET m == rbuf[tail]
        free == {i \in Slots : inuse[i] = NoBuf}
    IN /\ RingTake
       /\ IF free # {}
          THEN /\ inuse' = [inuse EXCEPT ![Min(free)] = m]
               /\ inuseCnt' = inuseCnt + 1
               /\ got' = [got EXCEPT ![t] = m]
               /\ delivered' = Append(delivered, m)
               /\ Goto(t, "free")
               /\ UNCHANGED frees
          ELSE /\ Kfree({m})
               /\ Goto(t, "put")
               /\ UNCHANGED <<inuse, inuseCnt, got, delivered>>

\* spin_lock_bh(&ch->lock); an empty ring enters riocm_wait_for_rx_data,
\* which queues the wait entry and drops the lock; otherwise Pop.
RcvLock(t) ==
    /\ pc[t] = "lock"
    /\ IF count = 0
       THEN /\ PrepareToWait(t)
            /\ Goto(t, "sleep")
            /\ UNCHANGED <<ringVars, got, delivered, frees>>
       ELSE /\ Pop(t)
            /\ UNCHANGED waitVars
    /\ UNCHANGED <<chVars, tmo, sig, arrived, accepted>>

\* The unlocked "if (ch->rx_ring.count == 0) schedule_timeout()": the task
\* blocks unless the ring has data, it was already woken, or a signal is
\* pending; schedule() returns at once, with the task running, in the last
\* two cases.  With data the task stays TASK_INTERRUPTIBLE, still queued.
RcvSleep(t) ==
    /\ pc[t] = "sleep"
    /\ IF count = 0 /\ ~running[t] /\ ~sig[t]
       THEN /\ Goto(t, "blocked")
            /\ UNCHANGED running
       ELSE /\ Goto(t, "relock")
            /\ running' = [running EXCEPT ![t] = @ \/ count = 0]
    /\ UNCHANGED <<chVars, ringVars, waitq, tmo, sig, got, histVars>>

\* schedule_timeout returns once the task has been woken.
RcvWake(t) ==
    /\ pc[t] = "blocked"
    /\ running[t]
    /\ Goto(t, "relock")
    /\ UNCHANGED <<chVars, ringVars, waitVars, tmo, sig, got, histVars>>

\* The timer of a finite timeout expires: the task is woken and
\* schedule_timeout returns 0; the wait entry stays queued.
RcvTimer(t) ==
    /\ pc[t] = "blocked"
    /\ ~running[t]
    /\ tmo[t] = "fin"
    /\ running' = [running EXCEPT ![t] = TRUE]
    /\ tmo' = [tmo EXCEPT ![t] = "zero"]
    /\ Goto(t, "relock")
    /\ UNCHANGED <<chVars, ringVars, waitq, sig, got, histVars>>

\* Mutant: the "if (!timeout)" exit is missing.
RcvRelock_NoTimeout(t) ==
    /\ pc[t] = "relock"
    /\ IF sig[t] \/ count = 0
       THEN /\ IF sig[t] \/ state # "CONNECTED"
               THEN /\ FinishWait(t)
                    /\ Goto(t, "put")
               ELSE /\ PrepareToWait(t)
                    /\ Goto(t, "sleep")
            /\ UNCHANGED <<ringVars, got, delivered, frees>>
       ELSE /\ FinishWait(t)
            /\ Pop(t)
    /\ UNCHANGED <<chVars, tmo, sig, arrived, accepted>>

\* spin_lock_bh(&ch->lock) and the loop's exits, in the code's order:
\* signal (-EINTR), data (0, then Pop), not CONNECTED (-ECONNRESET),
\* timeout (-ETIME); otherwise queue again and drop the lock.  Every exit
\* runs finish_wait.
RcvRelock(t) ==
    /\ pc[t] = "relock"
    /\ IF sig[t] \/ count = 0
       THEN /\ IF sig[t] \/ state # "CONNECTED" \/ tmo[t] = "zero"
               THEN /\ FinishWait(t)
                    /\ Goto(t, "put")
               ELSE /\ PrepareToWait(t)
                    /\ Goto(t, "sleep")
            /\ UNCHANGED <<ringVars, got, delivered, frees>>
       ELSE /\ FinishWait(t)
            /\ Pop(t)
    /\ UNCHANGED <<chVars, tmo, sig, arrived, accepted>>

\* Mutant: the inuse[] entry is counted down but not cleared.
RcvFree_NoClear(t) ==
    /\ pc[t] = "free"
    /\ LET hit == {i \in Slots : inuse[i] = got[t]}
       IN IF hit # {}
          THEN /\ inuseCnt' = inuseCnt - 1
               /\ Kfree({got[t]})
               /\ UNCHANGED inuse
          ELSE UNCHANGED <<inuse, inuseCnt, frees>>
    /\ got' = [got EXCEPT ![t] = NoBuf]
    /\ Goto(t, "put")
    /\ UNCHANGED <<chVars, rbuf, head, tail, count, waitVars, tmo, sig,
                   arrived, accepted, delivered>>

\* riocm_ch_free_rxbuf (after copy_to_user): under ch->lock clear the first
\* inuse[] entry holding the buffer, then kfree it.
RcvFree(t) ==
    /\ pc[t] = "free"
    /\ LET hit == {i \in Slots : inuse[i] = got[t]}
       IN IF hit # {}
          THEN /\ inuse' = [inuse EXCEPT ![Min(hit)] = NoBuf]
               /\ inuseCnt' = inuseCnt - 1
               /\ Kfree({got[t]})
          ELSE UNCHANGED <<inuse, inuseCnt, frees>>
    /\ got' = [got EXCEPT ![t] = NoBuf]
    /\ Goto(t, "put")
    /\ UNCHANGED <<chVars, rbuf, head, tail, count, waitVars, tmo, sig,
                   arrived, accepted, delivered>>

\* riocm_put_channel, and the return to user space, where a pending
\* signal is delivered.
RcvPut(t) ==
    /\ pc[t] = "put"
    /\ PutRef
    /\ sig' = [sig EXCEPT ![t] = FALSE]
    /\ tmo' = [tmo EXCEPT ![t] = "inf"]
    /\ Goto(t, "idle")
    /\ UNCHANGED <<state, inIdr, freed, ringVars, waitVars, got, arrived,
                   accepted, delivered>>

\* A signal for a thread inside the ioctl: pending, and an interruptible
\* task is woken (its wait entry stays queued).
Signal(t) ==
    /\ Signals
    /\ pc[t] # "idle"
    /\ ~sig[t]
    /\ sig' = [sig EXCEPT ![t] = TRUE]
    /\ running' = [running EXCEPT ![t] = TRUE]
    /\ UNCHANGED <<chVars, ringVars, waitq, pc, tmo, got, histVars>>

-----------------------------------------------------------------------------
(* The closer: cm_chan_close or riocm_close_handler (idr_remove under      *)
(* idr_lock), then riocm_ch_close.  The remote path's intermediate         *)
(* DISCONNECT is folded into the exchange to DESTROYING: every reader here *)
(* treats the two alike.  The CONN_CLOSE a CONNECTED channel sends is      *)
(* RioTx's concern.                                                        *)

CloseBegin ==
    /\ pc[CL] = "idle"
    /\ inIdr
    /\ inIdr' = FALSE
    /\ state' = "DESTROYING"
    /\ Goto(CL, "wake")
    /\ UNCHANGED <<ref, done, freed, ringVars, waitVars, tmo, sig, got,
                   histVars>>

\* wake_up_all(&ch->wait_q), then riocm_put_channel (the registry's ref).
CloseWake ==
    /\ pc[CL] = "wake"
    /\ WakeUpAll
    /\ PutRef
    /\ Goto(CL, "wait")
    /\ UNCHANGED <<state, inIdr, freed, ringVars, tmo, sig, got, arrived,
                   accepted, delivered>>

\* wait_for_completion_interruptible_timeout(&ch->comp, 3 s): kfree(ch)
\* once completed; on timeout (or a signal) the object is leaked.
CloseWait ==
    /\ pc[CL] = "wait"
    /\ \/ done /\ freed' = TRUE
       \/ ~done /\ UNCHANGED freed
    /\ Goto(CL, "closed")
    /\ UNCHANGED <<state, inIdr, ref, done, ringVars, waitVars, tmo, sig,
                   got, histVars>>

-----------------------------------------------------------------------------
RcvStep(t) ==
    \/ RcvCheck(t) \/ RcvLock(t) \/ RcvSleep(t) \/ RcvWake(t)
    \/ RcvTimer(t) \/ RcvRelock(t) \/ RcvFree(t) \/ RcvPut(t)

Next ==
    \/ RxGet \/ RxPush
    \/ \E t \in Threads : RcvStart(t) \/ RcvStep(t) \/ Signal(t)
    \/ CloseBegin \/ CloseWake \/ CloseWait

\* Started procedures run on: the tasklet finishes its message, the
\* kernel schedules runnable threads, timers expire, and the closer's
\* 3 s wait ends.  Nothing forces a message to arrive, a thread to call
\* receive, a signal, or a close.
Fairness ==
    /\ WF_vars(RxPush)
    /\ \A t \in Threads : WF_vars(RcvStep(t))
    /\ WF_vars(CloseWake) /\ WF_vars(CloseWait)

Spec == Init /\ [][Next]_vars /\ Fairness

-----------------------------------------------------------------------------
(* Properties.                                                             *)

Pcs == {"idle", "check", "lock", "sleep", "blocked", "relock", "free", "put"}

TypeOK ==
    /\ state \in {"CONNECTED", "DESTROYING"}
    /\ inIdr \in BOOLEAN /\ done \in BOOLEAN /\ freed \in BOOLEAN
    /\ ref \in -1..Cardinality(Threads) + 2
    /\ rbuf \in [Slots -> Msgs \cup {NoBuf}]
    /\ inuse \in [Slots -> Msgs \cup {NoBuf}]
    /\ head \in Slots /\ tail \in Slots
    /\ count \in 0..RingSize /\ inuseCnt \in 0..RingSize
    /\ waitq \in Seq(Threads) /\ running \in [Threads -> BOOLEAN]
    /\ \A t \in Threads : pc[t] \in Pcs
    /\ pc[RX] \in {"idle", "push"} /\ pc[CL] \in {"idle", "wake", "wait", "closed"}
    /\ tmo \in [Threads -> {"inf", "fin", "zero"}]
    /\ sig \in [Threads -> BOOLEAN] /\ got \in [Threads -> Msgs \cup {NoBuf}]
    /\ arrived \in 0..MaxMsgs /\ accepted \subseteq Msgs
    /\ delivered \in Seq(Msgs) /\ frees \in [Msgs -> Nat]

\* A buffer the channel can still hand out or a caller still holds.
Reachable(m) ==
    /\ ~done
    /\ \/ m \in ToSet(RingWindow)
       \/ \E i \in Slots : inuse[i] = m
       \/ \E t \in Threads : got[t] = m

\* Every data buffer is freed at most once, never while the ring, the
\* inuse[] table or a caller can still reach it, and every buffer has been
\* freed by the time riocm_ch_free has run: the kfree calls of
\* rio_rx_data_handler, riocm_ch_receive, riocm_ch_free_rxbuf and
\* riocm_ch_free between them free each buffer exactly once.
RxBuffersFreedExactlyOnce ==
    \A m \in Msgs :
        /\ frees[m] <= 1
        /\ Reachable(m) => frees[m] = 0
        /\ done /\ m <= arrived => frees[m] = 1

\* A message the ring accepted is freed only after riocm_ch_receive handed
\* it to a caller, or by riocm_ch_free when the channel is destroyed: it is
\* never taken off the ring and dropped (spec.md 4.5: a reader finding the
\* inuse table full gets -ENOMEM without consuming a message).
NoAcceptedMessageLost ==
    ~done => \A m \in accepted : frees[m] > 0 => m \in ToSet(delivered)

\* spec.md section 5: count + inuse_count never exceeds the ring capacity.
RingInuseBound == count + inuseCnt <= RingSize

\* The ring, seen through its indices, implements the bounded FIFO of
\* RxQueue: rio_rx_data_handler appends at head, riocm_ch_receive takes
\* from tail and hands each message out exactly once and in order, and
\* riocm_ch_free discards what is left.
Abstract == INSTANCE RxQueue WITH
    Capacity <- RingSize,
    q <- IF done THEN <<>> ELSE RingWindow,
    delivered <- delivered,
    open <- (state = "CONNECTED")

RxQueueRefinement == Abstract!Spec

Blocked == {t \in Threads : pc[t] = "blocked"}

\* While data sits on the ring and some reader is blocked in
\* riocm_wait_for_rx_data, the data is eventually taken or no reader is
\* blocked any more: wake_up in rio_rx_data_handler reaches a reader that
\* takes it.
DataNotStrandedWhileWaiting ==
    (count > 0 /\ Blocked # {}) ~> (count = 0 \/ Blocked = {})

\* A reader inside riocm_ch_receive when the channel stops being CONNECTED
\* eventually returns: riocm_ch_close's wake_up_all reaches every waiter
\* (spec.md scenario 3: a blocked receive returns ConnReset).
ReceiverReturnsOnClose ==
    \A t \in Threads : (pc[t] # "idle" /\ state # "CONNECTED") ~> pc[t] = "idle"


\* A reader that gave a timeout (msg.rxto # 0) always returns from
\* cm_chan_msg_rcv, whatever the tasklet, the other readers and the closer
\* do: schedule_timeout is bounded, and riocm_wait_for_rx_data leaves its
\* loop with -ETIME once the timeout is used up.
ReceiverWithTimeoutReturns ==
    \A t \in Threads : (pc[t] = "check" /\ tmo[t] = "fin") ~> pc[t] = "idle"

================================================================================
