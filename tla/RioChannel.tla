------------------------------ MODULE RioChannel ------------------------------
(***************************************************************************)
(* The channel objects of rio_cm (src/rio_cm.c) on one node with one       *)
(* cm_dev: the channel registry ch_idr, each channel's kref, state, accept *)
(* queue and wait queue, and the procedures that change them.              *)
(*                                                                         *)
(* Actors:                                                                 *)
(*  - user threads (Threads), each with its own open file, calling the     *)
(*    ioctls create / bind / listen / connect / accept / close and closing *)
(*    the file (riocm_cdev_release);                                       *)
(*  - the single-threaded work queue riocm_wq ("wq") running              *)
(*    rio_cm_handler on the inbound CONN_REQ / CONN_ACK / CONN_CLOSE       *)
(*    messages, which any remote node may send to any channel number;      *)
(*  - the RapidIO core ("lc") adding and removing the peer device and      *)
(*    removing the mport (riocm_add_dev / riocm_remove_dev /               *)
(*    riocm_remove_mport).                                                 *)
(* Each actor runs one procedure at a time; pc[a] is its position, and the *)
(* steps are cut where the code drops a lock, sleeps or returns to user    *)
(* space, so every interleaving the locks allow is explored.               *)
(*                                                                         *)
(* Channel numbers are never reused: each element of Chans is one          *)
(* allocation.  The TX path is abstracted to the result riocm_post_send    *)
(* returns (RioTx models it).  kref is the atomic_t counter of the kernels *)
(* this driver targets: kref_get on 0 gives 1, kref_put on 0 gives -1.     *)
(***************************************************************************)
EXTENDS Integers, Sequences, FiniteSets

CONSTANTS
    Threads,      \* user threads, one open file each
    Chans,        \* channel objects (each one riocm_ch_alloc)
    Peers,        \* destination IDs of remote devices
    MaxInbound,   \* bound on inbound control messages
    RemoteOps,    \* control messages remote nodes send
    Signals,      \* whether user threads receive signals
    CoreEvents,   \* whether the RapidIO core removes devices and the mport
    NoCh, NoPeer  \* NULL channel pointer, NULL rdev

ASSUME /\ NoCh \notin Chans /\ NoPeer \notin Peers
       /\ MaxInbound \in Nat /\ CoreEvents \in BOOLEAN /\ Signals \in BOOLEAN
       /\ RemoteOps \subseteq {"CONN_REQ", "CONN_ACK", "CONN_CLOSE"}

WQ == "wq"
LC == "lc"
Actors == Threads \cup {WQ, LC}

States == {"IDLE", "CONNECT", "CONNECTED", "DISCONNECT", "CHAN_BOUND",
           "LISTEN", "DESTROYING"}

\* Result of riocm_post_send for a control header: sent, deferred behind a
\* full ring (-EBUSY), or the tx_req allocation failed (-ENOMEM).
PostResults == {"OK", "EBUSY", "ENOMEM"}

CtlMsgs == [op : RemoteOps, ch : Chans, from : Peers]

VARIABLES
    state,      \* ch->state ("NONE": not allocated yet)
    ref,        \* ch->ref (kref)
    idr,        \* channels published in ch_idr
    done,       \* ch->comp has been completed (riocm_ch_free ran)
    freed,      \* kfree(ch) has run
    owner,      \* ch->filp: the thread whose file owns the channel
    rdev,       \* ch->rdev
    cmdev,      \* ch->cmdev # NULL
    acceptq,    \* ch->accept_queue: requester destIDs of conn_req entries
    asleep,     \* actors sleeping on ch->wait_q
    closeCalls, \* number of riocm_ch_close calls made on the channel
    peers,      \* cm->peers
    mportUp,    \* the cm_dev is on cm_dev_list
    ctlq,       \* work items queued on riocm_wq, oldest first
    inbound,    \* number of control messages received so far
    pc,         \* pc[a]: step of the procedure actor a is in
    ptr,        \* ptr[a]: the channel a's procedure works on
    nch,        \* nch[a]: the channel riocm_ch_accept allocated
    arg,        \* arg[a]: peer (connect target, requester) of the procedure
    tmo,        \* tmo[a]: accept wait is "finite" or "infinite"
    todo,       \* todo[a]: channels a sweep has unpublished and must close
    ret         \* ret[a]: last return value of a's procedure

chanVars == <<state, ref, idr, done, freed, owner, rdev, cmdev, acceptq,
              asleep, closeCalls>>
envVars == <<peers, mportUp, ctlq, inbound>>
actVars == <<pc, ptr, nch, arg, tmo, todo, ret>>
vars == <<chanVars, envVars, actVars>>

Init ==
    /\ state = [c \in Chans |-> "NONE"]
    /\ ref = [c \in Chans |-> 0]
    /\ idr = {}
    /\ done = [c \in Chans |-> FALSE]
    /\ freed = [c \in Chans |-> FALSE]
    /\ owner = [c \in Chans |-> NoCh]
    /\ rdev = [c \in Chans |-> NoPeer]
    /\ cmdev = [c \in Chans |-> FALSE]
    /\ acceptq = [c \in Chans |-> <<>>]
    /\ asleep = [c \in Chans |-> {}]
    /\ closeCalls = [c \in Chans |-> 0]
    /\ peers = Peers
    /\ mportUp = TRUE
    /\ ctlq = <<>>
    /\ inbound = 0
    /\ pc = [a \in Actors |-> "idle"]
    /\ ptr = [a \in Actors |-> NoCh]
    /\ nch = [a \in Actors |-> NoCh]
    /\ arg = [a \in Actors |-> NoPeer]
    /\ tmo = [a \in Actors |-> "finite"]
    /\ todo = [a \in Actors |-> {}]
    /\ ret = [a \in Actors |-> "OK"]

-----------------------------------------------------------------------------
(* Reference counting: riocm_get_channel / riocm_put_channel.              *)

\* kref_put: the count drops, and riocm_ch_free runs (completing ch->comp)
\* when it drops from 1 to 0.
PutRef(c) ==
    /\ ref' = [ref EXCEPT ![c] = @ - 1]
    /\ done' = IF ref[c] = 1 THEN [done EXCEPT ![c] = TRUE] ELSE done

\* A riocm_get_channel immediately followed by riocm_put_channel.
GetPutRef(c) ==
    /\ UNCHANGED ref
    /\ done' = IF ref[c] = 0 THEN [done EXCEPT ![c] = TRUE] ELSE done

Goto(a, l) == pc' = [pc EXCEPT ![a] = l]
Return(a, r) == /\ pc' = [pc EXCEPT ![a] = "idle"]
                /\ ret' = [ret EXCEPT ![a] = r]

\* wake_up on a queue of exclusive waiters wakes one of them.
WakeOne(c) ==
    IF asleep[c] = {} THEN UNCHANGED asleep
    ELSE \E w \in asleep[c] : asleep' = [asleep EXCEPT ![c] = @ \ {w}]

Unused == {c \in Chans : state[c] = "NONE"}

\* riocm_ch_accept holds the listening channel's lock across the allocation
\* of the new channel; every other step that takes ch->lock waits for it.
Locked(c) == \E a \in Actors : pc[a] \in {"acc_alloc", "acc_init"} /\ ptr[a] = c

-----------------------------------------------------------------------------
(* riocm_ch_alloc, in two steps: idr_alloc publishes the zeroed object    *)
(* (state 0 = RIO_CM_IDLE, kref 0), then the fields and kref_init(1) are  *)
(* set while the id is already visible to riocm_get_channel.              *)

AllocPublish(c) ==
    /\ idr' = idr \cup {c}
    /\ state' = [state EXCEPT ![c] = "IDLE"]

AllocInit(c) ==
    /\ state' = [state EXCEPT ![c] = "IDLE"]
    /\ ref' = [ref EXCEPT ![c] = 1]
    /\ acceptq' = [acceptq EXCEPT ![c] = <<>>]
    /\ asleep' = [asleep EXCEPT ![c] = {}]
    /\ done' = [done EXCEPT ![c] = FALSE]

\* cm_chan_create -> riocm_ch_create -> riocm_ch_alloc (requested id or
\* dynamic id: the id chosen is abstracted to any unused object).
CreatePublish(t) ==
    /\ pc[t] = "idle"
    /\ \E c \in Unused :
         /\ AllocPublish(c)
         /\ ptr' = [ptr EXCEPT ![t] = c]
         /\ Goto(t, "create_init")
    /\ UNCHANGED <<ref, done, freed, owner, rdev, cmdev, acceptq, asleep,
                   closeCalls, envVars, nch, arg, tmo, todo, ret>>

\* ... the rest of riocm_ch_alloc, then cm_chan_create sets ch->filp.
CreateInit(t) ==
    /\ pc[t] = "create_init"
    /\ AllocInit(ptr[t])
    /\ owner' = [owner EXCEPT ![ptr[t]] = t]
    /\ Return(t, "OK")
    /\ UNCHANGED <<idr, freed, rdev, cmdev, closeCalls, envVars,
                   ptr, nch, arg, tmo, todo>>

\* riocm_ch_bind: the mport must be registered; IDLE -> CHAN_BOUND.
Bind(t, c) ==
    /\ pc[t] = "idle"
    /\ mportUp /\ c \in idr
    /\ ~Locked(c)
    /\ GetPutRef(c)
    /\ IF state[c] = "IDLE"
       THEN /\ state' = [state EXCEPT ![c] = "CHAN_BOUND"]
            /\ cmdev' = [cmdev EXCEPT ![c] = TRUE]
            /\ ret' = [ret EXCEPT ![t] = "OK"]
       ELSE /\ UNCHANGED <<state, cmdev>>
            /\ ret' = [ret EXCEPT ![t] = "EINVAL"]
    /\ UNCHANGED <<idr, freed, owner, rdev, acceptq, asleep, closeCalls,
                   envVars, pc, ptr, nch, arg, tmo, todo>>

\* riocm_ch_listen: compare-and-exchange CHAN_BOUND -> LISTEN.
Listen(t, c) ==
    /\ pc[t] = "idle"
    /\ c \in idr
    /\ ~Locked(c)
    /\ GetPutRef(c)
    /\ IF state[c] = "CHAN_BOUND"
       THEN /\ state' = [state EXCEPT ![c] = "LISTEN"]
            /\ ret' = [ret EXCEPT ![t] = "OK"]
       ELSE /\ UNCHANGED state
            /\ ret' = [ret EXCEPT ![t] = "EINVAL"]
    /\ UNCHANGED <<idr, freed, owner, rdev, cmdev, acceptq, asleep,
                   closeCalls, envVars, pc, ptr, nch, arg, tmo, todo>>

-----------------------------------------------------------------------------
(* riocm_ch_connect.                                                       *)

\* Lookups of the cm_dev and the peer, riocm_get_channel, the exchange
\* IDLE -> CONNECT and the channel fields.
ConnectStart(t, c, p) ==
    /\ pc[t] = "idle"
    /\ mportUp /\ p \in peers /\ c \in idr
    /\ ~Locked(c)
    /\ IF state[c] # "IDLE"
       THEN /\ GetPutRef(c)
            /\ Return(t, "EINVAL")
            /\ UNCHANGED <<state, cmdev, rdev, ptr, arg>>
       ELSE /\ state' = [state EXCEPT ![c] = "CONNECT"]
            /\ ref' = [ref EXCEPT ![c] = @ + 1]
            /\ cmdev' = [cmdev EXCEPT ![c] = TRUE]
            /\ rdev' = [rdev EXCEPT ![c] = p]
            /\ ptr' = [ptr EXCEPT ![t] = c]
            /\ arg' = [arg EXCEPT ![t] = p]
            /\ Goto(t, "conn_post")
            /\ UNCHANGED <<done, ret>>
    /\ UNCHANGED <<idr, freed, owner, acceptq, asleep, closeCalls, envVars,
                   nch, tmo, todo>>

\* riocm_post_send of the CONN_REQ header.  Any error other than -EBUSY
\* exchanges CONNECT -> IDLE back (if the state is still CONNECT), puts the
\* reference and returns it.
ConnectPost(t) ==
    LET c == ptr[t] IN
    /\ pc[t] = "conn_post"
    /\ ~Locked(c)
    /\ \E r \in PostResults :
         IF r \in {"OK", "EBUSY"}
         THEN /\ Goto(t, "conn_lock")
              /\ ret' = [ret EXCEPT ![t] = r]
              /\ UNCHANGED <<state, ref, done>>
         ELSE /\ state' = IF state[c] = "CONNECT"
                          THEN [state EXCEPT ![c] = "IDLE"] ELSE state
              /\ PutRef(c)
              /\ Return(t, r)
    /\ UNCHANGED <<idr, freed, owner, rdev, cmdev, acceptq, asleep,
                   closeCalls, envVars, ptr, nch, arg, tmo, todo>>

\* Under ch->lock: only while still CONNECT does the caller wait for the
\* response; otherwise it returns what riocm_post_send returned.
ConnectLock(t) ==
    LET c == ptr[t] IN
    /\ pc[t] = "conn_lock"
    /\ ~Locked(c)
    /\ IF state[c] = "CONNECT"
       THEN /\ asleep' = [asleep EXCEPT ![c] = @ \cup {t}]
            /\ Goto(t, "conn_wait")
            /\ UNCHANGED <<ref, done, ret>>
       ELSE /\ PutRef(c)
            /\ Return(t, ret[t])
            /\ UNCHANGED asleep
    /\ UNCHANGED <<state, idr, freed, owner, rdev, cmdev, acceptq, closeCalls,
                   envVars, ptr, nch, arg, tmo, todo>>

\* One pass of riocm_wait_for_connect_resp's loop after schedule_timeout
\* returns because of ev: a wake-up, the RIOCM_CONNECT_TO timer (which may
\* expire in any state, before or after a wake-up), or a signal.  Then ch->lock is dropped and the reference put.  Every wake_up
\* of a connecting channel comes with a state change (riocm_resp_handler,
\* riocm_ch_close), so the loop never goes round again.
ConnectWait(t, ev) ==
    LET c == ptr[t] IN
    /\ pc[t] = "conn_wait"
    /\ ~Locked(c)
    /\ ev = "wake" => t \notin asleep[c] /\ state[c] # "CONNECT"
    /\ ev = "signal" => Signals
    /\ LET r == IF ev = "signal" THEN "EINTR"
                 ELSE IF state[c] = "CONNECTED" THEN "OK"
                 ELSE IF state[c] # "CONNECT" THEN "EPERM"
                 ELSE "ETIME"
       IN /\ asleep' = [asleep EXCEPT ![c] = @ \ {t}]
          /\ PutRef(c)
          /\ Return(t, r)
    /\ UNCHANGED <<state, idr, freed, owner, rdev, cmdev, acceptq, closeCalls,
                   envVars, ptr, nch, arg, tmo, todo>>

-----------------------------------------------------------------------------
(* riocm_ch_accept and cm_chan_accept.                                     *)

\* riocm_get_channel, then under ch->lock: not LISTEN -> -EINVAL; an empty
\* accept queue -> riocm_wait_for_connect_req, whose first pass sleeps
\* (the ioctl never passes timeout 0: wait_to = 0 means no timeout).
AcceptStart(t, c, tm) ==
    /\ pc[t] = "idle"
    /\ c \in idr
    /\ ~Locked(c)
    /\ IF state[c] # "LISTEN"
       THEN /\ GetPutRef(c)
            /\ Return(t, "EINVAL")
            /\ UNCHANGED <<asleep, ptr, tmo>>
       ELSE /\ ref' = [ref EXCEPT ![c] = @ + 1]
            /\ ptr' = [ptr EXCEPT ![t] = c]
            /\ tmo' = [tmo EXCEPT ![t] = tm]
            /\ IF acceptq[c] = <<>>
               THEN /\ asleep' = [asleep EXCEPT ![c] = @ \cup {t}]
                    /\ Goto(t, "acc_wait")
               ELSE /\ UNCHANGED asleep
                    /\ Goto(t, "acc_alloc")
            /\ UNCHANGED <<done, ret>>
    /\ UNCHANGED <<state, idr, freed, owner, rdev, cmdev, acceptq, closeCalls,
                   envVars, nch, arg, todo>>

\* One pass of riocm_wait_for_connect_req's loop after schedule_timeout
\* returns because of ev.  An error leaves riocm_ch_accept through err_out:
\* unlock and put the listening channel.
AcceptWait(t, ev) ==
    LET c == ptr[t] IN
    /\ pc[t] = "acc_wait"
    /\ ~Locked(c)
    /\ ev = "wake" => t \notin asleep[c]
    /\ ev = "signal" => Signals
    /\ ev = "timer" => tmo[t] = "finite"
    /\ LET r == IF ev = "signal" THEN "EINTR"
                 ELSE IF acceptq[c] # <<>> THEN "TAKE"
                 ELSE IF state[c] # "LISTEN" THEN "ECANCELED"
                 ELSE IF ev = "timer" THEN "ETIME"
                 ELSE "SLEEP"
       IN CASE r = "SLEEP" ->
                 /\ asleep' = [asleep EXCEPT ![c] = @ \cup {t}]
                 /\ UNCHANGED <<ref, done, pc, ret>>
            [] r = "TAKE" ->
                 /\ asleep' = [asleep EXCEPT ![c] = @ \ {t}]
                 /\ Goto(t, "acc_alloc")
                 /\ UNCHANGED <<ref, done, ret>>
            [] OTHER ->
                 /\ asleep' = [asleep EXCEPT ![c] = @ \ {t}]
                 /\ PutRef(c)
                 /\ Return(t, r)
    /\ UNCHANGED <<state, idr, freed, owner, rdev, cmdev, acceptq, closeCalls,
                   envVars, ptr, nch, arg, tmo, todo>>

\* riocm_ch_alloc(RIOCM_CHNUM_AUTO) for the new connection, first step; no
\* free number left fails with -ENOMEM through err_out.
AcceptAlloc(t) ==
    LET c == ptr[t] IN
    /\ pc[t] = "acc_alloc"
    /\ IF Unused # {}
       THEN \E n \in Unused :
              /\ AllocPublish(n)
              /\ nch' = [nch EXCEPT ![t] = n]
              /\ Goto(t, "acc_init")
              /\ UNCHANGED <<ref, done, ret>>
       ELSE /\ PutRef(c)
            /\ Return(t, "ENOMEM")
            /\ UNCHANGED <<state, idr, nch>>
    /\ UNCHANGED <<freed, owner, rdev, cmdev, acceptq, asleep, closeCalls,
                   envVars, ptr, arg, tmo, todo>>

\* The rest of riocm_ch_alloc, list_del of the first conn_req, the new
\* channel's fields from it, then unlock and put the listening channel.
\* The queue can only be empty here if a riocm_ch_alloc still in its window
\* re-ran INIT_LIST_HEAD on the listening channel: list_first_entry then
\* reads the list head itself, so the requester is any value.
AcceptInit(t) ==
    LET c == ptr[t]
        n == nch[t]
    IN
    /\ pc[t] = "acc_init"
    /\ state' = [state EXCEPT ![n] = "IDLE"]
    /\ ref' = [ref EXCEPT ![n] = 1, ![c] = @ - 1]
    /\ done' = [done EXCEPT ![n] = FALSE, ![c] = @ \/ ref[c] = 1]
    /\ acceptq' = [acceptq EXCEPT ![n] = <<>>,
                                  ![c] = IF @ = <<>> THEN @ ELSE Tail(@)]
    /\ asleep' = [asleep EXCEPT ![n] = {}]
    /\ cmdev' = [cmdev EXCEPT ![n] = TRUE]
    /\ \E q \in IF acceptq[c] = <<>> THEN Peers \cup {NoPeer}
                                     ELSE {Head(acceptq[c])} :
         arg' = [arg EXCEPT ![t] = q]
    /\ Goto(t, "acc_peer")
    /\ UNCHANGED <<idr, freed, owner, rdev, closeCalls, envVars, ptr, nch,
                   tmo, todo, ret>>

\* Under rdev_sem, look the requester up in cm->peers.  Not found: put the
\* new channel and return -ENODEV.  Found: set rdev, state CONNECTED, and
\* send CONN_ACK (riocm_send_ack's result is ignored).  No reference to the
\* new channel is taken for the caller.
AcceptPeer(t) ==
    LET n == nch[t] IN
    /\ pc[t] = "acc_peer"
    /\ IF arg[t] \in peers
       THEN /\ rdev' = [rdev EXCEPT ![n] = arg[t]]
            /\ state' = [state EXCEPT ![n] = "CONNECTED"]
            /\ Goto(t, "acc_ret")
            /\ UNCHANGED <<ref, done, ret>>
       ELSE /\ PutRef(n)
            /\ Return(t, "ENODEV")
            /\ UNCHANGED <<rdev, state>>
    /\ UNCHANGED <<idr, freed, owner, cmdev, acceptq, asleep, closeCalls,
                   envVars, ptr, nch, arg, tmo, todo>>

\* cm_chan_accept: ch->filp = filp on the returned channel.
AcceptRet(t) ==
    /\ pc[t] = "acc_ret"
    /\ owner' = [owner EXCEPT ![nch[t]] = t]
    /\ Return(t, "OK")
    /\ UNCHANGED <<state, ref, idr, done, freed, rdev, cmdev, acceptq, asleep,
                   closeCalls, envVars, ptr, nch, arg, tmo, todo>>

-----------------------------------------------------------------------------
(* riocm_ch_close: called by every path below once the channel has been   *)
(* removed from ch_idr; todo[a] holds the channels a still has to close.  *)

\* Mutant of CloseBegin: wake_up_all missing.
CloseBegin_NoWake(a) ==
    /\ pc[a] = "close_begin"
    /\ \E c \in todo[a] :
         /\ ~Locked(c)
         /\ state' = [state EXCEPT ![c] = "DESTROYING"]
         /\ closeCalls' = [closeCalls EXCEPT ![c] = @ + 1]
         /\ PutRef(c)
         /\ ptr' = [ptr EXCEPT ![a] = c]
         /\ todo' = [todo EXCEPT ![a] = @ \ {c}]
         /\ Goto(a, "close_wait")
    /\ UNCHANGED <<idr, freed, owner, rdev, cmdev, acceptq, asleep, envVars,
                   nch, arg, tmo, ret>>

\* riocm_exch to DESTROYING (riocm_send_close if it was CONNECTED),
\* wake_up_all, and put the reference the registry held.
CloseBegin(a) ==
    /\ pc[a] = "close_begin"
    /\ \E c \in todo[a] :
         /\ ~Locked(c)
         /\ state' = [state EXCEPT ![c] = "DESTROYING"]
         /\ asleep' = [asleep EXCEPT ![c] = {}]
         /\ closeCalls' = [closeCalls EXCEPT ![c] = @ + 1]
         /\ PutRef(c)
         /\ ptr' = [ptr EXCEPT ![a] = c]
         /\ todo' = [todo EXCEPT ![a] = @ \ {c}]
         /\ Goto(a, "close_wait")
    /\ UNCHANGED <<idr, freed, owner, rdev, cmdev, acceptq, envVars, nch, arg,
                   tmo, ret>>

\* wait_for_completion_interruptible_timeout(&ch->comp, 3 s): completed ->
\* kfree(ch); a timeout or a signal leaves the channel allocated.  Then the
\* next channel of the sweep, or return.
CloseWait(a, ev) ==
    LET c == ptr[a] IN
    /\ pc[a] = "close_wait"
    /\ ev = "signal" => a \in Threads /\ Signals
    /\ IF ev = "done" THEN done[c] ELSE ~done[c]
    /\ freed' = IF ev = "done" THEN [freed EXCEPT ![c] = TRUE] ELSE freed
    /\ done' = IF ev = "done" THEN [done EXCEPT ![c] = FALSE] ELSE done
    /\ pc' = [pc EXCEPT ![a] = IF todo[a] = {} THEN "idle" ELSE "close_begin"]
    /\ ret' = [ret EXCEPT ![a] = CASE ev = "done"  -> "OK"
                                   [] ev = "timer" -> "ETIMEDOUT"
                                   [] OTHER        -> "EINTR"]
    /\ UNCHANGED <<state, ref, idr, owner, rdev, cmdev, acceptq, asleep,
                   closeCalls, envVars, ptr, nch, arg, tmo, todo>>

\* Mutant of ChanClose: the channel is not idr_removed before the close.
ChanClose_NoRemove(t, c) ==
    /\ pc[t] = "idle"
    /\ c \in idr /\ owner[c] = t
    /\ todo' = [todo EXCEPT ![t] = {c}]
    /\ Goto(t, "close_begin")
    /\ UNCHANGED <<chanVars, envVars, ptr, nch, arg, tmo, ret>>

\* cm_chan_close: under idr_lock find the channel, check the caller owns
\* it, idr_remove it; then riocm_ch_close.
ChanClose(t, c) ==
    /\ pc[t] = "idle"
    /\ c \in idr
    /\ IF owner[c] # t
       THEN /\ Return(t, "EINVAL")
            /\ UNCHANGED <<idr, todo>>
       ELSE /\ idr' = idr \ {c}
            /\ todo' = [todo EXCEPT ![t] = {c}]
            /\ Goto(t, "close_begin")
            /\ UNCHANGED ret
    /\ UNCHANGED <<state, ref, done, freed, owner, rdev, cmdev, acceptq,
                   asleep, closeCalls, envVars, ptr, nch, arg, tmo>>

\* riocm_cdev_release: the file is closed; every channel it still owns is
\* removed from ch_idr under idr_lock and then closed.
CdevRelease(t) ==
    LET own == {c \in idr : owner[c] = t} IN
    /\ pc[t] = "idle"
    /\ own # {}
    /\ idr' = idr \ own
    /\ todo' = [todo EXCEPT ![t] = own]
    /\ Goto(t, "close_begin")
    /\ UNCHANGED <<state, ref, done, freed, owner, rdev, cmdev, acceptq,
                   asleep, closeCalls, envVars, ptr, nch, arg, tmo, ret>>

-----------------------------------------------------------------------------
(* rio_cm_handler on riocm_wq: one inbound control message per work item. *)

\* riocm_req_handler / riocm_resp_handler: riocm_get_channel and the state
\* check, read without ch->lock; a channel in the wrong state is put back.
\* riocm_close_handler: idr_remove under idr_lock, riocm_exch to
\* DISCONNECT, then riocm_ch_close.
Expect(op) == IF op = "CONN_REQ" THEN "LISTEN" ELSE "CONNECT"

WqTake ==
    LET m == Head(ctlq)
        c == m.ch
    IN
    /\ pc[WQ] = "idle"
    /\ mportUp
    /\ ctlq # <<>>
    /\ ctlq' = Tail(ctlq)
    /\ CASE c \notin idr ->
              UNCHANGED <<state, ref, done, idr, pc, ptr, arg, todo>>
         [] c \in idr /\ m.op = "CONN_CLOSE" ->
              /\ ~Locked(c)
              /\ idr' = idr \ {c}
              /\ state' = [state EXCEPT ![c] = "DISCONNECT"]
              /\ ptr' = [ptr EXCEPT ![WQ] = c]
              /\ todo' = [todo EXCEPT ![WQ] = {c}]
              /\ Goto(WQ, "close_begin")
              /\ UNCHANGED <<ref, done, arg>>
         [] c \in idr /\ m.op # "CONN_CLOSE" /\ state[c] # Expect(m.op) ->
              /\ GetPutRef(c)
              /\ UNCHANGED <<state, idr, pc, ptr, arg, todo>>
         [] c \in idr /\ m.op # "CONN_CLOSE" /\ state[c] = Expect(m.op) ->
              /\ ref' = [ref EXCEPT ![c] = @ + 1]
              /\ ptr' = [ptr EXCEPT ![WQ] = c]
              /\ arg' = [arg EXCEPT ![WQ] = m.from]
              /\ Goto(WQ, IF m.op = "CONN_REQ" THEN "req_add" ELSE "ack_set")
              /\ UNCHANGED <<state, done, idr, todo>>
    /\ UNCHANGED <<freed, owner, rdev, cmdev, acceptq, asleep, closeCalls,
                   peers, mportUp, inbound, nch, tmo, ret>>

\* rio_cm_handler with rio_mport_is_running() false (the mport is going
\* away): the work item is freed unhandled.
WqDrop ==
    /\ pc[WQ] = "idle"
    /\ ~mportUp
    /\ ctlq # <<>>
    /\ ctlq' = Tail(ctlq)
    /\ UNCHANGED <<chanVars, peers, mportUp, inbound, actVars>>

\* Mutant of ReqAdd: req->destid left as kzalloc'ed (0, no device).
ReqAdd_ZeroDestid ==
    LET c == ptr[WQ] IN
    /\ pc[WQ] = "req_add"
    /\ ~Locked(c)
    /\ acceptq' = [acceptq EXCEPT ![c] = Append(@, NoPeer)]
    /\ WakeOne(c)
    /\ PutRef(c)
    /\ Return(WQ, "OK")
    /\ UNCHANGED <<state, idr, freed, owner, rdev, cmdev, closeCalls, envVars,
                   ptr, nch, arg, tmo, todo>>

\* riocm_req_handler, second half: under ch->lock append the conn_req and
\* wake_up one accepting thread; put the channel.
ReqAdd ==
    LET c == ptr[WQ] IN
    /\ pc[WQ] = "req_add"
    /\ ~Locked(c)
    /\ acceptq' = [acceptq EXCEPT ![c] = Append(@, arg[WQ])]
    /\ WakeOne(c)
    /\ PutRef(c)
    /\ Return(WQ, "OK")
    /\ UNCHANGED <<state, idr, freed, owner, rdev, cmdev, closeCalls, envVars,
                   ptr, nch, arg, tmo, todo>>

\* riocm_resp_handler, second half: riocm_exch to CONNECTED, wake_up, put.
AckSet ==
    LET c == ptr[WQ] IN
    /\ pc[WQ] = "ack_set"
    /\ ~Locked(c)
    /\ state' = [state EXCEPT ![c] = "CONNECTED"]
    /\ WakeOne(c)
    /\ PutRef(c)
    /\ Return(WQ, "OK")
    /\ UNCHANGED <<idr, freed, owner, rdev, cmdev, acceptq, closeCalls,
                   envVars, ptr, nch, arg, tmo, todo>>

\* rio_ibmsg_handler -> rio_cm_handler queueing: a remote node sends a
\* control message for any channel number (riocm_inb_msg_event).
RemoteMsg(m) ==
    /\ mportUp
    /\ inbound < MaxInbound
    /\ ctlq' = Append(ctlq, m)
    /\ inbound' = inbound + 1
    /\ UNCHANGED <<chanVars, peers, mportUp, actVars>>

-----------------------------------------------------------------------------
(* The RapidIO core: riocm_add_dev, riocm_remove_dev, riocm_remove_mport. *)

RemoteAddDev(p) ==
    /\ pc[LC] = "idle"
    /\ mportUp /\ p \notin peers
    /\ peers' = peers \cup {p}
    /\ UNCHANGED <<chanVars, mportUp, ctlq, inbound, actVars>>

\* riocm_remove_dev: drop the peer, then under idr_lock exchange every
\* channel on that rdev to DISCONNECT and idr_remove it, then close them.
RemoteRemoveDev(p) ==
    LET gone == {c \in idr : rdev[c] = p} IN
    /\ pc[LC] = "idle"
    /\ CoreEvents
    /\ mportUp /\ p \in peers
    /\ \A c \in gone : ~Locked(c)
    /\ peers' = peers \ {p}
    /\ idr' = idr \ gone
    /\ state' = [c \in Chans |-> IF c \in gone THEN "DISCONNECT" ELSE state[c]]
    /\ todo' = [todo EXCEPT ![LC] = gone]
    /\ Goto(LC, IF gone = {} THEN "idle" ELSE "close_begin")
    /\ UNCHANGED <<ref, done, freed, owner, rdev, cmdev, acceptq, asleep,
                   closeCalls, mportUp, ctlq, inbound, ptr, nch, arg, tmo, ret>>

\* riocm_remove_mport, first part: list_del of the cm_dev under rdev_sem.
RemoveMport ==
    /\ pc[LC] = "idle"
    /\ CoreEvents
    /\ mportUp
    /\ mportUp' = FALSE
    /\ Goto(LC, "mp_flush")
    /\ UNCHANGED <<chanVars, peers, ctlq, inbound, ptr, nch, arg, tmo, todo,
                   ret>>

\* ... flush_workqueue(riocm_wq) returns once the queue is drained; then
\* under idr_lock every channel with ch->cmdev == cm is idr_removed and
\* closed.
MportFlush ==
    LET gone == {c \in idr : cmdev[c]} IN
    /\ pc[LC] = "mp_flush"
    /\ ctlq = <<>> /\ pc[WQ] = "idle"
    /\ idr' = idr \ gone
    /\ todo' = [todo EXCEPT ![LC] = gone]
    /\ Goto(LC, IF gone = {} THEN "idle" ELSE "close_begin")
    /\ UNCHANGED <<state, ref, done, freed, owner, rdev, cmdev, acceptq, asleep,
                   closeCalls, envVars, ptr, nch, arg, tmo, ret>>

-----------------------------------------------------------------------------
Next ==
    \/ \E t \in Threads :
         \/ CreatePublish(t) \/ CreateInit(t) \/ CdevRelease(t)
         \/ \E c \in Chans : Bind(t, c) \/ Listen(t, c) \/ ChanClose(t, c)
         \/ \E c \in Chans, p \in Peers : ConnectStart(t, c, p)
         \/ ConnectPost(t) \/ ConnectLock(t)
         \/ \E ev \in {"wake", "timer", "signal"} :
              ConnectWait(t, ev) \/ AcceptWait(t, ev)
         \/ \E c \in Chans, tm \in {"finite", "infinite"} : AcceptStart(t, c, tm)
         \/ AcceptAlloc(t) \/ AcceptInit(t) \/ AcceptPeer(t) \/ AcceptRet(t)
    \/ \E a \in Actors :
         CloseBegin(a) \/ \E ev \in {"done", "timer", "signal"} : CloseWait(a, ev)
    \/ WqTake \/ WqDrop \/ ReqAdd \/ AckSet
    \/ \E m \in CtlMsgs : RemoteMsg(m)
    \/ \E p \in Peers : RemoteAddDev(p) \/ RemoteRemoveDev(p)
    \/ RemoveMport \/ MportFlush

\* Once started, a procedure's steps are taken (the kernel schedules the
\* thread again, timers fire, the work queue runs); a wake-up is delivered
\* once the sleeper has been removed from the wait queue.  Nothing forces a
\* thread to start an ioctl, a remote node to send, or a signal.
Fairness ==
    /\ \A t \in Threads :
         /\ WF_vars(CreateInit(t))
         /\ WF_vars(ConnectPost(t) \/ ConnectLock(t))
         /\ WF_vars(ConnectWait(t, "wake")) /\ WF_vars(ConnectWait(t, "timer"))
         /\ WF_vars(AcceptWait(t, "wake")) /\ WF_vars(AcceptWait(t, "timer"))
         /\ WF_vars(AcceptAlloc(t) \/ AcceptInit(t) \/ AcceptPeer(t)
                    \/ AcceptRet(t))
    /\ \A a \in Actors :
         /\ WF_vars(CloseBegin(a))
         /\ WF_vars(\E ev \in {"done", "timer"} : CloseWait(a, ev))
    /\ WF_vars(WqTake \/ WqDrop \/ ReqAdd \/ AckSet)
    /\ WF_vars(MportFlush)

Spec == Init /\ [][Next]_vars /\ Fairness

-----------------------------------------------------------------------------
(* Properties.                                                             *)

TypeOK ==
    /\ state \in [Chans -> States \cup {"NONE"}]
    /\ ref \in [Chans -> Int]
    /\ idr \subseteq Chans
    /\ done \in [Chans -> BOOLEAN] /\ freed \in [Chans -> BOOLEAN]
    /\ owner \in [Chans -> Threads \cup {NoCh}]
    /\ rdev \in [Chans -> Peers \cup {NoPeer}]
    /\ cmdev \in [Chans -> BOOLEAN]
    /\ acceptq \in [Chans -> Seq(Peers)]
    /\ asleep \in [Chans -> SUBSET Threads]
    /\ closeCalls \in [Chans -> Nat]
    /\ peers \subseteq Peers /\ mportUp \in BOOLEAN
    /\ ctlq \in Seq(CtlMsgs) /\ inbound \in 0..MaxInbound
    /\ ptr \in [Actors -> Chans \cup {NoCh}]
    /\ nch \in [Actors -> Chans \cup {NoCh}]
    /\ todo \in [Actors -> SUBSET Chans]

\* The channel a procedure is touching at its current step.
InUse(a) ==
    (IF pc[a] \in {"conn_post", "conn_lock", "conn_wait", "acc_wait",
                   "acc_alloc", "acc_init", "req_add", "ack_set"}
     THEN {ptr[a]} ELSE {})
    \cup (IF pc[a] \in {"acc_init", "acc_peer", "acc_ret"} THEN {nch[a]} ELSE {})

\* A channel published in ch_idr but whose kref_init has not run yet.
InAllocWindow(c) ==
    \E a \in Actors : \/ pc[a] = "create_init" /\ ptr[a] = c
                      \/ pc[a] = "acc_init" /\ nch[a] = c

\* Every path that closes a channel (cm_chan_close, riocm_close_handler,
\* riocm_remove_dev, riocm_remove_mport, riocm_cdev_release) first removes
\* it from ch_idr under idr_lock, so riocm_ch_close -- which puts the
\* registry's reference -- runs at most once per channel, however the user,
\* the remote node and the RapidIO core race.
CloseAtMostOnce == \A c \in Chans : closeCalls[c] <= 1

\* riocm_ch_close's wake_up_all: a thread sleeping in accept or connect on a
\* channel that is being destroyed eventually returns from the ioctl, even
\* with an infinite accept timeout.
WaitersLeaveOnClose ==
    \A t \in Threads :
        (pc[t] \in {"acc_wait", "conn_wait"} /\ state[ptr[t]] = "DESTROYING")
            ~> pc[t] = "idle"

\* ch_idr holds one reference on each channel it publishes (kref_init at
\* riocm_ch_alloc, dropped by riocm_ch_close after idr_remove): a published,
\* initialised channel never has a count below 1.
RegistryHoldsRef ==
    \A c \in idr : InAllocWindow(c) \/ ref[c] >= 1

\* No procedure step touches a channel that riocm_ch_close has kfree'd.
NoUseAfterFree == \A a \in Actors : \A c \in InUse(a) : ~freed[c]

\* DESTROYING is final: once riocm_ch_close has exchanged the state, no
\* handler moves the channel to another state.
DestroyingIsFinal ==
    [][\A c \in Chans : state[c] = "DESTROYING" => state'[c] = "DESTROYING"]_vars

\* riocm_ch_free releases everything the channel owns: a kfree'd channel
\* has no conn_req left on its accept queue.
FreedHoldsNoRequests == \A c \in Chans : freed[c] => acceptq[c] = <<>>

\* Spec section 8: a connect that returns an error leaves the channel Idle
\* (or on its way to Destroying: DISCONNECT is set by riocm_remove_dev and
\* riocm_close_handler just before riocm_ch_close)
\* or Destroying.
ConnectErrorLeavesIdle ==
    [][\A t \in Threads :
         (pc[t] \in {"conn_post", "conn_lock", "conn_wait"} /\ pc'[t] = "idle"
            /\ ret'[t] # "OK")
         => state'[ptr[t]] \in {"IDLE", "DISCONNECT", "DESTROYING"}]_vars

=============================================================================
