# TLA+ models of the RapidIO channel manager (src/rio_cm.c)

`rio_cm` is a Linux kernel driver. It gives user space connection-oriented
"channels" over RapidIO mailbox messages. The models here cover the parts of
it where concurrency, reference counting and bounded rings make the
behaviour hard to test.

## The system

| Part | Code | State | Who runs it |
|---|---|---|---|
| TX engine | `riocm_post_send`, `rio_txcq_handler`, `riocm_outb_msg_event` | `cm->tx_buf[]`, `tx_slot`, `tx_ack_slot`, `tx_cnt`, `tx_reqs` list | any sender (ioctl threads, the work queue, the close path); the TX completion interrupt |
| Channel registry | `riocm_ch_alloc`, `riocm_get_channel`, `riocm_put_channel`, `riocm_ch_free`, `riocm_ch_close` | `ch_idr`, per-channel `kref`, `comp` | everyone |
| Channel state machine | `riocm_ch_bind/listen/connect/accept/close`, the two wait loops | `ch->state`, `accept_queue`, `wait_q` | ioctl threads |
| Control work queue | `rio_cm_handler` -> `riocm_req_handler`, `riocm_resp_handler`, `riocm_close_handler` | as above | the single-threaded `riocm_wq` |
| Inbound dispatcher, RX pool | `rio_ibmsg_handler`, `riocm_rx_fill`, `riocm_rx_get_msg` | `cm->rx_buf[]`, `rx_slots` | RX tasklet |
| Receive ring | `rio_rx_data_handler`, `riocm_ch_receive`, `riocm_ch_free_rxbuf` | `ch->rx_ring` | RX tasklet, ioctl threads |
| RapidIO core callbacks | `riocm_add_dev`, `riocm_remove_dev`, `riocm_add_mport`, `riocm_remove_mport` | `cm->peers`, `cm_dev_list` | the RapidIO core |
| cdev adaptor | `cm_chan_*`, `riocm_cdev_release` | `ch->filp` | ioctl threads |

How they interact:
- Every channel operation that sends (connect, accept's ACK, close) goes
  through the TX engine.
- Inbound control messages go from the RX tasklet to `riocm_wq`.
- Its handlers look channels up in `ch_idr`, change their state and wake the
  threads sleeping on `wait_q`.
- Five paths can close a channel: an ioctl close, closing the file, a remote
  CONN_CLOSE, removing the peer device and removing the mport. Each one first
  removes the channel from `ch_idr` under `idr_lock`. It then calls
  `riocm_ch_close`, which puts the registry's reference and waits up to 3 s
  for the last reference to go.

## Modules

### RioTx — the TX engine (`RioTx.tla`, `MC_RioTx.tla`)

Variables:
- `txBuf`, `txSlot`, `txAck`, `txCnt` and `txReqs` are the `cm_dev` fields
  of the same names.
- `hw` is the transport's queue of accepted messages, oldest first.
- `hwTail` is the transport's descriptor index of the oldest one.
- `sent` is the order in which the transport accepted messages.
- `msgs` is each `riocm_post_send` call's operation and return code.
- `frees` counts the kfree's of each message's buffer; `reqFails` counts
  failed `tx_req` allocations (bounded by `MaxTxReqFail`).

Actions:
- `riocm_post_send(op, m)` is the whole of the code's body for message `m`
  of `op` (DATA or a control header). A full ring defers control messages
  to the tail of `tx_reqs` and returns -EBUSY, or returns -ENOMEM when the
  GFP_ATOMIC `tx_req` allocation fails. Otherwise the message is stored,
  handed to the transport, and `tx_cnt`/`tx_slot` advance.
- Its callers are the actions, each with what it does with the buffer:
  `cm_chan_msg_send` (via `riocm_ch_send`, req = 0) kfree's its kmalloc'ed
  copy whatever the result; `riocm_send_close` keeps its kzalloc'ed header
  on -EBUSY (the `tx_req` owns it) and kfree's it otherwise;
  `SendStackHdr` is `riocm_ch_connect` and `riocm_send_ack`, whose headers
  live on the stack. The checks before the call return without touching
  the engine and are left out.
- `rio_txcq_handler(k)` is the completion interrupt after the transport
  finished its `k` oldest messages. It runs the clearing loop (`AckLoop`,
  RECURSIVE) and then the refill from `tx_reqs`, kfree'ing each request's
  buffer.

The transport is assumed to complete messages in FIFO order. Its completion
callback reports the slot after the last completed one, and several
completions may be coalesced into one callback. This is the contract
`rio_txcq_handler`'s loop relies on. `TransportRejects` lets the transport
refuse DATA messages, as `rio_add_outb_message` does for bad lengths.

### RioChannel — channels, registry, handshake and close (`RioChannel.tla`, `MC_RioChannel.tla`)

Actors:
- user threads (`Threads`), each with its own open file;
- the work queue `"wq"`;
- the RapidIO core `"lc"`.

Each actor runs one procedure at a time. `pc[a]` is its position in the
procedure, and the locals are `ptr`, `nch`, `arg`, `tmo`, `todo` and `ret`.
A procedure is cut into steps where the code drops a lock, sleeps or returns.
An element of `Chans` is one `riocm_ch_alloc`, so ids are never reused.

| Action | Code |
|---|---|
| `CreatePublish`, `CreateInit` | `riocm_ch_create`/`riocm_ch_alloc` in two steps: `idr_alloc` publishes the zeroed object, then state, `init_completion` and `kref_init`; `cm_chan_create` sets `filp` |
| `Bind`, `Listen` | `riocm_ch_bind`, `riocm_ch_listen` |
| `ConnectStart`, `ConnectPost`, `ConnectLock`, `ConnectWait` | `riocm_ch_connect` and `riocm_wait_for_connect_resp` |
| `AcceptStart`, `AcceptWait`, `AcceptAlloc`, `AcceptInit`, `AcceptPeer`, `AcceptRet` | `riocm_ch_accept`, `riocm_wait_for_connect_req`, `cm_chan_accept` |
| `CloseBegin`, `CloseWait` | `riocm_ch_close` (exchange to DESTROYING, `wake_up_all`, put, then the 3 s wait on `comp`) |
| `ChanClose`, `CdevRelease` | `cm_chan_close`, `riocm_cdev_release` |
| `WqTake`, `WqDrop`, `ReqAdd`, `AckSet` | `rio_cm_handler` and its handlers; the handlers' unlocked state check and their locked update are separate steps |
| `RemoteMsg` | a remote node sends a control message for any channel id |
| `RemoteAddDev`, `RemoteRemoveDev`, `RemoveMport`, `MportFlush` | `riocm_add_dev`, `riocm_remove_dev`, `riocm_remove_mport` |

More modelling details:
- `Locked(c)` is true while accept holds the listening channel's lock across
  the allocation of the new channel. Every other step that takes `ch->lock`
  waits for it.
- The TX path appears only as the result `riocm_post_send` can return.
- `kref` is the `atomic_t` counter, which can go below zero.
- `done[c]` is the completion. `freed[c]` means the `kfree` in
  `riocm_ch_close` has run.

### RioRxRing — one channel's receive ring (`RioRxRing.tla`, `MC_RioRxRing.tla`, `RxQueue.tla`)

Actors: the RX tasklet delivering data messages (`RX`), user threads in
`cm_chan_msg_rcv` (`Threads`), and one closer (`CL`: `cm_chan_close` or
`riocm_close_handler`, then `riocm_ch_close`).

- State: `ch->rx_ring` (`rbuf`, `head`, `tail`, `count`, `inuse`,
  `inuseCnt`), the channel's `state`, its presence in `ch_idr`, its kref
  (`ref`) and completion (`done`); the wait queue as a FIFO of thread ids
  (`waitq`) plus each task's running flag, so that exclusive `wake_up`,
  `wake_up_all`, `prepare_to_wait_exclusive`, `finish_wait`, timers and
  signals behave as in the kernel. Messages are the numbers `1..MaxMsgs`,
  in arrival order; `frees` counts the kfree's of each.
- Actions: `RxGet`/`RxPush` (`rio_rx_data_handler`), `RcvStart`
  (`riocm_get_channel` and the timeout choice), `RcvCheck` (`riocm_comp` and
  the unlocked `inuse_cnt` test), `RcvLock`, `RcvSleep`, `RcvWake`,
  `RcvTimer`, `RcvRelock` (one per step of `riocm_wait_for_rx_data`, its
  exits in the code's order), `Pop` (the take and the `inuse[]` record),
  `RcvFree` (`riocm_ch_free_rxbuf`), `RcvPut`, `Signal`, and the closer's
  `CloseBegin`, `CloseWake`, `CloseWait` (with the 3 s timeout's leak).
  `riocm_ch_free`'s kfree's happen in `Release`, when the last reference
  goes.
- `RxQueue` is what the ring promises: a bounded FIFO that accepts while
  open, hands out from the head, and is discarded after close.
  `RxQueueRefinement` checks `RioRxRing` against it with the mapping
  q = the ring's window `tail..tail+count` (empty once the channel is
  freed), open = `state = "CONNECTED"`.

### RioRx — the RX pool, mailbox and tasklet (`RioRx.tla`, `MC_RioRx.tla`)

- State: how far `riocm_add_mport`/`riocm_remove_mport` have got (`phase`),
  `cm->rx_buf[]` as a set of non-NULL slots (`rxBuf`), `rx_slots`, the
  buffers posted to the inbound mailbox and the received messages it holds,
  both oldest first, `tasklet_init` done, `TASKLET_STATE_SCHED`, the
  tasklet's loop position (`tpc`, `iter`) and a bound on failed
  allocations.
- Actions: `AddFill` (`rx_buf[]` cleared and `riocm_rx_fill(cm, SIZE)`,
  stopping at the first failure), `AddInit` (`tasklet_init` and listing),
  `Arrive` (a message lands, `riocm_inb_msg_event` schedules the tasklet),
  `TaskletStart`, `TaskletIter` (one loop iteration: `riocm_rx_get_msg`,
  `riocm_rx_fill(cm, 1)`, the work-item allocation for a control message,
  the reschedule after `Burst`), `RemUnlist`, `RemKill`, `RemRelease`,
  `RemFree` (`riocm_rx_free`, `kfree(cm)`).
- What is done with a message after it is fetched is RioRxRing's and
  RioChannel's part.

### RioSession and RioLink — one connection seen from both nodes (`RioSession.tla`, `RioLink.tla`, `MC_RioLink.tla`)

RioSession is what a connection promises its two users, abstractly:
- `req` is the requester (idle, connecting, open, closed).
- `acc` is the acceptor's side (none, open, closed).
- `notice` holds the close notices in flight, and `lostN` counts the lost ones.

It allows what the driver allows: a requester that stays connecting, and
an acceptor opened after its requester gave up (half-open). Its fairness
is only that a notice in flight is eventually delivered, written out as
`DeliverFair`.

RioLink puts node A's connecting channels (`ReqChans`) and node B's
listener `lb` in one model. B's accepted channels take their ids from
`AccChans`.
- `st`, `idr` and `remCh` are `ch->state`, `ch_idr` and `ch->rem_channel`.
- `acceptq` is `lb`'s accept queue.
- `net[n]` holds the control messages on their way to node n, in order.
  The TX ring keeps them in order (RioTx's `ControlFifo`), and so do the RX
  tasklet and the single-threaded `riocm_wq`.
- `pcA[c]` and `pcB` are where the connect and accept threads are.
- A message is lost when a GFP_ATOMIC allocation fails. That is either
  `riocm_post_send`'s `tx_req` on a full ring or `rio_ibmsg_handler`'s
  work item. At most `MaxLoss` are lost, and `dropped` records them.

Actions:
- `ConnectStart`, `ConnectPost`, `ConnectLock` and `ConnectWait` are
  `riocm_ch_connect`, cut at its post and at `ch->lock`.
- `AcceptStart`, `AcceptWait` and `AcceptTake` are `riocm_ch_accept`.
  `AcceptTake` ignores the result of `riocm_send_ack`, as the code does.
- `ChanClose` is `cm_chan_close` followed by `riocm_ch_close`, which sends
  CONN_CLOSE only from CONNECTED.
- `Receive(n)` is `rio_ibmsg_handler` followed by `rio_cm_handler`'s three
  handlers. `riocm_resp_handler` takes two steps, as RioChannel's does.
  `Receive` makes the unlocked CONNECT check (line 426) and leaves the
  message in `wqAck`. `RespExch` is the `riocm_exch` to CONNECTED (line
  431), whatever the state is by then. A user's close of the channel can
  run between the two, and the channel's DESTROYING is then overwritten.
  Node A's next work item waits for `RespExch`, because `riocm_wq` is
  single-threaded.
- Reference counts are RioChannel's and are not modelled here.

The refinement mapping is per requester channel `c`:
- `ReqView(c)` is c's state as its user sees it. A channel out of `ch_idr`
  is closed, since every ioctl on its id fails in `riocm_get_channel`.
  That is what makes the late CONN_ACK above a stuttering step of the
  contract. Mapped to `ch->state` alone, that step takes the requester
  from closed back to open, and TLC reports the refinement violated. The
  damage that overwrite does inside one node is shown by
  `destroying_overwritten` (`DestroyingIsFinal`). One effect of it does
  reach a user: a connect thread still waiting, with its channel closed
  by another thread, returns 0.
- `AccView(c)` is the state of the channel B accepted for c.
- `NoticeView(c)` is a CONN_CLOSE in flight between the two.
- `LostView(c)` counts their lost CONN_CLOSEs.

`SessionRefinement` is `Session(c)!Spec` for every `c`. TLC checks a `[]`
only outside a quantifier, so the quantifier is moved inside it.

## Runs

| Run | Checks | Result |
|---|---|---|
| `tx_ring` (RioTx.cfg) | `TypeOK`, `TxCountTracksTransport`, `DeferredOnlyWhenFull`, `ControlFifo`, `ControlEventuallySent`, `HeapBuffersFreedOnce` | pass: every control message the engine accepted reaches the transport in call order, and every heap buffer is kfree'd exactly once, by the caller or, after a deferral, by `rio_txcq_handler` |
| `tx_stack_header` (RioTx_StackBuf.cfg) | `DeferredBufferOwned` | violated: a stack header from connect or accept's ACK is deferred, then sent and kfree'd after its frame is gone |
| `channels` (RioChannel.cfg) | `TypeOK`, `CloseAtMostOnce`, `WaitersLeaveOnClose` | pass: each channel is closed at most once, and waiters in accept or connect return when it is destroyed |
| `accept_peer_gone` | `RegistryHoldsRef` | violated: accept puts the new channel but leaves it in `ch_idr` |
| `accept_use_after_free` | `NoUseAfterFree` | violated: `riocm_remove_dev` frees the accepted channel before `cm_chan_accept` sets `filp` |
| `destroying_overwritten` | `DestroyingIsFinal` | violated: a CONN_CLOSE during `riocm_ch_alloc`'s window; `riocm_ch_alloc` then resets the channel to IDLE |
| `rx_ring` (RioRxRing.cfg) | `TypeOK`, `RxBuffersFreedExactlyOnce`, `NoAcceptedMessageLost`, `RxQueueRefinement`, `ReceiverWithTimeoutReturns` | pass: buffers freed once, nothing accepted lost, the ring refines `RxQueue`, and a reader with a timeout always returns |
| `rx_close_race` (RioRxRing_Close.cfg) | `ReceiverReturnsOnClose` | violated: a receiver that checked CONNECTED before the close misses `wake_up_all` and sleeps forever; the close leaks the channel |
| `rx_inuse_race` (RioRxRing_Race.cfg) | `NoAcceptedMessageLost` | violated: two receivers pass the unlocked `inuse_cnt` test and the second kfree's the message it popped |
| `rx_pool` (RioRx.cfg) | `TypeOK`, `PoolAccounting`, `InboundDrained` | pass |
| `rx_tasklet_after_free` (RioRx_KillWindow.cfg) | `NoTaskletAfterFree` | violated: a message after `tasklet_kill` leaves the tasklet scheduled when `cm` is freed |
| `link` (RioLink.cfg) | `TypeOK`, `SessionRefinement` | pass: with two connections, any one control message lost, and a late CONN_ACK racing a close, every requester channel implements RioSession. It is CONNECTED only by the CONN_ACK of the channel accepted for it. A close notice is delivered or counted lost, and one in flight is eventually delivered |

PROJECT.json lists the findings these violations support, and the hazards
with the properties that cover them.

### Further configurations

These configurations are kept beside the runs and are not in PROJECT.json's
run list. Run each with `tlc -config <cfg> MC_<module>`.

| Cfg | Checks | What TLC reports |
|---|---|---|
| RioChannel_T2.cfg | `TypeOK`, `CloseAtMostOnce` | hold, with two threads racing on the same ids (about 140 s); an acceptor that loses a request goes back to sleep |
| RioTx_Reject.cfg | `ControlEventuallySent` | violated: DATA messages the transport refuses use up slots that never complete, so deferred control messages are never sent (`riocm_post_send`, line 721) |
| RioChannel_ReqLeak.cfg | `FreedHoldsNoRequests` | violated: a listening channel's queued `conn_req`s are never freed (line 1432) |
| RioChannel_ConnectTimeout.cfg | `ConnectErrorLeavesIdle` | violated: a connect timeout leaves CONNECT, where spec section 8 says Idle (line 1069) |
| RioRxRing_Strand.cfg | `DataNotStrandedWhileWaiting` | violated: the receiver picked by the exclusive `wake_up` returns -EINTR and the other stays asleep beside the data (line 823). It holds without signals |
| RioRxRing_Bound.cfg | `RingInuseBound` | violated: `count + inuse_cnt` exceeds the ring size spec section 8 states, because `rio_rx_data_handler` bounds `count` only (line 539) |
| RioRx_Replenish.cfg | `PoolReplenished` | violated: `rio_ibmsg_handler` refills one slot per message, so a failed GFP_ATOMIC refill empties a pool slot for good (line 345) |
| RioLink_HalfOpen.cfg | `HalfOpenResolved` | violated, with no message lost: a requester closed while CONNECT sends no CONN_CLOSE (line 1506). The request already queued at `lb` is then accepted, and the accepted channel stays CONNECTED for nobody |
| RioRx_InitWindow.cfg | `TaskletInitialisedWhenScheduled` | violated: a message that arrives after `riocm_rx_fill` and before `tasklet_init` schedules an uninitialised tasklet (line 2187) |

## Bounds

RioTx uses a ring of 2 slots, 5 posts and one failing `tx_req` allocation
(none in its further configurations). The ring therefore fills, wraps
and defers more than one request, and the deferred requests later refill it.
The completion loop's wrap case (`tx_cnt == SIZE` with `ack == slot`) is
reached.

RioChannel:
- Two channel objects: a listening channel plus the channel accept creates.
- One peer device.
- One or two inbound control messages.
- One inbound control message in `channels`.
- One user thread. RioChannel_T2.cfg uses two threads, with only
  CONN_REQ messages, no signals (`Signals = FALSE`) and no device or mport
  removal (`CoreEvents = FALSE`), to keep the state space within reach.

RioRxRing uses a ring of 2 slots, 2 receivers and up to 3 data messages.
That fills the ring, wraps `head` and `tail`, lends every `inuse[]` entry,
and lets every wait-loop exit happen. `rx_inuse_race` uses a ring of 1 slot,
so that two receivers are more than its `inuse[]` entries.
RioRx uses a pool of 3 buffers, bursts of 2 (for the code's 128 and 8: a
burst smaller than the pool is what makes the self-reschedule matter) and
one failed allocation; its violation runs use a pool of 2.

RioLink uses two requester channels, two accepted-channel ids and one lost
message. Two connections share the queues and the accept queue, so a
CONN_ACK or CONN_CLOSE can overtake another connection's traffic. The loss
can hit any control message at either end. The run takes about 40 s and
reaches 70,996 states. RioLink_HalfOpen.cfg uses one connection and no loss.

RioChannel_T2.cfg uses a `VIEW` that ignores an idle actor's locals, which
no later step reads before setting them again, and symmetry over threads
and channel objects, which are interchangeable in the model. `channels`
checks a liveness property and uses neither.

Runs stop at `CHECK_DEADLOCK FALSE`: behaviours end when the allocation and
message bounds are used up, although the driver itself never stops.
`WaitersLeaveOnClose` is the check that nobody is left blocked. In RioRx
the behaviour really ends: after `riocm_remove_mport` has freed the
`cm_dev`, nothing is enabled.

## Fairness

- RioTx: the completion interrupt is weakly fair. The transport completes
  what it accepted.
- RioChannel: each step of a procedure that has started is weakly fair. The
  kernel schedules runnable threads, timers expire, and the work queue runs
  its items.
- RioRxRing: the tasklet finishes the message it took, each started
  receive step is weakly fair (a woken task runs, a finite timer expires),
  and the closer's wake-up and 3 s wait end. A thread blocked without a
  timeout has no fair step until someone wakes it.
  `ReceiverWithTimeoutReturns` rests on the finite timer: with it weakly
  fair, a reader that keeps losing the data to the other reader still
  leaves with -ETIME.
- RioRx: a scheduled tasklet runs and a running one finishes its loop.
  `PoolReplenished` is checked under `SpecSending`, which adds that remote
  nodes keep sending while the mailbox has buffers, the most a refill that
  depends on traffic could ask for.
- RioLink: each node's `Receive` and A's `RespExch` are weakly fair. The RX tasklet and
  `riocm_wq` run what is queued. The user threads have no fairness.
- A wake-up is fair only once the sleeper has been taken off the wait queue.
- Nothing forces a thread to start an ioctl, a remote node to send, or a
  signal to arrive.

## Not modelled (yet)

- The data path from `riocm_ch_send` on one node to the receive ring of
  another: RioTx models the sender's side, RioRxRing the receiver's.
- A composition of RioRx with RioChannel: a work item dropped for want of
  memory loses a CONN_CLOSE, and a channel leaked by a timed-out close
  still points to the `cm_dev` that `riocm_remove_mport` frees.
- In RioLink: the listener's own close, reference counts and data. These
  are RioChannel's and RioRxRing's. The TX ring is abstracted to the order
  it keeps and the `tx_req` allocation it may fail.
- Module init/exit and the shutdown notifier (`riocm_init`, `riocm_exit`,
  `rio_cm_shutdown`): registration calls run once, and the notifier's
  `riocm_send_close` under `idr_lock` (a GFP_KERNEL allocation in atomic
  context) is below the model's step granularity. Header byte-order coding, the ioctl copy-in/copy-out and
  the listing ioctls.
- `src/config/rapidio.conf`, which is a modprobe options file.
