--------------------------------- MODULE RioRx ---------------------------------
(***************************************************************************)
(* The inbound side of one cm_dev of rio_cm (src/rio_cm.c): the RX buffer  *)
(* pool (cm->rx_buf[], cm->rx_slots), the inbound mailbox that holds the   *)
(* pool's buffers, and the RX tasklet (rio_ibmsg_handler) that drains it,  *)
(* from riocm_add_mport to riocm_remove_mport.                            *)
(*                                                                         *)
(* Actors:                                                                 *)
(*  - the RapidIO core ("lc"): riocm_add_mport and riocm_remove_mport;     *)
(*  - the transport: a remote message lands in the oldest buffer posted    *)
(*    to the mailbox and the mailbox interrupt runs riocm_inb_msg_event,   *)
(*    which schedules the tasklet;                                         *)
(*  - the tasklet, one loop iteration per step.                            *)
(* A pool buffer is named by its rx_buf[] index: kmalloc returns a fresh   *)
(* pointer and riocm_rx_get_msg finds it again by comparing pointers.      *)
(* What the tasklet does with a message after taking it (RioRxRing,        *)
(* RioChannel) is abstracted to the one allocation a control message       *)
(* needs.  rio_mport_is_running is taken to be true throughout.            *)
(***************************************************************************)
EXTENDS Integers, Sequences, FiniteSets, SequencesExt

CONSTANTS
    PoolSize,      \* RIOCM_RX_RING_SIZE (pool and mailbox ring size)
    Burst,         \* messages rio_ibmsg_handler handles per run (8)
    MaxAllocFail   \* bound on failing GFP_ATOMIC allocations

ASSUME /\ PoolSize \in Nat \ {0} /\ Burst \in Nat \ {0}
       /\ MaxAllocFail \in Nat

Slots == 0..PoolSize - 1
Kinds == {"data", "ctl"}           \* CM_DATA_MSG or a control ch_op
Msg == [slot : Slots, kind : Kinds]

VARIABLES
    phase,       \* how far riocm_add_mport / riocm_remove_mport has got
    rxBuf,       \* rxBuf[i]: cm->rx_buf[i] # NULL
    rxSlots,     \* cm->rx_slots
    posted,      \* empty buffers the mailbox holds, oldest first
    filled,      \* received messages not yet fetched, oldest first
    tinit,       \* tasklet_init(&cm->rx_tasklet) has run
    sched,       \* TASKLET_STATE_SCHED of cm->rx_tasklet
    tpc,         \* the tasklet is "idle" or in its loop ("run")
    iter,        \* the loop counter i of rio_ibmsg_handler
    allocFails   \* failed allocations so far

vars == <<phase, rxBuf, rxSlots, posted, filled, tinit, sched, tpc, iter,
          allocFails>>

Init ==
    /\ phase = "none"
    /\ rxBuf = [i \in Slots |-> FALSE] /\ rxSlots = 0
    /\ posted = <<>> /\ filled = <<>>
    /\ tinit = FALSE /\ sched = FALSE /\ tpc = "idle" /\ iter = 0
    /\ allocFails = 0

\* A GFP_ATOMIC allocation's outcome: failure is possible while the bound
\* allows.
AllocOutcome == IF allocFails < MaxAllocFail THEN BOOLEAN ELSE {TRUE}

Empty(b) == {i \in Slots : ~b[i]}

-----------------------------------------------------------------------------
(* riocm_add_mport.                                                        *)

\* rx_buf[] cleared, rx_slots = SIZE, riocm_rx_fill(cm, SIZE): slots are
\* filled from 0 upwards and each buffer is handed to the mailbox; the
\* first failed kmalloc ends the loop.
AddFill ==
    /\ phase = "none"
    /\ \E k \in 0..PoolSize :
         /\ k < PoolSize => allocFails < MaxAllocFail
         /\ allocFails' = allocFails + IF k < PoolSize THEN 1 ELSE 0
         /\ rxBuf' = [i \in Slots |-> i < k]
         /\ rxSlots' = PoolSize - k
         /\ posted' = [j \in 1..k |-> j - 1]
    /\ phase' = "filled"
    /\ UNCHANGED <<filled, tinit, sched, tpc, iter>>

\* tasklet_init(&cm->rx_tasklet, ...), the list heads, and the cm_dev put
\* on cm_dev_list.
AddInit ==
    /\ phase = "filled"
    /\ tinit' = TRUE
    /\ phase' = "up"
    /\ UNCHANGED <<rxBuf, rxSlots, posted, filled, sched, tpc, iter,
                   allocFails>>

-----------------------------------------------------------------------------
(* The transport.                                                          *)

\* A message lands in the oldest posted buffer; the mailbox interrupt runs
\* riocm_inb_msg_event -> tasklet_schedule(&cm->rx_tasklet).  The mailbox
\* is open from the first rio_add_inb_buffer until rio_release_inb_mbox.
Arrive(kind) ==
    /\ phase \in {"filled", "up", "unlisted", "killed"}
    /\ posted # <<>>
    /\ filled' = Append(filled, [slot |-> Head(posted), kind |-> kind])
    /\ posted' = Tail(posted)
    /\ sched' = TRUE
    /\ UNCHANGED <<phase, rxBuf, rxSlots, tinit, tpc, iter, allocFails>>

-----------------------------------------------------------------------------
(* The tasklet: rio_ibmsg_handler.                                         *)

\* The softirq runs a scheduled tasklet, clearing TASKLET_STATE_SCHED.
TaskletStart ==
    /\ sched /\ tpc = "idle"
    /\ sched' = FALSE
    /\ tpc' = "run"
    /\ iter' = 0
    /\ UNCHANGED <<phase, rxBuf, rxSlots, posted, filled, tinit, allocFails>>

\* riocm_rx_get_msg for the oldest received message: its rx_buf[] entry
\* is found and cleared, and rx_slots counts it.
GetMsgBuf == [rxBuf EXCEPT ![Head(filled).slot] = FALSE]
\* Mutant: the slot freed by riocm_rx_get_msg is not counted.
GetMsgSlots_Missing == rxSlots
GetMsgSlots == rxSlots + 1

\* Mutant: riocm_rx_fill does not decrement rx_slots.
Fill1_NoDecrement(b, s, ok) ==
    IF s # 0 /\ ok
    THEN LET j == Min(Empty(b)) IN
         /\ rxBuf' = [b EXCEPT ![j] = TRUE]
         /\ rxSlots' = s
         /\ posted' = Append(posted, j)
    ELSE /\ rxBuf' = b /\ rxSlots' = s /\ UNCHANGED posted

\* riocm_rx_fill(cm, 1) on the pool b with s free slots: the first NULL
\* slot gets a new buffer, handed to the mailbox, unless kmalloc fails.
Fill1(b, s, ok) ==
    IF s # 0 /\ ok
    THEN LET j == Min(Empty(b)) IN
         /\ rxBuf' = [b EXCEPT ![j] = TRUE]
         /\ rxSlots' = s - 1
         /\ posted' = Append(posted, j)
    ELSE /\ rxBuf' = b /\ rxSlots' = s /\ UNCHANGED posted

\* Mutant: the tasklet does not reschedule itself after a full burst.
Resched_Dropped == UNCHANGED sched

\* "if (i == 8) tasklet_schedule(&cm->rx_tasklet)".
Resched == sched' = TRUE

\* One iteration of the loop: riocm_rx_get_msg; an empty mailbox ends the
\* run.  Otherwise riocm_rx_fill(cm, 1), then the message is dispatched:
\* a control message needs a GFP_ATOMIC work item and is dropped without
\* one.  After Burst iterations the tasklet reschedules itself.
TaskletIter ==
    /\ tpc = "run"
    /\ IF filled = <<>>
       THEN /\ tpc' = "idle"
            /\ iter' = 0
            /\ UNCHANGED <<rxBuf, rxSlots, posted, filled, sched, allocFails>>
       ELSE \E fillOk \in AllocOutcome :
            \E workOk \in IF Head(filled).kind = "ctl" THEN AllocOutcome
                                                       ELSE {TRUE} :
              /\ allocFails' = allocFails + (IF fillOk THEN 0 ELSE 1)
                                          + (IF workOk THEN 0 ELSE 1)
              /\ allocFails' <= MaxAllocFail
              /\ filled' = Tail(filled)
              /\ Fill1(GetMsgBuf, GetMsgSlots, fillOk)
              /\ IF iter + 1 = Burst
                 THEN Resched /\ tpc' = "idle" /\ iter' = 0
                 ELSE UNCHANGED <<sched, tpc>> /\ iter' = iter + 1
    /\ UNCHANGED <<phase, tinit>>

-----------------------------------------------------------------------------
(* riocm_remove_mport (its channel sweep is RioChannel's RemoveMport).     *)

\* list_del(&cm->list) under rdev_sem.
RemUnlist ==
    /\ phase = "up"
    /\ phase' = "unlisted"
    /\ UNCHANGED <<rxBuf, rxSlots, posted, filled, tinit, sched, tpc, iter,
                   allocFails>>

\* tasklet_kill(&cm->rx_tasklet): returns once the tasklet is neither
\* scheduled nor running.
RemKill ==
    /\ phase = "unlisted"
    /\ ~sched /\ tpc = "idle"
    /\ phase' = "killed"
    /\ UNCHANGED <<rxBuf, rxSlots, posted, filled, tinit, sched, tpc, iter,
                   allocFails>>

\* rio_release_inb_mbox: the mailbox stops, dropping what it holds.
RemRelease ==
    /\ phase = "killed"
    /\ phase' = "released"
    /\ posted' = <<>> /\ filled' = <<>>
    /\ UNCHANGED <<rxBuf, rxSlots, tinit, sched, tpc, iter, allocFails>>

\* riocm_rx_free (kfree of every non-NULL rx_buf[] entry), kfree(cm).
RemFree ==
    /\ phase = "released"
    /\ phase' = "freed"
    /\ rxBuf' = [i \in Slots |-> FALSE]
    /\ UNCHANGED <<rxSlots, posted, filled, tinit, sched, tpc, iter,
                   allocFails>>

-----------------------------------------------------------------------------
Next ==
    \/ AddFill \/ AddInit
    \/ \E k \in Kinds : Arrive(k)
    \/ TaskletStart \/ TaskletIter
    \/ RemUnlist \/ RemKill \/ RemRelease \/ RemFree

\* A scheduled tasklet runs, and a running one finishes its loop.  Nothing
\* forces a message to arrive or the core to add or remove the mport.
Spec == Init /\ [][Next]_vars /\ WF_vars(TaskletStart) /\ WF_vars(TaskletIter)

\* The same, with remote nodes that keep sending while the mailbox has
\* room.
SpecSending == Spec /\ WF_vars(\E k \in Kinds : Arrive(k))

-----------------------------------------------------------------------------
(* Properties.                                                             *)

Phases == {"none", "filled", "up", "unlisted", "killed", "released", "freed"}

TypeOK ==
    /\ phase \in Phases
    /\ rxBuf \in [Slots -> BOOLEAN] /\ rxSlots \in 0..PoolSize
    /\ posted \in Seq(Slots) /\ filled \in Seq(Msg)
    /\ tinit \in BOOLEAN /\ sched \in BOOLEAN
    /\ tpc \in {"idle", "run"} /\ iter \in 0..Burst - 1
    /\ allocFails \in 0..MaxAllocFail

\* The pool buffers the mailbox holds (empty or filled).
Held == posted \o [j \in 1..Len(filled) |-> filled[j].slot]

\* While the mailbox is open, rx_slots counts the NULL entries of rx_buf[],
\* and the non-NULL entries are exactly the buffers the mailbox holds,
\* each held once: riocm_rx_get_msg always finds the buffer the mailbox
\* returns, and riocm_rx_fill never hands the same buffer over twice.
PoolAccounting ==
    phase \in {"filled", "up", "unlisted", "killed"} =>
        /\ rxSlots = Cardinality(Empty(rxBuf))
        /\ IsInjective(Held)
        /\ ToSet(Held) = {i \in Slots : rxBuf[i]}

\* The buffer in slot i holds a received message not yet fetched.
InMailbox(i) == \E n \in DOMAIN filled : filled[n].slot = i

\* A message received while the mport is up is eventually fetched by the
\* tasklet: riocm_inb_msg_event schedules it, and a run that ends after a
\* full burst reschedules it.
InboundDrained ==
    \A i \in Slots :
        (phase = "up" /\ InMailbox(i)) ~> (~InMailbox(i) \/ phase # "up")

\* riocm_inb_msg_event only ever schedules a tasklet tasklet_init has set
\* up.
TaskletInitialisedWhenScheduled == sched => tinit

\* Once riocm_remove_mport has freed the cm_dev, its tasklet is neither
\* scheduled nor running.
NoTaskletAfterFree == phase = "freed" => ~sched /\ tpc = "idle"

\* While remote nodes keep sending, a pool slot left empty by a failed
\* allocation is eventually filled again (spec.md 1: the receive path
\* replenishes the per-port buffer pool).
PoolReplenished ==
    (phase = "up" /\ rxSlots > 0) ~> (rxSlots = 0 \/ phase # "up")

================================================================================
