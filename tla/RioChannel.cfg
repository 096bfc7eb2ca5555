\* Channel lifecycle with every actor: the close-once guarantee and the
\* wake-up of waiters on close.
CONSTANTS
    t1 = t1  t2 = t2  c1 = c1  c2 = c2  c3 = c3  p1 = p1
    NoCh = NoCh  NoPeer = NoPeer
    Threads <- MC_Threads1
    Chans <- MC_Chans2
    Peers <- MC_Peers
    MaxInbound <- MC_MaxInbound1
    CoreEvents = TRUE
    Signals = TRUE
    RemoteOps = {"CONN_REQ", "CONN_ACK", "CONN_CLOSE"}
SPECIFICATION Spec
INVARIANTS TypeOK CloseAtMostOnce
PROPERTY WaitersLeaveOnClose
\* Behaviours end once every channel object has been allocated and closed
\* and the inbound-message bound is used up; the driver itself never stops,
\* and WaitersLeaveOnClose covers actors stuck waiting.
CHECK_DEADLOCK FALSE
