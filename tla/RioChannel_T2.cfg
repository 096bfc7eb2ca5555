\* Two user threads racing on the same channels (no signals, no device or mport removal).
CONSTANTS
    t1 = t1  t2 = t2  c1 = c1  c2 = c2  c3 = c3  p1 = p1
    NoCh = NoCh  NoPeer = NoPeer
    Threads <- MC_Threads2
    Chans <- MC_Chans2
    Peers <- MC_Peers
    MaxInbound <- MC_MaxInbound1
    CoreEvents = FALSE
    Signals = FALSE
    RemoteOps = {"CONN_REQ"}
SPECIFICATION Spec
INVARIANTS TypeOK CloseAtMostOnce
\* PROPERTY WaitersLeaveOnClose
\* Behaviours end once every channel object has been allocated and closed
\* and the inbound-message bound is used up; the driver itself never stops,
\* and WaitersLeaveOnClose covers actors stuck waiting.
SYMMETRY MC_Symmetry
VIEW MC_View
CHECK_DEADLOCK FALSE
