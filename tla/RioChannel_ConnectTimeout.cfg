\* A connect that times out leaves the channel in CONNECT (expected violation).
CONSTANTS
    t1 = t1  t2 = t2  c1 = c1  c2 = c2  c3 = c3  p1 = p1
    NoCh = NoCh  NoPeer = NoPeer
    Threads <- MC_Threads1
    Chans <- MC_Chans2
    Peers <- MC_Peers
    MaxInbound <- MC_MaxInbound1
    CoreEvents = TRUE
    Signals = TRUE
    RemoteOps = {"CONN_REQ", "CONN_ACK", "CONN_CLOSE"}
SPECIFICATION Spec
PROPERTY ConnectErrorLeavesIdle
CHECK_DEADLOCK FALSE
