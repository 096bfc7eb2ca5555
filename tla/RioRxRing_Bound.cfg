\* spec.md section 5: count + inuse_count <= capacity.
CONSTANTS
    t1 = t1  t2 = t2  t3 = t3
    NoBuf = NoBuf
    Threads <- MC_Threads2
    RingSize = 2
    MaxMsgs = 3
    Signals = FALSE
SPECIFICATION Spec
INVARIANT RingInuseBound
\* Behaviours end once the message bound is used up and the channel is
\* closed and no longer in ch_idr; the driver itself never stops.
CHECK_DEADLOCK FALSE
