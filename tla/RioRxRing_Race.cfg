\* Two readers race the unlocked inuse_cnt test on a one-entry ring.
CONSTANTS
    t1 = t1  t2 = t2  t3 = t3
    NoBuf = NoBuf
    Threads <- MC_Threads2
    RingSize = 1
    MaxMsgs = 2
    Signals = FALSE
SPECIFICATION Spec
INVARIANT NoAcceptedMessageLost
\* Behaviours end once the message bound is used up and the channel is
\* closed and no longer in ch_idr; the driver itself never stops.
CHECK_DEADLOCK FALSE
