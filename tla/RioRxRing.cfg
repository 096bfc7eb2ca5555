\* Two readers, a ring of two entries and three messages: the ring wraps,
\* fills and drops, both readers wait, and signals interrupt them.
CONSTANTS
    t1 = t1  t2 = t2  t3 = t3
    NoBuf = NoBuf
    Threads <- MC_Threads2
    RingSize = 2
    MaxMsgs = 3
    Signals = TRUE
SPECIFICATION Spec
INVARIANT TypeOK RxBuffersFreedExactlyOnce NoAcceptedMessageLost
PROPERTY RxQueueRefinement ReceiverWithTimeoutReturns
\* Behaviours end once the message bound is used up and the channel is
\* closed and no longer in ch_idr; the driver itself never stops.
CHECK_DEADLOCK FALSE
