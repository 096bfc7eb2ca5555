\* A signal for a reader that wake_up chose strands the data it was woken for.
CONSTANTS
    t1 = t1  t2 = t2  t3 = t3
    NoBuf = NoBuf
    Threads <- MC_Threads2
    RingSize = 2
    MaxMsgs = 2
    Signals = TRUE
SPECIFICATION Spec
PROPERTY DataNotStrandedWhileWaiting
\* Behaviours end once the message bound is used up and the channel is
\* closed and no longer in ch_idr; the driver itself never stops.
CHECK_DEADLOCK FALSE
