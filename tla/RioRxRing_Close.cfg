\* A reader that passed the state check when the channel is closed.
CONSTANTS
    t1 = t1  t2 = t2  t3 = t3
    NoBuf = NoBuf
    Threads <- MC_Threads2
    RingSize = 2
    MaxMsgs = 1
    Signals = FALSE
SPECIFICATION Spec
PROPERTY ReceiverReturnsOnClose
\* Behaviours end once the message bound is used up and the channel is
\* closed and no longer in ch_idr; the driver itself never stops.
CHECK_DEADLOCK FALSE
