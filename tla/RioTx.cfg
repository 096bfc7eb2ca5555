\* The TX engine with a transport that accepts every message and one failing
\* tx_req allocation.
CONSTANTS
    TxRingSize <- MC_TxRingSize
    MaxPosts <- MC_MaxPosts
    TransportRejects = FALSE
    MaxTxReqFail = 1
SPECIFICATION Spec
INVARIANT TypeOK
INVARIANT TxCountTracksTransport
INVARIANT DeferredOnlyWhenFull
INVARIANT ControlFifo
INVARIANT HeapBuffersFreedOnce
PROPERTY ControlEventuallySent
\* Once MaxPosts calls are made and the transport has drained, nothing is
\* left to do: the driver is idle, not deadlocked.
CHECK_DEADLOCK FALSE
