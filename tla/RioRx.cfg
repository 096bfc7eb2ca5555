\* A pool of three buffers, bursts of two messages (so a burst can end with a message left) and one failed allocation.
CONSTANTS
    PoolSize = 3
    Burst = 2
    MaxAllocFail = 1
SPECIFICATION Spec
INVARIANT TypeOK PoolAccounting
PROPERTY InboundDrained
\* Behaviours end when riocm_remove_mport has freed the cm_dev.
CHECK_DEADLOCK FALSE
