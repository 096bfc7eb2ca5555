\* One failed refill allocation while remote nodes keep sending.
CONSTANTS
    PoolSize = 2
    Burst = 2
    MaxAllocFail = 1
SPECIFICATION SpecSending
PROPERTY PoolReplenished
\* Behaviours end when riocm_remove_mport has freed the cm_dev.
CHECK_DEADLOCK FALSE
