\* A message arriving between riocm_rx_fill and tasklet_init in riocm_add_mport.
CONSTANTS
    PoolSize = 2
    Burst = 2
    MaxAllocFail = 0
SPECIFICATION Spec
INVARIANT TaskletInitialisedWhenScheduled
\* Behaviours end when riocm_remove_mport has freed the cm_dev.
CHECK_DEADLOCK FALSE
