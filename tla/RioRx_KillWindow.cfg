\* A message arriving between tasklet_kill and rio_release_inb_mbox.
CONSTANTS
    PoolSize = 2
    Burst = 2
    MaxAllocFail = 0
SPECIFICATION Spec
INVARIANT NoTaskletAfterFree
\* Behaviours end when riocm_remove_mport has freed the cm_dev.
CHECK_DEADLOCK FALSE
