\* Does every deferred tx_req own heap memory?  connect and send_ack post
\* a header on their stack with req = 1.
CONSTANTS
    TxRingSize <- MC_TxRingSize
    MaxPosts <- MC_MaxPosts
    TransportRejects = FALSE
    MaxTxReqFail = 0
SPECIFICATION Spec
INVARIANT DeferredBufferOwned
CHECK_DEADLOCK FALSE
