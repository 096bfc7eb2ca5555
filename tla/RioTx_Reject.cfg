\* Is a control message still sent when rio_add_outb_message has refused
\* DATA messages (their slots are counted but never completed)?
CONSTANTS
    TxRingSize <- MC_TxRingSize
    MaxPosts <- MC_MaxPosts
    TransportRejects = TRUE
    MaxTxReqFail = 0
SPECIFICATION Spec
PROPERTY ControlEventuallySent
CHECK_DEADLOCK FALSE
