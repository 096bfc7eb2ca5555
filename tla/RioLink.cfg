\* Connect, accept and close between two nodes for two connections, with one
\* allocation failure that may lose any one control message at either end.
CONSTANTS
    ReqChans <- MC_ReqChans
    AccChans <- MC_AccChans
    MaxLoss <- MC_MaxLoss
SPECIFICATION Spec
INVARIANT TypeOK
PROPERTY SessionRefinement
\* Once every user has closed and the queues are empty nothing is enabled:
\* the users simply make no further calls.
CHECK_DEADLOCK FALSE
