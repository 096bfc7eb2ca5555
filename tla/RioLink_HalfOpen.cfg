\* Is an accepted channel closed once its requester has closed, with no
\* message lost?  A requester closed while CONNECT (concurrently with the
\* connect, or after it timed out) sends no CONN_CLOSE, and a later accept
\* then opens an acceptor channel for nobody.
CONSTANTS
    ReqChans = {"ca"}
    AccChans = {"nb"}
    MaxLoss = 0
SPECIFICATION Spec
PROPERTY HalfOpenResolved
CHECK_DEADLOCK FALSE
