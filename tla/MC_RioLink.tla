------------------------------ MODULE MC_RioLink ------------------------------
(* Model-checking instance of RioLink: two channels of node A that may     *)
(* connect to node B's listener, and two ids for the channels B accepts.   *)
EXTENDS RioLink

MC_ReqChans == {"ca1", "ca2"}
MC_AccChans == {"nb1", "nb2"}

\* One failing allocation: any one control message, at either end, is lost.
MC_MaxLoss == 1
=============================================================================
