------------------------------- MODULE MC_RioTx -------------------------------
(* Model-checking instance of RioTx: a 2- or 4-slot ring (the code's 128    *)
(* slots scaled down; every wrap-around case occurs at 2) and enough posts *)
(* to fill the ring, defer control messages behind it and wrap twice.      *)
EXTENDS RioTx

MC_TxRingSize == 2
MC_MaxPosts == 5
MC_TxRingSize4 == 4
MC_MaxPosts4 == 7
=============================================================================
