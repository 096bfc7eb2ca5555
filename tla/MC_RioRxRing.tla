---------------------------- MODULE MC_RioRxRing ----------------------------
(* Instances of RioRxRing for TLC.                                         *)
EXTENDS RioRxRing, TLC

CONSTANTS t1, t2, t3

MC_Threads1 == {t1}
MC_Threads2 == {t1, t2}
MC_Threads3 == {t1, t2, t3}
MC_SymThreads == Permutations(MC_Threads3)

================================================================================
