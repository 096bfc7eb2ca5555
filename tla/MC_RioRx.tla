------------------------------- MODULE MC_RioRx -------------------------------
(* Instances of RioRx for TLC.                                             *)
EXTENDS RioRx, TLC

================================================================================
