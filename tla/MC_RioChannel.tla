---------------------------- MODULE MC_RioChannel ----------------------------
(* Instantiation of RioChannel for TLC: user threads, channel objects      *)
(* (each one allocation) and one remote peer device.                       *)
EXTENDS RioChannel, TLC

CONSTANTS t1, t2, c1, c2, c3, p1

MC_Threads1 == {t1}
MC_Threads2 == {t1, t2}
MC_Chans2 == {c1, c2}
MC_Chans3 == {c1, c2, c3}
MC_Peers == {p1}
MC_MaxInbound2 == 2
MC_MaxInbound1 == 1
MC_SymChans == Permutations(MC_Chans2)
MC_SymChans3 == Permutations(MC_Chans3)
MC_Symmetry == {p @@ q : p \in Permutations(MC_Threads2), q \in Permutations(MC_Chans2)}

\* An idle actor's procedure locals (channel, peer, timeout, last return
\* value) are dead: no later step reads them before setting them again.
\* States that differ only there are the same state of the driver.
Dead(a, v, d) == IF pc[a] = "idle" THEN d ELSE v
MC_View ==
    <<chanVars, envVars, pc,
      [a \in Actors |-> Dead(a, ptr[a], NoCh)],
      [a \in Actors |-> Dead(a, nch[a], NoCh)],
      [a \in Actors |-> Dead(a, arg[a], NoPeer)],
      [a \in Actors |-> Dead(a, tmo[a], "finite")],
      todo,
      [a \in Actors |-> Dead(a, ret[a], "OK")]>>
=============================================================================
