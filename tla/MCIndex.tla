------------------------------ MODULE MCIndex ------------------------------
(* Instances of VaultIndex for TLC.                                        *)
EXTENDS VaultIndex, TLC

CONSTANTS a, b, bad, m1, m2, g1, g2, i1, i2

(* Paths 2 and 3 differ only in case.                                      *)
MCFolded == [p \in Paths |-> IF p = 3 THEN 2 ELSE p]

MCForward == {<<m1, m2>>}
MCReverted == {<<m1, m2>>, <<m2, m1>>}
MCChanged == {<<g1, g2>>}

MCSymmetry == Permutations({a, b}) \cup Permutations(Procs)

MCInit == Init /\ conf.m = m1 /\ conf.cfg = g1 /\ disk[1] # None /\ (3 \in Paths => disk[3] = None)
MCSpec == MCInit /\ [][Next]_vars
MCFair == MCSpec /\ Fairness
=============================================================================
