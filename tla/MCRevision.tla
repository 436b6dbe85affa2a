----------------------------- MODULE MCRevision -----------------------------
(* Instances of RevisionStore for TLC.                                     *)
EXTENDS RevisionStore, TLC

CONSTANTS w1, w2, k1, k2, r1, r2, r3, p1, p2, d1, d2, bad, c1, c2, c3

(* c2 changes one source of c1 and drops the other; c3 has one that cannot *)
(* be parsed.                                                              *)
MCTree ==
    c1 :> (p1 :> d1 @@ p2 :> d1) @@
    c2 :> (p1 :> d2 @@ p2 :> NoDoc) @@
    c3 :> (p1 :> d1 @@ p2 :> bad)

(* One source that c2 changes.                                             *)
MCSmallTree == c1 :> (p1 :> d1) @@ c2 :> (p1 :> d2)

MCSymmetry == Permutations(Workers) \cup Permutations(RevIds)
=============================================================================
