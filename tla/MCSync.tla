------------------------------- MODULE MCSync -------------------------------
(***************************************************************************)
(* Instances of RepositorySync and of the lock it relies on, side by side: *)
(* a behaviour takes the steps of one part, the other stays where it       *)
(* began.  What RepositorySync takes from LifecycleLock is QueryGate.      *)
(***************************************************************************)
EXTENDS LifecycleLock, RepositorySync, TLC

CONSTANTS Parts, c1, c2, c3, c4, p1, p2, p3, d1, d2, bad, raw

(* c2 breaks one source of c1, and another is not UTF-8 in it; c3 leaves   *)
(* the one broken, drops the other and changes the third.  c4 is c2 with a *)
(* manifest that is refused.                                               *)
MCTree ==
    c1 :> (p1 :> d1 @@ p2 :> d1 @@ p3 :> d1) @@
    c2 :> (p1 :> bad @@ p2 :> d1 @@ p3 :> raw) @@
    c3 :> (p1 :> bad @@ p2 :> d2 @@ p3 :> NoDoc) @@
    c4 :> (p1 :> bad @@ p2 :> d1 @@ p3 :> raw)

(* c2 changes one source and drops the other; c1 may follow it again.      *)
MCCleanTree ==
    c1 :> (p1 :> d1 @@ p2 :> d1) @@
    c2 :> (p1 :> d2 @@ p2 :> NoDoc)

MCForward == {<<c1, c2>>, <<c2, c3>>, <<c1, c4>>, <<c4, c3>>}
MCRewind  == {<<c1, c2>>, <<c2, c1>>}

VARIABLE part

MCInit ==
    /\ part \in Parts /\ Init /\ SyncInit
    /\ part = "lock" => upstream = c1

MCNext ==
    /\ \/ part = "lock" /\ Next /\ UNCHANGED syncVars
       \/ part = "sync" /\ SyncNext /\ UNCHANGED vars
    /\ UNCHANGED part

MCSpec == MCInit /\ [][MCNext]_<<vars, syncVars, part>>

(* Fairness of the lock, whose threads need not call it; SyncFairness while*)
(* its part runs.                                                          *)
MCFair ==
    /\ MCSpec /\ Fairness
    /\ WF_syncVars(part = "sync" /\ Sync)
    /\ \A q \in Queries : WF_syncVars(part = "sync" /\ Query(q))

(* What Converges says of the behaviours in which its part runs.           *)
VaultConverges == part = "sync" => Converges
=============================================================================
