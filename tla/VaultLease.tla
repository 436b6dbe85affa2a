---------------------------- MODULE VaultLease ----------------------------
(***************************************************************************)
(* What PostgresWorkerLease (storage/postgres/lease.py) promises of the    *)
(* lease of a vault, and what passes and retention rely on: it is granted  *)
(* to a process that has none while nobody else's is alive; it may be lost *)
(* at any moment, which its holder may not know; it is not won back but    *)
(* given up and asked for again.                                           *)
(***************************************************************************)
CONSTANT Procs

VARIABLE lease       \* of each process: "none", "live" or "lost"

Init == lease = [p \in Procs |-> "none"]

Grant(p) ==
    /\ lease[p] = "none"
    /\ \A q \in Procs : lease[q] # "live"
    /\ lease' = [lease EXCEPT ![p] = "live"]

Lose(p) ==
    /\ lease[p] = "live"
    /\ lease' = [lease EXCEPT ![p] = "lost"]

GiveUp(p) == lease' = [lease EXCEPT ![p] = "none"]

Next == \E p \in Procs : Grant(p) \/ Lose(p) \/ GiveUp(p)

Spec == Init /\ [][Next]_lease

=============================================================================
