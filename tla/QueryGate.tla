----------------------------- MODULE QueryGate -----------------------------
(***************************************************************************)
(* What LifecycleLock promises and what queries and passes rely on: any    *)
(* number of readers or one writer inside, and a writer that waits holds   *)
(* new readers off (service/locking.py).  The lock is shown to keep this   *)
(* promise (LifecycleLock), its users to make no step beyond it            *)
(* (RepositorySync).                                                       *)
(***************************************************************************)
CONSTANTS Readers, Writers

VARIABLES
    inside,      \* the readers that have been let in
    queued,      \* the writers that wait
    owner        \* the writer that is in, as a set

vars == <<inside, queued, owner>>

Init == inside = {} /\ queued = {} /\ owner = {}

Enter(r) ==
    /\ queued = {} /\ owner = {}
    /\ inside' = inside \cup {r}
    /\ UNCHANGED <<queued, owner>>

Exit(r) == inside' = inside \ {r} /\ UNCHANGED <<queued, owner>>

Queue(w) == queued' = queued \cup {w} /\ UNCHANGED <<inside, owner>>

Withdraw(w) == queued' = queued \ {w} /\ UNCHANGED <<inside, owner>>

Take(w) ==
    /\ inside = {} /\ owner = {}
    /\ owner' = {w} /\ queued' = queued \ {w}
    /\ UNCHANGED inside

Release(w) == owner' = owner \ {w} /\ UNCHANGED <<inside, queued>>

Stop == inside' = {} /\ queued' = {} /\ owner' = {}    \* the process ends

Next ==
    \/ \E r \in Readers : Enter(r) \/ Exit(r)
    \/ \E w \in Writers : Queue(w) \/ Withdraw(w) \/ Take(w) \/ Release(w)
    \/ Stop

Spec == Init /\ [][Next]_vars

=============================================================================
