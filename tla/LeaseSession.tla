---------------------------- MODULE LeaseSession ----------------------------
(***************************************************************************)
(* The lease of one vault as two threads of a worker process use it, and   *)
(* the bounded connection pool under it: LeaseSession (service/worker.py), *)
(* PostgresWorkerLease and PostgresPool (storage/postgres/{lease,pool}.py).*)
(* A pass keeps one connection, whose session owns the advisory lock, from *)
(* acquire() to release(); a heartbeat thread refreshes it meanwhile; each *)
(* store operation takes a connection more, and so does the health check.  *)
(* PostgresWorkerLease holds an RLock over each of its methods: an action  *)
(* that uses the lock session is one such method.                          *)
(***************************************************************************)
EXTENDS Naturals

CONSTANTS
    Replicas,      \* worker processes that reconcile the vault
    PoolSize,      \* storage.pool.max_size, of each process
    Operations,    \* store operations of a pass
    MaxCuts,       \* bound on sessions that the server ends
    MaxCancels     \* bound on statements that end by statement_timeout

ASSUME LeaseAssumption ==
    /\ PoolSize \in [Replicas -> Nat \ {0}]
    /\ Operations \in Nat /\ MaxCuts \in Nat /\ MaxCancels \in Nat

VARIABLES
    conns,     \* the connections of each process
    pass,      \* the pass, its LeaseSession and its PostgresWorkerLease
    cuts, cancels

leaseVars == <<conns, pass, cuts, cancels>>

NoConn == 0
Pool(p) == 1..PoolSize[p]

(* Who has a connection, whether its session lives, and how often the      *)
(* session has taken the advisory lock.                                    *)
FreshConn == [at |-> "pool", alive |-> TRUE, locks |-> 0]
IdlePass == [at |-> "idle", lease |-> NoConn, beat |-> "off", stop |-> FALSE,
             lost |-> FALSE, left |-> 0]

LeaseInit ==
    /\ conns = [p \in Replicas |-> [c \in Pool(p) |-> FreshConn]]
    /\ pass = [p \in Replicas |-> IdlePass]
    /\ cuts = 0 /\ cancels = 0

(* The pool drops a connection that is returned broken and opens another;  *)
(* one that lives goes back as it is, whatever its session holds.          *)
Returned(k) == IF k.alive THEN [k EXCEPT !.at = "pool"] ELSE FreshConn

Free(p) == {c \in Pool(p) : conns[p][c].at = "pool"}
SetConn(p, c, k) == conns' = [conns EXCEPT ![p][c] = k]
Give(p, c) == SetConn(p, c, Returned(conns[p][c]))
Locks(p, c) == conns[p][c].locks > 0
LockIsForOwn(p, c) ==              \* variant: the key of the lock names the process
    \A d \in Pool(p) : Locks(p, d) => d = c
LockIsFor(p, c) == \A q \in Replicas : \A d \in Pool(q) : Locks(q, d) => q = p /\ d = c
Own(p) == conns[p][pass[p].lease]
At(p, place) == pass[p].at = place
MoveTo(p, place) == pass' = [pass EXCEPT ![p].at = place]
Cancel == cancels < MaxCancels /\ cancels' = cancels + 1

----------------------------------------------------------------------------
(* acquire(): pg_try_advisory_lock, which a session that has the lock      *)
(* already is granted again.  A busy lock or an empty pool changes nothing.*)

AcquireLease(p) ==
    /\ At(p, "idle")
    /\ \E c \in Free(p) :
         \/ /\ conns[p][c].alive /\ LockIsFor(p, c)
            /\ SetConn(p, c, [conns[p][c] EXCEPT !.at = "lease", !.locks = @ + 1])
            /\ pass' = [pass EXCEPT ![p] = [at |-> "guard", lease |-> c, beat |-> "on",
                                            stop |-> FALSE, lost |-> FALSE, left |-> Operations]]
         \/ ~conns[p][c].alive /\ Give(p, c) /\ UNCHANGED pass     \* StorageError
    /\ UNCHANGED <<cuts, cancels>>

(* refresh(): after an error the lease forgets its connection and returns  *)
(* it.  Without a connection the answer is no.                             *)
Keeps(r) == r                       \* variant: returned but not forgotten
Cleared(r) == [r EXCEPT !.lease = NoConn]

Holds(p) == pass[p].lease # NoConn /\ Own(p).alive

Refuse(p, r) ==       \* r: the pass after the loss is noted
    \/ pass[p].lease = NoConn /\ pass' = [pass EXCEPT ![p] = r] /\ UNCHANGED <<conns, cancels>>
    \/ /\ pass[p].lease # NoConn
       /\ IF Own(p).alive THEN Cancel ELSE UNCHANGED cancels
       /\ Give(p, pass[p].lease)
       /\ pass' = [pass EXCEPT ![p] = Cleared(r)]

(* _heartbeat: refresh until stopped; the first failure ends the thread.   *)
HeartbeatFails(p) ==
    /\ pass[p].beat = "on" /\ ~pass[p].stop
    /\ Refuse(p, [pass[p] EXCEPT !.lost = TRUE, !.beat = "off"])
    /\ UNCHANGED cuts

HeartbeatEnds(p) ==
    /\ pass[p].beat = "on" /\ pass[p].stop
    /\ pass' = [pass EXCEPT ![p].beat = "off"]
    /\ UNCHANGED <<conns, cuts, cancels>>

----------------------------------------------------------------------------
(* The pass: ensure_held, then a store operation; in the end promote().    *)

EnsureHeld(p) ==
    /\ At(p, "guard")
    /\ \/ pass[p].lost /\ MoveTo(p, "leave") /\ UNCHANGED <<conns, cancels>>
       \/ /\ ~pass[p].lost /\ Holds(p)
          /\ MoveTo(p, IF pass[p].left > 0 THEN "operation" ELSE "promote")
          /\ UNCHANGED <<conns, cancels>>
       \/ ~pass[p].lost /\ Refuse(p, [pass[p] EXCEPT !.lost = TRUE, !.at = "leave"])
    /\ UNCHANGED cuts

TakeConnection(p) ==
    /\ At(p, "operation")
    /\ \E c \in Free(p) : SetConn(p, c, [conns[p][c] EXCEPT !.at = "store"])
    /\ MoveTo(p, "store")
    /\ UNCHANGED <<cuts, cancels>>

WaitsForever(p) == FALSE            \* variant: the pool has no timeout
PoolTimeout(p) == Free(p) = {}

NoConnection(p) ==                  \* StorageError ends the pass
    /\ At(p, "operation") /\ PoolTimeout(p)
    /\ MoveTo(p, "leave")
    /\ UNCHANGED <<conns, cuts, cancels>>

EndOperation(p) ==
    /\ At(p, "store")
    /\ \E c \in Pool(p) :
         /\ conns[p][c].at = "store"
         /\ Give(p, c)
         /\ pass' = [pass EXCEPT ![p].at = IF conns[p][c].alive THEN "guard" ELSE "leave",
                                 ![p].left = @ - 1]
    /\ UNCHANGED <<cuts, cancels>>

(* The transaction of promote() runs on the lock session; a failure marks  *)
(* the lease as lost and leaves the connection to release().               *)
PromoteOnLease(p) ==
    /\ At(p, "promote")
    /\ pass' = [pass EXCEPT ![p].at = "leave", ![p].lost = @ \/ ~Holds(p)]
    /\ UNCHANGED <<conns, cuts, cancels>>

(* release(): stop and join the heartbeat, then unlock and return.         *)
StopHeartbeat(p) ==
    /\ At(p, "leave")
    /\ pass' = [pass EXCEPT ![p].at = "join", ![p].stop = TRUE]
    /\ UNCHANGED <<conns, cuts, cancels>>

ReleaseLease(p) ==
    /\ At(p, "join") /\ pass[p].beat = "off"
    /\ \/ pass[p].lease = NoConn /\ UNCHANGED <<conns, cancels>>
       \/ /\ pass[p].lease # NoConn
          /\ \/ /\ Own(p).alive
                /\ SetConn(p, pass[p].lease, Returned([Own(p) EXCEPT !.locks = @ - 1]))
                /\ UNCHANGED cancels
             \/ /\ IF Own(p).alive THEN Cancel ELSE UNCHANGED cancels
                /\ Give(p, pass[p].lease)
    /\ pass' = [pass EXCEPT ![p] = IdlePass]
    /\ UNCHANGED cuts

----------------------------------------------------------------------------
(* The health check's thread takes a connection and gives it back.         *)
ProbeTakes(p) ==
    /\ ~\E c \in Pool(p) : conns[p][c].at = "probe"
    /\ \E c \in Free(p) : SetConn(p, c, [conns[p][c] EXCEPT !.at = "probe"])
    /\ UNCHANGED <<pass, cuts, cancels>>

ProbeEnds(p) ==
    /\ \E c \in Pool(p) : conns[p][c].at = "probe" /\ Give(p, c)
    /\ UNCHANGED <<pass, cuts, cancels>>

(* The server ends a session, and with it the locks it has.                *)
CutSession(p) ==
    /\ cuts < MaxCuts /\ cuts' = cuts + 1
    /\ \E c \in Pool(p) : SetConn(p, c, [conns[p][c] EXCEPT !.alive = FALSE, !.locks = 0])
    /\ UNCHANGED <<pass, cancels>>

(* The pool replaces an idle connection that has reached its max_lifetime. *)
RecycleConn(p) ==
    /\ \E c \in Free(p) : SetConn(p, c, FreshConn)
    /\ UNCHANGED <<pass, cuts, cancels>>

----------------------------------------------------------------------------
PassSteps(p) ==
    \/ EnsureHeld(p) \/ TakeConnection(p) \/ NoConnection(p) \/ EndOperation(p)
    \/ PromoteOnLease(p) \/ StopHeartbeat(p) \/ HeartbeatEnds(p) \/ ReleaseLease(p)

LeaseNext ==
    \E p \in Replicas :
        \/ AcquireLease(p) \/ PassSteps(p) \/ HeartbeatFails(p)
        \/ ProbeTakes(p) \/ ProbeEnds(p) \/ CutSession(p) \/ RecycleConn(p)

(* Statements end, by their timeout if not before, and threads go on.      *)
LeaseFairness ==
    \A p \in Replicas : WF_leaseVars(PassSteps(p)) /\ WF_leaseVars(ProbeEnds(p))

LeaseSpec == LeaseInit /\ [][LeaseNext]_leaseVars /\ LeaseFairness

----------------------------------------------------------------------------
(* The two threads and the pool agree on whose each connection is: a pass  *)
(* and its heartbeat, however a failed refresh and a release meet, return  *)
(* the lock session once and never use it after that, and a pass that is   *)
(* over holds no connection.  At most one session has the advisory lock;   *)
(* it is that of a pass, unless a statement on it was cancelled.           *)
SessionsOwned ==
    \A p \in Replicas : \A c \in Pool(p) :
        /\ conns[p][c].at = "lease" <=> pass[p].lease = c
        /\ conns[p][c].at = "store" => At(p, "store")
        /\ Locks(p, c) => LockIsFor(p, c) /\ (pass[p].lease = c \/ cancels > 0)

(* To the passes it is the lease of VaultLease, whatever becomes of its    *)
(* connections: of several processes one has it, and one that has lost its *)
(* session does not come to have it again without asking.                  *)
Standing(p) ==
    IF At(p, "idle") THEN "none" ELSE IF Holds(p) THEN "live" ELSE "lost"

Kept == INSTANCE VaultLease WITH
    Procs <- Replicas,
    lease <- [p \in Replicas |-> Standing(p)]

KeepsLease == Kept!Spec

(* No pass keeps its connection for ever: it ends and gives it back,       *)
(* whatever becomes of its session, also when the pool is too small for it *)
(* and the health check.                                                   *)
LeaseReturned == \A p \in Replicas : []<>(pass[p].lease = NoConn)

(* lease.py, _return_connection: "A failed backend is already unusable;    *)
(* psycopg-pool discards it."  Then no connection that waits in the pool   *)
(* has the lock of a vault.                                                *)
FailedBackendDiscarded ==
    \A p \in Replicas : \A c \in Free(p) : ~Locks(p, c)
=============================================================================
