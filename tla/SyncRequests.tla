---------------------------- MODULE SyncRequests ----------------------------
(***************************************************************************)
(* The operator's sync requests in PostgreSQL and the worker passes that   *)
(* answer them.  The API inserts a row unless one is open; a worker claims *)
(* the row with a token, forces one pass over the vaults it can lease, and *)
(* completes the row if the token is still its own.                        *)
(*                                                                         *)
(* Sources: service/postgres_coordinator.py, service/worker.py             *)
(* (WorkerRuntime), service/coordinator.py (run_once), service/runtime.py  *)
(* (run_cleanup).                                                          *)
(***************************************************************************)
EXTENDS Naturals, Sequences

CONSTANTS
    Workers,        \* processes that run WorkerRuntime.run_forever
    VaultIds,
    Repositories,   \* the vaults in the order a pass visits them
    Requests,       \* the request UUIDs a behaviour may draw
    Nil,            \* no worker, no request
    MaxFailures     \* bound on crashes, failed statements and slow passes

ASSUME RequestsAssumption ==
    /\ Nil \notin Workers \cup Requests
    /\ Repositories \in Seq(VaultIds)
    /\ \A v \in VaultIds : \E i \in DOMAIN Repositories : Repositories[i] = v
    /\ MaxFailures \in Nat

VARIABLES
    \* the database
    rows,       \* sync_requests.state, "none" before the row is there
    token,      \* sync_requests.claim_token: the worker that drew it
    lapsed,     \* rows claimed more than five minutes ago
    lease,      \* who holds each vault's advisory lock
    \* the workers
    pc,
    claim,      \* the request run_once has claimed
    at,         \* the vault of Repositories the loop stands at
    succeeded,
    \* what the operator waits for, not kept by the program
    asked,      \* vaults no forced pass has taken up since the last request
    failures

queue   == <<rows, token, lapsed>>
workers == <<pc, claim, at, succeeded>>
vars    == <<queue, lease, workers, asked, failures>>

Places == {"idle", "visit", "sync", "clean", "cleaning", "complete"}

TypeOK ==
    /\ rows \in [Requests -> {"none", "pending", "claimed", "completed", "failed"}]
    /\ token \in [Requests -> Workers \cup {Nil}]
    /\ \A r \in Requests : token[r] # Nil <=> rows[r] = "claimed"    \* CHECK of the table
    /\ lapsed \subseteq {r \in Requests : rows[r] = "claimed"}
    /\ lease \in [VaultIds -> Workers \cup {Nil}]
    /\ pc \in [Workers -> Places]
    /\ claim \in [Workers -> Requests \cup {Nil}]
    /\ at \in [Workers -> 1..Len(Repositories) + 1]
    /\ succeeded \in [Workers -> BOOLEAN]
    /\ asked \in SUBSET VaultIds
    /\ failures \in 0..MaxFailures

Init ==
    /\ rows = [r \in Requests |-> "none"]
    /\ token = [r \in Requests |-> Nil]
    /\ lapsed = {}
    /\ lease = [v \in VaultIds |-> Nil]
    /\ pc = [w \in Workers |-> "idle"]
    /\ claim = [w \in Workers |-> Nil]
    /\ at = [w \in Workers |-> 1]
    /\ succeeded = [w \in Workers |-> FALSE]
    /\ asked = {}
    /\ failures = 0

Proceed(w, place) == pc' = [pc EXCEPT ![w] = place]
Failure == failures < MaxFailures /\ failures' = failures + 1

----------------------------------------------------------------------------
(* The queue.                                                              *)

OpenPending == {r \in Requests : rows[r] = "pending"}   \* variant: claimed rows do not count

Open == {r \in Requests : rows[r] \in {"pending", "claimed"}}

(* request_sync, under an advisory transaction lock.                       *)
RequestSync ==
    /\ \/ Open # {} /\ UNCHANGED rows                       \* coalesced
       \/ /\ Open = {}
          /\ \E r \in Requests : rows[r] = "none" /\ rows' = [rows EXCEPT ![r] = "pending"]
    /\ asked' = VaultIds
    /\ UNCHANGED <<token, lapsed, lease, workers, failures>>

ClaimablePending == {r \in Requests : rows[r] = "pending"}  \* variant: claims are for ever

Claimable == {r \in Requests : rows[r] = "pending" \/ r \in lapsed}

(* run_once begins: claim_request, then the pass.  There is at most one    *)
(* claimable row, so "the oldest" leaves no choice.                        *)
Claim(w) ==
    /\ pc[w] = "idle"
    /\ \E r \in Claimable :
         /\ rows' = [rows EXCEPT ![r] = "claimed"]
         /\ token' = [token EXCEPT ![r] = w]
         /\ lapsed' = lapsed \ {r}
         /\ claim' = [claim EXCEPT ![w] = r]
    /\ at' = [at EXCEPT ![w] = 1]
    /\ succeeded' = [succeeded EXCEPT ![w] = FALSE]
    /\ Proceed(w, "visit")
    /\ UNCHANGED <<lease, asked, failures>>

Poll(w) ==         \* nothing to claim: a pass that forces nothing
    /\ pc[w] = "idle"
    /\ Claimable = {}
    /\ at' = [at EXCEPT ![w] = 1]
    /\ succeeded' = [succeeded EXCEPT ![w] = FALSE]
    /\ Proceed(w, "visit")
    /\ UNCHANGED <<queue, lease, claim, asked, failures>>

HoldsSomeClaim(w) == rows[claim[w]] = "claimed"     \* variant: the token is not compared

OwnsClaim(w) == rows[claim[w]] = "claimed" /\ token[claim[w]] = w

ClearedToken(w) == [token EXCEPT ![claim[w]] = Nil]

(* complete_request, in run_once's finally clause.  For a stale owner it   *)
(* is a no-op, and it may fail: then the claim stays until it lapses.      *)
Complete(w) ==
    /\ pc[w] = "complete"
    /\ \/ /\ claim[w] # Nil /\ OwnsClaim(w)
          /\ rows' = [rows EXCEPT ![claim[w]] =
                        IF succeeded[w] THEN "completed" ELSE "failed"]
          /\ token' = ClearedToken(w)
          /\ lapsed' = lapsed \ {claim[w]}
          /\ UNCHANGED failures
       \/ /\ claim[w] # Nil => ~OwnsClaim(w)
          /\ UNCHANGED <<queue, failures>>
    /\ claim' = [claim EXCEPT ![w] = Nil]
    /\ Proceed(w, "idle")
    /\ UNCHANGED <<lease, at, succeeded, asked>>

CompleteError(w) ==
    /\ pc[w] = "complete" /\ claim[w] # Nil
    /\ Failure
    /\ claim' = [claim EXCEPT ![w] = Nil]
    /\ Proceed(w, "idle")
    /\ UNCHANGED <<queue, lease, at, succeeded, asked>>

(* Five minutes pass after a claim.  A claim is never renewed: also that   *)
(* of a pass that is merely slow lapses.                                   *)
Lapse(r) ==
    /\ rows[r] = "claimed" /\ r \notin lapsed
    /\ \/ claim[token[r]] = r /\ Failure
       \/ claim[token[r]] # r /\ UNCHANGED failures
    /\ lapsed' = lapsed \cup {r}
    /\ UNCHANGED <<rows, token, lease, workers, asked>>

----------------------------------------------------------------------------
(* The pass.                                                               *)

Vault(w) == Repositories[at[w]]
AtEnd(w) == at[w] > Len(Repositories)
Step(w)  == at' = [at EXCEPT ![w] = @ + 1]

NotFreed(w) == lease        \* variant: the lease is not given back

Freed(w) == [v \in VaultIds |-> IF lease[v] = w THEN Nil ELSE lease[v]]

Vacant(w) == lease[Vault(w)] = Nil

(* coordinator.run_once: one vault after the other.  A vault somebody else *)
(* has leased is passed over.  A forced visit takes up what was asked.     *)
Visit(w) ==
    /\ pc[w] = "visit" /\ ~AtEnd(w)
    /\ IF Vacant(w)
       THEN /\ lease' = [lease EXCEPT ![Vault(w)] = w]
            /\ asked' = IF claim[w] = Nil THEN asked ELSE asked \ {Vault(w)}
            /\ Proceed(w, "sync")
            /\ UNCHANGED at
       ELSE Step(w) /\ UNCHANGED <<lease, asked, pc>>
    /\ UNCHANGED <<queue, claim, succeeded, failures>>

(* Whatever came of the vault, its failure does not leave the loop.        *)
Leave(w) ==
    /\ pc[w] \in {"sync", "cleaning"}
    /\ lease' = Freed(w)
    /\ Step(w)
    /\ Proceed(w, IF pc[w] = "sync" THEN "visit" ELSE "clean")
    /\ UNCHANGED <<queue, claim, succeeded, asked, failures>>

EndVisits(w) ==
    /\ pc[w] = "visit" /\ AtEnd(w)
    /\ succeeded' = [succeeded EXCEPT ![w] = TRUE]
    /\ at' = [at EXCEPT ![w] = 1]
    /\ Proceed(w, "clean")
    /\ UNCHANGED <<queue, lease, claim, asked, failures>>

(* run_cleanup: retention takes each vault's lease too, or passes it over. *)
CleanVault(w) ==
    /\ pc[w] = "clean" /\ ~AtEnd(w)
    /\ IF Vacant(w)
       THEN /\ lease' = [lease EXCEPT ![Vault(w)] = w]
            /\ Proceed(w, "cleaning")
            /\ UNCHANGED at
       ELSE Step(w) /\ UNCHANGED <<lease, pc>>
    /\ UNCHANGED <<queue, claim, succeeded, asked, failures>>

EndClean(w) ==
    /\ pc[w] = "clean" /\ AtEnd(w)
    /\ Proceed(w, "complete")
    /\ UNCHANGED <<queue, lease, claim, at, succeeded, asked, failures>>

(* Retention raises, or something that is no Exception ends the visits.    *)
Abort(w) ==
    /\ pc[w] \in {"sync", "cleaning"}
    /\ Failure
    /\ lease' = Freed(w)
    /\ Proceed(w, "complete")
    /\ UNCHANGED <<queue, claim, at, succeeded, asked>>

CrashWorker(w) ==        \* and restart: its database sessions are closed
    /\ pc[w] # "idle"
    /\ Failure
    /\ lease' = Freed(w)
    /\ claim' = [claim EXCEPT ![w] = Nil]
    /\ Proceed(w, "idle")
    /\ UNCHANGED <<queue, at, succeeded, asked>>

----------------------------------------------------------------------------
Advance(w) ==
    \/ Claim(w) \/ Poll(w) \/ Complete(w)
    \/ Visit(w) \/ Leave(w) \/ EndVisits(w) \/ CleanVault(w) \/ EndClean(w)

Next ==
    \/ RequestSync
    \/ \E w \in Workers : Advance(w) \/ CompleteError(w) \/ Abort(w) \/ CrashWorker(w)
    \/ \E r \in Requests : Lapse(r)

Spec == Init /\ [][Next]_vars

(* Every worker keeps polling, a pass goes on, and time passes.  Nobody is *)
(* obliged to ask for a sync.                                              *)
FairSpec ==
    /\ Spec
    /\ \A w \in Workers : WF_vars(Advance(w))
    /\ \A r \in Requests : WF_vars(Lapse(r))

----------------------------------------------------------------------------
(* Properties.                                                             *)

(* However often the API is called and however claims lapse, at most one   *)
(* request is open: the queue cannot grow.                                 *)
OneOpen ==
    \A r, q \in {x \in Requests : rows[x] \in {"pending", "claimed"}} : r = q

(* The outcome of a request is written by the pass that owns its latest    *)
(* claim, and says whether that pass came through its vaults: a slow or    *)
(* revived worker does not close a request somebody else is working on.    *)
OutcomeIsOwn ==
    [][\A r \in Requests : rows[r] = "claimed" /\ rows'[r] # "claimed" =>
         \E w \in Workers : /\ token[r] = w /\ claim[w] = r /\ pc[w] = "complete"
                            /\ rows'[r] = "completed" => succeeded[w]]_vars

(* A vault is in the hands of one pass at a time, and of none that is not  *)
(* at it: leases are given back on every way out.                          *)
LeaseFollowsPass ==
    \A v \in VaultIds, w \in Workers :
        lease[v] = w <=> pc[w] \in {"sync", "cleaning"} /\ Vault(w) = v

(* Forced or not, a pass handles the lease of every vault as VaultLease    *)
(* allows: it never takes one over, and a crash gives it up.               *)
LeaseOf(v) == [w \in Workers |-> IF lease[v] = w THEN "live" ELSE "none"]

Lease(v) == INSTANCE VaultLease WITH Procs <- Workers, lease <- LeaseOf(v)

PassesUseLease ==
    /\ \A v \in VaultIds : Lease(v)!Init
    /\ [][\A v \in VaultIds : [Lease(v)!Next]_(LeaseOf(v))]_vars

(* Every request is answered, crashes and lapsed claims notwithstanding.   *)
RequestAnswered == \A r \in Requests : []<>(r \notin Open)

(* A request nobody has claimed yet makes a forced pass take up every      *)
(* vault, unless that pass finds the vault leased to another worker, or is *)
(* reported as failed.                                                     *)
PendingHonoured ==
    \A v \in VaultIds :
        (v \in asked /\ \E r \in Requests : rows[r] = "pending") ~>
            \/ v \notin asked
            \/ \E r \in Requests : rows[r] = "failed"
            \/ \E w, x \in Workers : /\ pc[w] = "visit" /\ claim[w] # Nil /\ ~AtEnd(w)
                                     /\ Vault(w) = v /\ x # w /\ lease[v] = x

(* Whatever an operator asks for is taken up by a forced pass that begins  *)
(* afterwards, or is reported as failed: this is what the test of the      *)
(* explicit request promises, and what coalescing into a claimed request   *)
(* breaks.                                                                 *)
EveryRequestHonoured ==
    \A v \in VaultIds :
        (v \in asked) ~>
            (v \notin asked \/ \E r \in Requests : rows[r] = "failed")

=============================================================================
