------------------------- MODULE SyncRequests_proofs -------------------------
(***************************************************************************)
(* The request queue for any number of workers, vaults, requests, crashes  *)
(* and lapsed claims.                                                      *)
(***************************************************************************)
EXTENDS SyncRequests, TLAPS

(* A pass that holds a lease stands at a vault, not past the last one.     *)
StandsAtVault == \A w \in Workers : pc[w] \in {"sync", "cleaning"} => ~AtEnd(w)

QueueInv == TypeOK /\ StandsAtVault /\ OneOpen /\ LeaseFollowsPass

(* The vault a pass stands at is a vault.                                  *)
LEMMA VaultType ==
    ASSUME TypeOK, NEW w \in Workers, ~AtEnd(w)
    PROVE  at[w] \in 1..Len(Repositories) /\ Vault(w) \in VaultIds /\ Len(Repositories) \in Nat
BY RequestsAssumption DEF TypeOK, AtEnd, Vault

(* The queue starts empty, with all workers idle and all leases free.      *)
LEMMA InitQueueInv == Init => QueueInv
<1> SUFFICES ASSUME Init PROVE QueueInv
  OBVIOUS
<1>1. TypeOK
  BY RequestsAssumption DEF Init, TypeOK, Places
<1>2. StandsAtVault /\ OneOpen /\ LeaseFollowsPass
  BY RequestsAssumption DEF Init, StandsAtVault, OneOpen, LeaseFollowsPass
<1>. QED  BY <1>1, <1>2 DEF QueueInv

----------------------------------------------------------------------------
(* Steps that change only the queue keep typing.                           *)
QueueTypes ==
    /\ rows \in [Requests -> {"none", "pending", "claimed", "completed", "failed"}]
    /\ token \in [Requests -> Workers \cup {Nil}]
    /\ \A r \in Requests : token[r] # Nil <=> rows[r] = "claimed"
    /\ lapsed \subseteq {r \in Requests : rows[r] = "claimed"}

PassTypes ==
    /\ lease \in [VaultIds -> Workers \cup {Nil}]
    /\ pc \in [Workers -> Places]
    /\ claim \in [Workers -> Requests \cup {Nil}]
    /\ at \in [Workers -> 1..Len(Repositories) + 1]
    /\ succeeded \in [Workers -> BOOLEAN]
    /\ asked \in SUBSET VaultIds
    /\ failures \in 0..MaxFailures

(* The rows of the queue stay well typed.                                  *)
LEMMA NextQueueTypes == ASSUME QueueInv, Next PROVE QueueTypes'
<1>t. QueueTypes /\ PassTypes
  BY DEF QueueInv, TypeOK, QueueTypes, PassTypes
<1>0. ASSUME UNCHANGED queue PROVE QueueTypes'
  BY <1>0, <1>t DEF queue, QueueTypes
<1>1. CASE RequestSync
  <2>1. UNCHANGED <<token, lapsed>>
        /\ (\/ UNCHANGED rows
            \/ \E r \in Requests : rows[r] = "none" /\ rows' = [rows EXCEPT ![r] = "pending"])
    BY <1>1 DEF RequestSync
  <2>. QED  BY <2>1, <1>t DEF QueueTypes
<1>2. ASSUME NEW w \in Workers, Claim(w) PROVE QueueTypes'
  BY <1>2, <1>t, RequestsAssumption DEF Claim, Claimable, QueueTypes
<1>3. ASSUME NEW w \in Workers, Complete(w) PROVE QueueTypes'
  <2>1. CASE UNCHANGED queue
    BY <2>1, <1>0
  <2>2. CASE /\ claim[w] # Nil /\ OwnsClaim(w)
             /\ rows' = [rows EXCEPT ![claim[w]] = IF succeeded[w] THEN "completed" ELSE "failed"]
             /\ token' = ClearedToken(w)
             /\ lapsed' = lapsed \ {claim[w]}
    BY <2>2, <1>t DEF QueueTypes, PassTypes, ClearedToken
  <2>. QED  BY <1>3, <2>1, <2>2 DEF Complete
<1>4. ASSUME NEW r \in Requests, Lapse(r) PROVE QueueTypes'
  BY <1>4, <1>t DEF Lapse, QueueTypes
<1>5. ASSUME NEW w \in Workers, \/ Poll(w) \/ Visit(w) \/ Leave(w) \/ EndVisits(w) \/ CleanVault(w)
                               \/ EndClean(w) \/ CompleteError(w) \/ Abort(w) \/ CrashWorker(w)
      PROVE  UNCHANGED queue
  BY <1>5 DEF Poll, Visit, Leave, EndVisits, CleanVault, EndClean, CompleteError, Abort, CrashWorker
<1>. QED  BY <1>0, <1>1, <1>2, <1>3, <1>4, <1>5 DEF Next, Advance

(* The state of the workers stays well typed, and a pass that holds a      *)
(* lease stays at a vault.                                                 *)
LEMMA NextPassTypes == ASSUME QueueInv, Next PROVE PassTypes' /\ StandsAtVault'
<1>t. QueueTypes /\ PassTypes /\ StandsAtVault
  BY DEF QueueInv, TypeOK, QueueTypes, PassTypes
<1>l. Len(Repositories) \in Nat
  BY RequestsAssumption
<1>v. ASSUME NEW w \in Workers, ~AtEnd(w)
      PROVE  at[w] + 1 \in 1..Len(Repositories) + 1 /\ Vault(w) \in VaultIds
  BY <1>v, VaultType DEF QueueInv
<1>f. \A w \in Workers : Freed(w) \in [VaultIds -> Workers \cup {Nil}]
  BY <1>t DEF Freed, PassTypes
<1>. USE DEF Places, Proceed, workers, PassTypes, StandsAtVault, AtEnd
<1>1. CASE RequestSync
  BY <1>1, <1>t DEF RequestSync
<1>2. ASSUME NEW w \in Workers, Claim(w) PROVE PassTypes' /\ StandsAtVault'
  BY <1>2, <1>t, <1>l DEF Claim, Claimable, QueueTypes
<1>3. ASSUME NEW w \in Workers, Complete(w) PROVE PassTypes' /\ StandsAtVault'
  BY <1>3, <1>t DEF Complete
<1>4. ASSUME NEW r \in Requests, Lapse(r) PROVE PassTypes' /\ StandsAtVault'
  BY <1>4, <1>t, RequestsAssumption DEF Lapse, Failure
<1>5. ASSUME NEW w \in Workers, Poll(w) PROVE PassTypes' /\ StandsAtVault'
  BY <1>5, <1>t, <1>l DEF Poll
<1>6. ASSUME NEW w \in Workers, Visit(w) PROVE PassTypes' /\ StandsAtVault'
  <2>1. CASE Vacant(w)
    BY <1>6, <2>1, <1>t, <1>v DEF Visit
  <2>2. CASE ~Vacant(w)
    BY <1>6, <2>2, <1>t, <1>v DEF Visit, Step
  <2>. QED  BY <2>1, <2>2
<1>7. ASSUME NEW w \in Workers, Leave(w) PROVE PassTypes' /\ StandsAtVault'
  BY <1>7, <1>t, <1>v, <1>f DEF Leave, Step
<1>8. ASSUME NEW w \in Workers, EndVisits(w) PROVE PassTypes' /\ StandsAtVault'
  BY <1>8, <1>t, <1>l DEF EndVisits
<1>9. ASSUME NEW w \in Workers, CleanVault(w) PROVE PassTypes' /\ StandsAtVault'
  <2>1. CASE Vacant(w)
    BY <1>9, <2>1, <1>t, <1>v DEF CleanVault
  <2>2. CASE ~Vacant(w)
    BY <1>9, <2>2, <1>t, <1>v DEF CleanVault, Step
  <2>. QED  BY <2>1, <2>2
<1>10. ASSUME NEW w \in Workers, EndClean(w) PROVE PassTypes' /\ StandsAtVault'
  BY <1>10, <1>t DEF EndClean
<1>11. ASSUME NEW w \in Workers, CompleteError(w) PROVE PassTypes' /\ StandsAtVault'
  BY <1>11, <1>t, RequestsAssumption DEF CompleteError, Failure
<1>12. ASSUME NEW w \in Workers, Abort(w) PROVE PassTypes' /\ StandsAtVault'
  BY <1>12, <1>t, <1>f, RequestsAssumption DEF Abort, Failure
<1>13. ASSUME NEW w \in Workers, CrashWorker(w) PROVE PassTypes' /\ StandsAtVault'
  BY <1>13, <1>t, <1>f, RequestsAssumption DEF CrashWorker, Failure
<1>. QED
  BY <1>1, <1>2, <1>3, <1>4, <1>5, <1>6, <1>7, <1>8, <1>9, <1>10, <1>11, <1>12, <1>13
  DEF Next, Advance

----------------------------------------------------------------------------
(* No step opens a second request.                                         *)
LEMMA NextOneOpen == ASSUME QueueInv, Next PROVE OneOpen'
<1>t. OneOpen /\ rows \in [Requests -> {"none", "pending", "claimed", "completed", "failed"}]
      /\ lapsed \subseteq {r \in Requests : rows[r] = "claimed"}
      /\ claim \in [Workers -> Requests \cup {Nil}]
  BY DEF QueueInv, TypeOK
<1>0. ASSUME UNCHANGED rows PROVE OneOpen'
  BY <1>0, <1>t DEF OneOpen
<1>1. CASE RequestSync
  BY <1>1, <1>0, <1>t DEF RequestSync, Open, OneOpen
<1>2. ASSUME NEW w \in Workers, Claim(w) PROVE OneOpen'
  <2>1. PICK r \in Requests : rows[r] \in {"pending", "claimed"}
                              /\ rows' = [rows EXCEPT ![r] = "claimed"]
    BY <1>2, <1>t DEF Claim, Claimable
  <2>. QED  BY <2>1, <1>t DEF OneOpen
<1>3. ASSUME NEW w \in Workers, Complete(w) PROVE OneOpen'
  <2>1. \/ UNCHANGED rows
        \/ rows' = [rows EXCEPT ![claim[w]] = IF succeeded[w] THEN "completed" ELSE "failed"]
    BY <1>3 DEF Complete, queue
  <2>. QED  BY <2>1, <1>t, <1>0 DEF OneOpen
<1>4. ASSUME NEW r \in Requests, Lapse(r) PROVE UNCHANGED rows
  BY <1>4 DEF Lapse
<1>5. ASSUME NEW w \in Workers, \/ Poll(w) \/ Visit(w) \/ Leave(w) \/ EndVisits(w) \/ CleanVault(w)
                               \/ EndClean(w) \/ CompleteError(w) \/ Abort(w) \/ CrashWorker(w)
      PROVE  UNCHANGED rows
  BY <1>5 DEF Poll, Visit, Leave, EndVisits, CleanVault, EndClean, CompleteError, Abort, CrashWorker, queue
<1>. QED  BY <1>0, <1>1, <1>2, <1>3, <1>4, <1>5 DEF Next, Advance

(* A lease is taken and given back by the pass that stands at its vault.   *)
LEMMA NextLeaseFollowsPass == ASSUME QueueInv, Next PROVE LeaseFollowsPass'
<1>t. /\ LeaseFollowsPass /\ StandsAtVault /\ lease \in [VaultIds -> Workers \cup {Nil}]
      /\ pc \in [Workers -> Places] /\ at \in [Workers -> 1..Len(Repositories) + 1]
  BY DEF QueueInv, TypeOK
<1>a. \A w \in Workers : ~AtEnd(w) => Vault(w) \in VaultIds
  BY VaultType DEF QueueInv
<1>0. ASSUME UNCHANGED <<lease, pc, at>> PROVE LeaseFollowsPass'
  BY <1>0, <1>t DEF LeaseFollowsPass, Vault
<1>1. ASSUME NEW w \in Workers, UNCHANGED lease, pc[w] \notin {"sync", "cleaning"},
             pc'[w] \notin {"sync", "cleaning"},
             \A u \in Workers : u # w => pc'[u] = pc[u] /\ at'[u] = at[u]
      PROVE  LeaseFollowsPass'
  BY <1>1, <1>t DEF LeaseFollowsPass, Vault
<1>2. ASSUME NEW w \in Workers, lease' = Freed(w), pc'[w] \notin {"sync", "cleaning"},
             \A u \in Workers : u # w => pc'[u] = pc[u] /\ at'[u] = at[u]
      PROVE  LeaseFollowsPass'
  BY <1>2, <1>t, RequestsAssumption DEF LeaseFollowsPass, Vault, Freed
<1>3. ASSUME NEW w \in Workers, ~AtEnd(w), pc[w] \notin {"sync", "cleaning"},
             Vacant(w), lease' = [lease EXCEPT ![Vault(w)] = w],
             pc'[w] \in {"sync", "cleaning"}, UNCHANGED at,
             \A u \in Workers : u # w => pc'[u] = pc[u]
      PROVE  LeaseFollowsPass'
  <2>1. Vault(w) \in VaultIds /\ \A u \in Workers : Vault(u)' = Vault(u)
    BY <1>3, <1>a DEF Vault
  <2>2. \A v \in VaultIds : lease'[v] = IF v = Vault(w) THEN w ELSE lease[v]
    BY <1>3, <2>1, <1>t
  <2>3. \A u \in Workers : pc[u] \in {"sync", "cleaning"} => Vault(u) # Vault(w)
    BY <1>3, <2>1, <1>t, RequestsAssumption DEF LeaseFollowsPass, Vacant
  <2>. QED  BY <1>3, <2>1, <2>2, <2>3, <1>t DEF LeaseFollowsPass
<1>. USE DEF Proceed, workers, Places
<1>4. CASE RequestSync
  BY <1>4, <1>0 DEF RequestSync
<1>5. ASSUME NEW r \in Requests, Lapse(r) PROVE LeaseFollowsPass'
  BY <1>5, <1>0 DEF Lapse
<1>6. ASSUME NEW w \in Workers, Claim(w) PROVE LeaseFollowsPass'
  BY <1>6, <1>1, <1>t DEF Claim
<1>7. ASSUME NEW w \in Workers, Poll(w) PROVE LeaseFollowsPass'
  BY <1>7, <1>1, <1>t DEF Poll
<1>8. ASSUME NEW w \in Workers, Complete(w) PROVE LeaseFollowsPass'
  BY <1>8, <1>1, <1>t DEF Complete
<1>9. ASSUME NEW w \in Workers, CompleteError(w) PROVE LeaseFollowsPass'
  BY <1>9, <1>1, <1>t DEF CompleteError
<1>10. ASSUME NEW w \in Workers, Visit(w) PROVE LeaseFollowsPass'
  <2>1. CASE Vacant(w)
    BY <1>10, <2>1, <1>3, <1>t DEF Visit
  <2>2. CASE ~Vacant(w)
    BY <1>10, <2>2, <1>1, <1>t DEF Visit, Step
  <2>. QED  BY <2>1, <2>2
<1>11. ASSUME NEW w \in Workers, CleanVault(w) PROVE LeaseFollowsPass'
  <2>1. CASE Vacant(w)
    BY <1>11, <2>1, <1>3, <1>t DEF CleanVault
  <2>2. CASE ~Vacant(w)
    BY <1>11, <2>2, <1>1, <1>t DEF CleanVault, Step
  <2>. QED  BY <2>1, <2>2
<1>12. ASSUME NEW w \in Workers, Leave(w) PROVE LeaseFollowsPass'
  BY <1>12, <1>2, <1>t DEF Leave, Step
<1>13. ASSUME NEW w \in Workers, EndVisits(w) PROVE LeaseFollowsPass'
  BY <1>13, <1>1, <1>t DEF EndVisits
<1>14. ASSUME NEW w \in Workers, EndClean(w) PROVE LeaseFollowsPass'
  BY <1>14, <1>1, <1>t DEF EndClean
<1>15. ASSUME NEW w \in Workers, Abort(w) PROVE LeaseFollowsPass'
  BY <1>15, <1>2, <1>t DEF Abort
<1>16. ASSUME NEW w \in Workers, CrashWorker(w) PROVE LeaseFollowsPass'
  BY <1>16, <1>2, <1>t DEF CrashWorker
<1>. QED
  BY <1>4, <1>5, <1>6, <1>7, <1>8, <1>9, <1>10, <1>11, <1>12, <1>13, <1>14, <1>15, <1>16
  DEF Next, Advance

----------------------------------------------------------------------------
(* Every step keeps the inductive invariant.                               *)
LEMMA StepQueueInv == ASSUME QueueInv, [Next]_vars PROVE QueueInv'
<1>1. CASE Next
  <2>1. TypeOK'
    BY <1>1, NextQueueTypes, NextPassTypes DEF TypeOK, QueueTypes, PassTypes
  <2>. QED  BY <1>1, <2>1, NextPassTypes, NextOneOpen, NextLeaseFollowsPass DEF QueueInv
<1>2. CASE UNCHANGED vars
  BY <1>2 DEF vars, queue, workers, QueueInv, TypeOK, StandsAtVault, AtEnd, OneOpen,
     LeaseFollowsPass, Vault
<1>. QED  BY <1>1, <1>2

(* The inductive invariant holds in every reachable state.                 *)
THEOREM QueueInvariant == Spec => []QueueInv
<1>. QED  BY InitQueueInv, StepQueueInv, PTL DEF Spec

(* The table's rows, tokens and claims keep their types and the CHECK that *)
(* a row has a token exactly while it is claimed.                          *)
THEOREM QueueTypeOK == Spec => []TypeOK
<1>1. QueueInv => TypeOK
  BY DEF QueueInv
<1>. QED  BY <1>1, QueueInvariant, PTL

(* At most one sync request is open at any time, however requests, claims, *)
(* lapses and crashes interleave.                                          *)
THEOREM QueueOneOpen == Spec => []OneOpen
<1>1. QueueInv => OneOpen
  BY DEF QueueInv
<1>. QED  BY <1>1, QueueInvariant, PTL

(* A vault's lease is held by the pass that stands at it and by no other.  *)
THEOREM QueueLeaseFollowsPass == Spec => []LeaseFollowsPass
<1>1. QueueInv => LeaseFollowsPass
  BY DEF QueueInv
<1>. QED  BY <1>1, QueueInvariant, PTL

(* The outcome of a request is written by the owner of its latest claim.   *)
THEOREM QueueOutcomeIsOwn == Spec => OutcomeIsOwn
<1>. DEFINE Own == \A r \in Requests : rows[r] = "claimed" /\ rows'[r] # "claimed" =>
                      \E w \in Workers : /\ token[r] = w /\ claim[w] = r /\ pc[w] = "complete"
                                         /\ rows'[r] = "completed" => succeeded[w]
<1>1. ASSUME QueueInv, [Next]_vars PROVE [Own]_vars
  <2>t. rows \in [Requests -> {"none", "pending", "claimed", "completed", "failed"}]
        /\ claim \in [Workers -> Requests \cup {Nil}]
        /\ lapsed \subseteq Requests
    BY <1>1 DEF QueueInv, TypeOK
  <2>1. ASSUME RequestSync PROVE Own
    BY <2>1, <2>t DEF RequestSync
  <2>2. ASSUME NEW w \in Workers, Claim(w) PROVE Own
    BY <2>2, <2>t DEF Claim, Claimable
  <2>3. ASSUME NEW w \in Workers, Complete(w) PROVE Own
    <3>1. CASE UNCHANGED queue
      BY <3>1 DEF queue
    <3>2. CASE /\ claim[w] # Nil /\ OwnsClaim(w) /\ pc[w] = "complete"
               /\ rows' = [rows EXCEPT ![claim[w]] =
                             IF succeeded[w] THEN "completed" ELSE "failed"]
      BY <3>2, <2>t DEF OwnsClaim
    <3>. QED  BY <2>3, <3>1, <3>2 DEF Complete
  <2>4. ASSUME NEW r \in Requests, Lapse(r) PROVE Own
    BY <2>4 DEF Lapse
  <2>5. ASSUME NEW w \in Workers, \/ Poll(w) \/ Visit(w) \/ Leave(w) \/ EndVisits(w)
                                 \/ CleanVault(w) \/ EndClean(w) \/ CompleteError(w)
                                 \/ Abort(w) \/ CrashWorker(w)
        PROVE  Own
    <3>1. UNCHANGED rows
      BY <2>5 DEF Poll, Visit, Leave, EndVisits, CleanVault, EndClean, CompleteError, Abort, CrashWorker,
         queue
    <3>. QED  BY <3>1
  <2>. HIDE DEF Own
  <2>6. Next => Own
    BY <2>1, <2>2, <2>3, <2>4, <2>5 DEF Next, Advance
  <2>. QED  BY <1>1, <2>6
<1>. QED  BY <1>1, QueueInvariant, PTL DEF Spec, OutcomeIsOwn
----------------------------------------------------------------------------
(* VaultLease.                                                             *)

(* One step of the passes is, for every vault, a step of its lease.        *)
LEMMA StepUsesLease ==
    ASSUME QueueInv, [Next]_vars, NEW v \in VaultIds
    PROVE  [Lease(v)!Next]_(LeaseOf(v))
<1>t. /\ lease \in [VaultIds -> Workers \cup {Nil}] /\ Nil \notin Workers
      /\ \A w \in Workers : ~AtEnd(w) => Vault(w) \in VaultIds
  BY VaultType, RequestsAssumption DEF QueueInv, TypeOK
<1>0. ASSUME UNCHANGED lease PROVE UNCHANGED LeaseOf(v)
  BY <1>0 DEF LeaseOf
<1>1. ASSUME NEW w \in Workers, ~AtEnd(w), Vacant(w), lease' = [lease EXCEPT ![Vault(w)] = w]
      PROVE  [Lease(v)!Next]_(LeaseOf(v))
  <2>1. CASE v = Vault(w)
    <3>1. lease[v] = Nil /\ lease'[v] = w
      BY <1>1, <2>1, <1>t DEF Vacant
    <3>2. \A u \in Workers : LeaseOf(v)[u] = "none"
      BY <3>1, <1>t DEF LeaseOf
    <3>3. LeaseOf(v)' = [LeaseOf(v) EXCEPT ![w] = "live"]
      BY <3>1, <1>t DEF LeaseOf
    <3>4. Lease(v)!Grant(w)
      BY <3>2, <3>3 DEF Lease!Grant
    <3>. QED  BY <3>4 DEF Lease!Next
  <2>2. CASE v # Vault(w)
    <3>1. lease'[v] = lease[v]
      BY <1>1, <2>2, <1>t
    <3>. QED  BY <3>1 DEF LeaseOf
  <2>. QED  BY <2>1, <2>2
<1>2. ASSUME NEW w \in Workers, lease' = Freed(w) PROVE [Lease(v)!Next]_(LeaseOf(v))
  <2>1. lease'[v] = IF lease[v] = w THEN Nil ELSE lease[v]
    BY <1>2 DEF Freed
  <2>2. LeaseOf(v)' = [LeaseOf(v) EXCEPT ![w] = "none"]
    BY <2>1, <1>t DEF LeaseOf
  <2>3. Lease(v)!GiveUp(w)
    BY <2>2 DEF Lease!GiveUp
  <2>. QED  BY <2>3 DEF Lease!Next
<1>3. ASSUME NEW w \in Workers, Visit(w) \/ CleanVault(w) PROVE [Lease(v)!Next]_(LeaseOf(v))
  BY <1>3, <1>0, <1>1 DEF Visit, CleanVault
<1>4. ASSUME NEW w \in Workers, Leave(w) \/ Abort(w) \/ CrashWorker(w)
      PROVE  [Lease(v)!Next]_(LeaseOf(v))
  BY <1>4, <1>2 DEF Leave, Abort, CrashWorker
<1>5. ASSUME NEW w \in Workers, \/ Claim(w) \/ Poll(w) \/ Complete(w) \/ EndVisits(w)
                               \/ EndClean(w) \/ CompleteError(w)
      PROVE  UNCHANGED lease
  BY <1>5 DEF Claim, Poll, Complete, EndVisits, EndClean, CompleteError
<1>6. RequestSync \/ (\E r \in Requests : Lapse(r)) \/ UNCHANGED vars => UNCHANGED lease
  BY DEF RequestSync, Lapse, vars
<1>. QED  BY <1>0, <1>3, <1>4, <1>5, <1>6 DEF Next, Advance

(* Passes handle the lease of every vault as VaultLease allows, whatever   *)
(* is asked, whatever fails and whoever crashes.                           *)
THEOREM QueueUsesLease == Spec => PassesUseLease
<1>1. ASSUME Init, NEW v \in VaultIds PROVE Lease(v)!Init
  BY <1>1, RequestsAssumption DEF Init, LeaseOf, Lease!Init
<1>2. ASSUME QueueInv, [Next]_vars
      PROVE  [\A v \in VaultIds : [Lease(v)!Next]_(LeaseOf(v))]_vars
  BY <1>2, StepUsesLease
<1>3. Init => \A v \in VaultIds : Lease(v)!Init
  BY <1>1
<1>. QED  BY <1>2, <1>3, QueueInvariant, PTL DEF Spec, PassesUseLease
=============================================================================
