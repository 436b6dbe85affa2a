---------------------------- MODULE MCProcesses ----------------------------
(***************************************************************************)
(* Instances of five modules about threads, sessions and processes that    *)
(* share no state with each other: the polling thread of the combined      *)
(* service, the lease of a vault, the rows that vaults share, the          *)
(* migrations, and the request queue with its workers, who visit v1 before *)
(* v2.  Side by side their state spaces add up instead of multiplying: a   *)
(* behaviour takes the steps of one part, and the others stay where they   *)
(* begin.                                                                  *)
(***************************************************************************)
EXTENDS PollThread, LeaseSession, ContentStore, Migrations, SyncRequests, TLC

CONSTANTS Parts, v1, v2, a, b, p1, p2, m1, m2, m3

VARIABLE part

MCPoolSize == p1 :> 1 @@ p2 :> 2
MCUpstream == v1 :> <<a, b, a>> @@ v2 :> <<b, a>>
MCRepositories == <<v1, v2>>
MCPackaged == m1 :> 2 @@ m2 :> 2 @@ m3 :> 3

MCInit ==
    /\ part \in Parts
    /\ PollInit /\ LeaseInit /\ ContentInit /\ MigrateInit /\ Init

MCNext ==
    /\ \/ /\ part = "poll" /\ PollNext
          /\ UNCHANGED <<leaseVars, contentVars, migrateVars, vars>>
       \/ /\ part = "lease" /\ LeaseNext
          /\ UNCHANGED <<pollVars, contentVars, migrateVars, vars>>
       \/ /\ part = "content" /\ ContentNext
          /\ UNCHANGED <<pollVars, leaseVars, migrateVars, vars>>
       \/ /\ part = "migrate" /\ MigrateNext
          /\ UNCHANGED <<pollVars, leaseVars, contentVars, vars>>
       \/ /\ part = "queue" /\ Next
          /\ UNCHANGED <<pollVars, leaseVars, contentVars, migrateVars>>
    /\ UNCHANGED part

(* The fairness of each module, while its part runs.                       *)
MCFairness ==
    /\ WF_pollVars(part = "poll" /\ PollSteps) /\ WF_pollVars(part = "poll" /\ CloseSteps)
    /\ \A p \in Replicas : /\ WF_leaseVars(part = "lease" /\ PassSteps(p))
                           /\ WF_leaseVars(part = "lease" /\ ProbeEnds(p))
    /\ \A v \in Vaults : /\ WF_contentVars(part = "content" /\ Work(v))
                         /\ SF_contentVars(part = "content" /\ Begin(v))
                         /\ SF_contentVars(part = "content" /\ CleanRevisions(v))
    /\ WF_contentVars(part = "content" /\ Clean)
    /\ \A w \in Workers : WF_vars(part = "queue" /\ Advance(w))
    /\ \A r \in Requests : WF_vars(part = "queue" /\ Lapse(r))

MCSpec ==
    /\ MCInit
    /\ [][MCNext]_<<pollVars, leaseVars, contentVars, migrateVars, vars, part>>
    /\ MCFairness

(* What EventuallyServed and GarbageCollected say of the behaviours in     *)
(* which their part runs.                                                  *)
ContentServed == part = "content" => EventuallyServed
ContentCollected == part = "content" => GarbageCollected
=============================================================================
