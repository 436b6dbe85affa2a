--------------------------- MODULE RevisionStore ---------------------------
(***************************************************************************)
(* The life of one vault's index revisions in PostgreSQL: several worker   *)
(* processes build invisible revisions and publish them under a session    *)
(* advisory lock, cleaners delete what retention no longer needs, and any  *)
(* of them may lose its lock session or crash between two steps.           *)
(*                                                                         *)
(* Sources: storage/postgres/{index_store,lease,cleanup}.py,               *)
(* service/coordinator.py (_sync_repository, _run_indexing),               *)
(* indexing/service.py (_reconcile).  An action is one committed           *)
(* transaction with the client code around it.                             *)
(***************************************************************************)
EXTENDS Naturals, Sequences, FiniteSets

CONSTANTS
    Workers,       \* processes that run reconciliation passes
    Cleaners,      \* processes that run the retention pass
    RevIds,        \* the revision UUIDs a behaviour may draw
    None,          \* SQL NULL
    Paths, Docs,   \* source paths, and the contents a path may have
    NoDoc,         \* no searchable source at a path
    Commits,       \* what a fetch may find upstream
    Tree,          \* the sources of each commit
    Unparsable,    \* contents the parser or the chunker rejects
    KeepPromoted,  \* cleanup.keep_promoted
    BatchSize,     \* cleanup.batch_size
    MaxFaults      \* bound on lost sessions, crashes and failed transactions

ASSUME StoreAssumption ==
    /\ None \notin RevIds \cup Commits
    /\ NoDoc \notin Docs
    /\ Unparsable \subseteq Docs
    /\ Workers \cap Cleaners = {}
    /\ Tree \in [Commits -> [Paths -> Docs \cup {NoDoc}]]
    /\ KeepPromoted \in Nat /\ BatchSize \in Nat \ {0} /\ MaxFaults \in Nat

VARIABLES
    \* the database
    active,      \* vaults.active_revision_id
    state,       \* vault_revisions.state; "unborn" before, "deleted" after the row
    commit,      \* vault_revisions.commit_sha
    base,        \* the active revision a revision was copied from
    stamped,     \* revisions whose four fingerprints are all set
    docs,        \* the searchable sources of each revision
    promotions,  \* the revisions that were promoted, by promoted_at
    aged,        \* revisions whose eligibility time is past min_age
    session,     \* each process's lock session: it holds the lock iff "live"
    \* the processes
    pc,
    pass,        \* what a worker's reconciliation pass knows, see NoPass
    doomed,      \* the revisions a cleaner's statement has selected
    faults

database  == <<active, state, commit, base, stamped, docs, promotions, aged>>
processes == <<pc, pass, doomed>>
vars == <<database, session, processes, faults>>

Procs   == Workers \cup Cleaners
Served  == {"active", "active_degraded"}
States  == {"unborn", "building", "superseded", "failed", "deleted"} \cup Served
Content == [Paths -> Docs \cup {NoDoc}]
Empty   == [p \in Paths |-> NoDoc]

Building == {"reset", "plan", "write", "decide", "abandon"}
WorkerPC == {"idle", "leased", "begin", "release"} \cup Building
CleanerPC == {"idle", "select", "delete", "release"}

Promoted == {promotions[i] : i \in DOMAIN promotions}
Present  == {r \in RevIds : state[r] \notin {"unborn", "deleted"}}

Held == \E q \in Procs : session[q] = "live"    \* the advisory lock

(* A pass: the fetched commit; index_usable, that the active revision is   *)
(* of that commit; the revision being built; the sources still to replace, *)
(* suppress or delete; and that no parse and no blocking failure occurred. *)
Pass(c, u, r, ps, l) ==
    [target |-> c, usable |-> u, handle |-> r, todo |-> ps, lexical |-> l]

NoPass == Pass(None, FALSE, None, {}, TRUE)

Passes == [target : Commits \cup {None}, usable : BOOLEAN, handle : RevIds \cup {None},
           todo : SUBSET Paths, lexical : BOOLEAN]

Target(w) == pass[w].target
Usable(w) == pass[w].usable
Handle(w) == pass[w].handle
Todo(w)   == pass[w].todo
Lexical(w) == pass[w].lexical

Init ==
    /\ active = None
    /\ state = [r \in RevIds |-> "unborn"]
    /\ commit = [r \in RevIds |-> None]
    /\ base = [r \in RevIds |-> None]
    /\ stamped = {}
    /\ docs = [r \in RevIds |-> Empty]
    /\ promotions = <<>>
    /\ aged = {}
    /\ session = [q \in Procs |-> "none"]
    /\ pc = [q \in Procs |-> "idle"]
    /\ pass = [w \in Workers |-> NoPass]
    /\ doomed = [k \in Cleaners |-> {}]
    /\ faults = 0

Goto(q, place) == pc' = [pc EXCEPT ![q] = place]
Forget(w) == pass' = [pass EXCEPT ![w] = NoPass]    \* the rows stay as they are
Continue(w, ps, l) ==
    [pass EXCEPT ![w] = Pass(Target(w), Usable(w), Handle(w), ps, l)]
Fault == faults < MaxFaults /\ faults' = faults + 1

----------------------------------------------------------------------------
(* The lease: a PostgreSQL session that holds pg_try_advisory_lock.        *)

Acquire(q) ==
    /\ pc[q] = "idle"
    /\ ~Held
    /\ session' = [session EXCEPT ![q] = "live"]
    /\ Goto(q, IF q \in Workers THEN "leased" ELSE "select")
    /\ UNCHANGED <<database, pass, doomed, faults>>

(* lease.release, or the return of a broken connection to the pool.        *)
Release(q) ==
    /\ pc[q] = "release"
    /\ session' = [session EXCEPT ![q] = "none"]
    /\ Goto(q, "idle")
    /\ UNCHANGED <<database, pass, doomed, faults>>

(* The server ends the session and with it the lock.  The process finds    *)
(* out when it next calls ensure_held, or never.                           *)
LoseSession(q) ==
    /\ session[q] = "live"
    /\ Fault
    /\ session' = [session EXCEPT ![q] = "lost"]
    /\ UNCHANGED <<database, processes>>

Crash(q) ==        \* the server sees the connection close
    /\ pc[q] # "idle"
    /\ Fault
    /\ session' = [session EXCEPT ![q] = "none"]
    /\ Goto(q, "idle")
    /\ \/ q \in Workers /\ Forget(q) /\ UNCHANGED doomed
       \/ q \in Cleaners /\ doomed' = [doomed EXCEPT ![q] = {}] /\ UNCHANGED pass
    /\ UNCHANGED database

----------------------------------------------------------------------------
(* A pass up to its revision: fetch, compare with the active revision.     *)

(* ensure_lease, fetch, and the test for an unchanged commit.  The worker  *)
(* retries pending embeddings in every pass, so a degraded revision of the *)
(* same commit is built again.  The pass may also end here because the     *)
(* fetch or the manifest failed, or because this commit was lexically      *)
(* incomplete before and nobody asked for it.                              *)
Inspect(w) ==
    /\ pc[w] = "leased" /\ session[w] = "live"
    /\ \E c \in Commits :
         LET same == active # None /\ commit[active] = c
         IN  \/ Goto(w, "release") /\ UNCHANGED pass
             \/ /\ ~(same /\ state[active] = "active")
                /\ Goto(w, "begin")
                /\ pass' = [pass EXCEPT ![w] = Pass(c, same, None, {}, TRUE)]
    /\ UNCHANGED <<database, session, doomed, faults>>

(* begin_revision: a copy of the active revision under a new UUID.  No     *)
(* lease is checked here.                                                  *)
Begin(w) ==
    /\ pc[w] = "begin"
    /\ \E r \in RevIds :
         /\ state[r] = "unborn"
         /\ state' = [state EXCEPT ![r] = "building"]
         /\ commit' = [commit EXCEPT ![r] = Target(w)]
         /\ base' = [base EXCEPT ![r] = active]
         /\ docs' = [docs EXCEPT ![r] = IF active = None THEN Empty ELSE docs[active]]
         /\ stamped' = IF active \in stamped THEN stamped \cup {r} ELSE stamped
         /\ pass' = [pass EXCEPT ![w] = Pass(Target(w), Usable(w), r, {}, TRUE)]
    /\ Goto(w, IF Usable(w) THEN "plan" ELSE "reset")
    /\ UNCHANGED <<active, promotions, aged, session, doomed, faults>>

(* begin_revision raises before there is a revision to fail.  (The bound   *)
(* on RevIds also ends here: a behaviour that has drawn them all.)         *)
BeginError(w) ==
    /\ pc[w] = "begin"
    /\ \/ Fault
       \/ (\A r \in RevIds : state[r] # "unborn") /\ UNCHANGED faults
    /\ Forget(w)
    /\ Goto(w, "release")
    /\ UNCHANGED <<database, session, doomed>>

----------------------------------------------------------------------------
(* Indexing into the revision.  Every transaction first checks that the    *)
(* revision is still being built (_assert_building).                       *)

Writable(w) == state[Handle(w)] = "building"

ResetEveryRevision(w) ==   \* variant: the deletes miss their revision filter
    /\ pc[w] = "reset" /\ Writable(w)
    /\ docs' = [r \in RevIds |-> Empty]
    /\ stamped' = {}
    /\ Goto(w, "plan")
    /\ UNCHANGED <<active, state, commit, base, promotions, aged, session, pass, doomed, faults>>

Reset(w) ==
    /\ pc[w] = "reset" /\ Writable(w)
    /\ docs' = [docs EXCEPT ![Handle(w)] = Empty]
    /\ stamped' = stamped \ {Handle(w)}
    /\ Goto(w, "plan")
    /\ UNCHANGED <<active, state, commit, base, promotions, aged, session, pass, doomed, faults>>

(* discover_sources on the checkout of the target, source_hashes of the    *)
(* revision: additions, changes and deletions.                             *)
Plan(w) ==
    /\ pc[w] = "plan" /\ Writable(w)
    /\ LET differ == {p \in Paths : docs[Handle(w)][p] # Tree[Target(w)][p]}
       IN  pass' = Continue(w, differ, TRUE)
    /\ Goto(w, "write")
    /\ UNCHANGED <<database, session, doomed, faults>>

Found(w, p) == p \in Todo(w) /\ Tree[Target(w)][p] # NoDoc   \* not a deletion

Replace(w, p) ==           \* replace_source
    /\ pc[w] = "write" /\ Found(w, p) /\ Writable(w)
    /\ Tree[Target(w)][p] \notin Unparsable
    /\ docs' = [docs EXCEPT ![Handle(w)][p] = Tree[Target(w)][p]]
    /\ stamped' = stamped \cup {Handle(w)}
    /\ pass' = Continue(w, Todo(w) \ {p}, Lexical(w))
    /\ UNCHANGED <<active, state, commit, base, promotions, aged, session, pc, doomed, faults>>

Suppress(w, p) ==          \* a parse failure: suppress_source
    /\ pc[w] = "write" /\ Found(w, p) /\ Writable(w)
    /\ Tree[Target(w)][p] \in Unparsable
    /\ docs' = [docs EXCEPT ![Handle(w)][p] = NoDoc]
    /\ pass' = Continue(w, Todo(w) \ {p}, FALSE)
    /\ UNCHANGED <<active, state, commit, base, stamped, promotions, aged, session, pc, doomed,
                   faults>>

(* A replace or suppress that raises StorageError is counted as a blocking *)
(* failure and the run goes on with the next source.                       *)
SkipSource(w, p) ==
    /\ pc[w] = "write" /\ Found(w, p)
    /\ Fault \/ (~Writable(w) /\ UNCHANGED faults)
    /\ pass' = Continue(w, Todo(w) \ {p}, FALSE)
    /\ UNCHANGED <<database, session, pc, doomed>>

(* delete_sources: the deletions and the fingerprints, in one transaction. *)
Finalize(w) ==
    /\ pc[w] = "write" /\ Writable(w)
    /\ \A p \in Paths : ~Found(w, p)
    /\ docs' = [docs EXCEPT ![Handle(w)] =
                  [p \in Paths |-> IF p \in Todo(w) THEN NoDoc ELSE @[p]]]
    /\ stamped' = stamped \cup {Handle(w)}
    /\ pass' = Continue(w, {}, Lexical(w))
    /\ Goto(w, "decide")
    /\ UNCHANGED <<active, state, commit, base, promotions, aged, session, doomed, faults>>

----------------------------------------------------------------------------
(* Publication and failure.                                                *)

PublishRegardless(w) == TRUE   \* variant: parse failures do not count

LexicallyComplete(w) == Lexical(w)

(* What _promote_on checks in its transaction on the lock session: the     *)
(* lock is held, the revision is being built and has its fingerprints, and *)
(* nobody published since it was copied.                                   *)
MayPublishAnyBuild(w) ==       \* variant: neither the lock nor the base is checked
    Writable(w) /\ Handle(w) \in stamped

MayPublish(w) ==
    /\ session[w] = "live"
    /\ Writable(w)
    /\ active = base[Handle(w)]
    /\ Handle(w) \in stamped

PublishedRetired(r, s) ==      \* variant: a state the CHECK of the table does not know
    [q \in RevIds |-> IF q = r THEN s
                      ELSE IF q = base[r] /\ state[q] \in Served THEN "retired"
                      ELSE state[q]]

Published(r, s) ==
    [q \in RevIds |-> IF q = r THEN s
                      ELSE IF q = base[r] /\ state[q] \in Served THEN "superseded"
                      ELSE state[q]]

(* lease.promote.  The answer to the COMMIT may be lost with the session:  *)
(* the pass then takes the failure path although it has published.         *)
Promote(w) ==
    /\ pc[w] = "decide" /\ LexicallyComplete(w) /\ MayPublish(w)
    /\ \E s \in Served : state' = Published(Handle(w), s)
    /\ active' = Handle(w)
    /\ promotions' = Append(promotions, Handle(w))
    /\ aged' = aged \ {Handle(w), base[Handle(w)]}
    /\ \/ UNCHANGED <<session, faults>>
       \/ Fault /\ session' = [session EXCEPT ![w] = "lost"]
    /\ Forget(w)
    /\ Goto(w, "release")
    /\ UNCHANGED <<commit, base, stamped, docs, doomed>>

(* promote raises StorageError, which marks the lease as lost: the failure *)
(* path then skips revision.fail and the row stays "building".             *)
RefusePromotion(w) ==
    /\ pc[w] = "decide" /\ LexicallyComplete(w)
    /\ ~MayPublish(w)
    /\ Forget(w)
    /\ Goto(w, "release")
    /\ UNCHANGED <<database, session, doomed, faults>>

(* revision.fail of a lexically incomplete build, or of one that raised.   *)
Fail(w) ==
    /\ \/ pc[w] = "decide" /\ ~LexicallyComplete(w)
       \/ pc[w] = "abandon"
    /\ session[w] = "live"
    /\ IF Writable(w) THEN /\ state' = [state EXCEPT ![Handle(w)] = "failed"]
                           /\ aged' = aged \ {Handle(w)}
                      ELSE UNCHANGED <<state, aged>>
    /\ Forget(w)
    /\ Goto(w, "release")
    /\ UNCHANGED <<active, commit, base, stamped, docs, promotions, session, doomed, faults>>

NoticeLossWhenDone(w) ==   \* variant: the failure path does not leave without the lease
    /\ session[w] = "lost"
    /\ \/ pc[w] \in {"leased", "begin"}
       \/ pc[w] = "decide" /\ ~LexicallyComplete(w)
    /\ Forget(w)
    /\ Goto(w, "release")
    /\ UNCHANGED <<database, session, doomed, faults>>

(* ensure_held raises: nothing more is written for this pass.              *)
NoticeLoss(w) ==
    /\ session[w] = "lost"
    /\ \/ pc[w] \in {"leased", "begin", "abandon"}
       \/ pc[w] = "decide" /\ ~LexicallyComplete(w)
    /\ Forget(w)
    /\ Goto(w, "release")
    /\ UNCHANGED <<database, session, doomed, faults>>

(* A transaction of the pass fails: because the revision is no longer      *)
(* writable (a cleaner deleted it), or for a reason of the database.       *)
BuildError(w) ==
    /\ \/ pc[w] \in {"reset", "plan"}
       \/ pc[w] = "write" /\ \A p \in Paths : ~Found(w, p)
    /\ Fault \/ (~Writable(w) /\ UNCHANGED faults)
    /\ Goto(w, "abandon")
    /\ UNCHANGED <<database, session, pass, doomed>>

----------------------------------------------------------------------------
(* Retention: PostgresRevisionCleaner.run.  It takes the vault's lease but *)
(* deletes on another connection and does not look at the lease again.     *)
(* The DELETE picks its candidates from a snapshot and only then locks     *)
(* their rows, so the two are separate actions.                            *)

Rank(r) == Cardinality({i \in DOMAIN promotions :
                /\ promotions[i] \in Present
                /\ \E j \in 1..i : promotions[j] = r})

EligibleUnranked ==            \* variant: keep_promoted is ignored
    {r \in aged : r # active /\ state[r] \in {"building", "failed", "superseded"}}

EligibleFinished ==            \* variant: abandoned builds are not collected
    {r \in aged : /\ r # active
                  /\ state[r] \in {"failed", "superseded"}
                  /\ r \in Promoted => Rank(r) > KeepPromoted}

Eligible ==
    {r \in aged : /\ r # active
                  /\ state[r] \in {"building", "failed", "superseded"}
                  /\ r \in Promoted => Rank(r) > KeepPromoted}

Select(k) ==
    /\ pc[k] = "select"
    /\ \E batch \in SUBSET Eligible :
         /\ Cardinality(batch) <= BatchSize
         /\ batch = Eligible \/ Cardinality(batch) = BatchSize
         /\ doomed' = [doomed EXCEPT ![k] = batch]
    /\ Goto(k, "delete")
    /\ UNCHANGED <<database, session, pass, faults>>

NoForeignKey(k) == TRUE        \* variant: the pointer to the row is not checked

ForeignKeyHolds(k) == active \notin doomed[k]   \* vaults_active_revision_fk

(* The rows go with their sources.  Without the key the cleaner's whole    *)
(* transaction is rolled back.                                             *)
Delete(k) ==
    /\ pc[k] = "delete"
    /\ IF ForeignKeyHolds(k)
       THEN /\ state' = [r \in RevIds |-> IF r \in doomed[k] THEN "deleted" ELSE state[r]]
            /\ docs' = [r \in RevIds |-> IF r \in doomed[k] THEN Empty ELSE docs[r]]
            /\ stamped' = stamped \ doomed[k]
            /\ aged' = aged \ doomed[k]
       ELSE UNCHANGED <<state, docs, stamped, aged>>
    /\ doomed' = [doomed EXCEPT ![k] = {}]
    /\ Goto(k, "release")
    /\ UNCHANGED <<active, commit, base, promotions, session, pass, faults>>

(* min_age passes since the revision started, failed or was superseded.    *)
Age(r) ==
    /\ r \notin aged
    /\ state[r] \in {"building", "failed", "superseded"}
    /\ aged' = aged \cup {r}
    /\ UNCHANGED <<active, state, commit, base, stamped, docs, promotions, session,
                   processes, faults>>

----------------------------------------------------------------------------
Build(w) ==
    \/ Inspect(w) \/ Begin(w) \/ Reset(w) \/ Plan(w)
    \/ \E p \in Paths : Replace(w, p) \/ Suppress(w, p) \/ SkipSource(w, p)
    \/ Finalize(w) \/ Promote(w) \/ RefusePromotion(w) \/ Fail(w)
    \/ NoticeLoss(w) \/ BeginError(w) \/ BuildError(w)

Clean(k) == Select(k) \/ Delete(k)

Next ==
    \/ \E q \in Procs : Acquire(q) \/ Release(q) \/ LoseSession(q) \/ Crash(q)
    \/ \E w \in Workers : Build(w)
    \/ \E k \in Cleaners : Clean(k)
    \/ \E r \in RevIds : Age(r)

Spec == Init /\ [][Next]_vars

(* Time passes, processes run on, and the cleaner, which runs after every  *)
(* pass and whose rival passes pause for the poll interval, finds the lock *)
(* free from time to time.                                                 *)
FairSpec ==
    /\ Spec
    /\ \A r \in RevIds : WF_vars(Age(r))
    /\ \A w \in Workers : WF_vars(Build(w) \/ Release(w))
    /\ \A k \in Cleaners : SF_vars(Acquire(k)) /\ WF_vars(Clean(k) \/ Release(k))

----------------------------------------------------------------------------
(* The abstract index this implements: see PublishedIndex.  A draft is a   *)
(* revision some pass holds, opened at the publication it was copied from. *)

Position(history, r) ==
    IF r = None THEN 0 ELSE CHOOSE i \in DOMAIN history : history[i] = r

Index == INSTANCE PublishedIndex WITH
    Nothing <- None,
    current <- IF active = None THEN None
               ELSE [commit |-> commit[active], docs |-> docs[active]],
    version <- Len(promotions),
    opened <- [w \in Workers |-> IF Handle(w) = None THEN None
                                 ELSE Position(promotions, base[Handle(w)])]

Implements == Index!Spec

(* What workers and cleaners do with the lease is what it allows them: see *)
(* VaultLease.  A lost session is noticed late or never, and only a new    *)
(* acquisition makes it good.                                              *)
Lease == INSTANCE VaultLease WITH lease <- session

UsesLease == Lease!Spec

----------------------------------------------------------------------------
(* Properties.                                                             *)

TypeOK ==
    /\ active \in RevIds \cup {None}
    /\ state \in [RevIds -> States]
    /\ commit \in [RevIds -> Commits \cup {None}]
    /\ base \in [RevIds -> RevIds \cup {None}]
    /\ stamped \in SUBSET RevIds
    /\ docs \in [RevIds -> Content]
    /\ promotions \in Seq(RevIds)
    /\ aged \in SUBSET RevIds
    /\ session \in [Procs -> {"none", "live", "lost"}]
    /\ pc \in [Procs -> WorkerPC \cup CleanerPC]
    /\ \A w \in Workers : pc[w] \in WorkerPC
    /\ \A k \in Cleaners : pc[k] \in CleanerPC
    /\ pass \in [Workers -> Passes]
    /\ doomed \in [Cleaners -> SUBSET RevIds]
    /\ faults \in 0..MaxFaults

(* The pointer queries follow and the states of the rows always agree: the *)
(* row it names exists and is active, and no other row is.  Publication,   *)
(* failure, retention and crashes may interleave in any order.             *)
OneServed == \A r \in RevIds : state[r] \in Served <=> r = active

(* What queries see is exactly the tree of the commit it is labelled with, *)
(* whatever was copied, reset, skipped or suppressed on the way.           *)
ServedMatchesCommit == active # None => docs[active] = Tree[commit[active]]

(* No lost update: each published revision was copied from the one that    *)
(* was published right before it.                                          *)
LinearHistory ==
    \A i \in DOMAIN promotions :
        base[promotions[i]] = IF i = 1 THEN None ELSE promotions[i-1]

(* A published revision is immutable until retention deletes its row.      *)
PublishedImmutable ==
    [][\A r \in Promoted : state'[r] # "deleted" =>
            docs'[r] = docs[r] /\ commit'[r] = commit[r] /\ base'[r] = base[r]]_vars

(* Retention keeps the last keep_promoted publications: a cleaner that     *)
(* still holds the lease never deletes one of them, also while others that *)
(* have lost theirs go on.                                                 *)
Newest == {promotions[i] : i \in {j \in DOMAIN promotions : j + KeepPromoted > Len(promotions)}}
KeepsNewest ==
    [][\A k \in Cleaners : session[k] = "live" /\ doomed'[k] # doomed[k] =>
         \A r \in Newest \cap Present : state'[r] # "deleted"]_vars

(* An abandoned build does not stay for ever: once no pass holds it, it is *)
(* eventually deleted, also when the crash left it "building".             *)
Abandoned(r) == state[r] \in {"building", "failed"} /\ \A w \in Workers : Handle(w) # r
OrphansCollected == \A r \in RevIds : Abandoned(r) ~> (state[r] = "deleted")

(* Every pass ends and gives the lease back, also when its revision was    *)
(* deleted under it or its session is gone.                                *)
PassEnds == \A w \in Workers : (pc[w] = "leased") ~> (session[w] = "none")

=============================================================================
