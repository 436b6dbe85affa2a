--------------------------- MODULE RepositorySync ---------------------------
(***************************************************************************)
(* The combined service with a local SQLite index, for one vault: the      *)
(* polling thread fetches the configured ref, moves the checkout, brings   *)
(* the index up to it and records its progress in a state file, while      *)
(* queries are answered from the index and labelled from the state file.   *)
(* The process may stop between any two steps.                             *)
(*                                                                         *)
(* Sources: service/coordinator.py, service/facade.py, service/state.py,   *)
(* service/git.py, indexing/service.py, ingest/discovery.py,               *)
(* storage/sqlite.py.  The lock that separates queries from reconciliation *)
(* is LifecycleLock; here it is "lock" (a writer waits) and the places of  *)
(* Locked (a writer is in).                                                *)
(***************************************************************************)
EXTENDS Naturals, FiniteSets

CONSTANTS
    Commits,
    None,          \* no commit, no reason
    Paths, Docs,   \* source paths, and the contents a path may have
    NoDoc,         \* no source at a path
    Tree,          \* the sources of each commit
    Undecodable,   \* contents that discovery rejects: not UTF-8
    Unparsable,    \* contents the parser or the chunker rejects
    BadManifest,   \* commits whose manifest is refused
    Follows,       \* <<c, d>>: the ref may move from c to d
    Queries,       \* request threads
    MaxFaults      \* bound on crashes, failed reads, fetches, writes and transactions

ASSUME SyncAssumption ==
    /\ None \notin Commits /\ IsFiniteSet(Paths)
    /\ NoDoc \notin Docs
    /\ Undecodable \subseteq Docs /\ Unparsable \subseteq Docs
    /\ BadManifest \subseteq Commits
    /\ Tree \in [Commits -> [Paths -> Docs \cup {NoDoc}]]
    /\ Follows \subseteq Commits \X Commits
    /\ MaxFaults \in Nat

VARIABLES
    upstream,    \* the commit the configured ref names
    \* on disk
    head,        \* HEAD of the managed checkout
    file,        \* the state file
    index,       \* the SQLite index
    \* in the process
    step, pass,    \* the polling thread, and what its pass knows
    retry,       \* _retry_pending_embeddings: a caller asked for a sync
    queries,
    faults,
    dropped      \* history: <<c, p>> when a run at the reconciled commit c missed source p

disk == <<head, file, index>>
syncVars == <<upstream, disk, step, pass, retry, queries, faults, dropped>>

Reasons == {None, "state_invalid", "fetch_failed", "manifest_invalid", "lexical_incomplete",
            "reconciliation_failed", "semantic_pending"}
Sha == Commits \cup {None}
Content == [Paths -> Docs \cup {NoDoc}]

(* VaultSyncState.  "trusted" is false of a file that does not parse, or   *)
(* that was written for another ref.                                       *)
States == [fetched : Sha, checkout : Sha, attempted : Sha, reconciled : Sha,
           reason : Reasons, trusted : BOOLEAN]

Initial(why, ok) == [fetched |-> None, checkout |-> None, attempted |-> None,
                     reconciled |-> None, reason |-> why, trusted |-> ok]

(* What read returns, and what the next write therefore starts from.       *)
Stored == IF file.trusted THEN file ELSE Initial("state_invalid", TRUE)

(* The rows of the index: the content hash of each source, the sources     *)
(* that are searchable, whether a finished run has left all fingerprints   *)
(* and a time (_snapshot_is_usable), whether chunks await embeddings.      *)
Indexes == [rows : Content, shown : SUBSET Paths, ready : BOOLEAN, pending : BOOLEAN]
NoIndex == [rows |-> [p \in Paths |-> NoDoc], shown |-> {}, ready |-> FALSE, pending |-> FALSE]

Locked == {"mark", "attempt", "index", "write"}
Places == {"idle", "fetch", "inspect", "lock", "persist", "failed", "unexpected"} \cup Locked

(* found: the sources that discovery returned, todo: where the index       *)
(* differs from them, clean: the run has failed at nothing.                *)
Passes == [target : Sha, retry : BOOLEAN, usable : BOOLEAN, found : Content,
           todo : SUBSET Paths, clean : BOOLEAN]
NoPass == [target |-> None, retry |-> FALSE, usable |-> FALSE, found |-> NoIndex.rows,
           todo |-> {}, clean |-> TRUE]

NoQuery == [at |-> "idle", hits |-> NoIndex.rows, label |-> None]
Inside  == {q \in Queries : queries[q].at \in {"admitted", "searched"}}

SyncInit ==
    /\ upstream \in Commits
    /\ head = None
    /\ file = Initial(None, TRUE)
    /\ index = NoIndex
    /\ step = "idle"
    /\ pass = NoPass
    /\ retry = FALSE
    /\ queries = [q \in Queries |-> NoQuery]
    /\ faults = 0
    /\ dropped = {}

Faults(n) == faults + n <= MaxFaults /\ faults' = faults + n
Fault == Faults(1)
End == step' = "idle" /\ pass' = NoPass

(* Each write of the state file replaces it atomically.                    *)
Write(s) == file' = s
Degraded(why) == [Stored EXCEPT !.reason = why]

----------------------------------------------------------------------------
(* Outside the process.                                                    *)

Push ==
    /\ \E c \in Commits : <<upstream, c>> \in Follows /\ upstream' = c
    /\ UNCHANGED <<disk, step, pass, retry, queries, faults, dropped>>

(* The process ends and starts again.  Checkout and index are disposable,  *)
(* and the state file may be of another ref: any of them may be gone.      *)
Crash ==
    /\ Fault
    /\ End
    /\ retry' = FALSE
    /\ queries' = [q \in Queries |-> NoQuery]
    /\ \/ UNCHANGED disk
       \/ head' = None /\ UNCHANGED <<file, index>>
       \/ index' = NoIndex /\ UNCHANGED <<head, file>>
       \/ file' = [file EXCEPT !.trusted = FALSE] /\ UNCHANGED <<head, index>>
    /\ UNCHANGED <<upstream, dropped>>

RequestSync ==
    /\ retry' = TRUE
    /\ UNCHANGED <<upstream, dropped, disk, step, pass, queries, faults>>

----------------------------------------------------------------------------
(* A pass: _poll, run_once, _sync_repository.                              *)

Poll ==
    /\ step = "idle"
    /\ step' = "fetch"
    /\ pass' = [NoPass EXCEPT !.retry = retry]
    /\ retry' = FALSE
    /\ UNCHANGED <<upstream, dropped, disk, queries, faults>>

Fetch ==           \* a reason that was there stays until the pass knows better
    /\ step = "fetch"
    /\ Write([Stored EXCEPT !.fetched = upstream])
    /\ pass' = [pass EXCEPT !.target = upstream]
    /\ step' = "inspect"
    /\ UNCHANGED <<upstream, dropped, head, index, retry, queries, faults>>

ForgetsState == Initial("fetch_failed", TRUE)    \* variant: the stored state is dropped

FetchFailed == Degraded("fetch_failed")

FetchError ==
    /\ step = "fetch"
    /\ Fault
    /\ Write(FetchFailed)
    /\ End
    /\ UNCHANGED <<upstream, dropped, head, index, retry, queries>>

RefuseManifest ==
    /\ step = "inspect"
    /\ \/ pass.target \in BadManifest /\ UNCHANGED faults
       \/ Fault                                     \* the blob cannot be read
    /\ Write(Degraded("manifest_invalid"))
    /\ End
    /\ UNCHANGED <<upstream, dropped, head, index, retry, queries>>

AttemptedSameCommit ==      \* variant: whatever came of the attempt
    Stored.attempted = pass.target

FailedSameCommit ==
    Stored.attempted = pass.target /\ Stored.reason = "lexical_incomplete"

Unchanged ==
    /\ {Stored.reconciled, Stored.attempted, Stored.checkout, head} = {Stored.fetched}
    /\ index.ready

RetryPending == pass.retry /\ index.pending

LeaveFailed ==
    /\ step = "inspect" /\ pass.target \notin BadManifest
    /\ FailedSameCommit
    /\ End
    /\ UNCHANGED <<upstream, dropped, disk, retry, queries, faults>>

LeaveUnchanged ==
    /\ step = "inspect" /\ pass.target \notin BadManifest
    /\ ~FailedSameCommit /\ Unchanged /\ ~RetryPending
    /\ Write(Degraded(None))
    /\ End
    /\ UNCHANGED <<upstream, dropped, head, index, retry, queries, faults>>

(* lifecycle_lock.write(): new queries are held off.  The index is read    *)
(* through the profile, which needs the manifest of the checkout.          *)
Take ==
    /\ step = "inspect" /\ pass.target \notin BadManifest
    /\ ~FailedSameCommit /\ (~Unchanged \/ RetryPending)
    /\ pass' = [pass EXCEPT !.usable = head # None /\ index.ready]
    /\ step' = "lock"
    /\ UNCHANGED <<upstream, dropped, disk, retry, queries, faults>>

Activate ==        \* the last query has left
    /\ step = "lock" /\ Inside = {}
    /\ head' = pass.target
    /\ step' = "mark"
    /\ UNCHANGED <<upstream, dropped, file, index, pass, retry, queries, faults>>

MarkCheckout ==
    /\ step = "mark"
    /\ Write([Stored EXCEPT !.checkout = pass.target, !.reason = None])
    /\ step' = "attempt"
    /\ UNCHANGED <<upstream, dropped, head, index, pass, retry, queries, faults>>

MarkAttempt ==
    /\ step = "attempt"
    /\ Write([Stored EXCEPT !.attempted = pass.target, !.reason = None])
    /\ step' = "index"
    /\ UNCHANGED <<upstream, dropped, head, index, pass, retry, queries, faults>>

----------------------------------------------------------------------------
(* _run_indexing.                                                          *)

(* discover_sources: a file that is not UTF-8 is a failure and no source,  *)
(* and so is one that cannot be read this time.                            *)
Readable == {p \in Paths : Tree[pass.target][p] \in Docs \ Undecodable}
Discovered(unread) ==
    [p \in Paths |-> IF p \in Readable \ unread THEN Tree[pass.target][p] ELSE NoDoc]

(* What a later run at the commit already reconciled takes out of the      *)
(* index, because it has not found it.                                     *)
Dropping(found) ==
    dropped' = IF Stored.reconciled # pass.target THEN dropped
               ELSE dropped \cup ({pass.target} \X {p \in Paths : found[p] # Tree[pass.target][p]})

(* _atomic_rebuild: all of it in a temporary file that then replaces the   *)
(* index.  Also for an index of another configuration, when the indexer    *)
(* raises RebuildRequiredError (counted as a fault).                       *)
Rebuild ==
    /\ step = "index"
    /\ \E unread \in SUBSET Readable :
         LET found  == Discovered(unread)
             parsed == {p \in Paths : found[p] \in Docs \ Unparsable}
         IN /\ Faults(Cardinality(unread) + IF pass.usable THEN 1 ELSE 0)
            /\ \E pending \in BOOLEAN :
                 index' = [rows    |-> [p \in Paths |-> IF p \in parsed THEN found[p] ELSE NoDoc],
                           shown   |-> parsed,
                           ready   |-> TRUE,
                           pending |-> pending]
            /\ pass' = [pass EXCEPT !.found = found,
                          !.clean = found = Tree[pass.target] /\ \A p \in Paths : found[p] \notin Unparsable]
            /\ Dropping(found)
    /\ step' = "persist"
    /\ UNCHANGED <<upstream, head, file, retry, queries>>

Plan ==
    /\ step = "index" /\ pass.usable
    /\ \E unread \in SUBSET Readable :
         LET found == Discovered(unread)
         IN /\ Faults(Cardinality(unread))
            /\ pass' = [pass EXCEPT !.found = found,
                          !.todo  = {p \in Paths : index.rows[p] # found[p]},
                          !.clean = found = Tree[pass.target]]
    /\ step' = "write"
    /\ UNCHANGED <<upstream, dropped, disk, retry, queries>>

ToSuppress == {p \in pass.todo : pass.found[p] \in Unparsable}
ToReplace  == {p \in pass.todo : pass.found[p] \in Docs \ Unparsable}

(* suppress_source: a row that is there takes the hash of the content it   *)
(* fails on, so that the next run finds the source unchanged.              *)
Suppress(p) ==
    /\ step = "write" /\ p \in ToSuppress
    /\ index' = IF index.rows[p] = NoDoc THEN index
                ELSE [index EXCEPT !.rows[p] = pass.found[p], !.shown = @ \ {p}]
    /\ pass' = [pass EXCEPT !.todo = @ \ {p}, !.clean = FALSE]
    /\ UNCHANGED <<upstream, dropped, head, file, step, retry, queries, faults>>

Replace(p) ==
    /\ step = "write" /\ ToSuppress = {} /\ p \in ToReplace
    /\ index' = [index EXCEPT !.rows[p] = pass.found[p], !.shown = @ \cup {p}]
    /\ pass' = [pass EXCEPT !.todo = @ \ {p}]
    /\ UNCHANGED <<upstream, dropped, head, file, step, retry, queries, faults>>

SkipSource(p) ==   \* StorageError: a blocking failure, the run goes on
    /\ step = "write" /\ p \in ToSuppress \cup ToReplace
    /\ p \in ToReplace => ToSuppress = {}
    /\ Fault
    /\ pass' = [pass EXCEPT !.todo = @ \ {p}, !.clean = FALSE]
    /\ UNCHANGED <<upstream, dropped, disk, step, retry, queries>>

(* delete_sources, and the outcome of the embeddings, old and new.  What   *)
(* is left to do are the rows without a source: of files that are gone,    *)
(* and of files that discovery failed at.                                  *)
Finalize ==
    /\ step = "write" /\ ToSuppress \cup ToReplace = {}
    /\ \E p \in BOOLEAN :
         index' = [rows    |-> [x \in Paths |-> IF x \in pass.todo THEN NoDoc ELSE index.rows[x]],
                   shown   |-> index.shown \ pass.todo,
                   ready   |-> TRUE,
                   pending |-> p]
    /\ pass' = [pass EXCEPT !.todo = {}]
    /\ Dropping(pass.found)
    /\ step' = "persist"
    /\ UNCHANGED <<upstream, head, file, retry, queries, faults>>

----------------------------------------------------------------------------
(* The end of a pass, outside the lock again.                              *)

Persist ==         \* _persist_report
    /\ step = "persist"
    /\ Write(IF pass.clean
             THEN [Stored EXCEPT !.reconciled = Stored.attempted,
                                 !.reason = IF index.pending THEN "semantic_pending" ELSE None]
             ELSE Degraded("lexical_incomplete"))
    /\ End
    /\ UNCHANGED <<upstream, dropped, head, index, retry, queries, faults>>

LockedError ==     \* anything raised under the lock
    /\ step \in Locked \/ (step = "lock" /\ Inside = {})
    /\ Fault
    /\ step' = "failed" /\ pass' = NoPass
    /\ UNCHANGED <<upstream, dropped, disk, retry, queries>>

RecordFailure ==
    /\ step \in {"failed", "unexpected"}
    /\ Write(Degraded("reconciliation_failed"))
    /\ End
    /\ UNCHANGED <<upstream, dropped, head, index, retry, queries, faults>>

(* A write of the state file fails: _record_unexpected_failure tries one   *)
(* more, whose failure is ignored.                                         *)
WriteError ==
    /\ step \in {"fetch", "inspect", "persist", "failed", "unexpected"}
    /\ Fault
    /\ pass' = NoPass
    /\ step' = IF step = "unexpected" THEN "idle" ELSE "unexpected"
    /\ UNCHANGED <<upstream, dropped, disk, retry, queries>>

----------------------------------------------------------------------------
(* Queries: VaultService.search, under lock.read().                        *)

CommitSafeByState == file.trusted /\ Stored.reconciled # None   \* variant: as for PostgreSQL

CommitSafe ==
    /\ file.trusted /\ Stored.reconciled # None
    /\ Stored.checkout = Stored.reconciled /\ head = Stored.reconciled

VaultReady == CommitSafe /\ index.ready /\ index.shown # {}

HeldOff == step \in Locked \cup {"lock"}

Admit(q) ==        \* otherwise the query is refused as busy
    /\ queries[q].at = "idle"
    /\ ~HeldOff
    /\ VaultReady
    /\ queries' = [queries EXCEPT ![q].at = "admitted"]
    /\ UNCHANGED <<upstream, dropped, disk, step, pass, retry, faults>>

Search(q) ==       \* the hits of the fullest query
    /\ queries[q].at = "admitted"
    /\ queries' = [queries EXCEPT ![q].at = "searched",
                     ![q].hits = [p \in Paths |-> IF p \in index.shown THEN index.rows[p]
                                                  ELSE NoDoc]]
    /\ UNCHANGED <<upstream, dropped, disk, step, pass, retry, faults>>

Label(q) ==        \* _commit_view reads the state file once more
    /\ queries[q].at = "searched"
    /\ queries' = [queries EXCEPT ![q].at = "answered", ![q].label = Stored.reconciled]
    /\ UNCHANGED <<upstream, dropped, disk, step, pass, retry, faults>>

Return(q) ==
    /\ queries[q].at = "answered"
    /\ queries' = [queries EXCEPT ![q] = NoQuery]
    /\ UNCHANGED <<upstream, dropped, disk, step, pass, retry, faults>>

----------------------------------------------------------------------------
Sync ==
    \/ Poll \/ Fetch \/ LeaveFailed \/ LeaveUnchanged \/ Take
    \/ Activate \/ MarkCheckout \/ MarkAttempt
    \/ Rebuild \/ Plan \/ (\E p \in Paths : Suppress(p) \/ Replace(p)) \/ Finalize
    \/ Persist \/ RecordFailure \/ RefuseManifest

Query(q) == Search(q) \/ Label(q) \/ Return(q)

SyncNext ==
    \/ Push \/ Crash \/ RequestSync
    \/ Sync \/ FetchError \/ LockedError \/ WriteError
    \/ \E p \in Paths : SkipSource(p)
    \/ \E q \in Queries : Admit(q) \/ Query(q)

SyncSpec == SyncInit /\ [][SyncNext]_syncVars

(* The polling thread goes on and queries end.  Nothing makes the ref      *)
(* move, and nobody has to ask.                                            *)
SyncFairness == WF_syncVars(Sync) /\ \A q \in Queries : WF_syncVars(Query(q))
SyncFairSpec == SyncSpec /\ SyncFairness

----------------------------------------------------------------------------
(* Properties.                                                             *)

(* Type correctness.                                                       *)
SyncTypeOK ==
    /\ upstream \in Commits
    /\ head \in Sha
    /\ file \in States
    /\ index \in Indexes
    /\ \A p \in index.shown : index.rows[p] # NoDoc
    /\ step \in Places
    /\ pass \in Passes
    /\ retry \in BOOLEAN
    /\ queries \in [Queries -> [at : {"idle", "admitted", "searched", "answered"},
                                hits : Content, label : Sha]]
    /\ faults \in 0..MaxFaults
    /\ dropped \in SUBSET (Sha \X Paths)

(* An answer holds nothing but the content of the commit it is labelled    *)
(* with, and all of it: less what cannot be parsed, and what a later run   *)
(* at that same commit failed to read, whose rows are removed and whose    *)
(* failure leaves the label as it was.  Neither the steps of a pass nor    *)
(* what a crash leaves behind shows through otherwise.                     *)
AnswerTrue ==
    \A q \in Queries : queries[q].at = "answered" =>
        \A p \in Paths :
            LET c == queries[q].label IN
            \/ queries[q].hits[p] = Tree[c][p] /\ Tree[c][p] \notin Unparsable
            \/ queries[q].hits[p] = NoDoc /\ (Tree[c][p] \in Unparsable \/ <<c, p>> \in dropped)

(* A vault that is served stays served until a pass has activated the next *)
(* commit, or what it is served from is lost: failed fetches, refused      *)
(* manifests and failed writes do not take it away, nor does a run that    *)
(* can still read any of the sources it serves.                            *)
NoneFound == step \in {"index", "write"} /\ \A p \in index.shown : pass'.found[p] = NoDoc

ServedUntilActivated ==
    [][VaultReady /\ ~VaultReady' =>
         \/ step' = "mark" \/ NoneFound
         \/ ~file'.trusted \/ head' = None \/ index' = NoIndex]_syncVars

(* Passes and queries do to each other nothing that the lock would not let *)
(* them do: what is assumed of the lock here is what LifecycleLock keeps.  *)
LockUsed == INSTANCE QueryGate WITH
    Readers <- Queries,
    Writers <- {"pass"},
    inside <- Inside,
    queued <- {t \in {"pass"} : step = "lock"},
    owner <- {t \in {"pass"} : step \in Locked}

UsesGate == LockUsed!Spec

(* When the ref rests and faults are over, the vault comes to be reconciled*)
(* with it, or its state says that the commit itself is at fault (or, for  *)
(* a commit whose sources could not be written, that it is incomplete).    *)
Settled ==
    \/ Stored.reason \in {"lexical_incomplete", "manifest_invalid"}
    \/ {Stored.reconciled, Stored.checkout, head} = {upstream} /\ index.ready

Converges == <>[]Settled

(* A commit counts as reconciled only when all of its sources are indexed: *)
(* what the test of the parse failure asks for.                            *)
NothingSkipped ==
    [][file'.reconciled \notin {file.reconciled, None} =>
         \A p \in Paths : Tree[file'.reconciled][p] # NoDoc => p \in index.shown]_syncVars

=============================================================================
