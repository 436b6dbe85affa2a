---------------------------- MODULE ContentStore ----------------------------
(***************************************************************************)
(* The rows that revisions of different vaults share in PostgreSQL: the    *)
(* bytes of sources (source_blobs) and the vectors of chunks (embeddings). *)
(* A vault's lease does not cover them.  One worker per vault inserts them *)
(* with ON CONFLICT DO NOTHING and then refers to them; a cleaner, under   *)
(* the lease of one vault, deletes what no revision of any vault refers    *)
(* to; foreign keys and row locks are all that stands between.             *)
(*                                                                         *)
(* Sources: storage/postgres/{index_store,cleanup}.py, 0001_initial.sql,   *)
(* service/coordinator.py, indexing/service.py.  A vault has one source    *)
(* with one chunk, of the text its commit gives it.  The text that is      *)
(* embedded names the vault (chunker.py, _prefix), so blobs are shared     *)
(* between vaults and vectors between the revisions of one.                *)
(***************************************************************************)
EXTENDS Naturals, Sequences, FiniteSets

CONSTANTS
    Vaults, Texts,
    Upstream,      \* the texts of a vault's source, commit after commit
    None,
    BatchSize,     \* cleanup.batch_size
    MaxFaults      \* bound on failed transactions, embeddings and crashes

ASSUME ContentAssumption ==
    /\ None \notin Texts \cup Vaults
    /\ Upstream \in [Vaults -> Seq(Texts)] /\ \A v \in Vaults : Upstream[v] # <<>>
    /\ BatchSize \in Nat \ {0} /\ MaxFaults \in Nat

VARIABLES
    head,       \* the commit a fetch finds
    blobs,      \* source_blobs, by content
    vectors,    \* embeddings, by vault and content
    served,     \* the commit of the active revision
    stranded,   \* the last attempt at this commit was "lexical_incomplete"
    active, build,   \* what the active and the building revision refer to
    old,        \* what superseded, failed and abandoned revisions refer to
    worker, cleaner, faults

database == <<blobs, vectors, active, build, old>>
contentVars == <<head, database, served, stranded, worker, cleaner, faults>>

(* What a revision's source and chunk rows refer to.                       *)
Rows == [text : Texts, vec : BOOLEAN]

Worker(at, c, vec, newBlob, newVec) ==
    [at |-> at, commit |-> c, vec |-> vec, newBlob |-> newBlob, newVec |-> newVec]
IdleWorker == Worker("idle", 0, FALSE, FALSE, FALSE)
IdleCleaner == [at |-> "idle", vault |-> None, gone |-> {}, doomed |-> {}, dying |-> {}]

Text(v) == Upstream[v][worker[v].commit]
Current(v) == {active[v], build[v]} \ {None}
Held(v) == Current(v) \cup old[v]

(* The references of committed rows; the cleaner's own transaction does    *)
(* not see those of the revisions it has deleted.                          *)
BlobsOf(v, rows) == {r.text : r \in rows}
VectorsOf(v, rows) == {<<v, r.text>> : r \in {s \in rows : s.vec}}
Without(v, gone) == Current(v) \cup (old[v] \ gone)
Seen(v) == Without(v, IF v = cleaner.vault THEN cleaner.gone ELSE {})
UsedBlobs == UNION {BlobsOf(v, Seen(v)) : v \in Vaults}
UsedVectors == UNION {VectorsOf(v, Seen(v)) : v \in Vaults}

ContentInit ==
    /\ head = [v \in Vaults |-> 1]
    /\ blobs = {} /\ vectors = {}
    /\ served = [v \in Vaults |-> 0]
    /\ stranded = [v \in Vaults |-> FALSE]
    /\ active = [v \in Vaults |-> None]
    /\ build = [v \in Vaults |-> None]
    /\ old = [v \in Vaults |-> {}]
    /\ worker = [v \in Vaults |-> IdleWorker]
    /\ cleaner = IdleCleaner
    /\ faults = 0

Goto(v, at) == worker' = [worker EXCEPT ![v].at = at]
Fault == faults < MaxFaults /\ faults' = faults + 1
NoFault == UNCHANGED faults

----------------------------------------------------------------------------
(* The worker of a vault.                                                  *)

Push(v) ==
    /\ head[v] < Len(Upstream[v])
    /\ head' = [head EXCEPT ![v] = @ + 1]
    /\ stranded' = [stranded EXCEPT ![v] = FALSE]    \* attempted_sha is another one
    /\ UNCHANGED <<database, served, worker, cleaner, faults>>

(* A commit is built when it is not the served one, or when the served     *)
(* revision has pending embeddings; not again after lexical_incomplete.    *)
OtherCommit(v) == served[v] # head[v]              \* variant: pending is not looked at
Outdated(v) == served[v] = head[v] => ~active[v].vec

(* begin_revision copies the rows of the active revision, reset_vaults     *)
(* drops them again unless it is of the same commit.                       *)
Begin(v) ==
    /\ worker[v].at = "idle" /\ cleaner.vault # v     \* the lease of the vault
    /\ Outdated(v) /\ ~stranded[v]
    /\ worker' = [worker EXCEPT ![v] = Worker("embed", head[v], FALSE, FALSE, FALSE)]
    /\ build' = [build EXCEPT ![v] = IF served[v] = head[v] THEN active[v] ELSE None]
    /\ UNCHANGED <<head, blobs, vectors, active, old, served, stranded, cleaner, faults>>

(* reusable_vectors finds the vector of this text, whoever refers to it or *)
(* not, or else the provider is asked.  A retry that fails ends at once.   *)
Embed(v) ==
    /\ worker[v].at = "embed"
    /\ \/ /\ worker' = [worker EXCEPT ![v].vec = TRUE,
                                      ![v].at = IF build[v] = None THEN "insert" ELSE "refer"]
          /\ NoFault
       \/ /\ <<v, Text(v)>> \notin vectors /\ Fault
          /\ Goto(v, IF build[v] = None THEN "insert" ELSE "promote")
    /\ UNCHANGED <<head, database, served, stranded, cleaner>>

(* The transaction of replace_source opens: INSERT of the blob.  It waits  *)
(* for a transaction that inserts or deletes the same key.                 *)
Insert(v) ==
    /\ worker[v].at = "insert"
    /\ ~\E u \in Vaults \ {v} : worker[u].newBlob /\ Text(u) = Text(v)
    /\ Text(v) \notin cleaner.dying
    /\ worker' = [worker EXCEPT ![v].at = "refer", ![v].newBlob = Text(v) \notin blobs]
    /\ UNCHANGED <<head, database, served, stranded, cleaner, faults>>

(* The blob is read again and the row of the source inserted, which takes  *)
(* a KEY SHARE lock on the blob; INSERT of the vector.                     *)
Refer(v) ==
    /\ worker[v].at = "refer"
    /\ worker[v].newBlob \/ Text(v) \in blobs \ cleaner.dying
    /\ worker' = [worker EXCEPT ![v].at = "commit",
                                ![v].newVec = worker[v].vec /\ <<v, Text(v)>> \notin vectors]
    /\ UNCHANGED <<head, database, served, stranded, cleaner, faults>>

LocksBlob(v) == worker[v].at = "commit" /\ ~worker[v].newBlob

(* The vector is read again, the row of the chunk inserted; COMMIT.        *)
VectorThere(v) ==
    worker[v].vec => worker[v].newVec \/ <<v, Text(v)>> \in vectors

Commit(v) ==
    /\ worker[v].at = "commit" /\ VectorThere(v)
    /\ blobs' = blobs \cup {Text(v)}
    /\ vectors' = IF worker[v].vec THEN vectors \cup {<<v, Text(v)>>} ELSE vectors
    /\ build' = [build EXCEPT ![v] = [text |-> Text(v), vec |-> worker[v].vec]]
    /\ worker' = [worker EXCEPT ![v] = Worker("promote", @.commit, FALSE, FALSE, FALSE)]
    /\ UNCHANGED <<head, active, old, served, stranded, cleaner, faults>>

Promote(v) ==
    /\ worker[v].at = "promote"
    /\ active' = [active EXCEPT ![v] = build[v]]
    /\ build' = [build EXCEPT ![v] = None]
    /\ old' = [old EXCEPT ![v] = @ \cup ({active[v]} \ {None})]
    /\ served' = [served EXCEPT ![v] = worker[v].commit]
    /\ worker' = [worker EXCEPT ![v] = IdleWorker]
    /\ UNCHANGED <<head, blobs, vectors, stranded, cleaner, faults>>

(* The transaction is rolled back and the revision stays behind, failed or *)
(* for good in state building.                                             *)
Abandon(v) ==
    /\ build' = [build EXCEPT ![v] = None]
    /\ old' = [old EXCEPT ![v] = @ \cup ({build[v]} \ {None})]
    /\ worker' = [worker EXCEPT ![v] = IdleWorker]
    /\ UNCHANGED <<head, blobs, vectors, active, served, cleaner>>

(* A row the transaction relied on is gone: an error of the foreign key or *)
(* of the second look.  The failed source makes the commit                 *)
(* lexical_incomplete, which later passes do not try again.                *)
Missing(v) ==
    \/ worker[v].at = "refer" /\ ~worker[v].newBlob /\ Text(v) \notin blobs
    \/ worker[v].at = "commit" /\ ~VectorThere(v)

Refused(v) ==
    /\ \/ Missing(v) /\ NoFault
       \/ worker[v].at \in {"insert", "refer", "commit"} /\ Fault  \* deadlock, disconnection
    /\ stranded' = [stranded EXCEPT ![v] = worker[v].commit = head[v]]
    /\ Abandon(v)

Crash(v) == worker[v].at # "idle" /\ Fault /\ Abandon(v) /\ UNCHANGED stranded

----------------------------------------------------------------------------
(* The cleaner: one transaction of three statements, READ COMMITTED.       *)

(* LIMIT: the oldest rows first; which they are is left open.              *)
Batch(S) == {T \in SUBSET S : Cardinality(T) = IF Cardinality(S) < BatchSize
                                               THEN Cardinality(S) ELSE BatchSize}
OldestFirst(S, Used) ==                  \* variant: LIMIT before the NOT EXISTS
    {T \ Used : T \in Batch(S)}
Candidates(S, Used) == Batch(S \ Used)

(* DELETE of revisions of one vault (which are eligible is the subject of  *)
(* RevisionStore), then the snapshot of the DELETE of blobs.               *)
CleanRevisions(v) ==
    /\ cleaner.at = "idle" /\ worker[v].at = "idle"
    /\ \E gone \in SUBSET old[v] :
         LET used == BlobsOf(v, Without(v, gone))
                     \cup UNION {BlobsOf(u, Held(u)) : u \in Vaults \ {v}}
         IN \E doomed \in Candidates(blobs, used) :
              cleaner' = [at |-> "blobs", vault |-> v, gone |-> gone,
                          doomed |-> doomed, dying |-> {}]
    /\ UNCHANGED <<head, database, served, stranded, worker, faults>>

(* REFERENCES without an action: a row that is referred to when its        *)
(* deletion takes effect makes the statement fail.                         *)
NoForeignKey(S, Used) == TRUE            \* variant: the constraint is missing
ForeignKeyHolds(S, Used) == S \cap Used = {}

RollBack == cleaner' = IdleCleaner /\ UNCHANGED database

(* DELETE waits for KEY SHARE locks and does not look at NOT EXISTS again; *)
(* then the snapshot of the DELETE of vectors.                             *)
CleanBlobs ==
    /\ cleaner.at = "blobs"
    /\ ~\E v \in Vaults : LocksBlob(v) /\ Text(v) \in cleaner.doomed
    /\ IF ForeignKeyHolds(cleaner.doomed, UsedBlobs)
       THEN /\ \E doomed \in Candidates(vectors, UsedVectors) :
                 cleaner' = [cleaner EXCEPT !.at = "vectors", !.dying = cleaner.doomed,
                                            !.doomed = doomed]
            /\ UNCHANGED database
       ELSE RollBack
    /\ UNCHANGED <<head, served, stranded, worker, faults>>

CleanVectors ==
    /\ cleaner.at = "vectors"
    /\ IF ForeignKeyHolds(cleaner.doomed, UsedVectors)
       THEN /\ blobs' = blobs \ cleaner.dying
            /\ vectors' = vectors \ cleaner.doomed
            /\ old' = [old EXCEPT ![cleaner.vault] = @ \ cleaner.gone]
            /\ cleaner' = IdleCleaner
            /\ UNCHANGED <<active, build>>
       ELSE RollBack
    /\ UNCHANGED <<head, served, stranded, worker, faults>>

CleanerFails ==
    /\ cleaner.at # "idle" /\ Fault /\ RollBack
    /\ UNCHANGED <<head, served, stranded, worker>>

----------------------------------------------------------------------------
Work(v) == Embed(v) \/ Insert(v) \/ Refer(v) \/ Commit(v) \/ Promote(v) \/ Refused(v)
Clean == CleanBlobs \/ CleanVectors

ContentNext ==
    \/ \E v \in Vaults : Push(v) \/ Begin(v) \/ Work(v) \/ Crash(v) \/ CleanRevisions(v)
    \/ Clean \/ CleanerFails

(* Statements that can go on do.  Workers poll without end, at moments     *)
(* that have nothing to do with the cleaner's: they meet a free lease      *)
(* again and again.  Every pass of a worker ends with a cleanup.           *)
ContentFairness ==
    /\ \A v \in Vaults : /\ WF_contentVars(Work(v)) /\ SF_contentVars(Begin(v))
                         /\ SF_contentVars(CleanRevisions(v))
    /\ WF_contentVars(Clean)

ContentSpec == ContentInit /\ [][ContentNext]_contentVars /\ ContentFairness

(***************************************************************************)
(* Properties.                                                             *)
(***************************************************************************)
(* What any revision refers to is there after every transaction, and what  *)
(* is served is the text of the commit it is labelled with: no vault loses *)
(* bytes or vectors to a cleaner that worked under another vault's lease.  *)
ContentThere ==
    \A v \in Vaults :
        /\ BlobsOf(v, Held(v)) \subseteq blobs /\ VectorsOf(v, Held(v)) \subseteq vectors
        /\ active[v] # None => active[v].text = Upstream[v][served[v]]

(* When pushes and failures have ceased every vault serves its last commit *)
(* with all its vectors, unless the attempt at it was refused, by a race   *)
(* with the cleaner or a failed transaction: such a commit is left alone.  *)
EventuallyServed ==
    <>[](\A v \in Vaults : stranded[v] \/ (served[v] = head[v] /\ active[v].vec))

(* Every blob and vector that nothing refers to is deleted in the end, in  *)
(* batches of any size and however often the cleaner is rolled back.       *)
GarbageCollected ==
    <>[](blobs \subseteq UNION {BlobsOf(v, Held(v)) : v \in Vaults}
         /\ vectors \subseteq UNION {VectorsOf(v, Held(v)) : v \in Vaults})
=============================================================================
