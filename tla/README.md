# TLA+ models of vault-rag

vault-rag indexes Git repositories of notes ("vaults") and answers search
queries over them. This directory holds TLA+ models of the parts of it whose
correctness depends on interleavings, crashes, lost sessions and partial
failures, the TLC runs that check them, and proofs of their main safety
properties that TLAPS checks. Paths below are relative to `src/vault_rag/` in
the repository.

    tlc -workers 2 -config MCRevision.cfg MCRevision      # one run
    tlapm RevisionStore_proofs.tla                        # one proof module

## 1. The system

It is deployed in two shapes that share most of the code.

* **Combined service** (SQLite): one process. HTTP request threads call the
  facade; a polling thread reconciles every vault; a reader-writer lock keeps
  the two apart. The command line may index the same SQLite file beside it. On
  disk: a managed Git checkout per vault, a state file per vault, one index.
* **API and workers** (PostgreSQL): API processes only query and enqueue sync
  requests; worker processes build an invisible *revision* of a vault's index
  and publish it in one transaction. A session advisory lock per vault is the
  lease between workers and the retention pass.

| Component | State it keeps | Operations | Module |
|---|---|---|---|
| Lifecycle lock, `service/locking.py` | readers, writer, waiting writers | `read(timeout)`, `write(timeout)` | LifecycleLock |
| Coordinator, `service/coordinator.py` | events, closed and retry flags | start, request, close, poll; one pass per vault: fetch, inspect, activate, index, persist | PollThread, RepositorySync, RevisionStore |
| Sync state, `service/state.py`, `postgres_state.py` | five SHAs and a reason per vault | `read`, atomic `write` | RepositorySync |
| Managed git, `service/git.py` | checkout and its HEAD | `fetch`, `activate`, `discard`, `head` | RepositorySync |
| Indexer, `indexing/service.py` | none between runs | reconcile additions, changes, promotions, deletions, failures, pending; atomic rebuild | VaultIndex, Embedding |
| SQLite store, `storage/sqlite.py` | sources, chunks, vectors, queue, fingerprints | `replace_source`, `suppress_source`, `requeue_disabled_chunks`, `update_pending_embeddings`, `delete_sources`, `snapshot`, search | VaultIndex, QuerySession |
| Revision store, `storage/postgres/index_store.py` | `vaults`, `vault_revisions` and their sources; blobs and embeddings shared by all vaults | begin (copy), reset, replace, suppress, finalize, promote, fail | RevisionStore, ContentStore |
| Lease, `storage/postgres/lease.py`, `LeaseSession`; pool | PostgreSQL sessions | acquire, refresh, promote, release, heartbeat; take and return connections | LeaseSession, RevisionStore |
| Retention, `storage/postgres/cleanup.py` | none | delete old revisions, then unreferenced blobs and embeddings | RevisionStore, ContentStore |
| Request queue, `service/postgres_coordinator.py` | `sync_requests` | request, claim, complete | SyncRequests |
| Worker loop, `service/worker.py` | stop and wake events | claim, pass over all vaults, retention, complete | SyncRequests |
| Migrations, `storage/postgres/migrations` | `schema_migrations`, the schema | apply, check | Migrations |
| Facade, `service/facade.py`; runtime | started, closed | search, read, status, ready, start, close | PollThread, RepositorySync, QuerySession |
| Query store, `app.py`, retrieval | none between requests | repeatable-read sessions; judge, embed the query, match, rank, load | QuerySession |
| Ingest, `ingest/` | none | discover, parse and chunk | RepositorySync (what discovery fails at), Chunking |
| Embedding client, `embedding/` | none | plan batches, request, retry, align | Embedding |
| Configuration, security checks, front ends, observability, evaluation, deployment | none, or configuration read once | pure functions and I/O | none |

What makes each hard, and what makes it correct:

* **Lock.** Threads interleave at every release of the mutex; deadlines race
  notifications. Correct: exclusion; nobody sleeps without reason; queries do
  not starve reconciliation; every query is answered.
* **Revision store, lease, retention.** A worker whose session was lost goes on
  writing; `promote` may commit although the client sees an error; a crash
  leaves `building` rows; the cleaner deletes on another connection than its
  lease, and rows that another vault's lease covers; two threads use one
  session. Correct: one served revision, always the whole tree of its commit; no
  lost update; published revisions do not change; what is referred to is there;
  abandoned builds and unreferenced content go away; leases are given back.
* **Request queue.** Claims lapse under slow passes, workers die, requests
  coalesce. Correct: one open request, an outcome written by the pass that owns
  the claim, every request answered, and what was asked for actually done.
* **Combined service.** The process may stop between the move of the checkout,
  the writes of the state file and those of the index, and queries see all
  three; a file may be unreadable in one run and not in the next. Correct: an answer
  holds nothing but the content of the commit it is labelled with, and all of it that
  was read; a served vault stays served through failures; the vault converges; close
  leaves no thread behind.
* **Index of a vault.** One fingerprint speaks for every source while sources are
  written one by one; embeddings come later than texts; a second indexer may be
  at work. Correct: tables agree; a vector belongs to the text beside it; the
  fingerprint is true; an undisturbed run leaves exactly what was asked for.
* **Requests.** A search judges, waits for a provider and reads again while
  indexers publish. Correct: an answer is of one state of the index; vectors are
  compared with their like; what must stay local stays local.
* **Text and vectors.** Fences, headings, limits and overlaps meet in every order;
  batches fail, are repeated and come back out of order. Correct: every line
  once, at its place, within the limits, and no fenced block cut; every text its own
  vector.

`PROJECT.json` lists the components with their status and every hazard at its
line, also those that no property covers.

## 2. The modules

### LifecycleLock (`service/locking.py`)

An action is one section of the Condition's mutex: from an acquisition to the
next release or `wait()`. `readers`, `writer` and `waitingWriters` are the
fields; `pc` says where a thread stands (`tryRead` is "awake, about to evaluate
the loop condition", `waitRead` is "in `wait()`"). `NotifyAll` moves every waiting
thread back to its loop condition. `Expire` is the passing of a deadline.

| Code | Actions |
|---|---|
| `read` | `CallRead`, `EnterRead`, `WaitRead`, `RefuseRead` (ServiceBusyError), `EndRead` |
| `write` | `CallWrite` (registration and first test in one section), `EnterWrite`, `WaitWrite`, `RefuseWrite` (the `finally` clause runs), `EndWrite` |

**QueryGate** is what a user of the lock sees of it: who is inside, who waits, and
three rules. `KeepsGate` says that LifecycleLock implements it (`inside`, `queued`,
`owner` are the threads at `reading`; at `tryWrite` or `waitWrite`; at `writing`),
`UsesGate` that the queries and passes of RepositorySync make no step beyond it.
Together they justify that RepositorySync has no counters and no notifications.

### RevisionStore (`storage/postgres/{index_store,lease,cleanup}.py`, the PostgreSQL pass of `service/coordinator.py`)

One vault; any number of workers and cleaners. An action is one committed
transaction and the client code around it. A revision's content is a function
from paths to contents; contents in `Unparsable` are those the parser or the
chunker rejects. `session[q]` is the process's lock session: the advisory lock
is held by whoever's session is `live`; `LoseSession` is the server's side of a
loss, which the process does not see before its next `ensure_held`.

| Code | Actions |
|---|---|
| `PostgresWorkerLease.acquire`, `release` | `Acquire`, `Release`, `LoseSession` |
| `_sync_repository` before the build | `Inspect` (all early returns included) |
| `begin`, `reset_vaults`, `source_hashes` | `Begin`, `BeginError`, `Reset`, `Plan` |
| `_reconcile` | `Replace`, `Suppress`, `SkipSource` (a storage error that the run survives), `Finalize`, `BuildError` |
| `_promote_on`, `fail`, the `except` clause of `_run_indexing` | `Promote` (the answer to COMMIT may be lost), `RefusePromotion`, `Fail`, `NoticeLoss` |
| `PostgresRevisionCleaner` | `Select` (snapshot), `Delete` (row locks, foreign key), `Age` (time) |
| the process | `Crash` |

What is written in a pass without the lease is in the model as in the code:
`begin_revision` and the writes into the revision check only that the row is in
state `building`; the lease matters to `promote` and `fail` alone.

**PublishedIndex** is the abstract promise: one current index, the whole tree
of one commit, replaced in one step by a worker whose draft was opened at the
present version. `RevisionStore!Index` instantiates it with `current` read
through `active`, `version` the number of promotions and `opened` the position
of each draft's base among them. `Implements` is checked by TLC and proved.

### ContentStore (blobs and embeddings in `storage/postgres/{index_store,cleanup}.py`)

What RevisionStore leaves out: the rows that vaults share. A vault has one
source with one chunk. A worker inserts a blob with ON CONFLICT DO NOTHING
(`Insert`), reads it again and refers to it (`Refer`), and commits (`Commit`); a
cleaner under the lease of one vault takes its candidates from the snapshot of
each statement (`CleanRevisions`, `CleanBlobs`, `CleanVectors`). What PostgreSQL
gives is written out: waiting for a transaction that inserts or deletes the same
key, KEY SHARE locks of a reference, foreign keys when a deletion takes effect,
READ COMMITTED snapshots. A failure of either side rolls its transaction back
(`Refused`, `CleanerFails`); `stranded` is the recorded "lexical_incomplete".

### LeaseSession (`service/worker.py`, `storage/postgres/{lease,pool}.py`)

The lease from the inside: a pass, its heartbeat thread and the health check of
each replica on a pool of `PoolSize` connections. `conns` says who has each
connection, whether its session lives and how often it has taken the lock.
`PostgresWorkerLease` holds an RLock over its methods, so a method is an action.
A statement on the lock session fails because the session ended (`CutSession`)
or because it was cancelled by its timeout (`Cancel`): the code treats the two
alike, the pool does not. `NoConnection` is the pool's timeout.

**VaultLease** is what the lease promises to those who use it: of each process
`lease` is none, live or lost, and it is granted to a process that has none while
nobody else's is live, lost at any moment, given up, and never won back. `KeepsLease`
says that LeaseSession implements it: a pass has it while its connection lives.
`UsesLease` and `PassesUseLease` say that RevisionStore (`session`) and SyncRequests
(`lease`, vault by vault) make no step beyond it. Together they justify that neither
of the two has connections, pools or heartbeats.

### SyncRequests (`service/postgres_coordinator.py`, `service/worker.py`, loop of `service/coordinator.py`)

The queue rows with their tokens, the vault leases, and workers that walk over
the vaults in order, then over the same vaults for retention. `lapsed` holds the
claims older than five minutes. `asked` is what an operator is waiting for: the
vaults no forced visit has taken up since the last request; the program keeps no
such thing, it is a history variable of the specification.

### RepositorySync (the combined service on SQLite)

One vault: `upstream`, the checkout's `head`, the state file `file`, the
`index`, the polling thread (`step`, `pass`) and the queries. `index.rows` is the
stored hash of each source, `index.shown` the searchable sources: they differ
exactly for suppressed sources. `ready` stands for `_snapshot_is_usable`. Each
write of the state file, each transaction of the index and each Git activation
is one action; `Crash` may come between any two, and may come with the loss of
one of the three stores. The lock is LifecycleLock's, seen as QueryGate: `step = "lock"` is
the waiting writer (no query is admitted, `HeldOff`), the places of `Locked` are the
writer inside. The outcome of the embeddings is one nondeterministic flag (`pending`),
since passes branch only on whether something is pending; what happens to them
is the subject of VaultIndex.

A run works on what discovery finds (`Discovered`, `pass.found`), and not on the
tree of the commit: a file that is not UTF-8 is never found, and any other may fail
to be read this time (one fault each, also in a run at the commit that is already
reconciled). The rows of sources that were not found are what `Finalize` deletes.
`dropped` is a history variable: the pairs of a reconciled commit and a source that a
later run at that commit did not find.

### PollThread (`service/{runtime,facade,coordinator}.py`)

The life of the polling thread: three objects with a closed flag and a lock
each, two events, and threads that start, request and close. An action is one
section under a lock, or one step of the thread between them. `owed` is a
history variable: a request was accepted and no pass has begun since.

### Migrations (`storage/postgres/migrations/__init__.py`)

Processes of images that package different numbers of migrations call `apply`:
the session advisory lock, the reading and validation of the history, one
transaction per migration, the unlocking in the `finally` clause, the end of a
process between any two. `effects` counts how often each migration took effect.

### VaultIndex (`indexing/service.py`, `storage/sqlite.py`)

One vault in a SQLite file and any number of indexers. The tables are `row` (the
hash of a source and whether it is active), `chunk` (text, configuration,
embedding state), `vec`, `queue` (pending embeddings) and `label` (the
fingerprints). A run reads the label and the files (`Begin`, `BeginRebuild`),
then the stored hashes (`Plan`), and everything that `_reconcile` derives from
them is an operator over its record: `Additions`, `Changes`, `Deletions`,
`Promotions` (a changed manifest makes every source a change), `ParseFailures`.
Each transaction is an action.

| Code | Actions |
|---|---|
| `_embed_with_reuse` | `Embed` (from this run, from the index, from the provider, or failed) |
| `requeue_disabled_chunks`, retry of pending | `Requeue`, `RetryPending`, `UpdatePending` |
| `suppress_source`, `replace_source` | `Suppress`, `Replace` (each may raise StorageError: an incremental run records it and goes on, a rebuild gives up) |
| `delete_sources` | `Finalize` |
| `_atomic_rebuild` | the same steps on `temp`, then `Publish` (`os.replace`) |
| users, processes | `EditFile`, `RenameFile`, `Configure`, `Stop` |

`mixed` marks the two histories that one fingerprint per vault cannot tell apart
(section 4); the properties that it excuses name it.

### QuerySession (`retrieval/service.py`, `app.py`, `storage/postgres/query_store.py`, `storage/sqlite.py`)

One request over several vaults, statement by statement. On PostgreSQL `pinned`
is the snapshot of its REPEATABLE READ transaction; on SQLite every statement
reads the index of the moment, because each store operation opens a connection
of its own, and a rebuild may rename another file over it. `Summarise` and
`Observe` are the judgement (`_semantic_state`, every reason of it), `Ask` the
call of the provider, `Match`, `Scope`, `Dense` and `Hydrate` the search;
`Look` and `Load` are `read`. Which chunks match is left open. `Publish`,
`Rebuild` and `Edit` are what others do meanwhile.

### Chunking (`ingest/{markdown,text,lines,chunker}.py`) and Embedding (`embedding/{client,batching}.py`, `_embed_with_reuse`)

Two algorithms as state machines over small data. A character is its place in the
document, so that a text tells where it was taken from; of a line there is its kind
and where it ends. The tokenizer is a parameter: how many tokens a text has is a
function of the whole text (a part may have more than the whole), and the last
tokens of a text need not be its end. A round of a loop of the code is an action.

The parser and the chunker look for fences independently of each other, with
different rules. Two history variables keep what each has found: `codes` the fenced
blocks of CommonMark (`Parse`), `fences` what the chunker keeps whole (`Scan`). Of the
lines on which they disagree there are two kinds: "inline", which opens a fence for
the chunker only, because backticks follow the backticks, and "deep", which opens and
closes one for the chunker only, because it is indented by four columns or more.

| Code | Actions of Chunking |
|---|---|
| front matter of `parse_markdown`, `parse_text` | `Front` |
| `_headings`; the sections of `parse_markdown` | `Parse`, `Parsed` |
| `chunk_source`, one section after the other | `Section`, `Packed` (the last check of every chunk, and its lines) |
| `_structural_blocks` | `Scan` (a fence, a run of blank lines, a line of text), `Scanned` |
| `_split_section`: the blocks; `_split_ordinary_block` | `Split`, `Cut` (one piece), `SplitAll` |
| `_split_section`: packing and overlap | `Pack` (one piece) |

| Code | Actions of Embedding |
|---|---|
| `_embed_with_reuse`, first half | `Reuse` (what the store or this run has; one chunk stands for all of a text) |
| `plan_batches` | `Place` (one round of its loop), `Planned` (the batch left open) |
| `_request`, `_normalized_vectors` | `Retry`, `Refused`, `Answered` (a provider that may leave out, repeat, reorder or mix widths), `Embedded` |
| `_embedding_records`, `_embed_with_reuse`, second half | `Align`, `Clone` |

## 3. The runs

| Run | Instance | Shows |
|---|---|---|
| MCRevision | 2 workers, 3 revisions, 2 paths, 3 commits (one changes a source and drops another, one cannot be parsed), 2 faults | `TypeOK`, `ServedMatchesCommit`, `LinearHistory`, `PublishedImmutable`, `Implements` |
| MCRetention (RevisionStore) | 1 worker, 2 cleaners, 3 revisions, `keep_promoted` 2, batches of 1, 1 fault, fair | `OneServed`, `KeepsNewest`, `OrphansCollected`, `PassEnds` |
| MCSync | LifecycleLock: 3 readers, 2 writers, one with a timeout. RepositorySync: 4 commits (one source that cannot be parsed, one that is not UTF-8, one refused manifest), 3 paths, 1 query, 2 faults, files that cannot be read among them. Fair | `NoLostWakeup`, `KeepsGate`, `WriterGetsIn`, `ReaderAnswered`; `AnswerTrue`, `ServedUntilActivated`, `VaultConverges` |
| MCIndex | 2 indexers, 2 paths, 2 contents and one that does not parse, a manifest that is changed once, 1 edit, 2 faults | `TablesAgree`, `VectorOfItsText`, `LabelHonest`, `RebuildAllOrNothing` |
| MCIndexSettles | 1 indexer, 3 paths of which two differ only in case, 2 manifests back and forth, 2 configurations, 2 edits, 1 fault, fair | `CleanRunConverges`, `EventuallyCurrent` |
| MCProcesses | PollThread; LeaseSession with pools of 1 and of 2, 1 lost session, 1 cancelled statement; ContentStore with 2 vaults, 2 texts, batches of 1, 1 fault; Migrations with images of 2, 2 and 3 migrations, 2 stops; SyncRequests with 2 workers, 2 vaults, 2 requests, 1 failure. Fair | `CallsTakeEffect`, `ClosedForGood`; `SessionsOwned`, `LeaseReturned`, `KeepsLease`; `ContentThere`, `ContentServed`, `ContentCollected`; `MigratorsAgree`; `OneOpen`, `LeaseFollowsPass`, `OutcomeIsOwn`, `RequestAnswered`, `PendingHonoured` |
| MCDataPath | Chunking: all documents of up to 4 lines, of 10 different ones. Embedding: all sets of up to 3 texts, then up to 1. QuerySession: 2 vaults, 2 configurations, 2 widths, both backends, 1 publication during the request | `ChunksFaithful`; `VectorsMatch`; `AnswersTrue`, `DenseHonest` |
| MCRequestsCoalesced, MCSyncRewind, MCSyncSkipped, MCFences, MCLeaseLeak | the same modules, smaller instances where that is enough | each violates one property, see section 4 |

**Stated elsewhere.** `Exclusion` of the lock is part of what `KeepsGate` says (`Take`
and `Enter` of QueryGate) and has no line of its own. `OneServed` is checked where
cleaners take part; that two workers keep it too is `StoreOneServed`. What the users of
a contract do with it (`UsesGate`, `UsesLease`, `PassesUseLease`) is proved for all
instances (section 5) and listed with no run.

**Side by side.** MCSync, MCProcesses and MCDataPath hold several modules that
share no variable. `part` is chosen at the start and a behaviour takes the steps
of that part only, so that the state spaces add up and do not multiply, and
every property speaks of the whole of its module. A property whose first state
would violate it in a part that does not run is stated for its part
(`VaultConverges`, `ContentServed`, `ContentCollected`: `part = ... =>` the
property of the module), and fairness of an action that the first state enables
is asked for in its part only.

**Bounds.** `MaxFaults`, `MaxFailures`, `MaxCuts`, `MaxCancels` and `MaxStops` bound crashes,
lost sessions, cancelled statements and failed operations of a behaviour. Two
are needed and enough for what goes wrong in pairs: a lost session followed by a
rival's publication, an interrupted pass followed by a second one, a source that
is not stored followed by a crash before the label. One is enough for the request
queue: a claim that lapses under a slow pass, a crash, a completion that fails.
`RevIds` and `Requests` are the identifiers that a behaviour may draw; when they are
used up nothing new begins, which cuts behaviours short and adds none (three revisions let two
workers publish over each other, and let the cleaner delete one with
`keep_promoted` 2). Two paths tell a partial tree from a whole one, three add a
source that stays broken while another changes, or a rename that changes only
the case. `MaxEdits` and `MaxPublished` bound what users and other processes do:
one edit between any two steps of two indexers, one publication between any two
statements of a request. Chunk limits of 5 and 7 tokens with an overlap of 2 make
documents of four lines overflow, be cut and be packed. Symmetry is used where
only safety is checked.

MCIndex and MCIndexSettles divide the hazards of the index: overlapping indexers
with one change of the manifest, and a single indexer through changes back and
forth. With both at once the states are too many for the time of a run.

Operators whose comment says "variant" are not used by the models. Each is a
plausible mistake in the code next to it (a guard dropped, a filter forgotten, a
notification left out); `PROJECT.json` ("mutants") says which property each one
breaks, so that no property holds for want of a chance to fail.

**Fairness**, and why the code justifies it:

* Lock: weak fairness of every thread that holds or waits for the mutex
  (scheduler), of the end of a query or a pass, and of deadlines. None for calls.
  `WriterGetsIn` says that *some* writer gets in: `notify_all` has no order.
* Revisions: time passes; a worker's pass goes on (every database call has a
  statement timeout); the cleaner gets the lease infinitely often when it is free
  infinitely often (strong fairness): a worker runs retention after every pass
  and pauses for the poll interval.
* Content: as above; workers poll at moments that have nothing to do with the
  cleaner's, so that each meets a free lease again and again (strong fairness of
  `Begin` and `CleanRevisions`).
* Lease: threads go on and statements end, by their timeout if not before.
  Nothing obliges a session to be lost or a connection to be retired.
* Polling thread: its steps and those of `close` go on. The interval timeout has
  *no* fairness: nothing may depend on it, a request must wake the thread.
* Requests: every worker polls (`run_forever` swallows StorageError), passes go
  on, claims grow old. None for new requests.
* Combined service: the polling thread goes on and queries end. None for the ref
  to move or for an operator to ask.
* Index: a run that has begun goes on (`Step`). None for edits, and none for a run
  to begin: while the ref rests the polling thread starts none unless somebody asks
  (`service/coordinator.py:301-331`, `177-183`), nor does it notice that the
  configuration has changed (`583-592`; docs/retrieval.md:63 has the operator run
  `index --rebuild`). `EventuallyCurrent` therefore has a hypothesis: `IndexedAgain`,
  the indexer is started again and again.

Deadlock is checked where the system must be able to go on; MCProcesses and
MCDataPath stop where a request, a document or a closed service is at its end.

## 4. Findings

1. **A coalesced request may be lost** (MCRequestsCoalesced). `request_sync`
   inserts nothing while a request is claimed. If the claiming pass is already
   past a vault, no forced visit of that vault follows, and the row is completed.
   `PendingHonoured` shows that requests which meet a *pending* row are safe.
2. **After a ref goes back, contents of another commit may be served under its
   label** (MCSyncRewind). `checkout_sha` is written before the index is touched
   and `_commit_safe` takes `checkout = reconciled = HEAD` as proof that the index
   is of that commit. Two interrupted passes, the first for c2, the second for
   the c1 that was reconciled before, make the three equal while the index holds
   c2's contents. While the ref only moves forward this cannot happen
   (`AnswerTrue` in MCSync).
3. **A broken source is forgotten** (MCSyncSkipped). The failing hash that
   `suppress_source` stores makes the source look unchanged in the next commit,
   which is then recorded as reconciled without it. Not parsing the same bytes
   twice is intended by the indexer's tests; that the *commit* then counts as
   reconciled contradicts what the coordinator's test says. PostgreSQL is not
   affected: a lexically incomplete revision is never promoted, and the next one
   starts from a copy of the last good one (`ServedMatchesCommit`).
4. **A cancelled statement leaves a vault locked** (MCLeaseLeak). A statement of
   `refresh` or `release` that ends by its `statement_timeout` leaves a living
   session. `_return_connection` relies on the pool to discard it ("A failed
   backend is already unusable"), but psycopg's pool discards only broken
   connections; it rolls this one back and keeps it, with the advisory lock of
   the session. Until the pool retires the connection, or the process draws it
   for the same vault again, nobody else can reconcile or clean the vault.
   `SessionsOwned` says that this is the only way for a lock to be without a pass.
5. **A fenced block may be cut** (MCFences). docs/retrieval.md:45 and
   `ingest/chunker.py:106` call fenced blocks indivisible. After a line such as
   ```` ```x``` ````, or an indented one, the chunker's fences are not CommonMark's: a
   real block is divided like ordinary text, or one that is too long is cut where the
   source should fail. Where no such line occurs every fenced block of CommonMark is
   whole (`ChunksFaithful`, proved).

Limits of the promises that the properties state, met while modelling; each is
in the model, and except where a finding is named no doc promises otherwise:

* `AnswerTrue` leaves out of an answer's completeness what cannot be parsed, and what a
  later run at the labelled commit could not read (`dropped`): the row is removed and
  the label stays. docs/retrieval.md:28-33 documents the removal; what is there is
  always the labelled commit's. The run is recorded as `lexical_incomplete`, but the
  reason is all that remembers it: if the process stops before `_persist_report`, or a
  failed fetch writes its own reason, all five SHAs agree, the next pass takes the
  commit as unchanged and clears the reason (`service/coordinator.py:301-308`,
  `326-331`), and nothing looks for the source before the ref moves. This is another way
  to the silence of finding 3, and has no run of its own. Likewise
  `ServedUntilActivated` excepts a run that finds none of the sources it serves
  (`NoneFound`).
* `EventuallyCurrent` presupposes that somebody indexes again (section 3).
* `LabelHonest` and `EventuallyCurrent` except `mixed`: (a) a manifest that is
  taken back while its successor is half applied meets a label that already
  names it (`indexing/service.py:753-758` keeps the previous label), so that the
  sources of the successor stay until their files change; a run that is under
  way may also put the old manifest back, as the fingerprint it found, when one
  of its sources fails; (b) overlapping incremental runs that read different
  configurations each write their own label.
* `KeepsNewest` speaks of the last `keep_promoted` publications. A cleaner that
  has lost its lease may still delete what it selected while it had it
  (`storage/postgres/cleanup.py` takes no lock with its deletions), and what was
  an abandoned draft then may have been published meanwhile. If a newer publication
  has superseded that one, it goes. A cleaner with the lease counts the rows
  that are left, so that its next deletion leaves the last `keep_promoted`
  publications alone, but there may be fewer than `keep_promoted` old ones.
* A build that is refused because the cleaner removed a blob or a vector that it
  relied on is recorded as `lexical_incomplete` and not tried again before the
  ref moves or an operator asks (`service/coordinator.py:309-322`; the variable
  `stranded`, which `ContentServed` excepts).
* A search on SQLite may use vectors while chunks of local-only text are disabled
  without calling the answer degraded: `_semantic_state` (`app.py:270-303`) counts
  pending chunks, not disabled ones. `DenseHonest` claims full coverage for
  PostgreSQL only.
* A provider that starts to answer with another width blocks the retry of pending
  chunks until a rebuild (`storage/sqlite.py:649-659`). VaultIndex has one width.

## 5. The proofs

TLAPS proves, for all values of the constants under the named assumptions of the
modules, what the runs show on small instances:

| Module | Theorems |
|---|---|
| LifecycleLock_proofs | `LockTypeOK`, `LockExclusion`, `LockWriterFair`, `LockNoLostWakeup`, `LockKeepsGate` |
| RevisionStore_proofs | `StoreInvariant`, `StoreTypeOK`, `StoreOneServed`, `StoreServedMatchesCommit`, `StoreLinearHistory`, `StorePublishedImmutable`, `StoreImplementsIndex`, `StoreKeepsNewest`, `StoreUsesLease` |
| SyncRequests_proofs | `QueueInvariant`, `QueueTypeOK`, `QueueOneOpen`, `QueueLeaseFollowsPass`, `QueueOutcomeIsOwn`, `QueueUsesLease` |
| RepositorySync_proofs | `VaultTypeOK`, `VaultAnswersTrue`, `VaultServedUntilActivated`, `VaultUsesGate` |
| VaultIndex_proofs | `IndexTablesAgree`, `IndexVectorOfItsText`, `IndexLabelHonest`, `IndexRebuildAllOrNothing`, `IndexCleanRunConverges` |
| DataPath_proofs (QuerySession, Embedding) | `QueryAnswersTrue`, `QueryDenseHonest`, `EmbeddingVectorsMatch` |
| Chunking_proofs | `ChunksStayFaithful` |
| Processes_proofs (PollThread, LeaseSession, Migrations, ContentStore) | `PollClosedForGood`, `LeaseSessionsOwned`, `LeaseKept`, `MigrationsAgree`, `ContentStays` |

* **Lock** (`LockInv == TypeOK /\ CountersAgree /\ Exclusion`). The counters are
  natural numbers only because they count threads: the invariant says that
  `readers` is the cardinality of the readers inside, `waitingWriters` that of
  the registered writers, and `writer` that somebody is writing. The proof rests
  on lemmas about adding to and removing from finite sets. `NoLostWakeup` is
  inductive with it: a step that could make what a sleeper waits for come true
  ends in `NotifyAll`, after which nobody sleeps; every other step leaves
  true what a sleeper waits on: a query that is not the last one to leave notifies
  nobody, and writers stay blocked by the rest.
* **Gate.** `LockKeepsGate` maps each section of the mutex to one step of QueryGate
  or a stutter: `EnterRead` to `Enter`, the two ways in of a writer to `Take`, the
  others to leaving or waiting. What `Enter` and `Take` demand of sets the code tests
  on counters, so that `CountersAgree` is what the mapping rests on. `VaultUsesGate`
  maps `Take` to `Queue`, `Activate` to `Take`, every way out of the lock to
  `Release` or `Withdraw`, and a crash, wherever it comes, to `Stop`.
* **Revisions** (`StoreInv`, which adds `HandleInv`, `BuildInv` and `HistoryInv`).
  `OneServed` and `ServedMatchesCommit` are not inductive. The invariant adds: a
  revision some pass builds is in no other pass's hands and was copied from a
  revision that was the last of the history then (or from none); what a pass has
  not yet replaced equals what it was copied from or is on its list of things to
  do, and when it stands before publication with no failure on its way the
  revision *is* the tree of the target; the history of promotions has no
  repetition, ends with `active`, and none of its members is `building`.
  Immutability follows since every write goes to a `building` row.
* **Refinement.** `Begin` maps to `Open`, `Promote` to `Publish`, the ways out of
  a pass to `Drop`, all else to a stutter; that the mapped `version` moves with
  `Promote` alone and that bases keep their position uses the history part of
  the invariant.
* **Retention** (`RetentionInv == OneLive /\ SelectedOld`). At most one process
  has the lease, and what its holder has selected is none of the last
  `keep_promoted` publications. The rank of a publication counts the rows that
  are left, so that a row whose rank is beyond `keep_promoted` is followed by as
  many publications (`NewestRanksFirst`); a publication needs the lease, so that
  none comes between the selection and the deletion of a holder. Cleaners that
  have lost their lease are in the theorem.
* **Content** (`ContentInv`). What a transaction has inserted nobody else sees or
  inserts (`InsertsApart`); what it refers to is there and not being deleted,
  because the reference took a KEY SHARE lock (`InsertsApart`, `DeletesApart`);
  and the rows a cleaner deletes have no reference when the deletion takes effect.
  With `LeaseApart` (the vault of the cleaner has no pass) no interleaving of
  passes of other vaults takes a blob or a vector from a revision.
* **Requests** (`QueueInv`). The invariant adds where a pass stands
  (`StandsAtVault`): at a place with a lease, the position is a vault's. `OneOpen`
  is inductive with `TypeOK`, because a request enters only an empty queue and a
  claim takes an open one.
* **Combined service** (`SyncInv(R)`, under `Forward(R)`). The hypothesis names
  an order `R` of the commits, irreflexive and transitive, in which every move
  of the ref goes forward. MCSyncRewind shows that it cannot be dropped: with a
  ref that goes back `AnswerTrue` is false. Nothing is assumed of trees, queries,
  the number of faults or the files that discovery fails at. `AnswerTrue` looks at queries only; the invariant
  traces it back to what a crash may leave behind:
  `Stage` says what a pass has done and recorded at each of its places and what
  it may rely on (the path that is not on the list of things to do has the
  content of the target, or was not found and has no row; no query is inside while the writer is);
  `Monotone(R)` says that the recorded commits are never after the one the pass
  or the ref is at; `IndexFits(R)` says that an index that is ready is of the
  reconciled commit, less what was `dropped` there, as long as the checkout stays there: a partly written index
  exists only once the checkout is recorded as *further on*, and since the ref
  never returns, checkout and reconciled commit meet again only when a pass has
  finished. `QueriesRight` carries the hits of a query over to its label.
  `ServedUntilActivated` follows from the same invariant: an index step of a
  vault that is ready works on the commit that is served, so that the sources
  shown before and after are those of one tree, and some of them remain unless the
  run found none.
* **Lease session** (`LeaseInv == LeaseTypeOK /\ OneOwner /\ LocksCounted`). Who
  has a connection: the pass that names it or its single store operation, never
  both; how often a session has taken the lock: a living lease has it, and more
  than once, or without a pass, only after a cancelled statement.
* **Lease.** `LeaseKept` maps every step of LeaseSession to one of VaultLease or a
  stutter, from `LeaseInv`: an acquisition is a `Grant` because a lease that lives has
  the lock (`LocksCounted`); a failed refresh, or a session that the server ends, is
  `Lose`; operations and the health check never touch the connection of the lease
  (`OneOwner`). On the other side, `StoreUsesLease` needs only that an idle process has
  no session, not even a lost one (`IdleHasNone`), and `QueueUsesLease` maps what one
  step does to all leases of a worker, vault by vault. A lock that a cancelled statement
  left behind (MCLeaseLeak) is no lease: it delays a `Grant` and cannot allow a second.
* **Polling thread** (`PollInv`). `ClosedForGood` is not inductive: a `start()`
  that has passed the runtime's flag must find the facade closed before the
  thread is joined, which the invariant says of every place of `close`.
* **Migrations** (`MigrateInv`). The migration lock spans all transactions of an
  `apply`, so that what a process has read of the history stays true until it
  unlocks; with that, one more transaction makes 1..n into 1..n+1.
* **Index** (`IndexInv`). `RunsOK` says what a run may rely on among the things it
  remembers, `DbsOK` that the tables of the index and of every copy agree path by
  path, `CopiesOK` that the copy of a rebuild is of its settings throughout.
  `LabelHonest` needs most (`Unmixed`): as long as the history is not one of the
  two that a fingerprint per vault cannot tell apart, overlapping runs have read
  the same settings, the index has one configuration, and a source of another
  manifest than the one in force is either still on the list of a run that
  promotes, or the label does not name that manifest. There is one lemma per
  transaction and one per step of a run. The first attempt failed for a good
  reason: a manifest may be taken back while a run is under way that would put it
  back as the previous one, which `TakenBack` did not say; TLC showed a behaviour
  with two edits and one fault, and the model was corrected.
* **Clean runs** (`ConvergeInv`, which adds `RowsInv` and `CleanInv` to `IndexInv`).
  `CleanRunConverges` speaks of the end of a run; the invariant says what holds at
  each of its places. `RowsInv` tells the sources that were parsed from those that
  could not be, in the index and in every copy, whoever wrote them. `CleanInv` is
  about a run that is alone, saw no edit and failed at nothing: it still has read
  the truth (`UpToDate`); what it has no more to do (`Waiting`) is `AsFiled`, with no
  disabled chunk left once `requeue_disabled_chunks` has run (`Settled`); and what
  it will store it has embedded or tried to (`Foreseen`). Planning establishes this
  of any index that satisfies `RowsInv`, whatever crashes and failures had left;
  when `Waiting` is empty, the last transaction makes the index `Current`.
* **Searches** (`QueryInv`). What a request has judged stays true of what it reads
  later: on PostgreSQL because its snapshot is `Pinned`, on SQLite because a vector
  is compared with those of its own configuration and width only (`JudgedFairly`,
  `VectorJudged`, `CandidatesHeld`).
* **Embedding** (`EmbedInv`). Vectors carry no index once their batch is done. They
  find their texts again because batches are made and asked for in the order of the
  inputs (`BatchesInOrder`): the inputs answered so far come before those that wait,
  there are as many vectors, and the place of an input among those without a failure
  is the place of its vector (`MatchedSoFar`). Within a batch, as many
  different indexes as inputs are all of them (`AnswersOfBatch`: an injection of a
  finite set into itself is onto). Planning is one action per input, so that its
  result is an invariant and not what a recursion computes.
* **Chunks** (`ChunkInv`). The texts that stand for the section being worked on
  follow one another from its first character on (`Chain`): first the blocks, up to
  the block being scanned; then the pieces and after them the blocks; then the
  current chunk and the pieces. The chunks packed before it cover what precedes
  (`Laid`), each beginning and ending after the one before (`Follows`): what is
  repeated is a *proper* end of the previous chunk, because the piece did not fit
  after all of it and does fit after the repeated part. Only blocks that are not
  fences are cut, so that a fence is kept whole (`Kept`) from the block that holds it
  to the piece, the chunk and the record. That what is kept are also the fenced blocks
  of CommonMark is `CodesInv`: where the two read alike (`ReadAlike`), no heading stands
  inside such a block, so that no section begins there (`Apart`), and the scan, which is
  never inside one when it looks at a line, finds the same last line. Every line is
  under exactly one heading or in the preamble (`MarkdownDivided`): the headings ascend. Nothing is assumed of the
  tokenizer, of the number of lines or of their kinds; of the limits only what
  `validate_token_limits` demands. Induction over lines and texts is replaced by
  the invariant (one action per round) and, within a step, by the least
  counterexample (`LeastElement`, from the library's theorem that proper inclusion is
  well-founded on the finite subsets of a finite set).

The type invariants of LifecycleLock, SyncRequests and RepositorySync, and
`WriterFair`, are proved and not among the runs.

**Model-checked only.** Liveness (`WriterGetsIn`, `ReaderAnswered`,
`OrphansCollected`, `PassEnds`, `RequestAnswered`, `PendingHonoured`,
`VaultConverges`, `EventuallyCurrent`, `CallsTakeEffect`, `LeaseReturned`,
`ContentServed`, `ContentCollected`), since TLAPS reasons neither about ENABLED
nor about fairness here.

## 6. Not modelled, and why

Rank fusion and diversity selection (functions of floating-point scores),
identifiers and wording; which files discovery selects (that it may fail at them is in
RepositorySync); configuration and security
checks (immutable or stateless; what a changed configuration does to an index is
in VaultIndex and QuerySession); front ends and observability (no state that
outlives a request; observers' failures are swallowed); evaluation and
deployment. The status columns that `postgres_state.py` writes do not decide
what is served. Staged checkouts and the environment of git processes are
abstracted to whether a step succeeds. Disabled and pending chunks of PostgreSQL
are modelled for one chunk (ContentStore), of SQLite in full (VaultIndex).

Four details of modelled code are left out. `Leave` of SyncRequests always frees the
lease; the code suppresses a release that fails (`service/coordinator.py:160-163`), and
what becomes of the lock then is LeaseSession's subject (finding 4). `os.replace` of a
rebuild is atomic in VaultIndex; the `-wal` file that a concurrent connection to the old
index may leave beside the new one (`indexing/service.py:812-819`) is not modelled. The
tokenizer does not raise anything but what the code expects: another exception at
`indexing/service.py:556` would end every run of the vault. Chunking has no fences
inside list items and block quotations.

## 7. Plan

Done, in order of importance: LifecycleLock with QueryGate; RevisionStore with PublishedIndex;
SyncRequests; RepositorySync; VaultIndex; ContentStore; LeaseSession with VaultLease;
PollThread; Migrations; QuerySession; Embedding; Chunking.

Left, proofs: none that the prover can reach. Every safety invariant and action
property that a passing run checks is proved; liveness stays with TLC (section 5).
