----------------------------- MODULE VaultIndex -----------------------------
(***************************************************************************)
(* The index of one vault in a SQLite file, and the indexers that bring it *)
(* up to the files on disk: incremental runs, which may overlap because    *)
(* the command line and the service share nothing but the database, and    *)
(* rebuilds, which fill a private copy and rename it over the index.       *)
(* A user edits files, the manifest, the embedding configuration and the   *)
(* egress policy meanwhile; transactions and embedding calls fail and      *)
(* processes die.                                                          *)
(*                                                                         *)
(* Sources: indexing/service.py, storage/sqlite.py, storage/schema.py.     *)
(* A source has one chunk, whose identity is its path (chunk ids hash the  *)
(* vault, the path, the heading and the ordinal) and whose content hash    *)
(* stands for the text that is embedded: the content of the source and the *)
(* front matter the manifest selects.  A configuration stands for the      *)
(* parser, chunker and embedding fingerprints together.  The provider      *)
(* returns vectors of one dimension throughout.                            *)
(***************************************************************************)
EXTENDS Naturals, FiniteSets

CONSTANTS
    Procs,         \* indexers
    Paths,         \* relative paths, in the order in which they sort
    Folded,        \* the case-folded form of each path
    Contents,      \* what a file may hold
    Unparsable,    \* contents the parser or the chunker rejects
    Manifests, Edited,   \* manifests, and <<m, n>> when a user may change m to n
    Configs, Changed,    \* the same for configurations
    None,
    MaxEdits,      \* bound on what users change
    MaxFaults      \* bound on failed transactions and embeddings, and on crashes

ASSUME IndexAssumption ==
    /\ Paths \subseteq Nat /\ IsFiniteSet(Paths)
    /\ Unparsable \subseteq Contents
    /\ None \notin Contents \cup Manifests \cup Configs
    /\ Edited \subseteq Manifests \X Manifests
    /\ Changed \subseteq Configs \X Configs
    /\ MaxEdits \in Nat /\ MaxFaults \in Nat

VARIABLES
    disk,      \* the content of each path
    conf,      \* manifest, configuration, and whether embedding is allowed
    db,        \* the index
    temp,      \* the copy each rebuilding indexer fills
    run,       \* what each indexer knows
    mixed,     \* what happened is more than the label can tell: see Enter, TakenBack
    edits, faults

vars == <<disk, conf, db, temp, run, mixed, edits, faults>>

(***************************************************************************)
(* The tables of one database.                                             *)
(***************************************************************************)
ChunkText == (Contents \ Unparsable) \X Manifests
Vector == [text : ChunkText, cfg : Configs]
Label == [m : Manifests, cfg : Configs]

NoRow == [hash |-> None, active |-> FALSE]
NoChunk == [text |-> None, cfg |-> None, state |-> None]

Databases ==
    [row : [Paths -> [hash : Contents, active : BOOLEAN] \cup {NoRow}],
     chunk : [Paths -> [text : ChunkText, cfg : Configs,
                        state : {"ready", "pending", "disabled"}] \cup {NoChunk}],
     vec : [Paths -> Vector \cup {None}],
     queue : SUBSET Paths,
     label : Label \cup {None}]

ASSUME NoneAssumption ==    \* None differs from whatever may stand in its place
    None \notin Vector \cup Label \cup {"ready", "pending", "disabled"}

EmptyDb ==
    [row |-> [p \in Paths |-> NoRow], chunk |-> [p \in Paths |-> NoChunk],
     vec |-> [p \in Paths |-> None], queue |-> {}, label |-> None]

Stored(d, p) == d.row[p] # NoRow
Active(d, p) == d.row[p].active

(* _delete_source_dependents: vectors and queue go with their chunks.      *)
WithoutChunks(d, P) ==
    [d EXCEPT !.chunk = [p \in Paths |-> IF p \in P THEN NoChunk ELSE @[p]],
              !.vec = [p \in Paths |-> IF p \in P THEN None ELSE @[p]],
              !.queue = @ \ P]

WithoutSources(d, P) ==
    [WithoutChunks(d, P) EXCEPT !.row = [p \in Paths |-> IF p \in P THEN NoRow ELSE @[p]]]

(***************************************************************************)
(* What a run knows, and what follows from the files it discovered and the *)
(* hashes it read.                                                         *)
(***************************************************************************)
Places == {"idle", "plan", "embed", "requeue", "pending", "suppress",
           "replace", "update", "finalize", "publish"}

Idle == [at |-> "idle", rebuild |-> FALSE, m |-> None, cfg |-> None, semantic |-> FALSE,
         promote |-> FALSE, prev |-> None,
         files |-> [p \in Paths |-> None], old |-> [p \in Paths |-> None],
         todo |-> {}, memo |-> <<>>, upd |-> {},
         failed |-> FALSE, failedManifest |-> FALSE, undisturbed |-> FALSE]

Running == {i \in Procs : run[i].at # "idle"}
Target(i) == IF run[i].rebuild THEN temp[i] ELSE db

Additions(r) == {p \in Paths : r.files[p] # None /\ r.old[p] = None}
Deletions(r) == {p \in Paths : r.files[p] = None /\ r.old[p] # None}
Known(r) == {p \in Paths : r.files[p] # None /\ r.old[p] # None}
SameBytes(r) == {p \in Known(r) : r.files[p] = r.old[p]}
Promotions(r) == IF r.promote THEN SameBytes(r) ELSE {}
ChangesOfBytes(r) == Known(r) \ SameBytes(r)     \* variant: the manifest is not looked at
Changes(r) == (Known(r) \ SameBytes(r)) \cup Promotions(r)
Unchanged(r) == SameBytes(r) \ Promotions(r)
ParseFailures(r) == {p \in Additions(r) \cup Changes(r) : r.files[p] \in Unparsable}
Prepared(r) == (Additions(r) \cup Changes(r)) \ ParseFailures(r)

TextOf(r, p) == <<r.files[p], r.m>>

(* Additions come before changes, each in the order of their paths.        *)
Precedes(r, p, q) ==
    IF (p \in Additions(r)) = (q \in Additions(r)) THEN p <= q ELSE p \in Additions(r)
IsNext(r, p) == p \in r.todo /\ \A q \in r.todo : Precedes(r, p, q)

(* A deleted path that differs from p only in case.                        *)
Replacing(r, p) == {q \in Deletions(r) : Folded[q] = Folded[p]}

(***************************************************************************)
(* Where a run goes next: empty loops and, without embeddings, the steps   *)
(* about them are passed over.                                             *)
(***************************************************************************)
ToFinalize(r) == [r EXCEPT !.at = "finalize", !.todo = {}, !.memo = <<>>, !.upd = {}]
ToUpdate(r) == IF r.upd = {} THEN ToFinalize(r) ELSE [r EXCEPT !.at = "update", !.todo = {}]
ToReplace(r) ==
    IF Prepared(r) = {} THEN ToUpdate(r)
    ELSE [r EXCEPT !.at = "replace", !.todo = Prepared(r)]
ToSuppress(r) ==
    IF ParseFailures(r) = {} THEN ToReplace(r)
    ELSE [r EXCEPT !.at = "suppress", !.todo = ParseFailures(r)]
ToRequeueNothing(r) == ToSuppress(r)       \* variant: only what is prepared is embedded
ToRequeue(r) ==
    IF r.semantic THEN [r EXCEPT !.at = "requeue", !.todo = {}] ELSE ToSuppress(r)
ToEmbed(r) ==
    IF r.semantic /\ Prepared(r) # {} THEN [r EXCEPT !.at = "embed", !.todo = Prepared(r)]
    ELSE ToRequeue(r)

(***************************************************************************)
(* Transactions.                                                           *)
(***************************************************************************)
(* reusable_vectors: vectors of this configuration, of active and ready    *)
(* chunks with this content hash.                                          *)
Reusable(d, r, t) ==
    {d.vec[p] : p \in {q \in Paths : /\ Active(d, q)
                                     /\ d.chunk[q].state = "ready"
                                     /\ d.chunk[q].text = t
                                     /\ d.vec[q] # None
                                     /\ d.vec[q].cfg = r.cfg}}

(* replace_source: with a deferred fingerprint the stored one has to be of *)
(* the run's configuration, and folded paths are unique.                   *)
Cleared(d, r, p) == WithoutSources(d, Replacing(r, p))

ReplaceAccepted(d, r, p) ==
    /\ r.promote => d.label # None /\ d.label.cfg = r.cfg
    /\ \A q \in Paths \ {p} : Stored(Cleared(d, r, p), q) => Folded[q] # Folded[p]

ReplacedBy(d, r, p) ==
    LET t == TextOf(r, p)
        v == IF t \in DOMAIN r.memo THEN r.memo[t] ELSE None
        state == IF t \notin DOMAIN r.memo THEN "disabled"
                 ELSE IF v = None THEN "pending" ELSE "ready"
    IN [WithoutChunks(Cleared(d, r, p), {p}) EXCEPT
            !.row[p] = [hash |-> r.files[p], active |-> TRUE],
            !.chunk[p] = [text |-> t, cfg |-> r.cfg, state |-> state],
            !.vec[p] = v,
            !.queue = IF state = "pending" THEN @ \cup {p} ELSE @,
            !.label = IF r.promote THEN @ ELSE [m |-> r.m, cfg |-> r.cfg]]

(* suppress_source: only a stored source is suppressed; its failing hash   *)
(* is recorded.                                                            *)
SuppressedBy(d, r, p) ==
    IF Stored(d, p)
    THEN [WithoutChunks(d, {p}) EXCEPT !.row[p] = [hash |-> r.files[p], active |-> FALSE]]
    ELSE d

(* requeue_disabled_chunks: every disabled chunk of an unchanged source    *)
(* becomes pending.                                                        *)
Requeued(d, r) ==
    LET P == {p \in Unchanged(r) : Active(d, p) /\ d.chunk[p].state = "disabled"}
    IN [d EXCEPT !.chunk = [p \in Paths |-> IF p \in P THEN [@[p] EXCEPT !.state = "pending"]
                                                       ELSE @[p]],
                 !.vec = [p \in Paths |-> IF p \in P THEN None ELSE @[p]],
                 !.queue = @ \cup P]

PendingOf(d, r) ==
    {<<p, d.chunk[p].text>> : p \in {q \in Unchanged(r) : Active(d, q) /\ d.chunk[q].state = "pending"}}

(* update_pending_embeddings: all updates or none; each chunk has to be    *)
(* the one that was read.                                                  *)
StillInQueue(d, p, t) == Active(d, p) /\ d.chunk[p].state = "pending"   \* variant: no hash
StillPending(d, p, t) == Active(d, p) /\ d.chunk[p].state = "pending" /\ d.chunk[p].text = t

UpdateAccepted(d, r) ==
    /\ d.label # None /\ d.label.cfg = r.cfg
    /\ \A u \in r.upd : StillPending(d, u[1], u[2])

KeptQueued(d, P) == d.queue            \* variant: the queue is forgotten
Dequeued(d, P) == d.queue \ P

UpdatedBy(d, r) ==
    LET done == {u \in r.upd : r.memo[u[2]] # None}
        P == {u[1] : u \in done}
        new(p) == r.memo[(CHOOSE u \in done : u[1] = p)[2]]
    IN [d EXCEPT !.chunk = [p \in Paths |-> IF p \in P THEN [@[p] EXCEPT !.state = "ready"]
                                                       ELSE @[p]],
                 !.vec = [p \in Paths |-> IF p \in P THEN new(p) ELSE @[p]],
                 !.queue = Dequeued(d, P)]

(* delete_sources: policy, deletions and the label in one transaction.     *)
Disabled(d) ==
    [d EXCEPT !.chunk = [p \in Paths |-> IF @[p] = NoChunk THEN NoChunk
                                         ELSE [@[p] EXCEPT !.state = "disabled"]],
              !.vec = [p \in Paths |-> None],
              !.queue = {}]

NewLabel(r) == [m |-> r.m, cfg |-> r.cfg]
FinalLabel(r) == IF r.failedManifest THEN r.prev ELSE NewLabel(r)

FinalizedBy(d, r) ==
    [WithoutSources(IF r.semantic THEN d ELSE Disabled(d), Deletions(r))
        EXCEPT !.label = FinalLabel(r)]

(***************************************************************************)
(* What the properties compare with.                                       *)
(***************************************************************************)
(* Two files whose paths differ only in case can never both be indexed.    *)
Colliding ==
    \E p, q \in Paths : p # q /\ Folded[p] = Folded[q] /\ disk[p] # None /\ disk[q] # None

(* Every source was parsed with the manifest and chunked and embedded with *)
(* the configuration the label names.                                      *)
Coherent(d) ==
    \A p \in Paths : Active(d, p) => d.chunk[p].text[2] = d.label.m /\ d.chunk[p].cfg = d.label.cfg

Expected(d, p) ==
    IF disk[p] = None THEN ~Stored(d, p)
    ELSE IF disk[p] \in Unparsable THEN ~Active(d, p)
    ELSE /\ d.row[p] = [hash |-> disk[p], active |-> TRUE]
         /\ d.chunk[p].text = <<disk[p], conf.m>>
         /\ d.chunk[p].cfg = conf.cfg
         /\ d.chunk[p].state \in IF conf.semantic THEN {"ready", "pending"} ELSE {"disabled"}

Current(d) ==
    /\ d.label = [m |-> conf.m, cfg |-> conf.cfg]
    /\ \A p \in Paths : Expected(d, p)

(***************************************************************************)
(* Actions.                                                                *)
(***************************************************************************)
Fault == faults < MaxFaults /\ faults' = faults + 1
NoFault == faults' = faults

Init ==
    /\ disk \in [Paths -> {None} \cup (Contents \ Unparsable)]
    /\ ~Colliding
    /\ conf \in [m : Manifests, cfg : Configs, semantic : {TRUE}]
    /\ db = EmptyDb
    /\ temp = [i \in Procs |-> EmptyDb]
    /\ run = [i \in Procs |-> Idle]
    /\ mixed = FALSE /\ edits = 0 /\ faults = 0

Disturbed(r) == [r EXCEPT !.undisturbed = FALSE]

(* What users change while nothing waits for them.                         *)
Edit ==
    /\ edits < MaxEdits /\ edits' = edits + 1
    /\ run' = [i \in Procs |-> Disturbed(run[i])]
    /\ UNCHANGED <<db, temp, faults>>

EditFile(p) ==
    /\ \E c \in Contents \cup {None} : c # disk[p] /\ disk' = [disk EXCEPT ![p] = c]
    /\ Edit /\ UNCHANGED <<conf, mixed>>

RenameFile(p, q) ==
    /\ disk[p] # None /\ disk[q] = None
    /\ disk' = [disk EXCEPT ![p] = None, ![q] = disk[p]]
    /\ Edit /\ UNCHANGED <<conf, mixed>>

(* The manifest becomes the one the label names, or the one a run under    *)
(* way puts back if a source fails, while the index or that run is half    *)
(* way to another.                                                         *)
TakenBack(n) ==
    \/ db.label # None /\ db.label.m = n /\ ~Coherent(db)
    \/ \E i \in Running : /\ run[i].m # n
                          /\ \/ db.label # None /\ db.label.m = n
                             \/ run[i].prev # None /\ run[i].prev.m = n

Configure ==
    /\ \/ \E n \in Manifests : /\ <<conf.m, n>> \in Edited /\ conf' = [conf EXCEPT !.m = n]
                              /\ mixed' = (mixed \/ TakenBack(n))
       \/ \E n \in Configs : <<conf.cfg, n>> \in Changed /\ conf' = [conf EXCEPT !.cfg = n] /\ UNCHANGED mixed
       \/ conf' = [conf EXCEPT !.semantic = ~@] /\ UNCHANGED mixed
    /\ Edit /\ UNCHANGED disk

(* An indexer that starts on database d: it reads the label, then the      *)
(* files.  The two reads are one step, since nothing that changes either   *)
(* changes the other.                                                      *)
Started(d, rebuild) ==
    [Idle EXCEPT !.at = "plan", !.rebuild = rebuild, !.files = disk,
                 !.m = conf.m, !.cfg = conf.cfg, !.semantic = conf.semantic,
                 !.promote = d.label # None /\ d.label.m # conf.m,
                 !.prev = d.label,
                 !.undisturbed = Running = {} /\ (d.label # NewLabel(conf) \/ Coherent(d))]

Enter(i, r) ==
    /\ run[i].at = "idle"
    /\ run' = [j \in Procs |-> IF j = i THEN r ELSE Disturbed(run[j])]
    /\ mixed' = (mixed \/ \E j \in Running : run[j].m # conf.m \/ run[j].cfg # conf.cfg)

(* _check_compatibility: an index of another configuration needs a         *)
(* rebuild.                                                                *)
Compatible == db.label # None => db.label.cfg = conf.cfg

Begin(i) ==
    /\ Compatible
    /\ Enter(i, Started(db, FALSE))
    /\ UNCHANGED <<disk, conf, db, temp, edits, faults>>

(* _atomic_rebuild: the copy starts without the vault.                     *)
BeginRebuild(i) ==
    /\ Enter(i, Started(EmptyDb, TRUE))
    /\ temp' = [temp EXCEPT ![i] = EmptyDb]
    /\ UNCHANGED <<disk, conf, db, edits, faults>>

Advance(i, r) ==
    /\ run' = [run EXCEPT ![i] = r]
    /\ UNCHANGED <<disk, conf, mixed, edits>>

WriteInPlace(i, d) == db' = d /\ UNCHANGED temp    \* variant: rebuilds in place
Write(i, d) ==
    IF run[i].rebuild THEN temp' = [temp EXCEPT ![i] = d] /\ UNCHANGED db
                      ELSE db' = d /\ UNCHANGED temp

(* source_hashes, and everything that follows from it in memory.           *)
Plan(i) ==
    /\ run[i].at = "plan"
    /\ Advance(i, ToEmbed([run[i] EXCEPT !.old = [p \in Paths |-> Target(i).row[p].hash]]))
    /\ NoFault /\ UNCHANGED <<db, temp>>

Remember(r, t, v) == [r EXCEPT !.memo = [s \in DOMAIN @ \cup {t} |-> IF s = t THEN v ELSE @[s]]]

(* _embed_with_reuse for one source: from this run's own results, from the *)
(* index, or from the provider, which may fail.                            *)
Embed(i, p) ==
    LET r == run[i]
        t == TextOf(r, p)
        done(s) == IF r.todo = {p} THEN ToRequeue(s) ELSE [s EXCEPT !.todo = @ \ {p}]
    IN /\ r.at = "embed" /\ IsNext(r, p)
       /\ IF t \in DOMAIN r.memo THEN Advance(i, done(r)) /\ NoFault
          ELSE IF Reusable(Target(i), r, t) # {}
          THEN NoFault /\ \E v \in Reusable(Target(i), r, t) : Advance(i, done(Remember(r, t, v)))
          ELSE \/ NoFault /\ Advance(i, done(Remember(r, t, [text |-> t, cfg |-> r.cfg])))
               \/ Fault /\ Advance(i, done(Remember(r, t, None)))
       /\ UNCHANGED <<db, temp>>

Requeue(i) ==
    /\ run[i].at = "requeue"
    /\ Write(i, Requeued(Target(i), run[i]))
    /\ Advance(i, [run[i] EXCEPT !.at = "pending"])
    /\ NoFault

(* pending_chunks, and the retry of those whose source is unchanged.       *)
RetryPending(i) ==
    LET r == run[i]
        upd == PendingOf(Target(i), r)
        texts == {u[2] : u \in upd} \ DOMAIN r.memo
        memo(lost) == [t \in DOMAIN r.memo \cup texts |->
                          IF t \in DOMAIN r.memo THEN r.memo[t]
                          ELSE IF t \in lost THEN None ELSE [text |-> t, cfg |-> r.cfg]]
    IN /\ r.at = "pending"
       /\ \E lost \in SUBSET texts :
             /\ IF lost = {} THEN NoFault ELSE Fault
             /\ Advance(i, ToSuppress([r EXCEPT !.upd = upd, !.memo = memo(lost)]))
       /\ UNCHANGED <<db, temp>>

(* A transaction that raised StorageError: an incremental run records it   *)
(* and goes on, a rebuild gives up.  "manifest": the vault keeps its       *)
(* previous fingerprints because of it.                                    *)
Recorded(r, manifest) ==
    [r EXCEPT !.failed = TRUE, !.failedManifest = @ \/ (manifest /\ r.promote)]
GiveUp(i, r) ==      \* r: what an incremental run goes on with
    /\ Advance(i, IF r.rebuild THEN Idle ELSE r)
    /\ temp' = [temp EXCEPT ![i] = EmptyDb] /\ UNCHANGED db

Suppress(i, p) ==
    LET r == run[i]
        done(s) == IF r.todo = {p} THEN ToReplace(s) ELSE [s EXCEPT !.todo = @ \ {p}]
    IN /\ r.at = "suppress" /\ IsNext(r, p)
       /\ \/ /\ Write(i, SuppressedBy(Target(i), r, p))
             /\ Advance(i, done(r)) /\ NoFault
          \/ GiveUp(i, done(Recorded(r, TRUE))) /\ Fault

Replace(i, p) ==
    LET r == run[i]
        done(s) == IF r.todo = {p} THEN ToUpdate(s) ELSE [s EXCEPT !.todo = @ \ {p}]
    IN /\ r.at = "replace" /\ IsNext(r, p)
       /\ \/ /\ ReplaceAccepted(Target(i), r, p)
             /\ Write(i, ReplacedBy(Target(i), r, p))
             /\ Advance(i, done(r)) /\ NoFault
          \/ ~ReplaceAccepted(Target(i), r, p) /\ GiveUp(i, done(Recorded(r, TRUE))) /\ NoFault
          \/ GiveUp(i, done(Recorded(r, TRUE))) /\ Fault

UpdatePending(i) ==
    LET r == run[i]
    IN /\ r.at = "update"
       /\ \/ /\ UpdateAccepted(Target(i), r)
             /\ Write(i, UpdatedBy(Target(i), r))
             /\ Advance(i, ToFinalize(r)) /\ NoFault
          \/ ~UpdateAccepted(Target(i), r) /\ GiveUp(i, ToFinalize(Recorded(r, FALSE))) /\ NoFault
          \/ GiveUp(i, ToFinalize(Recorded(r, FALSE))) /\ Fault

(* The transaction that ends an incremental run.                           *)
Finalize(i) ==
    /\ run[i].at = "finalize"
    /\ Write(i, FinalizedBy(Target(i), run[i]))
    /\ Advance(i, IF run[i].rebuild THEN [run[i] EXCEPT !.at = "publish"] ELSE Idle)
    /\ NoFault

(* os.replace: the copy becomes the index.                                 *)
Publish(i) ==
    /\ run[i].at = "publish"
    /\ db' = temp[i]
    /\ temp' = [temp EXCEPT ![i] = EmptyDb]
    /\ Advance(i, Idle) /\ NoFault

(* The process dies, or an operation whose failure ends the run fails.     *)
Stop(i) ==
    /\ run[i].at # "idle"
    /\ temp' = [temp EXCEPT ![i] = EmptyDb]
    /\ Advance(i, Idle) /\ Fault /\ UNCHANGED db

Step(i) ==
    \/ Plan(i) \/ Requeue(i) \/ RetryPending(i)
    \/ UpdatePending(i) \/ Finalize(i) \/ Publish(i)
    \/ \E p \in Paths : Embed(i, p) \/ Suppress(i, p) \/ Replace(i, p)

Next ==
    \/ \E p \in Paths : EditFile(p) \/ \E q \in Paths : RenameFile(p, q)
    \/ Configure
    \/ \E i \in Procs : Begin(i) \/ BeginRebuild(i) \/ Step(i) \/ Stop(i)

Spec == Init /\ [][Next]_vars

(* A run that has begun goes on.  Nothing makes another one begin: while   *)
(* the ref rests the service starts none, whatever is pending and whatever *)
(* the configuration has become.                                           *)
Fairness == \A i \in Procs : WF_vars(Step(i))
FairSpec == Spec /\ Fairness

(***************************************************************************)
(* Properties.                                                             *)
(***************************************************************************)
(* The tables hold what schema.py lets them hold, runs are where their     *)
(* loops put them.                                                         *)
TypeOK ==
    /\ disk \in [Paths -> Contents \cup {None}]
    /\ conf \in [m : Manifests, cfg : Configs, semantic : BOOLEAN]
    /\ db \in Databases /\ temp \in [Procs -> Databases]
    /\ \A i \in Procs : /\ run[i].at \in Places
                        /\ run[i].todo \subseteq Prepared(run[i]) \cup ParseFailures(run[i])
    /\ mixed \in BOOLEAN /\ edits \in 0..MaxEdits /\ faults \in 0..MaxFaults

(* The state column of a chunk and the two tables beside it agree after    *)
(* every transaction of every run, so that a chunk that waits for its      *)
(* embedding is always found again and none is both ready and queued.      *)
TablesAgree ==
    \A d \in {db} \cup {temp[i] : i \in Procs} : \A p \in Paths :
        /\ d.chunk[p].state = "ready" <=> d.vec[p] # None
        /\ d.chunk[p].state = "pending" <=> p \in d.queue
        /\ Active(d, p) <=> d.chunk[p] # NoChunk

(* A stored vector was computed from the text its chunk holds now, under   *)
(* the configuration of that chunk: a retry that answers after another run *)
(* has replaced the source is refused, and reuse copies nothing foreign.   *)
VectorOfItsText ==
    \A p \in Paths : db.vec[p] # None =>
        /\ db.vec[p].text = db.chunk[p].text
        /\ mixed \/ db.vec[p].cfg = db.chunk[p].cfg

(* The label is a promise about every source: once it names the manifest   *)
(* and the configuration in force, no source is left that was parsed or    *)
(* embedded under another, whatever failed or crashed on the way.  The one *)
(* fingerprint per vault cannot keep this promise in the two histories of  *)
(* "mixed": overlapping runs that read different configurations, and a     *)
(* manifest taken back while its successor was half applied.               *)
LabelHonest ==
    ~mixed /\ db.label = NewLabel(conf) => Coherent(db)

(* A run that had the index to itself, saw no edit and stored all it meant *)
(* to store leaves exactly what the files, the manifest and the policy ask *)
(* for, whatever index it started from.                                    *)
Ended(i) == run[i].at \in {"finalize", "publish"} /\ run'[i].at = "idle" /\ faults' = faults

CleanRunConverges ==
    [][\A i \in Procs : Ended(i) /\ run[i].undisturbed /\ ~run[i].failed => Current(db')]_vars

(* A rebuild that does not reach its rename leaves the index untouched.    *)
RebuildAllOrNothing ==
    [][\A i \in Procs : run[i].rebuild /\ run'[i] # run[i] /\ db' # db =>
          run[i].at = "publish" /\ db'.label = [m |-> run[i].m, cfg |-> run[i].cfg]]_vars

(* A vault that is indexed again and again, by its users, for a commit or  *)
(* for a request to the service, becomes current after the last edit and   *)
(* the last failure, and every chunk gets its vector, however often runs   *)
(* were interrupted: unless the label has been misled ("mixed") or two     *)
(* files collide.  After a change of configuration only a rebuild can      *)
(* begin, so the runs of the premise are then rebuilds.                    *)
IndexedAgain == \A i \in Procs : []<><<Begin(i) \/ BeginRebuild(i)>>_vars
EventuallyCurrent ==
    IndexedAgain => <>[](mixed \/ Colliding \/ (Current(db) /\ db.queue = {}))
=============================================================================
