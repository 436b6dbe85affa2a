-------------------------- MODULE VaultIndex_proofs --------------------------
(***************************************************************************)
(* Proofs about VaultIndex, for any number of indexers, files, manifests   *)
(* and configurations: the tables of the index agree, a stored vector is   *)
(* that of its text, the label tells the truth, a rebuild changes nothing  *)
(* but by its rename, and a clean run leaves the index current.            *)
(* tlapm VaultIndex_proofs.tla checks them.                                *)
(***************************************************************************)
EXTENDS VaultIndex, TLAPS

(***************************************************************************)
(* The inductive invariant.                                                *)
(***************************************************************************)
Memos == UNION {[T -> Vector \cup {None}] : T \in SUBSET ChunkText}

Runs ==
    [at : Places, rebuild : BOOLEAN, m : Manifests \cup {None}, cfg : Configs \cup {None},
     semantic : BOOLEAN, promote : BOOLEAN, prev : Label \cup {None},
     files : [Paths -> Contents \cup {None}], old : [Paths -> Contents \cup {None}],
     todo : SUBSET Paths, memo : Memos, upd : SUBSET (Paths \X ChunkText),
     failed : BOOLEAN, failedManifest : BOOLEAN, undisturbed : BOOLEAN]

IndexTypeOK ==
    /\ disk \in [Paths -> Contents \cup {None}]
    /\ conf \in [m : Manifests, cfg : Configs, semantic : BOOLEAN]
    /\ db \in Databases /\ temp \in [Procs -> Databases]
    /\ run \in [Procs -> Runs]
    /\ mixed \in BOOLEAN

(* What a run knows fits together: it walks over what it has planned, its  *)
(* vectors are those of their texts under its configuration, and only an   *)
(* incremental run over an index of another manifest promotes.             *)
RunOK(r) ==
    /\ r.at # "idle" => r.m \in Manifests /\ r.cfg \in Configs
    /\ r.at \in {"embed", "replace"} => r.todo \subseteq Prepared(r)
    /\ r.at = "suppress" => r.todo \subseteq ParseFailures(r)
    /\ \A t \in DOMAIN r.memo : r.memo[t] # None => r.memo[t] = [text |-> t, cfg |-> r.cfg]
    /\ \A u \in r.upd : u[2] \in DOMAIN r.memo
    /\ r.promote => ~ r.rebuild /\ r.prev # None /\ r.prev.m # r.m /\ r.prev.cfg = r.cfg
    /\ r.failedManifest => r.promote

RunsOK == \A i \in Procs : RunOK(run[i])

(* The tables agree about a path, and its vector is that of its text.      *)
PathOK(d, p) ==
    /\ d.chunk[p].state = "ready" <=> d.vec[p] # None
    /\ d.chunk[p].state = "pending" <=> p \in d.queue
    /\ Active(d, p) <=> d.chunk[p] # NoChunk
    /\ d.vec[p] # None =>
          /\ d.vec[p].text = d.chunk[p].text
          /\ mixed \/ d.vec[p].cfg = d.chunk[p].cfg

DbOK(d) == \A p \in Paths : PathOK(d, p)
DbsOK == DbOK(db) /\ \A i \in Procs : DbOK(temp[i])

(* Every source was parsed with manifest m; and was chunked under g.       *)
AllParsedWith(d, m) == \A p \in Paths : Active(d, p) => d.chunk[p].text[2] = m
AllChunkedUnder(d, g) == \A p \in Paths : Active(d, p) => d.chunk[p].cfg = g

(* The copy of a rebuild is of its manifest and configuration throughout.  *)
CopyOK(i) ==
    run[i].rebuild /\ run[i].at # "idle" =>
        /\ AllParsedWith(temp[i], run[i].m) /\ AllChunkedUnder(temp[i], run[i].cfg)
        /\ temp[i].label # None => temp[i].label = NewLabel(run[i])
        /\ run[i].at = "publish" => temp[i].label = NewLabel(run[i])

CopiesOK == \A i \in Procs : CopyOK(i) /\ (run[i].at = "publish" => run[i].rebuild)

(* While overlapping runs have read the same settings, the configuration   *)
(* of the index is that of its label and of the runs that write to it.     *)
SameSettings ==
    \A i, j \in Running : run[i].m = run[j].m /\ run[i].cfg = run[j].cfg

OneConfiguration ==
    /\ \A p \in Paths : Active(db, p) => db.label # None
    /\ db.label # None => AllChunkedUnder(db, db.label.cfg)
    /\ db.label # None => \A i \in Running : ~ run[i].rebuild => db.label.cfg = run[i].cfg

(* What a promoting run has still to parse again, if nothing failed.       *)
Waiting(r) ==
    Deletions(r) \cup
        (IF r.at \in {"embed", "requeue", "pending"} THEN ParseFailures(r) \cup Prepared(r)
         ELSE IF r.at = "suppress" THEN r.todo \cup Prepared(r)
         ELSE IF r.at = "replace" THEN r.todo
         ELSE {})

Promoting(r) ==
    r.promote /\ ~ r.failedManifest /\ r.at # "plan" =>
        \A p \in Paths : Active(db, p) /\ db.chunk[p].text[2] # r.m => p \in Waiting(r)

(* The label and the manifests of the runs.                                *)
LabelKept ==
    /\ db.label # None /\ db.label.m = conf.m => AllParsedWith(db, conf.m)
    /\ \A i \in Running :
          /\ run[i].m # conf.m =>
                /\ db.label # None => db.label.m # conf.m
                /\ run[i].prev # None => run[i].prev.m # conf.m
          /\ ~ run[i].rebuild /\ ~ run[i].promote => AllParsedWith(db, run[i].m)
          /\ Promoting(run[i])

Unmixed == ~ mixed => SameSettings /\ OneConfiguration /\ LabelKept

IndexInv == IndexTypeOK /\ RunsOK /\ DbsOK /\ CopiesOK /\ Unmixed

(***************************************************************************)
(* The tables.                                                             *)
(***************************************************************************)
Rows == [hash : Contents, active : BOOLEAN]
Chunks == [text : ChunkText, cfg : Configs, state : {"ready", "pending", "disabled"}]

LEMMA NoneApart ==
    /\ None \notin Contents /\ None \notin Manifests /\ None \notin Configs
    /\ None \notin Vector /\ None \notin Label
    /\ None # "ready" /\ None # "pending" /\ None # "disabled"
    /\ NoRow \notin Rows /\ ~ NoRow.active
    /\ NoChunk \notin Chunks /\ NoChunk.state = None
BY IndexAssumption, NoneAssumption DEF IndexAssumption, NoneAssumption, NoRow, NoChunk, Rows, Chunks

LEMMA DatabasesDef ==
    Databases = [row : [Paths -> Rows \cup {NoRow}], chunk : [Paths -> Chunks \cup {NoChunk}],
                 vec : [Paths -> Vector \cup {None}], queue : SUBSET Paths,
                 label : Label \cup {None}]
BY DEF Databases, Rows, Chunks

LEMMA EmptyDbType == EmptyDb \in Databases
BY DatabasesDef DEF EmptyDb

(* A database stays one when a table is given a value of its type.         *)
LEMMA TableSet ==
    ASSUME NEW d \in Databases
    PROVE  /\ \A x \in [Paths -> Rows \cup {NoRow}] : [d EXCEPT !.row = x] \in Databases
           /\ \A x \in [Paths -> Chunks \cup {NoChunk}] : [d EXCEPT !.chunk = x] \in Databases
           /\ \A x \in [Paths -> Vector \cup {None}] : [d EXCEPT !.vec = x] \in Databases
           /\ \A x \in SUBSET Paths : [d EXCEPT !.queue = x] \in Databases
           /\ \A x \in Label \cup {None} : [d EXCEPT !.label = x] \in Databases
<1>1. \A x \in [Paths -> Rows \cup {NoRow}] : [d EXCEPT !.row = x] \in Databases
  BY DatabasesDef
<1>2. \A x \in [Paths -> Chunks \cup {NoChunk}] : [d EXCEPT !.chunk = x] \in Databases
  BY DatabasesDef
<1>3. \A x \in [Paths -> Vector \cup {None}] : [d EXCEPT !.vec = x] \in Databases
  BY DatabasesDef
<1>4. \A x \in SUBSET Paths : [d EXCEPT !.queue = x] \in Databases
  BY DatabasesDef
<1>5. \A x \in Label \cup {None} : [d EXCEPT !.label = x] \in Databases
  BY DatabasesDef
<1> QED  BY <1>1, <1>2, <1>3, <1>4, <1>5

(* In e a path is as it is in d, or nothing is left of it but its row.     *)
Same(d, e, q) ==
    /\ e.row[q] = d.row[q] /\ e.chunk[q] = d.chunk[q] /\ e.vec[q] = d.vec[q]
    /\ q \in e.queue <=> q \in d.queue
Bare(e, q) == e.chunk[q] = NoChunk /\ e.vec[q] = None /\ q \notin e.queue

LEMMA WithoutChunksLemma ==
    ASSUME NEW d \in Databases, NEW P \in SUBSET Paths
    PROVE  /\ WithoutChunks(d, P) \in Databases
           /\ WithoutChunks(d, P).row = d.row /\ WithoutChunks(d, P).label = d.label
           /\ \A q \in P : Bare(WithoutChunks(d, P), q)
           /\ \A q \in Paths \ P : Same(d, WithoutChunks(d, P), q)
<1> DEFINE chunk == [p \in Paths |-> IF p \in P THEN NoChunk ELSE d.chunk[p]]
           vec == [p \in Paths |-> IF p \in P THEN None ELSE d.vec[p]]
           queue == d.queue \ P
           e == [d EXCEPT !.chunk = chunk, !.vec = vec, !.queue = queue]
<1>1. WithoutChunks(d, P) = e
  BY DEF WithoutChunks
<1>2. /\ chunk \in [Paths -> Chunks \cup {NoChunk}]
      /\ vec \in [Paths -> Vector \cup {None}] /\ queue \in SUBSET Paths
  BY DatabasesDef
<1>3. /\ \A q \in P : chunk[q] = NoChunk /\ vec[q] = None /\ q \notin queue
      /\ \A q \in Paths \ P : chunk[q] = d.chunk[q] /\ vec[q] = d.vec[q]
                              /\ (q \in queue <=> q \in d.queue)
  OBVIOUS
<1> HIDE DEF chunk, vec, queue
<1>4. e \in Databases
  BY <1>2, TableSet, Zenon
<1>5. /\ e.row = d.row /\ e.label = d.label
      /\ e.chunk = chunk /\ e.vec = vec /\ e.queue = queue
  BY DatabasesDef
<1> HIDE DEF e
<1> QED  BY <1>1, <1>3, <1>4, <1>5 DEF Bare, Same

LEMMA WithoutSourcesLemma ==
    ASSUME NEW d \in Databases, NEW P \in SUBSET Paths
    PROVE  /\ WithoutSources(d, P) \in Databases
           /\ WithoutSources(d, P).label = d.label
           /\ \A q \in P : Bare(WithoutSources(d, P), q) /\ WithoutSources(d, P).row[q] = NoRow
           /\ \A q \in Paths \ P : Same(d, WithoutSources(d, P), q)
<1> DEFINE c == WithoutChunks(d, P)
           row == [p \in Paths |-> IF p \in P THEN NoRow ELSE c.row[p]]
           e == [c EXCEPT !.row = row]
<1>1. WithoutSources(d, P) = e
  BY DEF WithoutSources
<1>2. /\ c \in Databases /\ c.row = d.row /\ c.label = d.label
      /\ \A q \in P : Bare(c, q)
      /\ \A q \in Paths \ P : Same(d, c, q)
  BY WithoutChunksLemma
<1> HIDE DEF c
<1>3. row \in [Paths -> Rows \cup {NoRow}]
  BY <1>2, DatabasesDef
<1>4. (\A q \in P : row[q] = NoRow) /\ \A q \in Paths \ P : row[q] = c.row[q]
  OBVIOUS
<1> HIDE DEF row
<1>5. e \in Databases
  BY <1>2, <1>3, TableSet, Zenon
<1>6. e.row = row /\ e.label = c.label /\ e.chunk = c.chunk /\ e.vec = c.vec
      /\ e.queue = c.queue
  BY <1>2, DatabasesDef
<1> HIDE DEF e
<1> QED  BY <1>1, <1>2, <1>4, <1>5, <1>6 DEF Bare, Same

(***************************************************************************)
(* The transactions, path by path.                                         *)
(***************************************************************************)

(* What is left untouched, or cleared away, is as it should be; and a path *)
(* whose chunk keeps its text and configuration is held from d.            *)
Emptied(e, q) == Bare(e, q) /\ ~ Active(e, q)
Held(d, e, q) ==
    /\ Active(d, q)
    /\ e.chunk[q].text = d.chunk[q].text /\ e.chunk[q].cfg = d.chunk[q].cfg

LEMMA LeftOK ==
    ASSUME NEW d, NEW e, NEW q, Same(d, e, q) \/ Emptied(e, q)
    PROVE  /\ PathOK(d, q) => PathOK(e, q)
           /\ Active(e, q) => Held(d, e, q)
<1>1. CASE Same(d, e, q)
  BY <1>1 DEF Same, PathOK, Held, Active
<1>2. CASE Emptied(e, q)
  BY <1>2, NoneApart DEF Emptied, Bare, PathOK
<1> QED  BY <1>1, <1>2

(* What a run prepares has a text, and what fails to parse has none.       *)
LEMMA PlanType ==
    ASSUME NEW r \in Runs
    PROVE  /\ Prepared(r) \in SUBSET Paths /\ ParseFailures(r) \in SUBSET Paths
           /\ Deletions(r) \in SUBSET Paths /\ Unchanged(r) \in SUBSET Paths
           /\ \A p \in Prepared(r) : r.files[p] \in Contents \ Unparsable
           /\ \A p \in ParseFailures(r) : r.files[p] \in Contents
BY IndexAssumption DEF IndexAssumption, Runs, Prepared, ParseFailures, Additions, Changes,
      Deletions, Unchanged, Known, SameBytes, Promotions

LEMMA MemoType ==
    ASSUME NEW r \in Runs
    PROVE  DOMAIN r.memo \in SUBSET ChunkText
           /\ \A t \in DOMAIN r.memo : r.memo[t] \in Vector \cup {None}
<1>1. r.memo \in Memos
  BY DEF Runs
<1>2. PICK T \in SUBSET ChunkText : r.memo \in [T -> Vector \cup {None}]
  BY <1>1 DEF Memos
<1> QED  BY <1>2

(* replace_source: its own path is parsed, chunked and embedded anew, the  *)
(* paths it replaces are gone.                                             *)
LEMMA ReplacedLemma ==
    ASSUME NEW d \in Databases, NEW r \in Runs, RunOK(r), r.at # "idle",
           NEW p \in Prepared(r)
    PROVE  LET e == ReplacedBy(d, r, p) IN
           /\ e \in Databases
           /\ e.label = IF r.promote THEN d.label ELSE NewLabel(r)
           /\ PathOK(e, p) /\ e.chunk[p].text[2] = r.m /\ e.chunk[p].cfg = r.cfg
           /\ e.row[p] = [hash |-> r.files[p], active |-> TRUE] /\ e.chunk[p].text = TextOf(r, p)
           /\ TextOf(r, p) \in DOMAIN r.memo => e.chunk[p].state # "disabled"
           /\ \A q \in Paths \ {p} :
                 \/ Same(d, e, q)
                 \/ Emptied(e, q) /\ e.row[q] = NoRow /\ q \in Deletions(r)
<1> DEFINE t == TextOf(r, p)
           v == IF t \in DOMAIN r.memo THEN r.memo[t] ELSE None
           state == IF t \notin DOMAIN r.memo THEN "disabled"
                    ELSE IF v = None THEN "pending" ELSE "ready"
           R == Replacing(r, p)
           c == WithoutSources(d, R)
           b == WithoutChunks(c, {p})
           row == [hash |-> r.files[p], active |-> TRUE]
           chunk == [text |-> t, cfg |-> r.cfg, state |-> state]
           queue == IF state = "pending" THEN b.queue \cup {p} ELSE b.queue
           label == IF r.promote THEN b.label ELSE [m |-> r.m, cfg |-> r.cfg]
           rows == [b.row EXCEPT ![p] = row]
           chunks == [b.chunk EXCEPT ![p] = chunk]
           vecs == [b.vec EXCEPT ![p] = v]
           e == [b EXCEPT !.row = rows, !.chunk = chunks, !.vec = vecs, !.queue = queue,
                          !.label = label]
<1>1. /\ p \in Paths /\ R \in SUBSET Paths /\ {p} \in SUBSET Paths
      /\ R \subseteq Deletions(r)
  BY PlanType DEF Replacing
<1>2. /\ c \in Databases /\ c.label = d.label
      /\ \A q \in R : Bare(c, q) /\ c.row[q] = NoRow
      /\ \A q \in Paths \ R : Same(d, c, q)
  BY <1>1, WithoutSourcesLemma
<1> HIDE DEF c, R
<1>3. /\ b \in Databases /\ b.row = c.row /\ b.label = c.label /\ Bare(b, p)
      /\ \A q \in Paths \ {p} : Same(c, b, q)
  BY <1>1, <1>2, WithoutChunksLemma
<1> HIDE DEF b
<1>4. t \in ChunkText /\ t[2] = r.m
  BY PlanType DEF RunOK, TextOf, ChunkText
<1>5. v \in Vector \cup {None} /\ (v # None => v = [text |-> t, cfg |-> r.cfg])
  BY MemoType DEF RunOK
<1>6. /\ state \in {"ready", "pending", "disabled"}
      /\ state = "ready" <=> v # None
      /\ t \in DOMAIN r.memo => state # "disabled"
  BY <1>5
<1>7. ReplacedBy(d, r, p) = [b EXCEPT !.row[p] = row, !.chunk[p] = chunk, !.vec[p] = v,
                                      !.queue = queue, !.label = label]
  BY DEF ReplacedBy, Cleared, b, c, R
<1> HIDE DEF t, v, state
<1>17. row = [hash |-> r.files[p], active |-> TRUE] /\ chunk.text = t /\ chunk.state = state
  OBVIOUS
<1>8. row \in Rows /\ chunk \in Chunks /\ label \in Label \cup {None}
  BY <1>3, <1>4, <1>6, PlanType, DatabasesDef DEF Rows, Chunks, RunOK, Label
<1>9. /\ rows \in [Paths -> Rows \cup {NoRow}] /\ chunks \in [Paths -> Chunks \cup {NoChunk}]
      /\ vecs \in [Paths -> Vector \cup {None}] /\ queue \in SUBSET Paths
  BY <1>1, <1>3, <1>5, <1>8, DatabasesDef
<1>10. ReplacedBy(d, r, p) = e
  BY <1>7
<1>11. /\ rows[p] = row /\ chunks[p] = chunk /\ vecs[p] = v
       /\ p \in queue <=> state = "pending"
       /\ \A q \in Paths \ {p} : rows[q] = b.row[q] /\ chunks[q] = b.chunk[q]
                                   /\ vecs[q] = b.vec[q] /\ (q \in queue <=> q \in b.queue)
  BY <1>1, <1>3, DatabasesDef DEF Bare
<1>12. label = IF r.promote THEN d.label ELSE NewLabel(r)
  BY <1>2, <1>3 DEF NewLabel
<1> HIDE DEF rows, chunks, vecs, queue, label
<1>13. e \in Databases
  BY <1>3, <1>8, <1>9, TableSet, Zenon
<1>14. e.row = rows /\ e.chunk = chunks /\ e.vec = vecs /\ e.queue = queue /\ e.label = label
  BY <1>3, DatabasesDef
<1> HIDE DEF e
<1>15. PathOK(e, p)
  BY <1>5, <1>6, <1>8, <1>11, <1>14, NoneApart DEF PathOK, Active
<1>16. ASSUME NEW q \in Paths \ {p}
       PROVE  Same(d, e, q) \/ (Emptied(e, q) /\ e.row[q] = NoRow /\ q \in Deletions(r))
  <2>1. Same(c, e, q)
    BY <1>3, <1>11, <1>14 DEF Same
  <2>2. CASE q \in R
    BY <1>1, <1>2, <2>1, <2>2, NoneApart DEF Same, Bare, Emptied, Active
  <2>3. CASE q \notin R
    BY <1>2, <2>1, <2>3 DEF Same
  <2> QED  BY <2>2, <2>3
<1>18. e.row[p] = row /\ e.chunk[p] = chunk
  BY <1>11, <1>14
<1>19. t = TextOf(r, p)
  BY DEF t
<1> HIDE DEF row, chunk
<1>20. e.chunk[p].text[2] = r.m /\ e.chunk[p].cfg = r.cfg
  BY <1>4, <1>18 DEF chunk
<1>21. /\ e.row[p] = [hash |-> r.files[p], active |-> TRUE] /\ e.chunk[p].text = TextOf(r, p)
       /\ TextOf(r, p) \in DOMAIN r.memo => e.chunk[p].state # "disabled"
  BY <1>6, <1>17, <1>18, <1>19
<1> QED  BY <1>10, <1>12, <1>13, <1>14, <1>15, <1>16, <1>20, <1>21

(* suppress_source: no chunk of the source is left.                        *)
LEMMA SuppressedLemma ==
    ASSUME NEW d \in Databases, NEW r \in Runs, NEW p \in ParseFailures(r), DbOK(d)
    PROVE  LET e == SuppressedBy(d, r, p) IN
           /\ e \in Databases /\ e.label = d.label /\ DbOK(e)
           /\ \A q \in Paths : Active(e, q) => q # p /\ Held(d, e, q)
           /\ \A q \in Paths \ {p} : Same(d, e, q)
           /\ e.row[p] \in {NoRow, [hash |-> r.files[p], active |-> FALSE]}
<1>0. p \in Paths /\ {p} \in SUBSET Paths
  BY PlanType
<1>1. CASE ~ Stored(d, p)
  <2>1. SuppressedBy(d, r, p) = d
    BY <1>1 DEF SuppressedBy
  <2>2. ~ Active(d, p)
    BY <1>1, NoneApart DEF Stored, Active
  <2> QED  BY <1>1, <2>1, <2>2 DEF Held, Same, Stored
<1>2. CASE Stored(d, p)
  <2> DEFINE c == WithoutChunks(d, {p})
             row == [hash |-> r.files[p], active |-> FALSE]
             rows == [c.row EXCEPT ![p] = row]
             e == [c EXCEPT !.row = rows]
  <2>1. SuppressedBy(d, r, p) = e
    BY <1>2 DEF SuppressedBy
  <2>2. /\ c \in Databases /\ c.row = d.row /\ c.label = d.label /\ Bare(c, p)
        /\ \A q \in Paths \ {p} : Same(d, c, q)
    BY <1>0, WithoutChunksLemma
  <2> HIDE DEF c
  <2>3. rows \in [Paths -> Rows \cup {NoRow}]
    BY <1>0, <2>2, PlanType, DatabasesDef DEF Rows
  <2>4. rows[p] = row /\ \A q \in Paths \ {p} : rows[q] = c.row[q]
    BY <1>0, <2>2, DatabasesDef
  <2> HIDE DEF rows
  <2>5. e \in Databases
    BY <2>2, <2>3, TableSet, Zenon
  <2>6. e.row = rows /\ e.chunk = c.chunk /\ e.vec = c.vec /\ e.queue = c.queue
        /\ e.label = c.label
    BY <2>2, DatabasesDef
  <2> HIDE DEF e
  <2>7. Emptied(e, p)
    BY <2>2, <2>4, <2>6 DEF Emptied, Bare, Active
  <2>8. \A q \in Paths \ {p} : Same(d, e, q)
    BY <2>2, <2>4, <2>6 DEF Same
  <2>9. DbOK(e)
    BY <2>7, <2>8, LeftOK DEF DbOK
  <2>10. \A q \in Paths : Active(e, q) => q # p /\ Held(d, e, q)
    BY <2>7, <2>8, LeftOK DEF Emptied
  <2> QED  BY <2>1, <2>2, <2>4, <2>5, <2>6, <2>8, <2>9, <2>10
<1> QED  BY <1>1, <1>2

(* A chunk whose state is changed, with what goes with it.                 *)
LEMMA StateSet ==
    ASSUME NEW c \in Chunks, NEW x \in {"ready", "pending", "disabled"}
    PROVE  /\ [c EXCEPT !.state = x] \in Chunks
           /\ [c EXCEPT !.state = x].state = x
           /\ [c EXCEPT !.state = x].text = c.text /\ [c EXCEPT !.state = x].cfg = c.cfg
BY DEF Chunks

(* requeue_disabled_chunks: disabled chunks become pending, and queued.    *)
LEMMA RequeuedLemma ==
    ASSUME NEW d \in Databases, NEW r \in Runs, DbOK(d)
    PROVE  LET e == Requeued(d, r) IN
           /\ e \in Databases /\ e.label = d.label /\ DbOK(e)
           /\ \A q \in Paths : Active(e, q) => Held(d, e, q)
           /\ e.row = d.row
           /\ \A q \in Unchanged(r) : Active(e, q) => e.chunk[q].state # "disabled"
<1> DEFINE P == {p \in Unchanged(r) : Active(d, p) /\ d.chunk[p].state = "disabled"}
           chunk == [p \in Paths |-> IF p \in P THEN [d.chunk[p] EXCEPT !.state = "pending"]
                                     ELSE d.chunk[p]]
           vec == [p \in Paths |-> IF p \in P THEN None ELSE d.vec[p]]
           queue == d.queue \cup P
           e == [d EXCEPT !.chunk = chunk, !.vec = vec, !.queue = queue]
<1>1. Requeued(d, r) = e
  BY DEF Requeued
<1>2. P \in SUBSET Paths
  BY PlanType
<1>3. \A p \in P : d.chunk[p] \in Chunks /\ Active(d, p)
  BY <1>2, DatabasesDef DEF DbOK, PathOK
<1>13. \A q \in Unchanged(r) \ P : q \in Paths /\ (Active(d, q) => d.chunk[q].state # "disabled")
  BY PlanType
<1> HIDE DEF P
<1>4. /\ \A p \in P : /\ chunk[p] \in Chunks /\ chunk[p].state = "pending"
                       /\ chunk[p].text = d.chunk[p].text /\ chunk[p].cfg = d.chunk[p].cfg
                       /\ vec[p] = None /\ p \in queue
      /\ \A q \in Paths \ P : chunk[q] = d.chunk[q] /\ vec[q] = d.vec[q]
                              /\ (q \in queue <=> q \in d.queue)
  BY <1>2, <1>3, StateSet
<1>5. chunk \in [Paths -> Chunks \cup {NoChunk}]
  <2>1. \A p \in Paths : chunk[p] \in Chunks \cup {NoChunk}
    BY <1>4, DatabasesDef
  <2>2. chunk = [p \in Paths |-> chunk[p]]
    OBVIOUS
  <2> HIDE DEF chunk
  <2> QED  BY <2>1, <2>2
<1>6. vec \in [Paths -> Vector \cup {None}] /\ queue \in SUBSET Paths
  BY <1>2, DatabasesDef
<1> HIDE DEF chunk, vec, queue
<1>7. e \in Databases
  BY <1>5, <1>6, TableSet, Zenon
<1>8. e.row = d.row /\ e.chunk = chunk /\ e.vec = vec /\ e.queue = queue /\ e.label = d.label
  BY DatabasesDef
<1> HIDE DEF e
<1>9. \A q \in Paths \ P : Same(d, e, q)
  BY <1>4, <1>8 DEF Same
<1>10. \A p \in P : PathOK(e, p) /\ Held(d, e, p)
  BY <1>3, <1>4, <1>8, NoneApart DEF PathOK, Held, Active
<1>11. DbOK(e)
  BY <1>9, <1>10, LeftOK DEF DbOK
<1>12. \A q \in Paths : Active(e, q) => Held(d, e, q)
  BY <1>9, <1>10, LeftOK
<1>14. \A q \in Unchanged(r) : Active(e, q) => e.chunk[q].state # "disabled"
  BY <1>4, <1>8, <1>13 DEF Active
<1> QED  BY <1>1, <1>7, <1>8, <1>11, <1>12, <1>14

(* update_pending_embeddings: each vector belongs to the text its chunk    *)
(* still has.                                                              *)
LEMMA UpdatedLemma ==
    ASSUME NEW d \in Databases, NEW r \in Runs, DbOK(d), RunOK(r), UpdateAccepted(d, r),
           mixed \/ \A p \in Paths : Active(d, p) => d.chunk[p].cfg = r.cfg
    PROVE  LET e == UpdatedBy(d, r) IN
           /\ e \in Databases /\ e.label = d.label /\ DbOK(e)
           /\ \A q \in Paths : Active(e, q) => Held(d, e, q)
           /\ e.row = d.row
           /\ \A q \in Paths : e.chunk[q].state \in {d.chunk[q].state, "ready"}
<1> DEFINE done == {u \in r.upd : r.memo[u[2]] # None}
           P == {u[1] : u \in done}
           new(p) == r.memo[(CHOOSE u \in done : u[1] = p)[2]]
           chunk == [p \in Paths |-> IF p \in P THEN [d.chunk[p] EXCEPT !.state = "ready"]
                                     ELSE d.chunk[p]]
           vec == [p \in Paths |-> IF p \in P THEN new(p) ELSE d.vec[p]]
           queue == d.queue \ P
           e == [d EXCEPT !.chunk = chunk, !.vec = vec, !.queue = queue]
<1>1. UpdatedBy(d, r) = e
  BY DEF UpdatedBy, Dequeued
<1>2. \A u \in done : /\ u[1] \in Paths /\ u[2] \in DOMAIN r.memo /\ r.memo[u[2]] \in Vector
                      /\ r.memo[u[2]] = [text |-> u[2], cfg |-> r.cfg]
                      /\ StillPending(d, u[1], u[2])
  BY MemoType DEF Runs, RunOK, UpdateAccepted
<1>3. ASSUME NEW p \in P
      PROVE  /\ p \in Paths /\ Active(d, p) /\ d.chunk[p] \in Chunks
             /\ new(p) \in Vector /\ new(p) = [text |-> d.chunk[p].text, cfg |-> r.cfg]
  <2> DEFINE u == CHOOSE w \in done : w[1] = p
  <2>1. u \in done /\ u[1] = p
    BY <1>3
  <2> HIDE DEF u
  <2>2. /\ p \in Paths /\ r.memo[u[2]] \in Vector
        /\ r.memo[u[2]] = [text |-> u[2], cfg |-> r.cfg] /\ StillPending(d, p, u[2])
    BY <1>2, <2>1
  <2>3. Active(d, p) /\ d.chunk[p].text = u[2]
    BY <2>2 DEF StillPending
  <2>4. d.chunk[p] \in Chunks
    BY <2>2, <2>3, DatabasesDef DEF DbOK, PathOK
  <2> QED  BY <2>2, <2>3, <2>4 DEF u
<1> HIDE DEF P, new
<1>4. /\ \A p \in P : /\ chunk[p] \in Chunks /\ chunk[p].state = "ready"
                       /\ chunk[p].text = d.chunk[p].text /\ chunk[p].cfg = d.chunk[p].cfg
                       /\ vec[p] = new(p) /\ p \notin queue
      /\ \A q \in Paths \ P : chunk[q] = d.chunk[q] /\ vec[q] = d.vec[q]
                              /\ (q \in queue <=> q \in d.queue)
  BY <1>3, StateSet
<1>5. chunk \in [Paths -> Chunks \cup {NoChunk}] /\ vec \in [Paths -> Vector \cup {None}]
  <2>1. \A p \in Paths : chunk[p] \in Chunks \cup {NoChunk} /\ vec[p] \in Vector \cup {None}
    BY <1>3, <1>4, DatabasesDef
  <2>2. chunk = [p \in Paths |-> chunk[p]] /\ vec = [p \in Paths |-> vec[p]]
    OBVIOUS
  <2> HIDE DEF chunk, vec
  <2> QED  BY <2>1, <2>2
<1>6. queue \in SUBSET Paths
  BY DatabasesDef
<1> HIDE DEF chunk, vec, queue
<1>7. e \in Databases
  BY <1>5, <1>6, TableSet, Zenon
<1>8. e.row = d.row /\ e.chunk = chunk /\ e.vec = vec /\ e.queue = queue /\ e.label = d.label
  BY DatabasesDef
<1> HIDE DEF e
<1>9. \A q \in Paths \ P : Same(d, e, q)
  BY <1>4, <1>8 DEF Same
<1>10. \A p \in P : PathOK(e, p) /\ Held(d, e, p)
  BY <1>3, <1>4, <1>8, NoneApart DEF PathOK, Held, Active
<1>11. DbOK(e)
  BY <1>9, <1>10, LeftOK DEF DbOK
<1>12. \A q \in Paths : Active(e, q) => Held(d, e, q)
  BY <1>9, <1>10, LeftOK
<1>13. \A q \in Paths : e.chunk[q].state \in {d.chunk[q].state, "ready"}
  BY <1>4, <1>8
<1> QED  BY <1>1, <1>7, <1>8, <1>11, <1>12, <1>13

(* The policy and the deletions of delete_sources, and the label.          *)
LEMMA DisabledLemma ==
    ASSUME NEW d \in Databases, DbOK(d)
    PROVE  LET e == Disabled(d) IN
           /\ e \in Databases /\ e.label = d.label /\ DbOK(e)
           /\ \A q \in Paths : Active(e, q) => Held(d, e, q)
           /\ e.row = d.row
           /\ \A q \in Paths : Active(e, q) => e.chunk[q].state = "disabled"
<1> DEFINE chunk == [p \in Paths |-> IF d.chunk[p] = NoChunk THEN NoChunk
                                     ELSE [d.chunk[p] EXCEPT !.state = "disabled"]]
           vec == [p \in Paths |-> None]
           e == [d EXCEPT !.chunk = chunk, !.vec = vec, !.queue = {}]
<1>1. Disabled(d) = e
  BY DEF Disabled
<1>2. \A p \in Paths :
          \/ d.chunk[p] = NoChunk /\ chunk[p] = NoChunk
          \/ /\ d.chunk[p] \in Chunks /\ chunk[p] \in Chunks /\ chunk[p].state = "disabled"
             /\ chunk[p].text = d.chunk[p].text /\ chunk[p].cfg = d.chunk[p].cfg
  <2> SUFFICES ASSUME NEW p \in Paths, d.chunk[p] # NoChunk
               PROVE  /\ d.chunk[p] \in Chunks /\ chunk[p] \in Chunks
                      /\ chunk[p].state = "disabled"
                      /\ chunk[p].text = d.chunk[p].text /\ chunk[p].cfg = d.chunk[p].cfg
    OBVIOUS
  <2>1. d.chunk[p] \in Chunks
    BY DatabasesDef
  <2>2. chunk[p] = [d.chunk[p] EXCEPT !.state = "disabled"]
    OBVIOUS
  <2>3. PICK c \in Chunks : c = d.chunk[p]
    BY <2>1
  <2>4. [c EXCEPT !.state = "disabled"] \in Chunks
        /\ [c EXCEPT !.state = "disabled"].state = "disabled"
        /\ [c EXCEPT !.state = "disabled"].text = c.text
        /\ [c EXCEPT !.state = "disabled"].cfg = c.cfg
    BY StateSet
  <2> HIDE DEF chunk
  <2> QED  BY <2>2, <2>3, <2>4
<1>3. chunk \in [Paths -> Chunks \cup {NoChunk}]
  <2>1. \A p \in Paths : chunk[p] \in Chunks \cup {NoChunk}
    BY <1>2
  <2>2. chunk = [p \in Paths |-> chunk[p]]
    OBVIOUS
  <2> HIDE DEF chunk
  <2> QED  BY <2>1, <2>2
<1>4. vec \in [Paths -> Vector \cup {None}] /\ \A p \in Paths : vec[p] = None
  OBVIOUS
<1> HIDE DEF chunk, vec
<1>5. e \in Databases
  BY <1>3, <1>4, TableSet, Zenon
<1>6. e.row = d.row /\ e.chunk = chunk /\ e.vec = vec /\ e.queue = {} /\ e.label = d.label
  BY DatabasesDef
<1> HIDE DEF e
<1>7. ASSUME NEW p \in Paths
      PROVE  /\ PathOK(e, p) /\ (Active(e, p) => Held(d, e, p))
             /\ Active(e, p) => e.chunk[p].state = "disabled"
  <2>1. Active(e, p) <=> d.chunk[p] # NoChunk
    BY <1>6 DEF DbOK, PathOK, Active
  <2>2. Active(e, p) = Active(d, p)
    BY <1>6 DEF Active
  <2> QED  BY <1>2, <1>4, <1>6, <2>1, <2>2, NoneApart DEF PathOK, Held
<1> QED  BY <1>1, <1>5, <1>6, <1>7 DEF DbOK

LEMMA FinalizedLemma ==
    ASSUME NEW d \in Databases, NEW r \in Runs, DbOK(d), RunOK(r), r.at # "idle"
    PROVE  LET e == FinalizedBy(d, r) IN
           /\ e \in Databases /\ e.label = FinalLabel(r) /\ DbOK(e)
           /\ \A q \in Paths : Active(e, q) => Held(d, e, q) /\ q \notin Deletions(r)
           /\ \A q \in Deletions(r) : e.row[q] = NoRow
           /\ \A q \in Paths \ Deletions(r) : e.row[q] = d.row[q]
           /\ \A q \in Paths : Active(e, q) =>
                 IF r.semantic THEN e.chunk[q].state = d.chunk[q].state
                 ELSE e.chunk[q].state = "disabled"
<1> DEFINE b == IF r.semantic THEN d ELSE Disabled(d)
           D == Deletions(r)
           c == WithoutSources(b, D)
           label == FinalLabel(r)
           e == [c EXCEPT !.label = label]
<1>1. FinalizedBy(d, r) = e
  BY DEF FinalizedBy
<1>2. /\ b \in Databases /\ DbOK(b) /\ b.row = d.row
      /\ \A q \in Paths : Active(b, q) => Held(d, b, q)
      /\ r.semantic => b = d
      /\ ~ r.semantic => \A q \in Paths : Active(b, q) => b.chunk[q].state = "disabled"
  BY DisabledLemma DEF Held
<1>3. D \in SUBSET Paths
  BY PlanType
<1> HIDE DEF b, D
<1>4. /\ c \in Databases
      /\ \A q \in D : Bare(c, q) /\ c.row[q] = NoRow
      /\ \A q \in Paths \ D : Same(b, c, q)
  BY <1>2, <1>3, WithoutSourcesLemma
<1>5. label \in Label \cup {None}
  <2>1. NewLabel(r) \in Label
    BY DEF NewLabel, Label, RunOK
  <2>2. r.prev \in Label \cup {None}
    BY DEF Runs
  <2> QED  BY <2>1, <2>2 DEF FinalLabel
<1> HIDE DEF c, label
<1>6. e \in Databases
  BY <1>4, <1>5, TableSet, Zenon
<1>7. e.row = c.row /\ e.chunk = c.chunk /\ e.vec = c.vec /\ e.queue = c.queue
      /\ e.label = label
  BY <1>4, DatabasesDef
<1> HIDE DEF e
<1>8. \A q \in D : Emptied(e, q)
  BY <1>4, <1>7, NoneApart DEF Emptied, Bare, Active
<1>9. \A q \in Paths \ D : Same(b, e, q)
  BY <1>4, <1>7 DEF Same
<1>10. DbOK(e) /\ \A q \in Paths : Active(e, q) => q \notin D /\ Held(b, e, q)
  BY <1>2, <1>8, <1>9, LeftOK DEF DbOK, Emptied
<1>11. (\A q \in D : e.row[q] = NoRow) /\ \A q \in Paths \ D : e.row[q] = d.row[q]
  BY <1>2, <1>4, <1>7, <1>9 DEF Same
<1>12. \A q \in Paths : Active(e, q) =>
           IF r.semantic THEN e.chunk[q].state = d.chunk[q].state
           ELSE e.chunk[q].state = "disabled"
  <2> SUFFICES ASSUME NEW q \in Paths, Active(e, q)
               PROVE  IF r.semantic THEN e.chunk[q].state = d.chunk[q].state
                      ELSE e.chunk[q].state = "disabled"
    OBVIOUS
  <2>1. Same(b, e, q) /\ Active(b, q)
    BY <1>9, <1>10 DEF Held
  <2> QED  BY <1>2, <2>1 DEF Same
<1> QED  BY <1>1, <1>2, <1>6, <1>7, <1>10, <1>11, <1>12 DEF Held, D, label

(***************************************************************************)
(* The runs.                                                               *)
(***************************************************************************)
(* A run stays one when a field is given a value of its type.              *)
LEMMA FieldSet ==
    ASSUME NEW r \in Runs
    PROVE  /\ \A x \in Places : [r EXCEPT !.at = x] \in Runs
           /\ \A x \in BOOLEAN : [r EXCEPT !.rebuild = x] \in Runs
           /\ \A x \in Manifests \cup {None} : [r EXCEPT !.m = x] \in Runs
           /\ \A x \in Configs \cup {None} : [r EXCEPT !.cfg = x] \in Runs
           /\ \A x \in BOOLEAN : [r EXCEPT !.semantic = x] \in Runs
           /\ \A x \in BOOLEAN : [r EXCEPT !.promote = x] \in Runs
           /\ \A x \in Label \cup {None} : [r EXCEPT !.prev = x] \in Runs
           /\ \A x \in [Paths -> Contents \cup {None}] : [r EXCEPT !.files = x] \in Runs
           /\ \A x \in [Paths -> Contents \cup {None}] : [r EXCEPT !.old = x] \in Runs
           /\ \A x \in SUBSET Paths : [r EXCEPT !.todo = x] \in Runs
           /\ \A x \in Memos : [r EXCEPT !.memo = x] \in Runs
           /\ \A x \in SUBSET (Paths \X ChunkText) : [r EXCEPT !.upd = x] \in Runs
           /\ \A x \in BOOLEAN : [r EXCEPT !.failed = x] \in Runs
           /\ \A x \in BOOLEAN : [r EXCEPT !.failedManifest = x] \in Runs
           /\ \A x \in BOOLEAN : [r EXCEPT !.undisturbed = x] \in Runs
<1>1. \A x \in Places : [r EXCEPT !.at = x] \in Runs
  BY DEF Runs
<1>2. \A x \in BOOLEAN : [r EXCEPT !.rebuild = x] \in Runs
  BY DEF Runs
<1>3. \A x \in Manifests \cup {None} : [r EXCEPT !.m = x] \in Runs
  BY DEF Runs
<1>4. \A x \in Configs \cup {None} : [r EXCEPT !.cfg = x] \in Runs
  BY DEF Runs
<1>5. \A x \in BOOLEAN : [r EXCEPT !.semantic = x] \in Runs
  BY DEF Runs
<1>6. \A x \in BOOLEAN : [r EXCEPT !.promote = x] \in Runs
  BY DEF Runs
<1>7. \A x \in Label \cup {None} : [r EXCEPT !.prev = x] \in Runs
  BY DEF Runs
<1>8. \A x \in [Paths -> Contents \cup {None}] : [r EXCEPT !.files = x] \in Runs
  BY DEF Runs
<1>9. \A x \in [Paths -> Contents \cup {None}] : [r EXCEPT !.old = x] \in Runs
  BY DEF Runs
<1>10. \A x \in SUBSET Paths : [r EXCEPT !.todo = x] \in Runs
  BY DEF Runs
<1>11. \A x \in Memos : [r EXCEPT !.memo = x] \in Runs
  BY DEF Runs
<1>12. \A x \in SUBSET (Paths \X ChunkText) : [r EXCEPT !.upd = x] \in Runs
  BY DEF Runs
<1>13. \A x \in BOOLEAN : [r EXCEPT !.failed = x] \in Runs
  BY DEF Runs
<1>14. \A x \in BOOLEAN : [r EXCEPT !.failedManifest = x] \in Runs
  BY DEF Runs
<1>15. \A x \in BOOLEAN : [r EXCEPT !.undisturbed = x] \in Runs
  BY DEF Runs
<1> QED
  BY <1>1, <1>2, <1>3, <1>4, <1>5, <1>6, <1>7, <1>8, <1>9, <1>10,
     <1>11, <1>12, <1>13, <1>14, <1>15

LEMMA NoMemo == <<>> \in Memos /\ DOMAIN <<>> = {}
<1>1. <<>> \in [{} -> Vector \cup {None}] /\ DOMAIN <<>> = {}
  OBVIOUS
<1> QED  BY <1>1 DEF Memos

LEMMA IdleOK == Idle \in Runs /\ RunOK(Idle) /\ Idle.at = "idle" /\ ~ Idle.rebuild
<1>1. Idle \in Runs
  BY NoMemo DEF Idle, Runs, Places
<1> QED  BY <1>1, NoMemo DEF Idle, RunOK

(* What a run keeps as it goes on.                                         *)
Keeps(r, s) ==
    /\ s.m = r.m /\ s.cfg = r.cfg /\ s.rebuild = r.rebuild
    /\ s.promote = r.promote /\ s.prev = r.prev
    /\ s.at \notin {"idle", "plan", "publish"}

Proceeds(r, s) == s \in Runs /\ RunOK(s) /\ Keeps(r, s)

(* The sets a run has planned depend on what it has read.                  *)
SamePlan(r, s) ==
    /\ s.files = r.files /\ s.old = r.old /\ s.promote = r.promote
    /\ s.failedManifest = r.failedManifest

(* What it knows about itself; its vectors it drops when it is done.       *)
Carries(r, s) ==
    /\ s.semantic = r.semantic /\ s.failed = r.failed /\ s.undisturbed = r.undisturbed
    /\ s.memo = r.memo \/ s.at \in {"update", "finalize"}

LEMMA PlanKept ==
    ASSUME NEW r, NEW s, SamePlan(r, s)
    PROVE  /\ Prepared(s) = Prepared(r) /\ ParseFailures(s) = ParseFailures(r)
           /\ Deletions(s) = Deletions(r) /\ Unchanged(s) = Unchanged(r)
BY DEF SamePlan, Prepared, ParseFailures, Deletions, Unchanged, Additions, Changes, Known,
       SameBytes, Promotions

(* Where a run goes next, and what it then has still to parse again.       *)
LEMMA ToFinalizeLemma ==
    ASSUME NEW r \in Runs, RunOK(r), r.at # "idle"
    PROVE  /\ Proceeds(r, ToFinalize(r)) /\ SamePlan(r, ToFinalize(r))
           /\ Carries(r, ToFinalize(r)) /\ ToFinalize(r).at = "finalize"
           /\ Waiting(ToFinalize(r)) = Deletions(r)
<1> DEFINE s == [r EXCEPT !.at = "finalize", !.todo = {}, !.memo = <<>>, !.upd = {}]
<1>1. ToFinalize(r) = s
  BY DEF ToFinalize
<1>2. s \in Runs
  <2>1. "finalize" \in Places /\ {} \in SUBSET Paths /\ <<>> \in Memos
        /\ {} \in SUBSET (Paths \X ChunkText)
    BY NoMemo DEF Places
  <2> QED  BY <2>1, FieldSet, Zenon
<1>3. /\ s.at = "finalize" /\ s.memo = <<>> /\ s.upd = {} /\ SamePlan(r, s)
      /\ s.m = r.m /\ s.cfg = r.cfg /\ s.rebuild = r.rebuild /\ s.prev = r.prev
      /\ Carries(r, s)
  BY DEF Runs, SamePlan, Carries
<1> HIDE DEF s
<1>4. RunOK(s) /\ Keeps(r, s)
  BY <1>3, NoMemo DEF RunOK, Keeps, SamePlan
<1>5. Waiting(s) = Deletions(r)
  BY <1>3, PlanKept DEF Waiting
<1> QED  BY <1>1, <1>2, <1>3, <1>4, <1>5 DEF Proceeds

LEMMA ToUpdateLemma ==
    ASSUME NEW r \in Runs, RunOK(r), r.at # "idle"
    PROVE  /\ Proceeds(r, ToUpdate(r)) /\ SamePlan(r, ToUpdate(r))
           /\ Carries(r, ToUpdate(r))
           /\ Waiting(ToUpdate(r)) = Deletions(r)
<1>1. CASE r.upd = {}
  BY <1>1, ToFinalizeLemma DEF ToUpdate
<1>2. CASE r.upd # {}
  <2> DEFINE s == [r EXCEPT !.at = "update", !.todo = {}]
  <2>1. ToUpdate(r) = s
    BY <1>2 DEF ToUpdate
  <2>2. s \in Runs
    <3>1. "update" \in Places /\ {} \in SUBSET Paths
      BY DEF Places
    <3> QED  BY <3>1, FieldSet, Zenon
  <2>3. /\ s.at = "update" /\ s.memo = r.memo /\ s.upd = r.upd /\ SamePlan(r, s)
        /\ s.m = r.m /\ s.cfg = r.cfg /\ s.rebuild = r.rebuild /\ s.prev = r.prev
        /\ Carries(r, s)
    BY DEF Runs, SamePlan, Carries
  <2> HIDE DEF s
  <2>4. RunOK(s) /\ Keeps(r, s)
    BY <2>3 DEF RunOK, Keeps, SamePlan
  <2>5. Waiting(s) = Deletions(r)
    BY <2>3, PlanKept DEF Waiting
  <2> QED  BY <2>1, <2>2, <2>3, <2>4, <2>5 DEF Proceeds
<1> QED  BY <1>1, <1>2

LEMMA ToReplaceLemma ==
    ASSUME NEW r \in Runs, RunOK(r), r.at # "idle"
    PROVE  /\ Proceeds(r, ToReplace(r)) /\ SamePlan(r, ToReplace(r))
           /\ Carries(r, ToReplace(r))
           /\ Waiting(ToReplace(r)) = Deletions(r) \cup Prepared(r)
<1>1. CASE Prepared(r) = {}
  BY <1>1, ToUpdateLemma DEF ToReplace
<1>2. CASE Prepared(r) # {}
  <2> DEFINE P == Prepared(r)
             s == [r EXCEPT !.at = "replace", !.todo = P]
  <2>1. ToReplace(r) = s
    BY <1>2 DEF ToReplace
  <2>2. P \in SUBSET Paths
    BY PlanType
  <2> HIDE DEF P
  <2>3. s \in Runs
    <3>1. "replace" \in Places
      BY DEF Places
    <3> QED  BY <2>2, <3>1, FieldSet, Zenon
  <2>4. /\ s.at = "replace" /\ s.todo = P /\ s.memo = r.memo /\ s.upd = r.upd
        /\ s.m = r.m /\ s.cfg = r.cfg /\ s.rebuild = r.rebuild /\ s.prev = r.prev
        /\ SamePlan(r, s)
        /\ Carries(r, s)
    BY DEF Runs, SamePlan, Carries
  <2> HIDE DEF s
  <2>5. RunOK(s) /\ Keeps(r, s)
    BY <2>4, PlanKept DEF RunOK, Keeps, SamePlan, P
  <2>6. Waiting(s) = Deletions(r) \cup Prepared(r)
    BY <2>4, PlanKept DEF Waiting, P
  <2> QED  BY <2>1, <2>3, <2>4, <2>5, <2>6 DEF Proceeds
<1> QED  BY <1>1, <1>2

(* All that was stored and is not known to be unchanged.                   *)
AllWaiting(r) == Deletions(r) \cup ParseFailures(r) \cup Prepared(r)

LEMMA ToSuppressLemma ==
    ASSUME NEW r \in Runs, RunOK(r), r.at # "idle"
    PROVE  /\ Proceeds(r, ToSuppress(r)) /\ SamePlan(r, ToSuppress(r))
           /\ Carries(r, ToSuppress(r))
           /\ Waiting(ToSuppress(r)) = AllWaiting(r)
<1>1. CASE ParseFailures(r) = {}
  BY <1>1, ToReplaceLemma DEF ToSuppress, AllWaiting
<1>2. CASE ParseFailures(r) # {}
  <2> DEFINE P == ParseFailures(r)
             s == [r EXCEPT !.at = "suppress", !.todo = P]
  <2>1. ToSuppress(r) = s
    BY <1>2 DEF ToSuppress
  <2>2. P \in SUBSET Paths
    BY PlanType
  <2> HIDE DEF P
  <2>3. s \in Runs
    <3>1. "suppress" \in Places
      BY DEF Places
    <3> QED  BY <2>2, <3>1, FieldSet, Zenon
  <2>4. /\ s.at = "suppress" /\ s.todo = P /\ s.memo = r.memo /\ s.upd = r.upd
        /\ s.m = r.m /\ s.cfg = r.cfg /\ s.rebuild = r.rebuild /\ s.prev = r.prev
        /\ SamePlan(r, s)
        /\ Carries(r, s)
    BY DEF Runs, SamePlan, Carries
  <2> HIDE DEF s
  <2>5. RunOK(s) /\ Keeps(r, s)
    BY <2>4, PlanKept DEF RunOK, Keeps, SamePlan, P
  <2>6. Waiting(s) = AllWaiting(r)
    BY <2>4, PlanKept DEF Waiting, AllWaiting, P
  <2> QED  BY <2>1, <2>3, <2>4, <2>5, <2>6 DEF Proceeds
<1> QED  BY <1>1, <1>2

LEMMA ToRequeueLemma ==
    ASSUME NEW r \in Runs, RunOK(r), r.at # "idle"
    PROVE  /\ Proceeds(r, ToRequeue(r)) /\ SamePlan(r, ToRequeue(r))
           /\ Carries(r, ToRequeue(r))
           /\ Waiting(ToRequeue(r)) = AllWaiting(r)
           /\ r.semantic => ToRequeue(r).at = "requeue"
<1>1. CASE ~ r.semantic
  BY <1>1, ToSuppressLemma DEF ToRequeue
<1>2. CASE r.semantic
  <2> DEFINE s == [r EXCEPT !.at = "requeue", !.todo = {}]
  <2>1. ToRequeue(r) = s
    BY <1>2 DEF ToRequeue
  <2>2. s \in Runs
    <3>1. "requeue" \in Places /\ {} \in SUBSET Paths
      BY DEF Places
    <3> QED  BY <3>1, FieldSet, Zenon
  <2>3. /\ s.at = "requeue" /\ s.memo = r.memo /\ s.upd = r.upd /\ SamePlan(r, s)
        /\ s.m = r.m /\ s.cfg = r.cfg /\ s.rebuild = r.rebuild /\ s.prev = r.prev
        /\ Carries(r, s)
    BY DEF Runs, SamePlan, Carries
  <2> HIDE DEF s
  <2>4. RunOK(s) /\ Keeps(r, s)
    BY <2>3 DEF RunOK, Keeps, SamePlan
  <2>5. Waiting(s) = AllWaiting(r)
    BY <2>3, PlanKept DEF Waiting, AllWaiting
  <2> QED  BY <2>1, <2>2, <2>3, <2>4, <2>5 DEF Proceeds
<1> QED  BY <1>1, <1>2

LEMMA ToEmbedLemma ==
    ASSUME NEW r \in Runs, RunOK(r), r.at # "idle"
    PROVE  /\ Proceeds(r, ToEmbed(r)) /\ SamePlan(r, ToEmbed(r))
           /\ Carries(r, ToEmbed(r))
           /\ Waiting(ToEmbed(r)) = AllWaiting(r)
           /\ r.semantic => \/ ToEmbed(r).at = "embed" /\ ToEmbed(r).todo = Prepared(r)
                            \/ ToEmbed(r).at = "requeue" /\ Prepared(r) = {}
<1>1. CASE ~ (r.semantic /\ Prepared(r) # {})
  BY <1>1, ToRequeueLemma DEF ToEmbed
<1>2. CASE r.semantic /\ Prepared(r) # {}
  <2> DEFINE P == Prepared(r)
             s == [r EXCEPT !.at = "embed", !.todo = P]
  <2>1. ToEmbed(r) = s
    BY <1>2 DEF ToEmbed
  <2>2. P \in SUBSET Paths
    BY PlanType
  <2> HIDE DEF P
  <2>3. s \in Runs
    <3>1. "embed" \in Places
      BY DEF Places
    <3> QED  BY <2>2, <3>1, FieldSet, Zenon
  <2>4. /\ s.at = "embed" /\ s.todo = P /\ s.memo = r.memo /\ s.upd = r.upd
        /\ s.m = r.m /\ s.cfg = r.cfg /\ s.rebuild = r.rebuild /\ s.prev = r.prev
        /\ SamePlan(r, s)
        /\ Carries(r, s)
    BY DEF Runs, SamePlan, Carries
  <2> HIDE DEF s
  <2>5. RunOK(s) /\ Keeps(r, s)
    BY <2>4, PlanKept DEF RunOK, Keeps, SamePlan, P
  <2>6. Waiting(s) = AllWaiting(r)
    BY <2>4, PlanKept DEF Waiting, AllWaiting
  <2>7. s.todo = Prepared(r)
    BY <2>4 DEF P
  <2> QED  BY <2>1, <2>3, <2>4, <2>5, <2>6, <2>7 DEF Proceeds
<1> QED  BY <1>1, <1>2

(***************************************************************************)
(* A run goes on, and stores e in the database it works on: what e has     *)
(* that the database had not is of the manifest and configuration of the   *)
(* run, and so is then the label.                                          *)
(***************************************************************************)
Own(i, e, q) ==
    /\ e.chunk[q].text[2] = run[i].m /\ e.chunk[q].cfg = run[i].cfg
    /\ e.label # None /\ e.label.cfg = run[i].cfg

Writes(i, e) ==
    /\ e \in Databases /\ DbOK(e)
    /\ e.label = Target(i).label \/ (~ run[i].promote /\ e.label = NewLabel(run[i]))
    /\ \A q \in Paths : Active(e, q) => Held(Target(i), e, q) \/ Own(i, e, q)

(* What a promoting run has not parsed again still waits for it.           *)
Progress(s, e) ==
    ~ mixed /\ s.promote /\ ~ s.failedManifest =>
        \A q \in Paths : Active(e, q) /\ e.chunk[q].text[2] # s.m => q \in Waiting(s)

(* x: what becomes of the copy, which only matters to a rebuild.           *)
Stores(i, e, x) ==
    /\ db' = IF run[i].rebuild THEN db ELSE e
    /\ temp' = [temp EXCEPT ![i] = x]
    /\ x \in Databases /\ DbOK(x)
    /\ run[i].rebuild => x = e

LEMMA GoesOnUnmixed ==
    ASSUME IndexInv, ~ mixed, NEW i \in Procs, run[i].at # "idle",
           NEW s, Proceeds(run[i], s), NEW e, Writes(i, e), Progress(s, e),
           NEW x, Stores(i, e, x), run' = [run EXCEPT ![i] = s], UNCHANGED <<disk, conf, mixed>>
    PROVE  SameSettings' /\ OneConfiguration' /\ LabelKept'
<1>1. SameSettings /\ OneConfiguration /\ LabelKept
  BY DEF IndexInv, Unmixed
<1>2. run \in [Procs -> Runs] /\ i \in Running
  BY DEF IndexInv, IndexTypeOK, Running
<1>3. /\ run'[i] = s /\ \A k \in Procs \ {i} : run'[k] = run[k]
      /\ \A k \in Procs : /\ run'[k].m = run[k].m /\ run'[k].cfg = run[k].cfg
                           /\ run'[k].rebuild = run[k].rebuild
                           /\ run'[k].promote = run[k].promote /\ run'[k].prev = run[k].prev
  BY <1>2 DEF Proceeds, Keeps
<1>4. Running' = Running
  BY <1>2, <1>3 DEF Running, Proceeds, Keeps
<1>5. SameSettings'
  BY <1>1, <1>3, <1>4 DEF SameSettings, Running
<1>6. CASE run[i].rebuild
  <2>1. db' = db /\ conf' = conf
    BY <1>6 DEF Stores
  <2>2. OneConfiguration'
    BY <1>1, <1>3, <1>4, <2>1 DEF OneConfiguration, AllChunkedUnder, Running
  <2>3. ~ run[i].promote
    BY <1>6 DEF IndexInv, RunsOK, RunOK
  <2>4. \A k \in Running : Promoting(run[k])'
    BY <1>1, <1>3, <1>4, <2>1, <2>3 DEF LabelKept, Promoting
  <2> QED  BY <1>1, <1>3, <1>4, <1>5, <2>1, <2>2, <2>4 DEF LabelKept, AllParsedWith, Running
<1>7. CASE ~ run[i].rebuild
  <2>1. db' = e /\ conf' = conf /\ Target(i) = db
    BY <1>7 DEF Stores, Target
  <2>2. \A q \in Paths : Active(e, q) => Held(db, e, q) \/ Own(i, e, q)
    BY <2>1 DEF Writes
  <2>3. e.label = db.label \/ (~ run[i].promote /\ e.label = NewLabel(run[i]))
    BY <2>1 DEF Writes
  <2>4. NewLabel(run[i]) # None /\ NewLabel(run[i]).m = run[i].m
        /\ NewLabel(run[i]).cfg = run[i].cfg
    <3>1. NewLabel(run[i]) \in Label
      BY DEF IndexInv, RunsOK, RunOK, NewLabel, Label
    <3> QED  BY <3>1, NoneApart DEF NewLabel
  <2>5. /\ db.label # None => db.label.cfg = run[i].cfg
        /\ e.label # None => e.label.cfg = run[i].cfg
        /\ db.label # None => e.label # None
    BY <1>1, <1>2, <1>7, <2>3, <2>4 DEF OneConfiguration
  <2>6. \A q \in Paths : Active(e, q) => e.label # None /\ e.chunk[q].cfg = e.label.cfg
    <3> SUFFICES ASSUME NEW q \in Paths, Active(e, q)
                 PROVE  e.label # None /\ e.chunk[q].cfg = e.label.cfg
      OBVIOUS
    <3>1. CASE Held(db, e, q)
      BY <1>1, <2>5, <3>1 DEF OneConfiguration, AllChunkedUnder, Held
    <3>2. CASE Own(i, e, q)
      BY <3>2 DEF Own
    <3> QED  BY <2>2, <3>1, <3>2
  <2>7. e.label # None => \A k \in Running : ~ run[k].rebuild => e.label.cfg = run[k].cfg
    BY <1>1, <1>2, <2>5 DEF SameSettings
  <2>8. OneConfiguration'
    BY <1>3, <1>4, <2>1, <2>6, <2>7 DEF OneConfiguration, AllChunkedUnder, Running
  <2>9. \A k \in Running : run[k].m = run[i].m
    BY <1>1, <1>2 DEF SameSettings
  <2>10. \A m : AllParsedWith(db, m) /\ m = run[i].m => AllParsedWith(e, m)
    BY <2>2 DEF AllParsedWith, Held, Own
  <2>11. ASSUME e.label # None, e.label.m = conf.m PROVE AllParsedWith(e, conf.m)
    <3>1. run[i].m = conf.m
      BY <1>1, <1>2, <2>3, <2>4, <2>11 DEF LabelKept
    <3>2. AllParsedWith(db, conf.m)
      BY <1>1, <1>2, <1>7, <2>3, <2>11, <3>1 DEF LabelKept
    <3> QED  BY <2>10, <3>1, <3>2
  <2>12. ASSUME NEW k \in Running, run[k].m # conf.m, e.label # None
         PROVE  e.label.m # conf.m
    BY <1>1, <2>3, <2>4, <2>9, <2>12 DEF LabelKept
  <2>13. ASSUME NEW k \in Running, ~ run[k].rebuild, ~ run[k].promote
         PROVE  AllParsedWith(e, run[k].m)
    BY <1>1, <2>9, <2>10, <2>13 DEF LabelKept
  <2>14. ASSUME NEW k \in Running PROVE Promoting(run[k])'
    <3>1. CASE k = i
      BY <1>3, <2>1, <3>1 DEF Promoting, Progress
    <3>2. CASE k # i
      <4>1. run'[k] = run[k] /\ Promoting(run[k])
        BY <1>1, <1>3, <3>2 DEF LabelKept, Running
      <4>2. \A q \in Paths : Active(e, q) /\ e.chunk[q].text[2] # run[k].m =>
                Active(db, q) /\ db.chunk[q].text[2] # run[k].m
        BY <2>2, <2>9 DEF Held, Own
      <4> QED  BY <2>1, <4>1, <4>2 DEF Promoting
    <3> QED  BY <3>1, <3>2
  <2>15. LabelKept'
    BY <1>1, <1>3, <1>4, <2>1, <2>11, <2>12, <2>13, <2>14 DEF LabelKept, Running
  <2> QED  BY <1>5, <2>8, <2>15
<1> QED  BY <1>6, <1>7

LEMMA GoesOn ==
    ASSUME IndexInv, NEW i \in Procs, run[i].at # "idle",
           NEW s, Proceeds(run[i], s), NEW e, Writes(i, e), Progress(s, e),
           NEW x, Stores(i, e, x), run' = [run EXCEPT ![i] = s], UNCHANGED <<disk, conf, mixed>>
    PROVE  IndexInv'
<1>1. run \in [Procs -> Runs] /\ temp \in [Procs -> Databases] /\ db \in Databases
  BY DEF IndexInv, IndexTypeOK
<1>2. /\ run'[i] = s /\ \A k \in Procs \ {i} : run'[k] = run[k]
      /\ temp'[i] = x /\ \A k \in Procs \ {i} : temp'[k] = temp[k]
  BY <1>1 DEF Stores
<1>3. IndexTypeOK'
  BY <1>1 DEF IndexInv, IndexTypeOK, Stores, Proceeds, Writes
<1>4. RunsOK'
  BY <1>2 DEF IndexInv, RunsOK, Proceeds
<1>5. DbsOK'
  <2>1. \A d : DbOK(d) => DbOK(d)'
    BY DEF DbOK, PathOK
  <2>2. DbOK(db') /\ \A k \in Procs : DbOK(temp'[k])
    BY <1>2 DEF IndexInv, DbsOK, Stores, Writes
  <2> QED  BY <2>2 DEF DbsOK, DbOK, PathOK
<1>6. CopiesOK'
  <2>1. s.at # "publish" /\ s.m = run[i].m /\ s.cfg = run[i].cfg /\ s.rebuild = run[i].rebuild
    BY DEF Proceeds, Keeps
  <2>2. CopyOK(i)'
    <3> SUFFICES ASSUME run[i].rebuild
                 PROVE  /\ AllParsedWith(x, s.m) /\ AllChunkedUnder(x, s.cfg)
                        /\ x.label # None => x.label = NewLabel(s)
      BY <1>2, <2>1 DEF CopyOK
    <3>1. x = e /\ Target(i) = temp[i] /\ NewLabel(s) = NewLabel(run[i])
      BY <2>1 DEF Stores, Target, NewLabel
    <3>2. /\ AllParsedWith(temp[i], s.m) /\ AllChunkedUnder(temp[i], s.cfg)
          /\ temp[i].label # None => temp[i].label = NewLabel(s)
      BY <2>1, <3>1 DEF IndexInv, CopiesOK, CopyOK
    <3>3. e.label # None => e.label = NewLabel(s)
      BY <3>1, <3>2 DEF Writes
    <3>4. \A q \in Paths : Active(e, q) => e.chunk[q].text[2] = s.m /\ e.chunk[q].cfg = s.cfg
      BY <2>1, <3>1, <3>2 DEF Writes, Held, Own, AllParsedWith, AllChunkedUnder
    <3> QED  BY <3>1, <3>3, <3>4 DEF AllParsedWith, AllChunkedUnder
  <2>3. ASSUME NEW k \in Procs \ {i} PROVE CopyOK(k)' /\ (run'[k].at = "publish" => run'[k].rebuild)
    BY <1>2 DEF IndexInv, CopiesOK, CopyOK, AllParsedWith, AllChunkedUnder, NewLabel
  <2> QED  BY <1>2, <2>1, <2>2, <2>3 DEF CopiesOK
<1>7. Unmixed'
  BY GoesOnUnmixed DEF Unmixed
<1> QED  BY <1>3, <1>4, <1>5, <1>6, <1>7 DEF IndexInv

(***************************************************************************)
(* A run ends, and leaves e as the index: its configuration is that of the *)
(* label, and of the runs under way; the label does not name the manifest  *)
(* in force while another is in use.                                       *)
(***************************************************************************)
Sound(i, e) ==
    /\ \A q \in Paths : Active(e, q) => e.label # None /\ e.chunk[q].cfg = e.label.cfg
    /\ e.label # None =>
          /\ \A k \in Running \ {i} : ~ run[k].rebuild => e.label.cfg = run[k].cfg
          /\ e.label.m = conf.m => AllParsedWith(e, conf.m)
          /\ \A k \in Running : run[k].m # conf.m => e.label.m # conf.m
    /\ \A q \in Paths : Active(e, q) => Held(db, e, q) \/ e.chunk[q].text[2] = run[i].m

LEMMA LeavesUnmixed ==
    ASSUME IndexInv, ~ mixed, NEW i \in Procs, run[i].at # "idle", NEW e, Sound(i, e),
           db' = e, run' = [run EXCEPT ![i] = Idle], UNCHANGED <<conf, mixed>>
    PROVE  SameSettings' /\ OneConfiguration' /\ LabelKept'
<1>1. SameSettings /\ LabelKept
  BY DEF IndexInv, Unmixed
<1>2. run \in [Procs -> Runs] /\ i \in Running
  BY DEF IndexInv, IndexTypeOK, Running
<1>3. run'[i] = Idle /\ \A k \in Procs \ {i} : run'[k] = run[k]
  BY <1>2
<1>4. Running' = Running \ {i}
  BY <1>2, <1>3, IdleOK DEF Running
<1>5. SameSettings'
  BY <1>1, <1>3, <1>4 DEF SameSettings, Running
<1>6. OneConfiguration'
  BY <1>3, <1>4 DEF Sound, OneConfiguration, AllChunkedUnder, Running
<1>7. \A k \in Running : run[k].m = run[i].m
  BY <1>1, <1>2 DEF SameSettings
<1>8. ASSUME NEW k \in Running \ {i} PROVE Promoting(run[k])'
  <2>1. run'[k] = run[k] /\ Promoting(run[k])
    BY <1>1, <1>3 DEF LabelKept, Running
  <2>2. \A q \in Paths : Active(e, q) /\ e.chunk[q].text[2] # run[k].m =>
            Active(db, q) /\ db.chunk[q].text[2] # run[k].m
    BY <1>7 DEF Sound, Held
  <2> QED  BY <2>1, <2>2 DEF Promoting
<1>9. ASSUME NEW k \in Running \ {i}, ~ run[k].rebuild, ~ run[k].promote
      PROVE  AllParsedWith(e, run[k].m)
  BY <1>1, <1>7, <1>9 DEF LabelKept, Sound, Held, AllParsedWith
<1>10. LabelKept'
  BY <1>1, <1>3, <1>4, <1>8, <1>9 DEF LabelKept, Sound, Running
<1> QED  BY <1>5, <1>6, <1>10

LEMMA Leaves ==
    ASSUME IndexInv, NEW i \in Procs, run[i].at # "idle",
           NEW e \in Databases, DbOK(e), ~ mixed => Sound(i, e), db' = e,
           NEW x \in Databases, DbOK(x), temp' = [temp EXCEPT ![i] = x],
           run' = [run EXCEPT ![i] = Idle], UNCHANGED <<disk, conf, mixed>>
    PROVE  IndexInv'
<1>1. run \in [Procs -> Runs] /\ temp \in [Procs -> Databases]
  BY DEF IndexInv, IndexTypeOK
<1>2. /\ run'[i] = Idle /\ \A k \in Procs \ {i} : run'[k] = run[k]
      /\ temp'[i] = x /\ \A k \in Procs \ {i} : temp'[k] = temp[k]
  BY <1>1
<1>3. IndexTypeOK'
  BY <1>1, IdleOK DEF IndexInv, IndexTypeOK
<1>4. RunsOK'
  BY <1>2, IdleOK DEF IndexInv, RunsOK
<1>5. DbsOK'
  <2>1. DbOK(db') /\ \A k \in Procs : DbOK(temp'[k])
    BY <1>2 DEF IndexInv, DbsOK
  <2> QED  BY <2>1 DEF DbsOK, DbOK, PathOK
<1>6. CopiesOK'
  <2>1. CopyOK(i)' /\ run'[i].at # "publish"
    BY <1>2, IdleOK DEF CopyOK
  <2>2. ASSUME NEW k \in Procs \ {i} PROVE CopyOK(k)' /\ (run'[k].at = "publish" => run'[k].rebuild)
    BY <1>2 DEF IndexInv, CopiesOK, CopyOK, AllParsedWith, AllChunkedUnder, NewLabel
  <2> QED  BY <2>1, <2>2 DEF CopiesOK
<1>7. Unmixed'
  BY LeavesUnmixed DEF Unmixed
<1> QED  BY <1>3, <1>4, <1>5, <1>6, <1>7 DEF IndexInv

LEMMA EmptyOK == EmptyDb \in Databases /\ DbOK(EmptyDb)
                 /\ \A q \in Paths : ~ Active(EmptyDb, q)
BY EmptyDbType, NoneApart DEF EmptyDb, DbOK, PathOK, Active, NoRow

(* The index, as it stands, may be left.                                   *)
LEMMA SoundAsIs ==
    ASSUME IndexInv, ~ mixed, NEW i \in Procs
    PROVE  Sound(i, db)
BY DEF IndexInv, Unmixed, OneConfiguration, LabelKept, AllChunkedUnder, Sound, Held

(* A process dies, or a rebuild gives up.                                  *)
LEMMA Abandons ==
    ASSUME IndexInv, NEW i \in Procs, run[i].at # "idle", db' = db,
           temp' = [temp EXCEPT ![i] = EmptyDb],
           run' = [run EXCEPT ![i] = Idle], UNCHANGED <<disk, conf, mixed>>
    PROVE  IndexInv'
<1>1. db \in Databases /\ DbOK(db)
  BY DEF IndexInv, IndexTypeOK, DbsOK
<1> QED  BY <1>1, EmptyOK, SoundAsIs, Leaves

LEMMA StopStep ==
    ASSUME IndexInv, NEW i \in Procs, Stop(i)
    PROVE  IndexInv'
BY Abandons DEF Stop, Advance

LEMMA FinalizeStep ==
    ASSUME IndexInv, NEW i \in Procs, Finalize(i)
    PROVE  IndexInv'
<1> DEFINE r == run[i]
           e == FinalizedBy(Target(i), r)
<1>1. /\ r.at = "finalize" /\ Write(i, e) /\ UNCHANGED <<disk, conf, mixed>>
      /\ run' = [run EXCEPT ![i] = IF r.rebuild THEN [r EXCEPT !.at = "publish"] ELSE Idle]
  BY DEF Finalize, Advance
<1>2. /\ r \in Runs /\ RunOK(r) /\ Target(i) \in Databases /\ DbOK(Target(i))
      /\ temp \in [Procs -> Databases] /\ DbOK(temp[i]) /\ run \in [Procs -> Runs]
  BY DEF IndexInv, IndexTypeOK, RunsOK, DbsOK, Target
<1>3. /\ e \in Databases /\ e.label = FinalLabel(r) /\ DbOK(e)
      /\ \A q \in Paths : Active(e, q) => Held(Target(i), e, q) /\ q \notin Deletions(r)
  BY <1>1, <1>2, FinalizedLemma
<1>4. CASE ~ r.rebuild
  <2>1. /\ db' = e /\ temp' = [temp EXCEPT ![i] = temp[i]] /\ Target(i) = db
        /\ run' = [run EXCEPT ![i] = Idle]
    BY <1>1, <1>2, <1>4 DEF Write, Target
  <2>2. ASSUME ~ mixed PROVE Sound(i, e)
    <3>1. SameSettings /\ OneConfiguration /\ LabelKept /\ i \in Running
      BY <1>1, <2>2 DEF IndexInv, Unmixed, Running
    <3>2. /\ r.m \in Manifests /\ NewLabel(r).m = r.m /\ NewLabel(r).cfg = r.cfg
          /\ NewLabel(r) # None
      <4>1. NewLabel(r) \in Label
        BY <1>1, <1>2 DEF RunOK, NewLabel, Label
      <4> QED  BY <1>1, <1>2, <4>1, NoneApart DEF NewLabel, RunOK
    <3>3. /\ e.label # None /\ e.label.cfg = r.cfg
          /\ e.label = NewLabel(r) \/ (e.label = r.prev /\ r.prev.m # r.m)
      BY <1>2, <1>3, <3>2 DEF FinalLabel, RunOK
    <3>4. db.label # None => db.label.cfg = r.cfg
      BY <1>4, <3>1 DEF OneConfiguration
    <3>5. \A q \in Paths : Active(e, q) => e.label # None /\ e.chunk[q].cfg = e.label.cfg
      BY <1>3, <2>1, <3>1, <3>3, <3>4 DEF OneConfiguration, AllChunkedUnder, Held
    <3>6. \A k \in Running : e.label.cfg = run[k].cfg /\ run[k].m = r.m
      BY <3>1, <3>3 DEF SameSettings
    <3>7. \A k \in Running : run[k].m # conf.m => e.label.m # conf.m
      BY <3>1, <3>2, <3>3, <3>6 DEF LabelKept
    <3>8. ASSUME e.label.m = conf.m PROVE AllParsedWith(e, conf.m)
      <4>1. r.m = conf.m
        BY <3>1, <3>7, <3>8
      <4>3. ~ r.failedManifest
        BY <1>2, <1>3, <3>8, <4>1 DEF FinalLabel, RunOK
      <4>4. CASE ~ r.promote
        BY <1>3, <1>4, <2>1, <3>1, <4>1, <4>4 DEF LabelKept, AllParsedWith, Held
      <4>5. CASE r.promote
        <5>1. Waiting(r) = Deletions(r)
          BY <1>1 DEF Waiting
        <5>2. \A q \in Paths : Active(db, q) /\ db.chunk[q].text[2] # r.m => q \in Deletions(r)
          BY <1>1, <3>1, <4>3, <4>5, <5>1 DEF LabelKept, Promoting
        <5> QED  BY <1>3, <2>1, <4>1, <5>2 DEF AllParsedWith, Held
      <4> QED  BY <4>4, <4>5
    <3> QED  BY <1>3, <2>1, <3>5, <3>6, <3>7, <3>8 DEF Sound
  <2> QED  BY <1>1, <1>2, <1>3, <2>1, <2>2, Leaves
<1>5. CASE r.rebuild
  <2> DEFINE s == [r EXCEPT !.at = "publish"]
  <2>1. /\ db' = db /\ temp' = [temp EXCEPT ![i] = e] /\ Target(i) = temp[i]
        /\ run' = [run EXCEPT ![i] = s]
    BY <1>1, <1>5 DEF Write, Target
  <2>2. s \in Runs
    <3>1. "publish" \in Places
      BY DEF Places
    <3> QED  BY <1>2, <3>1, FieldSet, Zenon
  <2>3. /\ s.at = "publish" /\ s.m = r.m /\ s.cfg = r.cfg /\ s.rebuild /\ s.prev = r.prev
        /\ s.promote = r.promote /\ s.memo = r.memo /\ s.upd = r.upd
        /\ s.failedManifest = r.failedManifest
    BY <1>2, <1>5 DEF Runs
  <2>4. RunOK(s) /\ ~ r.promote /\ ~ r.failedManifest
    BY <1>1, <1>2, <1>5, <2>3 DEF RunOK
  <2> HIDE DEF s
  <2>5. /\ run'[i] = s /\ temp'[i] = e
        /\ \A k \in Procs \ {i} : run'[k] = run[k] /\ temp'[k] = temp[k]
    BY <1>2, <2>1
  <2>6. IndexTypeOK'
    BY <1>1, <1>2, <1>3, <2>1, <2>2 DEF IndexInv, IndexTypeOK
  <2>7. RunsOK'
    BY <2>4, <2>5 DEF IndexInv, RunsOK
  <2>8. DbsOK'
    <3>1. DbOK(db') /\ \A k \in Procs : DbOK(temp'[k])
      BY <1>3, <2>1, <2>5 DEF IndexInv, DbsOK
    <3> QED  BY <1>1, <3>1 DEF DbsOK, DbOK, PathOK
  <2>9. CopiesOK'
    <3>1. e.label = NewLabel(s)
      BY <1>3, <2>3, <2>4 DEF FinalLabel, NewLabel
    <3>2. AllParsedWith(temp[i], r.m) /\ AllChunkedUnder(temp[i], r.cfg)
      BY <1>1, <1>5 DEF IndexInv, CopiesOK, CopyOK
    <3>3. AllParsedWith(e, s.m) /\ AllChunkedUnder(e, s.cfg)
      BY <1>3, <2>1, <2>3, <3>2 DEF AllParsedWith, AllChunkedUnder, Held
    <3>4. CopyOK(i)'
      BY <2>5, <3>1, <3>3 DEF CopyOK, AllParsedWith, AllChunkedUnder, NewLabel
    <3>5. ASSUME NEW k \in Procs \ {i}
          PROVE  CopyOK(k)' /\ (run'[k].at = "publish" => run'[k].rebuild)
      BY <2>5 DEF IndexInv, CopiesOK, CopyOK, AllParsedWith, AllChunkedUnder, NewLabel
    <3> QED  BY <2>3, <2>5, <3>4, <3>5 DEF CopiesOK
  <2>10. Unmixed'
    <3> SUFFICES ASSUME ~ mixed PROVE SameSettings' /\ OneConfiguration' /\ LabelKept'
      BY <1>1 DEF Unmixed
    <3>1. SameSettings /\ OneConfiguration /\ LabelKept
      BY DEF IndexInv, Unmixed
    <3>2. Running' = Running
      BY <1>1, <2>3, <2>5 DEF Running
    <3>3. \A k \in Procs : /\ run'[k].m = run[k].m /\ run'[k].cfg = run[k].cfg
                           /\ run'[k].rebuild <=> run[k].rebuild
                           /\ run'[k].promote = run[k].promote /\ run'[k].prev = run[k].prev
      <4>1. ASSUME NEW k \in Procs \ {i} PROVE run'[k] = run[k]
        BY <2>5
      <4> QED  BY <1>5, <2>3, <2>5, <4>1
    <3>4. SameSettings' /\ OneConfiguration'
      BY <2>1, <3>1, <3>2, <3>3 DEF SameSettings, OneConfiguration, AllChunkedUnder, Running
    <3>5. \A k \in Running : Promoting(run[k])'
      BY <2>1, <2>3, <2>4, <2>5, <3>1 DEF LabelKept, Promoting, Running
    <3> QED  BY <1>1, <2>1, <3>1, <3>2, <3>3, <3>4, <3>5 DEF LabelKept, AllParsedWith, Running
  <2> QED  BY <2>6, <2>7, <2>8, <2>9, <2>10 DEF IndexInv
<1> QED  BY <1>4, <1>5

(* os.replace: the copy is of one manifest and one configuration.          *)
LEMMA PublishStep ==
    ASSUME IndexInv, NEW i \in Procs, Publish(i)
    PROVE  IndexInv'
<1> DEFINE e == temp[i]
<1>1. /\ run[i].at = "publish" /\ db' = e /\ temp' = [temp EXCEPT ![i] = EmptyDb]
      /\ run' = [run EXCEPT ![i] = Idle] /\ UNCHANGED <<disk, conf, mixed>>
  BY DEF Publish, Advance
<1>2. e \in Databases /\ DbOK(e) /\ RunOK(run[i])
  BY DEF IndexInv, IndexTypeOK, DbsOK, RunsOK
<1>3. /\ AllParsedWith(e, run[i].m) /\ AllChunkedUnder(e, run[i].cfg)
      /\ e.label = NewLabel(run[i])
  BY <1>1 DEF IndexInv, CopiesOK, CopyOK
<1>4. NewLabel(run[i]) # None /\ NewLabel(run[i]).m = run[i].m
      /\ NewLabel(run[i]).cfg = run[i].cfg
  <2>1. NewLabel(run[i]) \in Label
    BY <1>1, <1>2 DEF RunOK, NewLabel, Label
  <2> QED  BY <2>1, NoneApart DEF NewLabel
<1>5. ASSUME ~ mixed PROVE Sound(i, e)
  <2>1. \A k \in Running : run[k].m = run[i].m /\ run[k].cfg = run[i].cfg
    BY <1>1, <1>5 DEF IndexInv, Unmixed, SameSettings, Running
  <2> QED  BY <1>3, <1>4, <2>1 DEF Sound, AllParsedWith, AllChunkedUnder
<1> QED  BY <1>1, <1>2, <1>5, EmptyOK, Leaves

(***************************************************************************)
(* The steps of a run that goes on.                                        *)
(***************************************************************************)
LEMMA Work ==
    ASSUME IndexInv, NEW i \in Procs
    PROVE  /\ run[i] \in Runs /\ RunOK(run[i]) /\ Target(i) \in Databases /\ DbOK(Target(i))
           /\ temp \in [Procs -> Databases] /\ temp[i] \in Databases /\ DbOK(temp[i])
           /\ db \in Databases /\ DbOK(db)
BY DEF IndexInv, IndexTypeOK, RunsOK, DbsOK, Target

(* ... after a transaction,                                                *)
LEMMA Commits ==
    ASSUME IndexInv, NEW i \in Procs, run[i].at # "idle", NEW s, Proceeds(run[i], s),
           NEW e, Writes(i, e), Progress(s, e), Write(i, e), Advance(i, s)
    PROVE  IndexInv'
<1>1. e \in Databases /\ DbOK(e)
  BY DEF Writes
<1>2. run' = [run EXCEPT ![i] = s] /\ UNCHANGED <<disk, conf, mixed>>
  BY DEF Advance
<1>3. CASE run[i].rebuild
  <2>1. Stores(i, e, e)
    BY <1>1, <1>3 DEF Stores, Write
  <2> QED  BY <1>2, <2>1, GoesOn
<1>4. CASE ~ run[i].rebuild
  <2>1. Stores(i, e, temp[i])
    BY <1>4, Work DEF Stores, Write
  <2> QED  BY <1>2, <2>1, GoesOn
<1> QED  BY <1>3, <1>4

(* ... without one,                                                        *)
LEMMA Thinks ==
    ASSUME IndexInv, NEW i \in Procs, run[i].at # "idle", NEW s, Proceeds(run[i], s),
           Progress(s, Target(i)), Advance(i, s), UNCHANGED <<db, temp>>
    PROVE  IndexInv'
<1>1. Writes(i, Target(i))
  BY Work DEF Writes, Held
<1>2. Stores(i, Target(i), temp[i])
  BY Work DEF Stores, Target
<1>3. run' = [run EXCEPT ![i] = s] /\ UNCHANGED <<disk, conf, mixed>>
  BY DEF Advance
<1> QED  BY <1>1, <1>2, <1>3, GoesOn

(* ... or after one that failed, unless it is a rebuild.                   *)
LEMMA GivesUp ==
    ASSUME IndexInv, NEW i \in Procs, run[i].at # "idle", NEW s, Proceeds(run[i], s),
           Progress(s, db), GiveUp(i, s)
    PROVE  IndexInv'
<1>0. s.rebuild = run[i].rebuild
  BY DEF Proceeds, Keeps
<1>1. /\ run' = [run EXCEPT ![i] = IF s.rebuild THEN Idle ELSE s]
      /\ db' = db /\ temp' = [temp EXCEPT ![i] = EmptyDb] /\ UNCHANGED <<disk, conf, mixed>>
  BY DEF GiveUp, Advance
<1>2. CASE s.rebuild
  BY <1>1, <1>2, Abandons
<1>3. CASE ~ s.rebuild
  <2>1. Target(i) = db
    BY <1>0, <1>3 DEF Target
  <2>2. Writes(i, db)
    BY <2>1, Work DEF Writes, Held
  <2>3. Stores(i, db, EmptyDb)
    BY <1>0, <1>1, <1>3, EmptyOK DEF Stores
  <2> QED  BY <1>1, <1>3, <2>2, <2>3, GoesOn
<1> QED  BY <1>2, <1>3

(* Nothing is lost of what a promoting run has still to parse, but what it *)
(* has parsed or removed.                                                  *)
LEMMA ProgressKept ==
    ASSUME IndexInv, NEW i \in Procs, run[i].at \notin {"idle", "plan"}, NEW s,
           s.promote = run[i].promote, s.m = run[i].m,
           run[i].failedManifest => s.failedManifest,
           NEW e,
           \A q \in Paths : Active(e, q) =>
              Held(Target(i), e, q) \/ e.chunk[q].text[2] = run[i].m,
           \A q \in Paths : /\ Active(e, q) /\ e.chunk[q].text[2] # run[i].m
                            /\ q \in Waiting(run[i])
                            => q \in Waiting(s)
    PROVE  Progress(s, e)
<1> SUFFICES ASSUME ~ mixed, s.promote, ~ s.failedManifest, NEW q \in Paths, Active(e, q),
                    e.chunk[q].text[2] # s.m
             PROVE  q \in Waiting(s)
  BY DEF Progress
<1>1. ~ run[i].rebuild
  BY DEF IndexInv, RunsOK, RunOK
<1>2. Active(db, q) /\ db.chunk[q].text[2] # run[i].m
  BY <1>1 DEF Held, Target
<1>3. Promoting(run[i])
  BY DEF IndexInv, Unmixed, LabelKept, Running
<1>4. q \in Waiting(run[i])
  BY <1>2, <1>3 DEF Promoting
<1> QED  BY <1>4

(* source_hashes: what the run has read.                                   *)
LEMMA Reads ==
    ASSUME NEW d \in Databases, NEW r \in Runs, RunOK(r), r.at = "plan"
    PROVE  LET b == [r EXCEPT !.old = [p \in Paths |-> d.row[p].hash]] IN
           /\ b \in Runs /\ RunOK(b) /\ b.at = "plan" /\ \A p \in Paths : b.old[p] = d.row[p].hash
           /\ b.files = r.files /\ b.m = r.m /\ b.cfg = r.cfg /\ b.semantic = r.semantic
           /\ b.rebuild = r.rebuild /\ b.prev = r.prev /\ b.promote = r.promote
           /\ b.failedManifest = r.failedManifest /\ b.failed = r.failed
           /\ b.undisturbed = r.undisturbed
<1> DEFINE old == [p \in Paths |-> d.row[p].hash]
           b == [r EXCEPT !.old = old]
<1>1. old \in [Paths -> Contents \cup {None}]
  <2>1. \A p \in Paths : d.row[p].hash \in Contents \cup {None}
    BY DatabasesDef DEF Rows, NoRow
  <2> QED  BY <2>1
<1>2. \A p \in Paths : old[p] = d.row[p].hash
  OBVIOUS
<1> HIDE DEF old
<1>3. b \in Runs
  BY <1>1, FieldSet, Zenon
<1>4. /\ b.at = "plan" /\ b.old = old /\ b.memo = r.memo /\ b.upd = r.upd
      /\ b.files = r.files /\ b.m = r.m /\ b.cfg = r.cfg /\ b.semantic = r.semantic
      /\ b.rebuild = r.rebuild /\ b.prev = r.prev /\ b.promote = r.promote
      /\ b.failedManifest = r.failedManifest /\ b.failed = r.failed
      /\ b.undisturbed = r.undisturbed
  BY DEF Runs
<1> HIDE DEF b
<1>5. RunOK(b)
  BY <1>4 DEF RunOK
<1> QED  BY <1>2, <1>3, <1>4, <1>5 DEF b, old

(* All that is stored is to be parsed again or removed if the manifest is  *)
(* promoted.                                                               *)
LEMMA PlanStep ==
    ASSUME IndexInv, NEW i \in Procs, Plan(i)
    PROVE  IndexInv'
<1> DEFINE r == run[i]
           d == Target(i)
           b == [r EXCEPT !.old = [p \in Paths |-> d.row[p].hash]]
           s == ToEmbed(b)
<1>1. r.at = "plan" /\ Advance(i, s) /\ UNCHANGED <<db, temp>>
  BY DEF Plan
<1>2. r \in Runs /\ RunOK(r) /\ d \in Databases
  BY Work
<1>3. /\ b \in Runs /\ RunOK(b) /\ b.at = "plan" /\ \A p \in Paths : b.old[p] = d.row[p].hash
      /\ b.m = r.m /\ b.cfg = r.cfg /\ b.rebuild = r.rebuild /\ b.prev = r.prev
      /\ b.promote = r.promote
  BY <1>1, <1>2, Reads
<1> HIDE DEF b
<1>4. \A q \in Paths : Active(d, q) => b.old[q] # None
  BY <1>2, <1>3, DatabasesDef, NoneApart DEF Rows, Active
<1>5. Proceeds(b, s) /\ Waiting(s) = AllWaiting(b)
  BY <1>3, ToEmbedLemma
<1>6. Proceeds(r, s)
  BY <1>3, <1>5 DEF Proceeds, Keeps
<1>7. Progress(s, d)
  <2> SUFFICES ASSUME s.promote, NEW q \in Paths, Active(d, q) PROVE q \in AllWaiting(b)
    BY <1>5 DEF Progress
  <2>1. b.promote /\ b.old[q] # None
    BY <1>3, <1>4, <1>6 DEF Proceeds, Keeps
  <2> QED  BY <2>1 DEF AllWaiting, Deletions, ParseFailures, Prepared, Additions, Changes,
                    Known, SameBytes, Promotions
<1> QED  BY <1>1, <1>6, <1>7, Thinks

(* One source of a loop is done.                                           *)
LEMMA OneDone ==
    ASSUME NEW r \in Runs, RunOK(r), r.at \in {"embed", "suppress", "replace"}, NEW p
    PROVE  LET s == [r EXCEPT !.todo = @ \ {p}] IN
           /\ Proceeds(r, s) /\ SamePlan(r, s) /\ s.at = r.at /\ s.todo = r.todo \ {p}
           /\ Carries(r, s) /\ s.memo = r.memo
<1> DEFINE todo == r.todo \ {p}
           s == [r EXCEPT !.todo = todo]
<1>1. todo \in SUBSET Paths
  BY DEF Runs
<1>2. todo \subseteq r.todo
  OBVIOUS
<1> HIDE DEF todo
<1>3. s \in Runs
  BY <1>1, FieldSet, Zenon
<1>4. /\ s.at = r.at /\ s.todo = todo /\ s.memo = r.memo /\ s.upd = r.upd /\ SamePlan(r, s)
      /\ s.m = r.m /\ s.cfg = r.cfg /\ s.rebuild = r.rebuild /\ s.prev = r.prev
      /\ Carries(r, s)
  BY DEF Runs, SamePlan, Carries
<1> HIDE DEF s
<1>5. RunOK(s) /\ Keeps(r, s)
  BY <1>2, <1>4, PlanKept DEF RunOK, Keeps, SamePlan
<1>6. [r EXCEPT !.todo = @ \ {p}] = s
  BY DEF s, todo
<1> QED  BY <1>3, <1>4, <1>5, <1>6 DEF Proceeds, todo

(* A run that knows more vectors, or what to do with them.                 *)
Informed(r, s) ==
    /\ s \in Runs /\ RunOK(s) /\ SamePlan(r, s) /\ s.at = r.at /\ s.todo = r.todo
    /\ s.m = r.m /\ s.cfg = r.cfg /\ s.rebuild = r.rebuild /\ s.prev = r.prev
    /\ s.semantic = r.semantic /\ s.failed = r.failed /\ s.undisturbed = r.undisturbed
    /\ DOMAIN r.memo \subseteq DOMAIN s.memo

LEMMA MemoSet ==
    ASSUME NEW r \in Runs, RunOK(r), NEW T \in SUBSET ChunkText, DOMAIN r.memo \subseteq T,
           NEW memo \in [T -> Vector \cup {None}],
           \A t \in T : memo[t] # None => memo[t] = [text |-> t, cfg |-> r.cfg],
           NEW upd \in SUBSET (Paths \X ChunkText), \A u \in upd : u[2] \in T
    PROVE  Informed(r, [r EXCEPT !.upd = upd, !.memo = memo])
<1> DEFINE s == [r EXCEPT !.upd = upd, !.memo = memo]
<1>1. memo \in Memos /\ DOMAIN memo = T
  BY DEF Memos
<1>2. s \in Runs
  BY <1>1, FieldSet, Zenon
<1>3. /\ s.at = r.at /\ s.todo = r.todo /\ s.memo = memo /\ s.upd = upd /\ SamePlan(r, s)
      /\ s.m = r.m /\ s.cfg = r.cfg /\ s.rebuild = r.rebuild /\ s.prev = r.prev
      /\ s.semantic = r.semantic /\ s.failed = r.failed /\ s.undisturbed = r.undisturbed
  BY DEF Runs, SamePlan
<1> HIDE DEF s
<1>4. RunOK(s)
  BY <1>1, <1>3, PlanKept DEF RunOK, SamePlan
<1> QED  BY <1>1, <1>2, <1>3, <1>4 DEF s, Informed

LEMMA Remembered ==
    ASSUME NEW r \in Runs, RunOK(r), NEW t \in ChunkText, NEW v \in Vector \cup {None},
           v # None => v = [text |-> t, cfg |-> r.cfg]
    PROVE  Informed(r, Remember(r, t, v)) /\ t \in DOMAIN Remember(r, t, v).memo
<1> DEFINE T == DOMAIN r.memo \cup {t}
           memo == [u \in T |-> IF u = t THEN v ELSE r.memo[u]]
           upd == r.upd
<1>1. T \in SUBSET ChunkText /\ upd \in SUBSET (Paths \X ChunkText)
  BY MemoType DEF Runs
<1>2. \A u \in T : /\ memo[u] \in Vector \cup {None}
                   /\ memo[u] # None => memo[u] = [text |-> u, cfg |-> r.cfg]
  BY MemoType DEF RunOK
<1>3. memo = [u \in T |-> memo[u]]
  OBVIOUS
<1>4. \A u \in upd : u[2] \in T
  BY DEF RunOK
<1>8. DOMAIN r.memo \subseteq T /\ t \in T
  OBVIOUS
<1>9. [r EXCEPT !.upd = upd, !.memo = memo].memo = memo /\ DOMAIN memo = T
  BY DEF Runs
<1>5. Remember(r, t, v) = [r EXCEPT !.upd = upd, !.memo = memo]
  BY DEF Remember, Runs
<1> HIDE DEF T, memo, upd
<1>6. memo \in [T -> Vector \cup {None}]
  BY <1>2, <1>3
<1>7. Informed(r, [r EXCEPT !.upd = upd, !.memo = memo])
  BY <1>1, <1>2, <1>4, <1>6, <1>8, MemoSet, Zenon
<1> QED  BY <1>5, <1>7, <1>8, <1>9, Zenon

(* _embed_with_reuse: a vector that is reused is of the same text.         *)
LEMMA ReusableLemma ==
    ASSUME NEW d \in Databases, DbOK(d), NEW r, NEW t, NEW v \in Reusable(d, r, t)
    PROVE  v \in Vector /\ v = [text |-> t, cfg |-> r.cfg]
<1>1. PICK q \in Paths : /\ v = d.vec[q] /\ d.vec[q] # None /\ d.chunk[q].text = t
                         /\ d.vec[q].cfg = r.cfg
  BY DEF Reusable
<1>2. v \in Vector /\ v.text = t /\ v.cfg = r.cfg
  BY <1>1, DatabasesDef DEF DbOK, PathOK
<1> QED  BY <1>2 DEF Vector

LEMMA Embeds ==
    ASSUME IndexInv, NEW i \in Procs, NEW p \in Paths, Embed(i, p)
    PROVE  LET r == run[i] IN
           \E b : /\ Informed(r, b) /\ TextOf(r, p) \in DOMAIN b.memo
                  /\ Advance(i, IF r.todo = {p} THEN ToRequeue(b) ELSE [b EXCEPT !.todo = @ \ {p}])
<1> DEFINE r == run[i]
           t == TextOf(r, p)
           done(s) == IF r.todo = {p} THEN ToRequeue(s) ELSE [s EXCEPT !.todo = @ \ {p}]
<1>1. r.at = "embed" /\ p \in r.todo
  BY DEF Embed, IsNext
<1>2. r \in Runs /\ RunOK(r) /\ Target(i) \in Databases /\ DbOK(Target(i))
  BY Work
<1>3. t \in ChunkText
  BY <1>1, <1>2, PlanType DEF RunOK, TextOf, ChunkText
<1>4. \/ t \in DOMAIN r.memo /\ Advance(i, done(r))
      \/ \E v \in Reusable(Target(i), r, t) : Advance(i, done(Remember(r, t, v)))
      \/ Advance(i, done(Remember(r, t, [text |-> t, cfg |-> r.cfg])))
      \/ Advance(i, done(Remember(r, t, None)))
  BY DEF Embed
<1>5. [text |-> t, cfg |-> r.cfg] \in Vector
  BY <1>1, <1>2, <1>3 DEF RunOK, Vector
<1> HIDE DEF t, done
<1>6. ASSUME NEW v \in Vector \cup {None}, v # None => v = [text |-> t, cfg |-> r.cfg]
      PROVE  Informed(r, Remember(r, t, v)) /\ t \in DOMAIN Remember(r, t, v).memo
  BY <1>2, <1>3, <1>6, Remembered
<1>7. \A v \in Reusable(Target(i), r, t) : v \in Vector /\ v = [text |-> t, cfg |-> r.cfg]
  BY <1>2, ReusableLemma
<1>8. Informed(r, r)
  BY <1>2 DEF Informed, SamePlan
<1>9. \E b : Informed(r, b) /\ t \in DOMAIN b.memo /\ Advance(i, done(b))
  <2>1. None \in Vector \cup {None}
    OBVIOUS
  <2> QED  BY <1>4, <1>5, <1>6, <1>7, <1>8, <2>1, Zenon
<1> QED  BY <1>9 DEF t, done

LEMMA EmbedDone ==
    ASSUME NEW r \in Runs, RunOK(r), r.at = "embed", NEW p, NEW b, Informed(r, b)
    PROVE  LET s == IF r.todo = {p} THEN ToRequeue(b) ELSE [b EXCEPT !.todo = @ \ {p}] IN
           /\ Proceeds(r, s) /\ SamePlan(r, s) /\ Carries(b, s) /\ Waiting(s) = Waiting(r)
           /\ r.semantic => \/ s.at = "embed" /\ s.todo = r.todo \ {p}
                            \/ s.at = "requeue" /\ r.todo = {p}
<1> DEFINE s == IF r.todo = {p} THEN ToRequeue(b) ELSE [b EXCEPT !.todo = @ \ {p}]
<1>1. /\ b \in Runs /\ RunOK(b) /\ SamePlan(r, b) /\ b.at = "embed" /\ b.todo = r.todo
      /\ b.m = r.m /\ b.cfg = r.cfg /\ b.rebuild = r.rebuild /\ b.prev = r.prev
      /\ b.semantic = r.semantic
  BY DEF Informed
<1>2. /\ Proceeds(b, s) /\ SamePlan(b, s) /\ Carries(b, s) /\ Waiting(s) = AllWaiting(b)
      /\ r.semantic => \/ s.at = "embed" /\ s.todo = r.todo \ {p}
                       \/ s.at = "requeue" /\ r.todo = {p}
  <2>1. CASE r.todo = {p}
    BY <1>1, <2>1, ToRequeueLemma
  <2>2. CASE r.todo # {p}
    <3> DEFINE c == [b EXCEPT !.todo = @ \ {p}]
    <3>1. Proceeds(b, c) /\ SamePlan(b, c) /\ Carries(b, c) /\ c.at = "embed"
          /\ c.todo = r.todo \ {p}
      BY <1>1, OneDone
    <3> HIDE DEF c
    <3>2. Waiting(c) = AllWaiting(b)
      BY <3>1, PlanKept DEF Waiting, AllWaiting
    <3> QED  BY <2>2, <3>1, <3>2 DEF c
  <2> QED  BY <2>1, <2>2
<1> HIDE DEF s
<1>3. Proceeds(r, s) /\ SamePlan(r, s)
  BY <1>1, <1>2 DEF Proceeds, Keeps, SamePlan
<1>4. Waiting(r) = AllWaiting(b)
  BY <1>1, PlanKept DEF Waiting, AllWaiting
<1> QED  BY <1>2, <1>3, <1>4 DEF s

LEMMA EmbedStep ==
    ASSUME IndexInv, NEW i \in Procs, NEW p \in Paths, Embed(i, p)
    PROVE  IndexInv'
<1> DEFINE r == run[i]
           done(b) == IF r.todo = {p} THEN ToRequeue(b) ELSE [b EXCEPT !.todo = @ \ {p}]
<1>1. r.at = "embed" /\ UNCHANGED <<db, temp>>
  BY DEF Embed
<1>2. r \in Runs /\ RunOK(r)
  BY Work
<1>3. PICK b : Informed(r, b) /\ Advance(i, done(b))
  BY Embeds
<1> DEFINE s == done(b)
<1>4. Proceeds(r, s) /\ SamePlan(r, s) /\ Waiting(s) = Waiting(r)
  BY <1>1, <1>2, <1>3, EmbedDone
<1>5. Advance(i, s)
  BY <1>3
<1> HIDE DEF s, done
<1>6. Progress(s, Target(i))
  <2>1. /\ r.at \notin {"idle", "plan"} /\ s.promote = r.promote /\ s.m = r.m
        /\ r.failedManifest => s.failedManifest
    BY <1>1, <1>4 DEF SamePlan, Proceeds, Keeps
  <2>2. \A q \in Paths : Active(Target(i), q) => Held(Target(i), Target(i), q)
    BY DEF Held
  <2> QED  BY <1>4, <2>1, <2>2, ProgressKept
<1> QED  BY <1>1, <1>4, <1>5, <1>6, Thinks

LEMMA RequeueStep ==
    ASSUME IndexInv, NEW i \in Procs, Requeue(i)
    PROVE  IndexInv'
<1> DEFINE r == run[i]
           e == Requeued(Target(i), r)
           s == [r EXCEPT !.at = "pending"]
<1>1. r.at = "requeue" /\ Write(i, e) /\ Advance(i, s)
  BY DEF Requeue
<1>2. r \in Runs /\ RunOK(r) /\ Target(i) \in Databases /\ DbOK(Target(i))
  BY Work
<1>3. s \in Runs
  <2>1. "pending" \in Places
    BY DEF Places
  <2> QED  BY <1>2, <2>1, FieldSet, Zenon
<1>4. /\ s.at = "pending" /\ s.memo = r.memo /\ s.upd = r.upd /\ SamePlan(r, s)
      /\ s.m = r.m /\ s.cfg = r.cfg /\ s.rebuild = r.rebuild /\ s.prev = r.prev
  BY <1>2 DEF Runs, SamePlan
<1> HIDE DEF s
<1>5. Proceeds(r, s)
  BY <1>1, <1>2, <1>3, <1>4 DEF RunOK, Proceeds, Keeps, SamePlan
<1>6. /\ e \in Databases /\ e.label = Target(i).label /\ DbOK(e)
      /\ \A q \in Paths : Active(e, q) => Held(Target(i), e, q)
  BY <1>2, RequeuedLemma
<1> HIDE DEF e
<1>7. Writes(i, e)
  BY <1>6 DEF Writes
<1>8. Waiting(s) = Waiting(r)
  BY <1>1, <1>4, PlanKept DEF Waiting
<1>9. Progress(s, e)
  BY <1>1, <1>4, <1>6, <1>8, ProgressKept DEF SamePlan
<1> QED  BY <1>1, <1>5, <1>7, <1>9, Commits

(* pending_chunks: what is retried is text the index holds.                *)
LEMMA PendingLemma ==
    ASSUME NEW d \in Databases, DbOK(d), NEW r \in Runs
    PROVE  PendingOf(d, r) \in SUBSET (Paths \X ChunkText)
<1> SUFFICES ASSUME NEW p \in Unchanged(r), Active(d, p)
             PROVE  p \in Paths /\ d.chunk[p].text \in ChunkText
  BY DEF PendingOf
<1>1. p \in Paths
  BY PlanType
<1>2. d.chunk[p] \in Chunks
  BY <1>1, DatabasesDef DEF DbOK, PathOK
<1> QED  BY <1>1, <1>2 DEF Chunks

LEMMA Retries ==
    ASSUME IndexInv, NEW i \in Procs, RetryPending(i)
    PROVE  \E b : Informed(run[i], b) /\ Advance(i, ToSuppress(b))
<1> DEFINE r == run[i]
           upd == PendingOf(Target(i), r)
           texts == {u[2] : u \in upd} \ DOMAIN r.memo
           T == DOMAIN r.memo \cup texts
           memo(lost) == [t \in T |-> IF t \in DOMAIN r.memo THEN r.memo[t]
                                      ELSE IF t \in lost THEN None
                                      ELSE [text |-> t, cfg |-> r.cfg]]
           b(lost) == [r EXCEPT !.upd = upd, !.memo = memo(lost)]
<1>1. PICK lost \in SUBSET texts : Advance(i, ToSuppress(b(lost)))
  BY DEF RetryPending
<1>2. r.at = "pending" /\ UNCHANGED <<db, temp>>
  BY DEF RetryPending
<1>3. r \in Runs /\ RunOK(r) /\ Target(i) \in Databases /\ DbOK(Target(i))
  BY Work
<1>4. upd \in SUBSET (Paths \X ChunkText)
  BY <1>3, PendingLemma
<1> HIDE DEF upd
<1>5. T \in SUBSET ChunkText /\ DOMAIN r.memo \subseteq T /\ \A u \in upd : u[2] \in T
  BY <1>3, <1>4, MemoType
<1>6. \A t \in T : /\ memo(lost)[t] \in Vector \cup {None}
                   /\ memo(lost)[t] # None => memo(lost)[t] = [text |-> t, cfg |-> r.cfg]
  <2> SUFFICES ASSUME NEW t \in T
               PROVE  /\ memo(lost)[t] \in Vector \cup {None}
                      /\ memo(lost)[t] # None => memo(lost)[t] = [text |-> t, cfg |-> r.cfg]
    OBVIOUS
  <2>1. [text |-> t, cfg |-> r.cfg] \in Vector
    BY <1>2, <1>3, <1>5 DEF RunOK, Vector
  <2>2. t \in DOMAIN r.memo => /\ r.memo[t] \in Vector \cup {None}
                               /\ r.memo[t] # None => r.memo[t] = [text |-> t, cfg |-> r.cfg]
    BY <1>3, MemoType DEF RunOK
  <2> QED  BY <2>1, <2>2
<1>7. memo(lost) \in [T -> Vector \cup {None}]
  <2>1. memo(lost) = [t \in T |-> memo(lost)[t]]
    OBVIOUS
  <2> HIDE DEF memo, T
  <2> QED  BY <1>6, <2>1
<1> HIDE DEF T, memo
<1>8. Informed(r, b(lost))
  BY <1>3, <1>4, <1>5, <1>6, <1>7, MemoSet, Zenon
<1> QED  BY <1>1, <1>8

LEMMA RetryDone ==
    ASSUME NEW r \in Runs, RunOK(r), r.at = "pending", NEW b, Informed(r, b)
    PROVE  LET s == ToSuppress(b) IN
           /\ Proceeds(r, s) /\ SamePlan(r, s) /\ Carries(b, s) /\ Waiting(s) = Waiting(r)
<1> DEFINE s == ToSuppress(b)
<1>1. Proceeds(b, s) /\ SamePlan(b, s) /\ Carries(b, s) /\ Waiting(s) = AllWaiting(b)
  BY ToSuppressLemma DEF Informed
<1> HIDE DEF s
<1>2. Proceeds(r, s) /\ SamePlan(r, s)
  BY <1>1 DEF Proceeds, Keeps, SamePlan, Informed
<1>3. Waiting(r) = AllWaiting(b)
  BY PlanKept DEF Waiting, AllWaiting, Informed
<1> QED  BY <1>1, <1>2, <1>3 DEF s

LEMMA RetryPendingStep ==
    ASSUME IndexInv, NEW i \in Procs, RetryPending(i)
    PROVE  IndexInv'
<1> DEFINE r == run[i]
<1>1. r.at = "pending" /\ UNCHANGED <<db, temp>>
  BY DEF RetryPending
<1>2. r \in Runs /\ RunOK(r)
  BY Work
<1>3. PICK b : Informed(r, b) /\ Advance(i, ToSuppress(b))
  BY Retries
<1> DEFINE s == ToSuppress(b)
<1>4. Proceeds(r, s) /\ SamePlan(r, s) /\ Waiting(s) = Waiting(r)
  BY <1>1, <1>2, <1>3, RetryDone
<1>5. Advance(i, s)
  BY <1>3
<1> HIDE DEF s
<1>6. Progress(s, Target(i))
  <2>1. /\ r.at \notin {"idle", "plan"} /\ s.promote = r.promote /\ s.m = r.m
        /\ r.failedManifest => s.failedManifest
    BY <1>1, <1>4 DEF SamePlan, Proceeds, Keeps
  <2>2. \A q \in Paths : Active(Target(i), q) => Held(Target(i), Target(i), q)
    BY DEF Held
  <2> QED  BY <1>4, <2>1, <2>2, ProgressKept
<1> QED  BY <1>1, <1>4, <1>5, <1>6, Thinks

(* A transaction that raised StorageError and is recorded: a promoting run *)
(* that could not store a source keeps the previous label.                 *)
LEMMA RecordedLemma ==
    ASSUME NEW r \in Runs, RunOK(r), NEW b \in BOOLEAN
    PROVE  LET s == Recorded(r, b) IN
           /\ s \in Runs /\ RunOK(s) /\ s.at = r.at /\ s.todo = r.todo
           /\ s.m = r.m /\ s.cfg = r.cfg /\ s.rebuild = r.rebuild /\ s.prev = r.prev
           /\ s.promote = r.promote /\ s.files = r.files /\ s.old = r.old
           /\ (r.failedManifest \/ (b /\ r.promote)) => s.failedManifest
           /\ s.failed
<1> DEFINE x == r.failedManifest \/ (b /\ r.promote)
           s == [r EXCEPT !.failed = TRUE, !.failedManifest = x]
<1>1. Recorded(r, b) = s
  BY DEF Recorded
<1>2. x \in BOOLEAN /\ (x => r.promote)
  BY DEF RunOK
<1>3. x <=> r.failedManifest \/ (b /\ r.promote)
  OBVIOUS
<1> HIDE DEF x
<1>4. s \in Runs
  BY <1>2, FieldSet, Zenon
<1>5. /\ s.at = r.at /\ s.todo = r.todo /\ s.memo = r.memo /\ s.upd = r.upd
      /\ s.m = r.m /\ s.cfg = r.cfg /\ s.rebuild = r.rebuild /\ s.prev = r.prev
      /\ s.promote = r.promote /\ s.files = r.files /\ s.old = r.old
      /\ s.failedManifest = x /\ s.failed
  BY DEF Runs
<1> HIDE DEF s
<1>6. Prepared(s) = Prepared(r) /\ ParseFailures(s) = ParseFailures(r)
  BY <1>5 DEF Prepared, ParseFailures, Additions, Changes, Known, SameBytes, Promotions
<1>7. RunOK(s)
  BY <1>2, <1>5, <1>6 DEF RunOK
<1> QED  BY <1>1, <1>3, <1>4, <1>5, <1>7

(* The loop over the sources that failed to parse.                         *)
LEMMA SuppressDone ==
    ASSUME NEW r \in Runs, RunOK(r), r.at = "suppress", NEW p
    PROVE  LET s == IF r.todo = {p} THEN ToReplace(r) ELSE [r EXCEPT !.todo = @ \ {p}] IN
           /\ Proceeds(r, s) /\ SamePlan(r, s) /\ Carries(r, s)
           /\ \A q : q # p /\ q \in Waiting(r) => q \in Waiting(s)
<1>1. Waiting(r) = Deletions(r) \cup r.todo \cup Prepared(r)
  BY DEF Waiting
<1>2. CASE r.todo = {p}
  BY <1>1, <1>2, ToReplaceLemma
<1>3. CASE r.todo # {p}
  <2> DEFINE s == [r EXCEPT !.todo = @ \ {p}]
  <2>1. /\ Proceeds(r, s) /\ SamePlan(r, s) /\ Carries(r, s)
        /\ s.at = "suppress" /\ s.todo = r.todo \ {p}
    BY OneDone
  <2> HIDE DEF s
  <2>2. Waiting(s) = Deletions(r) \cup (r.todo \ {p}) \cup Prepared(r)
    BY <2>1, PlanKept DEF Waiting
  <2> QED  BY <1>1, <1>3, <2>1, <2>2 DEF s
<1> QED  BY <1>2, <1>3

LEMMA SuppressStep ==
    ASSUME IndexInv, NEW i \in Procs, NEW p \in Paths, Suppress(i, p)
    PROVE  IndexInv'
<1> DEFINE r == run[i]
           done(s) == IF r.todo = {p} THEN ToReplace(s) ELSE [s EXCEPT !.todo = @ \ {p}]
           e == SuppressedBy(Target(i), r, p)
           b == Recorded(r, TRUE)
<1>1. /\ r.at = "suppress" /\ p \in r.todo
      /\ \/ Write(i, e) /\ Advance(i, done(r))
         \/ GiveUp(i, done(b))
  BY DEF Suppress, IsNext
<1>2. r \in Runs /\ RunOK(r) /\ Target(i) \in Databases /\ DbOK(Target(i))
  BY Work
<1>3. CASE Write(i, e) /\ Advance(i, done(r))
  <2> DEFINE s == done(r)
  <2>1. /\ Proceeds(r, s) /\ SamePlan(r, s)
        /\ \A q : q # p /\ q \in Waiting(r) => q \in Waiting(s)
    BY <1>1, <1>2, SuppressDone
  <2>2. Write(i, e) /\ Advance(i, s)
    BY <1>3
  <2> HIDE DEF s
  <2>3. p \in ParseFailures(r)
    BY <1>1, <1>2 DEF RunOK
  <2>4. /\ e \in Databases /\ e.label = Target(i).label /\ DbOK(e)
        /\ \A q \in Paths : Active(e, q) => q # p /\ Held(Target(i), e, q)
    BY <1>2, <2>3, SuppressedLemma
  <2> HIDE DEF e
  <2>5. Writes(i, e)
    BY <2>4 DEF Writes
  <2>6. Progress(s, e)
    <3>1. /\ r.at \notin {"idle", "plan"} /\ s.promote = r.promote /\ s.m = r.m
          /\ r.failedManifest => s.failedManifest
      BY <1>1, <2>1 DEF SamePlan, Proceeds, Keeps
    <3> QED  BY <2>1, <2>4, <3>1, ProgressKept
  <2> QED  BY <1>1, <2>1, <2>2, <2>5, <2>6, Commits
<1>4. CASE GiveUp(i, done(b))
  <2> DEFINE s == done(b)
  <2>1. /\ b \in Runs /\ RunOK(b) /\ b.at = "suppress" /\ b.todo = r.todo
        /\ b.m = r.m /\ b.cfg = r.cfg /\ b.rebuild = r.rebuild /\ b.prev = r.prev
        /\ b.promote = r.promote /\ (r.promote => b.failedManifest)
    BY <1>1, <1>2, RecordedLemma
  <2> HIDE DEF b
  <2>2. Proceeds(b, s) /\ SamePlan(b, s)
    BY <2>1, SuppressDone
  <2>3. GiveUp(i, s)
    BY <1>4
  <2> HIDE DEF s
  <2>4. Proceeds(r, s) /\ Progress(s, db)
    BY <2>1, <2>2 DEF Proceeds, Keeps, SamePlan, Progress
  <2> QED  BY <1>1, <2>3, <2>4, GivesUp
<1> QED  BY <1>1, <1>3, <1>4

(* The loop over the sources that were parsed.                             *)
LEMMA ReplaceDone ==
    ASSUME NEW r \in Runs, RunOK(r), r.at = "replace", NEW p
    PROVE  LET s == IF r.todo = {p} THEN ToUpdate(r) ELSE [r EXCEPT !.todo = @ \ {p}] IN
           /\ Proceeds(r, s) /\ SamePlan(r, s) /\ Carries(r, s)
           /\ \A q : q # p /\ q \in Waiting(r) => q \in Waiting(s)
<1>1. Waiting(r) = Deletions(r) \cup r.todo
  BY DEF Waiting
<1>2. CASE r.todo = {p}
  BY <1>1, <1>2, ToUpdateLemma
<1>3. CASE r.todo # {p}
  <2> DEFINE s == [r EXCEPT !.todo = @ \ {p}]
  <2>1. /\ Proceeds(r, s) /\ SamePlan(r, s) /\ Carries(r, s)
        /\ s.at = "replace" /\ s.todo = r.todo \ {p}
    BY OneDone
  <2> HIDE DEF s
  <2>2. Waiting(s) = Deletions(r) \cup (r.todo \ {p})
    BY <2>1, PlanKept DEF Waiting
  <2> QED  BY <1>1, <1>3, <2>1, <2>2 DEF s
<1> QED  BY <1>2, <1>3

LEMMA ReplaceStep ==
    ASSUME IndexInv, NEW i \in Procs, NEW p \in Paths, Replace(i, p)
    PROVE  IndexInv'
<1> DEFINE r == run[i]
           d == Target(i)
           done(s) == IF r.todo = {p} THEN ToUpdate(s) ELSE [s EXCEPT !.todo = @ \ {p}]
           e == ReplacedBy(d, r, p)
           b == Recorded(r, TRUE)
<1>1. /\ r.at = "replace" /\ p \in r.todo
      /\ \/ ReplaceAccepted(d, r, p) /\ Write(i, e) /\ Advance(i, done(r))
         \/ GiveUp(i, done(b))
  BY DEF Replace, IsNext
<1>2. r \in Runs /\ RunOK(r) /\ d \in Databases /\ DbOK(d)
  BY Work
<1>3. CASE ReplaceAccepted(d, r, p) /\ Write(i, e) /\ Advance(i, done(r))
  <2> DEFINE s == done(r)
  <2>1. /\ Proceeds(r, s) /\ SamePlan(r, s)
        /\ \A q : q # p /\ q \in Waiting(r) => q \in Waiting(s)
    BY <1>1, <1>2, ReplaceDone
  <2>2. Write(i, e) /\ Advance(i, s)
    BY <1>3
  <2> HIDE DEF s
  <2>3. p \in Prepared(r)
    BY <1>1, <1>2 DEF RunOK
  <2>4. /\ e \in Databases /\ e.label = IF r.promote THEN d.label ELSE NewLabel(r)
        /\ PathOK(e, p) /\ e.chunk[p].text[2] = r.m /\ e.chunk[p].cfg = r.cfg
        /\ \A q \in Paths \ {p} : Same(d, e, q) \/ Emptied(e, q)
    BY <1>1, <1>2, <2>3, ReplacedLemma
  <2> HIDE DEF e
  <2>5. DbOK(e)
    BY <1>2, <2>4, LeftOK DEF DbOK
  <2>6. e.label # None /\ e.label.cfg = r.cfg
    <3>1. CASE r.promote
      BY <1>3, <2>4, <3>1 DEF ReplaceAccepted
    <3>2. CASE ~ r.promote
      <4>1. NewLabel(r) \in Label /\ NewLabel(r).cfg = r.cfg
        BY <1>1, <1>2 DEF RunOK, NewLabel, Label
      <4> QED  BY <2>4, <3>2, <4>1, NoneApart
    <3> QED  BY <3>1, <3>2
  <2>7. \A q \in Paths \ {p} : Active(e, q) => Held(d, e, q)
    BY <2>4, LeftOK
  <2>8. Writes(i, e)
    BY <2>4, <2>5, <2>6, <2>7 DEF Writes, Own
  <2>9. Progress(s, e)
    <3>1. /\ r.at \notin {"idle", "plan"} /\ s.promote = r.promote /\ s.m = r.m
          /\ r.failedManifest => s.failedManifest
      BY <1>1, <2>1 DEF SamePlan, Proceeds, Keeps
    <3> QED  BY <2>1, <2>4, <2>7, <3>1, ProgressKept
  <2> QED  BY <1>1, <2>1, <2>2, <2>8, <2>9, Commits
<1>4. CASE GiveUp(i, done(b))
  <2> DEFINE s == done(b)
  <2>1. /\ b \in Runs /\ RunOK(b) /\ b.at = "replace" /\ b.todo = r.todo
        /\ b.m = r.m /\ b.cfg = r.cfg /\ b.rebuild = r.rebuild /\ b.prev = r.prev
        /\ b.promote = r.promote /\ (r.promote => b.failedManifest)
    BY <1>1, <1>2, RecordedLemma
  <2> HIDE DEF b
  <2>2. Proceeds(b, s) /\ SamePlan(b, s)
    BY <2>1, ReplaceDone
  <2>3. GiveUp(i, s)
    BY <1>4
  <2> HIDE DEF s
  <2>4. Proceeds(r, s) /\ Progress(s, db)
    BY <2>1, <2>2 DEF Proceeds, Keeps, SamePlan, Progress
  <2> QED  BY <1>1, <2>3, <2>4, GivesUp
<1> QED  BY <1>1, <1>3, <1>4

(* A label of the configuration of the run stands for every chunk.         *)
LEMMA ChunkedUnderRun ==
    ASSUME IndexInv, NEW i \in Procs, run[i].at # "idle", UpdateAccepted(Target(i), run[i])
    PROVE  mixed \/ \A p \in Paths : Active(Target(i), p) =>
                        Target(i).chunk[p].cfg = run[i].cfg
<1>1. CASE run[i].rebuild
  BY <1>1 DEF IndexInv, CopiesOK, CopyOK, AllChunkedUnder, Target
<1>2. CASE ~ run[i].rebuild
  BY <1>2 DEF IndexInv, Unmixed, OneConfiguration, AllChunkedUnder, Target, UpdateAccepted
<1> QED  BY <1>1, <1>2

LEMMA UpdatePendingStep ==
    ASSUME IndexInv, NEW i \in Procs, UpdatePending(i)
    PROVE  IndexInv'
<1> DEFINE r == run[i]
           d == Target(i)
           e == UpdatedBy(d, r)
           b == Recorded(r, FALSE)
<1>1. /\ r.at = "update"
      /\ \/ UpdateAccepted(d, r) /\ Write(i, e) /\ Advance(i, ToFinalize(r))
         \/ GiveUp(i, ToFinalize(b))
  BY DEF UpdatePending
<1>2. r \in Runs /\ RunOK(r) /\ d \in Databases /\ DbOK(d)
  BY Work
<1>3. Waiting(r) = Deletions(r)
  BY <1>1 DEF Waiting
<1>4. CASE UpdateAccepted(d, r) /\ Write(i, e) /\ Advance(i, ToFinalize(r))
  <2> DEFINE s == ToFinalize(r)
  <2>1. Proceeds(r, s) /\ SamePlan(r, s) /\ Waiting(s) = Deletions(r)
    BY <1>1, <1>2, ToFinalizeLemma
  <2> HIDE DEF s
  <2>2. mixed \/ \A p \in Paths : Active(d, p) => d.chunk[p].cfg = r.cfg
    BY <1>1, <1>4, ChunkedUnderRun
  <2>3. /\ e \in Databases /\ e.label = d.label /\ DbOK(e)
        /\ \A q \in Paths : Active(e, q) => Held(d, e, q)
    BY <1>2, <1>4, <2>2, UpdatedLemma
  <2> HIDE DEF e
  <2>4. Writes(i, e)
    BY <2>3 DEF Writes
  <2>5. Progress(s, e)
    <3>1. /\ r.at \notin {"idle", "plan"} /\ s.promote = r.promote /\ s.m = r.m
          /\ r.failedManifest => s.failedManifest
      BY <1>1, <2>1 DEF SamePlan, Proceeds, Keeps
    <3> QED  BY <1>3, <2>1, <2>3, <3>1, ProgressKept
  <2>6. Write(i, e) /\ Advance(i, s)
    BY <1>4 DEF s
  <2> QED  BY <1>1, <2>1, <2>4, <2>5, <2>6, Commits
<1>5. CASE GiveUp(i, ToFinalize(b))
  <2> DEFINE s == ToFinalize(b)
  <2>1. /\ b \in Runs /\ RunOK(b) /\ b.at = "update" /\ b.todo = r.todo
        /\ b.m = r.m /\ b.cfg = r.cfg /\ b.rebuild = r.rebuild /\ b.prev = r.prev
        /\ b.promote = r.promote /\ b.files = r.files /\ b.old = r.old
        /\ (r.failedManifest => b.failedManifest)
    BY <1>1, <1>2, RecordedLemma
  <2> HIDE DEF b
  <2>2. Proceeds(b, s) /\ SamePlan(b, s) /\ Waiting(s) = Deletions(b)
    BY <2>1, ToFinalizeLemma
  <2>3. GiveUp(i, s)
    BY <1>5
  <2> HIDE DEF s
  <2>4. Waiting(s) = Waiting(r)
    BY <1>3, <2>1, <2>2 DEF Deletions
  <2>5. Proceeds(r, s)
    BY <2>1, <2>2 DEF Proceeds, Keeps
  <2>6. CASE r.rebuild
    <3>1. Progress(s, db)
      BY <1>2, <2>5, <2>6 DEF RunOK, Proceeds, Keeps, Progress
    <3> QED  BY <1>1, <2>3, <2>5, <3>1, GivesUp
  <2>7. CASE ~ r.rebuild
    <3>1. \A q \in Paths : Active(db, q) => Held(d, db, q)
      BY <2>7 DEF Held, Target
    <3>2. /\ r.at \notin {"idle", "plan"} /\ s.promote = r.promote /\ s.m = r.m
          /\ r.failedManifest => s.failedManifest
      BY <1>1, <2>1, <2>2 DEF SamePlan, Proceeds, Keeps
    <3>3. Progress(s, db)
      BY <2>4, <3>1, <3>2, ProgressKept
    <3> QED  BY <1>1, <2>3, <2>5, <3>3, GivesUp
  <2> QED  BY <2>6, <2>7
<1> QED  BY <1>1, <1>4, <1>5

(***************************************************************************)
(* Users, and runs that start.                                             *)
(***************************************************************************)
(* A run that learns that it is disturbed stays what it was.               *)
Like(r, s) ==
    /\ s \in Runs /\ SamePlan(r, s)
    /\ s.at = r.at /\ s.rebuild = r.rebuild /\ s.m = r.m /\ s.cfg = r.cfg /\ s.prev = r.prev
    /\ s.todo = r.todo /\ s.memo = r.memo /\ s.upd = r.upd

LEMMA DisturbedLike ==
    ASSUME NEW r \in Runs
    PROVE  Like(r, Disturbed(r))
<1> DEFINE s == [r EXCEPT !.undisturbed = FALSE]
<1>1. s \in Runs
  BY FieldSet, Zenon
<1>2. /\ SamePlan(r, s)
      /\ s.at = r.at /\ s.rebuild = r.rebuild /\ s.m = r.m /\ s.cfg = r.cfg /\ s.prev = r.prev
      /\ s.todo = r.todo /\ s.memo = r.memo /\ s.upd = r.upd
  BY DEF Runs, SamePlan
<1> HIDE DEF s
<1>3. Disturbed(r) = s
  BY DEF Disturbed, s
<1> QED  BY <1>1, <1>2, <1>3 DEF Like

LEMMA LikeOK ==
    ASSUME NEW r, NEW s, Like(r, s)
    PROVE  (RunOK(r) => RunOK(s)) /\ Waiting(s) = Waiting(r)
<1>1. SamePlan(r, s)
  BY DEF Like
<1> QED  BY <1>1, PlanKept DEF Like, RunOK, Waiting, SamePlan

LEMMA LikePromoting ==
    ASSUME NEW k \in Procs, Like(run[k], run'[k]), db' = db, Promoting(run[k])
    PROVE  Promoting(run[k])'
<1>1. Waiting(run'[k]) = Waiting(run[k])
  BY LikeOK
<1> QED  BY <1>1 DEF Promoting, Like, SamePlan

LEMMA LikeCopy ==
    ASSUME NEW k \in Procs, Like(run[k], run'[k]), temp'[k] = temp[k], CopyOK(k),
           run[k].at = "publish" => run[k].rebuild
    PROVE  CopyOK(k)' /\ (run'[k].at = "publish" => run'[k].rebuild)
BY DEF Like, CopyOK, AllParsedWith, AllChunkedUnder, NewLabel

(* Users change files and settings: the manifest only becomes one that is  *)
(* not half put in place unless "mixed" says so.                           *)
LEMMA Edits ==
    ASSUME IndexInv, run' = [i \in Procs |-> Disturbed(run[i])], UNCHANGED <<db, temp>>,
           disk' \in [Paths -> Contents \cup {None}],
           conf' \in [m : Manifests, cfg : Configs, semantic : BOOLEAN],
           mixed' \in BOOLEAN, mixed => mixed',
           NEW n, conf'.m = n, ~ mixed' => n = conf.m \/ ~ TakenBack(n)
    PROVE  IndexInv'
<1>1. \A k \in Procs : Like(run[k], run'[k]) /\ run'[k] \in Runs
  BY DisturbedLike DEF IndexInv, IndexTypeOK, Like
<1>2. IndexTypeOK'
  <2>1. run' \in [Procs -> Runs]
    BY <1>1
  <2> QED  BY <2>1 DEF IndexInv, IndexTypeOK
<1>3. RunsOK'
  BY <1>1, LikeOK DEF IndexInv, RunsOK
<1>4. DbsOK'
  BY DEF IndexInv, DbsOK, DbOK, PathOK
<1>5. CopiesOK'
  BY <1>1, LikeCopy DEF IndexInv, CopiesOK
<1>6. Unmixed'
  <2> SUFFICES ASSUME ~ mixed' PROVE SameSettings' /\ OneConfiguration' /\ LabelKept'
    BY DEF Unmixed
  <2>1. SameSettings /\ OneConfiguration /\ LabelKept
    BY DEF IndexInv, Unmixed
  <2>2. Running' = Running /\ Running \subseteq Procs
    BY <1>1 DEF Running, Like
  <2>3. \A k \in Procs : /\ run'[k].m = run[k].m /\ run'[k].cfg = run[k].cfg
                         /\ (run'[k].rebuild <=> run[k].rebuild) /\ run'[k].prev = run[k].prev
                         /\ (run'[k].promote <=> run[k].promote)
    BY <1>1 DEF Like, SamePlan
  <2>8. SameSettings'
    BY <2>1, <2>2, <2>3 DEF SameSettings
  <2>4. OneConfiguration'
    BY <2>1, <2>2, <2>3 DEF OneConfiguration, AllChunkedUnder
  <2>5. \A k \in Running : Promoting(run[k])'
    BY <1>1, <2>1, <2>2, LikePromoting DEF LabelKept
  <2>6. db.label # None /\ db.label.m = n => AllParsedWith(db, n)
    BY <2>1 DEF LabelKept, TakenBack, Coherent, AllParsedWith
  <2>7. \A k \in Running : run[k].m # n =>
            /\ db.label # None => db.label.m # n
            /\ run[k].prev # None => run[k].prev.m # n
    BY <2>1 DEF LabelKept, TakenBack
  <2>9. \A k \in Running :
            ~ run'[k].rebuild /\ ~ run'[k].promote => AllParsedWith(db, run'[k].m)
    BY <2>1, <2>2, <2>3 DEF LabelKept
  <2>10. LabelKept'
    <3>1. (db.label # None /\ db.label.m = conf.m => AllParsedWith(db, conf.m))'
      BY <2>6 DEF AllParsedWith
    <3>2. ASSUME NEW k \in Running
          PROVE  /\ (run[k].m # conf.m =>
                        /\ db.label # None => db.label.m # conf.m
                        /\ run[k].prev # None => run[k].prev.m # conf.m)'
                 /\ (~ run[k].rebuild /\ ~ run[k].promote => AllParsedWith(db, run[k].m))'
      BY <2>2, <2>3, <2>7, <2>9 DEF AllParsedWith
    <3> QED  BY <2>2, <2>5, <3>1, <3>2 DEF LabelKept
  <2> QED  BY <2>4, <2>8, <2>10
<1> QED  BY <1>2, <1>3, <1>4, <1>5, <1>6 DEF IndexInv

LEMMA EditFileStep ==
    ASSUME IndexInv, NEW p \in Paths, EditFile(p)
    PROVE  IndexInv'
<1>1. disk' \in [Paths -> Contents \cup {None}]
  BY DEF EditFile, IndexInv, IndexTypeOK
<1> QED  BY <1>1, Edits DEF EditFile, Edit, IndexInv, IndexTypeOK

LEMMA RenameFileStep ==
    ASSUME IndexInv, NEW p \in Paths, NEW q \in Paths, RenameFile(p, q)
    PROVE  IndexInv'
<1>1. disk' \in [Paths -> Contents \cup {None}]
  BY DEF RenameFile, IndexInv, IndexTypeOK
<1> QED  BY <1>1, Edits DEF RenameFile, Edit, IndexInv, IndexTypeOK

LEMMA ConfigureStep ==
    ASSUME IndexInv, Configure
    PROVE  IndexInv'
<1>1. conf \in [m : Manifests, cfg : Configs, semantic : BOOLEAN] /\ mixed \in BOOLEAN
  BY DEF IndexInv, IndexTypeOK
<1>2. /\ run' = [i \in Procs |-> Disturbed(run[i])] /\ UNCHANGED <<db, temp>>
      /\ disk' \in [Paths -> Contents \cup {None}]
  BY DEF Configure, Edit, IndexInv, IndexTypeOK
<1> DEFINE Allowed(n) ==
                /\ conf' \in [m : Manifests, cfg : Configs, semantic : BOOLEAN]
                /\ mixed' \in BOOLEAN /\ (mixed => mixed') /\ conf'.m = n
                /\ ~ mixed' => n = conf.m \/ ~ TakenBack(n)
<1>3. \E n : Allowed(n)
  <2>1. ASSUME NEW n \in Manifests, conf' = [conf EXCEPT !.m = n],
               mixed' = (mixed \/ TakenBack(n))
        PROVE  Allowed(n)
    BY <1>1, <2>1
  <2>2. ASSUME NEW n \in Configs, conf' = [conf EXCEPT !.cfg = n], UNCHANGED mixed
        PROVE  Allowed(conf.m)
    BY <1>1, <2>2
  <2>3. ASSUME conf' = [conf EXCEPT !.semantic = ~ @], UNCHANGED mixed
        PROVE  Allowed(conf.m)
    BY <1>1, <2>3
  <2> HIDE DEF Allowed
  <2> QED  BY <2>1, <2>2, <2>3 DEF Configure
<1> QED  BY <1>2, <1>3, Edits

(* What an indexer that starts knows.                                      *)
LEMMA StartedLemma ==
    ASSUME IndexTypeOK, NEW d \in Databases, NEW rebuild \in BOOLEAN
    PROVE  LET r == Started(d, rebuild) IN
           /\ r \in Runs /\ r.at = "plan" /\ (r.rebuild <=> rebuild)
           /\ r.m = conf.m /\ r.cfg = conf.cfg /\ r.prev = d.label
           /\ r.memo = <<>> /\ r.upd = {} /\ ~ r.failedManifest
           /\ r.promote <=> d.label # None /\ d.label.m # conf.m
           /\ r.files = disk /\ r.semantic = conf.semantic
           /\ r.undisturbed <=> Running = {} /\ (d.label # NewLabel(conf) \/ Coherent(d))
<1> DEFINE promote == d.label # None /\ d.label.m # conf.m
           undisturbed == Running = {} /\ (d.label # NewLabel(conf) \/ Coherent(d))
           r == [Idle EXCEPT !.at = "plan", !.rebuild = rebuild, !.files = disk,
                             !.m = conf.m, !.cfg = conf.cfg, !.semantic = conf.semantic,
                             !.promote = promote, !.prev = d.label,
                             !.undisturbed = undisturbed]
<1>1. Started(d, rebuild) = r
  BY DEF Started
<1>2. /\ promote \in BOOLEAN /\ undisturbed \in BOOLEAN /\ d.label \in Label \cup {None}
      /\ "plan" \in Places /\ disk \in [Paths -> Contents \cup {None}]
      /\ conf.m \in Manifests \cup {None} /\ conf.cfg \in Configs \cup {None}
      /\ conf.semantic \in BOOLEAN
  BY DatabasesDef DEF IndexTypeOK, Places
<1>3. /\ promote <=> d.label # None /\ d.label.m # conf.m
      /\ undisturbed <=> Running = {} /\ (d.label # NewLabel(conf) \/ Coherent(d))
  OBVIOUS
<1> HIDE DEF promote, undisturbed
<1>4. r \in Runs
  <2> DEFINE a == [Idle EXCEPT !.at = "plan", !.rebuild = rebuild, !.files = disk]
             b == [a EXCEPT !.m = conf.m, !.cfg = conf.cfg, !.semantic = conf.semantic]
             c == [b EXCEPT !.promote = promote, !.prev = d.label, !.undisturbed = undisturbed]
  <2>1. r = c
    OBVIOUS
  <2>2. a \in Runs
    BY <1>2, IdleOK, FieldSet, Zenon
  <2> HIDE DEF a
  <2>3. b \in Runs
    BY <1>2, <2>2, FieldSet, Zenon
  <2> HIDE DEF b
  <2>4. c \in Runs
    BY <1>2, <2>3, FieldSet, Zenon
  <2> QED  BY <2>1, <2>4, Zenon
<1>5. /\ r.at = "plan" /\ r.rebuild = rebuild
      /\ r.m = conf.m /\ r.cfg = conf.cfg /\ r.prev = d.label /\ r.promote = promote
      /\ r.memo = Idle.memo /\ r.upd = Idle.upd /\ r.failedManifest = Idle.failedManifest
      /\ r.files = disk /\ r.semantic = conf.semantic /\ r.undisturbed = undisturbed
  <2>1. Idle \in Runs
    BY IdleOK
  <2> QED  BY <2>1 DEF Runs
<1>6. Idle.memo = <<>> /\ Idle.upd = {} /\ ~ Idle.failedManifest
  BY DEF Idle
<1> HIDE DEF r
<1> QED  BY <1>1, <1>3, <1>4, <1>5, <1>6

(* A run starts, on the index or on an empty copy.                         *)
LEMMA Enters ==
    ASSUME IndexInv, NEW i \in Procs, NEW r \in Runs, RunOK(r), r.at = "plan",
           r.m = conf.m, r.cfg = conf.cfg,
           r.rebuild => ~ r.promote,
           ~ r.rebuild => /\ db.label # None => db.label.cfg = conf.cfg
                          /\ r.promote <=> db.label # None /\ db.label.m # conf.m,
           NEW x \in Databases, DbOK(x), r.rebuild => x = EmptyDb,
           temp' = [temp EXCEPT ![i] = x], Enter(i, r), UNCHANGED <<disk, conf, db>>
    PROVE  IndexInv'
<1>1. /\ run \in [Procs -> Runs] /\ temp \in [Procs -> Databases] /\ mixed \in BOOLEAN
      /\ run' = [j \in Procs |-> IF j = i THEN r ELSE Disturbed(run[j])]
      /\ mixed' = (mixed \/ \E j \in Running : run[j].m # conf.m \/ run[j].cfg # conf.cfg)
      /\ run[i].at = "idle"
  BY DEF IndexInv, IndexTypeOK, Enter
<1>2. /\ run'[i] = r /\ \A k \in Procs \ {i} : Like(run[k], run'[k]) /\ run'[k] \in Runs
      /\ temp'[i] = x /\ \A k \in Procs \ {i} : temp'[k] = temp[k]
  BY <1>1, DisturbedLike DEF Like
<1>3. IndexTypeOK'
  <2>1. run' \in [Procs -> Runs]
    BY <1>1, <1>2
  <2> QED  BY <1>1, <2>1 DEF IndexInv, IndexTypeOK
<1>4. RunsOK'
  BY <1>2, LikeOK DEF IndexInv, RunsOK
<1>5. DbsOK'
  <2>1. DbOK(db') /\ \A k \in Procs : DbOK(temp'[k])
    BY <1>2 DEF IndexInv, DbsOK
  <2> QED  BY <1>1, <2>1 DEF DbsOK, DbOK, PathOK
<1>6. CopiesOK'
  <2>1. CopyOK(i)' /\ run'[i].at # "publish"
    <3>1. EmptyDb.label = None
      BY DEF EmptyDb
    <3> QED  BY <1>2, <3>1, EmptyOK DEF CopyOK, AllParsedWith, AllChunkedUnder
  <2>2. \A k \in Procs \ {i} : CopyOK(k)' /\ (run'[k].at = "publish" => run'[k].rebuild)
    BY <1>2, LikeCopy DEF IndexInv, CopiesOK
  <2> QED  BY <2>1, <2>2 DEF CopiesOK
<1>7. Unmixed'
  <2> SUFFICES ASSUME ~ mixed' PROVE SameSettings' /\ OneConfiguration' /\ LabelKept'
    BY DEF Unmixed
  <2>1. SameSettings /\ OneConfiguration /\ LabelKept
    BY <1>1 DEF IndexInv, Unmixed
  <2>2. \A k \in Running : run[k].m = conf.m /\ run[k].cfg = conf.cfg
    BY <1>1
  <2>3. Running' = Running \cup {i} /\ Running \subseteq Procs \ {i}
    BY <1>1, <1>2 DEF Running, Like
  <2>4. \A k \in Running : /\ run'[k].m = run[k].m /\ run'[k].cfg = run[k].cfg
                           /\ (run'[k].rebuild <=> run[k].rebuild)
                           /\ (run'[k].promote <=> run[k].promote)
    BY <1>2, <2>3 DEF Like, SamePlan
  <2>5. \A k \in Running' : run'[k].m = conf.m /\ run'[k].cfg = conf.cfg
    BY <1>2, <2>2, <2>3, <2>4
  <2>6. SameSettings'
    BY <2>5 DEF SameSettings
  <2>7. OneConfiguration'
    <3>1. \A k \in Running' : ~ run'[k].rebuild /\ db.label # None => db.label.cfg = run'[k].cfg
      BY <1>2, <2>1, <2>3, <2>4, <2>5 DEF OneConfiguration
    <3> QED  BY <2>1, <3>1 DEF OneConfiguration, AllChunkedUnder
  <2>8. LabelKept'
    <3>1. (db.label # None /\ db.label.m = conf.m => AllParsedWith(db, conf.m))'
      BY <2>1 DEF LabelKept, AllParsedWith
    <3>2. ASSUME NEW k \in Running', ~ run'[k].rebuild, ~ run'[k].promote
          PROVE  AllParsedWith(db, conf.m)
      <4>1. CASE k = i
        BY <1>2, <2>1, <3>2, <4>1 DEF OneConfiguration, LabelKept, AllParsedWith
      <4>2. CASE k \in Running
        BY <2>1, <2>2, <2>4, <3>2, <4>2 DEF LabelKept
      <4> QED  BY <2>3, <4>1, <4>2
    <3>3. ASSUME NEW k \in Running' PROVE Promoting(run[k])'
      <4>1. CASE k = i
        BY <1>2, <4>1 DEF Promoting
      <4>2. CASE k \in Running
        BY <1>2, <2>1, <2>3, <4>2, LikePromoting DEF LabelKept
      <4> QED  BY <2>3, <4>1, <4>2
    <3> QED  BY <2>5, <3>1, <3>2, <3>3 DEF LabelKept, AllParsedWith
  <2> QED  BY <2>6, <2>7, <2>8
<1> QED  BY <1>3, <1>4, <1>5, <1>6, <1>7 DEF IndexInv

(* _check_compatibility: an incremental run finds the configuration it     *)
(* was started with, or no label at all.                                   *)
LEMMA BeginStep ==
    ASSUME IndexInv, NEW i \in Procs, Begin(i)
    PROVE  IndexInv'
<1> DEFINE r == Started(db, FALSE)
<1>1. /\ r \in Runs /\ r.at = "plan" /\ ~ r.rebuild
      /\ r.m = conf.m /\ r.cfg = conf.cfg /\ r.prev = db.label
      /\ r.memo = <<>> /\ r.upd = {} /\ ~ r.failedManifest
      /\ r.promote <=> db.label # None /\ db.label.m # conf.m
  BY StartedLemma DEF IndexInv, IndexTypeOK
<1>2. /\ db.label # None => db.label.cfg = conf.cfg
      /\ Enter(i, r) /\ UNCHANGED <<disk, conf, db, temp>>
  BY DEF Begin, Compatible
<1> HIDE DEF r
<1>3. RunOK(r)
  BY <1>1, <1>2, NoMemo DEF RunOK, IndexInv, IndexTypeOK
<1>4. temp' = [temp EXCEPT ![i] = temp[i]]
  BY <1>2, Work
<1> QED  BY <1>1, <1>2, <1>3, <1>4, Work, Enters

LEMMA BeginRebuildStep ==
    ASSUME IndexInv, NEW i \in Procs, BeginRebuild(i)
    PROVE  IndexInv'
<1> DEFINE r == Started(EmptyDb, TRUE)
<1>1. EmptyDb.label = None
  BY DEF EmptyDb
<1>2. /\ r \in Runs /\ r.at = "plan" /\ r.rebuild
      /\ r.m = conf.m /\ r.cfg = conf.cfg
      /\ r.memo = <<>> /\ r.upd = {} /\ ~ r.failedManifest /\ ~ r.promote
  BY <1>1, EmptyOK, StartedLemma DEF IndexInv
<1>3. Enter(i, r) /\ temp' = [temp EXCEPT ![i] = EmptyDb] /\ UNCHANGED <<disk, conf, db>>
  BY DEF BeginRebuild
<1> HIDE DEF r
<1>4. RunOK(r)
  BY <1>2, NoMemo DEF RunOK, IndexInv, IndexTypeOK
<1> QED  BY <1>2, <1>3, <1>4, EmptyOK, Enters

(***************************************************************************)
(* The invariant.                                                          *)
(***************************************************************************)
LEMMA IndexInvInit == Init => IndexInv
<1> SUFFICES ASSUME Init PROVE IndexInv
  OBVIOUS
<1>1. /\ disk \in [Paths -> Contents \cup {None}] /\ db = EmptyDb /\ ~ mixed /\ mixed \in BOOLEAN
      /\ conf \in [m : Manifests, cfg : Configs, semantic : BOOLEAN]
      /\ temp = [i \in Procs |-> EmptyDb] /\ run = [i \in Procs |-> Idle]
  BY DEF Init
<1>2. /\ \A i \in Procs : temp[i] = EmptyDb /\ run[i] = Idle
      /\ EmptyDb.label = None /\ Running = {}
  BY <1>1, IdleOK DEF EmptyDb, Running
<1>3. IndexTypeOK
  BY <1>1, EmptyOK, IdleOK DEF IndexTypeOK
<1>4. RunsOK /\ DbsOK /\ CopiesOK
  BY <1>1, <1>2, EmptyOK, IdleOK DEF RunsOK, DbsOK, CopiesOK, CopyOK
<1>5. SameSettings /\ OneConfiguration /\ LabelKept
  BY <1>1, <1>2, EmptyOK DEF SameSettings, OneConfiguration, LabelKept, AllParsedWith
<1> QED  BY <1>3, <1>4, <1>5 DEF IndexInv, Unmixed

LEMMA StepKeeps ==
    ASSUME IndexInv, NEW i \in Procs, Step(i)
    PROVE  IndexInv'
BY PlanStep, RequeueStep, RetryPendingStep, UpdatePendingStep, FinalizeStep, PublishStep,
   EmbedStep, SuppressStep, ReplaceStep DEF Step

LEMMA IndexInvNext == IndexInv /\ [Next]_vars => IndexInv'
<1> SUFFICES ASSUME IndexInv, [Next]_vars PROVE IndexInv'
  OBVIOUS
<1>1. CASE UNCHANGED vars
  BY <1>1 DEF vars, IndexInv, IndexTypeOK, RunsOK, DbsOK, DbOK, PathOK, CopiesOK, CopyOK,
              AllParsedWith, AllChunkedUnder, Unmixed, SameSettings, OneConfiguration,
              LabelKept, Promoting, Running
<1>2. ASSUME NEW p \in Paths, EditFile(p) PROVE IndexInv'
  BY <1>2, EditFileStep
<1>3. ASSUME NEW p \in Paths, NEW q \in Paths, RenameFile(p, q) PROVE IndexInv'
  BY <1>3, RenameFileStep
<1>4. CASE Configure
  BY <1>4, ConfigureStep
<1>5. ASSUME NEW i \in Procs, Begin(i) \/ BeginRebuild(i) \/ Step(i) \/ Stop(i)
      PROVE  IndexInv'
  BY <1>5, BeginStep, BeginRebuildStep, StepKeeps, StopStep
<1> QED  BY <1>1, <1>2, <1>3, <1>4, <1>5 DEF Next

LEMMA IndexInvAlways == Spec => []IndexInv
BY IndexInvInit, IndexInvNext, PTL DEF Spec

(***************************************************************************)
(* The theorems.                                                           *)
(***************************************************************************)
(* However runs of any number of indexers overlap, fail and die, the state *)
(* of a chunk, its vector and the queue agree in the index and in every    *)
(* copy (replace_source, suppress_source, requeue_disabled_chunks,         *)
(* update_pending_embeddings, delete_sources).                             *)
THEOREM IndexTablesAgree == Spec => []TablesAgree
<1>1. IndexInv => TablesAgree
  BY DEF IndexInv, DbsOK, DbOK, PathOK, TablesAgree
<1> QED  BY <1>1, IndexInvAlways, PTL

(* Whatever answers late, the vector of a chunk is that of the text the    *)
(* chunk holds, and of its configuration unless "mixed".                   *)
THEOREM IndexVectorOfItsText == Spec => []VectorOfItsText
<1>1. IndexInv => VectorOfItsText
  BY DEF IndexInv, DbsOK, DbOK, PathOK, VectorOfItsText
<1> QED  BY <1>1, IndexInvAlways, PTL

(* Once the label names the manifest and the configuration in force, every *)
(* source was parsed and embedded under them, unless "mixed".              *)
THEOREM IndexLabelHonest == Spec => []LabelHonest
<1>1. ASSUME IndexInv PROVE LabelHonest
  <2> SUFFICES ASSUME ~ mixed, db.label = NewLabel(conf) PROVE Coherent(db)
    BY DEF LabelHonest
  <2>1. NewLabel(conf) \in Label
    BY <1>1 DEF NewLabel, Label, IndexInv, IndexTypeOK
  <2>2. db.label # None /\ db.label.m = conf.m
    BY <2>1, NoneApart DEF NewLabel
  <2> QED  BY <1>1, <2>2 DEF IndexInv, Unmixed, OneConfiguration, LabelKept, Coherent,
                            AllParsedWith, AllChunkedUnder
<1> QED  BY <1>1, IndexInvAlways, PTL

(* A rebuild writes to its copy until os.replace, and what it then puts in *)
(* place is labelled with the settings it was started with.                *)
LEMMA RebuildWrites ==
    ASSUME IndexInv, [Next]_vars, NEW i \in Procs, run[i].rebuild, run'[i] # run[i], db' # db
    PROVE  run[i].at = "publish" /\ db'.label = NewLabel(run[i])
<1>1. run \in [Procs -> Runs]
  BY DEF IndexInv, IndexTypeOK
<1>2. Next
  BY DEF vars
<1>3. PICK k \in Procs : Begin(k) \/ BeginRebuild(k) \/ Step(k) \/ Stop(k)
  BY <1>2 DEF Next, EditFile, RenameFile, Configure, Edit
<1>4. Step(k)
  BY <1>3 DEF Begin, BeginRebuild, Stop
<1>5. CASE Publish(k)
  <2>1. k = i /\ db' = temp[i] /\ run[i].at = "publish"
    BY <1>1, <1>5 DEF Publish, Advance
  <2> QED  BY <2>1 DEF IndexInv, CopiesOK, CopyOK
<1>6. CASE ~ Publish(k)
  <2>1. \E e : Write(k, e) /\ \E s : Advance(k, s)
    BY <1>4, <1>6 DEF Step, Plan, Requeue, RetryPending, UpdatePending, Finalize, Embed,
                      Suppress, Replace, GiveUp
  <2>2. k = i
    BY <1>1, <2>1 DEF Advance
  <2> QED  BY <2>1, <2>2 DEF Write
<1> QED  BY <1>5, <1>6

THEOREM IndexRebuildAllOrNothing == Spec => RebuildAllOrNothing
<1>1. IndexInv /\ [Next]_vars =>
        [\A i \in Procs : run[i].rebuild /\ run'[i] # run[i] /\ db' # db =>
            run[i].at = "publish" /\ db'.label = [m |-> run[i].m, cfg |-> run[i].cfg]]_vars
  BY RebuildWrites DEF NewLabel
<1> QED  BY <1>1, IndexInvAlways, PTL DEF Spec, RebuildAllOrNothing

(***************************************************************************)
(* The rows: a source that could be parsed is active and its chunk is of   *)
(* its hash, one that could not is not, and nothing is active before the   *)
(* vault has a label.                                                      *)
(***************************************************************************)
RowOK(d, p) ==
    /\ Active(d, p) => /\ d.row[p].hash \notin Unparsable
                       /\ d.chunk[p].text[1] = d.row[p].hash
    /\ Stored(d, p) /\ ~ Active(d, p) => d.row[p].hash \in Unparsable

RowsOK(d) ==
    /\ \A p \in Paths : RowOK(d, p)
    /\ d.label = None => \A p \in Paths : ~ Active(d, p)

RowsInv == RowsOK(db) /\ \A i \in Procs : RowsOK(temp[i])

LEMMA RowLeft ==
    ASSUME NEW d, NEW e, NEW q, RowOK(d, q),
           e.row[q] = NoRow \/ (e.row[q] = d.row[q] /\ (Active(e, q) => Held(d, e, q)))
    PROVE  RowOK(e, q)
BY NoneApart DEF RowOK, Active, Stored, Held

LEMMA ReplacedRows ==
    ASSUME NEW d \in Databases, NEW r \in Runs, RunOK(r), r.at # "idle",
           NEW p \in Prepared(r), ReplaceAccepted(d, r, p), RowsOK(d)
    PROVE  RowsOK(ReplacedBy(d, r, p))
<1> DEFINE e == ReplacedBy(d, r, p)
<1>1. /\ e.label = IF r.promote THEN d.label ELSE NewLabel(r)
      /\ e.row[p] = [hash |-> r.files[p], active |-> TRUE] /\ e.chunk[p].text = TextOf(r, p)
      /\ \A q \in Paths \ {p} :
            \/ Same(d, e, q)
            \/ Emptied(e, q) /\ e.row[q] = NoRow /\ q \in Deletions(r)
  BY ReplacedLemma
<1> HIDE DEF e
<1>2. e.label # None
  <2>1. NewLabel(r) \in Label
    BY DEF RunOK, NewLabel, Label
  <2> QED  BY <1>1, <2>1, NoneApart DEF ReplaceAccepted
<1>3. r.files[p] \notin Unparsable
  BY PlanType
<1>4. RowOK(e, p)
  BY <1>1, <1>3 DEF RowOK, Active, TextOf
<1>5. ASSUME NEW q \in Paths \ {p} PROVE RowOK(e, q)
  <2>1. RowOK(d, q)
    BY DEF RowsOK
  <2>2. Same(d, e, q) => e.row[q] = d.row[q] /\ (Active(e, q) => Held(d, e, q))
    BY DEF Same, Active, Held
  <2> QED  BY <1>1, <2>1, <2>2, RowLeft
<1> QED  BY <1>2, <1>4, <1>5 DEF RowsOK, e

LEMMA SuppressedRows ==
    ASSUME NEW d \in Databases, NEW r \in Runs, NEW p \in ParseFailures(r), DbOK(d), RowsOK(d)
    PROVE  RowsOK(SuppressedBy(d, r, p))
<1> DEFINE e == SuppressedBy(d, r, p)
<1>1. /\ e.label = d.label
      /\ \A q \in Paths : Active(e, q) => q # p /\ Held(d, e, q)
      /\ \A q \in Paths \ {p} : Same(d, e, q)
      /\ e.row[p] \in {NoRow, [hash |-> r.files[p], active |-> FALSE]}
  BY SuppressedLemma
<1> HIDE DEF e
<1>2. r.files[p] \in Unparsable /\ p \in Paths
  BY PlanType DEF ParseFailures
<1>3. RowOK(e, p)
  BY <1>1, <1>2, NoneApart DEF RowOK, Active, Stored
<1>4. ASSUME NEW q \in Paths \ {p} PROVE RowOK(e, q)
  <2>1. RowOK(d, q)
    BY DEF RowsOK
  <2>2. e.row[q] = d.row[q] /\ (Active(e, q) => Held(d, e, q))
    BY <1>1 DEF Same
  <2> QED  BY <2>1, <2>2, RowLeft
<1> QED  BY <1>1, <1>3, <1>4 DEF RowsOK, Held, e

(* The other transactions keep rows or remove them.                        *)
LEMMA KeptRows ==
    ASSUME NEW d, NEW e, RowsOK(d), e.label = None => d.label = None,
           \A q \in Paths : Active(e, q) => Held(d, e, q),
           \A q \in Paths : e.row[q] \in {NoRow, d.row[q]}
    PROVE  RowsOK(e)
<1>1. \A q \in Paths : RowOK(e, q)
  BY RowLeft DEF RowsOK
<1> QED  BY <1>1 DEF RowsOK, Held

LEMMA RequeuedRows ==
    ASSUME NEW d \in Databases, NEW r \in Runs, DbOK(d), RowsOK(d)
    PROVE  RowsOK(Requeued(d, r))
<1> DEFINE e == Requeued(d, r)
<1>1. e.label = d.label /\ e.row = d.row /\ \A q \in Paths : Active(e, q) => Held(d, e, q)
  BY RequeuedLemma
<1> HIDE DEF e
<1> QED  BY <1>1, KeptRows DEF e

LEMMA FinalizedRows ==
    ASSUME NEW d \in Databases, NEW r \in Runs, DbOK(d), RunOK(r), r.at # "idle", RowsOK(d)
    PROVE  RowsOK(FinalizedBy(d, r))
<1> DEFINE e == FinalizedBy(d, r)
<1>1. /\ e.label = FinalLabel(r)
      /\ \A q \in Paths : Active(e, q) => Held(d, e, q)
      /\ \A q \in Deletions(r) : e.row[q] = NoRow
      /\ \A q \in Paths \ Deletions(r) : e.row[q] = d.row[q]
  BY FinalizedLemma
<1> HIDE DEF e
<1>2. e.label # None
  <2>1. NewLabel(r) \in Label
    BY DEF RunOK, NewLabel, Label
  <2> QED  BY <1>1, <2>1, NoneApart DEF FinalLabel, RunOK
<1> QED  BY <1>1, <1>2, KeptRows DEF e

LEMMA EmptyRows == RowsOK(EmptyDb)
BY EmptyOK, NoneApart DEF EmptyDb, RowsOK, RowOK, Stored, Active

LEMMA WriteRows ==
    ASSUME IndexInv, RowsInv, NEW i \in Procs, NEW e, Write(i, e), RowsOK(e)
    PROVE  RowsInv'
<1>1. RowsOK(db') /\ \A k \in Procs : RowsOK(temp'[k])
  BY Work DEF RowsInv, Write
<1> QED  BY <1>1 DEF RowsInv, RowsOK, RowOK, Active, Stored

LEMMA ForgetRows ==
    ASSUME IndexInv, RowsInv, NEW i \in Procs, RowsOK(db'), temp' = [temp EXCEPT ![i] = EmptyDb]
    PROVE  RowsInv'
<1>1. RowsOK(db') /\ \A k \in Procs : RowsOK(temp'[k])
  BY EmptyRows, Work DEF RowsInv
<1> QED  BY <1>1 DEF RowsInv, RowsOK, RowOK, Active, Stored

LEMMA TargetRows ==
    ASSUME RowsInv, NEW i \in Procs
    PROVE  RowsOK(Target(i)) /\ RowsOK(db) /\ RowsOK(temp[i])
BY DEF RowsInv, Target

LEMMA RowsInvNext == IndexInv /\ RowsInv /\ [Next]_vars => RowsInv'
<1> SUFFICES ASSUME IndexInv, RowsInv, [Next]_vars PROVE RowsInv'
  OBVIOUS
<1>0. CASE UNCHANGED <<db, temp>>
  BY <1>0 DEF RowsInv, RowsOK, RowOK, Active, Stored
<1>1. ASSUME NEW i \in Procs, BeginRebuild(i) PROVE RowsInv'
  BY <1>1, ForgetRows, TargetRows DEF BeginRebuild
<1>2. ASSUME NEW i \in Procs, Stop(i) PROVE RowsInv'
  BY <1>2, ForgetRows, TargetRows DEF Stop
<1>3. ASSUME NEW i \in Procs, Publish(i) PROVE RowsInv'
  BY <1>3, ForgetRows, TargetRows DEF Publish
<1>4. ASSUME NEW i \in Procs, NEW s, GiveUp(i, s) PROVE RowsInv'
  BY <1>4, ForgetRows, TargetRows DEF GiveUp
<1>5. ASSUME NEW i \in Procs, Requeue(i) PROVE RowsInv'
  BY <1>5, Work, TargetRows, RequeuedRows, WriteRows DEF Requeue
<1>6. ASSUME NEW i \in Procs, Finalize(i) PROVE RowsInv'
  <2>1. run[i].at # "idle" /\ Write(i, FinalizedBy(Target(i), run[i]))
    BY <1>6 DEF Finalize
  <2> QED  BY <2>1, Work, TargetRows, FinalizedRows, WriteRows
<1>7. ASSUME NEW i \in Procs, NEW p \in Paths, Suppress(i, p) PROVE RowsInv'
  <2>1. p \in ParseFailures(run[i])
    BY <1>7, Work DEF Suppress, IsNext, RunOK
  <2>2. CASE Write(i, SuppressedBy(Target(i), run[i], p))
    BY <2>1, <2>2, Work, TargetRows, SuppressedRows, WriteRows
  <2>3. CASE ~ Write(i, SuppressedBy(Target(i), run[i], p))
    BY <1>4, <1>7, <2>3 DEF Suppress
  <2> QED  BY <2>2, <2>3
<1>8. ASSUME NEW i \in Procs, NEW p \in Paths, Replace(i, p) PROVE RowsInv'
  <2> DEFINE e == ReplacedBy(Target(i), run[i], p)
  <2>1. p \in Prepared(run[i]) /\ run[i].at # "idle"
    BY <1>8, Work DEF Replace, IsNext, RunOK
  <2>2. CASE ReplaceAccepted(Target(i), run[i], p) /\ Write(i, e)
    BY <2>1, <2>2, Work, TargetRows, ReplacedRows, WriteRows
  <2>3. CASE ~ (ReplaceAccepted(Target(i), run[i], p) /\ Write(i, e))
    BY <1>4, <1>8, <2>3 DEF Replace
  <2> QED  BY <2>2, <2>3
<1>9. ASSUME NEW i \in Procs, UpdatePending(i) PROVE RowsInv'
  <2> DEFINE e == UpdatedBy(Target(i), run[i])
  <2>1. CASE UpdateAccepted(Target(i), run[i]) /\ Write(i, e)
    <3>1. mixed \/ \A p \in Paths : Active(Target(i), p) => Target(i).chunk[p].cfg = run[i].cfg
      BY <1>9, <2>1, ChunkedUnderRun DEF UpdatePending
    <3>2. /\ e.label = Target(i).label /\ e.row = Target(i).row
          /\ \A q \in Paths : Active(e, q) => Held(Target(i), e, q)
      BY <2>1, <3>1, Work, UpdatedLemma
    <3> HIDE DEF e
    <3> QED  BY <2>1, <3>2, TargetRows, KeptRows, WriteRows
  <2>2. CASE ~ (UpdateAccepted(Target(i), run[i]) /\ Write(i, e))
    BY <1>4, <1>9, <2>2 DEF UpdatePending
  <2> QED  BY <2>1, <2>2
<1>10. ASSUME NEW i \in Procs, Step(i) PROVE RowsInv'
  <2>1. CASE Plan(i) \/ RetryPending(i) \/ \E p \in Paths : Embed(i, p)
    BY <1>0, <2>1 DEF Plan, RetryPending, Embed
  <2> QED  BY <1>3, <1>5, <1>6, <1>7, <1>8, <1>9, <1>10, <2>1 DEF Step
<1>11. CASE UNCHANGED vars
  BY <1>0, <1>11 DEF vars
<1>12. CASE Configure \/ \E p \in Paths : EditFile(p) \/ \E q \in Paths : RenameFile(p, q)
  BY <1>0, <1>12 DEF Configure, EditFile, RenameFile, Edit
<1>13. ASSUME NEW i \in Procs, Begin(i) PROVE RowsInv'
  BY <1>0, <1>13 DEF Begin
<1> QED  BY <1>1, <1>2, <1>10, <1>11, <1>12, <1>13 DEF Next

(***************************************************************************)
(* A run that had the index to itself.  p is as the run has read it: gone, *)
(* not active if it could not be parsed, and otherwise parsed, chunked and *)
(* embedded anew or found to be so.                                        *)
(***************************************************************************)
AsFiled(d, r, p) ==
    IF r.files[p] = None THEN ~ Stored(d, p)
    ELSE IF r.files[p] \in Unparsable THEN ~ Active(d, p)
    ELSE /\ d.row[p] = [hash |-> r.files[p], active |-> TRUE]
         /\ d.chunk[p].text = TextOf(r, p) /\ d.chunk[p].cfg = r.cfg

(* What the run has no more to do is done; after requeue_disabled_chunks   *)
(* no chunk of it is without a vector or a place in the queue.             *)
Settled(d, r) ==
    \A p \in Paths \ Waiting(r) :
        /\ AsFiled(d, r, p)
        /\ r.semantic /\ r.at \notin {"embed", "requeue"} /\ Active(d, p) =>
              d.chunk[p].state # "disabled"

(* What it embeds it has embedded, or tried to, before it stores it.       *)
Foreseen(r) ==
    r.semantic /\ r.at \in {"embed", "requeue", "pending", "suppress", "replace"} =>
        \A p \in Prepared(r) :
            TextOf(r, p) \in DOMAIN r.memo \/ (r.at = "embed" /\ p \in r.todo)

UpToDate(r) ==
    r.files = disk /\ r.m = conf.m /\ r.cfg = conf.cfg /\ r.semantic = conf.semantic

CleanRun(i) ==
    /\ Running = {i} /\ UpToDate(run[i]) /\ ~ run[i].failedManifest
    /\ run[i].at = "plan" /\ ~ run[i].promote =>
          AllParsedWith(Target(i), run[i].m) /\ AllChunkedUnder(Target(i), run[i].cfg)
    /\ run[i].at \notin {"plan", "publish"} => Settled(Target(i), run[i]) /\ Foreseen(run[i])
    /\ run[i].at = "publish" => Current(Target(i))

Clean(r) == r.at # "idle" /\ r.undisturbed /\ ~ r.failed
CleanInv == \A i \in Procs : Clean(run[i]) => CleanRun(i)

(* What becomes of it when a run goes on.                                  *)
LEMMA FiledKept ==
    ASSUME NEW d, NEW e, NEW r, NEW s, NEW p, AsFiled(d, r, p),
           s.files = r.files, s.m = r.m, s.cfg = r.cfg,
           e.row[p] = d.row[p], Active(e, p) => Held(d, e, p)
    PROVE  AsFiled(e, s, p)
BY DEF AsFiled, Stored, Active, Held, TextOf

LEMMA SettledOn ==
    ASSUME NEW d, NEW r, NEW s, Settled(d, r), Waiting(s) = Waiting(r),
           s.files = r.files, s.m = r.m, s.cfg = r.cfg, s.semantic = r.semantic,
           s.semantic /\ s.at \notin {"embed", "requeue"} => r.at \notin {"embed", "requeue"}
    PROVE  Settled(d, s)
BY DEF Settled, AsFiled, TextOf

LEMMA ForeseenOn ==
    ASSUME NEW r, NEW s, Foreseen(r), r.at \in {"requeue", "pending", "suppress", "replace"},
           SamePlan(r, s), s.m = r.m, s.semantic = r.semantic,
           s.at \in {"update", "finalize"} \/ DOMAIN r.memo \subseteq DOMAIN s.memo
    PROVE  Foreseen(s)
<1>1. Prepared(s) = Prepared(r) /\ \A p : TextOf(s, p) = TextOf(r, p)
  BY PlanKept DEF SamePlan, TextOf
<1> QED  BY <1>1 DEF Foreseen

LEMMA CleanAlone ==
    ASSUME IndexTypeOK, CleanInv, NEW i \in Procs, run[i].at # "idle", NEW s,
           run' = [run EXCEPT ![i] = s], Clean(s) => CleanRun(i)'
    PROVE  CleanInv'
<1>1. run'[i] = s /\ \A k \in Procs \ {i} : run'[k] = run[k]
  BY DEF IndexTypeOK
<1>2. ASSUME NEW k \in Procs \ {i}, Clean(run[k]) PROVE FALSE
  <2>1. Running = {k}
    BY <1>2 DEF CleanInv, CleanRun
  <2> QED  BY <2>1 DEF Running
<1>3. ASSUME NEW k \in Procs, Clean(run'[k]) PROVE CleanRun(k)'
  <2>1. CASE k = i
    BY <1>1, <1>3, <2>1
  <2>2. CASE k # i
    BY <1>1, <1>2, <1>3, <2>2
  <2> QED  BY <2>1, <2>2
<1> QED  BY <1>3 DEF CleanInv

LEMMA CleanOn ==
    ASSUME IndexTypeOK, CleanInv, NEW i \in Procs, run[i].at # "idle",
           NEW s, Proceeds(run[i], s), run' = [run EXCEPT ![i] = s], UNCHANGED <<disk, conf>>,
           s.files = run[i].files, s.semantic = run[i].semantic,
           s.failed = run[i].failed, s.undisturbed = run[i].undisturbed,
           s.failedManifest = run[i].failedManifest,
           NEW e, Target(i)' = e,
           CleanRun(i) => Settled(e, s) /\ Foreseen(s)
    PROVE  CleanInv'
<1>1. run'[i] = s /\ \A k \in Procs \ {i} : run'[k] = run[k]
  BY DEF IndexTypeOK
<1>2. s.m = run[i].m /\ s.cfg = run[i].cfg /\ s.at \notin {"idle", "plan", "publish"}
  BY DEF Proceeds, Keeps
<1>3. ASSUME Clean(s) PROVE CleanRun(i)'
  <2>1. CleanRun(i)
    BY <1>3 DEF Clean, CleanInv
  <2>2. Running' = {i}
    BY <1>1, <1>2, <2>1 DEF CleanRun, Running
  <2>3. UpToDate(run[i])' /\ ~ s.failedManifest
    BY <1>1, <1>2, <2>1 DEF CleanRun, UpToDate
  <2>4. (run[i].at \notin {"plan", "publish"} => Settled(Target(i), run[i]) /\ Foreseen(run[i]))'
    <3>1. Settled(e, s) /\ Foreseen(s)
      BY <2>1
    <3> QED  BY <1>1, <3>1 DEF Settled, AsFiled, Foreseen, Stored, Active, TextOf
  <2> QED  BY <1>1, <1>2, <2>2, <2>3, <2>4 DEF CleanRun
<1> QED  BY <1>3, CleanAlone

LEMMA Written ==
    ASSUME IndexInv, NEW i \in Procs, NEW s, s.rebuild = run[i].rebuild, Advance(i, s)
    PROVE  /\ \A e : Write(i, e) => Target(i)' = e
           /\ UNCHANGED <<db, temp>> => Target(i)' = Target(i)
           /\ run' = [run EXCEPT ![i] = s] /\ UNCHANGED <<disk, conf>> /\ run'[i] = s
<1>1. run \in [Procs -> Runs] /\ temp \in [Procs -> Databases]
  BY DEF IndexInv, IndexTypeOK
<1> QED  BY <1>1 DEF Advance, Write, Target

(* source_hashes: what is not planned for is already as it should be, for  *)
(* all of the index was parsed with the manifest of the run or is planned. *)
LEMMA PlannedSettled ==
    ASSUME NEW d \in Databases, DbOK(d), RowsOK(d), NEW b \in Runs,
           \A p \in Paths : b.old[p] = d.row[p].hash,
           ~ b.promote => AllParsedWith(d, b.m) /\ AllChunkedUnder(d, b.cfg),
           NEW p \in Paths \ AllWaiting(b)
    PROVE  AsFiled(d, b, p)
<1>1. p \notin Deletions(b) /\ p \notin ParseFailures(b) /\ p \notin Prepared(b)
  BY DEF AllWaiting
<1>2. d.row[p] \in Rows \cup {NoRow} /\ b.old[p] = d.row[p].hash
  BY DatabasesDef
<1>3. CASE b.files[p] = None
  <2>1. d.row[p].hash = None
    BY <1>1, <1>2, <1>3 DEF Deletions
  <2> QED  BY <1>2, <1>3, <2>1, NoneApart DEF AsFiled, Stored, Rows
<1>4. CASE b.files[p] # None
  <2>1. b.old[p] = b.files[p] /\ ~ b.promote
    BY <1>1, <1>4 DEF ParseFailures, Prepared, Additions, Changes, Known, SameBytes, Promotions
  <2>2. d.row[p] \in Rows /\ d.row[p].hash = b.files[p] /\ Stored(d, p)
    BY <1>2, <1>4, <2>1, NoneApart DEF Stored, NoRow, Rows
  <2>3. RowOK(d, p)
    BY DEF RowsOK
  <2>4. CASE b.files[p] \in Unparsable
    BY <1>4, <2>2, <2>3, <2>4 DEF RowOK, AsFiled
  <2>5. CASE b.files[p] \notin Unparsable
    <3>1. Active(d, p) /\ d.chunk[p].text[1] = b.files[p]
      BY <2>2, <2>3, <2>5 DEF RowOK
    <3>2. d.row[p] = [hash |-> b.files[p], active |-> TRUE]
      BY <2>2, <3>1 DEF Rows, Active
    <3>3. d.chunk[p].text[2] = b.m /\ d.chunk[p].cfg = b.cfg
      BY <2>1, <3>1 DEF AllParsedWith, AllChunkedUnder
    <3>4. d.chunk[p].text \in ChunkText
      BY <3>1, DatabasesDef DEF DbOK, PathOK, Chunks
    <3>5. d.chunk[p].text = <<b.files[p], b.m>>
      BY <3>1, <3>3, <3>4 DEF ChunkText
    <3> QED  BY <1>4, <2>5, <3>2, <3>3, <3>5 DEF AsFiled, TextOf
  <2> QED  BY <2>4, <2>5
<1> QED  BY <1>3, <1>4

LEMMA PlanClean ==
    ASSUME IndexInv, RowsInv, CleanInv, NEW i \in Procs, Plan(i)
    PROVE  CleanInv'
<1> DEFINE r == run[i]
           d == Target(i)
           b == [r EXCEPT !.old = [p \in Paths |-> d.row[p].hash]]
           s == ToEmbed(b)
<1>1. r.at = "plan" /\ Advance(i, s) /\ UNCHANGED <<db, temp>>
  BY DEF Plan
<1>2. r \in Runs /\ RunOK(r) /\ d \in Databases /\ DbOK(d) /\ RowsOK(d)
  BY Work, TargetRows
<1>3. /\ b \in Runs /\ RunOK(b) /\ b.at = "plan" /\ \A p \in Paths : b.old[p] = d.row[p].hash
      /\ b.files = r.files /\ b.m = r.m /\ b.cfg = r.cfg /\ b.semantic = r.semantic
      /\ b.rebuild = r.rebuild /\ b.prev = r.prev /\ b.promote = r.promote
      /\ b.failedManifest = r.failedManifest /\ b.failed = r.failed
      /\ b.undisturbed = r.undisturbed
  BY <1>1, <1>2, Reads
<1> HIDE DEF b
<1>4. /\ Proceeds(b, s) /\ SamePlan(b, s) /\ Carries(b, s) /\ Waiting(s) = AllWaiting(b)
      /\ b.semantic => \/ s.at = "embed" /\ s.todo = Prepared(b)
                       \/ s.at = "requeue" /\ Prepared(b) = {}
  BY <1>3, ToEmbedLemma
<1> HIDE DEF s
<1>5. /\ Proceeds(r, s) /\ s.files = r.files /\ s.semantic = r.semantic /\ s.failed = r.failed
      /\ s.undisturbed = r.undisturbed /\ s.failedManifest = r.failedManifest
      /\ s.m = b.m /\ s.cfg = b.cfg /\ s.rebuild = r.rebuild
  BY <1>3, <1>4 DEF Proceeds, Keeps, SamePlan, Carries
<1>6. Target(i)' = d /\ run' = [run EXCEPT ![i] = s] /\ UNCHANGED <<disk, conf>>
  BY <1>1, <1>5, Written
<1>7. ASSUME CleanRun(i) PROVE Settled(d, s) /\ Foreseen(s)
  <2>1. ~ b.promote => AllParsedWith(d, b.m) /\ AllChunkedUnder(d, b.cfg)
    BY <1>1, <1>3, <1>7 DEF CleanRun
  <2>2. \A p \in Paths \ AllWaiting(b) : AsFiled(d, b, p)
    BY <1>2, <1>3, <2>1, PlannedSettled
  <2>3. Settled(d, s)
    BY <1>3, <1>4, <1>5, <2>2 DEF Settled, AsFiled, TextOf
  <2>4. Foreseen(s)
    BY <1>3, <1>4, <1>5, PlanKept DEF Foreseen
  <2> QED  BY <2>3, <2>4
<1> QED  BY <1>1, <1>5, <1>6, <1>7, CleanOn DEF IndexInv

LEMMA EmbedClean ==
    ASSUME IndexInv, CleanInv, NEW i \in Procs, NEW p \in Paths, Embed(i, p)
    PROVE  CleanInv'
<1> DEFINE r == run[i]
           done(b) == IF r.todo = {p} THEN ToRequeue(b) ELSE [b EXCEPT !.todo = @ \ {p}]
<1>1. r.at = "embed" /\ UNCHANGED <<db, temp>>
  BY DEF Embed
<1>2. r \in Runs /\ RunOK(r)
  BY Work
<1>3. PICK b : Informed(r, b) /\ TextOf(r, p) \in DOMAIN b.memo /\ Advance(i, done(b))
  BY Embeds
<1> DEFINE s == done(b)
<1>4. /\ Proceeds(r, s) /\ SamePlan(r, s) /\ Carries(b, s) /\ Waiting(s) = Waiting(r)
      /\ r.semantic => \/ s.at = "embed" /\ s.todo = r.todo \ {p}
                       \/ s.at = "requeue" /\ r.todo = {p}
  BY <1>1, <1>2, <1>3, EmbedDone
<1>5. Advance(i, s)
  BY <1>3
<1> HIDE DEF s, done
<1>6. /\ s.files = r.files /\ s.semantic = r.semantic /\ s.failed = r.failed
      /\ s.undisturbed = r.undisturbed /\ s.failedManifest = r.failedManifest
      /\ s.m = r.m /\ s.cfg = r.cfg /\ s.rebuild = r.rebuild
  BY <1>3, <1>4 DEF Proceeds, Keeps, SamePlan, Carries, Informed
<1>7. Target(i)' = Target(i) /\ run' = [run EXCEPT ![i] = s] /\ UNCHANGED <<disk, conf>>
  BY <1>1, <1>5, <1>6, Written
<1>8. ASSUME CleanRun(i) PROVE Settled(Target(i), s) /\ Foreseen(s)
  <2>1. Settled(Target(i), r) /\ Foreseen(r)
    BY <1>1, <1>8 DEF CleanRun
  <2>2. Settled(Target(i), s)
    BY <1>4, <1>6, <2>1, SettledOn
  <2>3. ASSUME s.semantic, NEW q \in Prepared(s)
        PROVE  TextOf(s, q) \in DOMAIN s.memo \/ (s.at = "embed" /\ q \in s.todo)
    <3>1. q \in Prepared(r) /\ TextOf(s, q) = TextOf(r, q)
      BY <1>4, <1>6, PlanKept DEF TextOf
    <3>2. DOMAIN r.memo \subseteq DOMAIN s.memo /\ TextOf(r, p) \in DOMAIN s.memo
      BY <1>3, <1>4, <1>6, <2>3 DEF Informed, Carries
    <3>3. TextOf(r, q) \in DOMAIN r.memo \/ q \in r.todo
      BY <1>1, <1>6, <2>1, <2>3, <3>1 DEF Foreseen
    <3> QED  BY <1>4, <1>6, <2>3, <3>1, <3>2, <3>3
  <2> QED  BY <2>2, <2>3 DEF Foreseen
<1> QED  BY <1>1, <1>4, <1>6, <1>7, <1>8, CleanOn DEF IndexInv

(* requeue_disabled_chunks: what is not planned for is unchanged.          *)
LEMMA RequeueClean ==
    ASSUME IndexInv, CleanInv, NEW i \in Procs, Requeue(i)
    PROVE  CleanInv'
<1> DEFINE r == run[i]
           d == Target(i)
           e == Requeued(d, r)
           s == [r EXCEPT !.at = "pending"]
<1>1. r.at = "requeue" /\ Write(i, e) /\ Advance(i, s)
  BY DEF Requeue
<1>2. r \in Runs /\ RunOK(r) /\ d \in Databases /\ DbOK(d)
  BY Work
<1>3. s \in Runs
  <2>1. "pending" \in Places
    BY DEF Places
  <2> QED  BY <1>2, <2>1, FieldSet, Zenon
<1>4. /\ s.at = "pending" /\ s.memo = r.memo /\ s.upd = r.upd /\ SamePlan(r, s)
      /\ s.m = r.m /\ s.cfg = r.cfg /\ s.rebuild = r.rebuild /\ s.prev = r.prev
      /\ s.files = r.files /\ s.semantic = r.semantic /\ s.failed = r.failed
      /\ s.undisturbed = r.undisturbed /\ s.failedManifest = r.failedManifest
  BY <1>2 DEF Runs, SamePlan
<1> HIDE DEF s
<1>5. Proceeds(r, s)
  BY <1>1, <1>2, <1>3, <1>4 DEF RunOK, Proceeds, Keeps, SamePlan
<1>6. /\ \A q \in Paths : Active(e, q) => Held(d, e, q)
      /\ e.row = d.row
      /\ \A q \in Unchanged(r) : Active(e, q) => e.chunk[q].state # "disabled"
  BY <1>2, RequeuedLemma
<1> HIDE DEF e
<1>7. Target(i)' = e /\ run' = [run EXCEPT ![i] = s] /\ UNCHANGED <<disk, conf>>
  BY <1>1, <1>4, Written
<1>8. ASSUME CleanRun(i) PROVE Settled(e, s) /\ Foreseen(s)
  <2>1. Settled(d, r) /\ Foreseen(r)
    BY <1>1, <1>8 DEF CleanRun
  <2>2. Waiting(s) = AllWaiting(r) /\ Waiting(r) = AllWaiting(r)
    BY <1>1, <1>4, PlanKept DEF Waiting, AllWaiting
  <2>3. ASSUME NEW q \in Paths \ AllWaiting(r)
        PROVE  AsFiled(e, s, q) /\ (Active(e, q) => e.chunk[q].state # "disabled")
    <3>1. AsFiled(d, r, q)
      BY <2>1, <2>2 DEF Settled
    <3>2. AsFiled(e, s, q)
      BY <1>4, <1>6, <3>1, FiledKept
    <3>3. r.files[q] # None => q \in Unchanged(r)
      BY DEF AllWaiting, ParseFailures, Prepared, Additions, Changes, Known, Unchanged
    <3>4. Active(e, q) => r.files[q] # None
      BY <1>4, <3>2, NoneApart DEF AsFiled, Stored, Active
    <3> QED  BY <1>6, <3>2, <3>3, <3>4
  <2>4. Foreseen(s)
    BY <1>1, <1>4, <2>1, ForeseenOn
  <2> QED  BY <2>2, <2>3, <2>4 DEF Settled
<1> QED  BY <1>1, <1>4, <1>5, <1>7, <1>8, CleanOn DEF IndexInv

LEMMA RetryClean ==
    ASSUME IndexInv, CleanInv, NEW i \in Procs, RetryPending(i)
    PROVE  CleanInv'
<1> DEFINE r == run[i]
<1>1. r.at = "pending" /\ UNCHANGED <<db, temp>>
  BY DEF RetryPending
<1>2. r \in Runs /\ RunOK(r)
  BY Work
<1>3. PICK b : Informed(r, b) /\ Advance(i, ToSuppress(b))
  BY Retries
<1> DEFINE s == ToSuppress(b)
<1>4. Proceeds(r, s) /\ SamePlan(r, s) /\ Carries(b, s) /\ Waiting(s) = Waiting(r)
  BY <1>1, <1>2, <1>3, RetryDone
<1>5. Advance(i, s)
  BY <1>3
<1> HIDE DEF s
<1>6. /\ s.files = r.files /\ s.semantic = r.semantic /\ s.failed = r.failed
      /\ s.undisturbed = r.undisturbed /\ s.failedManifest = r.failedManifest
      /\ s.m = r.m /\ s.cfg = r.cfg /\ s.rebuild = r.rebuild
      /\ s.at \in {"update", "finalize"} \/ DOMAIN r.memo \subseteq DOMAIN s.memo
  BY <1>3, <1>4 DEF Proceeds, Keeps, SamePlan, Carries, Informed
<1>7. Target(i)' = Target(i) /\ run' = [run EXCEPT ![i] = s] /\ UNCHANGED <<disk, conf>>
  BY <1>1, <1>5, <1>6, Written
<1>8. ASSUME CleanRun(i) PROVE Settled(Target(i), s) /\ Foreseen(s)
  <2>1. Settled(Target(i), r) /\ Foreseen(r)
    BY <1>1, <1>8 DEF CleanRun
  <2>2. Settled(Target(i), s)
    BY <1>1, <1>4, <1>6, <2>1, SettledOn
  <2> QED  BY <1>1, <1>4, <1>6, <2>1, <2>2, ForeseenOn
<1> QED  BY <1>1, <1>4, <1>6, <1>7, <1>8, CleanOn DEF IndexInv

(* A run that recorded a failure is not clean.                             *)
LEMMA GivenUpClean ==
    ASSUME IndexInv, CleanInv, NEW i \in Procs, run[i].at # "idle", NEW s, s.failed, GiveUp(i, s)
    PROVE  CleanInv'
<1> DEFINE x == IF s.rebuild THEN Idle ELSE s
<1>1. run' = [run EXCEPT ![i] = x]
  BY DEF GiveUp, Advance
<1>2. ~ Clean(x)
  BY IdleOK DEF Clean
<1> HIDE DEF x
<1> QED  BY <1>1, <1>2, CleanAlone DEF IndexInv

LEMMA SuppressClean ==
    ASSUME IndexInv, CleanInv, NEW i \in Procs, NEW p \in Paths, Suppress(i, p)
    PROVE  CleanInv'
<1> DEFINE r == run[i]
           d == Target(i)
           done(s) == IF r.todo = {p} THEN ToReplace(s) ELSE [s EXCEPT !.todo = @ \ {p}]
           e == SuppressedBy(d, r, p)
           b == Recorded(r, TRUE)
<1>1. /\ r.at = "suppress" /\ p \in r.todo
      /\ \/ Write(i, e) /\ Advance(i, done(r))
         \/ GiveUp(i, done(b))
  BY DEF Suppress, IsNext
<1>2. r \in Runs /\ RunOK(r) /\ d \in Databases /\ DbOK(d)
  BY Work
<1>3. CASE Write(i, e) /\ Advance(i, done(r))
  <2> DEFINE s == done(r)
  <2>1. /\ Proceeds(r, s) /\ SamePlan(r, s) /\ Carries(r, s)
        /\ \A q : q # p /\ q \in Waiting(r) => q \in Waiting(s)
    BY <1>1, <1>2, SuppressDone
  <2>2. Write(i, e) /\ Advance(i, s)
    BY <1>3
  <2> HIDE DEF s
  <2>3. p \in ParseFailures(r) /\ r.files[p] \in Unparsable /\ r.files[p] # None
    BY <1>1, <1>2, PlanType, NoneApart DEF RunOK, ParseFailures
  <2>4. /\ \A q \in Paths : Active(e, q) => q # p
        /\ \A q \in Paths \ {p} : Same(d, e, q)
    BY <1>2, <2>3, SuppressedLemma
  <2> HIDE DEF e
  <2>5. /\ s.files = r.files /\ s.semantic = r.semantic /\ s.failed = r.failed
        /\ s.undisturbed = r.undisturbed /\ s.failedManifest = r.failedManifest
        /\ s.m = r.m /\ s.cfg = r.cfg /\ s.rebuild = r.rebuild
        /\ s.at \in {"update", "finalize"} \/ DOMAIN r.memo \subseteq DOMAIN s.memo
    BY <2>1 DEF Proceeds, Keeps, SamePlan, Carries
  <2>6. Target(i)' = e /\ run' = [run EXCEPT ![i] = s] /\ UNCHANGED <<disk, conf>>
    BY <2>2, <2>5, Written
  <2>7. ASSUME CleanRun(i) PROVE Settled(e, s) /\ Foreseen(s)
    <3>1. Settled(d, r) /\ Foreseen(r)
      BY <1>1, <2>7 DEF CleanRun
    <3>2. AsFiled(e, s, p) /\ ~ Active(e, p)
      BY <2>3, <2>4, <2>5 DEF AsFiled
    <3>3. ASSUME NEW q \in Paths \ Waiting(s), q # p
          PROVE  /\ AsFiled(e, s, q)
                 /\ r.semantic /\ Active(e, q) => e.chunk[q].state # "disabled"
      <4>1. /\ AsFiled(d, r, q)
            /\ r.semantic /\ Active(d, q) => d.chunk[q].state # "disabled"
        BY <1>1, <2>1, <3>1, <3>3 DEF Settled
      <4>2. Same(d, e, q)
        BY <2>4, <3>3
      <4> QED  BY <2>5, <4>1, <4>2, FiledKept DEF Same, Held, Active
    <3>4. Settled(e, s)
      BY <2>5, <3>2, <3>3 DEF Settled
    <3> QED  BY <1>1, <2>1, <2>5, <3>1, <3>4, ForeseenOn
  <2> QED  BY <1>1, <2>1, <2>5, <2>6, <2>7, CleanOn DEF IndexInv
<1>4. CASE GiveUp(i, done(b))
  <2> DEFINE s == done(b)
  <2>1. b \in Runs /\ RunOK(b) /\ b.at = "suppress" /\ b.todo = r.todo /\ b.failed
    BY <1>1, <1>2, RecordedLemma
  <2> HIDE DEF b
  <2>2. Carries(b, s)
    BY <2>1, SuppressDone
  <2>3. GiveUp(i, s)
    BY <1>4
  <2> HIDE DEF s
  <2> QED  BY <1>1, <2>1, <2>2, <2>3, GivenUpClean DEF Carries
<1> QED  BY <1>1, <1>3, <1>4

LEMMA ReplaceClean ==
    ASSUME IndexInv, CleanInv, NEW i \in Procs, NEW p \in Paths, Replace(i, p)
    PROVE  CleanInv'
<1> DEFINE r == run[i]
           d == Target(i)
           done(s) == IF r.todo = {p} THEN ToUpdate(s) ELSE [s EXCEPT !.todo = @ \ {p}]
           e == ReplacedBy(d, r, p)
           b == Recorded(r, TRUE)
<1>1. /\ r.at = "replace" /\ p \in r.todo
      /\ \/ Write(i, e) /\ Advance(i, done(r))
         \/ GiveUp(i, done(b))
  BY DEF Replace, IsNext
<1>2. r \in Runs /\ RunOK(r) /\ d \in Databases /\ DbOK(d)
  BY Work
<1>3. CASE Write(i, e) /\ Advance(i, done(r))
  <2> DEFINE s == done(r)
  <2>1. /\ Proceeds(r, s) /\ SamePlan(r, s) /\ Carries(r, s)
        /\ \A q : q # p /\ q \in Waiting(r) => q \in Waiting(s)
    BY <1>1, <1>2, ReplaceDone
  <2>2. Write(i, e) /\ Advance(i, s)
    BY <1>3
  <2> HIDE DEF s
  <2>3. p \in Prepared(r) /\ r.files[p] \notin Unparsable /\ r.files[p] # None
    BY <1>1, <1>2, PlanType, NoneApart DEF RunOK
  <2>4. /\ e.row[p] = [hash |-> r.files[p], active |-> TRUE] /\ e.chunk[p].text = TextOf(r, p)
        /\ e.chunk[p].cfg = r.cfg
        /\ TextOf(r, p) \in DOMAIN r.memo => e.chunk[p].state # "disabled"
        /\ \A q \in Paths \ {p} : Same(d, e, q) \/ q \in Deletions(r)
    BY <1>1, <1>2, <2>3, ReplacedLemma
  <2> HIDE DEF e
  <2>5. /\ s.files = r.files /\ s.semantic = r.semantic /\ s.failed = r.failed
        /\ s.undisturbed = r.undisturbed /\ s.failedManifest = r.failedManifest
        /\ s.m = r.m /\ s.cfg = r.cfg /\ s.rebuild = r.rebuild
        /\ s.at \in {"update", "finalize"} \/ DOMAIN r.memo \subseteq DOMAIN s.memo
    BY <2>1 DEF Proceeds, Keeps, SamePlan, Carries
  <2>6. Target(i)' = e /\ run' = [run EXCEPT ![i] = s] /\ UNCHANGED <<disk, conf>>
    BY <2>2, <2>5, Written
  <2>7. ASSUME CleanRun(i) PROVE Settled(e, s) /\ Foreseen(s)
    <3>1. Settled(d, r) /\ Foreseen(r)
      BY <1>1, <2>7 DEF CleanRun
    <3>2. AsFiled(e, s, p) /\ (r.semantic => e.chunk[p].state # "disabled")
      <4>1. r.semantic => TextOf(r, p) \in DOMAIN r.memo
        BY <1>1, <2>3, <3>1 DEF Foreseen
      <4> QED  BY <2>3, <2>4, <2>5, <4>1 DEF AsFiled, TextOf
    <3>3. ASSUME NEW q \in Paths \ Waiting(s), q # p
          PROVE  /\ AsFiled(e, s, q)
                 /\ r.semantic /\ Active(e, q) => e.chunk[q].state # "disabled"
      <4>1. /\ AsFiled(d, r, q)
            /\ r.semantic /\ Active(d, q) => d.chunk[q].state # "disabled"
        BY <1>1, <2>1, <3>1, <3>3 DEF Settled
      <4>2. Same(d, e, q)
        <5>1. q \notin Deletions(r)
          BY <2>1, <3>3, PlanKept DEF Waiting
        <5> QED  BY <2>4, <3>3, <5>1
      <4> QED  BY <2>5, <4>1, <4>2, FiledKept DEF Same, Held, Active
    <3>4. Settled(e, s)
      BY <2>5, <3>2, <3>3 DEF Settled
    <3> QED  BY <1>1, <2>1, <2>5, <3>1, <3>4, ForeseenOn
  <2> QED  BY <1>1, <2>1, <2>5, <2>6, <2>7, CleanOn DEF IndexInv
<1>4. CASE GiveUp(i, done(b))
  <2> DEFINE s == done(b)
  <2>1. b \in Runs /\ RunOK(b) /\ b.at = "replace" /\ b.todo = r.todo /\ b.failed
    BY <1>1, <1>2, RecordedLemma
  <2> HIDE DEF b
  <2>2. Carries(b, s)
    BY <2>1, ReplaceDone
  <2>3. GiveUp(i, s)
    BY <1>4
  <2> HIDE DEF s
  <2> QED  BY <1>1, <2>1, <2>2, <2>3, GivenUpClean DEF Carries
<1> QED  BY <1>1, <1>3, <1>4

LEMMA UpdateClean ==
    ASSUME IndexInv, CleanInv, NEW i \in Procs, UpdatePending(i)
    PROVE  CleanInv'
<1> DEFINE r == run[i]
           d == Target(i)
           e == UpdatedBy(d, r)
           b == Recorded(r, FALSE)
<1>1. /\ r.at = "update"
      /\ \/ UpdateAccepted(d, r) /\ Write(i, e) /\ Advance(i, ToFinalize(r))
         \/ GiveUp(i, ToFinalize(b))
  BY DEF UpdatePending
<1>2. r \in Runs /\ RunOK(r) /\ d \in Databases /\ DbOK(d)
  BY Work
<1>3. CASE UpdateAccepted(d, r) /\ Write(i, e) /\ Advance(i, ToFinalize(r))
  <2> DEFINE s == ToFinalize(r)
  <2>1. /\ Proceeds(r, s) /\ SamePlan(r, s) /\ Carries(r, s) /\ s.at = "finalize"
        /\ Waiting(s) = Deletions(r)
    BY <1>1, <1>2, ToFinalizeLemma
  <2> HIDE DEF s
  <2>2. Waiting(r) = Deletions(r)
    BY <1>1 DEF Waiting
  <2>3. /\ \A q \in Paths : Active(e, q) => Held(d, e, q)
        /\ e.row = d.row
        /\ \A q \in Paths : e.chunk[q].state \in {d.chunk[q].state, "ready"}
    <3>1. mixed \/ \A p \in Paths : Active(d, p) => d.chunk[p].cfg = r.cfg
      BY <1>1, <1>3, ChunkedUnderRun
    <3> QED  BY <1>2, <1>3, <3>1, UpdatedLemma
  <2> HIDE DEF e
  <2>4. /\ s.files = r.files /\ s.semantic = r.semantic /\ s.failed = r.failed
        /\ s.undisturbed = r.undisturbed /\ s.failedManifest = r.failedManifest
        /\ s.m = r.m /\ s.cfg = r.cfg /\ s.rebuild = r.rebuild
    BY <2>1 DEF Proceeds, Keeps, SamePlan, Carries
  <2>5. Write(i, e) /\ Advance(i, s)
    BY <1>3 DEF s
  <2>6. Target(i)' = e /\ run' = [run EXCEPT ![i] = s] /\ UNCHANGED <<disk, conf>>
    BY <2>4, <2>5, Written
  <2>7. ASSUME CleanRun(i) PROVE Settled(e, s) /\ Foreseen(s)
    <3>1. Settled(d, r)
      BY <1>1, <2>7 DEF CleanRun
    <3>2. ASSUME NEW q \in Paths \ Waiting(s)
          PROVE  /\ AsFiled(e, s, q)
                 /\ r.semantic /\ Active(e, q) => e.chunk[q].state # "disabled"
      <4>1. /\ AsFiled(d, r, q)
            /\ r.semantic /\ Active(d, q) => d.chunk[q].state # "disabled"
        BY <1>1, <2>1, <2>2, <3>1 DEF Settled
      <4>2. AsFiled(e, s, q)
        BY <2>3, <2>4, <4>1, FiledKept
      <4>3. Active(e, q) => Active(d, q) /\ e.chunk[q].state \in {d.chunk[q].state, "ready"}
        BY <2>3 DEF Held
      <4> QED  BY <4>1, <4>2, <4>3
    <3>3. Settled(e, s)
      BY <2>4, <3>2 DEF Settled
    <3>4. Foreseen(s)
      BY <2>1 DEF Foreseen
    <3> QED  BY <3>3, <3>4
  <2> QED  BY <1>1, <2>1, <2>4, <2>6, <2>7, CleanOn DEF IndexInv
<1>4. CASE GiveUp(i, ToFinalize(b))
  <2> DEFINE s == ToFinalize(b)
  <2>1. b \in Runs /\ RunOK(b) /\ b.at = "update" /\ b.failed
    BY <1>1, <1>2, RecordedLemma
  <2> HIDE DEF b
  <2>2. s.failed
    BY <2>1, ToFinalizeLemma DEF Carries
  <2> QED  BY <1>1, <1>4, <2>2, GivenUpClean
<1> QED  BY <1>1, <1>3, <1>4

(* delete_sources: the files that are gone, the policy and the label were  *)
(* all that was left.                                                      *)
LEMMA FinalizedCurrent ==
    ASSUME IndexInv, NEW i \in Procs, run[i].at = "finalize", CleanRun(i)
    PROVE  Current(FinalizedBy(Target(i), run[i]))
<1> DEFINE r == run[i]
           d == Target(i)
           e == FinalizedBy(d, r)
<1>1. r \in Runs /\ RunOK(r) /\ d \in Databases /\ DbOK(d)
  BY Work
<1>2. /\ e \in Databases /\ e.label = FinalLabel(r) /\ DbOK(e)
      /\ \A q \in Paths : Active(e, q) => Held(d, e, q)
      /\ \A q \in Deletions(r) : e.row[q] = NoRow
      /\ \A q \in Paths \ Deletions(r) : e.row[q] = d.row[q]
      /\ \A q \in Paths : Active(e, q) =>
            IF r.semantic THEN e.chunk[q].state = d.chunk[q].state
            ELSE e.chunk[q].state = "disabled"
  BY <1>1, FinalizedLemma
<1> HIDE DEF e
<1>3. UpToDate(r) /\ ~ r.failedManifest /\ Settled(d, r) /\ Waiting(r) = Deletions(r)
  BY DEF CleanRun, Waiting
<1>4. e.label = [m |-> conf.m, cfg |-> conf.cfg]
  BY <1>2, <1>3 DEF FinalLabel, NewLabel, UpToDate
<1>5. ASSUME NEW p \in Deletions(r) PROVE Expected(e, p)
  BY <1>2, <1>3 DEF Expected, Deletions, UpToDate, Stored
<1>6. ASSUME NEW p \in Paths \ Deletions(r) PROVE Expected(e, p)
  <2>1. /\ AsFiled(d, r, p)
        /\ r.semantic /\ Active(d, p) => d.chunk[p].state # "disabled"
    BY <1>3 DEF Settled
  <2>2. AsFiled(e, r, p)
    BY <1>2, <2>1, FiledKept
  <2>3. ASSUME Active(e, p)
        PROVE  e.chunk[p].state \in IF r.semantic THEN {"ready", "pending"} ELSE {"disabled"}
    <3>1. e.chunk[p].state \in {"ready", "pending", "disabled"}
      BY <1>2, <2>3, DatabasesDef DEF DbOK, PathOK, Chunks
    <3>2. Active(d, p)
      BY <1>2, <2>3 DEF Held
    <3> QED  BY <1>2, <2>1, <2>3, <3>1, <3>2
  <2>4. r.files[p] = disk[p] /\ TextOf(r, p) = <<disk[p], conf.m>>
        /\ r.cfg = conf.cfg /\ r.semantic = conf.semantic
    BY <1>3 DEF UpToDate, TextOf
  <2> QED  BY <2>2, <2>3, <2>4 DEF AsFiled, Expected, Active
<1>7. \A p \in Paths : Expected(e, p)
  BY <1>5, <1>6
<1> QED  BY <1>4, <1>7 DEF Current, e

LEMMA FinalizeClean ==
    ASSUME IndexInv, CleanInv, NEW i \in Procs, Finalize(i)
    PROVE  CleanInv'
<1> DEFINE r == run[i]
           e == FinalizedBy(Target(i), r)
           x == IF r.rebuild THEN [r EXCEPT !.at = "publish"] ELSE Idle
<1>1. r.at = "finalize" /\ Write(i, e) /\ Advance(i, x)
  BY DEF Finalize
<1>2. r \in Runs
  BY Work
<1>3. ASSUME Clean(x) PROVE CleanRun(i)'
  <2>1. r.rebuild
    BY <1>3, IdleOK DEF Clean
  <2>2. /\ x.at = "publish" /\ x.rebuild = r.rebuild /\ x.files = r.files /\ x.m = r.m
        /\ x.cfg = r.cfg /\ x.semantic = r.semantic /\ x.failed = r.failed
        /\ x.undisturbed = r.undisturbed /\ x.failedManifest = r.failedManifest
    BY <1>2, <2>1 DEF Runs
  <2> HIDE DEF x
  <2>3. CleanRun(i)
    BY <1>1, <1>3, <2>2 DEF Clean, CleanInv
  <2>4. Current(e)
    BY <1>1, <2>3, FinalizedCurrent
  <2> HIDE DEF e
  <2>5. /\ Target(i)' = e /\ run' = [run EXCEPT ![i] = x] /\ UNCHANGED <<disk, conf>>
        /\ run'[i] = x
    BY <1>1, <2>2, Written
  <2>6. Running' = {i}
    BY <2>2, <2>3, <2>5 DEF CleanRun, Running, IndexInv, IndexTypeOK
  <2>7. UpToDate(run[i])'
    BY <2>2, <2>3, <2>5 DEF CleanRun, UpToDate
  <2>8. Current(Target(i))'
    BY <2>4, <2>5 DEF Current, Expected, Stored, Active
  <2> QED  BY <2>2, <2>3, <2>5, <2>6, <2>7, <2>8 DEF CleanRun
<1>4. run' = [run EXCEPT ![i] = x]
  BY <1>1 DEF Advance
<1> HIDE DEF x
<1> QED  BY <1>1, <1>3, <1>4, CleanAlone DEF IndexInv

(* Whoever leaves is not clean, and whoever enters or edits disturbs.      *)
LEMMA LeavesClean ==
    ASSUME IndexInv, CleanInv, NEW i \in Procs, run[i].at # "idle", Advance(i, Idle)
    PROVE  CleanInv'
<1>1. run' = [run EXCEPT ![i] = Idle] /\ ~ Clean(Idle)
  BY IdleOK DEF Advance, Clean
<1> QED  BY <1>1, CleanAlone DEF IndexInv

LEMMA DisturbedNotClean ==
    ASSUME NEW r \in Runs
    PROVE  ~ Clean(Disturbed(r))
BY DEF Clean, Disturbed, Runs

LEMMA EditClean ==
    ASSUME IndexInv, Edit
    PROVE  CleanInv'
<1>1. run \in [Procs -> Runs] /\ run' = [i \in Procs |-> Disturbed(run[i])]
  BY DEF IndexInv, IndexTypeOK, Edit
<1>2. \A i \in Procs : ~ Clean(run'[i])
  BY <1>1, DisturbedNotClean
<1> QED  BY <1>2 DEF CleanInv

(* A run that starts alone on an index that its label describes finds it   *)
(* parsed with its manifest and chunked under its configuration, or has    *)
(* planned to parse all of it again.                                       *)
LEMMA EntersClean ==
    ASSUME IndexInv, NEW i \in Procs, NEW d \in Databases, RowsOK(d), NEW rebuild \in BOOLEAN,
           d.label # None => d.label.cfg = conf.cfg,
           Enter(i, Started(d, rebuild)), UNCHANGED <<disk, conf, db>>,
           IF rebuild THEN temp'[i] = d ELSE db = d
    PROVE  CleanInv'
<1> DEFINE r == Started(d, rebuild)
<1>1. /\ r.at = "plan" /\ (r.rebuild <=> rebuild) /\ r.m = conf.m /\ r.cfg = conf.cfg
      /\ ~ r.failedManifest /\ (r.promote <=> d.label # None /\ d.label.m # conf.m)
      /\ r.files = disk /\ r.semantic = conf.semantic
      /\ r.undisturbed <=> Running = {} /\ (d.label # NewLabel(conf) \/ Coherent(d))
  BY StartedLemma DEF IndexInv
<1> HIDE DEF r
<1>2. /\ run \in [Procs -> Runs] /\ run[i].at = "idle"
      /\ run' = [j \in Procs |-> IF j = i THEN r ELSE Disturbed(run[j])]
  BY DEF IndexInv, IndexTypeOK, Enter, r
<1>3. run'[i] = r /\ \A k \in Procs \ {i} : run'[k] = Disturbed(run[k]) /\ ~ Clean(run'[k])
  BY <1>2, DisturbedNotClean
<1>4. ASSUME Clean(r) PROVE CleanRun(i)'
  <2>1. Running = {} /\ (d.label # NewLabel(conf) \/ Coherent(d))
    BY <1>1, <1>4 DEF Clean
  <2>2. Running' = {i}
    <3>1. \A k \in Procs \ {i} : run'[k].at = "idle"
      BY <1>2, <1>3, <2>1 DEF Running, Disturbed, Runs
    <3> QED  BY <1>1, <1>3, <3>1 DEF Running
  <2>3. UpToDate(run[i])' /\ ~ run'[i].failedManifest
    BY <1>1, <1>3 DEF UpToDate
  <2>4. Target(i)' = d
    BY <1>1, <1>3 DEF Target
  <2>5. ASSUME ~ r.promote PROVE AllParsedWith(d, r.m) /\ AllChunkedUnder(d, r.cfg)
    <3>1. CASE d.label = None
      BY <3>1 DEF RowsOK, AllParsedWith, AllChunkedUnder
    <3>2. CASE d.label # None
      <4>1. d.label \in Label /\ d.label.m = conf.m /\ d.label.cfg = conf.cfg
        BY <1>1, <2>5, <3>2, DatabasesDef
      <4>2. d.label = NewLabel(conf)
        BY <4>1 DEF Label, NewLabel
      <4> QED  BY <1>1, <2>1, <4>1, <4>2 DEF Coherent, AllParsedWith, AllChunkedUnder
    <3> QED  BY <3>1, <3>2
  <2>6. (~ run[i].promote =>
            AllParsedWith(Target(i), run[i].m) /\ AllChunkedUnder(Target(i), run[i].cfg))'
    BY <1>3, <2>4, <2>5 DEF AllParsedWith, AllChunkedUnder
  <2> QED  BY <1>1, <1>3, <2>2, <2>3, <2>6 DEF CleanRun
<1>5. ASSUME NEW k \in Procs, Clean(run'[k]) PROVE CleanRun(k)'
  BY <1>3, <1>4, <1>5
<1> QED  BY <1>5 DEF CleanInv

LEMMA CleanInvNext ==
    ASSUME IndexInv, RowsInv, CleanInv, [Next]_vars
    PROVE  CleanInv'
<1>1. CASE UNCHANGED vars
  BY <1>1 DEF vars, CleanInv, CleanRun, Running, Target, UpToDate, AllParsedWith,
              AllChunkedUnder, Settled, AsFiled, Foreseen, Current, Expected, Stored, Active
<1>2. CASE Configure \/ \E p \in Paths : EditFile(p) \/ \E q \in Paths : RenameFile(p, q)
  BY <1>2, EditClean DEF Configure, EditFile, RenameFile
<1>3. ASSUME NEW i \in Procs, Begin(i) PROVE CleanInv'
  BY <1>3, Work, TargetRows, EntersClean DEF Begin, Compatible
<1>4. ASSUME NEW i \in Procs, BeginRebuild(i) PROVE CleanInv'
  <2>1. EmptyDb.label = None
    BY DEF EmptyDb
  <2>2. temp'[i] = EmptyDb
    BY <1>4, Work DEF BeginRebuild
  <2> QED  BY <1>4, <2>1, <2>2, EmptyOK, EmptyRows, EntersClean DEF BeginRebuild
<1>5. ASSUME NEW i \in Procs, Stop(i) \/ Publish(i) PROVE CleanInv'
  BY <1>5, LeavesClean DEF Stop, Publish
<1>6. ASSUME NEW i \in Procs, Step(i), ~ Publish(i) PROVE CleanInv'
  BY <1>6, PlanClean, EmbedClean, RequeueClean, RetryClean, SuppressClean, ReplaceClean,
     UpdateClean, FinalizeClean DEF Step
<1> QED  BY <1>1, <1>2, <1>3, <1>4, <1>5, <1>6 DEF Next

ConvergeInv == IndexInv /\ RowsInv /\ CleanInv /\ faults \in Nat

LEMMA ConvergeInvAlways == Spec => []ConvergeInv
<1>1. Init => RowsInv /\ CleanInv /\ faults \in Nat
  BY EmptyRows, IdleOK DEF Init, RowsInv, CleanInv, Clean
<1>2. ConvergeInv /\ [Next]_vars => ConvergeInv'
  <2>1. ASSUME faults \in Nat, [Next]_vars PROVE faults' \in Nat
    <3>1. ASSUME NEW i \in Procs, Plan(i) \/ Requeue(i) \/ RetryPending(i) \/ UpdatePending(i)
                                  \/ Finalize(i) \/ Publish(i) \/ Stop(i)
          PROVE  NoFault \/ Fault
      BY <3>1 DEF Plan, Requeue, RetryPending, UpdatePending, Finalize, Publish, Stop
    <3>2. ASSUME NEW i \in Procs, NEW p \in Paths, Embed(i, p) \/ Suppress(i, p) \/ Replace(i, p)
          PROVE  NoFault \/ Fault
      BY <3>2 DEF Embed, Suppress, Replace
    <3>3. ASSUME UNCHANGED faults PROVE NoFault
      BY <3>3 DEF NoFault
    <3>4. NoFault \/ Fault
      BY <2>1, <3>1, <3>2, <3>3 DEF Next, vars, Step, EditFile, RenameFile, Configure, Edit, Begin,
                                   BeginRebuild
    <3> QED  BY <2>1, <3>4 DEF Fault, NoFault
  <2> QED  BY <2>1, IndexInvNext, RowsInvNext, CleanInvNext DEF ConvergeInv
<1>3. Init => ConvergeInv
  BY <1>1, IndexInvInit DEF ConvergeInv
<1> QED  BY <1>2, <1>3, PTL DEF Spec

LEMMA Converges ==
    ASSUME ConvergeInv, [Next]_vars, NEW i \in Procs, Ended(i),
           run[i].undisturbed, ~ run[i].failed
    PROVE  Current(db')
<1>1. IndexInv /\ run \in [Procs -> Runs] /\ faults \in Nat /\ faults' = faults
  BY DEF ConvergeInv, IndexInv, IndexTypeOK, Ended
<1>2. run[i].at \in {"finalize", "publish"} /\ run'[i].at = "idle" /\ CleanRun(i)
  BY DEF Ended, ConvergeInv, CleanInv, Clean
<1>3. PICK k \in Procs : Step(k)
  <2>1. Next
    BY <1>2 DEF vars
  <2>2. \A k \in Procs : ~ Stop(k)
    BY <1>1 DEF Stop, Fault
  <2>5. Disturbed(run[i]).at # "idle" /\ run[i].at # "idle"
    BY <1>1, <1>2 DEF Disturbed, Runs
  <2>3. ~ Edit
    BY <1>2, <2>5 DEF Edit
  <2>4. ASSUME NEW k \in Procs, NEW r, Enter(k, r) PROVE FALSE
    <3>1. k # i
      BY <2>4, <2>5 DEF Enter
    <3>2. run'[i] = Disturbed(run[i])
      BY <2>4, <3>1 DEF Enter
    <3> QED  BY <1>2, <2>5, <3>2
  <2> QED  BY <2>1, <2>2, <2>3, <2>4 DEF Next, EditFile, RenameFile, Configure, Begin, BeginRebuild
<1>4. k = i
  <2>1. \E s : run' = [run EXCEPT ![k] = s]
    BY <1>3 DEF Step, Plan, Requeue, RetryPending, UpdatePending, Finalize, Publish, Embed,
                Suppress, Replace, GiveUp, Advance
  <2> QED  BY <1>1, <1>2, <2>1
<1>5. CASE Finalize(i)
  <2>1. ~ run[i].rebuild
    BY <1>1, <1>2, <1>5 DEF Finalize, Advance, Runs
  <2>2. db' = FinalizedBy(Target(i), run[i]) /\ run[i].at = "finalize"
    BY <1>5, <2>1 DEF Finalize, Write
  <2> QED  BY <1>1, <1>2, <2>2, FinalizedCurrent
<1>6. CASE Publish(i)
  <2>1. db' = Target(i) /\ run[i].at = "publish"
    BY <1>1, <1>6 DEF Publish, Target, IndexInv, CopiesOK
  <2> QED  BY <1>2, <2>1 DEF CleanRun
<1> QED
  BY <1>2, <1>3, <1>4, <1>5, <1>6 DEF Step, Plan, Requeue, RetryPending, UpdatePending, Embed,
                                      Suppress, Replace

(* A run that had the index to itself, saw no edit and failed at nothing   *)
(* leaves what the files, the manifest and the policy ask for, whatever    *)
(* index earlier runs, crashes and failures had left it (_reconcile in     *)
(* indexing/service.py, and the transactions of storage/sqlite.py).        *)
THEOREM IndexCleanRunConverges == Spec => CleanRunConverges
<1>1. ConvergeInv /\ [Next]_vars =>
        [\A i \in Procs : Ended(i) /\ run[i].undisturbed /\ ~ run[i].failed => Current(db')]_vars
  BY Converges
<1> QED  BY <1>1, ConvergeInvAlways, PTL DEF Spec, CleanRunConverges
=============================================================================
