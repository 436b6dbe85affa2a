----------------------- MODULE RepositorySync_proofs -----------------------
(***************************************************************************)
(* Answers are true: while the ref only moves forward, whatever crashes,   *)
(* fails or races, an answer is the content of the commit on its label,    *)
(* less what cannot be parsed and what a later run at that commit could    *)
(* not read.                                                               *)
(* For every vault, history of commits, number of queries and of faults.   *)
(***************************************************************************)
EXTENDS RepositorySync, FiniteSetTheorems, TLAPS

(* The state file after a write.                                           *)
LEMMA StoredAfterWrite ==
    ASSUME NEW s \in States, s.trusted, file' = s
    PROVE  Stored' = s
  BY DEF Stored

(* What read returns is a state, and counts as trusted.                    *)
LEMMA StoredType ==
    ASSUME file \in States
    PROVE  Stored \in States /\ Stored.trusted
  BY DEF Stored, Initial, States, Reasons, Sha

(* What discovery returns: of each path, what the target has, or nothing.  *)
LEMMA DiscoveredIs ==
    ASSUME pass.target \in Sha, NEW unread
    PROVE  /\ Discovered(unread) \in Content
           /\ \A p \in Paths : Discovered(unread)[p] \in {NoDoc, Tree[pass.target][p]}
<1>1. \A p \in Readable : Tree[pass.target][p] \in Docs
  BY DEF Readable
<1>. QED  BY <1>1 DEF Discovered, Content

(* Type correctness is inductive: the polling thread's steps.              *)
LEMMA SyncKeepsTypes == SyncTypeOK /\ Sync => SyncTypeOK'
<1> SUFFICES ASSUME SyncTypeOK, Sync PROVE SyncTypeOK'
  OBVIOUS
<1>s. Stored \in States /\ Stored.trusted
  BY StoredType DEF SyncTypeOK
<1>d. ASSUME NEW why \in Reasons PROVE Degraded(why) \in States
  BY <1>s, <1>d DEF Degraded, States
<1>n. NoPass \in Passes
  BY DEF NoPass, NoIndex, Content, Passes, Sha
<1>p. \A st \in {"idle", "fetch", "inspect", "lock", "persist", "failed", "unexpected",
                 "mark", "attempt", "index", "write"} : st \in Places
  BY DEF Places, Locked
<1>f. Fault => faults' \in 0..MaxFaults
  BY SyncAssumption DEF Fault, Faults, SyncTypeOK
<1>1. CASE Poll
  BY <1>1, <1>n, <1>p DEF Poll, SyncTypeOK, Passes, disk
<1>2. CASE Fetch
  BY <1>2, <1>s, <1>p DEF Fetch, Write, SyncTypeOK, Passes, States, Sha
<1>3. CASE LeaveFailed
  BY <1>3, <1>n, <1>p DEF LeaveFailed, End, SyncTypeOK, disk
<1>4. CASE LeaveUnchanged
  BY <1>4, <1>n, <1>d, <1>p DEF LeaveUnchanged, End, Write, SyncTypeOK, Reasons
<1>5. CASE Take
  <2>1. (head # None /\ index.ready) \in BOOLEAN
    OBVIOUS
  <2>. QED  BY <1>5, <1>p, <2>1 DEF Take, SyncTypeOK, Passes, disk
<1>6. CASE Activate
  BY <1>6, <1>p DEF Activate, SyncTypeOK, Passes
<1>7. CASE MarkCheckout
  BY <1>7, <1>s, <1>p DEF MarkCheckout, Write, SyncTypeOK, Passes, States, Reasons
<1>8. CASE MarkAttempt
  BY <1>8, <1>s, <1>p DEF MarkAttempt, Write, SyncTypeOK, Passes, States, Reasons
<1>g. ASSUME NEW n \in Nat, Faults(n) PROVE faults' \in 0..MaxFaults
  BY <1>g, SyncAssumption DEF Faults, SyncTypeOK
<1>c. \A unread \in SUBSET Readable : Cardinality(unread) \in Nat
  BY SyncAssumption, FS_Subset, FS_CardinalityType DEF Readable
<1>h. ASSUME NEW found, Dropping(found) PROVE dropped' \in SUBSET (Sha \X Paths)
  BY <1>h DEF Dropping, SyncTypeOK, Passes
<1>t. pass.target \in Sha
  BY DEF SyncTypeOK, Passes
<1>9. CASE Rebuild
  <2>0. PICK unread \in SUBSET Readable :
           LET found  == Discovered(unread)
               parsed == {p \in Paths : found[p] \in Docs \ Unparsable}
           IN /\ Faults(Cardinality(unread) + IF pass.usable THEN 1 ELSE 0)
              /\ \E pending \in BOOLEAN :
                   index' = [rows    |-> [p \in Paths |-> IF p \in parsed THEN found[p] ELSE NoDoc],
                             shown   |-> parsed,
                             ready   |-> TRUE,
                             pending |-> pending]
              /\ pass' = [pass EXCEPT !.found = found,
                     !.clean = found = Tree[pass.target] /\ \A p \in Paths : found[p] \notin Unparsable]
              /\ Dropping(found)
    BY <1>9 DEF Rebuild
  <2> DEFINE found  == Discovered(unread)
             parsed == {p \in Paths : found[p] \in Docs \ Unparsable}
             built  == [p \in Paths |-> IF p \in parsed THEN found[p] ELSE NoDoc]
  <2>1. /\ built \in Content /\ parsed \in SUBSET Paths /\ \A x \in parsed : built[x] # NoDoc
        /\ found \in Content
    BY <1>t, DiscoveredIs, SyncAssumption DEF Content
  <2>2. PICK b \in BOOLEAN :
           index' = [rows |-> built, shown |-> parsed, ready |-> TRUE, pending |-> b]
    BY <2>0
  <2>3. pass' = [pass EXCEPT !.found = found,
                   !.clean = found = Tree[pass.target] /\ \A p \in Paths : found[p] \notin Unparsable]
    BY <2>0
  <2>4. faults' \in 0..MaxFaults /\ dropped' \in SUBSET (Sha \X Paths)
    <3>1. (Cardinality(unread) + IF pass.usable THEN 1 ELSE 0) \in Nat
      BY <1>c, <2>0
    <3>. QED  BY <2>0, <3>1, <1>h, <1>g
  <2> HIDE DEF built, parsed, found
  <2>5. index' \in Indexes /\ \A x \in index'.shown : index'.rows[x] # NoDoc
    BY <2>1, <2>2 DEF Indexes
  <2>6. pass' \in Passes
    <3>1. (found = Tree[pass.target] /\ \A p \in Paths : found[p] \notin Unparsable) \in BOOLEAN
      OBVIOUS
    <3>. QED  BY <2>1, <2>3, <3>1 DEF SyncTypeOK, Passes
  <2>. QED  BY <1>9, <1>p, <2>4, <2>5, <2>6 DEF Rebuild, SyncTypeOK
<1>10. CASE Plan
  <2>0. PICK unread \in SUBSET Readable :
           /\ Faults(Cardinality(unread))
           /\ pass' = [pass EXCEPT !.found = Discovered(unread),
                        !.todo  = {p \in Paths : index.rows[p] # Discovered(unread)[p]},
                        !.clean = Discovered(unread) = Tree[pass.target]]
    BY <1>10 DEF Plan
  <2> DEFINE found == Discovered(unread)
  <2>1. found \in Content /\ (found = Tree[pass.target]) \in BOOLEAN
    BY <1>t, DiscoveredIs
  <2>2. pass' = [pass EXCEPT !.found = found, !.todo = {p \in Paths : index.rows[p] # found[p]},
                             !.clean = found = Tree[pass.target]]
    BY <2>0
  <2> HIDE DEF found
  <2>3. pass' \in Passes
    BY <2>1, <2>2 DEF SyncTypeOK, Passes
  <2>. QED  BY <1>10, <1>c, <1>g, <1>p, <2>0, <2>3 DEF Plan, SyncTypeOK, disk
<1>11. ASSUME NEW p \in Paths, Suppress(p) PROVE SyncTypeOK'
  <2>1. pass.found[p] \in Docs
    BY <1>11, SyncAssumption DEF Suppress, ToSuppress
  <2> DEFINE less == [index EXCEPT !.rows[p] = pass.found[p], !.shown = @ \ {p}]
  <2>2. less \in Indexes /\ \A x \in less.shown : less.rows[x] # NoDoc
    BY <2>1 DEF SyncTypeOK, Indexes, Content
  <2>3. index' \in {index, less}
    BY <1>11 DEF Suppress
  <2> HIDE DEF less
  <2>4. pass' \in Passes
    BY <1>11 DEF Suppress, SyncTypeOK, Passes
  <2>. QED  BY <1>11, <2>2, <2>3, <2>4 DEF Suppress, SyncTypeOK
<1>12. ASSUME NEW p \in Paths, Replace(p) PROVE SyncTypeOK'
  <2>1. pass.found[p] \in Docs /\ pass.found[p] # NoDoc
    BY <1>12, SyncAssumption DEF Replace, ToReplace
  <2>2. index' \in Indexes /\ \A x \in index'.shown : index'.rows[x] # NoDoc
    BY <1>12, <2>1 DEF Replace, SyncTypeOK, Indexes, Content
  <2>3. pass' \in Passes
    BY <1>12 DEF Replace, SyncTypeOK, Passes
  <2>. QED  BY <1>12, <2>2, <2>3 DEF Replace, SyncTypeOK
<1>13. CASE Finalize
  <2> DEFINE left == [x \in Paths |-> IF x \in pass.todo THEN NoDoc ELSE index.rows[x]]
  <2>1. PICK b \in BOOLEAN :
           index' = [rows |-> left, shown |-> index.shown \ pass.todo,
                     ready |-> TRUE, pending |-> b]
    BY <1>13 DEF Finalize
  <2>2. left \in Content /\ \A x \in index.shown \ pass.todo : left[x] # NoDoc
    BY DEF SyncTypeOK, Indexes, Content
  <2> HIDE DEF left
  <2>3. index' \in Indexes /\ \A x \in index'.shown : index'.rows[x] # NoDoc
    BY <2>1, <2>2 DEF Indexes, SyncTypeOK
  <2>4. pass' \in Passes
    BY <1>13 DEF Finalize, SyncTypeOK, Passes
  <2>. QED  BY <1>13, <1>h, <1>p, <2>3, <2>4 DEF Finalize, SyncTypeOK
<1>14. CASE Persist
  BY <1>14, <1>s, <1>d, <1>n, <1>p DEF Persist, End, Write, SyncTypeOK, States, Reasons
<1>15. CASE RecordFailure
  BY <1>15, <1>n, <1>d, <1>p DEF RecordFailure, End, Write, SyncTypeOK, Reasons
<1>16. CASE RefuseManifest
  BY <1>16, <1>f, <1>n, <1>d, <1>p DEF RefuseManifest, End, Write, SyncTypeOK, Reasons
<1>. QED
  BY <1>1, <1>2, <1>3, <1>4, <1>5, <1>6, <1>7, <1>8, <1>9, <1>10, <1>11, <1>12, <1>13,
     <1>14, <1>15, <1>16 DEF Sync
(* Type correctness is inductive: everything else.                         *)
LEMMA OthersKeepTypes ==
    ASSUME SyncTypeOK,
           \/ Push \/ Crash \/ RequestSync \/ FetchError \/ LockedError \/ WriteError
           \/ \E p \in Paths : SkipSource(p)
           \/ \E q \in Queries : Admit(q) \/ Query(q)
           \/ UNCHANGED syncVars
    PROVE  SyncTypeOK'
<1>s. Stored \in States /\ Stored.trusted
  BY StoredType DEF SyncTypeOK
<1>d. ASSUME NEW why \in Reasons PROVE Degraded(why) \in States
  BY <1>s, <1>d DEF Degraded, States
<1>n. NoPass \in Passes
  BY DEF NoPass, NoIndex, Content, Passes, Sha
<1>p. {"idle", "failed", "unexpected"} \subseteq Places
  BY DEF Places
<1>f. Fault => faults' \in 0..MaxFaults
  BY SyncAssumption DEF Fault, Faults, SyncTypeOK
<1>1. CASE Push
  BY <1>1 DEF Push, SyncTypeOK, disk
<1>2. CASE Crash
  <2>1. NoIndex \in Indexes /\ NoIndex.shown = {}
    BY DEF NoIndex, Indexes, Content
  <2>2. queries' \in [Queries -> [at : {"idle", "admitted", "searched", "answered"},
                                  hits : Content, label : Sha]]
    BY <1>2 DEF Crash, NoQuery, NoIndex, Content, Sha
  <2>3. head' \in Sha /\ file' \in States /\ index' \in {index, NoIndex}
    BY <1>2 DEF Crash, SyncTypeOK, Sha, States, disk
  <2>. QED  BY <1>2, <1>f, <1>n, <1>p, <2>1, <2>2, <2>3 DEF Crash, End, SyncTypeOK
<1>3. CASE RequestSync
  BY <1>3 DEF RequestSync, SyncTypeOK, disk
<1>4. CASE FetchError
  BY <1>4, <1>d, <1>f, <1>n, <1>p DEF FetchError, FetchFailed, End, Write, SyncTypeOK, Reasons
<1>5. CASE LockedError
  BY <1>5, <1>f, <1>n, <1>p DEF LockedError, SyncTypeOK, disk
<1>6. CASE WriteError
  BY <1>6, <1>f, <1>n, <1>p DEF WriteError, End, SyncTypeOK, disk
<1>7. ASSUME NEW p \in Paths, SkipSource(p) PROVE SyncTypeOK'
  <2>1. pass' \in Passes
    BY <1>7 DEF SkipSource, SyncTypeOK, Passes
  <2>. QED  BY <1>7, <1>f, <2>1 DEF SkipSource, SyncTypeOK, disk
<1>8. ASSUME NEW q \in Queries, Admit(q) \/ Query(q) PROVE SyncTypeOK'
  <2>1. [p \in Paths |-> IF p \in index.shown THEN index.rows[p] ELSE NoDoc] \in Content
    BY DEF SyncTypeOK, Indexes, Content
  <2>2. NoQuery \in [at : {"idle", "admitted", "searched", "answered"},
                     hits : Content, label : Sha]
    BY DEF NoQuery, NoIndex, Content, Sha
  <2>3. Stored.reconciled \in Sha
    BY <1>s DEF States
  <2>4. CASE Admit(q)
    BY <2>4 DEF Admit, SyncTypeOK, disk
  <2>5. CASE Search(q)
    BY <2>1, <2>5 DEF Search, SyncTypeOK, disk
  <2>6. CASE Label(q)
    BY <2>3, <2>6 DEF Label, SyncTypeOK, disk
  <2>7. CASE Return(q)
    BY <2>2, <2>7 DEF Return, SyncTypeOK, disk
  <2>. QED  BY <1>8, <2>4, <2>5, <2>6, <2>7 DEF Query
<1>9. CASE UNCHANGED syncVars
  BY <1>9 DEF syncVars, disk, SyncTypeOK
<1>. QED  BY <1>1, <1>2, <1>3, <1>4, <1>5, <1>6, <1>7, <1>8, <1>9

(* A fresh vault: no checkout, no state file, an empty index.              *)
LEMMA InitTypes == SyncInit => SyncTypeOK
<1> SUFFICES ASSUME SyncInit PROVE SyncTypeOK
  OBVIOUS
<1>1. NoIndex \in Indexes /\ NoIndex.shown = {}
  BY DEF NoIndex, Indexes, Content
<1>2. NoPass \in Passes
  BY DEF NoPass, NoIndex, Content, Passes, Sha
<1>3. Initial(None, TRUE) \in States
  BY DEF Initial, States, Sha, Reasons
<1>4. "idle" \in Places /\ faults \in 0..MaxFaults
  BY SyncAssumption DEF SyncInit, Places
<1>5. queries \in [Queries -> [at : {"idle", "admitted", "searched", "answered"},
                               hits : Content, label : Sha]]
  BY DEF SyncInit, NoQuery, NoIndex, Content, Sha
<1>. QED  BY <1>1, <1>2, <1>3, <1>4, <1>5 DEF SyncInit, SyncTypeOK, Sha

(* Types are kept by every step.                                           *)
LEMMA NextTypes == SyncTypeOK /\ [SyncNext]_syncVars => SyncTypeOK'
  BY SyncKeepsTypes, OthersKeepTypes DEF SyncNext

(* The state on disk and in the process keeps its types.                   *)
THEOREM VaultTypeOK == SyncSpec => []SyncTypeOK
  BY InitTypes, NextTypes, PTL DEF SyncSpec
----------------------------------------------------------------------------
(* R is the order of the history, and the ref only moves forward in it.    *)
Forward(R) ==
    /\ Follows \subseteq R
    /\ \A c \in Commits : <<c, c>> \notin R
    /\ \A a, b, c \in Commits : <<a, b>> \in R /\ <<b, c>> \in R => <<a, c>> \in R

UpTo(R, c, d) == c = None \/ c = d \/ <<c, d>> \in R

(* Hits, or the index, are what commit c has, less what cannot be parsed  *)
(* and what a later run at c did not find.                                 *)
Right(hits, c) ==
    \A p \in Paths :
        \/ hits[p] = Tree[c][p] /\ Tree[c][p] \notin Unparsable
        \/ hits[p] = NoDoc /\ (Tree[c][p] \in Unparsable \/ <<c, p>> \in dropped)

IndexIs(c) ==
    \A p \in Paths :
        \/ index.rows[p] = Tree[c][p] /\ Tree[c][p] \notin Unparsable
        \/ p \notin index.shown /\ (Tree[c][p] \in Unparsable \/ <<c, p>> \in dropped)

(* A row that is not shown has the hash of a content that was refused.     *)
ShownParsable ==
    \A p \in Paths : p \in index.shown <=> index.rows[p] \in Docs \ Unparsable

(* What was recorded is not after what a pass works on, nor that after     *)
(* what the ref names.                                                     *)
Monotone(R) ==
    /\ \A d \in {upstream, pass.target} \ {None} :
          UpTo(R, Stored.checkout, d) /\ UpTo(R, Stored.reconciled, d)
    /\ UpTo(R, pass.target, upstream)

(* What the pass has done and recorded when it stands at a place.          *)
Stage ==
    /\ step \in Locked \cup {"inspect", "lock", "persist"} => pass.target # None
    /\ step = "mark" => head = pass.target
    /\ step \in {"attempt", "index", "write", "persist"} => Stored.checkout = pass.target
    /\ step \in {"index", "write", "persist"} => Stored.attempted = pass.target
    /\ pass.usable /\ step \in {"lock", "mark", "attempt", "index"} => index.ready
    /\ step = "write" =>
          /\ index.ready
          /\ \A p \in Paths : pass.found[p] \in {NoDoc, Tree[pass.target][p]}
    /\ step = "write" /\ pass.clean =>
          /\ \A p \in Paths : pass.found[p] = Tree[pass.target][p]
          /\ \A p \in Paths \ pass.todo : index.rows[p] = Tree[pass.target][p]
    /\ step = "persist" /\ pass.clean => IndexIs(pass.target)
    /\ step \in Locked => Inside = {}

(* An index that is ready is of the reconciled commit, or the state file   *)
(* says that a later commit has been checked out since.                    *)
IndexFits(R) ==
    Stored.reconciled # None /\ index.ready =>
        \/ IndexIs(Stored.reconciled)
        \/ Stored.checkout # None /\ <<Stored.reconciled, Stored.checkout>> \in R

(* A query that has been admitted keeps what it was admitted for.          *)
QueriesRight ==
    \A q \in Queries :
        /\ queries[q].at \in {"admitted", "searched"} =>
              /\ Stored.reconciled # None /\ Stored.checkout = Stored.reconciled
              /\ IndexIs(Stored.reconciled)
        /\ queries[q].at = "searched" => Right(queries[q].hits, Stored.reconciled)
        /\ queries[q].at = "answered" => Right(queries[q].hits, queries[q].label)

Trust(R) == ShownParsable /\ Monotone(R) /\ Stage /\ IndexFits(R) /\ QueriesRight
SyncInv(R) == SyncTypeOK /\ Trust(R)

(* The two records of the state file that decide what may be served.       *)
SameRecords ==
    Stored'.checkout = Stored.checkout /\ Stored'.reconciled = Stored.reconciled

(* Noting a reason, or a fetch, leaves them alone.                         *)
LEMMA NotesKeepRecords ==
    ASSUME SyncTypeOK, NEW why \in Reasons, NEW c \in Sha,
           \/ file' = Degraded(why)
           \/ file' = [Stored EXCEPT !.fetched = c]
           \/ file' = file
    PROVE  /\ SameRecords /\ Stored'.attempted = Stored.attempted
           /\ file.trusted => file'.trusted
<1>1. Stored \in States /\ Stored.trusted
  BY StoredType DEF SyncTypeOK
<1>2. CASE file' = Degraded(why)
  <2>1. Degraded(why) \in States /\ Degraded(why).trusted
    BY <1>1 DEF Degraded, States
  <2>2. Stored' = Degraded(why)
    BY <1>2, <2>1, StoredAfterWrite
  <2>. QED  BY <1>1, <2>2 DEF Degraded, States, SameRecords
<1>3. CASE file' = [Stored EXCEPT !.fetched = c]
  <2>. DEFINE s == [Stored EXCEPT !.fetched = c]
  <2>1. /\ s \in States /\ s.trusted
        /\ s.checkout = Stored.checkout /\ s.reconciled = Stored.reconciled
        /\ s.attempted = Stored.attempted
    BY <1>1 DEF States
  <2>2. file' = s
    BY <1>3
  <2>. HIDE DEF s
  <2>3. Stored' = s
    BY <2>1, <2>2, StoredAfterWrite
  <2>. QED  BY <2>1, <2>2, <2>3 DEF SameRecords
<1>4. CASE file' = file
  BY <1>4 DEF Stored, SameRecords
<1>. QED  BY <1>2, <1>3, <1>4

(* A step that moves the pass and changes neither records, nor index, nor  *)
(* queries.                                                                *)
LEMMA QuietStep ==
    ASSUME NEW R, Trust(R), SameRecords,
           UNCHANGED <<upstream, dropped, index, queries>>,
           pass'.target \in {pass.target, None, upstream}, Stage'
    PROVE  Trust(R)'
<1>1. ShownParsable'
  BY DEF Trust, ShownParsable
<1>2. Monotone(R)'
  BY DEF Trust, Monotone, SameRecords, UpTo
<1>3. IndexFits(R)'
  BY DEF Trust, IndexFits, SameRecords, IndexIs
<1>4. QueriesRight'
  BY DEF Trust, QueriesRight, SameRecords, IndexIs, Right
<1>. QED  BY <1>1, <1>2, <1>3, <1>4 DEF Trust

(* Outside the steps of a pass there is nothing to say of its stage.       *)
LEMMA EndedStage ==
    ASSUME step' \in {"idle", "fetch", "failed", "unexpected"}
    PROVE  Stage'
  BY DEF Stage, Locked

(* The steps of a pass that only look, or only note.                       *)
LEMMA QuietSync ==
    ASSUME NEW R, SyncInv(R),
           \/ Poll \/ Fetch \/ LeaveFailed \/ LeaveUnchanged \/ Take \/ Activate
           \/ RecordFailure \/ RefuseManifest \/ FetchError \/ LockedError \/ WriteError
           \/ Plan
    PROVE  Trust(R)'
<1>i. SyncTypeOK /\ Trust(R) /\ Stage
  BY DEF SyncInv, Trust
<1>e. ASSUME End PROVE step' = "idle" /\ pass'.target = None
  BY <1>e DEF End, NoPass
<1>n. NoPass.target = None
  BY DEF NoPass
<1>r. None \in Reasons /\ None \in Sha /\ upstream \in Sha /\ upstream # None
      /\ {"fetch_failed", "reconciliation_failed", "manifest_invalid"} \subseteq Reasons
  BY <1>i, SyncAssumption DEF SyncTypeOK, Reasons, Sha
<1>1. CASE Poll
  <2>1. pass'.target = None /\ step' = "fetch" /\ UNCHANGED <<file, index, upstream, dropped, queries>>
    BY <1>1 DEF Poll, NoPass, disk
  <2>. QED  BY <1>i, <1>r, <2>1, NotesKeepRecords, EndedStage, QuietStep
<1>2. CASE Fetch
  <2>1. pass'.target = upstream /\ step' = "inspect" /\ UNCHANGED <<index, upstream, dropped, queries>>
    BY <1>2, <1>i DEF Fetch, SyncTypeOK, Passes
  <2>2. SameRecords
    BY <1>2, <1>i, <1>r, NotesKeepRecords DEF Fetch, Write
  <2>3. Stage'
    BY <1>r, <2>1 DEF Stage, Locked
  <2>. QED  BY <1>i, <2>1, <2>2, <2>3, QuietStep
<1>3. CASE LeaveFailed
  BY <1>3, <1>i, <1>e, <1>r, NotesKeepRecords, EndedStage, QuietStep DEF LeaveFailed, disk
<1>4. CASE LeaveUnchanged
  BY <1>4, <1>i, <1>e, <1>r, NotesKeepRecords, EndedStage, QuietStep DEF LeaveUnchanged, Write
<1>5. CASE Take
  <2> DEFINE u == head # None /\ index.ready
  <2>1. u \in BOOLEAN /\ (u => index.ready)
    OBVIOUS
  <2>2. /\ pass' = [pass EXCEPT !.usable = u]
        /\ step' = "lock" /\ step = "inspect" /\ UNCHANGED <<file, index, upstream, dropped, queries>>
    BY <1>5 DEF Take, disk
  <2> HIDE DEF u
  <2>3. pass'.target = pass.target /\ pass'.usable = u
    BY <1>i, <2>1, <2>2 DEF SyncTypeOK, Passes
  <2>4. pass'.usable => index'.ready
    BY <2>1, <2>2, <2>3
  <2>5. pass'.target # None
    BY <1>i, <2>2, <2>3 DEF Stage
  <2>6. Stage'
    BY <2>2, <2>4, <2>5 DEF Stage, Locked
  <2>. QED  BY <1>i, <1>r, <2>2, <2>3, <2>6, NotesKeepRecords, QuietStep
<1>6. CASE Activate
  <2>1. /\ step = "lock" /\ step' = "mark" /\ Inside' = {} /\ head' = pass.target
        /\ UNCHANGED <<file, index, upstream, dropped, queries, pass>>
    BY <1>6 DEF Activate, Inside
  <2>2. Stage'
    BY <1>i, <2>1 DEF Stage, Locked
  <2>3. SameRecords
    BY <1>i, <1>r, <2>1, NotesKeepRecords
  <2>. QED  BY <1>i, <2>1, <2>2, <2>3, QuietStep
<1>7. CASE RecordFailure
  BY <1>7, <1>i, <1>e, <1>r, NotesKeepRecords, EndedStage, QuietStep DEF RecordFailure, Write
<1>8. CASE RefuseManifest
  BY <1>8, <1>i, <1>e, <1>r, NotesKeepRecords, EndedStage, QuietStep DEF RefuseManifest, Write
<1>9. CASE FetchError
  BY <1>9, <1>i, <1>e, <1>r, NotesKeepRecords, EndedStage, QuietStep
  DEF FetchError, FetchFailed, Write
<1>10. CASE LockedError
  BY <1>10, <1>i, <1>n, <1>r, NotesKeepRecords, EndedStage, QuietStep DEF LockedError, disk
<1>11. CASE WriteError
  BY <1>11, <1>i, <1>n, <1>r, NotesKeepRecords, EndedStage, QuietStep DEF WriteError, disk
<1>12. CASE Plan
  <2>0. PICK unread :
           pass' = [pass EXCEPT !.found = Discovered(unread),
                      !.todo  = {p \in Paths : index.rows[p] # Discovered(unread)[p]},
                      !.clean = Discovered(unread) = Tree[pass.target]]
    BY <1>12 DEF Plan
  <2>1. /\ step = "index" /\ step' = "write" /\ pass.usable
        /\ UNCHANGED <<file, index, upstream, dropped, queries>>
    BY <1>12 DEF Plan, disk
  <2>2. /\ pass'.target = pass.target
        /\ pass'.found = Discovered(unread)
        /\ pass'.clean = (Discovered(unread) = Tree[pass.target])
        /\ pass'.todo = {p \in Paths : index.rows[p] # Discovered(unread)[p]}
    BY <1>i, <2>0 DEF SyncTypeOK, Passes
  <2>3. SameRecords /\ Stored'.attempted = Stored.attempted
    BY <1>i, <1>r, <2>1, NotesKeepRecords
  <2>4. \A p \in Paths : pass'.found[p] \in {NoDoc, Tree[pass.target][p]}
    BY <1>i, <2>2, DiscoveredIs DEF SyncTypeOK, Passes
  <2>5. /\ pass'.clean => \A p \in Paths : pass'.found[p] = Tree[pass.target][p]
        /\ pass'.clean => \A p \in Paths \ pass'.todo : index.rows[p] = Tree[pass.target][p]
    BY <2>2
  <2>6. Stage'
    BY <1>i, <2>1, <2>2, <2>3, <2>4, <2>5 DEF Stage, Locked, SameRecords, Inside
  <2>. QED  BY <1>i, <2>1, <2>2, <2>3, <2>6, QuietStep
<1>. QED
  BY <1>1, <1>2, <1>3, <1>4, <1>5, <1>6, <1>7, <1>8, <1>9, <1>10, <1>11, <1>12
(* A step that changes the index on its way to the target of the pass:     *)
(* what was the target's stays so, and a fresh index is the target's.      *)
LEMMA IndexStep ==
    ASSUME NEW R, Forward(R), SyncInv(R), step \in {"index", "write"},
           UNCHANGED <<file, upstream, queries>>, pass'.target = pass.target,
           dropped \subseteq dropped', ShownParsable', Stage',
           Stored.reconciled = pass.target =>
             /\ IndexIs(pass.target) => IndexIs(pass.target)'
             /\ index'.ready => index.ready \/ IndexIs(pass.target)'
    PROVE  Trust(R)'
<1>i. SyncTypeOK /\ Trust(R) /\ Stage /\ Monotone(R) /\ IndexFits(R) /\ QueriesRight
  BY DEF SyncInv, Trust
<1>1. Stored' = Stored
  BY DEF Stored
<1>2. pass.target # None /\ Stored.checkout = pass.target /\ Inside = {}
  BY <1>i DEF Stage, Locked
<1>3. Monotone(R)'
  BY <1>i, <1>1 DEF Monotone, UpTo
<1>4. IndexFits(R)'
  <2> SUFFICES ASSUME Stored.reconciled # None, index'.ready,
                      ~(<<Stored.reconciled, Stored.checkout>> \in R)
               PROVE  IndexIs(Stored.reconciled)'
    BY <1>1, <1>2 DEF IndexFits
  <2>1. Stored.reconciled = pass.target
    BY <1>i, <1>2 DEF Monotone, UpTo
  <2>2. index.ready => IndexIs(pass.target)
    BY <1>i, <1>2, <2>1 DEF IndexFits
  <2>3. IndexIs(pass.target)'
    BY <2>1, <2>2
  <2>. QED  BY <1>1, <2>1, <2>3 DEF IndexIs
<1>5. QueriesRight'
  BY <1>i, <1>1, <1>2 DEF QueriesRight, Inside, Right
<1>. QED  BY <1>3, <1>4, <1>5 DEF Trust

(* _run_indexing, source by source or as a whole.                          *)
LEMMA IndexingKeepsTrust ==
    ASSUME NEW R, Forward(R), SyncInv(R),
           \/ Rebuild \/ Finalize
           \/ \E p \in Paths : Suppress(p) \/ Replace(p) \/ SkipSource(p)
    PROVE  Trust(R)'
<1>i. SyncTypeOK /\ Trust(R) /\ Stage /\ ShownParsable
  BY DEF SyncInv, Trust
<1>s. Stored' = Stored /\ UNCHANGED <<file, upstream, queries>>
  BY DEF Rebuild, Finalize, Suppress, Replace, SkipSource, Stored, disk
<1>r. step \in {"index", "write"} /\ pass.target \in Commits
  BY <1>i DEF Rebuild, Finalize, Suppress, Replace, SkipSource, Stage, Locked,
     SyncTypeOK, Passes, Sha
<1>t. \A p \in Paths : Tree[pass.target][p] \in Docs \cup {NoDoc}
  BY <1>r, SyncAssumption
<1>u. Inside' = Inside
  BY <1>s DEF Inside
<1>d. ASSUME NEW found, Dropping(found)
      PROVE  /\ dropped \subseteq dropped'
             /\ \A x \in Paths : Stored.reconciled = pass.target /\ found[x] # Tree[pass.target][x]
                  => <<pass.target, x>> \in dropped'
  BY <1>d DEF Dropping
<1>1. CASE Rebuild
  <2>0. PICK unread \in SUBSET Readable :
           LET found  == Discovered(unread)
               parsed == {p \in Paths : found[p] \in Docs \ Unparsable}
           IN /\ Faults(Cardinality(unread) + IF pass.usable THEN 1 ELSE 0)
              /\ \E pending \in BOOLEAN :
                   index' = [rows    |-> [p \in Paths |-> IF p \in parsed THEN found[p] ELSE NoDoc],
                             shown   |-> parsed,
                             ready   |-> TRUE,
                             pending |-> pending]
              /\ pass' = [pass EXCEPT !.found = found,
                     !.clean = found = Tree[pass.target] /\ \A p \in Paths : found[p] \notin Unparsable]
              /\ Dropping(found)
    BY <1>1 DEF Rebuild
  <2> DEFINE found  == Discovered(unread)
             parsed == {p \in Paths : found[p] \in Docs \ Unparsable}
             clean  == found = Tree[pass.target] /\ \A p \in Paths : found[p] \notin Unparsable
  <2>a. pass' = [pass EXCEPT !.found = found, !.clean = clean]
    BY <2>0
  <2>b. clean => found = Tree[pass.target]
    OBVIOUS
  <2> HIDE DEF clean
  <2>1. /\ pass'.target = pass.target /\ step' = "persist" /\ step = "index"
        /\ pass'.clean => found = Tree[pass.target]
    BY <1>1, <1>i, <2>a, <2>b DEF Rebuild, SyncTypeOK, Passes
  <2>2. \A x \in Paths : /\ index'.rows[x] = IF found[x] \in Docs \ Unparsable THEN found[x] ELSE NoDoc
                         /\ x \in index'.shown <=> found[x] \in Docs \ Unparsable
    <3>1. PICK b \in BOOLEAN :
             index' = [rows  |-> [p \in Paths |-> IF p \in parsed THEN found[p] ELSE NoDoc],
                       shown |-> parsed, ready |-> TRUE, pending |-> b]
      BY <2>0
    <3>. QED  BY <3>1
  <2>3. \A x \in Paths : found[x] \in {NoDoc, Tree[pass.target][x]}
    BY <1>r, DiscoveredIs DEF Sha
  <2>4. Dropping(found)
    BY <2>0
  <2> HIDE DEF found
  <2>5. ShownParsable'
    BY <2>2, SyncAssumption DEF ShownParsable
  <2>6. Stored.reconciled = pass.target \/ pass'.clean => IndexIs(pass.target)'
    <3> SUFFICES ASSUME NEW x \in Paths, Stored.reconciled = pass.target \/ pass'.clean
                 PROVE  \/ index'.rows[x] = Tree[pass.target][x] /\ Tree[pass.target][x] \notin Unparsable
                        \/ /\ x \notin index'.shown
                           /\ Tree[pass.target][x] \in Unparsable \/ <<pass.target, x>> \in dropped'
      BY <2>1 DEF IndexIs
    <3>1. CASE found[x] = Tree[pass.target][x]
      BY <1>t, <2>2, <3>1
    <3>2. CASE found[x] # Tree[pass.target][x]
      <4>1. Stored.reconciled = pass.target /\ found[x] = NoDoc
        BY <2>1, <2>3, <3>2
      <4>2. <<pass.target, x>> \in dropped'
        BY <1>d, <2>4, <3>2, <4>1
      <4>. QED  BY <2>2, <4>1, <4>2, SyncAssumption
    <3>. QED  BY <3>1, <3>2
  <2>7. Stage'
    BY <1>i, <1>r, <1>s, <2>1, <2>6, SyncAssumption DEF Stage, Locked, IndexIs
  <2>. QED  BY <1>d, <1>r, <1>s, <2>1, <2>4, <2>5, <2>6, <2>7, IndexStep
<1>2. CASE Finalize
  <2>1. /\ index'.rows = [x \in Paths |-> IF x \in pass.todo THEN NoDoc ELSE index.rows[x]]
        /\ index'.shown = index.shown \ pass.todo
        /\ pass'.target = pass.target /\ pass'.clean = pass.clean
        /\ step' = "persist" /\ step = "write" /\ Dropping(pass.found)
    BY <1>2, <1>i DEF Finalize, SyncTypeOK, Passes
  <2>2. \A x \in Paths : /\ index'.rows[x] = IF x \in pass.todo THEN NoDoc ELSE index.rows[x]
                         /\ x \in index'.shown <=> x \in index.shown /\ x \notin pass.todo
    BY <2>1
  <2>3. \A x \in pass.todo : x \in Paths /\ pass.found[x] = NoDoc
    BY <1>2, <1>i DEF Finalize, ToSuppress, ToReplace, SyncTypeOK, Passes, Content
  <2>4. ShownParsable'
    BY <1>i, <2>2, SyncAssumption DEF ShownParsable
  <2>5. ASSUME Stored.reconciled = pass.target, IndexIs(pass.target) PROVE IndexIs(pass.target)'
    <3> SUFFICES ASSUME NEW x \in Paths
                 PROVE  \/ index'.rows[x] = Tree[pass.target][x] /\ Tree[pass.target][x] \notin Unparsable
                        \/ /\ x \notin index'.shown
                           /\ Tree[pass.target][x] \in Unparsable \/ <<pass.target, x>> \in dropped'
      BY <2>1 DEF IndexIs
    <3>1. CASE x \notin pass.todo
      BY <1>d, <2>1, <2>2, <2>5, <3>1 DEF IndexIs
    <3>2. CASE x \in pass.todo /\ Tree[pass.target][x] = NoDoc
      BY <2>2, <2>5, <3>2, SyncAssumption
    <3>3. CASE x \in pass.todo /\ Tree[pass.target][x] # NoDoc
      BY <1>d, <2>1, <2>2, <2>3, <2>5, <3>3
    <3>. QED  BY <3>1, <3>2, <3>3
  <2>6. pass.clean => IndexIs(pass.target)'
    <3>1. pass.clean => \A x \in Paths : index'.rows[x] = Tree[pass.target][x]
      BY <1>i, <2>1, <2>2, <2>3 DEF Stage
    <3>. QED  BY <2>1, <2>4, <3>1 DEF IndexIs, ShownParsable
  <2>7. Stage'
    BY <1>i, <1>r, <1>s, <2>1, <2>6, SyncAssumption DEF Stage, Locked, IndexIs
  <2>8. index.ready
    BY <1>i, <2>1 DEF Stage
  <2>. QED  BY <1>d, <1>r, <1>s, <2>1, <2>4, <2>5, <2>7, <2>8, IndexStep
<1>3. ASSUME NEW p \in Paths, Suppress(p) PROVE Trust(R)'
  <2>1. /\ pass'.target = pass.target /\ ~pass'.clean /\ pass'.found = pass.found
        /\ UNCHANGED <<step, dropped>> /\ step = "write" /\ pass.found[p] \in Unparsable
    BY <1>3, <1>i DEF Suppress, ToSuppress, SyncTypeOK, Passes
  <2>2. pass.found[p] = Tree[pass.target][p]
    BY <1>i, <2>1, SyncAssumption DEF Stage
  <2>3. CASE index.rows[p] = NoDoc
    <3>1. index' = index
      BY <1>3, <2>3 DEF Suppress
    <3>2. Stage'
      BY <1>i, <1>s, <1>u, <2>1, <3>1 DEF Stage, Locked
    <3>3. ShownParsable' /\ (IndexIs(pass.target) => IndexIs(pass.target)')
      BY <1>i, <2>1, <3>1 DEF ShownParsable, IndexIs
    <3>4. index'.ready => index.ready
      BY <3>1
    <3>. QED  BY <1>r, <1>s, <2>1, <3>2, <3>3, <3>4, IndexStep
  <2>4. CASE index.rows[p] # NoDoc
    <3>1. /\ \A x \in Paths : index'.rows[x] = IF x = p THEN pass.found[p] ELSE index.rows[x]
          /\ index'.shown = index.shown \ {p} /\ index'.ready = index.ready
      BY <1>3, <1>i, <2>4 DEF Suppress, SyncTypeOK, Indexes, Content
    <3>2. Stage'
      BY <1>i, <1>s, <1>u, <2>1, <3>1 DEF Stage, Locked
    <3>3. ShownParsable'
      BY <1>i, <2>1, <3>1 DEF ShownParsable
    <3>4. IndexIs(pass.target) => IndexIs(pass.target)'
      BY <2>1, <2>2, <3>1 DEF IndexIs
    <3>. QED  BY <1>r, <1>s, <2>1, <3>1, <3>2, <3>3, <3>4, IndexStep
  <2>. QED  BY <2>3, <2>4
<1>4. ASSUME NEW p \in Paths, Replace(p) PROVE Trust(R)'
  <2>1. /\ pass'.target = pass.target /\ pass'.clean = pass.clean /\ pass'.found = pass.found
        /\ UNCHANGED <<step, dropped>> /\ pass'.todo = pass.todo \ {p}
        /\ step = "write" /\ pass.found[p] \in Docs \ Unparsable
    BY <1>4, <1>i DEF Replace, ToReplace, SyncTypeOK, Passes
  <2>2. /\ \A x \in Paths : index'.rows[x] = IF x = p THEN pass.found[p] ELSE index.rows[x]
        /\ index'.shown = index.shown \cup {p} /\ index'.ready = index.ready
    BY <1>4, <1>i DEF Replace, SyncTypeOK, Indexes, Content
  <2>3. pass.found[p] = Tree[pass.target][p]
    BY <1>i, <2>1, SyncAssumption DEF Stage
  <2>4. Stage'
    BY <1>i, <1>s, <1>u, <2>1, <2>2, <2>3 DEF Stage, Locked
  <2>5. ShownParsable'
    BY <1>i, <2>1, <2>2 DEF ShownParsable
  <2>6. IndexIs(pass.target) => IndexIs(pass.target)'
    BY <2>1, <2>2, <2>3 DEF IndexIs
  <2>. QED  BY <1>r, <1>s, <2>1, <2>2, <2>4, <2>5, <2>6, IndexStep
<1>5. ASSUME NEW p \in Paths, SkipSource(p) PROVE Trust(R)'
  <2>1. /\ pass'.target = pass.target /\ ~pass'.clean /\ UNCHANGED <<step, index, dropped>>
        /\ step = "write" /\ pass'.found = pass.found
    BY <1>5, <1>i DEF SkipSource, disk, SyncTypeOK, Passes
  <2>2. Stage'
    BY <1>i, <1>s, <1>u, <2>1 DEF Stage, Locked
  <2>. QED  BY <1>i, <1>s, <2>1, <2>2, QuietStep DEF SameRecords
<1>. QED  BY <1>1, <1>2, <1>3, <1>4, <1>5
(* The steps that record the checkout, the attempt and the outcome.        *)
LEMMA RecordingKeepsTrust ==
    ASSUME NEW R, Forward(R), SyncInv(R), MarkCheckout \/ MarkAttempt \/ Persist
    PROVE  Trust(R)'
<1>i. SyncTypeOK /\ Trust(R) /\ Stage /\ Monotone(R) /\ IndexFits(R) /\ QueriesRight
      /\ ShownParsable
  BY DEF SyncInv, Trust
<1>s. Stored \in States /\ Stored.trusted
  BY <1>i, StoredType DEF SyncTypeOK
<1>r. /\ pass.target \in Commits /\ pass.target # None
      /\ UNCHANGED <<upstream, dropped, index, queries>>
      /\ upstream \in Commits /\ upstream # None
      /\ Stored.checkout \in Sha /\ Stored.reconciled \in Sha
  BY <1>i, <1>s, SyncAssumption DEF MarkCheckout, MarkAttempt, Persist, Stage, Locked,
     SyncTypeOK, Passes, Sha, States
<1>h. ShownParsable'
  BY <1>i, <1>r DEF ShownParsable
<1>n. None \in Reasons /\ None \in Sha /\ "semantic_pending" \in Reasons
      /\ "lexical_incomplete" \in Reasons
  BY DEF Reasons, Sha
<1>1. CASE MarkCheckout
  <2> DEFINE s == [Stored EXCEPT !.checkout = pass.target, !.reason = None]
  <2>1. /\ s \in States /\ s.trusted /\ s.checkout = pass.target
        /\ s.reconciled = Stored.reconciled
    BY <1>r, <1>s, <1>n DEF States, Sha
  <2>2. file' = s /\ step = "mark" /\ step' = "attempt" /\ UNCHANGED pass
    BY <1>1 DEF MarkCheckout, Write
  <2> HIDE DEF s
  <2>3. Stored' = s
    BY <2>1, <2>2, StoredAfterWrite
  <2>4. Inside = {} /\ Inside' = {}
    BY <1>i, <1>r, <2>2 DEF Stage, Locked, Inside
  <2>5. Stage'
    BY <1>i, <1>r, <2>1, <2>2, <2>3, <2>4 DEF Stage, Locked
  <2>6. Monotone(R)'
    BY <1>i, <1>r, <2>1, <2>2, <2>3 DEF Monotone, UpTo
  <2>7. IndexFits(R)'
    <3> SUFFICES ASSUME Stored.reconciled # None, index.ready, ~IndexIs(Stored.reconciled)
                 PROVE  <<Stored.reconciled, pass.target>> \in R
      BY <1>r, <2>1, <2>3 DEF IndexFits, IndexIs
    <3>1. Stored.checkout # None /\ <<Stored.reconciled, Stored.checkout>> \in R
      BY <1>i DEF IndexFits
    <3>2. Stored.checkout = pass.target \/ <<Stored.checkout, pass.target>> \in R
      BY <1>i, <1>r, <3>1 DEF Monotone, UpTo
    <3>3. Stored.checkout \in Commits /\ Stored.reconciled \in Commits
      BY <1>r, <3>1 DEF Sha
    <3>. QED  BY <1>r, <3>1, <3>2, <3>3 DEF Forward
  <2>8. QueriesRight'
    BY <1>i, <1>r, <2>4 DEF QueriesRight, Inside, Right
  <2>. QED  BY <1>h, <2>5, <2>6, <2>7, <2>8 DEF Trust
<1>2. CASE MarkAttempt
  <2> DEFINE s == [Stored EXCEPT !.attempted = pass.target, !.reason = None]
  <2>1. /\ s \in States /\ s.trusted /\ s.attempted = pass.target
        /\ s.reconciled = Stored.reconciled /\ s.checkout = Stored.checkout
    BY <1>r, <1>s, <1>n DEF States, Sha
  <2>2. file' = s /\ step = "attempt" /\ step' = "index" /\ UNCHANGED pass
    BY <1>2 DEF MarkAttempt, Write
  <2> HIDE DEF s
  <2>3. Stored' = s
    BY <2>1, <2>2, StoredAfterWrite
  <2>4. Inside' = {}
    BY <1>i, <1>r, <2>2 DEF Stage, Locked, Inside
  <2>5. Stage'
    BY <1>i, <1>r, <2>1, <2>2, <2>3, <2>4 DEF Stage, Locked
  <2>. QED  BY <1>i, <1>r, <2>1, <2>2, <2>3, <2>5, QuietStep DEF SameRecords
<1>3. CASE Persist /\ ~pass.clean
  <2>1. file' = Degraded("lexical_incomplete") /\ step' = "idle" /\ pass'.target = None
    BY <1>3 DEF Persist, Write, End, NoPass
  <2>. QED  BY <1>i, <1>r, <1>n, <2>1, NotesKeepRecords, EndedStage, QuietStep
<1>4. CASE Persist /\ pass.clean
  <2>0. PICK why \in Reasons :
           file' = [Stored EXCEPT !.reconciled = Stored.attempted, !.reason = why]
    BY <1>4, <1>n DEF Persist, Write
  <2> DEFINE s == [Stored EXCEPT !.reconciled = Stored.attempted, !.reason = why]
  <2>1. /\ s \in States /\ s.trusted
        /\ s.reconciled = Stored.attempted /\ s.checkout = Stored.checkout
    BY <1>s DEF States
  <2>2. /\ file' = s /\ step = "persist" /\ step' = "idle" /\ pass'.target = None
    BY <1>4, <2>0 DEF Persist, End, NoPass
  <2> HIDE DEF s
  <2>3. Stored' = s
    BY <2>1, <2>2, StoredAfterWrite
  <2>4. /\ Stored'.reconciled = pass.target /\ Stored'.checkout = pass.target
        /\ Stored.checkout = pass.target /\ IndexIs(pass.target)
    BY <1>i, <1>4, <2>1, <2>2, <2>3 DEF Stage
  <2>5. Stage'
    BY <2>2, EndedStage
  <2>6. Monotone(R)'
    BY <1>i, <1>r, <2>2, <2>4 DEF Monotone, UpTo
  <2>7. IndexFits(R)'
    BY <1>r, <2>4 DEF IndexFits, IndexIs
  <2>8. QueriesRight'
    <3> SUFFICES ASSUME NEW q \in Queries
                 PROVE  /\ queries[q].at \in {"admitted", "searched"} => IndexIs(pass.target)
                        /\ queries[q].at = "searched" => Right(queries[q].hits, pass.target)
                        /\ queries[q].at = "answered" => Right(queries[q].hits, queries[q].label)
      BY <1>r, <2>4 DEF QueriesRight, IndexIs, Right
    <3>1. queries[q].at \in {"admitted", "searched"} => Stored.reconciled = pass.target
      BY <1>i, <2>4 DEF QueriesRight
    <3>. QED  BY <1>i, <2>4, <3>1 DEF QueriesRight
  <2>. QED  BY <1>h, <2>5, <2>6, <2>7, <2>8 DEF Trust
<1>. QED  BY <1>1, <1>2, <1>3, <1>4

(* The ref moves, the process stops, somebody asks for a sync.             *)
LEMMA OutsideKeepsTrust ==
    ASSUME NEW R, Forward(R), SyncInv(R), Push \/ Crash \/ RequestSync \/ UNCHANGED syncVars
    PROVE  Trust(R)'
<1>i. SyncTypeOK /\ Trust(R) /\ Stage /\ Monotone(R) /\ IndexFits(R) /\ QueriesRight
      /\ ShownParsable
  BY DEF SyncInv, Trust
<1>1. CASE Push
  <2>1. /\ upstream' \in Commits /\ <<upstream, upstream'>> \in R
        /\ UNCHANGED <<dropped, head, file, index, step, pass, queries>> /\ Stored' = Stored
    BY <1>1 DEF Push, Forward, disk, Stored
  <2>2. /\ upstream \in Commits /\ upstream # None /\ upstream' # None
        /\ pass.target \in Sha /\ Stored.checkout \in Sha /\ Stored.reconciled \in Sha
    BY <1>i, <2>1, StoredType, SyncAssumption DEF SyncTypeOK, Passes, States
  <2>3. ASSUME NEW c \in Sha, UpTo(R, c, upstream) PROVE UpTo(R, c, upstream')
    BY <2>1, <2>2, <2>3 DEF UpTo, Forward, Sha
  <2>4. Monotone(R)'
    BY <1>i, <2>1, <2>2, <2>3 DEF Monotone, UpTo
  <2>5. Stage' /\ IndexFits(R)' /\ QueriesRight' /\ ShownParsable'
    BY <1>i, <2>1 DEF Stage, IndexFits, QueriesRight, ShownParsable, IndexIs, Right, Inside
  <2>. QED  BY <2>4, <2>5 DEF Trust
<1>2. CASE Crash
  <2>1. /\ step' = "idle" /\ pass'.target = None /\ UNCHANGED <<upstream, dropped>>
        /\ \A q \in Queries : queries'[q].at = "idle"
    BY <1>2 DEF Crash, End, NoPass, NoQuery
  <2>2. \/ SameRecords
        \/ Stored'.checkout = None /\ Stored'.reconciled = None
    <3>1. CASE file' = file
      BY <3>1 DEF Stored, SameRecords
    <3>2. CASE file' = [file EXCEPT !.trusted = FALSE]
      <4>1. ~file'.trusted
        BY <1>i, <3>2 DEF SyncTypeOK, States
      <4>. QED  BY <4>1 DEF Stored, Initial
    <3>. QED  BY <1>2, <3>1, <3>2 DEF Crash, disk
  <2>3. index' = index \/ (index'.rows = [p \in Paths |-> NoDoc] /\ index'.shown = {}
                          /\ ~index'.ready)
    BY <1>2 DEF Crash, NoIndex, disk
  <2>4. Stage'
    BY <2>1, EndedStage
  <2>5. Monotone(R)'
    BY <1>i, <2>1, <2>2 DEF Monotone, UpTo, SameRecords
  <2>6. IndexFits(R)'
    BY <1>i, <2>1, <2>2, <2>3 DEF IndexFits, IndexIs, SameRecords
  <2>7. QueriesRight'
    BY <2>1 DEF QueriesRight
  <2>8. ShownParsable'
    BY <1>i, <2>3, SyncAssumption DEF ShownParsable
  <2>. QED  BY <2>4, <2>5, <2>6, <2>7, <2>8 DEF Trust
<1>3. CASE RequestSync \/ UNCHANGED syncVars
  <2>1. UNCHANGED <<upstream, dropped, head, file, index, step, pass, queries>> /\ Stored' = Stored
    BY <1>3 DEF RequestSync, syncVars, disk, Stored
  <2>2. Stage'
    BY <1>i, <2>1 DEF Stage, IndexIs, Inside
  <2>. QED  BY <1>i, <2>1, <2>2, QuietStep DEF SameRecords
<1>. QED  BY <1>1, <1>2, <1>3

(* A query is admitted only where the index fits, and what it has found is *)
(* labelled before a pass may go on.                                       *)
LEMMA QueryKeepsTrust ==
    ASSUME NEW R, Forward(R), SyncInv(R), NEW q \in Queries, Admit(q) \/ Query(q)
    PROVE  Trust(R)'
<1>i. SyncTypeOK /\ Trust(R) /\ Stage /\ Monotone(R) /\ IndexFits(R) /\ QueriesRight
      /\ ShownParsable
  BY DEF SyncInv, Trust
<1>1. UNCHANGED <<upstream, dropped, head, file, index, step, pass>> /\ Stored' = Stored
  BY DEF Admit, Query, Search, Label, Return, disk, Stored
<1>2. Monotone(R)' /\ IndexFits(R)' /\ ShownParsable'
  BY <1>i, <1>1 DEF Monotone, IndexFits, ShownParsable, IndexIs
<1>3. \A r \in Queries \ {q} : queries'[r] = queries[r]
  BY <1>i DEF Admit, Query, Search, Label, Return, SyncTypeOK
<1>4. Stage'
  <2>1. step \in Locked => Inside' = {}
    <3>1. step \in Locked => ~Admit(q) /\ q \notin Inside /\ Inside = {}
      BY <1>i DEF Admit, HeldOff, Stage
    <3>2. step \in Locked => queries'[q].at \notin {"admitted", "searched"}
      BY <1>i, <3>1 DEF Query, Search, Label, Return, Inside, NoQuery, SyncTypeOK
    <3>. QED  BY <1>3, <3>1, <3>2 DEF Inside
  <2>. QED  BY <1>i, <1>1, <2>1 DEF Stage, IndexIs
<1>5. ASSUME \/ queries'[q].at = "admitted" /\ IndexIs(Stored.reconciled)
                /\ Stored.reconciled # None /\ Stored.checkout = Stored.reconciled
             \/ queries'[q].at = "searched" /\ IndexIs(Stored.reconciled)
                /\ Stored.reconciled # None /\ Stored.checkout = Stored.reconciled
                /\ Right(queries'[q].hits, Stored.reconciled)
             \/ queries'[q].at = "answered" /\ Right(queries'[q].hits, queries'[q].label)
             \/ queries'[q].at = "idle"
      PROVE  Trust(R)'
  <2>1. QueriesRight'
    BY <1>i, <1>1, <1>3, <1>5 DEF QueriesRight, IndexIs, Right
  <2>. QED  BY <1>2, <1>4, <2>1 DEF Trust
<1>6. CASE Admit(q)
  <2>1. queries'[q].at = "admitted"
    BY <1>6, <1>i DEF Admit, SyncTypeOK
  <2>2. /\ Stored.reconciled # None /\ Stored.checkout = Stored.reconciled
        /\ index.ready /\ Stored.reconciled \in Commits
    BY <1>6, <1>i, StoredType DEF Admit, VaultReady, CommitSafe, SyncTypeOK, States, Sha
  <2>3. IndexIs(Stored.reconciled)
    BY <1>i, <2>2 DEF IndexFits, Forward
  <2>. QED  BY <1>5, <2>1, <2>2, <2>3
<1>7. CASE Search(q)
  <2> DEFINE found == [p \in Paths |-> IF p \in index.shown THEN index.rows[p] ELSE NoDoc]
  <2>1. queries[q].at = "admitted" /\ queries'[q].at = "searched" /\ queries'[q].hits = found
    BY <1>7, <1>i DEF Search, SyncTypeOK
  <2>2. IndexIs(Stored.reconciled) /\ Stored.reconciled \in Commits
        /\ Stored.reconciled # None /\ Stored.checkout = Stored.reconciled
    BY <1>i, <2>1, StoredType DEF QueriesRight, SyncTypeOK, States, Sha
  <2>3. Right(found, Stored.reconciled)
    <3>1. \A p \in Paths : Tree[Stored.reconciled][p] \in Docs \cup {NoDoc}
      BY <2>2, SyncAssumption
    <3>. QED  BY <1>i, <2>2, <3>1, SyncAssumption DEF Right, IndexIs, ShownParsable
  <2> HIDE DEF found
  <2>. QED  BY <1>5, <2>1, <2>2, <2>3
<1>8. CASE Label(q)
  <2>1. /\ queries[q].at = "searched" /\ queries'[q].at = "answered"
        /\ queries'[q].hits = queries[q].hits /\ queries'[q].label = Stored.reconciled
    BY <1>8, <1>i DEF Label, SyncTypeOK
  <2>. QED  BY <1>5, <1>i, <2>1 DEF QueriesRight
<1>9. CASE Return(q)
  BY <1>5, <1>9, <1>i DEF Return, NoQuery, SyncTypeOK
<1>. QED  BY <1>6, <1>7, <1>8, <1>9 DEF Query

(* SyncInv is inductive.                                                   *)
LEMMA NextSyncInv ==
    ASSUME NEW R, Forward(R), SyncInv(R), [SyncNext]_syncVars
    PROVE  SyncInv(R)'
<1>1. SyncTypeOK'
  BY NextTypes DEF SyncInv
<1>2. Trust(R)'
  BY QuietSync, IndexingKeepsTrust, RecordingKeepsTrust, OutsideKeepsTrust, QueryKeepsTrust
  DEF SyncNext, Sync
<1>. QED  BY <1>1, <1>2 DEF SyncInv

(* A fresh vault has nothing to answer from.                               *)
LEMMA InitSyncInv == ASSUME NEW R, SyncInit PROVE SyncInv(R)
<1>1. /\ Stored.checkout = None /\ Stored.reconciled = None /\ pass.target = None
      /\ step = "idle" /\ index.shown = {} /\ index.rows = [p \in Paths |-> NoDoc]
      /\ \A q \in Queries : queries[q].at = "idle"
  BY DEF SyncInit, Stored, Initial, NoPass, NoIndex, NoQuery
<1>2. Trust(R)
  BY <1>1, SyncAssumption
  DEF Trust, ShownParsable, Monotone, UpTo, Stage, Locked, IndexFits, QueriesRight
<1>. QED  BY <1>2, InitTypes DEF SyncInv

(* An answer is the content of the commit on its label, as long as the ref *)
(* only moves forward, less the sources that cannot be parsed and those    *)
(* that a later run at the same commit has failed to read: for every tree, *)
(* every number of queries and faults, and every choice of files unread.   *)
THEOREM VaultAnswersTrue ==
    ASSUME NEW CONSTANT R, Forward(R)
    PROVE  SyncSpec => []AnswerTrue
<1>1. SyncInit => SyncInv(R)
  BY InitSyncInv
<1>2. SyncInv(R) /\ [SyncNext]_syncVars => SyncInv(R)'
  BY NextSyncInv
<1>3. SyncInv(R) => AnswerTrue
  BY DEF SyncInv, Trust, QueriesRight, AnswerTrue, Right
<1>. QED  BY <1>1, <1>2, <1>3, PTL DEF SyncSpec
----------------------------------------------------------------------------
(* A vault is ready as long as the checkout and what the state file says   *)
(* of it stay as they are, and some source is shown.                       *)
LEMMA ReadyStays ==
    ASSUME VaultReady, SameRecords, file'.trusted, UNCHANGED head,
           index'.ready, index'.shown # {}
    PROVE  VaultReady'
  BY DEF VaultReady, CommitSafe, SameRecords

(* A vault that is ready has the commit of its checkout.                   *)
LEMMA ReadyIndex ==
    ASSUME NEW R, Forward(R), SyncInv(R), VaultReady
    PROVE  /\ IndexIs(Stored.reconciled) /\ index.ready /\ file.trusted
           /\ Stored.checkout = Stored.reconciled /\ head = Stored.reconciled
           /\ Stored.reconciled \in Commits /\ Stored.reconciled # None
           /\ index.shown # {}
<1>1. /\ Stored.reconciled # None /\ Stored.checkout = Stored.reconciled
      /\ head = Stored.reconciled /\ index.ready /\ file.trusted /\ index.shown # {}
  BY DEF VaultReady, CommitSafe
<1>2. Stored.reconciled \in Commits
  BY <1>1, StoredType DEF SyncInv, SyncTypeOK, States, Sha
<1>. QED  BY <1>1, <1>2 DEF SyncInv, Trust, IndexFits, Forward

(* A step on the index of a ready vault works on the commit that is        *)
(* served, and goes on showing the sources that were shown and found.      *)
LEMMA IndexingKeepsReady ==
    ASSUME NEW R, Forward(R), SyncInv(R), VaultReady, ~NoneFound,
           \/ Rebuild \/ Finalize
           \/ \E p \in Paths : Suppress(p) \/ Replace(p) \/ SkipSource(p)
    PROVE  VaultReady'
<1>i. SyncTypeOK /\ Stage /\ step \in {"index", "write"} /\ ShownParsable
  BY DEF SyncInv, Trust, Rebuild, Finalize, Suppress, Replace, SkipSource
<1>a. /\ IndexIs(pass.target) /\ index.ready /\ index.shown # {} /\ file.trusted
      /\ pass.target \in Commits /\ index \in Indexes
  BY <1>i, ReadyIndex DEF Stage, SyncTypeOK
<1>t. \A p \in index.shown : /\ p \in Paths /\ index.rows[p] = Tree[pass.target][p]
                             /\ Tree[pass.target][p] \in Docs \ Unparsable
  BY <1>a, <1>i DEF IndexIs, ShownParsable, Indexes
<1>1. UNCHANGED <<file, head>> /\ Stored' = Stored
  BY DEF Rebuild, Finalize, Suppress, Replace, SkipSource, Stored, disk
<1>2. PICK p \in index.shown : pass'.found[p] # NoDoc
  BY <1>a, <1>i DEF NoneFound
<1>3. index'.ready /\ index'.shown # {}
  <2>1. CASE Rebuild
    <3>0. PICK unread \in SUBSET Readable :
             LET found  == Discovered(unread)
                 parsed == {x \in Paths : found[x] \in Docs \ Unparsable}
             IN /\ \E pending \in BOOLEAN :
                     index' = [rows  |-> [x \in Paths |-> IF x \in parsed THEN found[x] ELSE NoDoc],
                               shown |-> parsed, ready |-> TRUE, pending |-> pending]
                /\ pass' = [pass EXCEPT !.found = found,
                       !.clean = found = Tree[pass.target] /\ \A x \in Paths : found[x] \notin Unparsable]
      BY <2>1 DEF Rebuild
    <3>1. /\ index'.shown = {x \in Paths : Discovered(unread)[x] \in Docs \ Unparsable}
          /\ pass'.found = Discovered(unread) /\ index'.ready
      BY <3>0, <1>i DEF SyncTypeOK, Passes
    <3>2. Discovered(unread)[p] = Tree[pass.target][p]
      BY <1>a, <1>t, <1>2, <3>1, DiscoveredIs DEF Sha
    <3>. QED  BY <1>t, <3>1, <3>2
  <2>2. CASE Finalize
    <3>1. /\ index'.shown = index.shown \ pass.todo /\ index'.ready
          /\ pass'.found = pass.found /\ step = "write" /\ ToSuppress \cup ToReplace = {}
      BY <2>2, <1>i DEF Finalize, SyncTypeOK, Passes
    <3>2. pass.found[p] = Tree[pass.target][p]
      BY <1>i, <1>t, <1>2, <3>1 DEF Stage
    <3>3. p \notin pass.todo
      BY <1>t, <3>1, <3>2 DEF ToReplace
    <3>. QED  BY <3>1, <3>3
  <2>3. ASSUME NEW x \in Paths, Suppress(x) PROVE index'.ready /\ index'.shown # {}
    <3>1. step = "write" /\ pass.found[x] \in Unparsable
      BY <2>3 DEF Suppress, ToSuppress
    <3>2. x \notin index.shown
      BY <1>i, <1>t, <3>1, SyncAssumption DEF Stage
    <3>3. index' = index \/ (index'.shown = index.shown \ {x} /\ index'.ready = index.ready)
      BY <2>3, <1>a DEF Suppress, Indexes
    <3>. QED  BY <1>a, <3>2, <3>3
  <2>4. ASSUME NEW x \in Paths, Replace(x) PROVE index'.ready /\ index'.shown # {}
    BY <1>a, <2>4 DEF Replace, Indexes
  <2>5. CASE \E x \in Paths : SkipSource(x)
    BY <1>a, <2>5 DEF SkipSource, disk
  <2>. QED  BY <2>1, <2>2, <2>3, <2>4, <2>5
<1>. QED  BY <1>1, <1>3, <1>a, ReadyStays DEF SameRecords

(* Nothing but an activation, a loss, or a run that finds nothing of what  *)
(* is shown, ends the service of a vault.                                  *)
LEMMA ServiceGoesOn ==
    ASSUME NEW R, Forward(R), SyncInv(R), [SyncNext]_syncVars, VaultReady,
           ~Activate, ~Crash, ~NoneFound
    PROVE  VaultReady'
<1>i. SyncTypeOK /\ Stage
  BY DEF SyncInv, Trust
<1>s. Stored \in States /\ Stored.trusted
  BY <1>i, StoredType DEF SyncTypeOK
<1>a. /\ index.ready /\ file.trusted /\ Stored.checkout = Stored.reconciled
      /\ head = Stored.reconciled /\ Stored.reconciled \in Commits /\ index.shown # {}
  BY ReadyIndex
<1>r. None \in Reasons /\ None \in Sha /\ upstream \in Sha /\ "semantic_pending" \in Reasons
      /\ {"fetch_failed", "reconciliation_failed", "manifest_invalid",
          "lexical_incomplete"} \subseteq Reasons
  BY <1>i DEF SyncTypeOK, Reasons, Sha
<1>1. ASSUME UNCHANGED <<head, index>>,
             \/ \E why \in Reasons : file' = Degraded(why)
             \/ file' = [Stored EXCEPT !.fetched = upstream]
             \/ file' = file
      PROVE  VaultReady'
  BY <1>1, <1>a, <1>i, <1>r, NotesKeepRecords, ReadyStays
<1>2. CASE \/ Poll \/ Fetch \/ LeaveFailed \/ LeaveUnchanged \/ Take \/ Plan
           \/ RecordFailure \/ RefuseManifest \/ FetchError \/ LockedError \/ WriteError
  BY <1>1, <1>2, <1>r DEF Poll, Fetch, LeaveFailed, LeaveUnchanged, Take, Plan, RecordFailure,
     RefuseManifest, FetchError, FetchFailed, LockedError, WriteError, Write, disk
<1>3. CASE \/ Push \/ RequestSync \/ UNCHANGED syncVars
           \/ \E q \in Queries : Admit(q) \/ Query(q)
  BY <1>1, <1>3 DEF Push, RequestSync, Admit, Query, Search, Label, Return, syncVars, disk
<1>4. CASE \/ Rebuild \/ Finalize
           \/ \E p \in Paths : Suppress(p) \/ Replace(p) \/ SkipSource(p)
  BY <1>4, IndexingKeepsReady
<1>5. CASE MarkCheckout
  <2> DEFINE s == [Stored EXCEPT !.checkout = pass.target, !.reason = None]
  <2>1. pass.target = Stored.checkout /\ pass.target \in Commits
    BY <1>5, <1>a, <1>i DEF MarkCheckout, Stage
  <2>2. s \in States /\ s.trusted /\ s.checkout = pass.target /\ s.reconciled = Stored.reconciled
    BY <1>r, <1>s, <2>1 DEF States, Sha
  <2>3. file' = s /\ UNCHANGED <<head, index>>
    BY <1>5 DEF MarkCheckout, Write
  <2> HIDE DEF s
  <2>. QED  BY <1>a, <2>1, <2>2, <2>3, StoredAfterWrite, ReadyStays DEF SameRecords
<1>6. CASE MarkAttempt
  <2> DEFINE s == [Stored EXCEPT !.attempted = pass.target, !.reason = None]
  <2>1. pass.target \in Sha
    BY <1>i DEF SyncTypeOK, Passes
  <2>2. /\ s \in States /\ s.trusted /\ s.checkout = Stored.checkout
        /\ s.reconciled = Stored.reconciled
    BY <1>r, <1>s, <2>1 DEF States
  <2>3. file' = s /\ UNCHANGED <<head, index>>
    BY <1>6 DEF MarkAttempt, Write
  <2> HIDE DEF s
  <2>. QED  BY <1>a, <2>2, <2>3, StoredAfterWrite, ReadyStays DEF SameRecords
<1>7. CASE Persist /\ ~pass.clean
  BY <1>1, <1>7, <1>r DEF Persist, Write
<1>8. CASE Persist /\ pass.clean
  <2>0. PICK why \in Reasons :
           file' = [Stored EXCEPT !.reconciled = Stored.attempted, !.reason = why]
    BY <1>8, <1>r DEF Persist, Write
  <2> DEFINE s == [Stored EXCEPT !.reconciled = Stored.attempted, !.reason = why]
  <2>1. Stored.attempted = Stored.reconciled
    BY <1>8, <1>a, <1>i DEF Persist, Stage
  <2>2. /\ s \in States /\ s.trusted /\ s.checkout = Stored.checkout
        /\ s.reconciled = Stored.reconciled
    BY <1>s, <2>1 DEF States
  <2>3. file' = s /\ UNCHANGED <<head, index>>
    BY <1>8, <2>0 DEF Persist
  <2> HIDE DEF s
  <2>. QED  BY <1>a, <2>2, <2>3, StoredAfterWrite, ReadyStays DEF SameRecords
<1>. QED  BY <1>2, <1>3, <1>4, <1>5, <1>6, <1>7, <1>8 DEF SyncNext, Sync

(* A vault that is served stays served until the next commit is activated  *)
(* or something on disk is lost: no failed fetch, refused manifest, failed *)
(* write or retry of embeddings takes it away, as long as the run can read *)
(* a source of those that are served.                                      *)
THEOREM VaultServedUntilActivated ==
    ASSUME NEW CONSTANT R, Forward(R)
    PROVE  SyncSpec => ServedUntilActivated
<1>1. SyncInit => SyncInv(R)
  BY InitSyncInv
<1>2. SyncInv(R) /\ [SyncNext]_syncVars => SyncInv(R)'
  BY NextSyncInv
<1>3. SyncInv(R) /\ [SyncNext]_syncVars =>
        [VaultReady /\ ~VaultReady' =>
           \/ step' = "mark" \/ NoneFound
           \/ ~file'.trusted \/ head' = None \/ index' = NoIndex]_syncVars
  <2> SUFFICES ASSUME SyncInv(R), [SyncNext]_syncVars, VaultReady, ~VaultReady', ~NoneFound
               PROVE  step' = "mark" \/ ~file'.trusted \/ head' = None \/ index' = NoIndex
    OBVIOUS
  <2>1. CASE Activate
    BY <2>1 DEF Activate
  <2>2. CASE Crash
    <3>1. CASE UNCHANGED disk
      BY <3>1 DEF disk, VaultReady, CommitSafe, Stored
    <3>2. CASE file' = [file EXCEPT !.trusted = FALSE]
      BY <3>2 DEF SyncInv, SyncTypeOK, States
    <3>. QED  BY <2>2, <3>1, <3>2 DEF Crash
  <2>. QED  BY <2>1, <2>2, ServiceGoesOn
<1>. QED  BY <1>1, <1>2, <1>3, PTL DEF SyncSpec, ServedUntilActivated
(***************************************************************************)
(* What passes and queries do to each other is what the lock lets them do. *)
(***************************************************************************)

(* Where nobody passes the lock, the gate stands still.                    *)
AtGate == step \in Locked \cup {"lock"}
LEMMA AwayFromGate ==
    ASSUME Inside' = Inside,
           step' = step \/ (~AtGate /\ ~AtGate') \/ (step \in Locked /\ step' \in Locked)
    PROVE  UNCHANGED LockUsed!vars
  BY DEF LockUsed!vars, AtGate, Locked

(* A pass that leaves the lock, or stops waiting for it.                   *)
LEMMA LeavesGate ==
    ASSUME Inside' = Inside, AtGate, ~AtGate'
    PROVE  LockUsed!Withdraw("pass") \/ LockUsed!Release("pass")
  BY DEF LockUsed!Withdraw, LockUsed!Release, AtGate, Locked

(* Every step is one of the gate, or one that it does not see.             *)
LEMMA StepUsesGate == SyncTypeOK /\ [SyncNext]_syncVars => [LockUsed!Next]_(LockUsed!vars)
<1> SUFFICES ASSUME SyncTypeOK, [SyncNext]_syncVars PROVE [LockUsed!Next]_(LockUsed!vars)
  OBVIOUS
<1> USE DEF AtGate, Locked
<1>q. queries' = queries => Inside' = Inside
  BY DEF Inside
<1>l. AtGate /\ ~AtGate' /\ Inside' = Inside => LockUsed!Next
  BY LeavesGate DEF LockUsed!Next
<1>1. CASE Push \/ RequestSync \/ UNCHANGED syncVars
  BY <1>1, <1>q, AwayFromGate DEF Push, RequestSync, syncVars
<1>2. CASE Crash
  <2>1. Inside' = {} /\ step' = "idle"
    BY <1>2 DEF Crash, End, Inside, NoQuery
  <2>. QED  BY <2>1 DEF LockUsed!Next, LockUsed!Stop
<1>3. CASE \/ Poll \/ Fetch \/ LeaveFailed \/ LeaveUnchanged \/ Persist \/ RecordFailure
           \/ RefuseManifest \/ FetchError \/ WriteError
  BY <1>3, <1>q, AwayFromGate
  DEF Poll, Fetch, LeaveFailed, LeaveUnchanged, Persist, RecordFailure, RefuseManifest,
      FetchError, WriteError, End
<1>4. CASE MarkCheckout \/ MarkAttempt \/ Plan \/ (\E p \in Paths : Suppress(p) \/ Replace(p))
           \/ \E p \in Paths : SkipSource(p)
  BY <1>4, <1>q, AwayFromGate DEF MarkCheckout, MarkAttempt, Plan, Suppress, Replace, SkipSource
<1>5. CASE Take
  <2>1. Inside' = Inside /\ step = "inspect" /\ step' = "lock"
    BY <1>5, <1>q DEF Take
  <2>2. LockUsed!Queue("pass")
    BY <2>1 DEF LockUsed!Queue
  <2>. QED  BY <2>2 DEF LockUsed!Next
<1>6. CASE Activate
  <2>1. Inside = {} /\ Inside' = Inside /\ step = "lock" /\ step' = "mark"
    BY <1>6, <1>q DEF Activate
  <2>2. LockUsed!Take("pass")
    BY <2>1 DEF LockUsed!Take
  <2>. QED  BY <2>2 DEF LockUsed!Next
<1>7. CASE Rebuild \/ Finalize \/ LockedError
  BY <1>7, <1>q, <1>l DEF Rebuild, Finalize, LockedError
<1>8. ASSUME NEW q \in Queries, Admit(q) PROVE LockUsed!Next
  <2>1. Inside' = Inside \cup {q} /\ step' = step /\ ~AtGate
    BY <1>8 DEF Admit, HeldOff, Inside, SyncTypeOK
  <2>2. LockUsed!Enter(q)
    BY <2>1 DEF LockUsed!Enter
  <2>. QED  BY <2>2 DEF LockUsed!Next
<1>9. ASSUME NEW q \in Queries, Search(q) \/ Return(q) PROVE UNCHANGED LockUsed!vars
  <2>1. Inside' = Inside /\ step' = step
    BY <1>9 DEF Search, Return, NoQuery, Inside, SyncTypeOK
  <2>. QED  BY <2>1, AwayFromGate
<1>10. ASSUME NEW q \in Queries, Label(q) PROVE LockUsed!Next
  <2>1. Inside' = Inside \ {q} /\ step' = step
    BY <1>10 DEF Label, Inside, SyncTypeOK
  <2>2. LockUsed!Exit(q)
    BY <2>1 DEF LockUsed!Exit
  <2>. QED  BY <2>2 DEF LockUsed!Next
<1>. QED
  BY <1>1, <1>2, <1>3, <1>4, <1>5, <1>6, <1>7, <1>8, <1>9, <1>10 DEF SyncNext, Sync, Query

(* Queries and passes use the lock as QueryGate lets them, through crashes *)
(* and failures under the lock.  LockKeepsGate says that LifecycleLock     *)
(* lets them do no more.                                                   *)
THEOREM VaultUsesGate == SyncSpec => UsesGate
<1>1. SyncInit => LockUsed!Init
  BY DEF SyncInit, LockUsed!Init, Inside, NoQuery, Locked
<1>. QED  BY <1>1, VaultTypeOK, StepUsesGate, PTL DEF SyncSpec, UsesGate, LockUsed!Spec

=============================================================================
