--------------------------- MODULE DataPath_proofs ---------------------------
(***************************************************************************)
(* Proofs about the two ends of the way of a vector: that chunks are given *)
(* the vectors of their texts (Embedding), and that what a request returns *)
(* is what the revisions it names hold, the vector of a query only being   *)
(* compared with vectors of its own configuration and width                *)
(* (QuerySession).  For any texts, sources, vaults, configurations and     *)
(* widths.  The modules share no state.                                    *)
(***************************************************************************)
EXTENDS Embedding, QuerySession, FiniteSetTheorems, TLAPS

----------------------------------------------------------------------------
(***************************************************************************)
(* Requests.                                                               *)
(***************************************************************************)

Stages == {"idle", "summarise", "observe", "ask", "match", "scope", "dense", "hydrate",
           "look", "load"}

(* The stages after Observe has judged the index, and after the provider   *)
(* has been asked or passed over.                                          *)
Asked == {"match", "scope", "dense", "hydrate"}
Judged == {"ask"} \cup Asked

Fingerprints == Configs \X Dims
Candidates == [vault : Vaults, n : Nat]

Sessions ==
    [at : Stages, pinned : Indexes \cup {None}, mode : Modes \cup {None},
     scope : SUBSET Vaults, localOnly : BOOLEAN, any : BOOLEAN,
     label : Configs \cup {None}, pending : BOOLEAN, widths : SUBSET Dims,
     observed : Fingerprints \cup {None}, unavailable : Degradations \cup {None},
     coverage : Degradations \cup {None}, vector : Fingerprints \cup {None},
     degraded : Degradations \cup {None}, ranked : SUBSET Candidates,
     dense : SUBSET [vault : Vaults, n : Nat, by : Fingerprints],
     vault : Vaults \cup {None}, expected : Nat \cup {None}, hash : Nat \cup {None}]

QueryTypeOK ==
    /\ backend \in {"postgres", "sqlite"}
    /\ own \in Configs
    /\ index \in Indexes
    /\ published \in Nat
    /\ disk \in [Vaults -> Nat]
    /\ session \in Sessions
    /\ IsFiniteSet(session.widths)
    /\ answer.hits \in SUBSET Candidates

(* What indexers leave: a vector exactly where the state says so, and      *)
(* vectors only withheld from the endpoint they may not go to.             *)
WellPublished(V) ==
    \A v \in Vaults : V[v] # None =>
        /\ V[v].state = "ready" <=> V[v].width # None
        /\ V[v].state = "disabled" =>
              V[v].cfg \in Remote /\ (V[v].localOnly \/ backend = "sqlite")

IndexWell == WellPublished(index)

(* On PostgreSQL a request holds on to the revisions it has resolved, and  *)
(* to their policy; on SQLite it holds on to a file only while it reads    *)
(* the summary.                                                            *)
Pinned ==
    /\ session.pinned # None =>
          /\ WellPublished(session.pinned)
          /\ backend = "sqlite" => session.at = "observe"
    /\ backend = "postgres" /\ session.at # "idle" =>
          /\ session.pinned # None
          /\ Resolves(session.pinned)
          /\ session.localOnly <=> LocalOnly(session.pinned)

(* Between the two statements of the summary the label it has read still   *)
(* holds of what the second statement will read.                           *)
Summarised ==
    session.at = "observe" =>
        /\ session.label = own =>
              \A v \in Vaults : View(session)[v] # None /\ View(session)[v].cfg = own
        /\ backend = "postgres" /\ ~ session.pending =>
              \A v \in Vaults : session.pinned[v].state # "pending"

(* The judgement: if vectors may be used and all have one width, they are  *)
(* of the configuration of the process; with no vault pending, on          *)
(* PostgreSQL, every vault has one.                                        *)
JudgedFairly ==
    session.at \in Judged /\ session.unavailable = None =>
        /\ ~ (session.localOnly /\ own \in Remote)
        /\ \A w \in Dims : session.widths = {w} => session.observed = <<own, w>>
        /\ backend = "postgres" /\ session.coverage = None =>
              \A v \in Vaults :
                  /\ session.pinned[v].state = "ready"
                  /\ <<session.pinned[v].cfg, session.pinned[v].width>> = session.observed

(* A vector was only asked for when the judgement allowed it, and is then  *)
(* what the judgement observed; a search that wanted one and has none says *)
(* so.                                                                     *)
VectorJudged ==
    /\ session.vector # None =>
          /\ session.at \in Asked
          /\ session.unavailable = None
          /\ session.vector = session.observed
    /\ session.at \in Asked /\ session.mode # "lexical" /\ session.degraded = None =>
          session.vector # None
    /\ session.at \in {"scope", "dense"} => session.vector # None

(* The candidates are chunks of the revisions of the session, and those    *)
(* ranked by vector have the vector of the query.                          *)
CandidatesHeld ==
    /\ backend = "postgres" =>
          \A r \in session.ranked \cup session.dense :
              /\ session.pinned[r.vault] # None
              /\ r.n = session.pinned[r.vault].n
    /\ \A d \in session.dense : d.by = session.vector
    /\ session.at # "hydrate" => session.dense = {}
    /\ /\ session.at = "hydrate" /\ backend = "postgres" /\ session.mode # "lexical"
       /\ session.degraded = None /\ session.coverage = None
       => \A v \in session.scope : \E d \in session.dense : d.vault = v

Reading == session.at \in {"look", "load"} => session.vault \in Vaults

QueryInv ==
    /\ QueryTypeOK /\ IndexWell /\ Pinned /\ Summarised /\ JudgedFairly
    /\ VectorJudged /\ CandidatesHeld /\ Reading /\ AnswersTrue /\ DenseHonest

(* The conjuncts about the request under way.                              *)
SessionInv == Pinned /\ Summarised /\ JudgedFairly /\ VectorJudged /\ CandidatesHeld /\ Reading

(***************************************************************************)
(* The operators.                                                          *)
(***************************************************************************)
LEMMA NoneApart ==
    /\ None \notin Configs /\ None \notin Dims /\ None \notin Degradations
    /\ None \notin Fingerprints /\ None \notin Publication /\ None \notin Indexes
    /\ Remote \subseteq Configs /\ IsFiniteSet(Vaults) /\ Vaults # {}
BY QueryAssumption DEF QueryAssumption, Fingerprints

(* What an indexer publishes is a well-formed publication.                 *)
LEMMA PublicationsWell ==
    ASSUME NEW n \in Nat, NEW C \in SUBSET Configs, NEW p \in Publications(n, C)
    PROVE  /\ p \in Publication
           /\ p.cfg \in C
           /\ p.state = "ready" <=> p.width # None
           /\ p.state = "disabled" =>
                 p.cfg \in Remote /\ (p.localOnly \/ backend = "sqlite")
BY DEF Publications, Publication

(* The vectors of an index are finitely many fingerprints.                 *)
LEMMA ObservedFinite ==
    ASSUME NEW V \in Indexes, WellPublished(V)
    PROVE  /\ Observed(V) \in SUBSET Fingerprints
           /\ IsFiniteSet(Observed(V))
           /\ {o[2] : o \in Observed(V)} \in SUBSET Dims
           /\ IsFiniteSet({o[2] : o \in Observed(V)})
<1>1. Observed(V) \in SUBSET Fingerprints
  BY NoneApart DEF Observed, Ready, Present, WellPublished, Indexes, Publication, Fingerprints
<1>2. IsFiniteSet(Ready(V))
  BY NoneApart, FS_Subset DEF Ready, Present
<1>3. IsFiniteSet(Observed(V))
  <2> DEFINE f == [v \in Ready(V) |-> <<V[v].cfg, V[v].width>>]
  <2>1. f \in Surjection(Ready(V), Observed(V))
    BY DEF Surjection, Observed
  <2> QED  BY <1>2, <2>1, FS_Surjection
<1>4. IsFiniteSet({o[2] : o \in Observed(V)})
  <2> DEFINE g == [o \in Observed(V) |-> o[2]]
  <2>1. g \in Surjection(Observed(V), {o[2] : o \in Observed(V)})
    BY DEF Surjection
  <2> QED  BY <1>3, <2>1, FS_Surjection
<1> QED  BY <1>1, <1>3, <1>4 DEF Fingerprints

(* Found numbers chunks by the publication they are found in.              *)
LEMMA FoundHeld ==
    ASSUME NEW V \in Indexes, NEW C \in SUBSET Present(V)
    PROVE  /\ Found(V, C) \in SUBSET Candidates
           /\ \A r \in Found(V, C) : r.vault \in C /\ V[r.vault] # None /\ r.n = V[r.vault].n
BY DEF Found, Present, Candidates, Indexes, Publication

(* A label that all vaults share is that of each.                          *)
LEMMA AgreedByAll ==
    ASSUME NEW V \in Indexes
    PROVE  /\ Agreed(V) \in Configs \cup {None}
           /\ \A c \in Configs : Agreed(V) = c =>
                 \A v \in Vaults : V[v] # None /\ V[v].cfg = c
<1>1. CASE Present(V) = Vaults /\ \E c \in Configs : \A v \in Vaults : V[v].cfg = c
  <2> DEFINE label == CHOOSE c \in Configs : \A v \in Vaults : V[v].cfg = c
  <2>1. label \in Configs /\ \A v \in Vaults : V[v].cfg = label
    BY <1>1
  <2>2. Agreed(V) = label
    BY <1>1 DEF Agreed
  <2> QED  BY <1>1, <2>1, <2>2 DEF Present
<1>2. CASE ~ (Present(V) = Vaults /\ \E c \in Configs : \A v \in Vaults : V[v].cfg = c)
  BY <1>2, NoneApart DEF Agreed
<1> QED  BY <1>1, <1>2

(* What a statement reads is an index an indexer has left.                 *)
LEMMA ViewWell ==
    ASSUME QueryTypeOK, IndexWell, Pinned
    PROVE  View(session) \in Indexes /\ WellPublished(View(session))
BY NoneApart DEF QueryTypeOK, Sessions, IndexWell, Pinned, View

(***************************************************************************)
(* Types.                                                                  *)
(***************************************************************************)
LEMMA InitType == QueryInit => QueryTypeOK /\ IndexWell
<1> SUFFICES ASSUME QueryInit PROVE QueryTypeOK /\ IndexWell
  OBVIOUS
<1>1. \A v \in Vaults : index[v] # None =>
          /\ index[v] \in Publication
          /\ index[v].state = "ready" <=> index[v].width # None
          /\ index[v].state = "disabled" =>
                index[v].cfg \in Remote /\ (index[v].localOnly \/ backend = "sqlite")
  BY PublicationsWell DEF QueryInit
<1>2. index \in Indexes
  BY <1>1 DEF QueryInit, Indexes
<1>3. session \in Sessions /\ session.widths = {} /\ answer.hits = {}
  BY DEF QueryInit, Idle, NoAnswer, Sessions, Stages
<1>4. backend \in {"postgres", "sqlite"} /\ own \in Configs /\ published \in Nat
      /\ disk \in [Vaults -> Nat]
  BY QueryAssumption DEF QueryInit, QueryAssumption
<1> QED  BY <1>1, <1>2, <1>3, <1>4, FS_EmptySet DEF QueryTypeOK, IndexWell, WellPublished

(* The indexers.                                                           *)
LEMMA PublishWell ==
    ASSUME QueryTypeOK, IndexWell, NEW v \in Vaults, Publish(v)
    PROVE  /\ QueryTypeOK' /\ IndexWell'
           /\ \A u \in Vaults : backend = "sqlite" /\ index[u] # None =>
                 index'[u] # None /\ index'[u].cfg = index[u].cfg
<1>1. PICK p \in Publications(published + 1, Configs) :
          /\ backend = "sqlite" /\ index[v] # None => p.cfg = index[v].cfg
          /\ index' = [index EXCEPT ![v] = p]
  BY DEF Publish
<1>2. published + 1 \in Nat /\ UNCHANGED <<backend, own, session, answer>>
      /\ published' = published + 1 /\ disk' = [disk EXCEPT ![v] = published + 1]
  BY DEF Publish, QueryTypeOK
<1>3. /\ p \in Publication
      /\ p.state = "ready" <=> p.width # None
      /\ p.state = "disabled" => p.cfg \in Remote /\ (p.localOnly \/ backend = "sqlite")
  BY <1>2, PublicationsWell
<1>4. index' \in Indexes
  BY <1>1, <1>3 DEF QueryTypeOK, Indexes
<1>5. IndexWell'
  BY <1>1, <1>2, <1>3 DEF QueryTypeOK, Indexes, IndexWell, WellPublished
<1> QED  BY <1>1, <1>2, <1>3, <1>4, <1>5, NoneApart DEF QueryTypeOK, Indexes

LEMMA RebuildWell ==
    ASSUME QueryTypeOK, IndexWell, NEW R \in SUBSET Vaults, Rebuild(R)
    PROVE  QueryTypeOK' /\ IndexWell'
<1>1. PICK c \in Configs : \E P \in [R -> Publications(published + 1, {c})] :
          index' = [v \in Vaults |-> IF v \in R THEN P[v] ELSE index[v]]
  BY DEF Rebuild
<1>2. PICK P \in [R -> Publications(published + 1, {c})] :
          index' = [v \in Vaults |-> IF v \in R THEN P[v] ELSE index[v]]
  BY <1>1
<1>3. published + 1 \in Nat /\ UNCHANGED <<backend, own, answer>>
      /\ published' = published + 1
      /\ disk' = [v \in Vaults |-> IF v \in R THEN published + 1 ELSE disk[v]]
      /\ session' = IF session.at = "observe" /\ session.pinned = None
                    THEN [session EXCEPT !.pinned = index] ELSE session
  BY DEF Rebuild, QueryTypeOK
<1>4. \A v \in R :
          /\ P[v] \in Publication
          /\ P[v].state = "ready" <=> P[v].width # None
          /\ P[v].state = "disabled" =>
                P[v].cfg \in Remote /\ (P[v].localOnly \/ backend = "sqlite")
  BY <1>3, PublicationsWell
<1>5. index' \in Indexes
  BY <1>2, <1>4 DEF QueryTypeOK, Indexes
<1>6. IndexWell'
  BY <1>2, <1>3, <1>4 DEF IndexWell, WellPublished
<1>7. session' \in Sessions /\ session'.widths = session.widths
  BY <1>3 DEF QueryTypeOK, Sessions
<1> QED  BY <1>3, <1>5, <1>6, <1>7 DEF QueryTypeOK

(***************************************************************************)
(* The steps.                                                              *)
(***************************************************************************)

(* The invariant of the request, with its type.                            *)
SessionOK == session \in Sessions /\ IsFiniteSet(session.widths) /\ SessionInv

(* A request stays one when a field is given a value of its type.          *)
LEMMA FieldSet ==
    ASSUME NEW s \in Sessions
    PROVE  /\ \A x \in Stages : [s EXCEPT !.at = x] \in Sessions
           /\ \A x \in Indexes \cup {None} : [s EXCEPT !.pinned = x] \in Sessions
           /\ \A x \in BOOLEAN : [s EXCEPT !.localOnly = x] \in Sessions
           /\ \A x \in BOOLEAN : [s EXCEPT !.any = x] \in Sessions
           /\ \A x \in Configs \cup {None} : [s EXCEPT !.label = x] \in Sessions
           /\ \A x \in BOOLEAN : [s EXCEPT !.pending = x] \in Sessions
           /\ \A x \in SUBSET Dims : [s EXCEPT !.widths = x] \in Sessions
           /\ \A x \in Fingerprints \cup {None} : [s EXCEPT !.observed = x] \in Sessions
           /\ \A x \in Degradations \cup {None} : [s EXCEPT !.unavailable = x] \in Sessions
           /\ \A x \in Degradations \cup {None} : [s EXCEPT !.coverage = x] \in Sessions
           /\ \A x \in Fingerprints \cup {None} : [s EXCEPT !.vector = x] \in Sessions
           /\ \A x \in Degradations \cup {None} : [s EXCEPT !.degraded = x] \in Sessions
           /\ \A x \in SUBSET Candidates : [s EXCEPT !.ranked = x] \in Sessions
           /\ \A x \in SUBSET [vault : Vaults, n : Nat, by : Fingerprints] :
                 [s EXCEPT !.dense = x] \in Sessions
           /\ \A x \in Nat \cup {None} : [s EXCEPT !.hash = x] \in Sessions
<1>1. \A x \in Stages : [s EXCEPT !.at = x] \in Sessions
  BY DEF Sessions
<1>2. \A x \in Indexes \cup {None} : [s EXCEPT !.pinned = x] \in Sessions
  BY DEF Sessions
<1>3. \A x \in BOOLEAN : [s EXCEPT !.localOnly = x] \in Sessions
  BY DEF Sessions
<1>4. \A x \in BOOLEAN : [s EXCEPT !.any = x] \in Sessions
  BY DEF Sessions
<1>5. \A x \in Configs \cup {None} : [s EXCEPT !.label = x] \in Sessions
  BY DEF Sessions
<1>6. \A x \in BOOLEAN : [s EXCEPT !.pending = x] \in Sessions
  BY DEF Sessions
<1>7. \A x \in SUBSET Dims : [s EXCEPT !.widths = x] \in Sessions
  BY DEF Sessions
<1>8. \A x \in Fingerprints \cup {None} : [s EXCEPT !.observed = x] \in Sessions
  BY DEF Sessions
<1>9. \A x \in Degradations \cup {None} : [s EXCEPT !.unavailable = x] \in Sessions
  BY DEF Sessions
<1>10. \A x \in Degradations \cup {None} : [s EXCEPT !.coverage = x] \in Sessions
  BY DEF Sessions
<1>11. \A x \in Fingerprints \cup {None} : [s EXCEPT !.vector = x] \in Sessions
  BY DEF Sessions
<1>12. \A x \in Degradations \cup {None} : [s EXCEPT !.degraded = x] \in Sessions
  BY DEF Sessions
<1>13. \A x \in SUBSET Candidates : [s EXCEPT !.ranked = x] \in Sessions
  BY DEF Sessions
<1>14. \A x \in SUBSET [vault : Vaults, n : Nat, by : Fingerprints] : [s EXCEPT !.dense = x] \in Sessions
  BY DEF Sessions
<1>15. \A x \in Nat \cup {None} : [s EXCEPT !.hash = x] \in Sessions
  BY DEF Sessions
<1> QED  BY <1>1, <1>2, <1>3, <1>4, <1>5, <1>6, <1>7, <1>8, <1>9, <1>10, <1>11, <1>12, <1>13, <1>14, <1>15

(* A request that is over, or has failed, owes nothing.                    *)
LEMMA Rests ==
    ASSUME session' = Idle
    PROVE  SessionOK'
<1>1. session' \in Sessions /\ session'.widths = {}
  BY DEF Idle, Sessions, Stages
<1>2. IsFiniteSet(session'.widths)
  BY <1>1, FS_EmptySet
<1>3. SessionInv'
  BY DEF SessionInv, Pinned, Summarised, JudgedFairly, VectorJudged, CandidatesHeld,
         Reading, Idle, Judged, Asked
<1> QED  BY <1>1, <1>2, <1>3 DEF SessionOK

(* The last answer stays what it was.                                      *)
LEMMA AnswerKept ==
    ASSUME UNCHANGED <<own, answer>>
    PROVE  (AnswersTrue => AnswersTrue') /\ (DenseHonest => DenseHonest')
BY DEF AnswersTrue, DenseHonest

(* A step of the request, with its answer and the index left alone.        *)
LEMMA ContinuesType ==
    ASSUME QueryTypeOK, IndexWell, NEW s \in Sessions, IsFiniteSet(s.widths), Continues(s)
    PROVE  QueryTypeOK' /\ IndexWell' /\ session' = s /\ UNCHANGED <<backend, own, index, answer>>
BY DEF QueryTypeOK, IndexWell, WellPublished, Continues

(* Indexers and users do not disturb a request: on PostgreSQL it does not  *)
(* see them, and on SQLite a publication keeps the configuration, and a    *)
(* rebuild leaves the open file.                                           *)
LEMMA PublishStep ==
    ASSUME QueryInv, NEW v \in Vaults, Publish(v)
    PROVE  QueryInv'
<1>1. QueryTypeOK' /\ IndexWell' /\ UNCHANGED <<backend, own, session, answer>>
  BY PublishWell DEF QueryInv, Publish
<1>2. \A u \in Vaults : backend = "sqlite" /\ index[u] # None =>
          index'[u] # None /\ index'[u].cfg = index[u].cfg
  BY PublishWell DEF QueryInv
<1>3. Pinned'
  BY <1>1 DEF QueryInv, Pinned, WellPublished
<1>4. Summarised'
  BY <1>1, <1>2 DEF QueryInv, QueryTypeOK, Pinned, Summarised, View
<1>5. JudgedFairly' /\ VectorJudged' /\ CandidatesHeld' /\ Reading'
  BY <1>1 DEF QueryInv, JudgedFairly, VectorJudged, CandidatesHeld, Reading
<1> QED  BY <1>1, <1>3, <1>4, <1>5, AnswerKept DEF QueryInv

LEMMA EditStep ==
    ASSUME QueryInv, NEW v \in Vaults, Edit(v)
    PROVE  QueryInv'
<1>1. UNCHANGED <<backend, own, index, published, session, answer>>
      /\ disk' = [disk EXCEPT ![v] = 0]
  BY DEF Edit
<1>2. QueryTypeOK' /\ IndexWell'
  BY <1>1 DEF QueryInv, QueryTypeOK, IndexWell, WellPublished
<1>3. Pinned' /\ Summarised'
  BY <1>1 DEF QueryInv, Pinned, WellPublished, Summarised, View
<1>4. JudgedFairly' /\ VectorJudged' /\ CandidatesHeld' /\ Reading'
  BY <1>1 DEF QueryInv, JudgedFairly, VectorJudged, CandidatesHeld, Reading
<1> QED  BY <1>1, <1>2, <1>3, <1>4, AnswerKept DEF QueryInv

LEMMA RebuildStep ==
    ASSUME QueryInv, NEW R \in SUBSET Vaults, Rebuild(R)
    PROVE  QueryInv'
<1>1. QueryTypeOK' /\ IndexWell'
  BY RebuildWell DEF QueryInv
<1>2. backend = "sqlite" /\ UNCHANGED <<backend, own, answer>>
      /\ session' = IF session.at = "observe" /\ session.pinned = None
                    THEN [session EXCEPT !.pinned = index] ELSE session
  BY DEF Rebuild
<1>3. CASE session.at = "observe" /\ session.pinned = None
  <2>1. session' = [session EXCEPT !.pinned = index]
    BY <1>2, <1>3
  <2>2. index # None
    BY NoneApart DEF QueryInv, QueryTypeOK
  <2>3. Pinned'
    BY <1>2, <1>3, <2>1 DEF QueryInv, QueryTypeOK, Sessions, IndexWell, Pinned, WellPublished
  <2>4. Summarised'
    BY <1>2, <1>3, <2>1, <2>2 DEF QueryInv, QueryTypeOK, Sessions, Summarised, View
  <2>5. JudgedFairly' /\ VectorJudged' /\ Reading'
    BY <1>2, <1>3, <2>1 DEF QueryInv, QueryTypeOK, Sessions, JudgedFairly, VectorJudged,
                            Reading, Judged, Asked
  <2>6. CandidatesHeld'
    BY <1>2, <1>3, <2>1 DEF QueryInv, QueryTypeOK, Sessions, CandidatesHeld
  <2> QED  BY <1>1, <1>2, <2>3, <2>4, <2>5, <2>6, AnswerKept DEF QueryInv
<1>4. CASE ~ (session.at = "observe" /\ session.pinned = None)
  <2>1. UNCHANGED <<backend, own, session, answer>>
    BY <1>2, <1>4
  <2>2. Pinned' /\ Summarised'
    BY <1>4, <2>1 DEF QueryInv, Pinned, WellPublished, Summarised, View
  <2>3. JudgedFairly' /\ VectorJudged' /\ CandidatesHeld' /\ Reading'
    BY <2>1 DEF QueryInv, JudgedFairly, VectorJudged, CandidatesHeld, Reading
  <2> QED  BY <1>1, <2>1, <2>2, <2>3, AnswerKept DEF QueryInv
<1> QED  BY <1>3, <1>4

(* request_session resolves the revisions, for a search and for a read.    *)
LEMMA BeginStep ==
    ASSUME QueryInv, NEW s \in Sessions, Begin(s),
           s.at \in {"summarise", "look"}, s.at = "look" => s.vault \in Vaults,
           s.vector = None, s.widths = {}, s.ranked = {}, s.dense = {}
    PROVE  QueryInv'
<1>1. PICK local \in BOOLEAN :
          /\ backend = "postgres" => local = LocalOnly(index)
          /\ session' = [s EXCEPT !.pinned = IF backend = "postgres" THEN index ELSE None,
                                  !.localOnly = local]
  BY DEF Begin
<1>2. /\ backend = "postgres" => Resolves(index)
      /\ answer' = NoAnswer
      /\ UNCHANGED <<backend, own, index, published, disk>>
  BY DEF Begin
<1>3. index \in Indexes /\ index # None /\ backend \in {"postgres", "sqlite"}
  BY NoneApart DEF QueryInv, QueryTypeOK
<1>4. session' \in Sessions /\ session'.widths = {}
  <2>1. PICK V \in Indexes \cup {None} : V = IF backend = "postgres" THEN index ELSE None
    BY <1>3
  <2>2. PICK t : t = [s EXCEPT !.pinned = V]
    OBVIOUS
  <2>3. t \in Sessions /\ t.widths = {}
    BY <2>2 DEF Sessions
  <2>4. session' = [t EXCEPT !.localOnly = local]
    BY <1>1, <2>1, <2>2
  <2> QED  BY <2>3, <2>4 DEF Sessions
<1>5. QueryTypeOK' /\ IndexWell'
  BY <1>2, <1>4, FS_EmptySet DEF QueryInv, QueryTypeOK, IndexWell, WellPublished, NoAnswer
<1>6. session'.pinned = (IF backend = "postgres" THEN index ELSE None)
      /\ session'.localOnly = local /\ session'.at = s.at /\ session'.vault = s.vault
      /\ session'.vector = None /\ session'.ranked = {} /\ session'.dense = {}
  BY <1>1 DEF Sessions
<1>7. Pinned'
  <2>1. CASE backend = "postgres"
    <3>1. session'.pinned = index /\ session'.localOnly = LocalOnly(index)
      BY <1>1, <1>6, <2>1
    <3>2. WellPublished(index)'
      BY <1>2 DEF QueryInv, IndexWell, WellPublished
    <3>3. WellPublished(session.pinned)'
      BY <1>2, <3>1, <3>2 DEF WellPublished
    <3>4. Resolves(session'.pinned) /\ (session'.localOnly <=> LocalOnly(session'.pinned))
      BY <1>2, <2>1, <3>1
    <3> QED  BY <1>2, <1>3, <2>1, <3>1, <3>3, <3>4 DEF Pinned
  <2>2. CASE backend # "postgres"
    BY <1>2, <1>6, <2>2 DEF Pinned
  <2> QED  BY <2>1, <2>2
<1>8. Summarised' /\ JudgedFairly' /\ VectorJudged' /\ CandidatesHeld' /\ Reading'
  BY <1>6 DEF Summarised, JudgedFairly, VectorJudged, CandidatesHeld, Reading, Judged, Asked
<1>9. AnswersTrue' /\ DenseHonest'
  BY <1>2 DEF AnswersTrue, DenseHonest, NoAnswer
<1> QED  BY <1>5, <1>7, <1>8, <1>9 DEF QueryInv

LEMMA OpenSearchStep == QueryInv /\ OpenSearch => QueryInv'
<1> SUFFICES ASSUME QueryInv, OpenSearch PROVE QueryInv'
  OBVIOUS
<1>1. PICK m \in Modes, F \in SUBSET Vaults \ {{}} :
          Begin([Idle EXCEPT !.at = "summarise", !.mode = m, !.scope = F])
  BY DEF OpenSearch
<1> DEFINE s == [Idle EXCEPT !.at = "summarise", !.mode = m, !.scope = F]
<1>2. s \in Sessions
  BY DEF Idle, Sessions, Stages
<1>3. s.at = "summarise" /\ s.vector = None /\ s.widths = {} /\ s.ranked = {} /\ s.dense = {}
  BY DEF Idle
<1> QED  BY <1>1, <1>2, <1>3, BeginStep

LEMMA OpenReadStep == QueryInv /\ OpenRead => QueryInv'
<1> SUFFICES ASSUME QueryInv, OpenRead PROVE QueryInv'
  OBVIOUS
<1>1. PICK v \in Vaults :
          \E e \in {None} \cup (IF answer.kind # "search" THEN {}
                                ELSE {h.n : h \in {g \in answer.hits : g.vault = v}}) :
              Begin([Idle EXCEPT !.at = "look", !.vault = v, !.expected = e])
  BY DEF OpenRead
<1>2. PICK e \in {None} \cup (IF answer.kind # "search" THEN {}
                              ELSE {h.n : h \in {g \in answer.hits : g.vault = v}}) :
          Begin([Idle EXCEPT !.at = "look", !.vault = v, !.expected = e])
  BY <1>1
<1>3. e \in Nat \cup {None}
  BY DEF QueryInv, QueryTypeOK, Candidates
<1> DEFINE s == [Idle EXCEPT !.at = "look", !.vault = v, !.expected = e]
<1>4. s \in Sessions
  BY <1>3 DEF Idle, Sessions, Stages
<1>5. /\ s.at = "look" /\ s.vault \in Vaults
      /\ s.vector = None /\ s.widths = {} /\ s.ranked = {} /\ s.dense = {}
  BY DEF Idle
<1> QED  BY <1>2, <1>4, <1>5, BeginStep

(* A step that goes on with the request, if what it leaves is sound.       *)
LEMMA ContinuesStep ==
    ASSUME QueryInv, NEW s, Continues(s), SessionOK'
    PROVE  QueryInv'
<1>1. UNCHANGED <<backend, own, index, published, disk, answer>>
  BY DEF Continues
<1>2. QueryTypeOK' /\ IndexWell'
  BY <1>1 DEF QueryInv, QueryTypeOK, IndexWell, WellPublished, SessionOK
<1> QED  BY <1>1, <1>2, AnswerKept DEF QueryInv, SessionOK, SessionInv

LEMMA FailsStep == QueryInv /\ Fails => QueryInv'
BY Rests, ContinuesStep DEF Fails, Continues

LEMMA LookStep == QueryInv /\ Look => QueryInv'
<1> SUFFICES ASSUME QueryInv, Look PROVE QueryInv'
  OBVIOUS
<1> DEFINE V == View(session)
           n == V[session.vault].n
<1>1. CASE V[session.vault] = None
  BY <1>1, Rests, ContinuesStep DEF Look, Continues
<1>2. CASE V[session.vault] # None
  <2>1. Continues([session EXCEPT !.at = "load", !.hash = n])
    BY <1>2 DEF Look
  <2>2. session' = [session EXCEPT !.at = "load", !.hash = n] /\ session.at = "look"
        /\ UNCHANGED <<backend, own>>
    BY <2>1 DEF Look, Continues
  <2>3. V \in Indexes /\ session.vault \in Vaults
    BY <2>2, ViewWell DEF QueryInv, Reading
  <2>4. n \in Nat
    BY <1>2, <2>3 DEF Indexes, Publication
  <2> HIDE DEF V, n
  <2>5. [session EXCEPT !.at = "load", !.hash = n] \in Sessions
    <3>1. "load" \in Stages /\ n \in Nat \cup {None} /\ session \in Sessions
      BY <2>4 DEF Stages, QueryInv, QueryTypeOK
    <3> QED  BY <3>1, FieldSet, Zenon
  <2>6. SessionInv'
    BY <2>2, <2>3 DEF QueryInv, QueryTypeOK, Sessions, SessionInv, Pinned, WellPublished,
          Summarised, JudgedFairly, VectorJudged, CandidatesHeld, Reading, Judged, Asked
  <2>7. session'.widths = session.widths
    BY <2>2 DEF QueryInv, QueryTypeOK, Sessions
  <2>8. SessionOK'
    BY <2>2, <2>5, <2>6, <2>7 DEF QueryInv, QueryTypeOK, SessionOK
  <2> QED  BY <2>1, <2>8, ContinuesStep
<1> QED  BY <1>1, <1>2

(* The first statement of the summary.                                     *)
LEMMA SummariseStep == QueryInv /\ Summarise => QueryInv'
<1> SUFFICES ASSUME QueryInv, Summarise PROVE QueryInv'
  OBVIOUS
<1> DEFINE V == View(session)
           some == Present(V) # {}
           agreed == Agreed(V)
           waits == \E v \in Present(V) : V[v].state = "pending"
           s == [session EXCEPT !.at = "observe", !.any = some, !.label = agreed,
                                !.pending = waits]
<1>1. Continues(s) /\ session.at = "summarise"
  BY DEF Summarise
<1>2. V \in Indexes /\ WellPublished(V)
  BY ViewWell DEF QueryInv
<1>3. agreed \in Configs \cup {None}
  BY <1>2, AgreedByAll
<1>4. some \in BOOLEAN /\ waits \in BOOLEAN
  OBVIOUS
<1>5. s \in Sessions
  <2> HIDE DEF some, agreed, waits
  <2> QED  BY <1>3, <1>4, FieldSet, Zenon DEF QueryInv, QueryTypeOK, Stages
<1>6. /\ s.at = "observe" /\ s.label = agreed /\ s.pending = waits
      /\ s.pinned = session.pinned /\ s.localOnly = session.localOnly
      /\ s.vector = session.vector /\ s.widths = session.widths
      /\ s.ranked = session.ranked /\ s.dense = session.dense
  <2> HIDE DEF some, agreed, waits
  <2> QED  BY DEF QueryInv, QueryTypeOK, Sessions
<1> HIDE DEF s
<1>7. session' = s /\ UNCHANGED <<backend, own, index>>
  BY <1>1 DEF Continues
<1>8. Pinned'
  BY <1>1, <1>6, <1>7 DEF QueryInv, Pinned, WellPublished
<1>9. Summarised'
  <2>1. View(session)' = V
    BY <1>6, <1>7 DEF View
  <2>2. agreed = own => \A v \in Vaults : V[v] # None /\ V[v].cfg = own
    BY <1>2, AgreedByAll DEF QueryInv, QueryTypeOK
  <2>3. backend = "postgres" => session.pinned = V /\ Present(V) = Vaults
    BY <1>1 DEF QueryInv, Pinned, View, Resolves
  <2>4. ~ waits => \A v \in Present(V) : V[v].state # "pending"
    OBVIOUS
  <2> HIDE DEF V, agreed, waits
  <2> QED  BY <1>6, <1>7, <2>1, <2>2, <2>3, <2>4 DEF Summarised
<1>10. JudgedFairly' /\ VectorJudged' /\ CandidatesHeld' /\ Reading'
  BY <1>1, <1>6, <1>7 DEF QueryInv, JudgedFairly, VectorJudged, CandidatesHeld, Reading,
                          Judged, Asked
<1>11. SessionOK'
  BY <1>5, <1>6, <1>7, <1>8, <1>9, <1>10 DEF QueryInv, QueryTypeOK, SessionOK, SessionInv
<1> QED  BY <1>1, <1>11, ContinuesStep

(***************************************************************************)
(* The judgement.                                                          *)
(***************************************************************************)
LEMMA ReasonType ==
    ASSUME NEW s, NEW O
    PROVE  /\ Reason(s, O) \in Degradations \cup {None}
           /\ Reason(s, O) \in {None, "pending_embeddings"} =>
                 ~ (s.localOnly /\ own \in Remote) /\ s.label = own
           /\ Reason(s, O) = None => ~ s.pending /\ O # {} /\ ~ Cardinality(O) > 1
<1>1. None \notin Degradations
  BY NoneApart
<1>2. {"semantic_disabled_by_policy", "no_compatible_vectors", "rebuild_required",
       "pending_embeddings", "ambiguous_vectors"} \subseteq Degradations
  BY DEF Degradations
<1> QED  BY <1>1, <1>2 DEF Reason

(* If all vaults have the configuration of the process, vectors of one     *)
(* width are one fingerprint.                                              *)
LEMMA OneFingerprint ==
    ASSUME NEW V \in Indexes, WellPublished(V), own \in Configs,
           \A v \in Vaults : V[v] # None /\ V[v].cfg = own
    PROVE  /\ \A o \in Observed(V) : o = <<own, o[2]>>
           /\ \A w \in Dims : {o[2] : o \in Observed(V)} = {w} =>
                 Observed(V) = {<<own, w>>} /\ Cardinality(Observed(V)) = 1
<1>1. \A o \in Observed(V) : o = <<own, o[2]>>
  BY DEF Observed, Ready, Present
<1>2. ASSUME NEW w \in Dims, {o[2] : o \in Observed(V)} = {w}
      PROVE  Observed(V) = {<<own, w>>}
  <2>1. \A o \in Observed(V) : o[2] = w
    BY <1>2
  <2>2. \E o \in Observed(V) : TRUE
    BY <1>2
  <2> QED  BY <1>1, <2>1, <2>2
<1> QED  BY <1>1, <1>2, FS_Singleton

(* On PostgreSQL, with nothing pending, every vault has vectors: none is   *)
(* withheld from an endpoint the whole profile may go to.                  *)
LEMMA NoneWithheld ==
    ASSUME QueryInv, session.at = "observe", backend = "postgres", ~ session.pending,
           session.label = own, ~ (session.localOnly /\ own \in Remote), NEW v \in Vaults
    PROVE  v \in Ready(session.pinned)
<1>1. session.pinned \in Indexes /\ WellPublished(session.pinned)
      /\ (session.localOnly <=> LocalOnly(session.pinned)) /\ View(session) = session.pinned
  BY DEF QueryInv, QueryTypeOK, Sessions, Pinned, View
<1>2. /\ session.pinned[v] # None /\ session.pinned[v].cfg = own
      /\ session.pinned[v].state # "pending"
  BY <1>1 DEF QueryInv, Summarised
<1>3. session.pinned[v].state \in {"ready", "pending", "disabled"}
  BY <1>1, <1>2 DEF Indexes, Publication
<1>4. session.pinned[v].state # "disabled"
  <2>1. session.pinned[v].state = "disabled" => own \in Remote /\ session.pinned[v].localOnly
    BY <1>1, <1>2 DEF WellPublished
  <2> QED  BY <1>1, <2>1 DEF LocalOnly
<1> QED  BY <1>2, <1>3, <1>4 DEF Ready, Present

LEMMA ObserveStep == QueryInv /\ Observe => QueryInv'
<1> SUFFICES ASSUME QueryInv, Observe PROVE QueryInv'
  OBVIOUS
<1> DEFINE V == View(session)
           O == Observed(V)
           reason == Reason(session, O)
           allowed == reason \in {None, "pending_embeddings"}
           held == IF backend = "postgres" THEN session.pinned ELSE None
           widths == {o[2] : o \in O}
           one == IF allowed /\ Cardinality(O) = 1 THEN CHOOSE o \in O : TRUE ELSE None
           ruled == IF allowed THEN None ELSE reason
           waits == IF reason = "pending_embeddings" THEN reason ELSE None
           s == [session EXCEPT !.at = "ask", !.pinned = held, !.widths = widths,
                                !.observed = one, !.unavailable = ruled, !.coverage = waits]
<1>1. Continues(s) /\ session.at = "observe"
  BY DEF Observe
<1>2. V \in Indexes /\ WellPublished(V)
  BY ViewWell DEF QueryInv
<1>3. /\ O \in SUBSET Fingerprints /\ IsFiniteSet(O)
      /\ widths \in SUBSET Dims /\ IsFiniteSet(widths)
  BY <1>2, ObservedFinite
<1>4. /\ reason \in Degradations \cup {None}
      /\ allowed => ~ (session.localOnly /\ own \in Remote) /\ session.label = own
      /\ reason = None => ~ session.pending /\ O # {} /\ ~ Cardinality(O) > 1
  BY ReasonType
<1>5. Cardinality(O) = 1 => \E o \in O : O = {o}
  BY <1>3, FS_Singleton
<1>6. /\ one \in Fingerprints \cup {None}
      /\ ruled \in Degradations \cup {None} /\ waits \in Degradations \cup {None}
  BY <1>3, <1>4, <1>5
<1>7. held \in Indexes \cup {None} /\ session \in Sessions /\ "ask" \in Stages
  BY DEF QueryInv, QueryTypeOK, Sessions, Stages
<1>8. s \in Sessions
  <2> HIDE DEF held, widths, one, ruled, waits
  <2> QED  BY <1>3, <1>6, <1>7, FieldSet, Zenon
<1>9. /\ s.at = "ask" /\ s.pinned = held /\ s.widths = widths /\ s.observed = one
      /\ s.unavailable = ruled /\ s.coverage = waits
      /\ s.localOnly = session.localOnly /\ s.vector = session.vector
      /\ s.ranked = session.ranked /\ s.dense = session.dense
  <2> HIDE DEF held, widths, one, ruled, waits
  <2> QED  BY <1>7 DEF Sessions
<1> HIDE DEF s
<1>10. session' = s /\ UNCHANGED <<backend, own, index>>
  BY <1>1 DEF Continues
<1>11. Pinned'
  BY <1>1, <1>9, <1>10 DEF QueryInv, QueryTypeOK, Pinned, WellPublished
<1>12. JudgedFairly'
  <2> SUFFICES ASSUME ruled = None
               PROVE  /\ ~ (session.localOnly /\ own \in Remote)
                      /\ \A w \in Dims : widths = {w} => one = <<own, w>>
                      /\ backend = "postgres" /\ waits = None =>
                            \A v \in Vaults :
                                /\ held[v].state = "ready"
                                /\ <<held[v].cfg, held[v].width>> = one
    BY <1>9, <1>10 DEF JudgedFairly
  <2>1. allowed
    BY <1>4, NoneApart
  <2>2. \A v \in Vaults : V[v] # None /\ V[v].cfg = own
    BY <1>1, <1>4, <2>1 DEF QueryInv, Summarised
  <2>3. \A w \in Dims : widths = {w} => one = <<own, w>>
    BY <1>2, <2>1, <2>2, OneFingerprint DEF QueryInv, QueryTypeOK
  <2>4. ASSUME backend = "postgres", waits = None, NEW v \in Vaults
        PROVE  held[v].state = "ready" /\ <<held[v].cfg, held[v].width>> = one
    <3>1. reason = None
      BY <2>1, <2>4, NoneApart DEF Degradations
    <3>2. held = session.pinned /\ V = session.pinned
      BY <1>1, <2>4 DEF QueryInv, Pinned, View
    <3>3. v \in Ready(V)
      BY <1>1, <1>4, <2>1, <2>4, <3>1, <3>2, NoneWithheld
    <3>4. <<V[v].cfg, V[v].width>> \in O
      BY <3>3 DEF Observed
    <3>5. Cardinality(O) = 1
      BY <1>3, <1>4, <3>1, FS_CardinalityType, FS_EmptySet
    <3>6. one \in O /\ \E o \in O : O = {o}
      BY <1>5, <2>1, <3>5
    <3>7. one = <<V[v].cfg, V[v].width>>
      BY <3>4, <3>6
    <3> QED  BY <3>2, <3>3, <3>7 DEF Ready
  <2> QED  BY <1>4, <2>1, <2>3, <2>4
<1>13. Summarised' /\ Reading'
  BY <1>9, <1>10 DEF Summarised, Reading
<1>14. VectorJudged' /\ CandidatesHeld'
  BY <1>1, <1>9, <1>10 DEF QueryInv, VectorJudged, CandidatesHeld, Asked
<1>15. SessionOK'
  BY <1>3, <1>8, <1>9, <1>10, <1>11, <1>12, <1>13, <1>14 DEF SessionOK, SessionInv
<1> QED  BY <1>1, <1>15, ContinuesStep

(***************************************************************************)
(* The vector of the query.                                                *)
(***************************************************************************)

(* A step after the judgement leaves what it was made from.                *)
LEMMA JudgementKept ==
    ASSUME QueryInv, session.at \in Judged, session'.at \in Asked,
           UNCHANGED <<backend, own, index>>,
           session'.pinned = session.pinned, session'.localOnly = session.localOnly,
           session'.widths = session.widths, session'.observed = session.observed,
           session'.unavailable = session.unavailable, session'.coverage = session.coverage
    PROVE  Pinned' /\ Summarised' /\ JudgedFairly' /\ Reading'
<1>1. session.at # "observe" /\ session.at # "idle" /\ session'.at # "observe"
      /\ session'.at # "look" /\ session'.at # "load"
  BY DEF Judged, Asked
<1>2. Pinned'
  BY <1>1 DEF QueryInv, Pinned, WellPublished
<1>3. JudgedFairly'
  BY DEF QueryInv, JudgedFairly
<1> QED  BY <1>1, <1>2, <1>3 DEF Summarised, Reading

LEMMA NotAskedStep == QueryInv /\ NotAsked => QueryInv'
<1> SUFFICES ASSUME QueryInv, NotAsked PROVE QueryInv'
  OBVIOUS
<1>1. session.at = "ask" /\ session \in Sessions /\ "match" \in Stages
  BY DEF NotAsked, QueryInv, QueryTypeOK, Stages
<1>2. CASE session.mode = "lexical" /\ Continues([session EXCEPT !.at = "match"])
  <2> DEFINE s == [session EXCEPT !.at = "match"]
  <2>1. s \in Sessions
    BY <1>1, FieldSet, Zenon
  <2>2. session' = s /\ UNCHANGED <<backend, own, index>>
    BY <1>2 DEF Continues
  <2>3. Pinned' /\ Summarised' /\ JudgedFairly' /\ Reading'
    BY <1>1, <2>2, JudgementKept DEF Sessions, Judged, Asked
  <2>4. VectorJudged' /\ CandidatesHeld'
    BY <1>1, <1>2, <2>2 DEF QueryInv, VectorJudged, CandidatesHeld, Asked, Sessions
  <2>5. session'.widths = session.widths
    BY <1>1, <2>2 DEF Sessions
  <2>6. SessionOK'
    BY <2>1, <2>2, <2>3, <2>4, <2>5 DEF SessionOK, SessionInv, QueryInv, QueryTypeOK
  <2> QED  BY <1>2, <2>6, ContinuesStep
<1>3. CASE session.mode # "lexical"
  <2> DEFINE cause == IF session.unavailable # None THEN session.unavailable
                      ELSE IF session.widths = {} THEN "no_compatible_vectors"
                      ELSE "incompatible_vector_dimensions"
             s == [session EXCEPT !.at = "match", !.degraded = cause]
  <2>1. Continues(s)
    BY <1>3 DEF NotAsked
  <2>2. cause \in Degradations
    BY <1>1 DEF Sessions, Degradations
  <2>3. s \in Sessions
    <3> HIDE DEF cause
    <3> QED  BY <1>1, <2>2, FieldSet, Zenon
  <2>4. session' = s /\ UNCHANGED <<backend, own, index>>
    BY <2>1 DEF Continues
  <2>5. /\ s.at = "match" /\ s.degraded = cause /\ s.mode = session.mode
        /\ s.pinned = session.pinned /\ s.localOnly = session.localOnly
        /\ s.widths = session.widths /\ s.observed = session.observed
        /\ s.unavailable = session.unavailable /\ s.coverage = session.coverage
        /\ s.vector = session.vector /\ s.ranked = session.ranked /\ s.dense = session.dense
    <3> HIDE DEF cause
    <3> QED  BY <1>1 DEF Sessions
  <2> HIDE DEF s
  <2>6. Pinned' /\ Summarised' /\ JudgedFairly' /\ Reading'
    BY <1>1, <2>4, <2>5, JudgementKept DEF Judged, Asked
  <2>7. VectorJudged' /\ CandidatesHeld'
    BY <1>1, <2>2, <2>4, <2>5, NoneApart DEF QueryInv, VectorJudged, CandidatesHeld, Asked
  <2>8. SessionOK'
    BY <2>3, <2>4, <2>5, <2>6, <2>7 DEF SessionOK, SessionInv, QueryInv, QueryTypeOK
  <2> QED  BY <2>1, <2>8, ContinuesStep
<1> QED  BY <1>2, <1>3 DEF NotAsked

LEMMA AskStep == QueryInv /\ Ask => QueryInv'
<1> SUFFICES ASSUME QueryInv, Ask PROVE QueryInv'
  OBVIOUS
<1>1. /\ session.at = "ask" /\ session.mode # "lexical" /\ session.unavailable = None
      /\ session \in Sessions /\ "match" \in Stages /\ own \in Configs
      /\ Cardinality(session.widths) = 1 /\ IsFiniteSet(session.widths)
  BY DEF Ask, Asks, QueryInv, QueryTypeOK, Stages
<1>2. CASE \E w \in session.widths :
              Continues([session EXCEPT !.at = "match", !.vector = <<own, w>>])
  <2>1. PICK w \in session.widths :
            Continues([session EXCEPT !.at = "match", !.vector = <<own, w>>])
    BY <1>2
  <2> DEFINE q == <<own, w>>
             s == [session EXCEPT !.at = "match", !.vector = q]
  <2>2. w \in Dims /\ q \in Fingerprints
    BY <1>1 DEF Sessions, Fingerprints
  <2>3. session.observed = q
    <3>1. session.widths = {w}
      BY <1>1, FS_Singleton
    <3> QED  BY <1>1, <2>2, <3>1 DEF QueryInv, JudgedFairly, Judged
  <2>4. Continues(s)
    BY <2>1
  <2> HIDE DEF q
  <2>5. s \in Sessions
    BY <1>1, <2>2, FieldSet, Zenon
  <2>6. session' = s /\ UNCHANGED <<backend, own, index>>
    BY <2>4 DEF Continues
  <2>7. /\ s.at = "match" /\ s.vector = q /\ s.mode = session.mode
        /\ s.pinned = session.pinned /\ s.localOnly = session.localOnly
        /\ s.widths = session.widths /\ s.observed = session.observed
        /\ s.unavailable = session.unavailable /\ s.coverage = session.coverage
        /\ s.ranked = session.ranked /\ s.dense = session.dense
    BY <1>1 DEF Sessions
  <2> HIDE DEF s
  <2>8. Pinned' /\ Summarised' /\ JudgedFairly' /\ Reading'
    BY <1>1, <2>6, <2>7, JudgementKept DEF Judged, Asked
  <2>9. q # None
    BY <2>2, NoneApart
  <2>10. VectorJudged' /\ CandidatesHeld'
    BY <1>1, <2>3, <2>6, <2>7, <2>9 DEF QueryInv, VectorJudged, CandidatesHeld, Asked
  <2>11. SessionOK'
    BY <1>1, <2>5, <2>6, <2>7, <2>8, <2>10 DEF SessionOK, SessionInv
  <2> QED  BY <2>4, <2>11, ContinuesStep
<1>3. CASE Continues([session EXCEPT !.at = "match", !.degraded = "query_embedding_failed"])
  <2> DEFINE s == [session EXCEPT !.at = "match", !.degraded = "query_embedding_failed"]
  <2>1. "query_embedding_failed" \in Degradations
    BY DEF Degradations
  <2>2. s \in Sessions
    BY <1>1, <2>1, FieldSet, Zenon
  <2>3. session' = s /\ UNCHANGED <<backend, own, index>>
    BY <1>3 DEF Continues
  <2>4. /\ s.at = "match" /\ s.degraded = "query_embedding_failed" /\ s.mode = session.mode
        /\ s.pinned = session.pinned /\ s.localOnly = session.localOnly
        /\ s.widths = session.widths /\ s.observed = session.observed
        /\ s.unavailable = session.unavailable /\ s.coverage = session.coverage
        /\ s.vector = session.vector /\ s.ranked = session.ranked /\ s.dense = session.dense
    BY <1>1 DEF Sessions
  <2>5. Continues(s)
    BY <1>3
  <2> HIDE DEF s
  <2>6. Pinned' /\ Summarised' /\ JudgedFairly' /\ Reading'
    BY <1>1, <2>3, <2>4, JudgementKept DEF Judged, Asked
  <2>7. VectorJudged' /\ CandidatesHeld'
    BY <1>1, <2>1, <2>3, <2>4, NoneApart DEF QueryInv, VectorJudged, CandidatesHeld, Asked
  <2>8. SessionOK'
    BY <1>1, <2>2, <2>3, <2>4, <2>6, <2>7 DEF SessionOK, SessionInv
  <2> QED  BY <2>5, <2>8, ContinuesStep
<1> QED  BY <1>2, <1>3 DEF Ask

(***************************************************************************)
(* The search, and its answer.                                             *)
(***************************************************************************)

(* On PostgreSQL a search reads the revisions it has resolved.             *)
LEMMA ViewPinned ==
    QueryInv /\ session.at # "idle" /\ backend = "postgres" => View(session) = session.pinned
BY DEF QueryInv, Pinned, View

LEMMA MatchStep == QueryInv /\ Match => QueryInv'
<1> SUFFICES ASSUME QueryInv, Match PROVE QueryInv'
  OBVIOUS
<1> DEFINE V == View(session)
           next == IF session.vector = None THEN "hydrate" ELSE "scope"
<1>1. session.at = "match" /\ session \in Sessions /\ next \in Stages
      /\ IsFiniteSet(session.widths)
  BY DEF Match, QueryInv, QueryTypeOK, Stages
<1>2. PICK C \in SUBSET (Present(V) \cap session.scope) :
          Continues([session EXCEPT !.at = next, !.ranked = Found(V, C)])
  BY DEF Match
<1> DEFINE found == Found(V, C)
           s == [session EXCEPT !.at = next, !.ranked = found]
<1>3. Continues(s)
  BY <1>2
<1>4. V \in Indexes
  BY ViewWell DEF QueryInv
<1>5. /\ found \in SUBSET Candidates
      /\ \A r \in found : V[r.vault] # None /\ r.n = V[r.vault].n
  BY <1>4, FoundHeld
<1>6. backend = "postgres" => V = session.pinned
  BY <1>1, ViewPinned
<1>7. next \in {"hydrate", "scope"} /\ (next = "scope" => session.vector # None)
      /\ (next = "hydrate" => session.vector = None)
  OBVIOUS
<1> HIDE DEF next, found, V
<1>8. s \in Sessions
  BY <1>1, <1>5, FieldSet, Zenon
<1>9. /\ s.at = next /\ s.ranked = found /\ s.mode = session.mode
      /\ s.pinned = session.pinned /\ s.localOnly = session.localOnly
      /\ s.widths = session.widths /\ s.observed = session.observed
      /\ s.unavailable = session.unavailable /\ s.coverage = session.coverage
      /\ s.vector = session.vector /\ s.degraded = session.degraded
      /\ s.dense = session.dense /\ s.scope = session.scope
  BY <1>1 DEF Sessions
<1> HIDE DEF s
<1>10. session' = s /\ UNCHANGED <<backend, own, index>>
  BY <1>3 DEF Continues
<1>11. Pinned' /\ Summarised' /\ JudgedFairly' /\ Reading'
  BY <1>1, <1>7, <1>9, <1>10, JudgementKept DEF Judged, Asked
<1>12. VectorJudged'
  BY <1>1, <1>7, <1>9, <1>10 DEF QueryInv, VectorJudged, Asked
<1>13. CandidatesHeld'
  <2>1. session.dense = {}
    BY <1>1 DEF QueryInv, CandidatesHeld
  <2>2. session.degraded = None /\ session.mode # "lexical" => session.vector # None
    BY <1>1 DEF QueryInv, VectorJudged, Asked
  <2> QED  BY <1>5, <1>6, <1>7, <1>9, <1>10, <2>1, <2>2 DEF CandidatesHeld
<1>14. SessionOK'
  BY <1>1, <1>8, <1>9, <1>10, <1>11, <1>12, <1>13 DEF SessionOK, SessionInv
<1> QED  BY <1>3, <1>14, ContinuesStep

LEMMA ScopeStep == QueryInv /\ Scope => QueryInv'
<1> SUFFICES ASSUME QueryInv, Scope PROVE QueryInv'
  OBVIOUS
<1> DEFINE W == WidthsInScope(session, View(session))
           cause == IF W = {} THEN "no_compatible_vectors"
                    ELSE "incompatible_vector_dimensions"
<1>1. /\ session.at = "scope" /\ session \in Sessions /\ IsFiniteSet(session.widths)
      /\ "dense" \in Stages /\ "hydrate" \in Stages
  BY DEF Scope, QueryInv, QueryTypeOK, Stages
<1>2. CASE Continues([session EXCEPT !.at = "dense"])
  <2> DEFINE s == [session EXCEPT !.at = "dense"]
  <2>1. s \in Sessions
    BY <1>1, FieldSet, Zenon
  <2>2. session' = s /\ UNCHANGED <<backend, own, index>>
    BY <1>2 DEF Continues
  <2>3. Pinned' /\ Summarised' /\ JudgedFairly' /\ Reading'
    BY <1>1, <2>2, JudgementKept DEF Sessions, Judged, Asked
  <2>4. VectorJudged' /\ CandidatesHeld'
    BY <1>1, <2>2 DEF QueryInv, VectorJudged, CandidatesHeld, Asked, Sessions
  <2>5. session'.widths = session.widths
    BY <1>1, <2>2 DEF Sessions
  <2>6. SessionOK'
    BY <1>1, <2>1, <2>2, <2>3, <2>4, <2>5 DEF SessionOK, SessionInv
  <2> QED  BY <1>2, <2>6, ContinuesStep
<1>3. CASE Continues([session EXCEPT !.at = "hydrate", !.degraded = cause])
  <2> DEFINE s == [session EXCEPT !.at = "hydrate", !.degraded = cause]
  <2>1. Continues(s)
    BY <1>3
  <2>2. cause \in Degradations
    BY DEF Degradations
  <2> HIDE DEF cause
  <2>3. s \in Sessions
    BY <1>1, <2>2, FieldSet, Zenon
  <2>4. session' = s /\ UNCHANGED <<backend, own, index>>
    BY <2>1 DEF Continues
  <2>5. /\ s.at = "hydrate" /\ s.degraded = cause /\ s.mode = session.mode
        /\ s.pinned = session.pinned /\ s.localOnly = session.localOnly
        /\ s.widths = session.widths /\ s.observed = session.observed
        /\ s.unavailable = session.unavailable /\ s.coverage = session.coverage
        /\ s.vector = session.vector /\ s.ranked = session.ranked /\ s.dense = session.dense
    BY <1>1 DEF Sessions
  <2> HIDE DEF s
  <2>6. Pinned' /\ Summarised' /\ JudgedFairly' /\ Reading'
    BY <1>1, <2>4, <2>5, JudgementKept DEF Judged, Asked
  <2>7. VectorJudged' /\ CandidatesHeld'
    BY <1>1, <2>2, <2>4, <2>5, NoneApart DEF QueryInv, VectorJudged, CandidatesHeld, Asked
  <2>8. SessionOK'
    BY <1>1, <2>3, <2>4, <2>5, <2>6, <2>7 DEF SessionOK, SessionInv
  <2> QED  BY <2>1, <2>8, ContinuesStep
<1> QED  BY <1>2, <1>3 DEF Scope

(* dense_search compares the vector with those of its own fingerprint;     *)
(* with nothing pending, on PostgreSQL, these are all in the scope.        *)
LEMMA DenseStep == QueryInv /\ Dense => QueryInv'
<1> SUFFICES ASSUME QueryInv, Dense PROVE QueryInv'
  OBVIOUS
<1> DEFINE V == View(session)
           C == Compatible(session, V)
           near == {[vault |-> v, n |-> V[v].n, by |-> <<V[v].cfg, V[v].width>>] : v \in C}
           cause == IF C = {} THEN "no_compatible_vectors" ELSE session.degraded
           s == [session EXCEPT !.at = "hydrate", !.dense = near, !.degraded = cause]
<1>1. /\ session.at = "dense" /\ session \in Sessions /\ IsFiniteSet(session.widths)
      /\ "hydrate" \in Stages
  BY DEF Dense, QueryInv, QueryTypeOK, Stages
<1>2. Continues(s)
  BY DEF Dense
<1>3. V \in Indexes
  BY ViewWell DEF QueryInv
<1>4. /\ session.vector = session.observed /\ session.vector # None
      /\ session.vector \in Fingerprints /\ session.unavailable = None
  BY <1>1 DEF QueryInv, VectorJudged, Sessions
<1>5. \A v \in C : v \in Vaults /\ V[v] # None /\ <<V[v].cfg, V[v].width>> = session.vector
  BY <1>4 DEF Compatible, Ready, Present
<1>6. \A v \in C : V[v].n \in Nat
  BY <1>3, <1>5 DEF Indexes, Publication
<1>7. near \in SUBSET [vault : Vaults, n : Nat, by : Fingerprints]
  BY <1>4, <1>5, <1>6
<1>8. \A d \in near : V[d.vault] # None /\ d.n = V[d.vault].n /\ d.by = session.vector
  BY <1>5
<1>9. backend = "postgres" => V = session.pinned
  BY <1>1, ViewPinned
<1>10. ASSUME backend = "postgres", session.coverage = None, NEW v \in session.scope
       PROVE  \E d \in near : d.vault = v
  <2>1. v \in Vaults /\ session.pinned[v] # None
    BY <1>1, <1>10 DEF QueryInv, Pinned, Sessions, Resolves, Present
  <2>2. session.pinned[v].state = "ready"
        /\ <<session.pinned[v].cfg, session.pinned[v].width>> = session.observed
    BY <1>1, <1>4, <1>10, <2>1 DEF QueryInv, JudgedFairly, Judged, Asked
  <2>3. session.pinned[v].width = session.vector[2]
    BY <1>4, <2>2
  <2>4. v \in C
    BY <1>9, <1>10, <2>1, <2>2, <2>3 DEF Compatible, Ready, Present
  <2>5. [vault |-> v, n |-> V[v].n, by |-> <<V[v].cfg, V[v].width>>] \in near
    BY <2>4
  <2> QED  BY <2>5
<1>11. cause \in Degradations \cup {None}
  BY <1>1 DEF Sessions, Degradations
<1> HIDE DEF V, C, near, cause
<1>12. s \in Sessions
  BY <1>1, <1>7, <1>11, FieldSet, Zenon
<1>13. /\ s.at = "hydrate" /\ s.dense = near /\ s.mode = session.mode
       /\ s.pinned = session.pinned /\ s.localOnly = session.localOnly
       /\ s.widths = session.widths /\ s.observed = session.observed
       /\ s.unavailable = session.unavailable /\ s.coverage = session.coverage
       /\ s.vector = session.vector /\ s.ranked = session.ranked /\ s.scope = session.scope
  BY <1>1 DEF Sessions
<1> HIDE DEF s
<1>14. session' = s /\ UNCHANGED <<backend, own, index>>
  BY <1>2 DEF Continues
<1>15. Pinned' /\ Summarised' /\ JudgedFairly' /\ Reading'
  BY <1>1, <1>13, <1>14, JudgementKept DEF Judged, Asked
<1>16. VectorJudged'
  BY <1>4, <1>13, <1>14 DEF VectorJudged, Asked
<1>17. CandidatesHeld'
  BY <1>8, <1>9, <1>10, <1>13, <1>14 DEF QueryInv, CandidatesHeld
<1>18. SessionOK'
  BY <1>1, <1>12, <1>13, <1>14, <1>15, <1>16, <1>17 DEF SessionOK, SessionInv
<1> QED  BY <1>2, <1>18, ContinuesStep

(* A request that is answered leaves the rest of the state alone.          *)
LEMMA AnswersStep ==
    ASSUME QueryInv, NEW a, Answers(a), answer'.hits \in SUBSET Candidates,
           AnswersTrue', DenseHonest'
    PROVE  QueryInv'
<1>1. session' = Idle /\ UNCHANGED <<backend, own, index, published, disk>>
  BY DEF Answers
<1>2. SessionOK'
  BY <1>1, Rests
<1>3. QueryTypeOK' /\ IndexWell'
  BY <1>1, <1>2 DEF QueryInv, QueryTypeOK, IndexWell, WellPublished, SessionOK
<1> QED  BY <1>2, <1>3 DEF QueryInv, SessionOK, SessionInv

LEMMA HydrateStep == QueryInv /\ Hydrate => QueryInv'
<1> SUFFICES ASSUME QueryInv, Hydrate PROVE QueryInv'
  OBVIOUS
<1> DEFINE V == View(session)
           wanted == Ids(session.ranked) \cup Ids(session.dense)
           hits == Found(V, wanted \cap Present(V))
           cause == IF /\ session.mode # "lexical" /\ session.coverage # None
                       /\ session.degraded \in {None, "no_compatible_vectors"}
                    THEN session.coverage ELSE session.degraded
           a == [NoAnswer EXCEPT !.kind = "search", !.hits = hits, !.ranked = session.ranked,
                                 !.dense = session.dense, !.degraded = cause]
<1>1. Answers(a) /\ session.at = "hydrate" /\ session \in Sessions
  BY DEF Hydrate, QueryInv, QueryTypeOK
<1>2. V \in Indexes
  BY ViewWell DEF QueryInv
<1>3. hits \in SUBSET Candidates
  BY <1>2, FoundHeld
<1>4. \A h \in hits : h.n = V[h.vault].n
  BY <1>2, FoundHeld
<1>5. session.pinned # None => backend = "postgres" /\ V = session.pinned
  BY <1>1 DEF QueryInv, QueryTypeOK, Pinned, View
<1>6. ASSUME session.pinned # None, NEW r \in session.ranked \cup session.dense
      PROVE  [vault |-> r.vault, n |-> r.n] \in hits
  <2>1. r.vault \in Vaults /\ r.vault \in wanted
    BY <1>1 DEF Sessions, Candidates, Ids
  <2>2. V[r.vault] # None /\ r.n = V[r.vault].n
    BY <1>5, <1>6 DEF QueryInv, CandidatesHeld
  <2>3. [vault |-> r.vault, n |-> V[r.vault].n] \in hits
    BY <2>1, <2>2 DEF Found, Present
  <2> QED  BY <2>2, <2>3
<1>7. \A r \in session.ranked : r = [vault |-> r.vault, n |-> r.n]
  BY <1>1 DEF Sessions, Candidates
<1>8. cause = None => session.degraded = None /\ (session.mode # "lexical" =>
                                                     session.coverage = None)
  OBVIOUS
<1> HIDE DEF V, wanted, hits, cause
<1>9. /\ answer'.kind = "search" /\ answer'.hits = hits /\ answer'.ranked = session.ranked
      /\ answer'.dense = session.dense /\ answer'.degraded = cause
      /\ answer'.mode = session.mode /\ answer'.scope = session.scope
      /\ answer'.vector = session.vector /\ answer'.revisions = session.pinned
      /\ UNCHANGED own
  BY <1>1 DEF Answers, NoAnswer
<1>10. AnswersTrue'
  BY <1>4, <1>5, <1>6, <1>7, <1>9 DEF AnswersTrue
<1>11. DenseHonest'
  <2>1. \A d \in session.dense : d.by = session.vector
    BY DEF QueryInv, CandidatesHeld
  <2>2. ASSUME session.pinned # None, session.vector # None, own \in Remote, NEW v \in Vaults
        PROVE  ~ session.pinned[v].localOnly
    <3>1. ~ session.localOnly
      BY <1>1, <2>2 DEF QueryInv, VectorJudged, JudgedFairly, Judged, Asked
    <3> QED  BY <1>1, <1>5, <2>2, <3>1 DEF QueryInv, Pinned, LocalOnly
  <2>3. ASSUME session.pinned # None, session.mode # "lexical", cause = None,
               NEW v \in session.scope
        PROVE  \E d \in session.dense : d.vault = v
    BY <1>1, <1>5, <1>8, <2>3 DEF QueryInv, CandidatesHeld
  <2> QED  BY <1>9, <2>1, <2>2, <2>3 DEF DenseHonest
<1> QED  BY <1>1, <1>3, <1>9, <1>10, <1>11, AnswersStep

LEMMA LoadStep == QueryInv /\ Load => QueryInv'
<1> SUFFICES ASSUME QueryInv, Load PROVE QueryInv'
  OBVIOUS
<1>1. CASE Continues(Idle)
  BY <1>1, Rests, ContinuesStep DEF Continues
<1>2. CASE /\ Verified(session)
           /\ Answers([NoAnswer EXCEPT !.kind = "read", !.hash = session.hash,
                                       !.bytes = Bytes(session)])
  <2> DEFINE bytes == Bytes(session)
             a == [NoAnswer EXCEPT !.kind = "read", !.hash = session.hash, !.bytes = bytes]
  <2>1. Answers(a) /\ session.at = "load"
    BY <1>2 DEF Load
  <2>2. bytes = session.hash /\ session.expected \in {None, bytes}
    BY <1>2 DEF Verified
  <2>3. session.pinned # None => bytes = session.pinned[session.vault].n
    BY <2>1 DEF QueryInv, QueryTypeOK, Pinned, Bytes
  <2> HIDE DEF bytes
  <2>4. /\ answer'.kind = "read" /\ answer'.hash = session.hash /\ answer'.bytes = bytes
        /\ answer'.expected = session.expected /\ answer'.vault = session.vault
        /\ answer'.revisions = session.pinned /\ answer'.hits = {}
    BY <2>1 DEF Answers, NoAnswer
  <2>5. AnswersTrue' /\ DenseHonest'
    BY <2>2, <2>3, <2>4 DEF AnswersTrue, DenseHonest
  <2> QED  BY <2>1, <2>4, <2>5, AnswersStep
<1> QED  BY <1>1, <1>2 DEF Load

(***************************************************************************)
(* The theorems.                                                           *)
(***************************************************************************)
LEMMA QueryInvInit == QueryInit => QueryInv
<1> SUFFICES ASSUME QueryInit PROVE QueryInv
  OBVIOUS
<1>1. QueryTypeOK /\ IndexWell
  BY InitType
<1>2. session = Idle /\ answer = NoAnswer
  BY DEF QueryInit
<1>3. SessionInv
  BY <1>2 DEF SessionInv, Pinned, Summarised, JudgedFairly, VectorJudged, CandidatesHeld,
              Reading, Idle, Judged, Asked
<1>4. AnswersTrue /\ DenseHonest
  BY <1>2 DEF AnswersTrue, DenseHonest, NoAnswer
<1> QED  BY <1>1, <1>3, <1>4 DEF QueryInv, SessionInv

LEMMA QueryInvNext == QueryInv /\ [QueryNext]_queryVars => QueryInv'
<1> SUFFICES ASSUME QueryInv, [QueryNext]_queryVars PROVE QueryInv'
  OBVIOUS
<1>1. ASSUME NEW v \in Vaults, Publish(v) PROVE QueryInv'
  BY <1>1, PublishStep
<1>2. ASSUME NEW v \in Vaults, Edit(v) PROVE QueryInv'
  BY <1>2, EditStep
<1>3. ASSUME NEW R \in SUBSET Vaults, Rebuild(R) PROVE QueryInv'
  BY <1>3, RebuildStep
<1>4. CASE OpenSearch \/ Summarise \/ Observe \/ NotAsked \/ Ask
  BY <1>4, OpenSearchStep, SummariseStep, ObserveStep, NotAskedStep, AskStep
<1>5. CASE Match \/ Scope \/ Dense \/ Hydrate
  BY <1>5, MatchStep, ScopeStep, DenseStep, HydrateStep
<1>6. CASE OpenRead \/ Look \/ Load \/ Fails
  BY <1>6, OpenReadStep, LookStep, LoadStep, FailsStep
<1>7. CASE UNCHANGED queryVars
  BY <1>7 DEF queryVars, QueryInv, QueryTypeOK, IndexWell, WellPublished, Pinned, Summarised,
              View, JudgedFairly, VectorJudged, CandidatesHeld, Reading, AnswersTrue, DenseHonest
<1> QED  BY <1>1, <1>2, <1>3, <1>4, <1>5, <1>6, <1>7 DEF QueryNext

LEMMA QueryInvAlways == QuerySpec => []QueryInv
<1> QED  BY QueryInvInit, QueryInvNext, PTL DEF QuerySpec

(* What a search or a read on PostgreSQL returns is what the revisions it  *)
(* names hold, and what read returns on either store has the hash its      *)
(* caller and the index expect, whatever indexers and users do meanwhile   *)
(* (request_session, _search, read).                                       *)
THEOREM QueryAnswersTrue == QuerySpec => []AnswersTrue
<1>1. QueryInv => AnswersTrue
  BY DEF QueryInv
<1> QED  BY <1>1, QueryInvAlways, PTL

(* The vector of a query is compared with vectors of its own configuration *)
(* and width only; on PostgreSQL no query of a profile with a local-only   *)
(* vault goes to a remote endpoint, and an answer that is not degraded has *)
(* ranked every chunk in its scope (_prepare_dense_query, dense_search).   *)
THEOREM QueryDenseHonest == QuerySpec => []DenseHonest
<1>1. QueryInv => DenseHonest
  BY DEF QueryInv
<1> QED  BY <1>1, QueryInvAlways, PTL

----------------------------------------------------------------------------
(***************************************************************************)
(* Embedding.  Vectors come without the indexes of their inputs once their *)
(* batch is done; what makes them find back is that batches are planned    *)
(* and asked for in the order of the inputs, so that the vectors received  *)
(* are always those of the inputs before all that still wait, failures     *)
(* left out.                                                               *)
(***************************************************************************)

ProvidedVectors == [of : Texts, width : Widths]

EmbedTypeOK ==
    /\ todo \in Seq(Seq(Texts))
    /\ usable \in BOOLEAN
    /\ configured \in Widths \cup {Absent}
    /\ stored \in [Texts -> Widths \cup {Absent}]
    /\ reusable \in [Texts -> ProvidedVectors \cup {Absent}]
    /\ failed \in SUBSET Texts
    /\ phase \in {"reuse", "plan", "request", "align", "clone"}
    /\ inputs \in Seq(Texts)
    /\ planned \in Nat /\ filling \in Seq(Nat) /\ load \in Nat
    /\ batches \in Seq(Seq(Nat))
    /\ attempt \in 1..MaxAttempts
    /\ vectors \in Seq(ProvidedVectors)
    /\ failures \in SUBSET DOMAIN inputs
    /\ width \in Widths \cup {Absent}
    /\ done \in Seq(Seq([text : Texts, vector : ProvidedVectors \cup {Absent}]))
    /\ asked \in [Texts -> Nat]

(* A vector is the one of a text if it was computed for it, at the width   *)
(* that is configured.                                                     *)
AsConfigured(w) == configured # Absent => w = configured
Rightful(v, t) == v # Absent => v.of = t /\ AsConfigured(v.width)

VectorsRight ==
    /\ \A t \in Texts : stored[t] # Absent => AsConfigured(stored[t])
    /\ \A t \in Texts : Rightful(reusable[t], t)
    /\ \A k \in DOMAIN done : \A i \in DOMAIN done[k] : Rightful(done[k][i].vector, done[k][i].text)

(* All vectors of one call have the width of the result, which is taken    *)
(* from the configuration before the first answer.                         *)
OneWidth ==
    /\ \A n \in DOMAIN vectors : vectors[n].width = width
    /\ phase = "plan" \/ batches # <<>> \/ vectors # <<>> => AsConfigured(width)

(* One input stands for all chunks that have its text.                     *)
Distinct == \A m, n \in DOMAIN inputs : inputs[m] = inputs[n] => m = n

(* A text that was asked for is not missing any more once the call is      *)
(* over: it has a vector or failed, so that it is not asked for again.     *)
AskedOnce ==
    /\ \A i \in DOMAIN inputs : stored[inputs[i]] = Absent
    /\ phase = "plan" => \A i \in DOMAIN inputs : asked[inputs[i]] = 0
    /\ \A t \in Texts :
         /\ asked[t] <= IF stored[t] = Absent THEN 1 ELSE 0
         /\ asked[t] > 0 =>
              \/ reusable[t] # Absent
              \/ t \in failed
              \/ phase \in {"request", "align"} /\ t \in Range(inputs)

(* The inputs that still wait for an answer, batch after batch.            *)
Waiting == UNION {Range(b) : b \in Range(batches)}
InOrder(s) == \A m, n \in DOMAIN s : m < n => s[m] < s[n]
BatchesInOrder ==
    /\ \A m \in DOMAIN batches : batches[m] # <<>> /\ InOrder(batches[m])
    /\ \A m, n \in DOMAIN batches : m < n =>
         \A x \in Range(batches[m]), y \in Range(batches[n]) : x < y
    /\ Waiting \cap failures = {}
    /\ Waiting \subseteq DOMAIN inputs

(* While batches are planned, every input looked at waits, or is in the    *)
(* open batch, or is too large.                                            *)
NoPlan == planned = 0 /\ filling = <<>>

Planning ==
    /\ planned <= Len(inputs)
    /\ vectors = <<>>
    /\ Waiting \cup Range(filling) \cup failures = 1..planned
    /\ failures \cap Range(filling) = {}
    /\ InOrder(filling)
    /\ \A x \in Waiting, y \in Range(filling) : x < y

(* The inputs that were answered come before those that wait; there are as *)
(* many vectors, and the place of an input among those without a failure   *)
(* is that of its vector.                                                  *)
Heard == DOMAIN inputs \ (failures \cup Waiting)
MatchedSoFar ==
    /\ NoPlan
    /\ \A i \in Heard, j \in Waiting : i < j
    /\ Len(vectors) = Cardinality(Heard)
    /\ \A i \in Heard : /\ Cardinality({j \in 1..i : j \notin failures}) \in DOMAIN vectors
                        /\ VectorFor(i).of = inputs[i]

PhasesOK ==
    /\ phase = "plan" => Planning
    /\ phase \in {"request", "align"} => MatchedSoFar
    /\ phase \in {"align", "clone", "reuse"} => batches = <<>> /\ NoPlan
    /\ phase # "reuse" => todo # <<>>
    /\ phase = "reuse" => inputs = <<>> /\ vectors = <<>> /\ failures = {}

EmbedInv ==
    EmbedTypeOK /\ VectorsRight /\ OneWidth /\ Distinct /\ AskedOnce /\ BatchesInOrder /\ PhasesOK

----------------------------------------------------------------------------
(* What a sequence names is a finite set.                                  *)
LEMMA RangeFinite ==
    ASSUME NEW S, NEW s \in Seq(S)
    PROVE  IsFiniteSet(Range(s)) /\ Range(s) \subseteq S
<1>1. Len(s) \in Nat /\ DOMAIN s = 1..Len(s) /\ \A i \in 1..Len(s) : s[i] \in S
  OBVIOUS
<1>2. IsFiniteSet(DOMAIN s)
  BY <1>1, FS_Interval
<1>3. [i \in DOMAIN s |-> s[i]] \in Surjection(DOMAIN s, Range(s))
  BY DEF Surjection, Range
<1>. QED  BY <1>1, <1>2, <1>3, FS_Surjection DEF Range

(* The first n members of a sequence in ascending order are n.             *)
LEMMA FirstMembers ==
    ASSUME NEW s \in Seq(Nat), InOrder(s), NEW n \in 0..Len(s)
    PROVE  /\ IsFiniteSet({s[m] : m \in 1..n})
           /\ Cardinality({s[m] : m \in 1..n}) = n
<1> DEFINE T == {s[m] : m \in 1..n}
           f == [m \in 1..n |-> s[m]]
<1>1. Len(s) \in Nat /\ 1..n \subseteq DOMAIN s /\ \A m \in 1..n : s[m] \in Nat
  OBVIOUS
<1>2. \A k, m \in 1..n : k # m => s[k] # s[m]
  BY <1>1 DEF InOrder
<1>3. f \in Bijection(1..n, T)
  <2>1. f \in [1..n -> T]
    OBVIOUS
  <2>2. \A a, b \in 1..n : f[a] = f[b] => a = b
    BY <1>2
  <2>3. \A t \in T : \E a \in 1..n : f[a] = t
    OBVIOUS
  <2>. QED  BY <2>1, <2>2, <2>3 DEF Bijection, Injection, IsInjective, Surjection
<1>4. IsFiniteSet(1..n) /\ Cardinality(1..n) = n
  BY FS_Interval
<1>5. ExistsBijection(1..n, T)
  BY <1>3 DEF ExistsBijection
<1>6. IsFiniteSet(T) /\ Cardinality(T) = n
  <2> HIDE DEF T
  <2>. QED  BY <1>4, <1>5, FS_Bijection
<1>. QED  BY <1>6

(* Valid answers, sorted by their indexes, are the vectors of the inputs   *)
(* of the batch: as many indexes as inputs, none twice, are all of them.   *)
LEMMA AnswersOfBatch ==
    ASSUME EmbedTypeOK, NEW batch \in Seq(Nat), batch # <<>>, Range(batch) \subseteq DOMAIN inputs,
           NEW r \in Responses(batch), Valid(r, batch)
    PROVE  /\ ByIndex(r) \in Seq(ProvidedVectors) /\ Len(ByIndex(r)) = Len(batch)
           /\ \A n \in DOMAIN batch : /\ ByIndex(r)[n].of = inputs[batch[n]]
                                      /\ ByIndex(r)[n].width = r[1].vector.width
           /\ r[1].vector.width \in Widths
           /\ width # Absent => r[1].vector.width = width
<1> DEFINE D == DOMAIN batch
           Items == {[index |-> n, vector |-> [of |-> inputs[batch[n]], width |-> w]] :
                        n \in D, w \in Widths}
<1>1. Len(batch) \in Nat \ {0} /\ D = 1..Len(batch) /\ \A n \in D : batch[n] \in DOMAIN inputs
  BY DEF Range
<1>2. r \in [D -> Items]
  <2>1. r \in [D -> Items] \cup {<<>>}
    BY DEF Responses
  <2>2. r # <<>>
    BY <1>1 DEF Valid
  <2>. QED  BY <2>1, <2>2
<1>3. \A i \in D : /\ r[i].index \in D
                   /\ r[i].vector.of = inputs[batch[r[i].index]]
                   /\ r[i].vector.width \in Widths
                   /\ r[i].vector \in ProvidedVectors
  <2> SUFFICES ASSUME NEW i \in D
               PROVE  /\ r[i].index \in D
                      /\ r[i].vector.of = inputs[batch[r[i].index]]
                      /\ r[i].vector.width \in Widths
                      /\ r[i].vector \in ProvidedVectors
    OBVIOUS
  <2>1. PICK n \in D, w \in Widths :
          r[i] = [index |-> n, vector |-> [of |-> inputs[batch[n]], width |-> w]]
    BY <1>2
  <2>2. inputs[batch[n]] \in Texts
    BY <1>1 DEF EmbedTypeOK
  <2>. QED  BY <2>1, <2>2 DEF ProvidedVectors
<1> HIDE DEF Items
<1>4. DOMAIN r = D
  BY <1>2
<1>5. \A n \in D : \E i \in D : r[i].index = n
  <2> DEFINE f == [i \in D |-> r[i].index]
  <2>1. f \in Injection(D, D)
    BY <1>3, <1>4 DEF Valid, Injection, IsInjective
  <2>2. IsFiniteSet(D)
    BY <1>1, FS_Interval
  <2>3. f \in Surjection(D, D)
    <3> HIDE DEF f
    <3>. QED  BY <2>1, <2>2, FS_Injection
  <2>. QED  BY <2>3 DEF Surjection
<1>6. \A n \in D : ByIndex(r)[n] \in ProvidedVectors /\ ByIndex(r)[n].of = inputs[batch[n]]
                   /\ ByIndex(r)[n].width = r[1].vector.width
  <2> SUFFICES ASSUME NEW n \in D
               PROVE  /\ ByIndex(r)[n] \in ProvidedVectors
                      /\ ByIndex(r)[n].of = inputs[batch[n]]
                      /\ ByIndex(r)[n].width = r[1].vector.width
    OBVIOUS
  <2> DEFINE item == CHOOSE x \in Range(r) : x.index = n
  <2>1. \E x \in Range(r) : x.index = n
    BY <1>4, <1>5 DEF Range
  <2>2. item \in Range(r) /\ item.index = n
    BY <2>1
  <2>3. PICK i \in D : item = r[i]
    BY <2>2, <1>4 DEF Range
  <2>4. ByIndex(r)[n] = item.vector
    BY <1>4 DEF ByIndex
  <2> HIDE DEF item
  <2>5. r[i].vector.width = r[1].vector.width
    BY <1>1, <1>4 DEF Valid
  <2>. QED  BY <1>3, <2>2, <2>3, <2>4, <2>5
<1>7. ByIndex(r) \in Seq(ProvidedVectors) /\ Len(ByIndex(r)) = Len(batch)
  <2>1. ByIndex(r) = [n \in 1..Len(batch) |-> ByIndex(r)[n]]
    BY <1>1, <1>4 DEF ByIndex
  <2>. QED  BY <1>1, <1>6, <2>1
<1>. QED  BY <1>1, <1>3, <1>4, <1>6, <1>7 DEF Valid

----------------------------------------------------------------------------
(* A run that has not begun satisfies the invariant.                       *)
LEMMA InitEmbedInv == EmbedInit => EmbedInv
<1> SUFFICES ASSUME EmbedInit PROVE EmbedInv
  OBVIOUS
<1> USE EmbeddingAssumption DEF EmbedInit
<1>1. EmbedTypeOK
  BY DEF EmbedTypeOK, ProvidedVectors
<1>2. VectorsRight
  BY DEF VectorsRight, Rightful, AsConfigured
<1>3. OneWidth /\ Distinct /\ AskedOnce
  BY DEF OneWidth, Distinct, AskedOnce
<1>4. Waiting = {}
  BY DEF Waiting, Range
<1>5. BatchesInOrder /\ PhasesOK
  BY <1>4 DEF BatchesInOrder, PhasesOK, NoPlan
<1>. QED  BY <1>1, <1>2, <1>3, <1>5 DEF EmbedInv

(* Looking for vectors that are there already keeps the invariant.         *)
LEMMA ReuseStep == ASSUME EmbedInv, Reuse PROVE EmbedInv'
<1> USE EmbeddingAssumption
<1> DEFINE chunks == Head(todo)
           found == {t \in Unresolved(chunks) : stored[t] # Absent}
           missing == Unresolved(chunks) \ found
<1>1. /\ EmbedTypeOK /\ VectorsRight /\ OneWidth /\ AskedOnce /\ PhasesOK
      /\ phase = "reuse" /\ todo # <<>> /\ batches = <<>> /\ NoPlan /\ vectors = <<>>
  BY DEF EmbedInv, Reuse, PhasesOK
<1>2. UNCHANGED <<todo, usable, configured, stored, failed, planned, filling, load, batches,
                  attempt, vectors, done, asked>>
  BY DEF Reuse
<1>3. chunks \in Seq(Texts)
  BY <1>1 DEF EmbedTypeOK
<1>4. IsFiniteSet(Range(chunks)) /\ Range(chunks) \subseteq Texts
  BY <1>3, RangeFinite
<1>5. missing \subseteq Texts /\ Cardinality(missing) \in Nat
  <2>1. missing \subseteq Range(chunks)
    BY DEF Unresolved
  <2>. QED  BY <1>4, <2>1, FS_Subset, FS_CardinalityType
<1>6. \A t \in missing : reusable[t] = Absent /\ t \notin failed /\ stored[t] = Absent
  BY DEF Unresolved
<1>7. /\ inputs' \in [1..Cardinality(missing) -> missing]
      /\ \A m, n \in DOMAIN inputs' : m < n => Before(chunks, inputs'[m], inputs'[n])
      /\ reusable' = [t \in Texts |-> IF t \in found THEN [of |-> t, width |-> stored[t]]
                                      ELSE reusable[t]]
      /\ phase' = IF usable /\ inputs' # <<>> THEN "plan" ELSE "request"
      /\ failures' = IF usable THEN {} ELSE DOMAIN inputs'
      /\ width' = IF usable /\ inputs' # <<>> THEN configured ELSE Absent
  BY DEF Reuse
<1> HIDE DEF missing
<1>8. inputs' \in Seq(Texts) /\ DOMAIN inputs' = 1..Len(inputs') /\ Len(inputs') \in Nat
      /\ \A i \in DOMAIN inputs' : inputs'[i] \in missing
  BY <1>5, <1>7
<1>9. EmbedTypeOK'
  <2>1. reusable' \in [Texts -> ProvidedVectors \cup {Absent}]
    BY <1>1, <1>7 DEF EmbedTypeOK, ProvidedVectors
  <2>. QED  BY <1>1, <1>2, <1>7, <1>8, <2>1 DEF EmbedTypeOK
<1>10. VectorsRight'
  BY <1>1, <1>2, <1>7 DEF VectorsRight, Rightful, AsConfigured, EmbedTypeOK
<1>11. OneWidth'
  BY <1>1, <1>2, <1>7 DEF OneWidth, AsConfigured
<1>12. Distinct'
  <2> SUFFICES ASSUME NEW m \in DOMAIN inputs', NEW n \in DOMAIN inputs', m < n
               PROVE  inputs'[m] # inputs'[n]
    BY <1>8 DEF Distinct
  <2>1. PICK i \in DOMAIN chunks :
          chunks[i] = inputs'[m] /\ \A j \in 1..i : chunks[j] # inputs'[n]
    BY <1>7 DEF Before
  <2>2. i \in 1..i
    BY <1>3
  <2>. QED  BY <2>1, <2>2
<1>13. AskedOnce'
  <2>1. \A t \in missing : asked[t] = 0
    BY <1>1, <1>5, <1>6 DEF AskedOnce, EmbedTypeOK
  <2>2. \A t \in Texts : reusable[t] # Absent => reusable'[t] # Absent
    BY <1>7, <1>1 DEF EmbedTypeOK, Unresolved
  <2>3. \A t \in Texts : asked'[t] > 0 => reusable'[t] # Absent \/ t \in failed'
    BY <1>1, <1>2, <2>2 DEF AskedOnce
  <2>4. \A i \in DOMAIN inputs' : stored'[inputs'[i]] = Absent /\ asked'[inputs'[i]] = 0
    BY <1>2, <1>6, <1>8, <2>1
  <2>5. \A t \in Texts : asked'[t] <= IF stored'[t] = Absent THEN 1 ELSE 0
    BY <1>1, <1>2 DEF AskedOnce
  <2>. QED  BY <2>3, <2>4, <2>5 DEF AskedOnce
<1>14. Waiting' = {}
  BY <1>1, <1>2 DEF Waiting, Range
<1>15. BatchesInOrder'
  BY <1>1, <1>2, <1>14 DEF BatchesInOrder
<1>16. PhasesOK'
  <2>1. CASE phase' = "plan"
    <3>1. failures' = {} /\ filling' = <<>> /\ planned' = 0 /\ vectors' = <<>>
      BY <1>1, <1>2, <1>7, <2>1 DEF NoPlan
    <3>2. Range(filling') = {} /\ 1..planned' = {} /\ InOrder(filling')
      BY <3>1 DEF Range, InOrder
    <3>. QED  BY <1>1, <1>2, <1>8, <1>14, <2>1, <3>1, <3>2 DEF PhasesOK, Planning
  <2>2. CASE phase' = "request"
    <3>1. failures' = DOMAIN inputs'
      BY <1>7, <1>8, <2>2
    <3>2. Heard' = {}
      BY <3>1 DEF Heard
    <3>3. Cardinality(Heard') = 0
      BY <3>2, FS_EmptySet
    <3>. QED  BY <1>1, <1>2, <1>14, <2>2, <3>2, <3>3 DEF PhasesOK, MatchedSoFar, NoPlan
  <2>. QED  BY <1>7, <2>1, <2>2
<1>. QED  BY <1>9, <1>10, <1>11, <1>12, <1>13, <1>15, <1>16 DEF EmbedInv

(* One more at the end of a sequence.                                      *)
LEMMA RangeAppend ==
    ASSUME NEW S, NEW s \in Seq(S), NEW x \in S
    PROVE  Range(Append(s, x)) = Range(s) \cup {x}
<1>1. /\ DOMAIN s = 1..Len(s) /\ Len(s) \in Nat
      /\ DOMAIN Append(s, x) = 1..(Len(s) + 1)
      /\ Append(s, x)[Len(s) + 1] = x
      /\ \A i \in 1..Len(s) : Append(s, x)[i] = s[i]
  OBVIOUS
<1>2. 1..(Len(s) + 1) = 1..Len(s) \cup {Len(s) + 1}
  BY <1>1
<1>. QED  BY <1>1, <1>2 DEF Range

(* A batch that begins after all that wait keeps the batches in order.     *)
LEMMA BatchAppended ==
    ASSUME EmbedTypeOK, BatchesInOrder, NEW b \in Seq(Nat), b # <<>>, InOrder(b),
           Range(b) \subseteq DOMAIN inputs, Range(b) \cap failures = {},
           \A x \in Waiting, y \in Range(b) : x < y,
           batches' = Append(batches, b), UNCHANGED <<inputs, failures>>
    PROVE  BatchesInOrder' /\ Waiting' = Waiting \cup Range(b)
<1>1. /\ Len(batches) \in Nat /\ DOMAIN batches = 1..Len(batches)
      /\ DOMAIN batches' = 1..(Len(batches) + 1)
      /\ \A m \in 1..Len(batches) : batches'[m] = batches[m]
      /\ batches'[Len(batches) + 1] = b
  BY DEF EmbedTypeOK
<1>2. Range(batches') = Range(batches) \cup {b}
  BY RangeAppend DEF EmbedTypeOK
<1>3. Waiting' = Waiting \cup Range(b)
  BY <1>2 DEF Waiting
<1>4. \A m \in DOMAIN batches : Range(batches[m]) \subseteq Waiting
  BY DEF Waiting, Range
<1>5. \A m \in DOMAIN batches' : batches'[m] # <<>> /\ InOrder(batches'[m])
  BY <1>1 DEF BatchesInOrder
<1>6. ASSUME NEW m \in DOMAIN batches', NEW n \in DOMAIN batches', m < n,
             NEW x \in Range(batches'[m]), NEW y \in Range(batches'[n])
      PROVE  x < y
  <2>1. m \in DOMAIN batches /\ batches'[m] = batches[m]
    BY <1>1, <1>6
  <2>2. CASE n = Len(batches) + 1
    BY <1>1, <1>4, <1>6, <2>1, <2>2
  <2>3. CASE n \in DOMAIN batches
    BY <1>1, <1>6, <2>1, <2>3 DEF BatchesInOrder
  <2>. QED  BY <1>1, <1>6, <2>2, <2>3
<1>. QED  BY <1>3, <1>5, <1>6 DEF BatchesInOrder

(* The first batch comes before all others.                                *)
LEMMA BatchTaken ==
    ASSUME EmbedTypeOK, BatchesInOrder, batches # <<>>, batches' = Tail(batches)
    PROVE  /\ Head(batches) \in Seq(Nat) /\ Head(batches) # <<>> /\ InOrder(Head(batches))
           /\ Waiting = Range(Head(batches)) \cup Waiting'
           /\ \A x \in Range(Head(batches)), y \in Waiting' : x < y
           /\ \A m \in DOMAIN batches' : batches'[m] # <<>> /\ InOrder(batches'[m])
           /\ \A m, n \in DOMAIN batches' : m < n =>
                \A x \in Range(batches'[m]), y \in Range(batches'[n]) : x < y
<1>1. /\ Len(batches) \in Nat \ {0} /\ DOMAIN batches = 1..Len(batches)
      /\ DOMAIN batches' = 1..(Len(batches) - 1)
      /\ \A m \in 1..(Len(batches) - 1) : batches'[m] = batches[m + 1]
      /\ Head(batches) = batches[1] /\ batches[1] \in Seq(Nat)
  BY DEF EmbedTypeOK
<1>2. \A m \in DOMAIN batches' : m + 1 \in DOMAIN batches /\ batches'[m] = batches[m + 1]
  BY <1>1
<1>3. \A m \in DOMAIN batches : m # 1 => m - 1 \in DOMAIN batches' /\ batches[m] = batches'[m - 1]
  BY <1>1
<1>4. Range(batches) = {Head(batches)} \cup Range(batches')
  <2>1. 1 \in DOMAIN batches
    BY <1>1
  <2>2. \A b \in Range(batches) : b = Head(batches) \/ b \in Range(batches')
    BY <1>1, <1>3 DEF Range
  <2>3. \A b \in Range(batches') : b \in Range(batches)
    BY <1>2 DEF Range
  <2>4. Head(batches) \in Range(batches)
    BY <1>1, <2>1 DEF Range
  <2>. QED  BY <2>2, <2>3, <2>4
<1>5. Waiting = Range(Head(batches)) \cup Waiting'
  BY <1>4 DEF Waiting
<1>6. \A m \in DOMAIN batches' : batches'[m] # <<>> /\ InOrder(batches'[m])
  BY <1>2 DEF BatchesInOrder
<1>7. ASSUME NEW m \in DOMAIN batches', NEW n \in DOMAIN batches', m < n,
             NEW x \in Range(batches'[m]), NEW y \in Range(batches'[n])
      PROVE  x < y
  <2>1. m + 1 < n + 1
    BY <1>1, <1>7
  <2>. QED  BY <1>2, <1>7, <2>1 DEF BatchesInOrder
<1>8. ASSUME NEW x \in Range(Head(batches)), NEW y \in Waiting' PROVE x < y
  <2>1. PICK n \in DOMAIN batches' : y \in Range(batches'[n])
    BY DEF Waiting, Range
  <2>2. 1 \in DOMAIN batches /\ 1 < n + 1
    BY <1>1
  <2>. QED  BY <1>1, <1>2, <1>8, <2>1, <2>2 DEF BatchesInOrder
<1>9. Head(batches) \in Seq(Nat) /\ Head(batches) # <<>> /\ InOrder(Head(batches))
  <2>1. 1 \in DOMAIN batches
    BY <1>1
  <2>. QED  BY <1>1, <2>1 DEF BatchesInOrder
<1>. QED  BY <1>5, <1>6, <1>7, <1>8, <1>9

(* One round of the planning keeps the invariant.                          *)
LEMMA PlaceStep == ASSUME EmbedInv, Place PROVE EmbedInv'
<1> USE EmbeddingAssumption
<1> DEFINE i == planned + 1
<1>1. /\ EmbedTypeOK /\ VectorsRight /\ OneWidth /\ Distinct /\ AskedOnce /\ BatchesInOrder
      /\ Planning /\ todo # <<>> /\ phase = "plan" /\ planned < Len(inputs)
  BY DEF EmbedInv, Place, PhasesOK
<1>2. /\ UNCHANGED <<todo, usable, configured, stored, reusable, failed, phase, inputs, attempt,
                     vectors, width, done, asked>>
      /\ planned' = i
  BY DEF Place
<1>3. /\ Len(inputs) \in Nat /\ DOMAIN inputs = 1..Len(inputs) /\ planned \in Nat
      /\ i \in DOMAIN inputs /\ 1..i = 1..planned \cup {i} /\ i \notin 1..planned
      /\ inputs[i] \in Texts /\ Size[inputs[i]] \in Nat
  BY <1>1 DEF EmbedTypeOK
<1>4. /\ \A x \in Waiting \cup Range(filling) : x \in 1..planned /\ x < i /\ x \in DOMAIN inputs
      /\ i \notin failures /\ failures \subseteq 1..planned
  BY <1>1, <1>3 DEF Planning
<1>5. filling \in Seq(Nat) /\ InOrder(filling)
  BY <1>1 DEF EmbedTypeOK, Planning
<1>6. VectorsRight' /\ Distinct' /\ AskedOnce'
  BY <1>1, <1>2 DEF VectorsRight, Rightful, AsConfigured, Distinct, AskedOnce
<1>7. OneWidth'
  BY <1>1, <1>2 DEF OneWidth, AsConfigured
<1>8. CASE Size[inputs[i]] > MaxTokens /\ failures' = failures \cup {i}
           /\ UNCHANGED <<filling, load, batches>>
  <2>1. EmbedTypeOK'
    BY <1>1, <1>2, <1>3, <1>8 DEF EmbedTypeOK
  <2>2. Waiting' = Waiting
    BY <1>8 DEF Waiting
  <2>3. BatchesInOrder'
    BY <1>1, <1>2, <1>4, <1>8, <2>2 DEF BatchesInOrder
  <2>4. Planning'
    BY <1>1, <1>2, <1>3, <1>4, <1>8, <2>2 DEF Planning
  <2>. QED  BY <1>1, <1>2, <1>6, <1>7, <2>1, <2>3, <2>4 DEF EmbedInv, PhasesOK
<1>9. CASE Size[inputs[i]] <= MaxTokens /\ Full(i) /\ batches' = Append(batches, filling)
           /\ filling' = <<i>> /\ load' = Size[inputs[i]] /\ UNCHANGED failures
  <2>1. EmbedTypeOK'
    <3>1. load' \in Nat /\ filling' \in Seq(Nat) /\ planned' \in Nat
      BY <1>1, <1>2, <1>3, <1>9 DEF EmbedTypeOK
    <3>2. batches' \in Seq(Seq(Nat))
      BY <1>1, <1>5, <1>9 DEF EmbedTypeOK
    <3>. QED  BY <1>1, <1>2, <1>9, <3>1, <3>2 DEF EmbedTypeOK
  <2>2. /\ filling # <<>>
        /\ Range(filling) \subseteq DOMAIN inputs /\ Range(filling) \cap failures = {}
        /\ \A x \in Waiting, y \in Range(filling) : x < y
    BY <1>1, <1>4, <1>9 DEF Full, Planning
  <2>3. BatchesInOrder' /\ Waiting' = Waiting \cup Range(filling)
    BY <1>1, <1>2, <1>5, <1>9, <2>2, BatchAppended
  <2>4. Range(filling') = {i} /\ InOrder(filling')
    BY <1>9 DEF Range, InOrder
  <2>5. Planning'
    BY <1>1, <1>2, <1>3, <1>4, <1>9, <2>3, <2>4 DEF Planning
  <2>. QED  BY <1>1, <1>2, <1>6, <1>7, <2>1, <2>3, <2>5 DEF EmbedInv, PhasesOK
<1>10. CASE Size[inputs[i]] <= MaxTokens /\ ~ Full(i) /\ filling' = Append(filling, i)
            /\ load' = load + Size[inputs[i]] /\ UNCHANGED <<failures, batches>>
  <2>1. EmbedTypeOK'
    <3>0. load \in Nat /\ i \in Nat
      BY <1>1, <1>3 DEF EmbedTypeOK
    <3>1. load' \in Nat /\ filling' \in Seq(Nat) /\ planned' \in Nat
      BY <1>2, <1>3, <1>5, <1>10, <3>0
    <3>. QED  BY <1>1, <1>2, <1>10, <3>1 DEF EmbedTypeOK
  <2>2. Waiting' = Waiting
    BY <1>10 DEF Waiting
  <2>3. BatchesInOrder'
    BY <1>1, <1>2, <1>10, <2>2 DEF BatchesInOrder
  <2>4. Range(filling') = Range(filling) \cup {i}
    <3>1. filling \in Seq(Nat) /\ i \in Nat /\ filling' = Append(filling, i)
      BY <1>1, <1>3, <1>10 DEF EmbedTypeOK
    <3> HIDE DEF i
    <3>. QED  BY <3>1, RangeAppend
  <2>5. InOrder(filling')
    <3>1. /\ Len(filling) \in Nat /\ DOMAIN filling = 1..Len(filling)
          /\ DOMAIN filling' = 1..(Len(filling) + 1) /\ filling'[Len(filling) + 1] = i
          /\ \A n \in DOMAIN filling : filling'[n] = filling[n] /\ filling[n] < i
      BY <1>3, <1>4, <1>5, <1>10 DEF Range
    <3>. QED  BY <1>5, <3>1 DEF InOrder
  <2>6. Planning'
    BY <1>1, <1>2, <1>3, <1>4, <1>10, <2>2, <2>4, <2>5 DEF Planning
  <2>. QED  BY <1>1, <1>2, <1>6, <1>7, <2>1, <2>3, <2>6 DEF EmbedInv, PhasesOK
<1>. QED  BY <1>8, <1>9, <1>10 DEF Place

(* So does the end of the planning: what was not too large waits.          *)
LEMMA PlannedStep == ASSUME EmbedInv, Planned PROVE EmbedInv'
<1> USE EmbeddingAssumption
<1>1. /\ EmbedTypeOK /\ VectorsRight /\ OneWidth /\ Distinct /\ AskedOnce /\ BatchesInOrder
      /\ Planning /\ todo # <<>> /\ phase = "plan" /\ planned = Len(inputs)
  BY DEF EmbedInv, Planned, PhasesOK
<1>2. /\ UNCHANGED <<todo, usable, configured, stored, reusable, failed, inputs, attempt,
                     vectors, failures, width, done>>
      /\ batches' = IF filling = <<>> THEN batches ELSE Append(batches, filling)
      /\ planned' = 0 /\ filling' = <<>> /\ load' = 0 /\ phase' = "request"
  BY DEF Planned
<1>3. /\ Len(inputs) \in Nat /\ DOMAIN inputs = 1..Len(inputs)
      /\ filling \in Seq(Nat) /\ InOrder(filling)
  BY <1>1 DEF EmbedTypeOK, Planning
<1>4. BatchesInOrder' /\ Waiting' = Waiting \cup Range(filling)
  <2>1. CASE filling = <<>>
    <3>1. Range(filling) = {} /\ batches' = batches
      BY <1>2, <2>1 DEF Range
    <3>. QED  BY <1>1, <1>2, <3>1 DEF BatchesInOrder, Waiting
  <2>2. CASE filling # <<>>
    <3>1. Range(filling) \subseteq DOMAIN inputs /\ Range(filling) \cap failures = {}
          /\ \A x \in Waiting, y \in Range(filling) : x < y
      BY <1>1, <1>3 DEF Planning
    <3>. QED  BY <1>1, <1>2, <1>3, <2>2, <3>1, BatchAppended
  <2>. QED  BY <2>1, <2>2
<1> DEFINE taken(t) == {i \in DOMAIN inputs :
                          inputs[i] = t /\ \E b \in Range(batches') : i \in Range(b)}
<1>5. asked' = [t \in Texts |-> asked[t] + Cardinality(taken(t))]
  BY DEF Planned
<1>6. ASSUME NEW t \in Texts
      PROVE  /\ Cardinality(taken(t)) \in {0, 1}
             /\ Cardinality(taken(t)) # 0 => t \in Range(inputs)
  <2>1. CASE taken(t) = {}
    BY <2>1, FS_EmptySet
  <2>2. CASE taken(t) # {}
    <3>1. PICK i \in DOMAIN inputs : inputs[i] = t
      BY <2>2
    <3>2. taken(t) = {i}
      BY <1>1, <2>2, <3>1 DEF Distinct
    <3>. QED  BY <3>1, <3>2, FS_Singleton DEF Range
  <2>. QED  BY <2>1, <2>2
<1> HIDE DEF taken
<1>7. AskedOnce'
  <2>1. ASSUME NEW t \in Texts
        PROVE  /\ asked'[t] <= IF stored'[t] = Absent THEN 1 ELSE 0
               /\ asked'[t] > 0 => \/ reusable'[t] # Absent
                                   \/ t \in failed'
                                   \/ t \in Range(inputs')
    <3>1. asked[t] \in Nat /\ asked'[t] = asked[t] + Cardinality(taken(t))
      BY <1>1, <1>5 DEF EmbedTypeOK
    <3>2. CASE Cardinality(taken(t)) = 0
      BY <1>1, <1>2, <3>1, <3>2 DEF AskedOnce
    <3>3. CASE Cardinality(taken(t)) = 1
      <4>1. PICK i \in DOMAIN inputs : inputs[i] = t
        BY <1>6, <3>3 DEF Range
      <4>2. asked[t] = 0 /\ stored[t] = Absent
        BY <1>1, <4>1 DEF AskedOnce
      <4>. QED  BY <1>2, <1>6, <3>1, <3>3, <4>2
    <3>. QED  BY <1>6, <3>2, <3>3
  <2>. QED  BY <1>1, <1>2, <2>1 DEF AskedOnce
<1>8. EmbedTypeOK'
  <2>1. asked' \in [Texts -> Nat]
    <3>1. \A t \in Texts : asked[t] \in Nat
      BY <1>1 DEF EmbedTypeOK
    <3>2. \A t \in Texts : Cardinality(taken(t)) \in Nat
      BY <1>6
    <3>3. \A t \in Texts : asked[t] + Cardinality(taken(t)) \in Nat
      BY <3>1, <3>2
    <3>. QED  BY <1>5, <3>3
  <2>2. batches' \in Seq(Seq(Nat))
    BY <1>1, <1>2, <1>3 DEF EmbedTypeOK
  <2>3. planned' \in Nat /\ filling' \in Seq(Nat) /\ load' \in Nat
    BY <1>2
  <2>. QED  BY <1>1, <1>2, <2>1, <2>2, <2>3 DEF EmbedTypeOK
<1>9. VectorsRight' /\ Distinct' /\ OneWidth'
  BY <1>1, <1>2 DEF VectorsRight, Rightful, AsConfigured, Distinct, OneWidth
<1>10. PhasesOK'
  <2>1. Heard' = {}
    BY <1>1, <1>2, <1>3, <1>4 DEF Heard, Planning
  <2>2. Cardinality(Heard') = 0 /\ Len(vectors') = 0
    BY <1>1, <1>2, <2>1, FS_EmptySet DEF Planning
  <2>. QED  BY <1>1, <1>2, <2>1, <2>2 DEF PhasesOK, MatchedSoFar, NoPlan
<1>. QED  BY <1>4, <1>7, <1>8, <1>9, <1>10 DEF EmbedInv

(* Sources, what the store and the run have, and what the earlier sources  *)
(* were given: what a call of the provider leaves alone.                   *)
CallOnly ==
    UNCHANGED <<todo, usable, configured, stored, reusable, failed, inputs, planned, filling,
                load, done, asked>>

(* What the invariant says of the run as a whole survives a call.          *)
LEMMA RunUndisturbed ==
    ASSUME EmbedInv, CallOnly, phase \in {"request", "align"}, phase' \in {"request", "align"}
    PROVE  VectorsRight' /\ Distinct' /\ AskedOnce'
BY DEF EmbedInv, CallOnly, VectorsRight, Rightful, AsConfigured, Distinct, AskedOnce

(* Whoever is asked for next comes after all that are answered: up to the  *)
(* n-th input of the first batch there are n more without a failure.       *)
LEMMA CountToBatch ==
    ASSUME EmbedTypeOK, BatchesInOrder, MatchedSoFar, batches # <<>>, batches' = Tail(batches),
           NEW n \in DOMAIN Head(batches)
    PROVE  Cardinality({j \in 1..Head(batches)[n] : j \notin failures}) = Len(vectors) + n
<1> DEFINE b == Head(batches)
           first == {b[m] : m \in 1..n}
           upto == {j \in 1..b[n] : j \notin failures}
<1>1. /\ b \in Seq(Nat) /\ InOrder(b) /\ Waiting = Range(b) \cup Waiting'
      /\ \A x \in Range(b), y \in Waiting' : x < y
  BY BatchTaken
<1>2. /\ Len(inputs) \in Nat /\ DOMAIN inputs = 1..Len(inputs) /\ Len(vectors) \in Nat
      /\ Waiting \subseteq DOMAIN inputs /\ Waiting \cap failures = {}
      /\ failures \subseteq DOMAIN inputs
      /\ \A i \in Heard, j \in Waiting : i < j
      /\ Len(vectors) = Cardinality(Heard)
  BY DEF EmbedTypeOK, BatchesInOrder, MatchedSoFar
<1>3. /\ DOMAIN b = 1..Len(b) /\ Len(b) \in Nat /\ n \in 1..Len(b)
      /\ \A m \in DOMAIN b : b[m] \in Range(b) /\ b[m] \in Waiting /\ b[m] \in 1..Len(inputs)
  BY <1>1, <1>2 DEF Range
<1>4. \A m \in DOMAIN b : b[m] <= b[n] <=> m <= n
  <2> SUFFICES ASSUME NEW m \in DOMAIN b PROVE b[m] <= b[n] <=> m <= n
    OBVIOUS
  <2>1. m \in Nat /\ n \in Nat /\ b[m] \in Nat /\ b[n] \in Nat
    BY <1>3
  <2>2. m < n => b[m] < b[n]
    BY <1>1, <1>3 DEF InOrder
  <2>3. n < m => b[n] < b[m]
    BY <1>1, <1>3 DEF InOrder
  <2>. QED  BY <2>1, <2>2, <2>3
<1>5. upto \subseteq Heard \cup first
  <2> SUFFICES ASSUME NEW j \in upto, j \notin Heard PROVE j \in first
    OBVIOUS
  <2>1. j \in DOMAIN inputs /\ j \in Waiting /\ j <= b[n] /\ j \in Nat
    BY <1>2, <1>3 DEF Heard
  <2>2. j \in Range(b)
    BY <1>1, <1>3, <2>1
  <2>3. PICK m \in DOMAIN b : b[m] = j
    BY <2>2 DEF Range
  <2>4. m \in 1..n
    BY <1>3, <1>4, <2>1, <2>3
  <2>. QED  BY <2>3, <2>4
<1>6. Heard \subseteq upto
  <2> SUFFICES ASSUME NEW j \in Heard PROVE j \in upto
    OBVIOUS
  <2>1. j \in 1..Len(inputs) /\ j \notin failures /\ j < b[n]
    BY <1>2, <1>3 DEF Heard
  <2>. QED  BY <1>2, <1>3, <2>1
<1>7. first \subseteq upto
  <2> SUFFICES ASSUME NEW m \in 1..n PROVE b[m] \in upto
    OBVIOUS
  <2>1. m \in DOMAIN b /\ m <= n
    BY <1>3
  <2>. QED  BY <1>2, <1>3, <1>4, <2>1
<1>8. upto = Heard \cup first
  BY <1>5, <1>6, <1>7
<1>9. Heard \cap first = {}
  BY <1>3 DEF Heard
<1>10. IsFiniteSet(Heard)
  <2>1. IsFiniteSet(1..Len(inputs)) /\ Heard \in SUBSET (1..Len(inputs))
    BY <1>2, FS_Interval DEF Heard
  <2>. QED  BY <2>1, FS_Subset
<1>11. IsFiniteSet(first) /\ Cardinality(first) = n
  <2>1. n \in 0..Len(b)
    BY <1>3
  <2> HIDE DEF b
  <2>. QED  BY <1>1, <2>1, FirstMembers
<1>12. Cardinality(Heard \cup first) = Len(vectors) + n
  <2> HIDE DEF first
  <2>1. Cardinality(Heard \cap first) = 0
    BY <1>9, FS_EmptySet
  <2>2. Cardinality(Heard \cup first)
          = Cardinality(Heard) + Cardinality(first) - Cardinality(Heard \cap first)
    BY <1>10, <1>11, FS_Union
  <2>3. n \in Nat /\ Len(vectors) \in Nat
    BY <1>2, <1>3
  <2>. QED  BY <1>2, <1>11, <2>1, <2>2, <2>3
<1>. QED  BY <1>8, <1>12

(* A batch that fails leaves the vectors with their inputs.                *)
LEMMA FailedBatch ==
    ASSUME EmbedInv, Asking, BatchDone(vectors, failures \cup Range(Head(batches)), width)
    PROVE  EmbedInv'
<1> USE EmbeddingAssumption
<1> DEFINE b == Head(batches)
<1>1. /\ EmbedTypeOK /\ OneWidth /\ BatchesInOrder /\ MatchedSoFar /\ todo # <<>>
      /\ phase = "request" /\ batches # <<>>
  BY DEF EmbedInv, Asking, PhasesOK
<1>2. /\ CallOnly /\ phase' = phase /\ attempt' = 1 /\ batches' = Tail(batches)
      /\ vectors' = vectors /\ failures' = failures \cup Range(b) /\ width' = width
  BY DEF BatchDone, CallOnly
<1>3. /\ Waiting = Range(b) \cup Waiting' /\ \A x \in Range(b), y \in Waiting' : x < y
      /\ \A m \in DOMAIN batches' : batches'[m] # <<>> /\ InOrder(batches'[m])
      /\ \A m, n \in DOMAIN batches' : m < n =>
           \A x \in Range(batches'[m]), y \in Range(batches'[n]) : x < y
  BY <1>1, <1>2, BatchTaken
<1>4. /\ Waiting \subseteq DOMAIN inputs /\ Waiting \cap failures = {}
      /\ Len(inputs) \in Nat /\ DOMAIN inputs = 1..Len(inputs)
  BY <1>1 DEF BatchesInOrder, EmbedTypeOK
<1>5. VectorsRight' /\ Distinct' /\ AskedOnce'
  BY <1>1, <1>2, RunUndisturbed
<1>6. EmbedTypeOK'
  <2>1. batches' \in Seq(Seq(Nat))
    BY <1>1, <1>2 DEF EmbedTypeOK
  <2>2. failures' \in SUBSET DOMAIN inputs'
    BY <1>1, <1>2, <1>3, <1>4 DEF EmbedTypeOK, CallOnly
  <2>. QED  BY <1>1, <1>2, <2>1, <2>2 DEF EmbedTypeOK, CallOnly
<1>7. BatchesInOrder'
  <2>1. Waiting' \cap Range(b) = {}
    BY <1>3, <1>4
  <2>. QED  BY <1>2, <1>3, <1>4, <2>1 DEF BatchesInOrder, CallOnly
<1>8. OneWidth'
  BY <1>1, <1>2 DEF OneWidth, AsConfigured, CallOnly
<1>9. MatchedSoFar'
  <2>1. Heard' = Heard
    BY <1>2, <1>3 DEF Heard, CallOnly
  <2>2. ASSUME NEW i \in Heard
        PROVE  {j \in 1..i : j \notin failures'} = {j \in 1..i : j \notin failures}
    <3>1. i \in 1..Len(inputs) /\ \A j \in Range(b) : i < j /\ j \in 1..Len(inputs)
      BY <1>1, <1>3, <1>4 DEF MatchedSoFar, Heard
    <3>. QED  BY <1>2, <1>4, <3>1
  <2>3. \A i \in Heard : /\ Cardinality({j \in 1..i : j \notin failures'}) \in DOMAIN vectors'
                           /\ VectorFor(i)'.of = inputs'[i]
    BY <1>1, <1>2, <2>2 DEF MatchedSoFar, VectorFor, CallOnly
  <2>4. \A i \in Heard, j \in Waiting' : i < j
    BY <1>1, <1>3 DEF MatchedSoFar
  <2>. QED  BY <1>1, <1>2, <2>1, <2>3, <2>4 DEF MatchedSoFar, NoPlan, CallOnly, VectorFor
<1>10. PhasesOK'
  BY <1>1, <1>2, <1>9 DEF PhasesOK, CallOnly
<1>. QED  BY <1>5, <1>6, <1>7, <1>8, <1>10 DEF EmbedInv

(* A batch that is answered adds the vectors of its inputs, in order.      *)
LEMMA AnsweredBatch ==
    ASSUME EmbedInv, Asking, NEW r \in Responses(Head(batches)), Valid(r, Head(batches)),
           BatchDone(vectors \o ByIndex(r), failures, r[1].vector.width)
    PROVE  EmbedInv'
<1> USE EmbeddingAssumption
<1> DEFINE b == Head(batches)
           V == ByIndex(r)
           w == r[1].vector.width
<1>1. /\ EmbedTypeOK /\ OneWidth /\ BatchesInOrder /\ MatchedSoFar /\ todo # <<>>
      /\ phase = "request" /\ batches # <<>>
  BY DEF EmbedInv, Asking, PhasesOK
<1>2. /\ CallOnly /\ phase' = phase /\ attempt' = 1 /\ batches' = Tail(batches)
      /\ vectors' = vectors \o V /\ failures' = failures /\ width' = w
  BY DEF BatchDone, CallOnly
<1>3. /\ Waiting = Range(b) \cup Waiting' /\ \A x \in Range(b), y \in Waiting' : x < y
      /\ b \in Seq(Nat) /\ b # <<>> /\ InOrder(b)
      /\ \A m \in DOMAIN batches' : batches'[m] # <<>> /\ InOrder(batches'[m])
      /\ \A m, n \in DOMAIN batches' : m < n =>
           \A x \in Range(batches'[m]), y \in Range(batches'[n]) : x < y
  BY <1>1, <1>2, BatchTaken
<1>4. /\ Waiting \subseteq DOMAIN inputs /\ Waiting \cap failures = {}
      /\ Len(inputs) \in Nat /\ DOMAIN inputs = 1..Len(inputs)
      /\ vectors \in Seq(ProvidedVectors) /\ Len(vectors) \in Nat /\ DOMAIN vectors = 1..Len(vectors)
  BY <1>1 DEF BatchesInOrder, EmbedTypeOK
<1>5. /\ V \in Seq(ProvidedVectors) /\ Len(V) = Len(b)
      /\ \A n \in DOMAIN b : V[n].of = inputs[b[n]] /\ V[n].width = w
      /\ w \in Widths /\ (width # Absent => w = width)
  BY <1>1, <1>3, <1>4, AnswersOfBatch
<1> HIDE DEF V, w
<1>6. VectorsRight' /\ Distinct' /\ AskedOnce'
  BY <1>1, <1>2, RunUndisturbed
<1>7. EmbedTypeOK'
  <2>1. batches' \in Seq(Seq(Nat))
    BY <1>1, <1>2 DEF EmbedTypeOK
  <2>2. vectors' \in Seq(ProvidedVectors)
    BY <1>2, <1>4, <1>5
  <2>. QED  BY <1>1, <1>2, <1>5, <2>1, <2>2 DEF EmbedTypeOK, CallOnly
<1>8. BatchesInOrder'
  BY <1>2, <1>3, <1>4 DEF BatchesInOrder, CallOnly
<1>9. /\ DOMAIN b = 1..Len(b) /\ Len(b) \in Nat
      /\ DOMAIN vectors' = 1..(Len(vectors) + Len(b)) /\ Len(vectors') = Len(vectors) + Len(b)
      /\ \A k \in 1..Len(vectors) : vectors'[k] = vectors[k]
      /\ \A n \in 1..Len(b) : vectors'[Len(vectors) + n] = V[n]
  <2>1. DOMAIN b = 1..Len(b) /\ Len(b) \in Nat
    BY <1>3
  <2>2. Len(V) \in Nat /\ DOMAIN V = 1..Len(V)
    BY <1>5
  <2>3. /\ DOMAIN (vectors \o V) = 1..(Len(vectors) + Len(V))
        /\ Len(vectors \o V) = Len(vectors) + Len(V)
        /\ \A k \in 1..Len(vectors) : (vectors \o V)[k] = vectors[k]
        /\ \A n \in 1..Len(V) : (vectors \o V)[Len(vectors) + n] = V[n]
    <3>1. vectors \in Seq(ProvidedVectors) /\ V \in Seq(ProvidedVectors) /\ Len(vectors) \in Nat
      BY <1>4, <1>5
    <3>2. Len(vectors \o V) = Len(vectors) + Len(V) /\ vectors \o V \in Seq(ProvidedVectors)
      BY <3>1
    <3>3. \A k \in 1..Len(vectors) : (vectors \o V)[k] = vectors[k]
      BY <3>1
    <3>4. \A n \in 1..Len(V) : (vectors \o V)[Len(vectors) + n] = V[n]
      BY <3>1, <2>2
    <3>. QED  BY <3>2, <3>3, <3>4
  <2>. QED  BY <1>2, <1>5, <2>1, <2>2, <2>3
<1>10. \A k \in DOMAIN vectors' : k \in 1..Len(vectors) \/ k - Len(vectors) \in 1..Len(b)
  BY <1>4, <1>9
<1>11. OneWidth'
  <2>1. \A k \in 1..Len(vectors) : vectors[k].width = w
    <3> SUFFICES ASSUME NEW k \in 1..Len(vectors) PROVE vectors[k].width = w
      OBVIOUS
    <3>1. vectors[k] \in ProvidedVectors /\ vectors[k].width = width
      BY <1>1, <1>4 DEF OneWidth
    <3>2. width # Absent
      BY <3>1 DEF ProvidedVectors
    <3>. QED  BY <1>5, <3>1, <3>2
  <2>2. \A k \in DOMAIN vectors' : vectors'[k].width = w
    <3> SUFFICES ASSUME NEW k \in DOMAIN vectors' PROVE vectors'[k].width = w
      OBVIOUS
    <3>1. CASE k \in 1..Len(vectors)
      BY <1>9, <2>1, <3>1
    <3>2. CASE k - Len(vectors) \in 1..Len(b)
      <4>1. PICK n \in 1..Len(b) : k = Len(vectors) + n
        BY <1>4, <1>9, <3>2
      <4>. QED  BY <1>5, <1>9, <4>1
    <3>. QED  BY <1>10, <3>1, <3>2
  <2>3. AsConfigured(w)
    BY <1>1, <1>5 DEF OneWidth, AsConfigured, EmbedTypeOK
  <2>. QED  BY <1>2, <2>2, <2>3 DEF OneWidth, AsConfigured, CallOnly
<1>12. Heard' = Heard \cup Range(b)
  <2>1. Waiting' \cap Range(b) = {}
    BY <1>3, <1>4
  <2>. QED  BY <1>2, <1>3, <1>4, <2>1 DEF Heard, CallOnly
<1>13. MatchedSoFar'
  <2>1. \A i \in Heard', j \in Waiting' : i < j
    BY <1>1, <1>3, <1>12 DEF MatchedSoFar
  <2>2. Len(vectors') = Cardinality(Heard')
    <3>1. IsFiniteSet(Heard) /\ Heard \cap Range(b) = {}
      <4>1. IsFiniteSet(1..Len(inputs)) /\ Heard \in SUBSET (1..Len(inputs))
        BY <1>4, FS_Interval DEF Heard
      <4>2. IsFiniteSet(Heard)
        BY <4>1, FS_Subset
      <4>. QED  BY <1>3, <4>2 DEF Heard
    <3>2. Range(b) = {b[m] : m \in 1..Len(b)}
      BY <1>9 DEF Range
    <3>3. Len(b) \in 0..Len(b)
      BY <1>9
    <3>4. IsFiniteSet({b[m] : m \in 1..Len(b)}) /\ Cardinality({b[m] : m \in 1..Len(b)}) = Len(b)
      BY <1>3, <3>3, FirstMembers
    <3>5. Cardinality(Heard \cup Range(b))
            = Cardinality(Heard) + Cardinality(Range(b)) - Cardinality(Heard \cap Range(b))
      BY <3>1, <3>2, <3>4, FS_Union
    <3>6. Cardinality(Heard \cap Range(b)) = 0
      BY <3>1, FS_EmptySet
    <3>7. Cardinality(Range(b)) = Len(b) /\ Cardinality(Heard) = Len(vectors)
      BY <1>1, <3>2, <3>4 DEF MatchedSoFar
    <3>8. Cardinality(Heard \cup Range(b)) = Len(vectors) + Len(b)
      <4>1. Len(vectors) \in Nat /\ Len(b) \in Nat
        BY <1>4, <1>9
      <4> HIDE DEF b
      <4>. QED  BY <4>1, <3>5, <3>6, <3>7
    <3>. QED  BY <1>9, <1>12, <3>8
  <2>3. ASSUME NEW i \in Heard'
        PROVE  /\ Cardinality({j \in 1..i : j \notin failures'}) \in DOMAIN vectors'
               /\ VectorFor(i)'.of = inputs'[i]
    <3>1. CASE i \in Heard
      <4>1. /\ Cardinality({j \in 1..i : j \notin failures}) \in 1..Len(vectors)
            /\ VectorFor(i).of = inputs[i]
        BY <1>1, <1>4, <3>1 DEF MatchedSoFar
      <4>. QED  BY <1>2, <1>4, <1>9, <4>1 DEF VectorFor, CallOnly
    <3>2. CASE i \in Range(b)
      <4>1. PICK n \in DOMAIN b : i = b[n]
        BY <3>2 DEF Range
      <4>2. Cardinality({j \in 1..i : j \notin failures'}) = Len(vectors) + n
        BY <1>1, <1>2, <4>1, CountToBatch
      <4>3. Len(vectors) + n \in DOMAIN vectors' /\ vectors'[Len(vectors) + n] = V[n]
        <5>1. n \in 1..Len(b)
          BY <1>9, <4>1
        <5>. QED  BY <1>4, <1>9, <5>1
      <4>. QED  BY <1>2, <1>5, <4>1, <4>2, <4>3 DEF VectorFor, CallOnly
    <3>. QED  BY <1>12, <3>1, <3>2
  <2>. QED  BY <1>1, <1>2, <2>1, <2>2, <2>3 DEF MatchedSoFar, NoPlan, CallOnly, VectorFor
<1>14. PhasesOK'
  BY <1>1, <1>2, <1>13 DEF PhasesOK, CallOnly
<1>. QED  BY <1>6, <1>7, <1>8, <1>11, <1>14 DEF EmbedInv

(* Another attempt, and the end of the requests, change nothing else.      *)
LEMMA CallStep == ASSUME EmbedInv, Retry \/ Refused \/ Answered \/ Embedded PROVE EmbedInv'
<1> USE EmbeddingAssumption
<1>1. ASSUME Retry PROVE EmbedInv'
  <2>1. /\ EmbedTypeOK /\ OneWidth /\ BatchesInOrder /\ PhasesOK /\ phase = "request"
        /\ CallOnly /\ UNCHANGED <<phase, batches, vectors, failures, width>>
        /\ attempt < MaxAttempts /\ attempt' = attempt + 1
    BY <1>1 DEF EmbedInv, Retry, Asking, CallOnly
  <2>2. VectorsRight' /\ Distinct' /\ AskedOnce'
    BY <2>1, RunUndisturbed
  <2>3. EmbedTypeOK'
    BY <2>1 DEF EmbedTypeOK, CallOnly
  <2>4. Waiting' = Waiting
    BY <2>1 DEF Waiting
  <2>5. OneWidth' /\ BatchesInOrder'
    BY <2>1, <2>4 DEF OneWidth, AsConfigured, BatchesInOrder, CallOnly
  <2>6. MatchedSoFar'
    BY <2>1, <2>4 DEF PhasesOK, MatchedSoFar, Heard, VectorFor, NoPlan, CallOnly
  <2>7. PhasesOK'
    BY <2>1, <2>6 DEF PhasesOK, CallOnly
  <2>. QED  BY <2>2, <2>3, <2>5, <2>7 DEF EmbedInv
<1>2. ASSUME Refused PROVE EmbedInv'
  BY <1>2, FailedBatch DEF Refused
<1>3. ASSUME Answered PROVE EmbedInv'
  <2>1. PICK r \in Responses(Head(batches)) :
          \/ BatchDone(vectors, failures \cup Range(Head(batches)), width)
          \/ /\ Valid(r, Head(batches))
             /\ BatchDone(vectors \o ByIndex(r), failures, r[1].vector.width)
    BY <1>3 DEF Answered
  <2>. QED  BY <1>3, <2>1, FailedBatch, AnsweredBatch DEF Answered
<1>4. ASSUME Embedded PROVE EmbedInv'
  <2>1. /\ EmbedTypeOK /\ OneWidth /\ BatchesInOrder /\ PhasesOK
        /\ phase = "request" /\ batches = <<>> /\ phase' = "align"
        /\ CallOnly /\ UNCHANGED <<batches, attempt, vectors, failures, width>>
    BY <1>4 DEF EmbedInv, Embedded, CallOnly
  <2>2. VectorsRight' /\ Distinct' /\ AskedOnce'
    BY <2>1, RunUndisturbed
  <2>3. EmbedTypeOK'
    BY <2>1 DEF EmbedTypeOK, CallOnly
  <2>4. Waiting' = Waiting
    BY <2>1 DEF Waiting
  <2>5. OneWidth' /\ BatchesInOrder'
    BY <2>1, <2>4 DEF OneWidth, AsConfigured, BatchesInOrder, CallOnly
  <2>6. MatchedSoFar'
    BY <2>1, <2>4 DEF PhasesOK, MatchedSoFar, Heard, VectorFor, NoPlan, CallOnly
  <2>7. PhasesOK'
    BY <2>1, <2>6 DEF PhasesOK, MatchedSoFar, NoPlan, CallOnly
  <2>. QED  BY <2>2, <2>3, <2>5, <2>7 DEF EmbedInv
<1>. QED  BY <1>1, <1>2, <1>3, <1>4

(* Each input without a failure gets its own vector: those are the inputs  *)
(* the vectors were counted for.                                           *)
LEMMA AlignStep == ASSUME EmbedInv, Align PROVE EmbedInv'
<1> USE EmbeddingAssumption
<1> DEFINE place(t) == CHOOSE i \in DOMAIN inputs : inputs[i] = t
<1>1. /\ EmbedTypeOK /\ VectorsRight /\ OneWidth /\ Distinct /\ AskedOnce /\ BatchesInOrder
      /\ MatchedSoFar /\ batches = <<>> /\ NoPlan /\ todo # <<>> /\ phase = "align"
  BY DEF EmbedInv, Align, PhasesOK
<1>2. /\ phase' = "clone"
      /\ reusable' = [t \in Texts |-> IF t \in Range(inputs) /\ Given(place(t))
                                      THEN VectorFor(place(t)) ELSE reusable[t]]
      /\ failed' = failed \cup {inputs[i] : i \in {j \in DOMAIN inputs : ~ Given(j)}}
      /\ UNCHANGED <<todo, usable, configured, stored, inputs, planned, filling, load, batches,
                     attempt, vectors, failures, width, done, asked>>
  BY DEF Align
<1>3. \A t \in Range(inputs) : place(t) \in DOMAIN inputs /\ inputs[place(t)] = t
  BY DEF Range
<1> HIDE DEF place
<1>4. Heard = DOMAIN inputs \ failures
  BY <1>1 DEF Heard, Waiting, Range
<1>5. ASSUME NEW i \in DOMAIN inputs, Given(i)
      PROVE  /\ VectorFor(i) \in ProvidedVectors /\ VectorFor(i) # Absent
             /\ VectorFor(i).of = inputs[i] /\ AsConfigured(VectorFor(i).width)
  <2>1. i \in Heard /\ VectorFor(i).width = width
    BY <1>4, <1>5 DEF Given
  <2> DEFINE k == Cardinality({j \in 1..i : j \notin failures})
  <2>2. k \in DOMAIN vectors /\ VectorFor(i) = vectors[k] /\ VectorFor(i).of = inputs[i]
    BY <1>1, <2>1 DEF MatchedSoFar, VectorFor
  <2> HIDE DEF k
  <2>3. vectors # <<>> /\ vectors[k] \in ProvidedVectors
    BY <1>1, <2>2 DEF EmbedTypeOK
  <2>4. AsConfigured(width)
    BY <1>1, <2>3 DEF OneWidth
  <2>. QED  BY <2>1, <2>2, <2>3, <2>4 DEF ProvidedVectors
<1>6. EmbedTypeOK'
  <2>1. reusable' \in [Texts -> ProvidedVectors \cup {Absent}]
    BY <1>1, <1>2, <1>3, <1>5 DEF EmbedTypeOK
  <2>2. failed' \in SUBSET Texts
    BY <1>1, <1>2 DEF EmbedTypeOK
  <2>. QED  BY <1>1, <1>2, <2>1, <2>2 DEF EmbedTypeOK
<1>7. VectorsRight'
  <2>1. \A t \in Texts : Rightful(reusable[t], t)
    BY <1>1 DEF VectorsRight
  <2>2. \A t \in Texts : Rightful(reusable'[t], t)
    BY <1>2, <1>3, <1>5, <2>1 DEF Rightful
  <2>. QED  BY <1>1, <1>2, <2>2 DEF VectorsRight, Rightful, AsConfigured
<1>8. AskedOnce'
  <2>1. \A t \in Texts : asked[t] > 0 => reusable'[t] # Absent \/ t \in failed'
    <3> SUFFICES ASSUME NEW t \in Texts, asked[t] > 0, t \notin failed'
                 PROVE  reusable'[t] # Absent
      OBVIOUS
    <3>1. CASE t \in Range(inputs)
      BY <1>2, <1>3, <1>5, <3>1
    <3>2. CASE t \notin Range(inputs)
      BY <1>1, <1>2, <3>2 DEF AskedOnce
    <3>. QED  BY <3>1, <3>2
  <2>. QED  BY <1>1, <1>2, <2>1 DEF AskedOnce
<1>9. Waiting' = Waiting
  BY <1>2 DEF Waiting
<1>10. OneWidth' /\ Distinct' /\ BatchesInOrder'
  BY <1>1, <1>2, <1>9 DEF OneWidth, AsConfigured, Distinct, BatchesInOrder
<1>11. PhasesOK'
  BY <1>1, <1>2 DEF PhasesOK, NoPlan
<1>. QED  BY <1>6, <1>7, <1>8, <1>10, <1>11 DEF EmbedInv

(* The chunks of a source take the vectors of their texts.                 *)
LEMMA CloneStep == ASSUME EmbedInv, Clone PROVE EmbedInv'
<1> USE EmbeddingAssumption
<1> DEFINE given == [i \in DOMAIN Head(todo) |->
                       [text |-> Head(todo)[i], vector |-> reusable[Head(todo)[i]]]]
<1>1. /\ EmbedTypeOK /\ VectorsRight /\ AskedOnce
      /\ batches = <<>> /\ NoPlan /\ todo # <<>> /\ phase = "clone"
  BY DEF EmbedInv, Clone, PhasesOK
<1>2. /\ done' = Append(done, given) /\ todo' = Tail(todo) /\ phase' = "reuse"
      /\ inputs' = <<>> /\ vectors' = <<>> /\ failures' = {} /\ width' = Absent
      /\ UNCHANGED <<usable, configured, stored, reusable, failed, planned, filling, load, batches,
                     attempt, asked>>
  BY DEF Clone
<1>3. Head(todo) \in Seq(Texts) /\ Tail(todo) \in Seq(Seq(Texts))
  BY <1>1 DEF EmbedTypeOK
<1>4. /\ given \in Seq([text : Texts, vector : ProvidedVectors \cup {Absent}])
      /\ \A i \in DOMAIN given : Rightful(given[i].vector, given[i].text)
  <2>1. \A i \in DOMAIN Head(todo) : Head(todo)[i] \in Texts
    BY <1>3
  <2>2. \A i \in DOMAIN Head(todo) : reusable[Head(todo)[i]] \in ProvidedVectors \cup {Absent}
    BY <1>1, <2>1 DEF EmbedTypeOK
  <2>3. DOMAIN Head(todo) = 1..Len(Head(todo)) /\ Len(Head(todo)) \in Nat
    BY <1>3
  <2>4. \A i \in DOMAIN Head(todo) :
          /\ given[i] \in [text : Texts, vector : ProvidedVectors \cup {Absent}]
          /\ given[i].text = Head(todo)[i] /\ given[i].vector = reusable[Head(todo)[i]]
    BY <2>1, <2>2
  <2>5. DOMAIN given = DOMAIN Head(todo)
    OBVIOUS
  <2>6. \A t \in Texts : Rightful(reusable[t], t)
    BY <1>1 DEF VectorsRight
  <2>7. \A i \in DOMAIN given : Rightful(given[i].vector, given[i].text)
    BY <2>1, <2>4, <2>5, <2>6
  <2>8. given = [i \in 1..Len(Head(todo)) |-> given[i]]
    BY <2>3
  <2> HIDE DEF given
  <2>9. given \in Seq([text : Texts, vector : ProvidedVectors \cup {Absent}])
    <3> DEFINE R == [text : Texts, vector : ProvidedVectors \cup {Absent}]
    <3>1. \A i \in 1..Len(Head(todo)) : given[i] \in R
      BY <2>3, <2>4
    <3> HIDE DEF R
    <3>2. given \in [1..Len(Head(todo)) -> R]
      BY <2>8, <3>1
    <3>3. given \in Seq(R)
      BY <2>3, <3>2
    <3>. QED  BY <3>3 DEF R
  <2>. QED  BY <2>7, <2>9
<1> HIDE DEF given
<1>5. EmbedTypeOK'
  <2>1. done' \in Seq(Seq([text : Texts, vector : ProvidedVectors \cup {Absent}]))
    BY <1>1, <1>2, <1>4 DEF EmbedTypeOK
  <2>2. /\ inputs' \in Seq(Texts) /\ vectors' \in Seq(ProvidedVectors)
        /\ failures' \in SUBSET DOMAIN inputs'
    BY <1>2
  <2>. QED  BY <1>1, <1>2, <1>3, <2>1, <2>2 DEF EmbedTypeOK
<1>6. VectorsRight'
  <2> DEFINE S == Seq([text : Texts, vector : ProvidedVectors \cup {Absent}])
  <2>3. done \in Seq(S) /\ given \in S
    BY <1>1, <1>4 DEF EmbedTypeOK
  <2> HIDE DEF S
  <2>4. /\ DOMAIN done = 1..Len(done) /\ Len(done) \in Nat
        /\ DOMAIN Append(done, given) = 1..(Len(done) + 1)
        /\ Append(done, given)[Len(done) + 1] = given
        /\ \A i \in 1..Len(done) : Append(done, given)[i] = done[i]
    BY <2>3
  <2>1. \A k \in DOMAIN done' : (k \in DOMAIN done /\ done'[k] = done[k]) \/ done'[k] = given
    BY <1>2, <2>4
  <2>2. \A k \in DOMAIN done' : \A i \in DOMAIN done'[k] :
          Rightful(done'[k][i].vector, done'[k][i].text)
    BY <1>1, <1>4, <2>1 DEF VectorsRight
  <2>. QED  BY <1>1, <1>2, <2>2 DEF VectorsRight, Rightful, AsConfigured
<1>7. Waiting' = {}
  BY <1>1, <1>2 DEF Waiting, Range
<1>8. OneWidth' /\ Distinct' /\ BatchesInOrder'
  BY <1>1, <1>2, <1>7 DEF OneWidth, Distinct, BatchesInOrder
<1>9. AskedOnce'
  BY <1>1, <1>2 DEF AskedOnce
<1>10. PhasesOK'
  BY <1>1, <1>2 DEF PhasesOK, NoPlan
<1>. QED  BY <1>5, <1>6, <1>8, <1>9, <1>10 DEF EmbedInv

(* The vector of a chunk is the one computed for its text, of the width    *)
(* that is configured, and no text is asked for twice, whatever batches    *)
(* fail and in whatever order answers come.                                *)
THEOREM EmbeddingVectorsMatch == EmbedSpec => []VectorsMatch
<1>1. EmbedInv /\ [EmbedNext]_embedVars => EmbedInv'
  <2> SUFFICES ASSUME EmbedInv, [EmbedNext]_embedVars PROVE EmbedInv'
    OBVIOUS
  <2>1. CASE UNCHANGED embedVars
    <3>1. /\ EmbedTypeOK /\ OneWidth /\ BatchesInOrder /\ PhasesOK /\ CallOnly
          /\ UNCHANGED <<phase, batches, attempt, vectors, failures, width>>
      BY <2>1 DEF embedVars, EmbedInv, CallOnly
    <3>2. VectorsRight' /\ Distinct' /\ AskedOnce'
      BY <2>1 DEF embedVars, EmbedInv, VectorsRight, Rightful, AsConfigured, Distinct, AskedOnce
    <3>3. EmbedTypeOK'
      BY <3>1 DEF EmbedTypeOK, CallOnly
    <3>4. Waiting' = Waiting
      BY <3>1 DEF Waiting
    <3>5. OneWidth' /\ BatchesInOrder'
      BY <3>1, <3>4 DEF OneWidth, AsConfigured, BatchesInOrder, CallOnly
    <3>6. CASE phase \in {"request", "align"}
      <4>1. MatchedSoFar'
        BY <3>1, <3>4, <3>6 DEF PhasesOK, MatchedSoFar, Heard, VectorFor, NoPlan, CallOnly
      <4>. QED  BY <3>1, <3>2, <3>3, <3>5, <3>6, <4>1 DEF EmbedInv, PhasesOK, NoPlan, CallOnly
    <3>7. CASE phase = "plan"
      <4>1. Planning'
        BY <3>1, <3>4, <3>7 DEF PhasesOK, Planning, CallOnly
      <4>. QED  BY <3>1, <3>2, <3>3, <3>5, <3>7, <4>1 DEF EmbedInv, PhasesOK, CallOnly
    <3>8. CASE phase \in {"clone", "reuse"}
      BY <3>1, <3>2, <3>3, <3>5, <3>8 DEF EmbedInv, PhasesOK, NoPlan, CallOnly
    <3>. QED  BY <3>1, <3>6, <3>7, <3>8 DEF EmbedTypeOK
  <2>. QED  BY <2>1, ReuseStep, PlaceStep, PlannedStep, CallStep, AlignStep, CloneStep DEF EmbedNext
<1>2. EmbedInv => VectorsMatch
  <2> SUFFICES ASSUME EmbedInv PROVE VectorsMatch
    OBVIOUS
  <2>1. VectorsRight /\ OneWidth /\ AskedOnce
    BY DEF EmbedInv
  <2>. QED  BY <2>1 DEF VectorsMatch, VectorsRight, Rightful, AsConfigured, OneWidth, AskedOnce
<1>. QED  BY <1>1, <1>2, InitEmbedInv, PTL DEF EmbedSpec
=============================================================================
