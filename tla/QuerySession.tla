---------------------------- MODULE QuerySession ----------------------------
(***************************************************************************)
(* One search or read request, from the moment it looks at the index to    *)
(* its answer, while indexers publish.  A search first decides from a      *)
(* summary of the index whether vectors can be used, then asks the         *)
(* embedding provider for the vector of the query, and only then runs the  *)
(* statements that find, rank and load chunks.                             *)
(*                                                                         *)
(* On PostgreSQL the service runs a request in one REPEATABLE READ         *)
(* transaction.  On SQLite every store operation opens a connection of its *)
(* own: the lifecycle lock keeps the indexer of the same process out, but  *)
(* not that of the command line.                                           *)
(*                                                                         *)
(* Sources: retrieval/service.py, app.py, service/facade.py,               *)
(* storage/postgres/query_store.py, storage/sqlite.py.                     *)
(* The profile binds all Vaults.  A vault has one source with one chunk,   *)
(* whose id does not change when it is published again; the number of the  *)
(* publication stands for the revision, the text and its hash.  Which      *)
(* chunks match a query is left open; the order and number of the hits,    *)
(* and filters other than the one on vaults, are left out.                 *)
(***************************************************************************)
EXTENDS Naturals, FiniteSets

CONSTANTS
    Vaults,
    Configs, Remote,  \* embedding configurations, and those of a remote endpoint
    Dims,             \* widths of the vectors a provider may return
    Backends,         \* subset of {"postgres", "sqlite"}
    None,
    MaxPublished      \* bound on the publications

(* What a vault serves: one publication.  A chunk whose text could not be  *)
(* embedded is pending; one whose text may not leave the machine is        *)
(* disabled.                                                               *)
Publication == [n : Nat, cfg : Configs, localOnly : BOOLEAN,
                state : {"ready", "pending", "disabled"}, width : Dims \cup {None}]
Indexes == [Vaults -> Publication \cup {None}]

Degradations == {"semantic_disabled_by_policy", "no_compatible_vectors", "rebuild_required",
                 "pending_embeddings", "ambiguous_vectors", "incompatible_vector_dimensions",
                 "query_embedding_failed"}

ASSUME QueryAssumption ==
    /\ IsFiniteSet(Vaults) /\ Vaults # {}
    /\ Remote \subseteq Configs
    /\ Backends \subseteq {"postgres", "sqlite"}
    /\ MaxPublished \in Nat
    \* None differs from whatever may stand in its place
    /\ None \notin Configs \cup Dims \cup Degradations
    /\ None \notin Configs \X Dims /\ None \notin Publication /\ None \notin Indexes

VARIABLES
    backend, own,  \* what the process was started with: its store, its configuration
    index,         \* what each vault serves
    published,     \* publications so far
    disk,          \* the file of each vault: the publication it was read for, or 0
    session,       \* the request under way
    answer         \* the last answer

queryVars == <<backend, own, index, published, disk, session, answer>>

(***************************************************************************)
(* The index.  Indexers embed in PostgreSQL for one vault, in SQLite for   *)
(* all vaults of a profile, so that there a local-only vault disables      *)
(* others with it.                                                         *)
(***************************************************************************)
Publications(n, C) ==
    {p \in [n : {n}, cfg : C, localOnly : BOOLEAN,   \* subset of Publication
            state : {"ready", "pending", "disabled"}, width : Dims \cup {None}] :
        /\ p.state = "ready" <=> p.width # None
        /\ p.localOnly /\ p.cfg \in Remote => p.state = "disabled"
        /\ p.state = "disabled" =>
              p.cfg \in Remote /\ (p.localOnly \/ backend = "sqlite")}

Modes == {"lexical", "dense", "hybrid"}
Idle == [at |-> "idle", pinned |-> None, mode |-> None, scope |-> {}, localOnly |-> FALSE,
         any |-> FALSE, label |-> None, pending |-> FALSE, widths |-> {}, observed |-> None,
         unavailable |-> None, coverage |-> None, vector |-> None, degraded |-> None,
         ranked |-> {}, dense |-> {}, vault |-> None, expected |-> None,
         hash |-> None]

NoAnswer == [kind |-> None, mode |-> None, scope |-> {}, vector |-> None, revisions |-> None,
             hits |-> {}, ranked |-> {}, dense |-> {}, degraded |-> None,
             vault |-> None, expected |-> None, hash |-> None, bytes |-> None]

(***************************************************************************)
(* What a statement of the session reads.                                  *)
(***************************************************************************)
CurrentView(s) == index     \* variant: the transaction is READ COMMITTED
View(s) == IF s.pinned # None THEN s.pinned ELSE index

Present(V) == {v \in Vaults : V[v] # None}
Ready(V) == {v \in Present(V) : V[v].state = "ready"}
Observed(V) == {<<V[v].cfg, V[v].width>> : v \in Ready(V)}

(* _agreed: the label all vaults share.                                    *)
Agreed(V) ==
    IF Present(V) = Vaults /\ \E c \in Configs : \A v \in Vaults : V[v].cfg = c
    THEN CHOOSE c \in Configs : \A v \in Vaults : V[v].cfg = c
    ELSE None

(* _semantic_state, of a session that has read the summary, and of the     *)
(* fingerprints of the vectors.                                            *)
Reason(s, O) ==
    IF s.localOnly /\ own \in Remote THEN "semantic_disabled_by_policy"
    ELSE IF ~ s.any THEN "no_compatible_vectors"
    ELSE IF s.label # own THEN "rebuild_required"
    ELSE IF s.pending THEN "pending_embeddings"
    ELSE IF Cardinality(O) > 1 THEN "ambiguous_vectors"
    ELSE IF O = {} THEN "no_compatible_vectors"
    ELSE IF {o[1] : o \in O} # {own} THEN "rebuild_required"
    ELSE None

(* The chunks dense_search compares with the vector of the query.          *)
CompatibleByWidth(s, V) ==     \* variant: any vector of that width
    {v \in Ready(V) \cap s.scope : V[v].width = s.vector[2]}
Compatible(s, V) ==
    {v \in Ready(V) \cap s.scope :
        <<V[v].cfg, V[v].width>> = s.observed /\ V[v].width = s.vector[2]}

(* What vector_scope returns.                                              *)
WidthsInScope(s, V) ==
    {V[v].width : v \in {w \in Ready(V) \cap s.scope : <<V[w].cfg, V[w].width>> = s.observed}}

QueryInit ==
    /\ backend \in Backends
    /\ own \in Configs
    /\ published = 1
    /\ index \in [Vaults -> Publications(1, Configs) \cup {None}]
    /\ disk = [v \in Vaults |-> IF index[v] = None THEN 0 ELSE 1]
    /\ session = Idle
    /\ answer = NoAnswer

(***************************************************************************)
(* A vault is published: a revision is promoted, or sources are replaced,  *)
(* which in SQLite needs a rebuild if the configuration is another.        *)
(***************************************************************************)
Publish(v) ==
    /\ published <= MaxPublished
    /\ published' = published + 1
    /\ \E p \in Publications(published + 1, Configs) :
        /\ backend = "sqlite" /\ index[v] # None => p.cfg = index[v].cfg
        /\ index' = [index EXCEPT ![v] = p]
    /\ disk' = [disk EXCEPT ![v] = published + 1]
    /\ UNCHANGED <<backend, own, session, answer>>

(* A rebuild renames a new file over the index; a connection that is open  *)
(* goes on reading the old one.                                            *)
Rebuild(R) ==
    /\ backend = "sqlite"
    /\ published <= MaxPublished
    /\ published' = published + 1
    /\ \E c \in Configs : \E P \in [R -> Publications(published + 1, {c})] :
          index' = [v \in Vaults |-> IF v \in R THEN P[v] ELSE index[v]]
    /\ disk' = [v \in Vaults |-> IF v \in R THEN published + 1 ELSE disk[v]]
    /\ session' = IF session.at = "observe" /\ session.pinned = None
                  THEN [session EXCEPT !.pinned = index] ELSE session
    /\ UNCHANGED <<backend, own, answer>>

(* Users edit files.                                                       *)
Edit(v) ==
    /\ session.at = "load"
    /\ disk' = [disk EXCEPT ![v] = 0]
    /\ UNCHANGED <<backend, own, index, published, session, answer>>

(***************************************************************************)
(* request_session.  On PostgreSQL every vault must have an active         *)
(* revision; the policy of the profile comes from their manifests.  On     *)
(* SQLite it comes from the manifests on disk, whatever was indexed.       *)
(***************************************************************************)
Resolves(V) == Present(V) = Vaults
LocalOnly(V) == \E v \in Vaults : V[v].localOnly

Begin(s) ==
    /\ session = Idle
    /\ backend = "postgres" => Resolves(index)
    /\ \E local \in BOOLEAN :
        /\ backend = "postgres" => local = LocalOnly(index)
        /\ session' = [s EXCEPT !.pinned = IF backend = "postgres" THEN index ELSE None,
                                !.localOnly = local]
    /\ answer' = NoAnswer
    /\ UNCHANGED <<backend, own, index, published, disk>>

OpenSearch ==
    \E m \in Modes, F \in SUBSET Vaults \ {{}} :
        Begin([Idle EXCEPT !.at = "summarise", !.mode = m, !.scope = F])

Continues(s) ==
    /\ session' = s
    /\ UNCHANGED <<backend, own, index, published, disk, answer>>

(* snapshot, on one connection: first the counts and the labels ...        *)
Summarise ==
    /\ session.at = "summarise"
    /\ LET V == View(session) IN
       Continues([session EXCEPT !.at = "observe",
                                 !.any = Present(V) # {},
                                 !.label = Agreed(V),
                                 !.pending = \E v \in Present(V) : V[v].state = "pending"])

(* ... then the vectors; _retrieval_from_snapshot judges both.             *)
Observe ==
    /\ session.at = "observe"
    /\ LET O == Observed(View(session))
           reason == Reason(session, O)
           usable == reason \in {None, "pending_embeddings"}
       IN Continues([session EXCEPT
              !.at = "ask",
              !.pinned = IF backend = "postgres" THEN @ ELSE None,
              !.widths = {o[2] : o \in O},
              !.observed = IF usable /\ Cardinality(O) = 1 THEN CHOOSE o \in O : TRUE ELSE None,
              !.unavailable = IF usable THEN None ELSE reason,
              !.coverage = IF reason = "pending_embeddings" THEN reason ELSE None])

(***************************************************************************)
(* _prepare_dense_query, before any candidate is looked up.                *)
(***************************************************************************)
NotAsked ==
    /\ session.at = "ask"
    /\ \/ session.mode = "lexical" /\ Continues([session EXCEPT !.at = "match"])
       \/ /\ session.mode # "lexical"
          /\ session.unavailable # None \/ Cardinality(session.widths) # 1
          /\ Continues([session EXCEPT
                 !.at = "match",
                 !.degraded = IF session.unavailable # None THEN session.unavailable
                              ELSE IF session.widths = {} THEN "no_compatible_vectors"
                              ELSE "incompatible_vector_dimensions"])

Asks == session.at = "ask" /\ session.mode # "lexical"
        /\ session.unavailable = None /\ Cardinality(session.widths) = 1

(* embed_query answers with a vector of the expected width, or raises: the *)
(* provider fails, or returns another width.                               *)
Ask ==
    /\ Asks
    /\ \/ \E w \in session.widths :
              Continues([session EXCEPT !.at = "match", !.vector = <<own, w>>])
       \/ Continues([session EXCEPT !.at = "match", !.degraded = "query_embedding_failed"])

(***************************************************************************)
(* _search.  Candidates, exact or lexical, carry the id of the chunk; n is *)
(* the publication they were found in.                                     *)
(***************************************************************************)
Found(V, C) == {[vault |-> v, n |-> V[v].n] : v \in C}
Ids(C) == {c.vault : c \in C}

Match ==
    /\ session.at = "match"
    /\ LET V == View(session) IN
       \E C \in SUBSET (Present(V) \cap session.scope) :
          /\ session.mode = "dense" => C = {}
          /\ Continues([session EXCEPT
                 !.at = IF session.vector = None THEN "hydrate" ELSE "scope",
                 !.ranked = Found(V, C)])

Scope ==
    /\ session.at = "scope"
    /\ LET W == WidthsInScope(session, View(session)) IN
       \/ W = {session.vector[2]} /\ Continues([session EXCEPT !.at = "dense"])
       \/ /\ W # {session.vector[2]}
          /\ Continues([session EXCEPT
                 !.at = "hydrate",
                 !.degraded = IF W = {} THEN "no_compatible_vectors"
                              ELSE "incompatible_vector_dimensions"])

Dense ==
    /\ session.at = "dense"
    /\ LET V == View(session)
           C == Compatible(session, V)
       IN Continues([session EXCEPT
              !.at = "hydrate",
              !.dense = {[vault |-> v, n |-> V[v].n, by |-> <<V[v].cfg, V[v].width>>] : v \in C},
              !.degraded = IF C = {} THEN "no_compatible_vectors" ELSE @])

Answers(a) ==
    /\ answer' = [a EXCEPT !.mode = session.mode, !.scope = session.scope,
                           !.vector = session.vector, !.revisions = session.pinned,
                           !.vault = session.vault, !.expected = session.expected]
    /\ session' = Idle
    /\ UNCHANGED <<backend, own, index, published, disk>>

(* chunks_by_ids loads what is still there; the coverage reason is added;  *)
(* the identity is that of the revisions the session resolved.             *)
Hydrate ==
    /\ session.at = "hydrate"
    /\ LET V == View(session)
           wanted == Ids(session.ranked) \cup Ids(session.dense)
       IN Answers([NoAnswer EXCEPT
              !.kind = "search",
              !.hits = Found(V, wanted \cap Present(V)),
              !.ranked = session.ranked,
              !.dense = session.dense,
              !.degraded = IF /\ session.mode # "lexical" /\ session.coverage # None
                              /\ session.degraded \in {None, "no_compatible_vectors"}
                           THEN session.coverage ELSE session.degraded])

(***************************************************************************)
(* read, of one source, by a caller that may hold the hash of a hit of an  *)
(* earlier answer.                                                         *)
(***************************************************************************)
OpenRead ==
    \E v \in Vaults :
        \E e \in {None} \cup (IF answer.kind # "search" THEN {}
                              ELSE {h.n : h \in {g \in answer.hits : g.vault = v}}) :
            Begin([Idle EXCEPT !.at = "look", !.vault = v, !.expected = e])

Look ==
    /\ session.at = "look"
    /\ LET V == View(session) IN
       IF V[session.vault] = None THEN Continues(Idle)
       ELSE Continues([session EXCEPT !.at = "load", !.hash = V[session.vault].n])

(* The content of the revision, or the bytes on disk.                      *)
Bytes(s) == IF backend = "postgres" THEN s.pinned[s.vault].n ELSE disk[s.vault]
Verified(s) == Bytes(s) = s.hash /\ s.expected \in {None, Bytes(s)}

Load ==
    /\ session.at = "load"
    /\ \/ ~ Verified(session) /\ Continues(Idle)
       \/ /\ Verified(session)
          /\ Answers([NoAnswer EXCEPT !.kind = "read", !.hash = session.hash,
                                      !.bytes = Bytes(session)])

(* A statement fails: the server has ended the session, for one because it *)
(* stood idle too long in its transaction while the provider was asked.    *)
Fails == session # Idle /\ Continues(Idle)

QueryNext ==
    \/ \E v \in Vaults : Publish(v) \/ Edit(v)
    \/ \E R \in SUBSET Vaults \ {{}} : Rebuild(R)
    \/ OpenSearch \/ Summarise \/ Observe \/ NotAsked \/ Ask
    \/ Match \/ Scope \/ Dense \/ Hydrate
    \/ OpenRead \/ Look \/ Load \/ Fails

QuerySpec == QueryInit /\ [][QueryNext]_queryVars

(* What a request on PostgreSQL returns is what the revisions it names     *)
(* hold: no hit, rank or text comes from a revision published meanwhile,   *)
(* and every candidate that was ranked is returned.  What read returns     *)
(* has the indexed hash and, if the caller passed the hash of a hit, is    *)
(* what the hit was taken from, whichever the store.                       *)
AnswersTrue ==
    /\ answer.kind = "search" /\ answer.revisions # None =>
          /\ \A h \in answer.hits : h.n = answer.revisions[h.vault].n
          /\ \A r \in answer.ranked : r \in answer.hits
          /\ \A d \in answer.dense : [vault |-> d.vault, n |-> d.n] \in answer.hits
    /\ answer.kind = "read" =>
          /\ answer.bytes = answer.hash
          /\ answer.expected \in {None, answer.bytes}
          /\ answer.revisions # None => answer.bytes = answer.revisions[answer.vault].n

(* The vector of a query is only compared with vectors of the same         *)
(* configuration and width, even if indexers switch configurations between *)
(* the judgement and the search.  On PostgreSQL, moreover, no query goes   *)
(* to a remote endpoint when a vault of the answer is local-only, and an   *)
(* answer that is not degraded has ranked every chunk in its scope by its  *)
(* vector: the judgement and the search saw the same revisions.            *)
DenseHonest ==
    answer.kind = "search" =>
        /\ \A d \in answer.dense : d.by = answer.vector
        /\ answer.revisions # None =>
              /\ answer.vector # None /\ own \in Remote =>
                    \A v \in Vaults : ~ answer.revisions[v].localOnly
              /\ answer.mode # "lexical" /\ answer.degraded = None =>
                    \A v \in answer.scope : \E d \in answer.dense : d.vault = v

=============================================================================
