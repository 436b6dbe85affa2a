----------------------------- MODULE Embedding ------------------------------
(***************************************************************************)
(* How the chunks of the sources of one run get their vectors: vectors the *)
(* store has or the run has made already are reused, the other texts are   *)
(* planned into batches, each batch is asked of the provider with retries, *)
(* and what comes back, batch by batch and with batches missing, is put    *)
(* together with the chunks again.                                         *)
(*                                                                         *)
(* Sources: embedding/batching.py, embedding/client.py,                    *)
(* indexing/service.py.                                                    *)
(* A text stands for its content hash; a vector tells the text the         *)
(* provider computed it for, and its width.  The values of vectors, their  *)
(* normalisation, the delays between attempts and the wording of failures  *)
(* are left out.                                                           *)
(***************************************************************************)
EXTENDS Naturals, Sequences, FiniteSets, Functions

CONSTANTS
    Texts, Size,        \* texts and their number of tokens
    Runs,               \* sequences of sources, each the sequence of its chunks' texts
    Widths,             \* widths a provider may answer with
    ConfiguredWidths,   \* what the configuration asks for: widths or Absent
    MaxItems, MaxTokens,
    MaxAttempts,
    Absent

ASSUME EmbeddingAssumption ==
    /\ Size \in [Texts -> Nat] /\ Runs \subseteq Seq(Seq(Texts))
    /\ MaxItems \in Nat \ {0} /\ MaxTokens \in Nat \ {0} /\ MaxAttempts \in Nat \ {0}
    /\ ConfiguredWidths \subseteq Widths \cup {Absent} /\ Absent \notin Widths
    /\ Absent \notin [of : Texts, width : Widths]

VARIABLES
    todo,       \* sources still to be embedded; the first is under way
    usable,     \* whether the model and the key are configured
    configured, \* config.dimensions
    stored,     \* the width of the vector the store has of a text, or Absent
    reusable,   \* the vectors this run may reuse
    failed,     \* texts that failed in this run
    phase,      \* "reuse", "plan", "request", "align", "clone"
    inputs,     \* the texts to embed
    planned,    \* how many of them the planning has looked at
    filling,    \* the batch that is being filled, and its tokens
    load,
    batches,    \* batches still to be asked for, sequences of indexes of inputs
    attempt,
    vectors,    \* vectors received, batch after batch
    failures,   \* indexes of inputs that have none
    width,      \* dimensions of the result
    done,       \* what the chunks of the finished sources were given
    asked       \* how often a batch with a text was planned

embedVars == <<todo, usable, configured, stored, reusable, failed, phase, inputs, planned,
               filling, load, batches, attempt, vectors, failures, width, done, asked>>

EmbedInit ==
    /\ todo \in Runs
    /\ usable \in BOOLEAN
    /\ configured \in ConfiguredWidths
    /\ stored \in [Texts -> Widths \cup {Absent}]
    /\ \A t \in Texts : configured # Absent => stored[t] \in {configured, Absent}
    /\ reusable = [t \in Texts |-> Absent] /\ failed = {}
    /\ phase = "reuse"
    /\ inputs = <<>> /\ planned = 0 /\ filling = <<>> /\ load = 0
    /\ batches = <<>> /\ attempt = 1
    /\ vectors = <<>> /\ failures = {} /\ width = Absent
    /\ done = <<>> /\ asked = [t \in Texts |-> 0]

(***************************************************************************)
(* The first half of _embed_with_reuse: what the store has is reused if it *)
(* was made with this configuration, and one chunk stands for all that     *)
(* have its text.  An unusable client fails every input.                   *)
(***************************************************************************)
Unresolved(chunks) == {t \in Range(chunks) : reusable[t] = Absent /\ t \notin failed}

Before(chunks, t, u) == \E i \in DOMAIN chunks : chunks[i] = t /\ \A j \in 1..i : chunks[j] # u

Reuse ==
    /\ phase = "reuse" /\ todo # <<>>
    /\ LET chunks == Head(todo)
           found == {t \in Unresolved(chunks) : stored[t] # Absent}
           missing == Unresolved(chunks) \ found
       IN /\ reusable' = [t \in Texts |-> IF t \in found THEN [of |-> t, width |-> stored[t]]
                                          ELSE reusable[t]]
          /\ inputs' \in {s \in [1..Cardinality(missing) -> missing] :
                            \A m, n \in DOMAIN s : m < n => Before(chunks, s[m], s[n])}
    /\ phase' = IF usable /\ inputs' # <<>> THEN "plan" ELSE "request"
    /\ failures' = IF usable THEN {} ELSE DOMAIN inputs'
    /\ width' = IF usable /\ inputs' # <<>> THEN configured ELSE Absent
    /\ UNCHANGED <<todo, usable, configured, stored, failed, planned, filling, load, batches,
                   attempt, vectors, done, asked>>

(***************************************************************************)
(* plan_batches: one round of its loop for each input, and the batch that  *)
(* is still open at the end.                                               *)
(***************************************************************************)
Full(i) == filling # <<>> /\ (Len(filling) >= MaxItems \/ load + Size[inputs[i]] > MaxTokens)

Place ==
    /\ phase = "plan" /\ planned < Len(inputs)
    /\ planned' = planned + 1
    /\ LET i == planned + 1
           n == Size[inputs[i]]
       IN \/ /\ n > MaxTokens
             /\ failures' = failures \cup {i}
             /\ UNCHANGED <<filling, load, batches>>
          \/ /\ n <= MaxTokens /\ Full(i)
             /\ batches' = Append(batches, filling)
             /\ filling' = <<i>> /\ load' = n
             /\ UNCHANGED failures
          \/ /\ n <= MaxTokens /\ ~ Full(i)
             /\ filling' = Append(filling, i) /\ load' = load + n
             /\ UNCHANGED <<failures, batches>>
    /\ UNCHANGED <<todo, usable, configured, stored, reusable, failed, phase, inputs, attempt,
                   vectors, width, done, asked>>

Planned ==
    /\ phase = "plan" /\ planned = Len(inputs)
    /\ batches' = IF filling = <<>> THEN batches ELSE Append(batches, filling)
    /\ asked' = [t \in Texts |-> asked[t] + Cardinality({i \in DOMAIN inputs :
                                     inputs[i] = t /\ \E b \in Range(batches') : i \in Range(b)})]
    /\ planned' = 0 /\ filling' = <<>> /\ load' = 0
    /\ phase' = "request"
    /\ UNCHANGED <<todo, usable, configured, stored, reusable, failed, inputs, attempt, vectors,
                   failures, width, done>>

(***************************************************************************)
(* _request: transport errors, 429 and 5xx are tried again, other errors   *)
(* are not.                                                                *)
(***************************************************************************)
Asking == phase = "request" /\ batches # <<>>

Retry ==
    /\ Asking /\ attempt < MaxAttempts
    /\ attempt' = attempt + 1
    /\ UNCHANGED <<todo, usable, configured, stored, reusable, failed, phase, inputs, planned,
                   filling, load, batches, vectors, failures, width, done, asked>>

BatchDone(V, F, w) ==
    /\ vectors' = V /\ failures' = F /\ width' = w
    /\ batches' = Tail(batches) /\ attempt' = 1
    /\ UNCHANGED <<todo, usable, configured, stored, reusable, failed, phase, inputs, planned, filling,
                   load, done, asked>>

Refused == Asking /\ BatchDone(vectors, failures \cup Range(Head(batches)), width)

(***************************************************************************)
(* A response: items with an index into the batch, in any order.  A        *)
(* provider computes item n for input n, but it may leave items out,       *)
(* repeat an index or mix widths; _normalized_vectors refuses those, and a *)
(* width other than expected.                                              *)
(***************************************************************************)
Responses(batch) ==
    LET Items == {[index |-> n, vector |-> [of |-> inputs[batch[n]], width |-> w]] :
                     n \in DOMAIN batch, w \in Widths}
    IN [DOMAIN batch -> Items] \cup {<<>>}

Valid(r, batch) ==
    /\ Len(r) = Len(batch)
    /\ \A m, n \in DOMAIN r : m # n => r[m].index # r[n].index
    /\ \A m, n \in DOMAIN r : r[m].vector.width = r[n].vector.width
    /\ width # Absent => \A n \in DOMAIN r : r[n].vector.width = width

AsReceived(r) == [n \in DOMAIN r |-> r[n].vector]     \* variant: the indexes are not looked at
ByIndex(r) == [n \in DOMAIN r |-> (CHOOSE item \in Range(r) : item.index = n).vector]

Answered ==
    /\ Asking
    /\ LET batch == Head(batches) IN
       \E r \in Responses(batch) :
          \/ ~ Valid(r, batch) /\ BatchDone(vectors, failures \cup Range(batch), width)
          \/ /\ Valid(r, batch)
             /\ BatchDone(vectors \o ByIndex(r), failures, r[1].vector.width)

Embedded ==
    /\ phase = "request" /\ batches = <<>>
    /\ phase' = "align"
    /\ UNCHANGED <<todo, usable, configured, stored, reusable, failed, inputs, planned, filling, load,
                   batches, attempt, vectors, failures, width, done, asked>>

(***************************************************************************)
(* _embedding_records: the vectors belong, in order, to the inputs without *)
(* a failure, unless the counts disagree.                                  *)
(***************************************************************************)
Consistent == Len(vectors) + Cardinality(failures) = Len(inputs)
              /\ (vectors # <<>> => width # Absent)

VectorFor(i) == vectors[Cardinality({j \in 1..i : j \notin failures})]
Given(i) == Consistent /\ i \notin failures /\ VectorFor(i).width = width

Align ==
    /\ phase = "align"
    /\ LET index(t) == CHOOSE i \in DOMAIN inputs : inputs[i] = t IN
       /\ reusable' = [t \in Texts |-> IF t \in Range(inputs) /\ Given(index(t))
                                       THEN VectorFor(index(t)) ELSE reusable[t]]
       /\ failed' = failed \cup {inputs[i] : i \in {j \in DOMAIN inputs : ~ Given(j)}}
    /\ phase' = "clone"
    /\ UNCHANGED <<todo, usable, configured, stored, inputs, planned, filling, load, batches,
                   attempt, vectors, failures, width, done, asked>>

(***************************************************************************)
(* The second half of _embed_with_reuse: each chunk gets a vector of its   *)
(* own, or is pending.                                                     *)
(***************************************************************************)
Clone ==
    /\ phase = "clone"
    /\ done' = Append(done, [i \in DOMAIN Head(todo) |->
                               [text |-> Head(todo)[i], vector |-> reusable[Head(todo)[i]]]])
    /\ todo' = Tail(todo)
    /\ phase' = "reuse"
    /\ inputs' = <<>> /\ vectors' = <<>> /\ failures' = {} /\ width' = Absent
    /\ UNCHANGED <<usable, configured, stored, reusable, failed, planned, filling, load, batches,
                   attempt, asked>>

EmbedNext == Reuse \/ Place \/ Planned \/ Retry \/ Refused \/ Answered \/ Embedded \/ Align \/ Clone

EmbedSpec == EmbedInit /\ [][EmbedNext]_embedVars

(* The vector a chunk is given is the one that was computed for its text,  *)
(* although batches fail, answers come out of order and texts are shared;  *)
(* and what one call of the provider brought has one width, the configured *)
(* one if there is one.  A text is asked for at most once in a run, and    *)
(* not at all if the store has its vector.                                 *)
VectorsMatch ==
    /\ \A k \in DOMAIN done : \A i \in DOMAIN done[k] :
          LET c == done[k][i] IN
          c.vector # Absent =>
             /\ c.vector.of = c.text
             /\ configured # Absent => c.vector.width = configured
    /\ \A m, n \in DOMAIN vectors : vectors[m].width = vectors[n].width
    /\ \A t \in Texts : asked[t] <= IF stored[t] = Absent THEN 1 ELSE 0

=============================================================================
