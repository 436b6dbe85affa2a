----------------------------- MODULE MCDataPath -----------------------------
(***************************************************************************)
(* Instances of the three modules on the way of a text to an answer: it is *)
(* cut into chunks (Chunking), the chunks are given vectors (Embedding),   *)
(* and requests find them (QuerySession).  Each hands to the next values   *)
(* that do not change any more, so that they are explored side by side:    *)
(* a behaviour takes the steps of one part, and the others stay where they *)
(* began.                                                                  *)
(***************************************************************************)
EXTENDS Chunking, Embedding, QuerySession, TLC

CONSTANTS x1, x2, x3, w1, w2, v1, v2, c1, c2, d1, d2

VARIABLE part

(* Texts of one and of two lines' tokens, long ones that have to be cut,   *)
(* fences, headings and rules, in every order.                             *)
Line(kind, level, w) == [kind |-> kind, level |-> level, width |-> w]
Lines == {Line("text", 0, 3), Line("text", 0, 13), Line("blank", 0, 1), Line("rule", 0, 1),
          Line("fence", 0, 1), Line("info", 0, 2), Line("inline", 0, 3), Line("deep", 0, 5),
          Line("head", 1, 1), Line("head", 2, 1)}
Document(s) ==
    LET upto[i \in 0..Len(s)] == IF i = 0 THEN 0 ELSE upto[i - 1] + s[i].width
    IN [lines |-> [i \in 1..Len(s) |-> [kind |-> s[i].kind, level |-> s[i].level]], upto |-> upto]
MCDocuments == {Document(s) : s \in UNION {[1..n -> Lines] : n \in 0..4}}

(* A tokenizer with tokens of two characters, none across lines: where     *)
(* they begin depends on where the text does.  Prefixes grow with the      *)
(* depth of the heading and with front matter.                             *)
LineStart(d, x) == d.upto[CHOOSE i \in DOMAIN d.upto : d.upto[i] < x /\ d.upto[i + 1] >= x] + 1
StartOfToken(d, t, i) ==
    LET from == LineStart(d, t[i])
    IN (t[i] - (IF from < t[1] THEN t[1] ELSE from)) % 2 = 0
Starts(d, t) == {i \in DOMAIN t : StartOfToken(d, t, i)}
Prefix(d, n) == IF n = 0 THEN 0 ELSE <<1, 2, 6>>[n] + (IF FrontMatter(d) THEN 1 ELSE 0)
MCCount(d, n, t) == Prefix(d, n) + Cardinality(Starts(d, t))
MCTakeTail(d, t, n) ==
    LET S == Starts(d, t)
    IN IF n = 0 THEN <<>>
       ELSE IF Cardinality(S) <= n THEN t
       ELSE SubSeq(t, CHOOSE i \in S : Cardinality({j \in S : j >= i}) = n, Len(t))

(* Text x3 is larger than a batch.  A second source may share texts.       *)
MCSize == x1 :> 1 @@ x2 :> 2 @@ x3 :> 4
MCRuns == {<<s, r>> : s \in [1..3 -> Texts], r \in UNION {[1..k -> Texts] : k \in 0..1}}

MCSymmetry == Permutations(Vaults) \cup Permutations(Dims)

(* A part that takes no step is where its behaviours may begin.            *)
NoChunking == source = [doc |-> Document(<<>>), markdown |-> FALSE] /\ ChunkInit
NoEmbedding ==
    /\ todo = <<<<x1, x1, x1>>, <<>>>> /\ usable = FALSE
    /\ configured = Absent /\ stored = [t \in Texts |-> Absent]
    /\ EmbedInit
NoQuery ==
    /\ backend = "postgres" /\ own = c1 /\ index = [v \in Vaults |-> None]
    /\ QueryInit

MCInit ==
    \/ part = "chunk" /\ NoEmbedding /\ NoQuery /\ ChunkInit
    \/ part = "embed" /\ NoChunking /\ NoQuery /\ EmbedInit
    \/ part = "query" /\ NoChunking /\ NoEmbedding /\ QueryInit

MCNext ==
    \/ part = "chunk" /\ ChunkNext /\ UNCHANGED <<embedVars, queryVars, part>>
    \/ part = "embed" /\ EmbedNext /\ UNCHANGED <<chunkVars, queryVars, part>>
    \/ part = "query" /\ QueryNext /\ UNCHANGED <<chunkVars, embedVars, part>>

MCSpec == MCInit /\ [][MCNext]_<<chunkVars, embedVars, queryVars, part>>
=============================================================================
