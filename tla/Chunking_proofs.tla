-------------------------- MODULE Chunking_proofs --------------------------
(***************************************************************************)
(* The chunks of every document are faithful to it, for every tokenizer    *)
(* and every configuration: a character is its place in the document, so   *)
(* that a text is a passage of it, and the work on a section is a chain of *)
(* texts from its first character to its last.                             *)
(***************************************************************************)
EXTENDS Chunking, FiniteSetTheorems, SequenceTheorems, TLAPS

(***************************************************************************)
(* Numbers: the least and the greatest element of a set.                   *)
(***************************************************************************)
(* Every set of numbers has a least element, from the library's theorem on *)
(* the finite subsets of a finite set.  Arguments by induction are made    *)
(* with the least or the greatest element of a set of counterexamples.     *)
LEMMA LeastElement ==
    ASSUME NEW S \in SUBSET Nat, S # {}
    PROVE  \E x \in S : \A y \in S : x <= y
<1>1. PICK m \in S : TRUE
  OBVIOUS
<1> DEFINE Below == {0..n : n \in S \cap (0..m)}
           R == StrictSubsetOrdering(0..m)
<1>2. IsFiniteSet(0..m)
  BY <1>1, FS_Interval
<1>3. IsWellFoundedOn(R, FiniteSubsetsOf(0..m))
  BY <1>2, FS_StrictSubsetOrderingWellFounded
<1>4. Below \subseteq FiniteSubsetsOf(0..m) /\ Below # {}
  BY <1>1, <1>2, FS_Subset DEF FiniteSubsetsOf
<1>5. PICK u \in Below : \A v \in Below : <<v, u>> \notin R
  <2> HIDE DEF Below, R
  <2> QED  BY <1>3, <1>4, WFMin
<1>6. PICK x \in S \cap (0..m) : u = 0..x
  BY <1>5
<1>7. ASSUME NEW y \in S, y < x PROVE FALSE
  <2>1. 0..y \in Below /\ y \in Nat /\ x \in Nat /\ m \in Nat
    BY <1>6, <1>7
  <2>2. /\ 0..y \subseteq 0..x /\ 0..y # 0..x
        /\ 0..y \in SUBSET (0..m) /\ 0..x \in SUBSET (0..m)
    BY <1>6, <1>7, <2>1
  <2>3. <<0..y, u>> \in R
    BY <2>2, <1>6 DEF StrictSubsetOrdering
  <2> QED  BY <1>5, <2>1, <2>3
<1> QED  BY <1>6, <1>7

(* Least chooses it.                                                       *)
LEMMA LeastIs ==
    ASSUME NEW S \in SUBSET Nat, S # {}
    PROVE  Least(S) \in S /\ \A y \in S : Least(S) <= y
BY LeastElement DEF Least

(* A set of numbers that is bounded has a greatest one.                    *)
LEMMA GreatestElement ==
    ASSUME NEW m \in Nat, NEW S \in SUBSET (0..m), S # {}
    PROVE  \E x \in S : \A y \in S : y <= x
<1> DEFINE T == {m - x : x \in S}
<1>1. T \in SUBSET Nat /\ T # {}
  OBVIOUS
<1>2. PICK t \in T : \A u \in T : t <= u
  <2> HIDE DEF T
  <2> QED  BY <1>1, LeastElement
<1>3. PICK x \in S : t = m - x
  OBVIOUS
<1>4. ASSUME NEW y \in S PROVE y <= x
  <2>1. m - y \in T /\ m - x <= m - y
    BY <1>2, <1>3
  <2> QED  BY <2>1
<1> QED  BY <1>4

(***************************************************************************)
(* Passages: their characters, their parts, and two that are adjacent.     *)
(***************************************************************************)
(* The characters of a passage.                                            *)
LEMMA PassageIs ==
    ASSUME NEW a \in Nat, NEW b \in Nat, a <= b
    PROVE  /\ Passage(a, b) \in Seq(Nat) /\ Len(Passage(a, b)) = b - a
           /\ \A n \in 1..(b - a) : Passage(a, b)[n] = a + n
           /\ a < b => /\ Passage(a, b) # <<>>
                       /\ Passage(a, b)[1] = a + 1 /\ Passage(a, b)[Len(Passage(a, b))] = b
           /\ a = b => Passage(a, b) = <<>>
BY DEF Passage

(* Two that are adjacent are one.                                          *)
LEMMA PassagesJoin ==
    ASSUME NEW a \in Nat, NEW b \in Nat, NEW c \in Nat, a <= b, b <= c
    PROVE  Passage(a, b) \o Passage(b, c) = Passage(a, c)
BY DEF Passage

(* A part of a passage is a passage.                                       *)
LEMMA PassagePart ==
    ASSUME NEW a \in Nat, NEW b \in Nat, a <= b,
           NEW i \in 1..(b - a + 1), NEW j \in (i - 1)..(b - a)
    PROVE  SubSeq(Passage(a, b), i, j) = Passage(a + i - 1, a + j)
BY DEF Passage

(* Texts: passages that begin at or after n, with their offset from there. *)
Begin(x) == x.text[1] - 1
End(x) == Final(x)
IsText(x, n) ==
    /\ Begin(x) \in Nat /\ End(x) \in Nat /\ n <= Begin(x) /\ Begin(x) < End(x)
    /\ x.text = Passage(Begin(x), End(x)) /\ x.offset = Begin(x) - n

(* A passage with its offset is a text.                                    *)
LEMMA TextIs ==
    ASSUME NEW x, NEW n \in Nat, NEW a \in Nat, NEW b \in Nat, n <= a, a < b,
           x.text = Passage(a, b), x.offset = a - n
    PROVE  IsText(x, n) /\ Begin(x) = a /\ End(x) = b
<1>1. Passage(a, b)[1] = a + 1 /\ Passage(a, b)[Len(Passage(a, b))] = b
  <2>1. a <= b
    OBVIOUS
  <2> QED  BY <2>1, PassageIs
<1> QED  BY <1>1 DEF IsText, Begin, End, Final

(* A chain of texts covers the characters after the a-th up to the b-th.   *)
Chain(s, n, a, b) ==
    /\ \A i \in 1..Len(s) : IsText(s[i], n)
    /\ s = <<>> => a = b
    /\ s # <<>> => Begin(s[1]) = a /\ End(s[Len(s)]) = b
    /\ \A i \in 1..Len(s) : i > 1 => Begin(s[i]) = End(s[i - 1])

(* A chain grows at its end.                                               *)
LEMMA ChainAppend ==
    ASSUME NEW S, NEW s \in Seq(S), NEW x \in S, NEW n \in Nat, NEW a \in Nat, NEW b \in Nat,
           Chain(s, n, a, b), IsText(x, n), Begin(x) = b
    PROVE  Chain(Append(s, x), n, a, End(x))
<1> DEFINE t == Append(s, x)
<1>1. /\ Len(s) \in Nat /\ Len(t) = Len(s) + 1 /\ t # <<>>
      /\ \A i \in 1..Len(s) : t[i] = s[i]
      /\ t[Len(t)] = x
      /\ s = <<>> <=> Len(s) = 0
  OBVIOUS
<1> HIDE DEF t
<1>2. \A i \in 1..Len(t) : IsText(t[i], n)
  BY <1>1 DEF Chain
<1>3. Begin(t[1]) = a
  BY <1>1 DEF Chain
<1>4. ASSUME NEW i \in 1..Len(t), i > 1 PROVE Begin(t[i]) = End(t[i - 1])
  <2>1. CASE i <= Len(s)
    BY <1>1, <1>4, <2>1 DEF Chain
  <2>2. CASE i = Len(t)
    BY <1>1, <1>4, <2>2 DEF Chain
  <2> QED  BY <1>1, <2>1, <2>2
<1> QED  BY <1>1, <1>2, <1>3, <1>4 DEF Chain, t

(* A chain without its first text is one from the end of that text.        *)
LEMMA ChainHead ==
    ASSUME NEW S, NEW s \in Seq(S), s # <<>>, NEW n \in Nat, NEW a \in Nat, NEW b \in Nat,
           Chain(s, n, a, b)
    PROVE  /\ IsText(Head(s), n) /\ Begin(Head(s)) = a
           /\ Chain(Tail(s), n, End(Head(s)), b)
<1> DEFINE t == Tail(s)
<1>1. /\ Len(s) \in Nat /\ Len(s) >= 1 /\ Len(t) = Len(s) - 1
      /\ \A i \in 1..Len(t) : t[i] = s[i + 1]
      /\ Head(s) = s[1] /\ t \in Seq(S)
  OBVIOUS
<1>2. t = <<>> <=> Len(t) = 0
  <2> HIDE DEF t
  <2> QED  BY <1>1
<1> HIDE DEF t
<1>3. IsText(Head(s), n) /\ Begin(Head(s)) = a
  BY <1>1 DEF Chain
<1>4. \A i \in 1..Len(t) : IsText(t[i], n)
  <2>1. \A i \in 1..Len(t) : i + 1 \in 1..Len(s) /\ t[i] = s[i + 1]
    BY <1>1
  <2> QED  BY <2>1 DEF Chain
<1>5. t = <<>> => End(Head(s)) = b
  <2>1. t = <<>> => Len(s) = 1
    BY <1>1, <1>2
  <2> QED  BY <1>1, <2>1 DEF Chain
<1>6. ASSUME t # <<>> PROVE Begin(t[1]) = End(Head(s)) /\ End(t[Len(t)]) = b
  <2>1. 2 \in 1..Len(s) /\ t[1] = s[2] /\ t[Len(t)] = s[Len(s)]
    BY <1>1, <1>2, <1>6
  <2> QED  BY <1>1, <2>1 DEF Chain
<1>7. ASSUME NEW i \in 1..Len(t), i > 1 PROVE Begin(t[i]) = End(t[i - 1])
  <2>1. i + 1 \in 1..Len(s) /\ t[i] = s[i + 1] /\ t[i - 1] = s[i]
    BY <1>1, <1>7
  <2> QED  BY <2>1, <1>7 DEF Chain
<1> QED  BY <1>3, <1>4, <1>5, <1>6, <1>7 DEF Chain, t

(* A chain does not go backwards.                                          *)
LEMMA ChainBounds ==
    ASSUME NEW S, NEW s \in Seq(S), NEW n \in Nat, NEW a \in Nat, NEW b \in Nat,
           Chain(s, n, a, b)
    PROVE  a <= b
<1>1. Len(s) \in Nat /\ (s = <<>> <=> Len(s) = 0)
  OBVIOUS
<1> DEFINE Behind == {i \in 1..Len(s) : End(s[i]) <= a}
<1>5. Behind \in SUBSET Nat /\ \A i : i \in Behind <=> i \in 1..Len(s) /\ End(s[i]) <= a
  BY <1>1
<1> HIDE DEF Behind
<1>2. CASE s = <<>>
  BY <1>2 DEF Chain
<1>3. CASE s # <<>> /\ Behind = {}
  <2>1. 1 \in 1..Len(s) /\ Len(s) \in 1..Len(s) /\ Len(s) \notin Behind
    BY <1>1, <1>3
  <2>2. ~ (b <= a)
    BY <1>3, <1>5, <2>1 DEF Chain
  <2> QED  BY <2>2
<1>4. CASE Behind # {}
  <2>1. PICK i \in Behind : \A j \in Behind : i <= j
    BY <1>4, <1>5, LeastElement
  <2>2. CASE i = 1
    BY <1>1, <1>5, <2>1, <2>2 DEF Chain, IsText
  <2>3. CASE i > 1
    <3>1. i - 1 \in 1..Len(s) /\ i \in 1..Len(s) /\ i - 1 \notin Behind
      BY <1>1, <1>5, <2>1, <2>3
    <3>2. Begin(s[i]) = End(s[i - 1]) /\ IsText(s[i], n) /\ IsText(s[i - 1], n)
      BY <3>1, <2>3 DEF Chain
    <3>3. End(s[i]) <= a /\ ~ (End(s[i - 1]) <= a)
      BY <1>5, <2>1, <3>1
    <3> QED  BY <3>2, <3>3 DEF IsText
  <2> QED  BY <1>1, <1>5, <2>1, <2>2, <2>3
<1> QED  BY <1>2, <1>3, <1>4

(***************************************************************************)
(* The inductive invariant.  The texts that stand for the section being    *)
(* worked on are consecutive: blocks up to the block being scanned; then   *)
(* pieces and, after them, blocks; then the current chunk, with the chunks *)
(* before it, and pieces.  No block but a fence is cut, so a fence is kept *)
(* whole from the block that holds it to the chunk that does.              *)
(***************************************************************************)
Places == {"front", "parse", "section", "scan", "split", "cut", "pack", "done", "failed"}
Sections == [first : Nat, last : Nat, path : SUBSET Nat]
Texts == [text : Seq(Nat), offset : Nat]
Blocks == [text : Seq(Nat), offset : Nat, whole : BOOLEAN]
Records == [text : Seq(Nat), lines : Nat \X Nat]

ChunkTypeOK ==
    /\ source \in [doc : Documents, markdown : BOOLEAN]
    /\ stage \in Places
    /\ line \in Nat /\ start \in Nat /\ cut \in Nat
    /\ headings \in Seq(Nat) /\ sections \in Seq(Sections)
    /\ blocks \in Seq(Blocks) /\ pieces \in Seq(Texts)
    /\ current \in Texts /\ packed \in Seq(Texts)
    /\ chunks \in Seq(Seq(Records))
    /\ fences \in SUBSET (Nat \X Nat)

(* The headings found so far, in order, after the front matter.            *)
HeadingsOK ==
    /\ stage = "front" => headings = <<>>
    /\ source.markdown /\ stage # "front" => ContentStart(doc) \in 1..(Len(doc.lines) + 1)
    /\ stage = "parse" =>
          /\ source.markdown /\ line \in ContentStart(doc)..(Len(doc.lines) + 1)
          /\ \A k \in 1..Len(headings) : headings[k] \in ContentStart(doc)..(line - 1)
          /\ \A j, k \in 1..Len(headings) : j < k => headings[j] < headings[k]

SectionsOK ==
    stage \notin {"front", "parse"} =>
        /\ \A k \in 1..Len(sections) :
              sections[k].first \in 1..sections[k].last /\ sections[k].last <= Len(doc.lines)
        /\ \A i \in 1..Len(doc.lines) :
              ~ Blank(doc, i) /\ (source.markdown => i >= ContentStart(doc)) => Divided(sections, i)

(* Between sections nothing is under way; and where the work on a section  *)
(* stands, the texts of it follow one another from its first character on. *)
Empty == blocks = <<>> /\ pieces = <<>> /\ packed = <<>> /\ current = NoText
Low == doc.upto[section.first - 1]
High == doc.upto[section.last]

BetweenOK ==
    /\ stage \in {"front", "parse"} => chunks = <<>> /\ fences = {}
    /\ stage \in {"front", "parse", "section", "done"} => Empty
    /\ stage \notin {"front", "parse"} => Len(chunks) <= Len(sections)
    /\ stage = "done" => Len(chunks) = Len(sections)
    /\ stage \in {"scan", "split", "cut", "pack"} => Len(chunks) < Len(sections)

ScanOK ==
    stage = "scan" =>
        /\ pieces = <<>> /\ packed = <<>> /\ current = NoText
        /\ section.first <= start /\ start <= line /\ line <= section.last + 1
        /\ Chain(blocks, Low, Low, doc.upto[start - 1])

SplitOK ==
    stage \in {"split", "cut"} =>
        /\ packed = <<>> /\ current = NoText
        /\ stage = "cut" => blocks # <<>> /\ ~ Head(blocks).whole /\ cut < Len(Head(blocks).text)
        /\ \E m \in Low..High : /\ Chain(blocks, Low, m, High)
                                /\ Chain(pieces, Low, Low, m + (IF stage = "cut" THEN cut ELSE 0))

(* Chunks that overlap by no more than they may.                           *)
Follows(d, x, y) ==
    /\ Begin(x) < Begin(y) /\ Begin(y) <= End(x) /\ End(x) < End(y)
    /\ Begin(y) < End(x) => Count(d, 0, Passage(Begin(y), End(x))) \in 0..Overlap

Laid(d, s, x, n) ==    \* the chunks s, and x after them
    /\ IsText(x, n) /\ \A i \in 1..Len(s) : IsText(s[i], n) /\ End(s[i]) < End(x)
    /\ s = <<>> => Begin(x) = n
    /\ s # <<>> => Begin(s[1]) = n /\ Follows(d, s[Len(s)], x)
    /\ \A i \in 1..Len(s) : i > 1 => Follows(d, s[i - 1], s[i])

PackOK ==
    stage = "pack" =>
        /\ blocks = <<>>
        /\ current = NoText => packed = <<>> /\ Chain(pieces, Low, Low, High)
        /\ current # NoText => /\ Chain(pieces, Low, End(current), High)
                               /\ Laid(doc, packed, current, Low)

(* A fence is whole in a chunk, or in what will be one.                    *)
Holds(x, a, b) == Begin(x) <= a /\ b <= End(x)
Kept(a, b) ==
    \/ \E i \in 1..Len(blocks) : blocks[i].whole /\ Holds(blocks[i], a, b)
    \/ \E i \in 1..Len(pieces) : Holds(pieces[i], a, b)
    \/ \E i \in 1..Len(packed) : Holds(packed[i], a, b)
    \/ current # NoText /\ Holds(current, a, b)

FenceOK(f) ==
    /\ f[1] \in 1..f[2] /\ f[2] <= Len(doc.lines)
    /\ Whole(doc, f, chunks) \/ Kept(doc.upto[f[1] - 1], doc.upto[f[2]])
FencesOK == \A f \in fences : FenceOK(f)

RecordsOK ==
    \A k \in 1..Len(chunks) : /\ Covered(doc, sections[k], chunks[k])
                              /\ WithinBudgets(doc, sections[k], chunks[k])

Sound ==
    /\ HeadingsOK /\ SectionsOK /\ BetweenOK
    /\ ScanOK /\ SplitOK /\ PackOK
    /\ FencesOK /\ RecordsOK

ChunkInv == ChunkTypeOK /\ (stage # "failed" => Sound)

(***************************************************************************)
(* Documents.                                                              *)
(***************************************************************************)
(* The document of a source is split into lines,                           *)
LEMMA DocumentIs ==
    ASSUME ChunkTypeOK
    PROVE  doc \in Documents /\ IsSplit(doc) /\ source.markdown \in BOOLEAN
BY ChunkingAssumption DEF ChunkTypeOK, doc

(* and the lines of a document end one after another.                      *)
LEMMA LinesAre ==
    ASSUME NEW d, IsSplit(d)
    PROVE  /\ Len(d.lines) \in Nat
           /\ \A i \in 1..Len(d.lines) : Kind(d, i) \in Kinds /\ d.lines[i].level \in Nat
           /\ d.upto[0] = 0
           /\ \A i \in 0..Len(d.lines) : d.upto[i] \in Nat
           /\ \A i, j \in 0..Len(d.lines) : i < j => d.upto[i] < d.upto[j]
           /\ \A i, j \in 0..Len(d.lines) : i <= j => d.upto[i] <= d.upto[j]
<1>1. /\ Len(d.lines) \in Nat
      /\ \A i \in 0..Len(d.lines) : d.upto[i] \in Nat
      /\ d.upto[0] = 0
      /\ \A i, j \in 0..Len(d.lines) : i < j => d.upto[i] < d.upto[j]
  BY DEF IsSplit
<1>2. ASSUME NEW i \in 1..Len(d.lines)
      PROVE  Kind(d, i) \in Kinds /\ d.lines[i].level \in Nat
  <2>1. d.lines \in Seq([kind : Kinds, level : Nat])
    BY DEF IsSplit
  <2>2. d.lines[i] \in [kind : Kinds, level : Nat]
    BY <2>1, ElementOfSeq
  <2> QED  BY <2>2 DEF Kind
<1>3. ASSUME NEW i \in 0..Len(d.lines), NEW j \in 0..Len(d.lines), i <= j
      PROVE  d.upto[i] <= d.upto[j]
  <2>1. CASE i = j
    BY <1>1, <2>1
  <2>2. CASE i < j
    BY <1>1, <2>2
  <2> QED  BY <1>1, <1>3, <2>1, <2>2
<1> QED  BY <1>1, <1>2, <1>3

(* A fence ends in the section, at the line that opens it or later.        *)
LEMMA FenceEnds ==
    ASSUME NEW d, NEW n \in Nat, NEW i \in 1..n, NEW closers
    PROVE  EndOfFence(d, i, n, closers) \in i..n
<1> DEFINE closing == {j \in (i + 1)..n : Kind(d, j) \in closers}
<1>1. CASE closing = {}
  BY <1>1 DEF EndOfFence
<1>2. CASE closing # {}
  <2>1. closing \in SUBSET Nat
    OBVIOUS
  <2>2. Least(closing) \in closing
    BY <1>2, <2>1, LeastIs
  <2> QED  BY <1>2, <2>2 DEF EndOfFence
<1> QED  BY <1>1, <1>2

(* A run of blank lines ends in the section, at its first line or later.   *)
LEMMA GapEnds ==
    ASSUME NEW d, NEW n \in Nat, NEW i \in 1..n, Blank(d, i)
    PROVE  EndOfGap(d, i, n) \in i..n
<1> DEFINE text == {j \in i..n : ~ Blank(d, j)}
<1>1. CASE text = {}
  BY <1>1 DEF EndOfGap
<1>2. CASE text # {}
  <2>1. text \in SUBSET Nat
    OBVIOUS
  <2>2. Least(text) \in text
    BY <1>2, <2>1, LeastIs
  <2>3. Least(text) # i /\ Least(text) \in i..n
    BY <2>2
  <2> QED  BY <1>2, <2>3 DEF EndOfGap
<1> QED  BY <1>1, <1>2

(* The line of a character.                                                *)
LEMMA LineIs ==
    ASSUME NEW d, IsSplit(d), NEW x \in 1..d.upto[Len(d.lines)]
    PROVE  /\ LineAt(d, x) \in 1..Len(d.lines)
           /\ x \in (d.upto[LineAt(d, x) - 1] + 1)..d.upto[LineAt(d, x)]
<1> DEFINE N == Len(d.lines)
           Reaching == {i \in 0..N : x <= d.upto[i]}
<1>1. N \in Nat /\ d.upto[0] = 0 /\ \A i \in 0..N : d.upto[i] \in Nat
  BY LinesAre
<1>2. x \in Nat /\ x >= 1 /\ x <= d.upto[N]
  BY <1>1
<1>3. Reaching \in SUBSET Nat /\ N \in Reaching
  BY <1>1, <1>2
<1>4. PICK i \in Reaching : \A j \in Reaching : i <= j
  <2> HIDE DEF Reaching
  <2> QED  BY <1>3, LeastElement
<1>5. i \in 1..N /\ x <= d.upto[i]
  BY <1>1, <1>2, <1>4
<1>6. d.upto[i - 1] < x
  <2>1. i - 1 \in 0..N /\ i - 1 \notin Reaching
    <3>1. i - 1 \in 0..N /\ ~ (i <= i - 1)
      BY <1>1, <1>5
    <3> QED  BY <1>4, <3>1
  <2> QED  BY <1>1, <1>2, <2>1
<1>7. LineAt(d, x) \in 1..N /\ d.upto[LineAt(d, x) - 1] < x /\ x <= d.upto[LineAt(d, x)]
  BY <1>5, <1>6 DEF LineAt
<1>8. LineAt(d, x) - 1 \in 0..N /\ LineAt(d, x) \in 0..N
  BY <1>1, <1>7
<1> QED  BY <1>1, <1>2, <1>7, <1>8

(***************************************************************************)
(* Sections.                                                               *)
(***************************************************************************)
(* A line before the first or after the last line of a section.            *)
LEMMA Outside ==
    ASSUME NEW i \in Nat, NEW x, NEW y, (x \in Nat /\ i < x) \/ (y \in Int /\ y < i)
    PROVE  i \notin x..y
OBVIOUS

(* The content begins after the front matter, if that is closed.           *)
LEMMA Contents ==
    ASSUME NEW d, IsSplit(d), FrontMatter(d) => Closings(d) # {}
    PROVE  ContentStart(d) \in 1..(Len(d.lines) + 1)
<1>1. Len(d.lines) \in Nat
  BY LinesAre
<1>2. CASE FrontMatter(d)
  <2>1. Closings(d) \in SUBSET Nat /\ Closings(d) # {}
    BY <1>1, <1>2 DEF Closings
  <2>2. Least(Closings(d)) \in 2..Len(d.lines)
    BY <2>1, LeastIs DEF Closings
  <2> QED  BY <1>1, <1>2, <2>2 DEF ContentStart
<1> QED  BY <1>1, <1>2 DEF ContentStart

(* Every line with text is in the preamble or under one heading.           *)
LEMMA MarkdownDivided ==
    ASSUME NEW d, IsSplit(d), ContentStart(d) \in 1..(Len(d.lines) + 1),
           NEW H \in Seq(Nat),
           \A k \in 1..Len(H) : H[k] \in ContentStart(d)..Len(d.lines),
           \A j, k \in 1..Len(H) : j < k => H[j] < H[k]
    PROVE  LET S == MarkdownSections(d, H) IN
           /\ S \in Seq(Sections)
           /\ \A k \in 1..Len(S) : S[k].first \in 1..S[k].last /\ S[k].last <= Len(d.lines)
           /\ \A i \in ContentStart(d)..Len(d.lines) : ~ Blank(d, i) => Divided(S, i)
<1> DEFINE N == Len(d.lines)
           h == Len(H)
           a == ContentStart(d)
           b == IF H = <<>> THEN N ELSE H[1] - 1
           end(k) == IF k < h THEN H[k + 1] - 1 ELSE N
           body == {i \in a..b : ~ Blank(d, i)}
           preamble == [first |-> Least(body), path |-> {}, last |-> b]
           P == IF body = {} THEN <<>> ELSE <<preamble>>
           p == IF body = {} THEN 0 ELSE 1
           Q == [k \in DOMAIN H |-> [first |-> H[k], last |-> end(k), path |-> Path(d, H, k)]]
           S == P \o Q
<1>1. /\ N \in Nat /\ h \in Nat /\ DOMAIN H = 1..h /\ a \in 1..(N + 1)
      /\ H = <<>> <=> h = 0
      /\ \A k \in 1..h : H[k] \in a..N
      /\ \A j, k \in 1..h : j < k => H[j] < H[k]
  BY LinesAre
<1>2. MarkdownSections(d, H) = S
  BY DEF MarkdownSections
<1>3. b \in Nat /\ b <= N /\ a <= b + 1
  BY <1>1
<1>4. body # {} => Least(body) \in body /\ \A y \in body : Least(body) <= y
  <2>1. body \in SUBSET Nat
    BY <1>1, <1>3
  <2> HIDE DEF body
  <2> QED  BY <2>1, LeastIs
<1>5. body # {} => /\ preamble \in Sections /\ preamble.first \in 1..preamble.last
                   /\ preamble.last <= N
  BY <1>1, <1>3, <1>4 DEF Sections
<1>6. ASSUME NEW k \in 1..h
      PROVE  Q[k] \in Sections /\ Q[k].first \in 1..Q[k].last /\ Q[k].last <= N
  <2>1. end(k) \in Nat /\ H[k] <= end(k) /\ end(k) <= N
    BY <1>1
  <2>2. Path(d, H, k) \in SUBSET Nat
    BY DEF Path
  <2> QED  BY <1>1, <2>1, <2>2 DEF Sections
<1>7. Q \in Seq(Sections) /\ Len(Q) = h
  <2>1. Q \in [1..h -> Sections]
    BY <1>1, <1>6
  <2> HIDE DEF Q
  <2> QED  BY <1>1, <2>1
<1>8. P \in Seq(Sections) /\ Len(P) = p /\ (p = 1 => P[1] = preamble)
  BY <1>5
<1>9. /\ S \in Seq(Sections) /\ Len(S) = p + h
      /\ p = 1 => S[1] = preamble
      /\ \A k \in 1..h : S[p + k] = Q[k]
  <2>1. p \in Nat
    OBVIOUS
  <2> HIDE DEF P, Q, p
  <2>5. /\ S \in Seq(Sections) /\ Len(S) = Len(P) + Len(Q)
        /\ \A i \in 1..Len(P) + Len(Q) :
              S[i] = IF i <= Len(P) THEN P[i] ELSE Q[i - Len(P)]
    <3>1. P \in Seq(Sections) /\ Q \in Seq(Sections)
      BY <1>7, <1>8
    <3> QED  BY <3>1, ConcatProperties
  <2> HIDE DEF S
  <2>2. S \in Seq(Sections) /\ Len(S) = p + h
    BY <1>7, <1>8, <2>5
  <2>3. p = 1 => S[1] = P[1]
    BY <1>1, <1>7, <1>8, <2>1, <2>5
  <2>4. ASSUME NEW k \in 1..h PROVE S[p + k] = Q[k]
    <3>1. p + k \in 1..(Len(P) + Len(Q)) /\ (p + k) - Len(P) = k /\ ~ (p + k <= Len(P))
      BY <1>1, <1>7, <1>8, <2>1
    <3> QED  BY <2>5, <3>1
  <2> QED  BY <1>8, <2>2, <2>3, <2>4
<1>10. \A k \in 1..Len(S) : (p = 1 /\ k = 1) \/ \E g \in 1..h : k = p + g
  <2> HIDE DEF S
  <2>1. ASSUME NEW k \in 1..(p + h), ~ (p = 1 /\ k = 1)
        PROVE  \E g \in 1..h : k = p + g
    <3>1. k - p \in 1..h /\ k = p + (k - p)
      BY <1>1, <2>1
    <3> QED  BY <3>1
  <2> QED  BY <1>1, <1>9, <2>1
<1>11. \A k \in 1..Len(S) : S[k].first \in 1..S[k].last /\ S[k].last <= N
  <2> HIDE DEF S, Q, preamble, body
  <2>1. p = 1 => body # {}
    OBVIOUS
  <2> HIDE DEF p
  <2> QED  BY <1>5, <1>6, <1>9, <1>10, <2>1
<1>12. ASSUME NEW i \in a..N, ~ Blank(d, i)
       PROVE  Divided(S, i)
  <2>1. CASE h = 0 \/ i < H[1]
    <3>1. i \in body /\ p = 1
      BY <1>1, <1>12, <2>1
    <3>2. S[1] = preamble /\ Len(S) = 1 + h /\ DOMAIN S = 1..Len(S)
      BY <1>9, <3>1
    <3>3. Least(body) <= i /\ Least(body) \in Nat /\ i <= b
      BY <1>1, <1>3, <1>4, <3>1
    <3>4. S[1].first = Least(body) /\ S[1].last = b
      BY <3>2
    <3>5. \A g \in 1..h : S[1 + g].first = H[g] /\ H[g] \in Nat /\ i < H[g]
      <4>1. ASSUME NEW g \in 1..h PROVE H[1] <= H[g] /\ H[1] \in Nat /\ H[g] \in Nat
        BY <1>1
      <4>2. ASSUME NEW g \in 1..h PROVE S[1 + g].first = H[g]
        BY <1>1, <1>9, <3>1
      <4>3. ASSUME NEW g \in 1..h PROVE i < H[1] /\ i \in Nat
        BY <1>1, <2>1
      <4>4. ASSUME NEW g \in 1..h PROVE i < H[g]
        BY <4>1, <4>3
      <4> QED  BY <4>1, <4>2, <4>4
    <3>6. \A k \in 1..Len(S) : k = 1 \/ \E g \in 1..h : k = 1 + g
      BY <1>10, <3>1
    <3> HIDE DEF S, body, b
    <3>7. i \in S[1].first..S[1].last /\ 1 \in DOMAIN S
      BY <1>1, <1>3, <3>2, <3>3, <3>4
    <3>8. ASSUME NEW j \in DOMAIN S, j # 1 PROVE i \notin S[j].first..S[j].last
      <4>1. PICK g \in 1..h : j = 1 + g
        BY <3>2, <3>6, <3>8
      <4>2. i \in Nat
        BY <1>1
      <4> HIDE DEF N, h, a, P, p, Q, end, preamble
      <4>3. S[j].first \in Nat /\ i < S[j].first
        BY <3>5, <4>1
      <4> QED  BY <4>2, <4>3, Outside
    <3> QED  BY <3>7, <3>8 DEF Divided
  <2>2. CASE h > 0 /\ H[1] <= i
    <3> DEFINE Above == {k \in 1..h : H[k] <= i}
    <3>1. PICK k \in Above : \A g \in Above : g <= k
      <4>1. Above \in SUBSET (0..h) /\ 1 \in Above
        BY <1>1, <2>2
      <4> HIDE DEF Above
      <4> QED  BY <1>1, <4>1, GreatestElement
    <3>2. i <= end(k) /\ k \in 1..h /\ H[k] <= i
      <4>1. CASE k < h
        <5>1. k + 1 \in 1..h /\ k + 1 \notin Above
          BY <1>1, <3>1, <4>1
        <5> QED  BY <1>1, <3>1, <4>1, <5>1
      <4>2. CASE ~ (k < h)
        BY <1>1, <3>1, <4>2
      <4> QED  BY <4>1, <4>2
    <3>3. S[p + k].first = H[k] /\ S[p + k].last = end(k)
      BY <1>1, <1>9, <3>2
    <3>4. i \in S[p + k].first..S[p + k].last
      <4>1. end(k) \in Nat /\ H[k] \in Nat /\ i \in Nat
        BY <1>1, <3>2
      <4> HIDE DEF S, p, end, Above
      <4>2. i \in H[k]..end(k)
        BY <3>2, <4>1
      <4> QED  BY <3>3, <4>2
    <3>5. ASSUME NEW g \in 1..h, g # k PROVE i \notin S[p + g].first..S[p + g].last
      <4>1. S[p + g].first = H[g] /\ S[p + g].last = end(g)
        BY <1>1, <1>9
      <4>2. CASE g < k
        <5>1. g < h /\ g + 1 \in 1..h /\ H[g + 1] <= H[k]
          BY <1>1, <3>2, <4>2
        <5>2. end(g) = H[g + 1] - 1
          BY <5>1
        <5>3. H[g + 1] \in Nat /\ H[g] \in Nat /\ H[k] \in Nat /\ i \in Nat
          BY <1>1, <3>2, <5>1
        <5>4. end(g) < i
          BY <3>2, <5>1, <5>2, <5>3
        <5> HIDE DEF S, end, p
        <5>5. S[p + g].last < i /\ S[p + g].last \in Int
          BY <4>1, <5>2, <5>3, <5>4
        <5> QED  BY <5>3, <5>5, Outside
      <4>3. CASE g > k
        <5>1. g \notin Above
          BY <1>1, <3>1, <4>3
        <5>2. i < H[g] /\ H[g] \in Nat /\ i \in Nat
          BY <1>1, <5>1
        <5> HIDE DEF S, end, p, Above
        <5> QED  BY <4>1, <5>2, Outside
      <4>4. g < k \/ g > k
        BY <1>1, <3>2, <3>5
      <4> QED  BY <4>2, <4>3, <4>4
    <3>6. p = 1 => i \notin S[1].first..S[1].last
      <4>1. p = 1 => S[1].last = H[1] - 1
        BY <1>1, <1>9, <2>2
      <4> QED  BY <1>1, <2>2, <4>1
    <3>7. DOMAIN S = 1..Len(S) /\ p + k \in 1..Len(S) /\ p \in {0, 1}
      BY <1>1, <1>9, <3>2
    <3>9. p + k \in DOMAIN S
      BY <3>7
    <3> HIDE DEF S, p, end, Above, N, h, a, b, P, Q, preamble, body
    <3>8. \A j \in DOMAIN S : i \in S[j].first..S[j].last <=> j = p + k
      BY <1>1, <1>10, <3>2, <3>4, <3>5, <3>6, <3>7
    <3> QED  BY <3>8, <3>9 DEF Divided
  <2> QED  BY <1>1, <1>12, <2>1, <2>2
<1> QED  BY <1>2, <1>9, <1>11, <1>12

(* The one section of a text has every line.                               *)
LEMMA TextDivided ==
    ASSUME NEW d, IsSplit(d)
    PROVE  LET S == TextSections(d) IN
           /\ S \in Seq(Sections)
           /\ \A k \in 1..Len(S) : S[k].first \in 1..S[k].last /\ S[k].last <= Len(d.lines)
           /\ \A i \in 1..Len(d.lines) : Divided(S, i)
<1> DEFINE N == Len(d.lines)
<1>1. N \in Nat /\ (d.lines = <<>> <=> N = 0)
  BY LinesAre DEF IsSplit
<1>2. CASE N = 0
  BY <1>1, <1>2 DEF TextSections
<1>3. CASE N > 0
  <2> DEFINE s == [first |-> 1, last |-> N, path |-> {}]
  <2>1. s \in Sections
    BY <1>1, <1>3 DEF Sections
  <2>5. d.lines # <<>>
    BY <1>1, <1>3
  <2>3. TextSections(d) = <<s>>
    BY <2>5 DEF TextSections
  <2>2. \A i \in 1..N : Divided(<<s>>, i)
    BY <1>1 DEF Divided
  <2>4. <<s>> \in Seq(Sections) /\ Len(<<s>>) = 1 /\ <<s>>[1] = s
    BY <2>1
  <2> HIDE DEF s
  <2>6. 1 \in 1..N /\ s.first = 1 /\ s.last = N
    BY <1>1, <1>3 DEF s
  <2>7. TextSections(d) \in Seq(Sections) /\ Len(TextSections(d)) = 1 /\ TextSections(d)[1] = s
    BY <2>3, <2>4
  <2>8. \A i \in 1..N : Divided(TextSections(d), i)
    BY <2>2, <2>3
  <2> QED  BY <1>1, <2>6, <2>7, <2>8
<1> QED  BY <1>1, <1>2, <1>3

(***************************************************************************)
(* The section that is being worked on, and its blocks.                    *)
(***************************************************************************)
(* The section that is being worked on, and its characters.                *)
LEMMA Work ==
    ASSUME ChunkTypeOK, SectionsOK, BetweenOK, stage \notin {"front", "parse"},
           Len(chunks) < Len(sections)
    PROVE  /\ Len(chunks) \in Nat /\ Len(chunks) + 1 \in 1..Len(sections)
           /\ section \in Sections
           /\ section.first \in Nat /\ section.last \in Nat
           /\ 1 <= section.first /\ section.first <= section.last
           /\ section.last <= Len(doc.lines)
           /\ Low \in Nat /\ High \in Nat /\ Low < High
<1>1. /\ Len(chunks) \in Nat /\ Len(chunks) + 1 \in 1..Len(sections)
      /\ sections \in Seq(Sections)
  BY DEF ChunkTypeOK
<1>2. section \in Sections
  BY <1>1, ElementOfSeq DEF section
<1>3. section.first \in 1..section.last /\ section.last <= Len(doc.lines)
  BY <1>1 DEF SectionsOK, section
<1>4. section.first \in Nat /\ section.last \in Nat
  BY <1>2 DEF Sections
<1>5. Len(doc.lines) \in Nat /\ IsSplit(doc)
  BY DocumentIs, LinesAre
<1>6. section.first - 1 \in 0..Len(doc.lines) /\ section.last \in 0..Len(doc.lines)
  BY <1>3, <1>4, <1>5
<1>7. section.first - 1 < section.last
  BY <1>3, <1>4
<1>8. Low \in Nat /\ High \in Nat /\ Low < High
  BY <1>5, <1>6, <1>7, LinesAre DEF Low, High
<1> QED  BY <1>1, <1>2, <1>3, <1>4, <1>8

(* A block of lines of the section is a text.                              *)
LEMMA BlockIs ==
    ASSUME IsSplit(doc), section.first \in Nat, 1 <= section.first,
           section.last \in Nat, section.last <= Len(doc.lines),
           NEW a \in section.first..section.last, NEW b \in a..section.last,
           NEW w \in BOOLEAN
    PROVE  /\ Block(a, b, w) \in Blocks /\ Block(a, b, w).whole = w
           /\ IsText(Block(a, b, w), Low)
           /\ Begin(Block(a, b, w)) = doc.upto[a - 1] /\ End(Block(a, b, w)) = doc.upto[b]
<1> DEFINE x == Block(a, b, w)
           n == section.first - 1
<1>1. /\ Len(doc.lines) \in Nat /\ a \in Nat /\ b \in Nat
      /\ n \in 0..Len(doc.lines) /\ a - 1 \in 0..Len(doc.lines) /\ b \in 0..Len(doc.lines)
      /\ n <= a - 1 /\ a - 1 < b
  BY LinesAre
<1>2. /\ doc.upto[n] \in Nat /\ doc.upto[a - 1] \in Nat /\ doc.upto[b] \in Nat
      /\ doc.upto[n] <= doc.upto[a - 1] /\ doc.upto[a - 1] < doc.upto[b]
  BY <1>1, LinesAre
<1>3. /\ x.text = Passage(doc.upto[a - 1], doc.upto[b]) /\ x.whole = w
      /\ x.offset = doc.upto[a - 1] - Low
  BY DEF Block, Joined, OffsetOf, Low
<1>4. Low = doc.upto[n]
  BY DEF Low
<1> DEFINE from == doc.upto[a - 1]
           to == doc.upto[b]
<1>5. from \in Nat /\ to \in Nat /\ Low \in Nat /\ Low <= from /\ from < to
  BY <1>2, <1>4
<1>6. IsText(x, Low) /\ Begin(x) = from /\ End(x) = to
  <2>1. x.text = Passage(from, to) /\ x.offset = from - Low
    BY <1>3
  <2> HIDE DEF x, from, to
  <2> QED  BY <1>5, <2>1, TextIs
<1>7. x \in Blocks
  <2>1. Passage(from, to) \in Seq(Nat)
    <3> HIDE DEF from, to
    <3>1. from <= to
      BY <1>5
    <3> QED  BY <1>5, <3>1, PassageIs
  <2>2. OffsetOf(a) \in Nat
    <3>1. OffsetOf(a) = from - Low
      BY DEF OffsetOf, Low
    <3> HIDE DEF from
    <3> QED  BY <1>5, <3>1
  <2> QED  BY <2>1, <2>2 DEF Blocks, Block, Joined
<1> QED  BY <1>3, <1>6, <1>7

(* The lines since the last block extend the chain of blocks.              *)
LEMMA UpToIs ==
    ASSUME IsSplit(doc), section.first \in Nat, 1 <= section.first,
           section.last \in Nat, section.last <= Len(doc.lines),
           blocks \in Seq(Blocks), Low \in Nat,
           start \in Nat, section.first <= start, NEW b \in Nat, start <= b + 1,
           b <= section.last, Chain(blocks, Low, Low, doc.upto[start - 1])
    PROVE  /\ UpTo(b) \in Seq(Blocks)
           /\ blocks \o UpTo(b) \in Seq(Blocks)
           /\ Chain(blocks \o UpTo(b), Low, Low, doc.upto[b])
<1>1. CASE start > b
  <2>1. start - 1 = b /\ UpTo(b) = <<>>
    BY <1>1 DEF UpTo
  <2>2. blocks \o UpTo(b) = blocks
    BY <2>1, ConcatEmptySeq
  <2> QED  BY <2>1, <2>2
<1>2. CASE ~ (start > b)
  <2> DEFINE x == Block(start, b, FALSE)
  <2>1. start \in section.first..section.last /\ b \in start..section.last
    BY <1>2
  <2>2. x \in Blocks /\ IsText(x, Low) /\ Begin(x) = doc.upto[start - 1] /\ End(x) = doc.upto[b]
    BY <2>1, BlockIs
  <2>3. UpTo(b) = <<x>>
    BY <1>2 DEF UpTo
  <2> HIDE DEF x
  <2>4. blocks \o <<x>> = Append(blocks, x) /\ <<x>> \in Seq(Blocks)
    BY <2>2
  <2>5. Begin(x) \in Nat
    BY <2>2 DEF IsText
  <2>6. Chain(Append(blocks, x), Low, Low, End(x))
    BY <2>2, <2>5, ChainAppend
  <2>7. Append(blocks, x) \in Seq(Blocks)
    BY <2>2
  <2> QED  BY <2>2, <2>3, <2>4, <2>6, <2>7
<1> QED  BY <1>1, <1>2

(***************************************************************************)
(* What a step leaves alone.                                               *)
(***************************************************************************)
(* Sections and records.                                                   *)
LEMMA Same ==
    ASSUME UNCHANGED <<source, sections, chunks>>
    PROVE  /\ doc' = doc /\ section' = section /\ Low' = Low /\ High' = High
           /\ RecordsOK => RecordsOK'
<1>1. doc' = doc
  BY DEF doc
<1>2. section' = section
  BY DEF section
<1> QED  BY <1>1, <1>2 DEF Low, High, RecordsOK

(* Headings and sections.                                                  *)
LEMMA SectionsSame ==
    ASSUME UNCHANGED <<source, sections>>, stage \notin {"front", "parse"}, SectionsOK, HeadingsOK,
           stage' \notin {"front", "parse"}
    PROVE  SectionsOK' /\ HeadingsOK'
<1>1. doc' = doc
  BY DEF doc
<1> QED  BY <1>1 DEF SectionsOK, HeadingsOK

(* Fences that were kept still are, if every passage that was kept is.     *)
LEMMA FenceStays ==
    ASSUME UNCHANGED <<source, chunks>>, ChunkTypeOK, FencesOK,
           \A a, b \in Nat : Kept(a, b) => Kept(a, b)',
           NEW f \in fences
    PROVE  FenceOK(f)'
<1>1. doc' = doc
  BY DEF doc
<1>2. f[1] \in Nat /\ f[2] \in Nat
  BY DEF ChunkTypeOK
<1>3. FenceOK(f)
  BY DEF FencesOK
<1>4. f[1] - 1 \in 0..Len(doc.lines) /\ f[2] \in 0..Len(doc.lines)
  <2>1. Len(doc.lines) \in Nat
    BY DocumentIs, LinesAre
  <2> QED  BY <1>2, <1>3, <2>1 DEF FenceOK
<1>5. doc.upto[f[1] - 1] \in Nat /\ doc.upto[f[2]] \in Nat
  BY <1>4, DocumentIs, LinesAre
<1>6. Kept(doc.upto[f[1] - 1], doc.upto[f[2]]) => Kept(doc.upto[f[1] - 1], doc.upto[f[2]])'
  BY <1>1, <1>5
<1> QED  BY <1>1, <1>3, <1>6 DEF FenceOK

(* Nothing that could keep a fence has changed.                            *)
LEMMA FencesSame ==
    ASSUME UNCHANGED <<source, chunks, fences, blocks, pieces, packed, current>>,
           ChunkTypeOK, FencesOK
    PROVE  FencesOK'
<1>1. \A a, b \in Nat : Kept(a, b) => Kept(a, b)'
  BY DEF Kept
<1>2. \A f \in fences : FenceOK(f)'
  BY <1>1, FenceStays
<1> QED  BY <1>2 DEF FencesOK

(* A source that failed promises nothing more.                             *)
LEMMA Fails ==
    ASSUME ChunkTypeOK, Fail
    PROVE  ChunkInv'
BY DEF Fail, ChunkTypeOK, ChunkInv, Places

(* More blocks keep what was kept.                                         *)
LEMMA BlocksKept ==
    ASSUME \A i \in 1..Len(blocks) : i \in 1..Len(blocks') /\ blocks'[i] = blocks[i],
           UNCHANGED <<pieces, packed, current>>
    PROVE  \A a, b \in Nat : Kept(a, b) => Kept(a, b)'
BY DEF Kept

(* What is appended to a sequence changes none of its elements.            *)
LEMMA Longer ==
    ASSUME NEW S, NEW s \in Seq(S), NEW t \in Seq(S)
    PROVE  \A i \in 1..Len(s) : i \in 1..Len(s \o t) /\ (s \o t)[i] = s[i]
<1>1. Len(s) \in Nat /\ Len(t) \in Nat /\ Len(s \o t) = Len(s) + Len(t)
  BY ConcatProperties
<1> QED  BY <1>1, ConcatProperties

(* Before the first step nothing is found yet.                             *)
LEMMA InitHolds == ChunkInit => ChunkInv
<1> SUFFICES ASSUME ChunkInit PROVE ChunkInv
  OBVIOUS
<1>1. ChunkTypeOK
  BY DEF ChunkInit, ChunkTypeOK, Places, NoText, Texts
<1>2. Sound
  BY DEF ChunkInit, Sound, HeadingsOK, SectionsOK, BetweenOK, ScanOK, SplitOK, PackOK,
         FencesOK, RecordsOK, Empty
<1> QED  BY <1>1, <1>2 DEF ChunkInv

(* Front matter that is closed, or none.                                   *)
LEMMA FrontKeeps ==
    ASSUME ChunkInv, Front
    PROVE  ChunkInv'
<1>1. stage = "front" /\ ChunkTypeOK /\ Sound
  BY DEF ChunkInv, Front
<1>2. IsSplit(doc) /\ source.markdown \in BOOLEAN
  BY <1>1, DocumentIs
<1>3. CASE Fail
  BY <1>1, <1>3, Fails
<1>4. CASE source.markdown /\ (FrontMatter(doc) => Closings(doc) # {})
           /\ stage' = "parse" /\ line' = ContentStart(doc)
           /\ UNCHANGED <<sections, source, headings, start, blocks, pieces, cut, current, packed,
                          chunks, fences>>
  <2>1. ContentStart(doc) \in 1..(Len(doc.lines) + 1) /\ Len(doc.lines) \in Nat
    BY <1>2, <1>4, Contents, LinesAre
  <2>2. doc' = doc
    BY <1>4 DEF doc
  <2>3. ChunkTypeOK'
    BY <1>1, <1>4, <2>1 DEF ChunkTypeOK, Places
  <2>4. headings = <<>>
    BY <1>1 DEF Sound, HeadingsOK
  <2>5. HeadingsOK'
    BY <1>4, <2>1, <2>2, <2>4 DEF HeadingsOK
  <2>6. BetweenOK'
    BY <1>1, <1>4 DEF Sound, BetweenOK, Empty
  <2>7. FencesOK'
    BY <1>1, <1>4, FencesSame DEF Sound
  <2>8. RecordsOK'
    BY <1>1, <1>4, Same DEF Sound
  <2> QED  BY <1>4, <2>3, <2>5, <2>6, <2>7, <2>8
           DEF ChunkInv, Sound, SectionsOK, ScanOK, SplitOK, PackOK
<1>5. CASE ~ source.markdown /\ stage' = "section" /\ sections' = TextSections(doc)
           /\ UNCHANGED <<line, source, headings, start, blocks, pieces, cut, current, packed,
                          chunks, fences>>
  <2>1. doc' = doc
    BY <1>5 DEF doc
  <2>2. /\ sections' \in Seq(Sections)
        /\ \A k \in 1..Len(sections') :
              sections'[k].first \in 1..sections'[k].last /\ sections'[k].last <= Len(doc.lines)
        /\ \A i \in 1..Len(doc.lines) : Divided(sections', i)
    BY <1>2, <1>5, TextDivided
  <2>3. ChunkTypeOK'
    BY <1>1, <1>5, <2>2 DEF ChunkTypeOK, Places
  <2>4. HeadingsOK' /\ SectionsOK'
    BY <1>5, <2>1, <2>2 DEF HeadingsOK, SectionsOK
  <2>5. BetweenOK'
    BY <1>1, <1>5, <2>2 DEF Sound, BetweenOK, Empty
  <2>6. FencesOK'
    BY <1>1, <1>5, FencesSame DEF Sound
  <2>7. RecordsOK'
    BY <1>1, <1>5 DEF Sound, RecordsOK, BetweenOK
  <2> QED  BY <1>5, <2>3, <2>4, <2>5, <2>6, <2>7 DEF ChunkInv, Sound, ScanOK, SplitOK, PackOK
<1> QED  BY <1>2, <1>3, <1>4, <1>5 DEF Front

(* The headings found are after the front matter and before the next line. *)
LEMMA ParseKeeps ==
    ASSUME ChunkInv, Parse
    PROVE  ChunkInv'
<1>1. /\ stage = "parse" /\ stage' = "parse" /\ ChunkTypeOK /\ Sound
      /\ line <= Len(doc.lines)
      /\ UNCHANGED <<source, sections, start, blocks, pieces, cut, current, packed, chunks, fences>>
  BY DEF ChunkInv, Parse
<1> DEFINE N == Len(doc.lines)
           a == ContentStart(doc)
<1>2. doc' = doc /\ N \in Nat /\ a \in 1..(N + 1)
  BY <1>1, DocumentIs, LinesAre DEF doc, Sound, HeadingsOK
<1>3. /\ source.markdown /\ line \in a..N /\ headings \in Seq(Nat)
      /\ \A k \in 1..Len(headings) : headings[k] \in a..(line - 1)
      /\ \A j, k \in 1..Len(headings) : j < k => headings[j] < headings[k]
  BY <1>1, <1>2 DEF Sound, HeadingsOK, ChunkTypeOK
<1>4. EndOfFence(doc, line, N, {"fence"}) \in line..N
  BY <1>2, <1>3, FenceEnds
<1>5. CASE UNCHANGED headings /\ line' \in (line + 1)..(N + 1)
  <2>1. HeadingsOK'
    BY <1>1, <1>2, <1>3, <1>5 DEF HeadingsOK
  <2>2. ChunkTypeOK'
    BY <1>1, <1>2, <1>3, <1>5 DEF ChunkTypeOK
  <2> QED  BY <1>1, <2>1, <2>2, FencesSame, Same
           DEF ChunkInv, Sound, SectionsOK, BetweenOK, Empty, ScanOK, SplitOK, PackOK
<1>6. CASE line' = line + 1 /\ headings' = Append(headings, line)
  <2>1. /\ headings' \in Seq(Nat) /\ Len(headings) \in Nat
        /\ Len(headings') = Len(headings) + 1 /\ headings'[Len(headings')] = line
        /\ \A k \in 1..Len(headings) : headings'[k] = headings[k]
    BY <1>2, <1>3, <1>6
  <2>2. line' \in a..(N + 1) /\ a \in Nat /\ line \in Nat
    BY <1>2, <1>3, <1>6
  <2>3. ASSUME NEW k \in 1..Len(headings') PROVE headings'[k] \in a..(line' - 1)
    <3>1. CASE k = Len(headings')
      BY <1>3, <1>6, <2>1, <2>2, <3>1
    <3>2. CASE k # Len(headings')
      <4>1. k \in 1..Len(headings)
        BY <2>1, <3>2
      <4>2. headings'[k] \in a..(line - 1)
        BY <1>3, <2>1, <4>1
      <4> QED  BY <1>6, <2>2, <4>2
    <3> QED  BY <3>1, <3>2
  <2>4. ASSUME NEW j \in 1..Len(headings'), NEW k \in 1..Len(headings'), j < k
        PROVE  headings'[j] < headings'[k]
    <3>1. j \in 1..Len(headings) /\ headings'[j] = headings[j]
      BY <2>1, <2>4
    <3>2. headings[j] \in a..(line - 1)
      BY <1>3, <3>1
    <3>3. CASE k = Len(headings')
      BY <2>1, <2>2, <3>1, <3>2, <3>3
    <3>4. CASE k # Len(headings')
      <4>1. k \in 1..Len(headings)
        BY <2>1, <3>4
      <4> QED  BY <1>3, <2>1, <2>4, <3>1, <4>1
    <3> QED  BY <3>3, <3>4
  <2>5. HeadingsOK'
    BY <1>1, <1>2, <1>3, <2>2, <2>3, <2>4 DEF HeadingsOK
  <2>6. ChunkTypeOK'
    BY <1>1, <2>1, <2>2, <1>6 DEF ChunkTypeOK
  <2> QED  BY <1>1, <2>5, <2>6, FencesSame, Same
           DEF ChunkInv, Sound, SectionsOK, BetweenOK, Empty, ScanOK, SplitOK, PackOK
<1> QED  BY <1>2, <1>3, <1>4, <1>5, <1>6 DEF Parse

(* The headings divide the lines into sections.                            *)
LEMMA ParsedKeeps ==
    ASSUME ChunkInv, Parsed
    PROVE  ChunkInv'
<1>1. /\ stage = "parse" /\ stage' = "section" /\ ChunkTypeOK /\ Sound
      /\ line > Len(doc.lines) /\ sections' = MarkdownSections(doc, headings)
      /\ UNCHANGED <<source, line, headings, start, blocks, pieces, cut, current, packed, chunks,
                     fences>>
  BY DEF ChunkInv, Parsed
<1> DEFINE N == Len(doc.lines)
           a == ContentStart(doc)
<1>2. doc' = doc /\ N \in Nat /\ a \in 1..(N + 1) /\ IsSplit(doc)
  BY <1>1, DocumentIs, LinesAre DEF doc, Sound, HeadingsOK
<1>3. /\ source.markdown /\ line = N + 1 /\ headings \in Seq(Nat)
      /\ \A k \in 1..Len(headings) : headings[k] \in a..(line - 1)
      /\ \A j, k \in 1..Len(headings) : j < k => headings[j] < headings[k]
  <2>1. HeadingsOK /\ headings \in Seq(Nat)
    BY <1>1 DEF Sound, ChunkTypeOK
  <2>2. line \in a..(N + 1)
    BY <1>1, <2>1 DEF HeadingsOK
  <2> HIDE DEF N, a
  <2>3. line = N + 1
    BY <1>1, <1>2, <2>2 DEF N
  <2> QED  BY <1>1, <2>1, <2>3 DEF HeadingsOK, N, a
<1>4. \A k \in 1..Len(headings) : headings[k] \in a..N
  BY <1>2, <1>3
<1>5. /\ sections' \in Seq(Sections)
      /\ \A k \in 1..Len(sections') : sections'[k].first \in 1..sections'[k].last
                                      /\ sections'[k].last <= N
      /\ \A i \in a..N : ~ Blank(doc, i) => Divided(sections', i)
  <2> HIDE DEF N, a
  <2> QED  BY <1>1, <1>2, <1>3, <1>4, MarkdownDivided DEF N, a
<1>6. ChunkTypeOK'
  BY <1>1, <1>5 DEF ChunkTypeOK, Places
<1>7. HeadingsOK'
  BY <1>1, <1>2 DEF HeadingsOK
<1>8. SectionsOK'
  BY <1>1, <1>2, <1>3, <1>5 DEF SectionsOK
<1>9. BetweenOK'
  BY <1>1, <1>5 DEF Sound, BetweenOK, Empty
<1>10. RecordsOK'
  BY <1>1 DEF Sound, RecordsOK, BetweenOK
<1>11. FencesOK'
  BY <1>1, FencesSame DEF Sound
<1> QED  BY <1>1, <1>6, <1>7, <1>8, <1>9, <1>10, <1>11 DEF ChunkInv, Sound, ScanOK, SplitOK, PackOK

(* A section begins with the chain of no blocks.                           *)
LEMMA SectionKeeps ==
    ASSUME ChunkInv, Section
    PROVE  ChunkInv'
<1>1. /\ stage = "section" /\ ChunkTypeOK /\ Sound
      /\ UNCHANGED <<source, headings, sections, blocks, pieces, cut, current, packed, chunks,
                     fences>>
  BY DEF ChunkInv, Section
<1>2. FencesOK' /\ RecordsOK'
  BY <1>1, FencesSame, Same DEF Sound
<1>3. CASE Len(chunks) = Len(sections) /\ stage' = "done" /\ UNCHANGED <<line, start>>
  <2>1. ChunkTypeOK'
    BY <1>1, <1>3 DEF ChunkTypeOK, Places
  <2>2. HeadingsOK' /\ SectionsOK'
    BY <1>1, <1>3, SectionsSame DEF Sound
  <2>3. BetweenOK'
    BY <1>1, <1>3 DEF Sound, BetweenOK, Empty
  <2> QED  BY <1>2, <1>3, <2>1, <2>2, <2>3 DEF ChunkInv, Sound, ScanOK, SplitOK, PackOK
<1>4. CASE stage' = "failed" /\ UNCHANGED <<line, start>>
  BY <1>1, <1>4 DEF ChunkInv, ChunkTypeOK, Places
<1>5. CASE /\ Len(chunks) < Len(sections) /\ stage' = "scan"
           /\ line' = section.first /\ start' = section.first
  <2>1. /\ section.first \in Nat /\ section.last \in Nat
        /\ 1 <= section.first /\ section.first <= section.last
    BY <1>1, <1>5, Work DEF Sound
  <2>2. ChunkTypeOK'
    BY <1>1, <1>5, <2>1 DEF ChunkTypeOK, Places
  <2>3. HeadingsOK' /\ SectionsOK'
    BY <1>1, <1>5, SectionsSame DEF Sound
  <2>4. BetweenOK'
    BY <1>1, <1>5 DEF Sound, BetweenOK, Empty
  <2>5. Empty
    BY <1>1 DEF Sound, BetweenOK
  <2>6. section' = section /\ Low' = Low /\ doc' = doc
    BY <1>1, Same
  <2>7. Chain(<<>>, Low, Low, Low)
    BY DEF Chain
  <2>8. doc'.upto[start' - 1] = Low
    BY <1>5, <2>6 DEF Low
  <2>9. blocks' = <<>> /\ pieces' = <<>> /\ packed' = <<>> /\ current' = NoText
    BY <1>1, <2>5 DEF Empty, NoText
  <2>10. ScanOK'
    BY <1>5, <2>1, <2>6, <2>7, <2>8, <2>9 DEF ScanOK, NoText
  <2> QED  BY <1>2, <1>5, <2>2, <2>3, <2>4, <2>10 DEF ChunkInv, Sound, SplitOK, PackOK
<1> QED  BY <1>3, <1>4, <1>5 DEF Section

(* What holds while a section is scanned.                                  *)
LEMMA Scanning ==
    ASSUME ChunkInv, stage = "scan"
    PROVE  /\ ChunkTypeOK /\ Sound /\ IsSplit(doc) /\ Len(doc.lines) \in Nat
           /\ Len(chunks) < Len(sections)
           /\ section.first \in Nat /\ section.last \in Nat /\ 1 <= section.first
           /\ section.last <= Len(doc.lines) /\ Low \in Nat /\ High \in Nat
           /\ blocks \in Seq(Blocks) /\ start \in Nat /\ line \in Nat
           /\ section.first <= start /\ start <= line /\ line <= section.last + 1
           /\ Chain(blocks, Low, Low, doc.upto[start - 1])
<1>1. ChunkTypeOK /\ Sound /\ Len(chunks) < Len(sections)
  BY DEF ChunkInv, Sound, BetweenOK
<1>2. IsSplit(doc) /\ Len(doc.lines) \in Nat
  BY <1>1, DocumentIs, LinesAre
<1>3. /\ section.first \in Nat /\ section.last \in Nat /\ 1 <= section.first
      /\ section.last <= Len(doc.lines) /\ Low \in Nat /\ High \in Nat
  BY <1>1, Work DEF Sound
<1>4. /\ section.first <= start /\ start <= line /\ line <= section.last + 1
      /\ Chain(blocks, Low, Low, doc.upto[start - 1])
  BY <1>1 DEF Sound, ScanOK
<1> QED  BY <1>1, <1>2, <1>3, <1>4 DEF ChunkTypeOK

(* The lines before a fence are a block, and the fence is another that     *)
(* holds it.                                                               *)
LEMMA ScanFenceKeeps ==
    ASSUME ChunkInv, Scan, ScanFence
    PROVE  ChunkInv'
<1> DEFINE e == EndOfFence(doc, line, section.last, {"fence", "deep"})
           c == blocks \o UpTo(line - 1)
           x == Block(line, e, TRUE)
<1>1. /\ stage = "scan" /\ stage' = "scan" /\ line <= section.last
      /\ UNCHANGED <<source, stage, headings, sections, pieces, cut, current, packed, chunks>>
      /\ blocks' = c \o <<x>> /\ line' = e + 1 /\ start' = e + 1
      /\ fences' = fences \cup {<<line, e>>}
  BY DEF Scan, ScanFence
<1>2. /\ ChunkTypeOK /\ Sound /\ IsSplit(doc) /\ Len(doc.lines) \in Nat
      /\ Len(chunks) < Len(sections)
      /\ section.first \in Nat /\ section.last \in Nat /\ 1 <= section.first
      /\ section.last <= Len(doc.lines) /\ Low \in Nat
      /\ blocks \in Seq(Blocks) /\ start \in Nat /\ line \in Nat
      /\ section.first <= start /\ start <= line
      /\ Chain(blocks, Low, Low, doc.upto[start - 1])
  BY <1>1, Scanning
<1>3. e \in line..section.last /\ e \in Nat
  <2>1. line \in 1..section.last
    BY <1>1, <1>2
  <2>2. e \in line..section.last
    BY <1>2, <2>1, FenceEnds
  <2> QED  BY <1>2, <2>2
<1>4. UpTo(line - 1) \in Seq(Blocks) /\ c \in Seq(Blocks)
      /\ Chain(c, Low, Low, doc.upto[line - 1])
  <2>1. line - 1 \in Nat /\ start <= (line - 1) + 1 /\ line - 1 <= section.last
    BY <1>1, <1>2
  <2> QED  BY <1>2, <2>1, UpToIs
<1>5. /\ x \in Blocks /\ x.whole = TRUE /\ IsText(x, Low)
      /\ Begin(x) = doc.upto[line - 1] /\ End(x) = doc.upto[e]
  <2>1. line \in section.first..section.last
    BY <1>1, <1>2
  <2> HIDE DEF e
  <2> QED  BY <1>2, <1>3, <2>1, BlockIs
<1> HIDE DEF e, c, x
<1>6. blocks' = Append(c, x) /\ blocks' \in Seq(Blocks) /\ Len(blocks') = Len(c) + 1
      /\ Len(c) \in Nat /\ blocks'[Len(c) + 1] = x
  BY <1>1, <1>4, <1>5
<1>7. Chain(blocks', Low, Low, doc.upto[e])
  <2>1. Begin(x) \in Nat
    BY <1>5 DEF IsText
  <2>2. Chain(c, Low, Low, Begin(x))
    BY <1>4, <1>5
  <2>3. Chain(Append(c, x), Low, Low, End(x))
    BY <1>2, <1>4, <1>5, <2>1, <2>2, ChainAppend
  <2> QED  BY <1>5, <1>6, <2>3
<1>8. doc' = doc /\ section' = section /\ Low' = Low /\ RecordsOK'
  BY <1>1, <1>2, Same DEF Sound
<1>9. ScanOK'
  <2>1. start' - 1 = e /\ section.first <= start' /\ start' <= line' /\ line' <= section.last + 1
    BY <1>1, <1>2, <1>3
  <2> QED  BY <1>1, <1>2, <1>7, <1>8, <2>1 DEF ScanOK, Sound, NoText
<1>10. ChunkTypeOK'
  <2>1. <<line, e>> \in Nat \X Nat
    BY <1>2, <1>3
  <2>2. fences' \in SUBSET (Nat \X Nat)
    BY <1>1, <1>2, <2>1 DEF ChunkTypeOK
  <2>3. line' \in Nat /\ start' \in Nat
    BY <1>1, <1>3
  <2> QED  BY <1>1, <1>2, <1>6, <2>2, <2>3 DEF ChunkTypeOK
<1>11. FencesOK'
  <2>1. \A i \in 1..Len(blocks) : i \in 1..Len(blocks') /\ blocks'[i] = blocks[i]
    <3>1. \A i \in 1..Len(blocks) : i \in 1..Len(c) /\ c[i] = blocks[i]
      BY <1>2, <1>4, Longer DEF c
    <3>2. \A i \in 1..Len(c) : i \in 1..Len(blocks') /\ blocks'[i] = c[i]
      BY <1>4, <1>6
    <3> QED  BY <3>1, <3>2
  <2>2. \A f \in fences : FenceOK(f)'
    BY <1>1, <1>2, <2>1, BlocksKept, FenceStays DEF Sound
  <2>3. ASSUME NEW f, f = <<line, e>> PROVE FenceOK(f)'
    <3>1. blocks'[Len(c) + 1] = x /\ Len(c) + 1 \in 1..Len(blocks')
      BY <1>6
    <3>2. PICK a, b : a = doc.upto[line - 1] /\ b = doc.upto[e]
      OBVIOUS
    <3>3. blocks'[Len(c) + 1].whole /\ Holds(blocks'[Len(c) + 1], a, b)
      <4>1. Begin(x) \in Nat /\ End(x) \in Nat
        BY <1>5 DEF IsText
      <4> QED  BY <1>5, <3>1, <3>2, <4>1 DEF Holds
    <3>4. Kept(a, b)'
      BY <3>1, <3>3 DEF Kept, Holds, Begin, End, Final
    <3>5. f[1] \in 1..f[2] /\ f[2] <= Len(doc.lines) /\ f[1] = line /\ f[2] = e
      BY <1>2, <1>3, <2>3
    <3> QED  BY <1>8, <3>2, <3>4, <3>5 DEF FenceOK
  <2> QED  BY <1>1, <2>2, <2>3 DEF FencesOK
<1>12. HeadingsOK' /\ SectionsOK'
  BY <1>1, <1>2, SectionsSame DEF Sound
<1> QED  BY <1>1, <1>2, <1>8, <1>9, <1>10, <1>11, <1>12
         DEF ChunkInv, Sound, BetweenOK, SplitOK, PackOK

(* Lines that end a block, or are passed over.                             *)
LEMMA BlocksGrow ==
    ASSUME ChunkInv, stage = "scan", NEW e \in (line - 1)..section.last,
           blocks' = blocks \o UpTo(e),
           UNCHANGED <<source, headings, sections, pieces, cut, current, packed, chunks, fences>>
    PROVE  /\ blocks' \in Seq(Blocks) /\ Chain(blocks', Low, Low, doc.upto[e])
           /\ doc' = doc /\ section' = section /\ Low' = Low /\ High' = High
           /\ RecordsOK' /\ FencesOK'
<1>1. /\ ChunkTypeOK /\ Sound /\ IsSplit(doc)
      /\ section.first \in Nat /\ section.last \in Nat /\ 1 <= section.first
      /\ section.last <= Len(doc.lines) /\ Low \in Nat
      /\ blocks \in Seq(Blocks) /\ start \in Nat /\ line \in Nat
      /\ section.first <= start /\ start <= line
      /\ Chain(blocks, Low, Low, doc.upto[start - 1])
  BY Scanning
<1>2. e \in Nat /\ start <= e + 1 /\ e <= section.last
  BY <1>1
<1>3. UpTo(e) \in Seq(Blocks) /\ blocks' \in Seq(Blocks)
      /\ Chain(blocks', Low, Low, doc.upto[e])
  BY <1>1, <1>2, UpToIs
<1>4. \A i \in 1..Len(blocks) : i \in 1..Len(blocks') /\ blocks'[i] = blocks[i]
  BY <1>1, <1>3, Longer
<1>5. \A f \in fences : FenceOK(f)'
  BY <1>1, <1>4, BlocksKept, FenceStays DEF Sound
<1> QED  BY <1>1, <1>3, <1>5, Same DEF Sound, FencesOK

(* A run of blank lines ends the block before it.                          *)
LEMMA ScanBlankKeeps ==
    ASSUME ChunkInv, Scan, ScanBlank
    PROVE  ChunkInv'
<1> DEFINE e == EndOfGap(doc, line, section.last)
<1>1. /\ stage = "scan" /\ stage' = "scan" /\ line <= section.last /\ Blank(doc, line)
      /\ UNCHANGED <<source, headings, sections, pieces, cut, current, packed, chunks, fences>>
      /\ blocks' = blocks \o UpTo(e) /\ line' = e + 1 /\ start' = e + 1
  BY DEF Scan, ScanBlank
<1>2. /\ ChunkTypeOK /\ Sound /\ section.first \in Nat /\ section.last \in Nat
      /\ 1 <= section.first /\ Len(chunks) < Len(sections)
      /\ start \in Nat /\ line \in Nat /\ section.first <= start /\ start <= line
  BY <1>1, Scanning
<1>3. e \in line..section.last /\ e \in Nat
  <2>1. line \in 1..section.last
    BY <1>1, <1>2
  <2>2. e \in line..section.last
    BY <1>1, <1>2, <2>1, GapEnds
  <2> QED  BY <1>2, <2>2
<1> HIDE DEF e
<1>4. /\ blocks' \in Seq(Blocks) /\ Chain(blocks', Low, Low, doc.upto[e])
      /\ doc' = doc /\ section' = section /\ Low' = Low /\ RecordsOK' /\ FencesOK'
  <2>1. e \in (line - 1)..section.last
    BY <1>2, <1>3
  <2> QED  BY <1>1, <2>1, BlocksGrow
<1>5. ScanOK'
  <2>1. start' - 1 = e /\ section.first <= start' /\ start' <= line' /\ line' <= section.last + 1
    BY <1>1, <1>2, <1>3
  <2> QED  BY <1>1, <1>2, <1>4, <2>1 DEF ScanOK, Sound, NoText
<1>6. ChunkTypeOK'
  BY <1>1, <1>2, <1>3, <1>4 DEF ChunkTypeOK
<1>7. HeadingsOK' /\ SectionsOK'
  BY <1>1, <1>2, SectionsSame DEF Sound
<1> QED  BY <1>1, <1>2, <1>4, <1>5, <1>6, <1>7 DEF ChunkInv, Sound, BetweenOK, SplitOK, PackOK

(* A line of text is passed over.                                          *)
LEMMA ScanTextKeeps ==
    ASSUME ChunkInv, Scan, ScanText
    PROVE  ChunkInv'
<1>1. /\ stage = "scan" /\ stage' = "scan" /\ line <= section.last
      /\ UNCHANGED <<source, headings, sections, start, blocks, pieces, cut, current, packed,
                     chunks, fences>>
      /\ line' = line + 1
  BY DEF Scan, ScanText
<1>2. /\ ChunkTypeOK /\ Sound /\ section.first \in Nat /\ section.last \in Nat
      /\ start \in Nat /\ line \in Nat /\ section.first <= start /\ start <= line
  BY <1>1, Scanning
<1>3. doc' = doc /\ section' = section /\ Low' = Low /\ RecordsOK'
  BY <1>1, <1>2, Same DEF Sound
<1>4. start <= line' /\ line' <= section.last + 1
  BY <1>1, <1>2
<1>5. ScanOK'
  BY <1>1, <1>2, <1>3, <1>4 DEF ScanOK, Sound, NoText
<1>6. ChunkTypeOK'
  BY <1>1, <1>2 DEF ChunkTypeOK
<1>7. HeadingsOK' /\ SectionsOK' /\ FencesOK'
  BY <1>1, <1>2, SectionsSame, FencesSame DEF Sound
<1> QED  BY <1>1, <1>2, <1>3, <1>5, <1>6, <1>7 DEF ChunkInv, Sound, BetweenOK, SplitOK, PackOK

(* When the section has been scanned its blocks cover it.                  *)
LEMMA ScannedKeeps ==
    ASSUME ChunkInv, Scanned
    PROVE  ChunkInv'
<1>1. /\ stage = "scan" /\ stage' = "split" /\ line > section.last
      /\ UNCHANGED <<source, line, headings, sections, start, pieces, cut, current, packed, chunks,
                     fences>>
      /\ blocks' = blocks \o UpTo(section.last)
  BY DEF Scanned
<1>2. /\ ChunkTypeOK /\ Sound /\ section.first \in Nat /\ section.last \in Nat
      /\ line \in Nat /\ line <= section.last + 1 /\ Low \in Nat /\ High \in Nat
      /\ Len(chunks) < Len(sections)
  BY <1>1, Scanning
<1>3. /\ blocks' \in Seq(Blocks) /\ Chain(blocks', Low, Low, High)
      /\ doc' = doc /\ section' = section /\ Low' = Low /\ High' = High /\ RecordsOK' /\ FencesOK'
  <2>1. section.last \in (line - 1)..section.last
    BY <1>1, <1>2
  <2> QED  BY <1>1, <2>1, BlocksGrow DEF High
<1>4. pieces = <<>> /\ packed = <<>> /\ current = NoText
  BY <1>1, <1>2 DEF Sound, ScanOK
<1>5. Chain(<<>>, Low, Low, Low + 0)
  BY <1>2 DEF Chain
<1>6. Low <= High
  BY <1>2, <1>3, ChainBounds
<1>7. SplitOK'
  BY <1>1, <1>2, <1>3, <1>4, <1>5, <1>6 DEF SplitOK, NoText
<1>8. ChunkTypeOK'
  BY <1>1, <1>2, <1>3 DEF ChunkTypeOK, Places
<1>9. HeadingsOK' /\ SectionsOK'
  BY <1>1, <1>2, SectionsSame DEF Sound
<1>10. BetweenOK'
  BY <1>1, <1>2 DEF Sound, BetweenOK
<1> QED  BY <1>1, <1>3, <1>7, <1>8, <1>9, <1>10 DEF ChunkInv, Sound, ScanOK, PackOK

(* A cut is within the text.                                               *)
LEMMA CutsAre ==
    ASSUME ChunkTypeOK, NEW t \in Seq(Nat), t # <<>>
    PROVE  Cuts(t) \subseteq 0..Len(t)
<1>1. Len(t) \in Nat /\ Len(t) >= 1
  OBVIOUS
<1>2. LineEnds(t) \in SUBSET Nat /\ LineEnds(t) \subseteq 1..Len(t) /\ Len(t) \in LineEnds(t)
  BY <1>1 DEF LineEnds
<1>3. Least(LineEnds(t)) \in 1..Len(t)
  BY <1>2, LeastIs
<1>4. WholeLines(t) \subseteq 0..Len(t)
  BY <1>1, <1>2 DEF WholeLines
<1>5. ASSUME NEW k \in 1..Len(t)
      PROVE  LargestBoundedPrefixes(SubSeq(t, 1, k)) \subseteq 0..Len(t)
  <2>1. Len(SubSeq(t, 1, k)) = k
    BY <1>1
  <2>2. LargestBoundedPrefixes(SubSeq(t, 1, k)) \subseteq 0..k
    BY <2>1 DEF LargestBoundedPrefixes
  <2> QED  BY <1>1, <2>2
<1> QED  BY <1>3, <1>4, <1>5 DEF Cuts

(* A piece of a text is a text.                                            *)
LEMMA PieceIs ==
    ASSUME NEW x, NEW l \in Nat, IsText(x, l),
           NEW c \in Nat, NEW n \in Nat, n > 0, c + n <= Len(x.text)
    PROVE  /\ Piece(x, c, n) \in Texts /\ IsText(Piece(x, c, n), l)
           /\ Begin(Piece(x, c, n)) = Begin(x) + c /\ End(Piece(x, c, n)) = Begin(x) + c + n
<1> DEFINE a == Begin(x)
           b == End(x)
           p == Piece(x, c, n)
<1>1. /\ a \in Nat /\ b \in Nat /\ l <= a /\ a < b /\ a <= b
      /\ x.text = Passage(a, b) /\ x.offset = a - l
  BY DEF IsText
<1> HIDE DEF a, b
<1>2. Len(x.text) = b - a
  BY <1>1, PassageIs
<1>3. c + 1 \in 1..(b - a + 1) /\ c + n \in ((c + 1) - 1)..(b - a)
  BY <1>1, <1>2
<1>4. SubSeq(x.text, c + 1, c + n) = Passage(a + (c + 1) - 1, a + (c + n))
  <2> DEFINE i == c + 1
             j == c + n
  <2> HIDE DEF i, j
  <2>1. i \in 1..(b - a + 1) /\ j \in (i - 1)..(b - a)
    BY <1>3 DEF i, j
  <2>2. SubSeq(Passage(a, b), i, j) = Passage(a + i - 1, a + j)
    BY <1>1, <2>1, PassagePart
  <2> QED  BY <1>1, <2>2 DEF i, j
<1>5. a + (c + 1) - 1 = a + c /\ a + (c + n) = a + c + n
  BY <1>1
<1>6. p.text = Passage(a + c, a + c + n) /\ p.offset = (a + c) - l
  <2>1. p.text = SubSeq(x.text, c + 1, c + n) /\ p.offset = x.offset + c
    BY DEF Piece
  <2>2. (a - l) + c = (a + c) - l
    BY <1>1
  <2> QED  BY <1>1, <1>4, <1>5, <2>1, <2>2
<1>7. a + c \in Nat /\ a + c + n \in Nat /\ l <= a + c /\ a + c < a + c + n
      /\ a + c <= a + c + n
  BY <1>1
<1>8. p \in Texts
  <2> DEFINE from == a + c
             to == a + c + n
  <2>2. from \in Nat /\ to \in Nat /\ from <= to
    BY <1>7
  <2>3. Passage(from, to) \in Seq(Nat)
    <3> HIDE DEF from, to
    <3> QED  BY <2>2, PassageIs
  <2>1. p.text \in Seq(Nat) /\ p.offset \in Nat
    BY <1>1, <1>6, <1>7, <2>3
  <2> QED  BY <2>1 DEF Texts, Piece
<1> HIDE DEF p
<1>9. IsText(p, l) /\ Begin(p) = a + c /\ End(p) = a + c + n
  BY <1>6, <1>7, TextIs
<1> QED  BY <1>8, <1>9 DEF p, a

(* A piece at the end of the pieces keeps what was kept, for only blocks   *)
(* that are fences are kept as blocks, and those are not cut.              *)
LEMMA PiecesKept ==
    ASSUME NEW p, pieces \in Seq(Texts), p \in Texts, pieces' = Append(pieces, p),
           blocks \in Seq(Blocks), blocks # <<>>,
           \/ blocks' = blocks
           \/ /\ blocks' = Tail(blocks)
              /\ Head(blocks).whole => Begin(p) = Begin(Head(blocks)) /\ End(p) = End(Head(blocks)),
           UNCHANGED <<packed, current>>
    PROVE  \A a, b \in Nat : Kept(a, b) => Kept(a, b)'
<1> SUFFICES ASSUME NEW a \in Nat, NEW b \in Nat, Kept(a, b) PROVE Kept(a, b)'
  OBVIOUS
<1>1. /\ Len(pieces) \in Nat /\ Len(pieces') = Len(pieces) + 1 /\ pieces'[Len(pieces')] = p
      /\ \A i \in 1..Len(pieces) : pieces'[i] = pieces[i]
  OBVIOUS
<1>2. CASE \E i \in 1..Len(pieces) : Holds(pieces[i], a, b)
  BY <1>1, <1>2 DEF Kept
<1>3. CASE (\E i \in 1..Len(packed) : Holds(packed[i], a, b))
           \/ (current # NoText /\ Holds(current, a, b))
  BY <1>3 DEF Kept, NoText
<1>4. CASE \E i \in 1..Len(blocks) : blocks[i].whole /\ Holds(blocks[i], a, b)
  <2>1. PICK i \in 1..Len(blocks) : blocks[i].whole /\ Holds(blocks[i], a, b)
    BY <1>4
  <2>2. CASE blocks' = blocks
    BY <2>1, <2>2 DEF Kept
  <2>3. CASE blocks' = Tail(blocks) /\ i = 1
             /\ Begin(p) = Begin(Head(blocks)) /\ End(p) = End(Head(blocks))
    <3>1. Holds(p, a, b) /\ Len(pieces') \in 1..Len(pieces')
      BY <1>1, <2>1, <2>3 DEF Holds
    <3> QED  BY <1>1, <3>1 DEF Kept
  <2>4. CASE blocks' = Tail(blocks) /\ i # 1
    <3>1. i - 1 \in 1..Len(blocks') /\ blocks'[i - 1] = blocks[i]
      BY <2>4
    <3> QED  BY <2>1, <3>1 DEF Kept
  <2>5. i = 1 => Head(blocks).whole
    BY <2>1
  <2> QED  BY <2>2, <2>3, <2>4, <2>5
<1> QED  BY <1>2, <1>3, <1>4 DEF Kept

(* What holds while the blocks are split: the pieces, and then the blocks  *)
(* or what is left of the first one, cover the section.                    *)
LEMMA Splitting ==
    ASSUME ChunkInv, stage \in {"split", "cut"}
    PROVE  /\ ChunkTypeOK /\ Sound
           /\ Len(chunks) < Len(sections) /\ Low \in Nat /\ High \in Nat
           /\ blocks \in Seq(Blocks) /\ pieces \in Seq(Texts) /\ cut \in Nat
           /\ \E m \in Low..High :
                 /\ Chain(blocks, Low, m, High)
                 /\ Chain(pieces, Low, Low, m + (IF stage = "cut" THEN cut ELSE 0))
<1>1. ChunkTypeOK /\ Sound /\ Len(chunks) < Len(sections)
  BY DEF ChunkInv, Sound, BetweenOK
<1>2. Low \in Nat /\ High \in Nat
  BY <1>1, Work DEF Sound
<1> QED  BY <1>1, <1>2 DEF Sound, SplitOK, ChunkTypeOK

(* What is kept whatever becomes of the texts.                             *)
LEMMA Rest ==
    ASSUME ChunkTypeOK, Sound, stage \in {"scan", "split", "cut", "pack"},
           stage' \in {"scan", "split", "cut", "pack"},
           UNCHANGED <<source, headings, sections, chunks, fences>>,
           \A a, b \in Nat : Kept(a, b) => Kept(a, b)'
    PROVE  /\ HeadingsOK' /\ SectionsOK' /\ BetweenOK' /\ FencesOK' /\ RecordsOK'
           /\ doc' = doc /\ section' = section /\ Low' = Low /\ High' = High
<1>1. \A f \in fences : FenceOK(f)'
  BY FenceStays DEF Sound
<1>2. FencesOK'
  BY <1>1 DEF FencesOK
<1>3. HeadingsOK' /\ SectionsOK'
  BY SectionsSame DEF Sound
<1>4. BetweenOK'
  BY DEF Sound, BetweenOK
<1> QED  BY <1>2, <1>3, <1>4, Same DEF Sound

(* A block that fits becomes a piece.                                      *)
LEMMA SplitKeeps ==
    ASSUME ChunkInv, Split
    PROVE  ChunkInv'
<1> DEFINE b == Head(blocks)
           p == Piece(b, 0, Len(b.text))
<1>1. stage = "split" /\ blocks # <<>>
  BY DEF Split
<1>2. /\ ChunkTypeOK /\ Sound /\ Len(chunks) < Len(sections) /\ Low \in Nat /\ High \in Nat
      /\ blocks \in Seq(Blocks) /\ pieces \in Seq(Texts)
      /\ packed = <<>> /\ current = NoText
  BY <1>1, Splitting DEF Sound, SplitOK
<1>3. PICK m \in Low..High : Chain(blocks, Low, m, High) /\ Chain(pieces, Low, Low, m + 0)
  BY <1>1, Splitting
<1>4. m \in Nat /\ m + 0 = m
  BY <1>2
<1>5. IsText(b, Low) /\ Begin(b) = m /\ Chain(Tail(blocks), Low, End(b), High)
  BY <1>1, <1>2, <1>3, <1>4, ChainHead
<1>6. /\ End(b) \in Nat /\ m < End(b) /\ b.text = Passage(m, End(b))
      /\ Len(b.text) = End(b) - m /\ Len(b.text) \in Nat /\ Len(b.text) > 0
  <2>1. End(b) \in Nat /\ m < End(b) /\ b.text = Passage(m, End(b)) /\ m <= End(b)
    BY <1>4, <1>5 DEF IsText
  <2>2. Len(b.text) = End(b) - m
    <3> HIDE DEF b
    <3> QED  BY <1>4, <2>1, PassageIs
  <2> QED  BY <1>4, <2>1, <2>2
<1> HIDE DEF b
<1>7. CASE Fail
  BY <1>2, <1>7, Fails
<1>8. CASE /\ ~ b.whole /\ stage' = "cut" /\ cut' = 0
           /\ UNCHANGED <<source, line, headings, sections, start, blocks, pieces, current,
                          packed, chunks, fences>>
  <2>1. \A x, y \in Nat : Kept(x, y) => Kept(x, y)'
    BY <1>8 DEF Kept
  <2>2. /\ HeadingsOK' /\ SectionsOK' /\ BetweenOK' /\ FencesOK' /\ RecordsOK'
        /\ Low' = Low /\ High' = High
    BY <1>1, <1>2, <1>8, <2>1, Rest
  <2>3. SplitOK'
    BY <1>1, <1>2, <1>3, <1>4, <1>6, <1>8, <2>2 DEF SplitOK, NoText, b
  <2>4. ChunkTypeOK'
    BY <1>2, <1>8 DEF ChunkTypeOK, Places
  <2> QED  BY <1>8, <2>2, <2>3, <2>4 DEF ChunkInv, Sound, ScanOK, PackOK
<1>9. CASE /\ pieces' = Append(pieces, p) /\ blocks' = Tail(blocks)
           /\ UNCHANGED <<source, stage, line, headings, sections, start, cut, current, packed,
                          chunks, fences>>
  <2>1. /\ p \in Texts /\ IsText(p, Low) /\ Begin(p) = m /\ End(p) = End(b)
    <3>1. 0 + Len(b.text) <= Len(b.text) /\ m + 0 + Len(b.text) = End(b)
      BY <1>4, <1>6
    <3> QED  BY <1>2, <1>4, <1>5, <1>6, <3>1, PieceIs
  <2> HIDE DEF p
  <2>2. Chain(pieces', Low, Low, End(b))
    BY <1>2, <1>3, <1>4, <1>9, <2>1, ChainAppend
  <2>3. \A x, y \in Nat : Kept(x, y) => Kept(x, y)'
    <3>1. Begin(p) = Begin(Head(blocks)) /\ End(p) = End(Head(blocks))
      BY <1>5, <2>1 DEF b
    <3> QED  BY <1>1, <1>2, <1>9, <2>1, <3>1, PiecesKept
  <2>4. /\ HeadingsOK' /\ SectionsOK' /\ BetweenOK' /\ FencesOK' /\ RecordsOK'
        /\ Low' = Low /\ High' = High
    BY <1>1, <1>2, <1>9, <2>3, Rest
  <2>5. blocks' \in Seq(Blocks) /\ pieces' \in Seq(Texts)
    BY <1>1, <1>2, <1>9, <2>1
  <2>6. End(b) \in Low..High /\ End(b) + 0 = End(b)
    <3>1. End(b) <= High
      BY <1>2, <1>5, <1>6, <1>9, <2>5, ChainBounds
    <3>2. Low <= m
      BY <1>2
    <3> QED  BY <1>2, <1>4, <1>6, <3>1, <3>2
  <2>7. SplitOK'
    <3>1. Chain(blocks', Low, End(b), High) /\ Chain(pieces', Low, Low, End(b) + 0)
      BY <1>5, <1>9, <2>2, <2>6
    <3>2. stage' = "split" /\ packed' = <<>> /\ current' = NoText
      BY <1>1, <1>2, <1>9
    <3> QED  BY <2>4, <2>6, <3>1, <3>2 DEF SplitOK, NoText
  <2>8. ChunkTypeOK'
    BY <1>2, <1>9, <2>5 DEF ChunkTypeOK
  <2> QED  BY <1>1, <1>9, <2>4, <2>7, <2>8 DEF ChunkInv, Sound, ScanOK, PackOK
<1> QED  BY <1>7, <1>8, <1>9 DEF Split, b, p

(* What is cut off a block becomes a piece.                                *)
LEMMA CutKeeps ==
    ASSUME ChunkInv, Cut
    PROVE  ChunkInv'
<1> DEFINE b == Head(blocks)
           rest == SubSeq(b.text, cut + 1, Len(b.text))
<1>1. stage = "cut"
  BY DEF Cut
<1>2. /\ ChunkTypeOK /\ Sound /\ Len(chunks) < Len(sections) /\ Low \in Nat /\ High \in Nat
      /\ blocks \in Seq(Blocks) /\ pieces \in Seq(Texts) /\ cut \in Nat
      /\ packed = <<>> /\ current = NoText /\ blocks # <<>> /\ ~ b.whole /\ cut < Len(b.text)
  BY <1>1, Splitting DEF Sound, SplitOK
<1>3. PICK m \in Low..High : Chain(blocks, Low, m, High) /\ Chain(pieces, Low, Low, m + cut)
  BY <1>1, Splitting
<1>4. m \in Nat
  BY <1>2
<1>5. IsText(b, Low) /\ Begin(b) = m /\ Chain(Tail(blocks), Low, End(b), High)
  BY <1>2, <1>3, <1>4, ChainHead
<1>6. /\ End(b) \in Nat /\ m < End(b) /\ b.text \in Seq(Nat)
      /\ Len(b.text) = End(b) - m /\ Len(b.text) \in Nat
  <2>1. End(b) \in Nat /\ m < End(b) /\ b.text = Passage(m, End(b)) /\ m <= End(b)
    BY <1>4, <1>5 DEF IsText
  <2>2. Len(b.text) = End(b) - m /\ b.text \in Seq(Nat)
    <3> HIDE DEF b
    <3> QED  BY <1>4, <2>1, PassageIs
  <2> QED  BY <1>4, <2>1, <2>2
<1>7. rest \in Seq(Nat) /\ rest # <<>> /\ Len(rest) = Len(b.text) - cut
  <2> DEFINE t == b.text
  <2>2. t \in Seq(Nat) /\ Len(t) \in Nat /\ cut < Len(t)
    BY <1>2, <1>6
  <2>3. rest = SubSeq(t, cut + 1, Len(t))
    OBVIOUS
  <2> HIDE DEF b, t
  <2>4. /\ SubSeq(t, cut + 1, Len(t)) \in Seq(Nat)
        /\ Len(SubSeq(t, cut + 1, Len(t))) = Len(t) - cut
    BY <1>2, <2>2
  <2>1. Len(rest) = Len(b.text) - cut /\ rest \in Seq(Nat)
    BY <2>3, <2>4 DEF t
  <2> HIDE DEF rest
  <2> QED  BY <1>2, <1>6, <2>1
<1>8. PICK n \in Cuts(rest) :
         \/ n = 0 /\ Fail
         \/ /\ n > 0
            /\ pieces' = Append(pieces, Piece(b, cut, n))
            /\ cut' = cut + n
            /\ IF n = Len(rest) THEN stage' = "split" /\ blocks' = Tail(blocks)
                                ELSE UNCHANGED <<stage, blocks>>
            /\ UNCHANGED <<source, line, headings, sections, start, current, packed, chunks,
                           fences>>
  BY DEF Cut
<1> HIDE DEF b, rest
<1>9. n \in Nat /\ n <= Len(rest)
  BY <1>2, <1>6, <1>7, CutsAre
<1>10. CASE Fail
  BY <1>2, <1>10, Fails
<1>11. CASE /\ n > 0
            /\ pieces' = Append(pieces, Piece(b, cut, n))
            /\ cut' = cut + n
            /\ IF n = Len(rest) THEN stage' = "split" /\ blocks' = Tail(blocks)
                                ELSE UNCHANGED <<stage, blocks>>
            /\ UNCHANGED <<source, line, headings, sections, start, current, packed, chunks,
                           fences>>
  <2> DEFINE p == Piece(b, cut, n)
  <2>1. /\ p \in Texts /\ IsText(p, Low) /\ Begin(p) = m + cut /\ End(p) = m + cut + n
    <3>1. cut + n <= Len(b.text)
      BY <1>2, <1>6, <1>7, <1>9
    <3> QED  BY <1>2, <1>5, <1>9, <1>11, <3>1, PieceIs
  <2>2. pieces' = Append(pieces, p) /\ m + cut \in Nat /\ m + cut + n \in Nat
    BY <1>2, <1>4, <1>9, <1>11
  <2> HIDE DEF p
  <2>3. Chain(pieces', Low, Low, m + cut + n) /\ pieces' \in Seq(Texts)
    <3>1. Chain(pieces', Low, Low, End(p))
      BY <1>2, <1>3, <2>1, <2>2, ChainAppend
    <3> QED  BY <1>2, <2>1, <2>2, <3>1
  <2>4. \A x, y \in Nat : Kept(x, y) => Kept(x, y)'
    BY <1>2, <1>11, <2>1, <2>2, PiecesKept DEF b
  <2>5. /\ HeadingsOK' /\ SectionsOK' /\ BetweenOK' /\ FencesOK' /\ RecordsOK'
        /\ Low' = Low /\ High' = High
    <3>1. stage' \in {"split", "cut"}
      BY <1>1, <1>11
    <3> QED  BY <1>1, <1>2, <1>11, <2>4, <3>1, Rest
  <2>6. ChunkTypeOK'
    <3>1. blocks' \in Seq(Blocks) /\ stage' \in Places /\ cut' \in Nat
      <4>1. Tail(blocks) \in Seq(Blocks)
        BY <1>2
      <4>2. blocks' \in Seq(Blocks)
        BY <1>2, <1>11, <4>1
      <4>3. stage' \in Places
        BY <1>1, <1>11 DEF Places
      <4>4. cut' \in Nat
        BY <1>2, <1>9, <1>11
      <4> QED  BY <4>2, <4>3, <4>4
    <3> QED  BY <1>2, <1>11, <2>3, <3>1 DEF ChunkTypeOK
  <2>7. CASE n = Len(rest)
    <3>1. stage' = "split" /\ blocks' = Tail(blocks) /\ blocks' \in Seq(Blocks)
      <4>1. Tail(blocks) \in Seq(Blocks)
        BY <1>2
      <4> QED  BY <1>11, <2>7, <4>1
    <3>2. m + cut + n = End(b)
      BY <1>2, <1>4, <1>6, <1>7, <2>7
    <3>3. End(b) \in Low..High
      <4>1. End(b) <= High
        BY <1>2, <1>5, <1>6, <3>1, ChainBounds
      <4>2. Low <= m
        BY <1>2
      <4> QED  BY <1>2, <1>4, <1>6, <4>1, <4>2
    <3>4. Chain(blocks', Low, End(b), High) /\ Chain(pieces', Low, Low, End(b) + 0)
      BY <1>5, <1>6, <2>3, <3>1, <3>2
    <3>5. SplitOK'
      BY <1>2, <1>11, <2>5, <3>1, <3>3, <3>4 DEF SplitOK, NoText
    <3> QED  BY <2>5, <2>6, <3>1, <3>5 DEF ChunkInv, Sound, ScanOK, PackOK
  <2>8. CASE n # Len(rest)
    <3>1. stage' = "cut" /\ blocks' = blocks
      BY <1>1, <1>11, <2>8
    <3>2. cut' = cut + n /\ cut + n < Len(b.text) /\ m + cut + n = m + (cut + n)
      BY <1>2, <1>4, <1>6, <1>7, <1>9, <1>11, <2>8
    <3>3. Chain(pieces', Low, Low, m + cut')
      BY <2>3, <3>2
    <3>4. SplitOK'
      <4>1. ~ Head(blocks').whole /\ cut' < Len(Head(blocks').text)
        BY <1>2, <3>1, <3>2 DEF b
      <4> QED  BY <1>2, <1>3, <1>11, <2>5, <3>1, <3>3, <4>1 DEF SplitOK, NoText
    <3> QED  BY <2>5, <2>6, <3>1, <3>4 DEF ChunkInv, Sound, ScanOK, PackOK
  <2> QED  BY <2>7, <2>8
<1> QED  BY <1>8, <1>10, <1>11

(* When no block is left the pieces cover the section.                     *)
LEMMA SplitAllKeeps ==
    ASSUME ChunkInv, SplitAll
    PROVE  ChunkInv'
<1>1. /\ stage = "split" /\ blocks = <<>> /\ stage' = "pack"
      /\ UNCHANGED <<source, line, headings, sections, start, blocks, pieces, cut, current, packed,
                     chunks, fences>>
  BY DEF SplitAll
<1>2. /\ ChunkTypeOK /\ Sound /\ Len(chunks) < Len(sections) /\ Low \in Nat /\ High \in Nat
      /\ packed = <<>> /\ current = NoText
  BY <1>1, Splitting DEF Sound, SplitOK
<1>3. PICK m \in Low..High : Chain(blocks, Low, m, High) /\ Chain(pieces, Low, Low, m + 0)
  BY <1>1, Splitting
<1>4. m = High /\ m + 0 = m
  BY <1>1, <1>2, <1>3 DEF Chain
<1>5. \A x, y \in Nat : Kept(x, y) => Kept(x, y)'
  BY <1>1 DEF Kept
<1>6. /\ HeadingsOK' /\ SectionsOK' /\ BetweenOK' /\ FencesOK' /\ RecordsOK'
      /\ Low' = Low /\ High' = High
  BY <1>1, <1>2, <1>5, Rest
<1>7. PackOK'
  BY <1>1, <1>2, <1>3, <1>4, <1>6 DEF PackOK, NoText
<1>8. ChunkTypeOK'
  BY <1>1, <1>2 DEF ChunkTypeOK, Places
<1> QED  BY <1>1, <1>6, <1>7, <1>8 DEF ChunkInv, Sound, ScanOK, SplitOK

(* A chunk that follows the current one.                                   *)
LEMMA LaidAppend ==
    ASSUME NEW d, NEW s \in Seq(Texts), NEW x \in Texts, NEW y, NEW n,
           Laid(d, s, x, n), IsText(y, n), Follows(d, x, y)
    PROVE  Laid(d, Append(s, x), y, n)
<1> DEFINE t == Append(s, x)
<1>1. /\ Len(s) \in Nat /\ Len(t) = Len(s) + 1 /\ t # <<>> /\ t[Len(t)] = x
      /\ \A i \in 1..Len(s) : t[i] = s[i]
      /\ s = <<>> <=> Len(s) = 0
  OBVIOUS
<1> HIDE DEF t
<1>2. ASSUME NEW i \in 1..Len(t) PROVE i \in 1..Len(s) \/ i = Len(t)
  BY <1>1
<1>3. ASSUME NEW i \in 1..Len(t) PROVE IsText(t[i], n) /\ End(t[i]) < End(y)
  <2>1. End(x) < End(y)
    BY DEF Follows
  <2>2. CASE i \in 1..Len(s)
    <3>1. t[i] = s[i] /\ IsText(s[i], n) /\ End(s[i]) < End(x)
      BY <1>1, <2>2 DEF Laid
    <3>2. End(s[i]) \in Nat /\ End(x) \in Nat /\ End(y) \in Nat
      BY <3>1 DEF Laid, IsText
    <3> QED  BY <2>1, <3>1, <3>2
  <2>3. CASE i = Len(t)
    BY <1>1, <2>1, <2>3 DEF Laid
  <2> QED  BY <1>2, <2>2, <2>3
<1>4. Begin(t[1]) = n
  BY <1>1 DEF Laid
<1>5. ASSUME NEW i \in 1..Len(t), i > 1 PROVE Follows(d, t[i - 1], t[i])
  <2>1. i - 1 \in 1..Len(s) /\ t[i - 1] = s[i - 1]
    BY <1>1, <1>5
  <2>2. CASE i \in 1..Len(s)
    BY <1>1, <1>5, <2>1, <2>2 DEF Laid
  <2>3. CASE i = Len(t)
    <3>1. i - 1 = Len(s) /\ s # <<>> /\ t[i] = x
      BY <1>1, <1>5, <2>3
    <3> QED  BY <2>1, <3>1 DEF Laid
  <2> QED  BY <1>2, <2>2, <2>3
<1> QED  BY <1>1, <1>3, <1>4, <1>5 DEF Laid, t

(* What a chunk repeats: nothing, or an end of the chunk before it that    *)
(* is within the overlap and leaves room for the piece.                    *)
LEMMA RepeatedIs ==
    ASSUME ChunkTypeOK, NEW t, NEW b, Repeated(t, b) # <<>>
    PROVE  /\ \E k \in 1..(Len(t) + 1) : Repeated(t, b) = SubSeq(t, k, Len(t))
           /\ Count(doc, 0, Repeated(t, b)) \in 0..Overlap
           /\ Tokens(Repeated(t, b) \o b) <= TargetMax
<1>1. Overlap \in Nat
  BY ChunkingAssumption
<1>2. Overlaps(t, b) # {} /\ Overlaps(t, b) \in SUBSET (0..Overlap)
  BY <1>1 DEF Repeated, Overlaps
<1> DEFINE n == CHOOSE n \in Overlaps(t, b) : \A m \in Overlaps(t, b) : m <= n
<1>3. n \in Overlaps(t, b)
  <2>1. \E x \in Overlaps(t, b) : \A m \in Overlaps(t, b) : m <= x
    BY <1>1, <1>2, GreatestElement
  <2> QED  BY <2>1
<1>4. Repeated(t, b) = BoundedTail(t, n)
  BY DEF Repeated
<1> HIDE DEF n
<1>5. /\ n \in 1..Overlap /\ BoundedTail(t, n) # <<>>
      /\ Tokens(BoundedTail(t, n) \o b) <= TargetMax
  BY <1>3 DEF Overlaps
<1>6. /\ BoundedTail(t, n) = TakeTail(doc, t, n)
      /\ EndsWith(t, TakeTail(doc, t, n)) /\ Count(doc, 0, TakeTail(doc, t, n)) \in 0..n
  BY <1>5 DEF BoundedTail
<1>7. 0..n \subseteq 0..Overlap
  BY <1>1, <1>5
<1> QED  BY <1>4, <1>5, <1>6, <1>7 DEF EndsWith

(* What holds while the pieces are packed.                                 *)
LEMMA Packing ==
    ASSUME ChunkInv, stage = "pack"
    PROVE  /\ ChunkTypeOK /\ Sound
           /\ Len(chunks) < Len(sections) /\ Low \in Nat /\ High \in Nat /\ Low < High
           /\ pieces \in Seq(Texts) /\ packed \in Seq(Texts) /\ current \in Texts
           /\ blocks = <<>>
<1>1. ChunkTypeOK /\ Sound /\ Len(chunks) < Len(sections)
  BY DEF ChunkInv, Sound, BetweenOK
<1>2. Low \in Nat /\ High \in Nat /\ Low < High
  BY <1>1, Work DEF Sound
<1> QED  BY <1>1, <1>2 DEF Sound, PackOK, ChunkTypeOK

(* A piece joins the current chunk, or begins one that repeats less than   *)
(* all of it: all of it and the piece do not fit, what is repeated and the *)
(* piece do.                                                               *)
LEMMA PackKeeps ==
    ASSUME ChunkInv, Pack
    PROVE  ChunkInv'
<1> DEFINE b == Head(pieces)
           both == current.text \o b.text
           tail == Repeated(current.text, b.text)
<1>1. /\ stage = "pack" /\ stage' = "pack" /\ pieces # <<>> /\ pieces' = Tail(pieces)
      /\ UNCHANGED <<source, stage, line, headings, sections, start, blocks, cut, chunks, fences>>
  BY DEF Pack
<1>2. /\ ChunkTypeOK /\ Sound /\ Len(chunks) < Len(sections) /\ Low \in Nat /\ High \in Nat
      /\ pieces \in Seq(Texts) /\ packed \in Seq(Texts) /\ current \in Texts /\ blocks = <<>>
  BY <1>1, Packing
<1>3. /\ current = NoText => packed = <<>> /\ Chain(pieces, Low, Low, High)
      /\ current # NoText => /\ Chain(pieces, Low, End(current), High)
                             /\ Laid(doc, packed, current, Low)
  BY <1>1, <1>2 DEF Sound, PackOK
<1> DEFINE a == IF current = NoText THEN Low ELSE End(current)
<1>4. a \in Nat /\ Chain(pieces, Low, a, High)
  BY <1>2, <1>3 DEF Laid, IsText
<1>5. IsText(b, Low) /\ Begin(b) = a /\ Chain(pieces', Low, End(b), High)
  <2> HIDE DEF a
  <2> QED  BY <1>1, <1>2, <1>4, ChainHead
<1>6. /\ End(b) \in Nat /\ a < End(b) /\ b.text = Passage(a, End(b)) /\ b.offset = a - Low
      /\ Low <= a
  BY <1>5 DEF IsText
<1>7. pieces' \in Seq(Texts)
  BY <1>1, <1>2
<1> HIDE DEF b, a

(* In each case there is a new current chunk, with the piece at its end.   *)
<1>8. ASSUME NEW from \in Nat, Low <= from, from <= a,
             current'.text = Passage(from, End(b)), current'.offset = from - Low,
             DOMAIN current' = {"text", "offset"},
             current' = [text |-> current'.text, offset |-> current'.offset]
      PROVE  /\ current' \in Texts /\ current' # NoText /\ IsText(current', Low)
             /\ Begin(current') = from /\ End(current') = End(b)
  <2> DEFINE x == current'
             to == End(b)
  <2> HIDE DEF to
  <2>1. to \in Nat /\ from < to /\ from <= to
    BY <1>4, <1>6, <1>8 DEF to
  <2>2. Passage(from, to) \in Seq(Nat) /\ Passage(from, to) # <<>>
    BY <1>8, <2>1, PassageIs
  <2>3. x \in Texts /\ x # NoText
    BY <1>2, <1>8, <2>1, <2>2 DEF Texts, NoText, to
  <2>4. IsText(x, Low) /\ Begin(x) = from /\ End(x) = to
    <3> HIDE DEF x
    <3>1. x.text = Passage(from, to) /\ x.offset = from - Low
      BY <1>8 DEF to, x
    <3> QED  BY <1>2, <1>8, <2>1, <3>1, TextIs
  <2> QED  BY <2>3, <2>4 DEF to

<1>9. ASSUME IsText(current', Low), Begin(current') <= a, End(current') = End(b),
             current' \in Texts, current' # NoText, packed' \in Seq(Texts),
             Laid(doc, packed', current', Low),
             \A x, y \in Nat : (\E i \in 1..Len(packed) : Holds(packed[i], x, y))
                  => \E i \in 1..Len(packed') : Holds(packed'[i], x, y),
             \A x, y \in Nat : current # NoText /\ Holds(current, x, y)
                  => Holds(current', x, y) \/ \E i \in 1..Len(packed') : Holds(packed'[i], x, y)
      PROVE  ChunkInv'
  <2>1. \A x, y \in Nat : Kept(x, y) => Kept(x, y)'
    <3> SUFFICES ASSUME NEW x \in Nat, NEW y \in Nat, Kept(x, y) PROVE Kept(x, y)'
      OBVIOUS
    <3>1. CASE \E i \in 1..Len(packed) : Holds(packed[i], x, y)
      BY <1>9, <3>1 DEF Kept
    <3>2. CASE current # NoText /\ Holds(current, x, y)
      BY <1>9, <3>2 DEF Kept, NoText
    <3>3. CASE \E i \in 1..Len(pieces) : Holds(pieces[i], x, y)
      <4>1. PICK i \in 1..Len(pieces) : Holds(pieces[i], x, y)
        BY <3>3
      <4>2. CASE i = 1
        <5>1. Holds(b, x, y)
          BY <4>1, <4>2, <1>2 DEF b
        <5>2. Begin(current') \in Nat
          BY <1>9 DEF IsText
        <5>3. Holds(current', x, y)
          BY <1>4, <1>5, <1>9, <5>1, <5>2 DEF Holds
        <5> QED  BY <1>9, <5>3 DEF Kept, NoText
      <4>3. CASE i # 1
        <5>1. i - 1 \in 1..Len(pieces') /\ pieces'[i - 1] = pieces[i]
          BY <1>1, <1>2, <4>3
        <5> QED  BY <4>1, <5>1 DEF Kept
      <4> QED  BY <4>2, <4>3
    <3> QED  BY <1>2, <3>1, <3>2, <3>3 DEF Kept
  <2>2. /\ HeadingsOK' /\ SectionsOK' /\ BetweenOK' /\ FencesOK' /\ RecordsOK'
        /\ doc' = doc /\ Low' = Low /\ High' = High
    BY <1>1, <1>2, <2>1, Rest
  <2>3. PackOK'
    BY <1>1, <1>2, <1>5, <1>9, <2>2 DEF PackOK, NoText
  <2>4. ChunkTypeOK'
    BY <1>1, <1>2, <1>7, <1>9 DEF ChunkTypeOK
  <2> QED  BY <1>1, <2>2, <2>3, <2>4 DEF ChunkInv, Sound, ScanOK, SplitOK

<1>10. CASE /\ current = NoText /\ current' = [text |-> both, offset |-> b.offset]
            /\ UNCHANGED packed
  <2>1. a = Low /\ packed = <<>>
    BY <1>3, <1>10 DEF a
  <2>2. both = b.text
    <3>1. b.text \in Seq(Nat)
      <4>1. b \in Texts
        BY <1>1, <1>2 DEF b
      <4> QED  BY <4>1 DEF Texts
    <3> QED  BY <1>10, <3>1, ConcatEmptySeq DEF NoText
  <2>3. /\ current' \in Texts /\ current' # NoText /\ IsText(current', Low)
        /\ Begin(current') = Low /\ End(current') = End(b)
    BY <1>2, <1>6, <1>8, <1>10, <2>1, <2>2
  <2>4. Laid(doc, packed', current', Low)
    BY <1>10, <2>1, <2>3 DEF Laid
  <2> QED  BY <1>2, <1>9, <1>10, <2>1, <2>3, <2>4

<1>11. ASSUME current # NoText
       PROVE  /\ Laid(doc, packed, current, Low) /\ IsText(current, Low) /\ a = End(current)
              /\ Begin(current) \in Nat /\ Low <= Begin(current) /\ Begin(current) < a
              /\ current.text = Passage(Begin(current), a)
              /\ current.offset = Begin(current) - Low
  BY <1>3, <1>11 DEF a, Laid, IsText

<1>12. CASE /\ current # NoText /\ current' = [text |-> both, offset |-> current.offset]
            /\ UNCHANGED packed
  <2> DEFINE from == Begin(current)
             to == End(b)
  <2>1. /\ from \in Nat /\ Low <= from /\ from < a /\ from <= a /\ a <= to /\ to \in Nat
    BY <1>4, <1>6, <1>11, <1>12
  <2> HIDE DEF from, to
  <2>2. both = Passage(from, to)
    <3>1. both = Passage(from, a) \o Passage(a, to)
      BY <1>6, <1>11, <1>12 DEF from, to
    <3> QED  BY <1>4, <2>1, <3>1, PassagesJoin
  <2>3. /\ current' \in Texts /\ current' # NoText /\ IsText(current', Low)
        /\ Begin(current') = from /\ End(current') = to
    <3>1. current'.text = Passage(from, End(b)) /\ current'.offset = from - Low
      BY <1>11, <1>12, <2>2 DEF from, to
    <3>2. DOMAIN current' = {"text", "offset"}
          /\ current' = [text |-> current'.text, offset |-> current'.offset]
      BY <1>12
    <3> QED  BY <1>8, <2>1, <3>1, <3>2 DEF to
  <2>4. Laid(doc, packed', current', Low)
    <3>1. /\ a < to /\ a = End(current) /\ from = Begin(current)
      BY <1>6, <1>11, <1>12 DEF to, from
    <3>2. ASSUME NEW i \in 1..Len(packed) PROVE IsText(packed[i], Low) /\ End(packed[i]) < to
      <4>1. IsText(packed[i], Low) /\ End(packed[i]) < a
        BY <1>11, <1>12 DEF Laid
      <4> QED  BY <1>4, <2>1, <3>1, <4>1 DEF IsText
    <3>3. ASSUME packed # <<>> PROVE Follows(doc, packed[Len(packed)], current')
      <4>1. Follows(doc, packed[Len(packed)], current) /\ Len(packed) \in 1..Len(packed)
        BY <1>2, <1>11, <1>12, <3>3 DEF Laid
      <4>2. End(packed[Len(packed)]) < to
        BY <3>2, <4>1
      <4> QED  BY <2>3, <3>1, <4>1, <4>2 DEF Follows
    <3>4. packed = <<>> => Begin(current') = Low
      BY <1>11, <1>12, <2>3, <3>1 DEF Laid
    <3>5. /\ packed # <<>> => Begin(packed[1]) = Low
          /\ \A i \in 1..Len(packed) : i > 1 => Follows(doc, packed[i - 1], packed[i])
      BY <1>11, <1>12 DEF Laid
    <3> QED  BY <1>12, <2>3, <3>2, <3>3, <3>4, <3>5 DEF Laid
  <2>5. \A x, y \in Nat : Holds(current, x, y) => Holds(current', x, y)
    BY <1>4, <1>11, <1>12, <2>1, <2>3 DEF Holds, from
  <2> QED  BY <1>2, <1>9, <1>12, <2>1, <2>3, <2>4, <2>5 DEF to

<1>13. CASE /\ current # NoText /\ ~ (Tokens(both) <= TargetMax)
            /\ packed' = Append(packed, current)
            /\ current' = [text |-> tail \o b.text,
                           offset |-> current.offset + Len(current.text) - Len(tail)]
  <2> DEFINE was == Begin(current)
             to == End(b)
  <2>1. was \in Nat /\ Low <= was /\ was < a /\ was <= a /\ a <= to /\ a < to /\ to \in Nat
    BY <1>4, <1>6, <1>11, <1>13
  <2>2. current.text = Passage(was, a) /\ b.text = Passage(a, to) /\ current.offset = was - Low
    BY <1>6, <1>11, <1>13
  <2>3. Len(current.text) = a - was
    <3> HIDE DEF was
    <3> QED  BY <1>4, <2>1, <2>2, PassageIs
  <2>4. \E from \in Nat : /\ was < from /\ from <= a /\ tail = Passage(from, a)
                          /\ from < a => Count(doc, 0, tail) \in 0..Overlap
    <3>1. CASE tail = <<>>
      <4>1. Passage(a, a) = <<>>
        BY <1>4 DEF Passage
      <4> QED  BY <1>4, <2>1, <3>1, <4>1
    <3>2. CASE tail # <<>>
      <4>1. PICK k \in 1..(Len(current.text) + 1) :
               tail = SubSeq(current.text, k, Len(current.text))
        BY <1>2, <3>2, RepeatedIs
      <4>2. Count(doc, 0, tail) \in 0..Overlap /\ Tokens(tail \o b.text) <= TargetMax
        BY <1>2, <3>2, RepeatedIs
      <4> HIDE DEF was, to, tail
      <4>3. k \in 1..(a - was + 1) /\ a - was \in (k - 1)..(a - was) /\ k \in Nat
        BY <1>4, <2>1, <2>3, <4>1
      <4>4. SubSeq(Passage(was, a), k, a - was) = Passage(was + k - 1, was + (a - was))
        BY <1>4, <2>1, <4>3, PassagePart
      <4>5. tail = Passage(was + k - 1, a)
        <5>1. was + (a - was) = a
          BY <1>4, <2>1
        <5> QED  BY <2>2, <2>3, <4>1, <4>4, <5>1
      <4>6. k # 1
        <5>1. k = 1 => was + k - 1 = was
          BY <2>1
        <5> QED  BY <1>13, <2>2, <4>2, <4>5, <5>1
      <4>7. was + k - 1 \in Nat /\ was < was + k - 1 /\ was + k - 1 <= a
        BY <1>4, <2>1, <4>3, <4>6, <4>5, <3>2 DEF Passage
      <4> QED  BY <4>2, <4>5, <4>7
    <3> QED  BY <3>1, <3>2
  <2> HIDE DEF was, to, tail
  <2>5. PICK from \in Nat : /\ was < from /\ from <= a /\ tail = Passage(from, a)
                            /\ from < a => Count(doc, 0, tail) \in 0..Overlap
    BY <2>4
  <2>6. tail \o b.text = Passage(from, to) /\ Len(tail) = a - from
    <3>1. tail \o b.text = Passage(from, a) \o Passage(a, to)
      BY <2>2, <2>5
    <3>2. Passage(from, a) \o Passage(a, to) = Passage(from, to)
      BY <1>4, <2>1, <2>5, PassagesJoin
    <3>3. Len(Passage(from, a)) = a - from
      BY <1>4, <2>5, PassageIs
    <3> QED  BY <2>5, <3>1, <3>2, <3>3
  <2>7. /\ current' \in Texts /\ current' # NoText /\ IsText(current', Low)
        /\ Begin(current') = from /\ End(current') = to
    <3>1. current'.text = Passage(from, End(b))
      BY <1>13, <2>6 DEF to
    <3>2. current'.offset = from - Low
      <4>1. current'.offset = (was - Low) + (a - was) - (a - from)
        BY <1>13, <2>2, <2>3, <2>6
      <4> QED  BY <1>2, <1>4, <2>1, <2>5, <4>1
    <3>3. DOMAIN current' = {"text", "offset"}
          /\ current' = [text |-> current'.text, offset |-> current'.offset]
      BY <1>13
    <3>4. Low <= from
      BY <1>2, <2>1, <2>5
    <3> QED  BY <1>8, <2>5, <3>1, <3>2, <3>3, <3>4 DEF to
  <2>8. Laid(doc, packed', current', Low)
    <3>1. Begin(current) < from /\ a = End(current) /\ a < to
      BY <1>11, <1>13, <2>1, <2>5 DEF was
    <3>2. Follows(doc, current, current')
      BY <2>5, <2>7, <3>1 DEF Follows
    <3> QED  BY <1>2, <1>11, <1>13, <2>7, <3>2, LaidAppend
  <2>9. /\ packed' \in Seq(Texts) /\ Len(packed) \in Nat /\ Len(packed') = Len(packed) + 1
        /\ packed'[Len(packed')] = current /\ \A i \in 1..Len(packed) : packed'[i] = packed[i]
    BY <1>2, <1>13
  <2>10. \A x, y \in Nat : (\E i \in 1..Len(packed) : Holds(packed[i], x, y))
             => \E i \in 1..Len(packed') : Holds(packed'[i], x, y)
    BY <2>9
  <2>11. \A x, y \in Nat : Holds(current, x, y)
             => \E i \in 1..Len(packed') : Holds(packed'[i], x, y)
    BY <2>9
  <2> QED  BY <1>9, <2>5, <2>7, <2>8, <2>9, <2>10, <2>11 DEF to
<1> QED  BY <1>10, <1>12, <1>13 DEF Pack, b

(* The record of a text: its lines are those of its first and last         *)
(* characters.                                                             *)
LEMMA RecordIs ==
    ASSUME ChunkTypeOK, Low \in Nat, NEW x, IsText(x, Low), End(x) <= doc.upto[Len(doc.lines)]
    PROVE  LET r == Record(x) IN
           /\ r \in Records /\ r.text = x.text
           /\ Begin(r) = Begin(x) /\ End(r) = End(x)
           /\ First(r) = Begin(x) + 1 /\ Final(r) = End(x)
           /\ r.text # <<>> /\ r.text = Passage(First(r) - 1, Final(r))
           /\ First(r) \in (doc.upto[r.lines[1] - 1] + 1)..doc.upto[r.lines[1]]
           /\ Final(r) \in (doc.upto[r.lines[2] - 1] + 1)..doc.upto[r.lines[2]]
<1> DEFINE a == Begin(x)
           b == End(x)
           r == Record(x)
<1>1. IsSplit(doc) /\ Len(doc.lines) \in Nat /\ doc.upto[Len(doc.lines)] \in Nat
  BY DocumentIs, LinesAre
<1>2. /\ a \in Nat /\ b \in Nat /\ a < b /\ Low <= a /\ a <= b
      /\ x.text = Passage(a, b) /\ x.offset = a - Low
  BY DEF IsText
<1>3. /\ Low + x.offset = a /\ (Low + x.offset) + 1 = a + 1
      /\ (Low + x.offset) + Len(x.text) = b
      /\ x.text \in Seq(Nat) /\ x.text # <<>> /\ x.text[1] = a + 1 /\ x.text[Len(x.text)] = b
  <2> HIDE DEF a, b
  <2>1. /\ Passage(a, b) \in Seq(Nat) /\ Len(Passage(a, b)) = b - a /\ Passage(a, b) # <<>>
        /\ Passage(a, b)[1] = a + 1 /\ Passage(a, b)[Len(Passage(a, b))] = b
    BY <1>2, PassageIs
  <2>2. Low + x.offset = a
    BY <1>2
  <2> QED  BY <1>2, <2>1, <2>2
<1> HIDE DEF a, b
<1>4. r = [text |-> x.text, lines |-> <<LineAt(doc, a + 1), LineAt(doc, b)>>]
  BY <1>3 DEF Record, Low
<1>5. a + 1 \in 1..doc.upto[Len(doc.lines)] /\ b \in 1..doc.upto[Len(doc.lines)]
  BY <1>1, <1>2 DEF b
<1>6. /\ LineAt(doc, a + 1) \in 1..Len(doc.lines)
      /\ a + 1 \in (doc.upto[LineAt(doc, a + 1) - 1] + 1)..doc.upto[LineAt(doc, a + 1)]
      /\ LineAt(doc, b) \in 1..Len(doc.lines)
      /\ b \in (doc.upto[LineAt(doc, b) - 1] + 1)..doc.upto[LineAt(doc, b)]
  BY <1>1, <1>5, LineIs
<1>7. r \in Records
  BY <1>1, <1>3, <1>4, <1>6 DEF Records
<1>8. First(r) = a + 1 /\ Final(r) = b /\ r.text = x.text
      /\ r.lines[1] = LineAt(doc, a + 1) /\ r.lines[2] = LineAt(doc, b)
  BY <1>3, <1>4 DEF First, Final
<1>9. Begin(r) = a /\ End(r) = b
  BY <1>2, <1>3, <1>8 DEF Begin, End
<1>10. (a + 1) - 1 = a
  BY <1>2
<1> HIDE DEF r
<1> QED  BY <1>2, <1>3, <1>6, <1>7, <1>8, <1>9, <1>10 DEF a, b, r

(* The chunks of a section become its records.                             *)
LEMMA PackedKeeps ==
    ASSUME ChunkInv, Packed
    PROVE  ChunkInv'
<1> DEFINE all == Append(packed, current)
           C == [k \in DOMAIN all |-> Record(all[k])]
           n == Len(all)
<1>1. stage = "pack" /\ pieces = <<>>
  BY DEF Packed
<1>2. /\ ChunkTypeOK /\ Sound /\ Len(chunks) < Len(sections)
      /\ Low \in Nat /\ High \in Nat /\ Low < High
      /\ packed \in Seq(Texts) /\ current \in Texts /\ blocks = <<>>
      /\ chunks \in Seq(Seq(Records))
  BY <1>1, Packing DEF ChunkTypeOK
<1>3. current # NoText /\ Laid(doc, packed, current, Low) /\ End(current) = High
  BY <1>1, <1>2 DEF Sound, PackOK, Chain
<1>4. CASE Fail
  BY <1>2, <1>4, Fails
<1>5. CASE /\ \A k \in DOMAIN all : Tokens(all[k].text) < MaxInput
           /\ chunks' = Append(chunks, C)
           /\ packed' = <<>> /\ current' = NoText
           /\ stage' = "section"
           /\ UNCHANGED <<source, line, headings, sections, start, blocks, pieces, cut, fences>>
  <2>1. /\ all \in Seq(Texts) /\ n = Len(packed) + 1 /\ Len(packed) \in Nat /\ n \in Nat
        /\ DOMAIN all = 1..n /\ all[n] = current
        /\ \A i \in 1..Len(packed) : all[i] = packed[i]
        /\ packed = <<>> <=> Len(packed) = 0
    BY <1>2
  <2> HIDE DEF all, n
  <2>2. ASSUME NEW i \in 1..n PROVE i \in 1..Len(packed) \/ i = n
    BY <2>1
  <2>3. ASSUME NEW i \in 1..n PROVE IsText(all[i], Low) /\ End(all[i]) <= High
    <3>1. CASE i \in 1..Len(packed)
      <4>1. IsText(all[i], Low) /\ End(all[i]) < High
        BY <1>3, <2>1, <3>1 DEF Laid
      <4> QED  BY <1>2, <4>1 DEF IsText
    <3>2. CASE i = n
      BY <1>2, <1>3, <2>1, <3>2 DEF Laid
    <3> QED  BY <2>2, <3>1, <3>2
  <2>4. Begin(all[1]) = Low
    BY <1>3, <2>1 DEF Laid
  <2>5. ASSUME NEW i \in 1..n, i > 1 PROVE Follows(doc, all[i - 1], all[i])
    <3>1. i - 1 \in 1..Len(packed) /\ all[i - 1] = packed[i - 1]
      BY <2>1, <2>5
    <3>2. CASE i \in 1..Len(packed)
      BY <1>3, <2>1, <2>5, <3>1, <3>2 DEF Laid
    <3>3. CASE i = n
      <4>1. i - 1 = Len(packed) /\ packed # <<>>
        BY <2>1, <2>5, <3>3
      <4> QED  BY <1>3, <2>1, <3>1, <3>3, <4>1 DEF Laid
    <3> QED  BY <2>2, <3>2, <3>3
  <2>6. /\ section \in Sections /\ section.last \in 0..Len(doc.lines)
        /\ Len(doc.lines) \in 0..Len(doc.lines) /\ section.last <= Len(doc.lines)
    BY <1>1, <1>2, Work, DocumentIs, LinesAre DEF Sound
  <2>7. High <= doc.upto[Len(doc.lines)] /\ doc.upto[Len(doc.lines)] \in Nat
    BY <1>2, <2>6, DocumentIs, LinesAre DEF High
  <2>8. DOMAIN C = 1..n /\ \A i \in 1..n : C[i] = Record(all[i])
    BY <2>1
  <2> HIDE DEF C
  <2>9. ASSUME NEW i \in 1..n
        PROVE  /\ C[i] \in Records /\ C[i].text = all[i].text
               /\ Begin(C[i]) = Begin(all[i]) /\ End(C[i]) = End(all[i])
               /\ First(C[i]) = Begin(all[i]) + 1 /\ Final(C[i]) = End(all[i])
               /\ C[i].text # <<>> /\ C[i].text = Passage(First(C[i]) - 1, Final(C[i]))
               /\ First(C[i]) \in (doc.upto[C[i].lines[1] - 1] + 1)..doc.upto[C[i].lines[1]]
               /\ Final(C[i]) \in (doc.upto[C[i].lines[2] - 1] + 1)..doc.upto[C[i].lines[2]]
               /\ Begin(all[i]) \in Nat /\ End(all[i]) \in Nat
    <3>1. IsText(all[i], Low) /\ End(all[i]) <= High
      BY <2>3
    <3>2. Begin(all[i]) \in Nat /\ End(all[i]) \in Nat
      BY <3>1 DEF IsText
    <3>3. End(all[i]) <= doc.upto[Len(doc.lines)]
      BY <1>2, <2>7, <3>1, <3>2
    <3> QED  BY <1>2, <2>8, <3>1, <3>2, <3>3, RecordIs
  <2>10. C \in Seq(Records) /\ Len(C) = n /\ C # <<>>
    <3>1. C \in [1..n -> Records]
      BY <2>8, <2>9 DEF C
    <3>2. C \in Seq(Records) /\ Len(C) = n
      BY <2>1, <3>1
    <3> QED  BY <2>1, <3>2
  <2>11. ASSUME NEW i \in 1..n, i > 1
         PROVE  /\ First(C[i - 1]) < First(C[i]) /\ First(C[i]) <= Final(C[i - 1]) + 1
                /\ Final(C[i - 1]) < Final(C[i])
                /\ First(C[i]) <= Final(C[i - 1]) =>
                      Count(doc, 0, Passage(First(C[i]) - 1, Final(C[i - 1]))) \in 0..Overlap
    <3>1. i - 1 \in 1..n
      BY <2>1, <2>11
    <3> DEFINE x == all[i - 1]
               y == all[i]
    <3>2. /\ Begin(x) \in Nat /\ End(x) \in Nat /\ Begin(y) \in Nat /\ End(y) \in Nat
          /\ First(C[i - 1]) = Begin(x) + 1 /\ Final(C[i - 1]) = End(x)
          /\ First(C[i]) = Begin(y) + 1 /\ Final(C[i]) = End(y)
          /\ First(C[i]) - 1 = Begin(y)
      <4>1. /\ Begin(x) \in Nat /\ End(x) \in Nat /\ Begin(y) \in Nat /\ End(y) \in Nat
            /\ First(C[i - 1]) = Begin(x) + 1 /\ Final(C[i - 1]) = End(x)
            /\ First(C[i]) = Begin(y) + 1 /\ Final(C[i]) = End(y)
        BY <2>9, <3>1
      <4> HIDE DEF x, y
      <4> QED  BY <4>1
    <3>3. Follows(doc, x, y)
      BY <2>5, <2>11
    <3> HIDE DEF x, y
    <3>4. /\ Begin(x) < Begin(y) /\ Begin(y) <= End(x) /\ End(x) < End(y)
          /\ Begin(y) < End(x) => Count(doc, 0, Passage(Begin(y), End(x))) \in 0..Overlap
      BY <3>3 DEF Follows
    <3>5. First(C[i]) <= Final(C[i - 1]) => Begin(y) < End(x)
      BY <3>2
    <3> QED  BY <3>2, <3>4, <3>5
  <2>12. 1 \in 1..n /\ n \in 1..n
    BY <2>1
  <2>13. Covered(doc, section, C)
    <3>1. First(C[1]) = doc.upto[section.first - 1] + 1
      BY <2>4, <2>9, <2>12 DEF Low
    <3>2. Final(C[Len(C)]) = doc.upto[section.last]
      BY <1>3, <2>1, <2>9, <2>10, <2>12 DEF High
    <3> QED  BY <2>8, <2>9, <2>10, <2>11, <3>1, <3>2 DEF Covered
  <2>14. WithinBudgets(doc, section, C)
    <3>1. \A i \in 1..n : TokensIn(doc, section, C[i].text) < MaxInput
      BY <1>5, <2>1, <2>9 DEF Tokens
    <3> QED  BY <2>8, <2>11, <3>1 DEF WithinBudgets
  <2>15. /\ chunks' \in Seq(Seq(Records)) /\ Len(chunks) \in Nat
         /\ Len(chunks') = Len(chunks) + 1 /\ chunks'[Len(chunks')] = C
         /\ \A k \in 1..Len(chunks) : chunks'[k] = chunks[k]
         /\ DOMAIN chunks' = 1..Len(chunks') /\ DOMAIN chunks = 1..Len(chunks)
    BY <1>2, <1>5, <2>10
  <2>16. doc' = doc
    BY <1>5 DEF doc
  <2>17. RecordsOK'
    <3>1. ASSUME NEW k \in 1..Len(chunks')
          PROVE  /\ Covered(doc, sections[k], chunks'[k])
                 /\ WithinBudgets(doc, sections[k], chunks'[k])
      <4>1. CASE k \in 1..Len(chunks)
        BY <1>2, <2>15, <4>1 DEF Sound, RecordsOK
      <4>2. CASE k \notin 1..Len(chunks)
        <5>1. k = Len(chunks) + 1 /\ sections[k] = section
          BY <2>15, <4>2 DEF section
        <5> QED  BY <2>13, <2>14, <2>15, <5>1
      <4> QED  BY <4>1, <4>2
    <3> QED  BY <1>5, <2>16, <3>1 DEF RecordsOK
  <2>18. FencesOK'
    <3> SUFFICES ASSUME NEW f \in fences PROVE FenceOK(f)'
      BY <1>5 DEF FencesOK
    <3>1. FenceOK(f)
      BY <1>2 DEF Sound, FencesOK
    <3>2. Whole(doc, f, chunks')
      <4>1. CASE Whole(doc, f, chunks)
        <5>1. \A k \in DOMAIN chunks : k \in DOMAIN chunks' /\ chunks'[k] = chunks[k]
          BY <2>15
        <5> QED  BY <4>1, <5>1 DEF Whole
      <4>2. CASE Kept(doc.upto[f[1] - 1], doc.upto[f[2]])
        <5> DEFINE a == doc.upto[f[1] - 1]
                   b == doc.upto[f[2]]
        <5>1. a \in Nat /\ b \in Nat
          <6>1. f[1] \in Nat /\ f[2] \in Nat /\ Len(doc.lines) \in Nat
            BY <1>2, DocumentIs, LinesAre DEF ChunkTypeOK
          <6>2. f[1] - 1 \in 0..Len(doc.lines) /\ f[2] \in 0..Len(doc.lines)
            BY <3>1, <6>1 DEF FenceOK
          <6> QED  BY <1>2, <6>2, DocumentIs, LinesAre
        <5>2. \E i \in 1..n : Holds(all[i], a, b)
          <6>1. (\E i \in 1..Len(packed) : Holds(packed[i], a, b)) \/ Holds(current, a, b)
            BY <1>1, <1>2, <4>2 DEF Kept
          <6> QED  BY <2>1, <2>12, <6>1
        <5> HIDE DEF a, b
        <5>3. PICK i \in 1..n : Holds(all[i], a, b)
          BY <5>2
        <5>4. First(C[i]) <= a + 1 /\ b <= Final(C[i])
          BY <2>9, <5>1, <5>3 DEF Holds
        <5>5. Len(chunks') \in DOMAIN chunks' /\ i \in DOMAIN chunks'[Len(chunks')]
          BY <2>8, <2>15
        <5> QED  BY <2>15, <5>4, <5>5 DEF Whole, a, b
      <4> QED  BY <3>1, <4>1, <4>2 DEF FenceOK
    <3> QED  BY <2>16, <3>1, <3>2 DEF FenceOK
  <2>19. HeadingsOK' /\ SectionsOK'
    BY <1>1, <1>2, <1>5, SectionsSame DEF Sound
  <2>20. BetweenOK'
    <3>1. Len(chunks') <= Len(sections)
      BY <1>2, <2>15 DEF ChunkTypeOK
    <3> QED  BY <1>1, <1>2, <1>5, <3>1 DEF BetweenOK, Empty, NoText
  <2>21. ChunkTypeOK'
    <3>1. NoText \in Texts
      BY DEF NoText, Texts
    <3> QED  BY <1>2, <1>5, <2>15, <3>1 DEF ChunkTypeOK, Places, NoText
  <2> QED  BY <1>5, <2>17, <2>18, <2>19, <2>20, <2>21 DEF ChunkInv, Sound, ScanOK, SplitOK, PackOK
<1> QED  BY <1>3, <1>4, <1>5 DEF Packed

(* ChunkInv is inductive: one step per action.                             *)
LEMMA NextKeeps ==
    ASSUME ChunkInv, [ChunkNext]_chunkVars
    PROVE  ChunkInv'
<1>1. CASE UNCHANGED chunkVars
  <2>1. UNCHANGED <<source, stage, line, headings, sections, start, blocks, pieces, cut, current,
                    packed, chunks, fences>>
    BY <1>1 DEF chunkVars
  <2>2. ChunkTypeOK => ChunkTypeOK'
    BY <2>1 DEF ChunkTypeOK
  <2>3. doc' = doc /\ section' = section /\ Low' = Low /\ High' = High
        /\ (RecordsOK => RecordsOK')
    BY <2>1, Same
  <2>4. ChunkTypeOK /\ FencesOK => FencesOK'
    BY <2>1, FencesSame
  <2>5. HeadingsOK /\ SectionsOK /\ BetweenOK => HeadingsOK' /\ SectionsOK' /\ BetweenOK'
    BY <2>1, <2>3 DEF HeadingsOK, SectionsOK, BetweenOK, Empty, NoText
  <2>6. ScanOK => ScanOK'
    BY <2>1, <2>3 DEF ScanOK, NoText
  <2>7. SplitOK => SplitOK'
    BY <2>1, <2>3 DEF SplitOK, NoText
  <2>8. PackOK => PackOK'
    BY <2>1, <2>3 DEF PackOK, NoText
  <2> QED  BY <2>1, <2>2, <2>3, <2>4, <2>5, <2>6, <2>7, <2>8 DEF ChunkInv, Sound
<1>2. CASE Scan
  BY <1>2, ScanFenceKeeps, ScanBlankKeeps, ScanTextKeeps DEF Scan
<1> QED  BY <1>1, <1>2, FrontKeeps, ParseKeeps, ParsedKeeps, SectionKeeps, ScannedKeeps, SplitKeeps,
            CutKeeps, SplitAllKeeps, PackKeeps, PackedKeeps DEF ChunkNext

(***************************************************************************)
(* The fenced blocks that CommonMark finds.  If no line opens or closes a  *)
(* fence for the chunker alone, the chunker takes each of them for a fence *)
(* too, with the same lines: no line inside one begins a section or a      *)
(* block.                                                                  *)
(***************************************************************************)
Opens(i) == Kind(doc, i) \in {"fence", "info"}
Inside(i) == \E c \in codes : i \in (c[1] + 1)..c[2]

CodeOK(c) ==
    /\ c[1] \in 1..Len(doc.lines) /\ ContentStart(doc) <= c[1]
    /\ c = <<c[1], EndOfFence(doc, c[1], Len(doc.lines), {"fence"})>>
    /\ Opens(c[1]) /\ ~ Inside(c[1])

(* No opening line up to line n has been missed.                           *)
FoundTo(n) == \A i \in ContentStart(doc)..n : Opens(i) => \E c \in codes : i \in c[1]..c[2]

(* A section does not begin inside a fence, and does not end inside one.   *)
Apart(s) ==
    /\ ContentStart(doc) <= s.first /\ ~ Inside(s.first)
    /\ s.last = Len(doc.lines) \/ ~ Inside(s.last + 1)

(* The lines that the chunker has scanned.                                 *)
Passed(i) ==
    \/ \E k \in 1..Len(chunks) : i \in sections[k].first..sections[k].last
    \/ stage = "scan" /\ i \in section.first..(line - 1)
    \/ stage \in {"split", "cut", "pack"} /\ i \in section.first..section.last

CodesParsed ==
    stage = "parse" => /\ FoundTo(line - 1)
                       /\ \A c \in codes : c[2] < line
                       /\ \A k \in 1..Len(headings) : ~ Inside(headings[k])

CodesDivided ==
    stage \notin {"front", "parse"} /\ source.markdown =>
        /\ FoundTo(Len(doc.lines))
        /\ \A k \in 1..Len(sections) : Apart(sections[k])

CodesScanned ==
    ReadAlike(doc) => /\ stage = "scan" => ~ Inside(line)
                      /\ \A c \in codes : Passed(c[1]) => c \in fences

CodesSound ==
    /\ stage = "front" \/ ~ source.markdown => codes = {}
    /\ \A c \in codes : CodeOK(c)
    /\ CodesParsed /\ CodesDivided /\ CodesScanned

CodesInv == stage # "failed" => CodesSound

(* A fence has an opening line, and it ends at that line or after it.      *)
LEMMA CodeIs ==
    ASSUME ChunkTypeOK, Sound, CodesSound, NEW c \in codes
    PROVE  /\ source.markdown /\ stage # "front"
           /\ Len(doc.lines) \in Nat /\ ContentStart(doc) \in Nat /\ ContentStart(doc) >= 1
           /\ c[1] \in 1..Len(doc.lines) /\ ContentStart(doc) <= c[1]
           /\ c[2] = EndOfFence(doc, c[1], Len(doc.lines), {"fence"})
           /\ c[2] \in c[1]..Len(doc.lines) /\ c = <<c[1], c[2]>>
           /\ Opens(c[1]) /\ ~ Blank(doc, c[1]) /\ ~ Inside(c[1])
<1>1. source.markdown /\ stage # "front"
  BY DEF CodesSound
<1>2. Len(doc.lines) \in Nat
  BY DocumentIs, LinesAre
<1>3. ContentStart(doc) \in Nat /\ ContentStart(doc) >= 1
  BY <1>1, <1>2 DEF Sound, HeadingsOK
<1>4. CodeOK(c)
  BY DEF CodesSound
<1>5. c[1] \in 1..Len(doc.lines) /\ ContentStart(doc) <= c[1] /\ Opens(c[1]) /\ ~ Inside(c[1])
  BY <1>4 DEF CodeOK
<1>6. c = <<c[1], EndOfFence(doc, c[1], Len(doc.lines), {"fence"})>>
  BY <1>4 DEF CodeOK
<1>7. c[2] = EndOfFence(doc, c[1], Len(doc.lines), {"fence"}) /\ c = <<c[1], c[2]>>
  BY <1>6
<1>8. c[2] \in c[1]..Len(doc.lines)
  BY <1>2, <1>5, <1>7, FenceEnds
<1>9. ~ Blank(doc, c[1])
  BY <1>5 DEF Opens, Blank
<1> QED  BY <1>1, <1>2, <1>3, <1>5, <1>7, <1>8, <1>9

(* A fence that ends among the lines up to n ends there for the chunker.   *)
LEMMA ReadsAlike ==
    ASSUME NEW d, ReadAlike(d), Len(d.lines) \in Nat,
           NEW n \in Nat, n <= Len(d.lines), NEW i \in 1..n,
           EndOfFence(d, i, Len(d.lines), {"fence"}) <= n
    PROVE  EndOfFence(d, i, n, {"fence", "deep"}) = EndOfFence(d, i, Len(d.lines), {"fence"})
<1> DEFINE N == Len(d.lines)
           All == {j \in (i + 1)..N : Kind(d, j) \in {"fence"}}
           Some == {j \in (i + 1)..n : Kind(d, j) \in {"fence", "deep"}}
<1>1. \A j \in (i + 1)..n : Kind(d, j) \in {"fence", "deep"} => Kind(d, j) \in {"fence"}
  BY DEF ReadAlike
<1>2. Some = {j \in All : j <= n}
  BY <1>1
<1>3. CASE All = {}
  <2>1. EndOfFence(d, i, N, {"fence"}) = N
    BY <1>3 DEF EndOfFence
  <2>2. n = N /\ Some = {}
    BY <1>2, <1>3, <2>1
  <2> QED  BY <2>1, <2>2 DEF EndOfFence
<1>4. CASE All # {}
  <2>1. All \in SUBSET Nat /\ Some \in SUBSET Nat
    OBVIOUS
  <2>2. Least(All) \in All /\ \A y \in All : Least(All) <= y
    BY <1>4, <2>1, LeastIs
  <2>3. EndOfFence(d, i, N, {"fence"}) = Least(All)
    BY <1>4 DEF EndOfFence
  <2> HIDE DEF All
  <2>4. Least(All) \in Some
    BY <1>2, <2>2, <2>3
  <2> HIDE DEF Some
  <2>5. Least(Some) \in Some /\ \A y \in Some : Least(Some) <= y
    BY <2>1, <2>4, LeastIs
  <2>6. Least(Some) = Least(All)
    BY <1>2, <2>1, <2>2, <2>4, <2>5
  <2>7. EndOfFence(d, i, n, {"fence", "deep"}) = Least(Some)
    BY <2>4 DEF EndOfFence, Some
  <2> QED  BY <2>3, <2>6, <2>7
<1> QED  BY <1>3, <1>4

(* A section of Markdown begins at a heading, or at the first line with    *)
(* text; and ends before a heading, or with the document.                  *)
LEMMA MarkdownEdges ==
    ASSUME NEW d, IsSplit(d), ContentStart(d) \in 1..(Len(d.lines) + 1),
           NEW H \in Seq(Nat),
           \A k \in 1..Len(H) : H[k] \in ContentStart(d)..Len(d.lines),
           NEW k \in 1..Len(MarkdownSections(d, H))
    PROVE  LET s == MarkdownSections(d, H)[k] IN
           /\ \/ \E j \in 1..Len(H) : s.first = H[j]
              \/ /\ s.first \in ContentStart(d)..Len(d.lines)
                 /\ \A i \in ContentStart(d)..(s.first - 1) : Blank(d, i)
           /\ \/ s.last = Len(d.lines)
              \/ \E j \in 1..Len(H) : s.last + 1 = H[j]
<1> DEFINE N == Len(d.lines)
           h == Len(H)
           a == ContentStart(d)
           b == IF H = <<>> THEN N ELSE H[1] - 1
           end(g) == IF g < h THEN H[g + 1] - 1 ELSE N
           body == {i \in a..b : ~ Blank(d, i)}
           preamble == [first |-> Least(body), path |-> {}, last |-> b]
           P == IF body = {} THEN <<>> ELSE <<preamble>>
           p == IF body = {} THEN 0 ELSE 1
           Q == [g \in DOMAIN H |-> [first |-> H[g], last |-> end(g), path |-> Path(d, H, g)]]
           S == P \o Q
<1>1. /\ N \in Nat /\ h \in Nat /\ DOMAIN H = 1..h /\ a \in 1..(N + 1)
      /\ H = <<>> <=> h = 0
      /\ \A g \in 1..h : H[g] \in a..N
  BY LinesAre
<1>2. MarkdownSections(d, H) = S
  BY DEF MarkdownSections
<1> DEFINE T == {preamble} \cup {Q[g] : g \in 1..h}
<1>3. Q \in Seq(T) /\ Len(Q) = h
  <2>1. \A g \in 1..h : Q[g] \in T
    OBVIOUS
  <2>2. DOMAIN Q = 1..h /\ Q = [g \in 1..h |-> Q[g]]
    BY <1>1
  <2> HIDE DEF Q, T
  <2>3. Q \in [1..h -> T]
    BY <2>1, <2>2
  <2>4. h \in Nat
    BY <1>1
  <2> HIDE DEF h
  <2>5. Q \in Seq(T)
    BY <2>3, <2>4, SeqDef
  <2>6. DOMAIN Q = 1..h /\ DOMAIN Q = 1..Len(Q) /\ Len(Q) \in Nat
    BY <2>3, <2>5, LenProperties
  <2> QED  BY <2>4, <2>5, <2>6
<1>4. P \in Seq(T) /\ Len(P) = p /\ (p = 1 => P[1] = preamble) /\ p \in {0, 1}
  <2>1. preamble \in T
    OBVIOUS
  <2> HIDE DEF T, preamble, body
  <2>2. body = {} => P = <<>> /\ p = 0
    OBVIOUS
  <2>3. body # {} => P = <<preamble>> /\ p = 1
    OBVIOUS
  <2> HIDE DEF P, p
  <2>4. CASE body = {}
    BY <2>2, <2>4
  <2>5. CASE body # {}
    <3>1. <<preamble>> \in Seq(T) /\ Len(<<preamble>>) = 1 /\ <<preamble>>[1] = preamble
      BY <2>1
    <3> QED  BY <2>3, <2>5, <3>1
  <2> QED  BY <2>4, <2>5
<1>5. (p = 1 /\ k = 1 /\ S[k] = preamble) \/ \E g \in 1..h : S[k] = Q[g]
  <2> HIDE DEF P, Q, p, preamble, T
  <2>2. /\ Len(S) = Len(P) + Len(Q)
        /\ \A i \in 1..(Len(P) + Len(Q)) : S[i] = IF i <= Len(P) THEN P[i] ELSE Q[i - Len(P)]
    BY <1>3, <1>4, ConcatProperties
  <2>3. k \in 1..(p + h) /\ S[k] = IF k <= p THEN P[k] ELSE Q[k - p]
    BY <1>2, <1>3, <1>4, <2>2
  <2> HIDE DEF S
  <2>4. CASE k <= p
    BY <1>1, <1>4, <2>3, <2>4
  <2>5. CASE ~ (k <= p)
    <3>1. k - p \in 1..h
      BY <1>1, <1>4, <2>3, <2>5
    <3> QED  BY <2>3, <2>5, <3>1
  <2> QED  BY <2>4, <2>5
<1>6. CASE p = 1 /\ S[k] = preamble
  <2>1. body # {} /\ body \in SUBSET Nat
    BY <1>1, <1>6
  <2>2. Least(body) \in body /\ \A y \in body : Least(body) <= y
    <3> HIDE DEF body
    <3> QED  BY <2>1, LeastIs
  <2>3. b \in Nat /\ b <= N /\ (b = N \/ (1 \in 1..h /\ b + 1 = H[1]))
    BY <1>1
  <2>4. Least(body) \in a..N
    BY <1>1, <2>2, <2>3
  <2>5. \A i \in a..(Least(body) - 1) : Blank(d, i)
    <3> SUFFICES ASSUME NEW i \in a..(Least(body) - 1), ~ Blank(d, i) PROVE FALSE
      OBVIOUS
    <3>1. i \in body
      BY <1>1, <2>2, <2>3
    <3> HIDE DEF body
    <3> QED  BY <1>1, <2>2, <2>4, <3>1
  <2>6. preamble.first = Least(body) /\ preamble.last = b
    OBVIOUS
  <2> HIDE DEF S, body, b, preamble, p
  <2>7. S[k].first = Least(body) /\ S[k].last = b
    BY <1>6, <2>6
  <2> QED  BY <1>2, <2>3, <2>4, <2>5, <2>7
<1>7. ASSUME NEW g \in 1..h, S[k] = Q[g]
      PROVE  /\ S[k].first = H[g]
             /\ S[k].last = N \/ \E j \in 1..h : S[k].last + 1 = H[j]
  <2>3. Q[g].first = H[g] /\ Q[g].last = end(g)
    BY <1>1
  <2> HIDE DEF Q, S
  <2>1. S[k].first = H[g] /\ S[k].last = end(g)
    BY <1>7, <2>3
  <2>2. g < h => g + 1 \in 1..h /\ end(g) + 1 = H[g + 1]
    BY <1>1
  <2> QED  BY <1>1, <2>1, <2>2
<1> QED  BY <1>2, <1>5, <1>6, <1>7

(* What changes neither the fences nor the sections, and scans no line     *)
(* that opens one.                                                         *)
LEMMA CodesStay ==
    ASSUME CodesSound, UNCHANGED <<source, sections, codes>>,
           stage \notin {"front", "parse"}, stage' \notin {"front", "parse"},
           ReadAlike(doc) =>
               /\ stage' = "scan" => ~ Inside(line')
               /\ \A c \in codes : Passed(c[1])' => c \in fences'
    PROVE  CodesInv'
<1>1. doc' = doc
  BY DEF doc
<1>2. \A i : Inside(i) <=> Inside(i)'
  BY DEF Inside
<1>3. \A c \in codes : CodeOK(c)'
  BY <1>1 DEF CodesSound, CodeOK, Opens, Inside
<1>4. CodesDivided'
  BY <1>1 DEF CodesSound, CodesDivided, FoundTo, Opens, Apart, Inside
<1>5. CodesScanned'
  BY <1>1 DEF CodesScanned, Inside
<1> QED  BY <1>3, <1>4, <1>5 DEF CodesInv, CodesSound, CodesParsed

(* Front matter that is closed, or none.                                   *)
LEMMA FrontCodes ==
    ASSUME ChunkInv, CodesInv, Front
    PROVE  CodesInv'
<1>1. stage = "front" /\ CodesSound /\ ChunkTypeOK /\ Sound
  BY DEF ChunkInv, CodesInv, Front
<1>2. codes = {} /\ headings = <<>> /\ source.markdown \in BOOLEAN
  BY <1>1, DocumentIs DEF CodesSound, Sound, HeadingsOK
<1>3. CASE Fail
  BY <1>3 DEF Fail, CodesInv
<1>4. CASE ~ Fail
  <2>1. UNCHANGED <<source, headings, codes>> /\ doc' = doc
    BY <1>4 DEF Front, doc
  <2>2. \/ source.markdown /\ stage' = "parse" /\ line' = ContentStart(doc)
        \/ ~ source.markdown /\ stage' = "section"
    BY <1>2, <1>4 DEF Front
  <2>3. CASE source.markdown /\ stage' = "parse" /\ line' = ContentStart(doc)
    <3>1. ContentStart(doc) \in 1..(Len(doc.lines) + 1) /\ Len(doc.lines) \in Nat
      <4>1. ChunkInv'
        BY FrontKeeps
      <4>2. (HeadingsOK /\ ChunkTypeOK)'
        BY <2>3, <4>1 DEF ChunkInv, Sound
      <4>3. Len(doc.lines) \in Nat
        BY <1>1, DocumentIs, LinesAre
      <4> QED  BY <2>1, <2>3, <4>2, <4>3 DEF HeadingsOK
    <3>2. FoundTo(line - 1)'
      BY <2>3, <2>1, <3>1 DEF FoundTo
    <3>3. CodesParsed'
      BY <1>2, <2>1, <3>2 DEF CodesParsed, Inside
    <3> QED  BY <1>2, <2>1, <2>3, <3>3 DEF CodesInv, CodesSound, CodesDivided, CodesScanned
  <2>4. CASE ~ source.markdown /\ stage' = "section"
    BY <1>2, <2>1, <2>4
       DEF CodesInv, CodesSound, CodesParsed, CodesDivided, CodesScanned
  <2> QED  BY <2>2, <2>3, <2>4
<1> QED  BY <1>3, <1>4

(* A new fence is after the others; and headings are outside.              *)
LEMMA ParseCodes ==
    ASSUME ChunkInv, CodesInv, Parse
    PROVE  CodesInv'
<1> DEFINE N == Len(doc.lines)
           a == ContentStart(doc)
           e == EndOfFence(doc, line, N, {"fence"})
<1>1. /\ stage = "parse" /\ stage' = "parse" /\ CodesSound /\ ChunkTypeOK /\ Sound /\ line <= N
      /\ UNCHANGED <<source, sections, chunks, fences>>
  BY DEF ChunkInv, CodesInv, Parse
<1>2. /\ doc' = doc /\ N \in Nat /\ source.markdown
      /\ a \in Nat /\ a >= 1 /\ line \in a..N /\ line \in 1..N
      /\ headings \in Seq(Nat) /\ \A k \in 1..Len(headings) : headings[k] \in a..(line - 1)
  <2>1. HeadingsOK /\ headings \in Seq(Nat) /\ N \in Nat
    BY <1>1, DocumentIs, LinesAre DEF Sound, ChunkTypeOK
  <2>2. source.markdown /\ a \in 1..(N + 1) /\ line \in a..(N + 1)
    BY <1>1, <2>1 DEF HeadingsOK
  <2>3. doc' = doc
    BY <1>1 DEF doc
  <2>4. \A k \in 1..Len(headings) : headings[k] \in a..(line - 1)
    BY <1>1, <2>1 DEF HeadingsOK
  <2> HIDE DEF N, a
  <2> QED  BY <1>1, <2>1, <2>2, <2>3, <2>4
<1>3. e \in line..N
  BY <1>2, FenceEnds
<1>4. \A c \in codes : /\ c[1] \in a..N /\ c[2] \in c[1]..N /\ c[2] < line /\ CodeOK(c)
  <2>1. \A c \in codes : c[2] < line /\ CodeOK(c)
    BY <1>1 DEF CodesSound, CodesParsed
  <2>2. \A c \in codes : c[1] \in 1..N /\ a <= c[1] /\ c[2] \in c[1]..N
    BY <1>1, CodeIs
  <2> QED  BY <1>2, <2>1, <2>2
<1>5. FoundTo(line - 1) /\ \A k \in 1..Len(headings) : ~ Inside(headings[k])
  BY <1>1 DEF CodesSound, CodesParsed
<1> HIDE DEF N, a, e
<1>6. CASE Opens(line)
  <2>11. PICK f : f = <<line, e>>
    OBVIOUS
  <2>1. line' = e + 1 /\ codes' = codes \cup {f} /\ UNCHANGED headings
    <3>1. line' = e + 1 /\ codes' = codes \cup {<<line, line' - 1>>} /\ UNCHANGED headings
      BY <1>6 DEF Parse, Opens, e, N
    <3>2. line' - 1 = e
      BY <1>2, <1>3, <3>1
    <3> QED  BY <2>11, <3>1, <3>2
  <2>2. f[1] = line /\ f[2] = e /\ f[1] \in Nat
    BY <1>2, <2>11
  <2>3. \A i \in Nat : i <= line /\ ~ Inside(i) => ~ Inside(i)'
    <3> SUFFICES ASSUME NEW i \in Nat, i <= line, ~ Inside(i), NEW c \in codes',
                        i \in (c[1] + 1)..c[2]
                 PROVE  FALSE
      BY DEF Inside
    <3>1. c = f
      BY <2>1 DEF Inside
    <3> QED  BY <1>2, <1>3, <2>2, <3>1
  <2>4. ~ Inside(f[1])
    BY <1>2, <1>4, <2>2 DEF Inside
  <2>5. \A c \in codes' : CodeOK(c)'
    <3>1. ASSUME NEW c \in codes PROVE CodeOK(c)'
      <4>1. c[1] \in Nat /\ c[1] <= line
        BY <1>2, <1>4
      <4>2. CodeOK(c)
        BY <1>4
      <4> QED  BY <1>2, <2>3, <4>1, <4>2 DEF CodeOK, Opens
    <3>2. CodeOK(f)'
      <4>1. ~ Inside(f[1])'
        BY <1>2, <2>2, <2>3, <2>4
      <4>2. f = <<f[1], EndOfFence(doc, f[1], Len(doc.lines), {"fence"})>>
        BY <2>2, <2>11 DEF e, N
      <4>3. f[1] \in 1..Len(doc.lines) /\ ContentStart(doc) <= f[1]
        BY <1>2, <2>2 DEF N, a
      <4>4. Kind(doc, f[1]) \in {"fence", "info"}
        BY <1>6, <2>2 DEF Opens
      <4>5. Kind(doc', f[1]) \in {"fence", "info"}
        BY <1>2, <4>4
      <4> QED  BY <1>2, <4>1, <4>2, <4>3, <4>5 DEF CodeOK, Opens
    <3> QED  BY <2>1, <3>1, <3>2
  <2>6. FoundTo(line - 1)'
    <3> SUFFICES ASSUME NEW i \in a..e, Opens(i) PROVE \E c \in codes' : i \in c[1]..c[2]
      BY <1>2, <1>3, <2>1 DEF FoundTo, Opens, a
    <3>1. CASE i < line
      <4>1. i \in a..(line - 1)
        BY <1>2, <1>3, <3>1
      <4> QED  BY <1>5, <2>1, <4>1 DEF FoundTo, a
    <3>2. CASE ~ (i < line)
      BY <1>2, <1>3, <2>1, <2>2, <3>2
    <3> QED  BY <3>1, <3>2
  <2>7. \A c \in codes' : c[2] < line'
    BY <1>2, <1>3, <1>4, <2>1, <2>2
  <2>8. (\A k \in 1..Len(headings) : ~ Inside(headings[k]))'
    <3> SUFFICES ASSUME NEW k \in 1..Len(headings), NEW i, i = headings[k] PROVE ~ Inside(i)'
      BY <2>1
    <3>1. i \in Nat /\ i <= line /\ ~ Inside(i)
      BY <1>2, <1>5
    <3> QED  BY <2>3, <3>1
  <2>9. CodesParsed'
    BY <2>6, <2>7, <2>8 DEF CodesParsed
  <2>10. \A i : ~ Passed(i)'
    <3>1. Len(chunks') = 0
      BY <1>1 DEF Sound, BetweenOK
    <3> QED  BY <1>1, <3>1 DEF Passed
  <2> QED  BY <1>1, <1>2, <2>5, <2>9, <2>10 DEF CodesInv, CodesSound, CodesDivided, CodesScanned
<1>7. CASE ~ Opens(line)
  <2>1. line' = line + 1 /\ UNCHANGED codes
    BY <1>7 DEF Parse, Opens
  <2>2. \A i : Inside(i)' <=> Inside(i)
    BY <2>1 DEF Inside
  <2>3. \A c \in codes' : CodeOK(c)'
    BY <1>2, <1>4, <2>1 DEF CodeOK, Opens, Inside
  <2>4. FoundTo(line - 1)'
    <3> SUFFICES ASSUME NEW i \in a..line, Opens(i) PROVE \E c \in codes : i \in c[1]..c[2]
      BY <1>2, <2>1 DEF FoundTo, Opens, a
    <3>1. i \in a..(line - 1)
      BY <1>2, <1>7
    <3> QED  BY <1>5, <3>1 DEF FoundTo, a
  <2>5. \A c \in codes' : c[2] < line'
    BY <1>2, <1>4, <2>1
  <2>6. (\A k \in 1..Len(headings) : ~ Inside(headings[k]))'
    <3>1. CASE UNCHANGED headings
      BY <1>5, <2>1, <3>1 DEF Inside
    <3>2. CASE headings' = Append(headings, line)
      <4>1. ~ Inside(line)
        BY <1>2, <1>4 DEF Inside
      <4>3. /\ Len(headings) \in Nat /\ Len(headings') = Len(headings) + 1
            /\ headings'[Len(headings')] = line
            /\ \A k \in 1..Len(headings) : headings'[k] = headings[k]
        BY <1>2, <3>2
      <4> SUFFICES ASSUME NEW k \in 1..Len(headings'), NEW i, i = headings'[k]
                   PROVE  ~ Inside(i)
        BY <2>1 DEF Inside
      <4>4. CASE k = Len(headings')
        BY <4>1, <4>3, <4>4
      <4>5. CASE k # Len(headings')
        <5>1. k \in 1..Len(headings)
          BY <4>3, <4>5
        <5> QED  BY <1>5, <4>3, <5>1
      <4> QED  BY <4>4, <4>5
    <3> QED  BY <3>1, <3>2 DEF Parse
  <2>7. CodesParsed'
    BY <2>4, <2>5, <2>6 DEF CodesParsed
  <2>8. \A i : ~ Passed(i)'
    <3>1. Len(chunks') = 0
      BY <1>1 DEF Sound, BetweenOK
    <3> QED  BY <1>1, <3>1 DEF Passed
  <2> QED  BY <1>1, <1>2, <2>3, <2>7, <2>8 DEF CodesInv, CodesSound, CodesDivided, CodesScanned
<1> QED  BY <1>6, <1>7

(* No section begins or ends inside a fence.                               *)
LEMMA ParsedCodes ==
    ASSUME ChunkInv, CodesInv, Parsed
    PROVE  CodesInv'
<1> DEFINE N == Len(doc.lines)
           a == ContentStart(doc)
<1>1. /\ stage = "parse" /\ stage' = "section" /\ CodesSound /\ ChunkTypeOK /\ Sound
      /\ line > N /\ sections' = MarkdownSections(doc, headings)
      /\ UNCHANGED <<source, chunks, fences, codes>>
  BY DEF ChunkInv, CodesInv, Parsed
<1>2. /\ doc' = doc /\ N \in Nat /\ IsSplit(doc) /\ a \in 1..(N + 1) /\ line - 1 = N
      /\ headings \in Seq(Nat) /\ \A k \in 1..Len(headings) : headings[k] \in a..N
  <2>1. HeadingsOK /\ headings \in Seq(Nat) /\ N \in Nat /\ IsSplit(doc)
    BY <1>1, DocumentIs, LinesAre DEF Sound, ChunkTypeOK
  <2>2. source.markdown /\ a \in 1..(N + 1) /\ line \in a..(N + 1)
    BY <1>1, <2>1 DEF HeadingsOK
  <2>3. doc' = doc
    BY <1>1 DEF doc
  <2>4. \A k \in 1..Len(headings) : headings[k] \in a..(line - 1)
    BY <1>1, <2>1 DEF HeadingsOK
  <2> HIDE DEF N, a
  <2>5. line - 1 = N
    BY <1>1, <2>1, <2>2
  <2> QED  BY <2>1, <2>2, <2>3, <2>4, <2>5
<1>3. /\ FoundTo(N) /\ \A k \in 1..Len(headings) : ~ Inside(headings[k])
      /\ \A c \in codes : CodeOK(c)
  BY <1>1, <1>2 DEF CodesSound, CodesParsed
<1>4. \A i \in Nat : Inside(i)' <=> Inside(i)
  BY <1>1 DEF Inside
<1>5. (\A k \in 1..Len(sections) : Apart(sections[k]))'
  <2> SUFFICES ASSUME NEW k \in 1..Len(sections'), NEW s, s = sections'[k] PROVE Apart(s)'
    OBVIOUS
  <2>1. /\ \/ \E j \in 1..Len(headings) : s.first = headings[j]
           \/ s.first \in a..N /\ \A i \in a..(s.first - 1) : Blank(doc, i)
        /\ s.last = N \/ \E j \in 1..Len(headings) : s.last + 1 = headings[j]
    <3>1. s = MarkdownSections(doc, headings)[k] /\ k \in 1..Len(MarkdownSections(doc, headings))
      BY <1>1
    <3> HIDE DEF N, a
    <3> QED  BY <1>2, <3>1, MarkdownEdges DEF N, a
  <2>2. a <= s.first /\ s.first \in Nat
    BY <1>2, <2>1
  <2>3. ~ Inside(s.first)
    <3>1. CASE \E j \in 1..Len(headings) : s.first = headings[j]
      BY <1>3, <3>1
    <3>2. CASE \A i \in a..(s.first - 1) : Blank(doc, i)
      <4> SUFFICES ASSUME NEW c \in codes, s.first \in (c[1] + 1)..c[2] PROVE FALSE
        BY DEF Inside
      <4>1. c[1] \in 1..N /\ a <= c[1] /\ ~ Blank(doc, c[1])
        BY <1>1, CodeIs
      <4>2. c[1] \in a..(s.first - 1)
        <5> HIDE DEF a, N
        <5> QED  BY <1>2, <2>2, <4>1
      <4> QED  BY <3>2, <4>1, <4>2
    <3> QED  BY <2>1, <3>1, <3>2
  <2>4. s.last = N \/ ~ Inside(s.last + 1)
    BY <1>3, <2>1
  <2> QED  BY <1>1, <1>2, <2>2, <2>3, <2>4 DEF Apart, Inside
<1>6. CodesDivided'
  BY <1>1, <1>2, <1>3, <1>5 DEF CodesDivided, FoundTo, Opens
<1>7. \A c \in codes' : CodeOK(c)'
  BY <1>1, <1>2, <1>3 DEF CodeOK, Opens, Inside
<1>8. \A i : ~ Passed(i)'
  <2>1. Len(chunks') = 0
    BY <1>1 DEF Sound, BetweenOK
  <2> QED  BY <1>1, <2>1 DEF Passed
<1>9. source.markdown
  BY <1>1 DEF Sound, HeadingsOK
<1> QED  BY <1>1, <1>6, <1>7, <1>8, <1>9 DEF CodesInv, CodesSound, CodesParsed, CodesScanned

(* A section begins with nothing scanned.                                  *)
LEMMA SectionCodes ==
    ASSUME ChunkInv, CodesInv, Section
    PROVE  CodesInv'
<1>1. /\ stage = "section" /\ CodesSound /\ ChunkTypeOK /\ Sound
      /\ UNCHANGED <<source, headings, sections, chunks, fences, codes>>
  BY DEF ChunkInv, CodesInv, Section
<1>2. doc' = doc /\ section' = section
  BY <1>1, Same
<1>3. CASE stage' = "failed"
  BY <1>3 DEF CodesInv
<1>4. CASE stage' = "done"
  <2>1. \A i : Passed(i)' => Passed(i)
    BY <1>1, <1>4 DEF Passed
  <2> QED  BY <1>1, <1>4, <2>1, CodesStay DEF CodesSound, CodesScanned
<1>5. CASE /\ Len(chunks) < Len(sections) /\ stage' = "scan" /\ line' = section.first
  <2>1. section.first \in Nat /\ Len(chunks) + 1 \in 1..Len(sections)
    BY <1>1, <1>5, Work DEF Sound
  <2>2. section.first \notin section.first..(section.first - 1)
        /\ \A i : i \notin section.first..(section.first - 1)
    BY <2>1
  <2>3. \A i : Passed(i)' => Passed(i)
    BY <1>1, <1>2, <1>5, <2>2 DEF Passed
  <2>4. ~ Inside(section.first)
    <3>1. CASE source.markdown
      <4>1. Apart(section)
        BY <1>1, <2>1, <3>1 DEF CodesSound, CodesDivided, section
      <4> QED  BY <4>1 DEF Apart
    <3>2. CASE ~ source.markdown
      BY <1>1, <3>2 DEF CodesSound, Inside
    <3> QED  BY <3>1, <3>2
  <2> QED  BY <1>1, <1>5, <2>3, <2>4, CodesStay DEF CodesSound, CodesScanned
<1> QED  BY <1>3, <1>4, <1>5 DEF Section

(* Lines that open no fence are passed over.                               *)
LEMMA PassedOver ==
    ASSUME ChunkInv, CodesInv, stage = "scan", stage' = "scan",
           UNCHANGED <<source, sections, chunks, fences, codes>>,
           NEW e \in line..section.last, line' = e + 1,
           \A i \in line..e : ~ Opens(i)
    PROVE  CodesInv'
<1>1. /\ CodesSound /\ ChunkTypeOK /\ Sound /\ section.first \in Nat /\ line \in Nat
      /\ section.first <= line /\ section.last \in Nat
  BY Scanning DEF CodesInv
<1>2. doc' = doc /\ section' = section
  BY Same
<1>3. ASSUME NEW c \in codes PROVE c[1] \notin line..e /\ c[1] \in Nat /\ c[2] \in Nat
  <2>1. Opens(c[1]) /\ c[1] \in 1..Len(doc.lines) /\ c[2] \in c[1]..Len(doc.lines)
        /\ Len(doc.lines) \in Nat
    BY <1>1, CodeIs
  <2> QED  BY <2>1
<1>4. ASSUME ReadAlike(doc) PROVE ~ Inside(line')
  <2> SUFFICES ASSUME NEW c \in codes, e + 1 \in (c[1] + 1)..c[2] PROVE FALSE
    BY DEF Inside
  <2>1. ~ (line \in (c[1] + 1)..c[2])
    BY <1>1, <1>4 DEF CodesSound, CodesScanned, Inside
  <2> QED  BY <1>1, <1>3, <2>1
<1>5. ASSUME NEW c \in codes, Passed(c[1])' PROVE Passed(c[1])
  <2>1. CASE \E k \in 1..Len(chunks) : c[1] \in sections[k].first..sections[k].last
    BY <2>1 DEF Passed
  <2>2. CASE c[1] \in section.first..e
    <3>1. c[1] \in section.first..(line - 1)
      BY <1>1, <1>3, <2>2
    <3> QED  BY <3>1 DEF Passed
  <2>3. line' - 1 = e
    BY <1>1
  <2> QED  BY <1>2, <1>5, <2>1, <2>2, <2>3 DEF Passed
<1> QED  BY <1>1, <1>4, <1>5, CodesStay DEF CodesSound, CodesScanned

(* The chunker finds the fences of CommonMark.                             *)
LEMMA ScanFenceCodes ==
    ASSUME ChunkInv, CodesInv, Scan, ScanFence
    PROVE  CodesInv'
<1> DEFINE e == EndOfFence(doc, line, section.last, {"fence", "deep"})
           N == Len(doc.lines)
<1>1. /\ stage = "scan" /\ stage' = "scan" /\ line <= section.last
      /\ UNCHANGED <<source, sections, chunks, codes>>
      /\ line' = e + 1 /\ fences' = fences \cup {<<line, e>>}
      /\ Kind(doc, line) \in {"fence", "info", "inline", "deep"}
  BY DEF Scan, ScanFence
<1>2. /\ CodesSound /\ ChunkTypeOK /\ Sound /\ N \in Nat /\ Len(chunks) < Len(sections)
      /\ section.first \in Nat /\ section.last \in Nat /\ 1 <= section.first
      /\ section.last <= N /\ line \in Nat /\ section.first <= line
  BY <1>1, Scanning DEF CodesInv
<1>3. e \in line..section.last
  BY <1>1, <1>2, FenceEnds
<1>4. doc' = doc /\ section' = section
  BY <1>1, Same
<1>5. CASE ~ ReadAlike(doc)
  BY <1>1, <1>2, <1>5, CodesStay
<1>6. CASE ~ source.markdown
  <2>1. codes = {}
    BY <1>2, <1>6 DEF CodesSound
  <2> QED  BY <1>1, <1>2, <2>1, CodesStay DEF Inside
<1>7. CASE ReadAlike(doc) /\ source.markdown
  <2>1. ~ Inside(line) /\ Opens(line) /\ FoundTo(N) /\ Apart(section)
        /\ \A c \in codes : Passed(c[1]) => c \in fences
    <3>1. line \in 1..N /\ Len(chunks) + 1 \in 1..Len(sections)
      BY <1>1, <1>2 DEF ChunkTypeOK
    <3>2. Opens(line)
      BY <1>1, <1>7, <3>1 DEF ReadAlike, Opens
    <3>3. \A k \in 1..Len(sections) : Apart(sections[k])
      BY <1>1, <1>2, <1>7 DEF CodesSound, CodesDivided
    <3> QED  BY <1>1, <1>2, <1>7, <3>1, <3>2, <3>3
             DEF CodesSound, CodesDivided, CodesScanned, section
  <2>2. PICK f \in codes : line \in f[1]..f[2]
    <3>1. /\ ContentStart(doc) \in Nat /\ ContentStart(doc) <= section.first
      <4>1. HeadingsOK
        BY <1>2 DEF Sound
      <4>2. ContentStart(doc) \in 1..(Len(doc.lines) + 1)
        BY <1>1, <1>7, <4>1 DEF HeadingsOK
      <4> QED  BY <1>2, <2>1, <4>2 DEF Apart
    <3>2. line \in ContentStart(doc)..N
      <4> HIDE DEF N
      <4> QED  BY <1>1, <1>2, <3>1
    <3> QED  BY <2>1, <3>2 DEF FoundTo
  <2>3. \A c \in codes : /\ c[1] \in 1..N /\ c[2] \in c[1]..N /\ ~ Inside(c[1])
                         /\ c = <<c[1], c[2]>>
                         /\ c[2] = EndOfFence(doc, c[1], N, {"fence"})
    BY <1>2, CodeIs
  <2>4. f[1] = line
    <3>1. ~ (line \in (f[1] + 1)..f[2])
      BY <2>1 DEF Inside
    <3> HIDE DEF N
    <3> QED  BY <1>2, <2>2, <2>3, <3>1
  <2>5. f[2] <= section.last
    <3>1. CASE section.last = N
      BY <1>2, <2>3, <3>1
    <3>2. CASE ~ Inside(section.last + 1)
      <4>1. ~ (section.last + 1 \in (f[1] + 1)..f[2])
        BY <3>2 DEF Inside
      <4> HIDE DEF N
      <4> QED  BY <1>1, <1>2, <2>3, <2>4, <4>1
    <3> QED  BY <2>1, <3>1, <3>2 DEF Apart
  <2>6. e = f[2]
    <3>1. line \in 1..section.last
      BY <1>1, <1>2
    <3>2. EndOfFence(doc, line, Len(doc.lines), {"fence"}) <= section.last
      BY <2>3, <2>4, <2>5
    <3> QED  BY <1>2, <1>7, <2>3, <2>4, <3>1, <3>2, ReadsAlike
  <2>7. f = <<line, e>>
    BY <2>3, <2>4, <2>6
  <2> HIDE DEF e, N
  <2>8. ASSUME NEW c \in codes, c[1] \in line..e PROVE c = f
    <3>1. ~ (c[1] \in (f[1] + 1)..f[2])
      BY <2>3 DEF Inside
    <3>2. c[1] = line
      BY <1>2, <1>3, <2>3, <2>4, <2>6, <2>8, <3>1
    <3> QED  BY <2>3, <2>4, <3>2
  <2>9. ~ Inside(line')
    <3> SUFFICES ASSUME NEW c \in codes, e + 1 \in (c[1] + 1)..c[2] PROVE FALSE
      BY <1>1 DEF Inside
    <3>1. c # f
      BY <1>2, <1>3, <2>6
    <3>2. ~ (line \in (c[1] + 1)..c[2])
      BY <2>1 DEF Inside
    <3>3. c[1] \notin line..e
      BY <2>8, <3>1
    <3> QED  BY <1>2, <1>3, <2>3, <3>2, <3>3
  <2>10. ASSUME NEW c \in codes, Passed(c[1])' PROVE c \in fences'
    <3>1. CASE \E k \in 1..Len(chunks) : c[1] \in sections[k].first..sections[k].last
      BY <1>1, <2>1, <3>1 DEF Passed
    <3>2. CASE c[1] \in section.first..(line - 1)
      BY <1>1, <2>1, <3>2 DEF Passed
    <3>3. CASE c[1] \in line..e
      BY <1>1, <2>7, <2>8, <3>3
    <3>4. c[1] \in section.first..e => c[1] \in section.first..(line - 1) \/ c[1] \in line..e
      BY <1>2, <1>3
    <3>5. line' - 1 = e
      BY <1>1, <1>2, <1>3
    <3> QED  BY <1>1, <1>4, <2>10, <3>1, <3>2, <3>3, <3>4, <3>5 DEF Passed
  <2> QED  BY <1>1, <1>2, <2>9, <2>10, CodesStay
<1> QED  BY <1>5, <1>6, <1>7

(* A run of blank lines opens no fence.                                    *)
LEMMA ScanBlankCodes ==
    ASSUME ChunkInv, CodesInv, Scan, ScanBlank
    PROVE  CodesInv'
<1> DEFINE e == EndOfGap(doc, line, section.last)
<1>1. /\ stage = "scan" /\ stage' = "scan" /\ line <= section.last /\ Blank(doc, line)
      /\ UNCHANGED <<source, sections, chunks, fences, codes>> /\ line' = e + 1
  BY DEF Scan, ScanBlank
<1>2. line \in 1..section.last /\ section.last \in Nat /\ line \in Nat
  <2>1. /\ section.first \in Nat /\ section.last \in Nat /\ 1 <= section.first
        /\ line \in Nat /\ section.first <= line
    BY <1>1, Scanning
  <2> QED  BY <1>1, <2>1
<1>3. e \in line..section.last
  BY <1>1, <1>2, GapEnds
<1>4. ASSUME NEW i \in line..e PROVE ~ Opens(i)
  <2> DEFINE text == {j \in line..section.last : ~ Blank(doc, j)}
  <2>1. i \notin text
    <3>1. CASE text = {}
      BY <3>1
    <3>2. CASE text # {}
      <4>1. text \in SUBSET Nat
        BY <1>2
      <4>2. Least(text) \in text /\ \A y \in text : Least(text) <= y
        <5> HIDE DEF text
        <5> QED  BY <3>2, <4>1, LeastIs
      <4>3. e = Least(text) - 1
        BY <3>2 DEF EndOfGap
      <4>4. Least(text) \in Nat /\ i \in Int /\ i <= e /\ e \in Int
        BY <1>2, <1>3, <4>1, <4>2
      <4>5. ~ (Least(text) <= i)
        BY <4>3, <4>4
      <4> HIDE DEF text
      <4> QED  BY <4>2, <4>5
    <3> QED  BY <3>1, <3>2
  <2>2. i \in line..section.last
    <3> HIDE DEF e
    <3> QED  BY <1>2, <1>3
  <2>3. Blank(doc, i)
    BY <2>1, <2>2
  <2> QED  BY <2>3 DEF Blank, Opens
<1> HIDE DEF e
<1> QED  BY <1>1, <1>3, <1>4, PassedOver

(* Nor does a line of text.                                                *)
LEMMA ScanTextCodes ==
    ASSUME ChunkInv, CodesInv, Scan, ScanText
    PROVE  CodesInv'
<1>1. /\ stage = "scan" /\ stage' = "scan" /\ line <= section.last
      /\ UNCHANGED <<source, sections, chunks, fences, codes>> /\ line' = line + 1
      /\ Kind(doc, line) \in {"text", "rule", "head"}
  BY DEF Scan, ScanText
<1>2. line \in Nat /\ section.last \in Nat
  BY <1>1, Scanning
<1>3. ~ Opens(line) /\ line \in line..section.last
  BY <1>1, <1>2 DEF Opens
<1>4. \A i \in line..line : ~ Opens(i)
  BY <1>2, <1>3
<1> QED  BY <1>1, <1>3, <1>4, PassedOver

(* When a section has been scanned all of its lines have been.             *)
LEMMA ScannedCodes ==
    ASSUME ChunkInv, CodesInv, Scanned
    PROVE  CodesInv'
<1>1. /\ stage = "scan" /\ stage' = "split" /\ line > section.last
      /\ UNCHANGED <<source, sections, chunks, fences, codes>>
  BY DEF Scanned
<1>2. /\ CodesSound /\ section.first \in Nat /\ section.last \in Nat /\ line \in Nat
      /\ \A c \in codes : c[1] \in Nat
  <2>1. CodesSound /\ Sound /\ ChunkTypeOK
    BY <1>1 DEF CodesInv, ChunkInv
  <2>2. \A c \in codes : c[1] \in Nat
    BY <2>1, CodeIs
  <2> QED  BY <1>1, <2>1, <2>2, Scanning
<1>3. section' = section
  BY <1>1, Same
<1>4. ASSUME NEW c \in codes, Passed(c[1])' PROVE Passed(c[1])
  <2>1. CASE \E k \in 1..Len(chunks) : c[1] \in sections[k].first..sections[k].last
    BY <2>1 DEF Passed
  <2>2. CASE c[1] \in section.first..section.last
    <3>1. c[1] \in section.first..(line - 1)
      BY <1>1, <1>2, <2>2
    <3> QED  BY <1>1, <3>1 DEF Passed
  <2> QED  BY <1>1, <1>3, <1>4, <2>1, <2>2 DEF Passed
<1> QED  BY <1>1, <1>2, <1>4, CodesStay DEF CodesSound, CodesScanned

(* While the blocks of a section become chunks nothing is scanned.         *)
LEMMA WorkCodes ==
    ASSUME ChunkInv, CodesInv, Split \/ Cut \/ SplitAll \/ Pack
    PROVE  CodesInv'
<1>1. stage \in {"split", "cut", "pack"} /\ CodesSound
  BY DEF CodesInv, Split, Cut, SplitAll, Pack
<1>2. CASE stage' = "failed"
  BY <1>2 DEF CodesInv
<1>3. CASE stage' # "failed"
  <2>1. /\ stage' \in {"split", "cut", "pack"}
        /\ UNCHANGED <<source, sections, chunks, fences, codes>>
    <3>1. CASE Split
      BY <1>1, <1>3, <3>1 DEF Split, Fail
    <3>2. CASE Cut
      <4>1. PICK n : \/ Fail
                     \/ /\ stage' = "split" \/ UNCHANGED stage
                        /\ UNCHANGED <<source, sections, chunks, fences, codes>>
        BY <3>2 DEF Cut
      <4> QED  BY <1>1, <1>3, <4>1 DEF Fail
    <3>3. CASE SplitAll
      BY <1>1, <3>3 DEF SplitAll
    <3>4. CASE Pack
      BY <1>1, <3>4 DEF Pack
    <3> QED  BY <3>1, <3>2, <3>3, <3>4
  <2>2. section' = section
    BY <2>1, Same
  <2>3. \A i : Passed(i)' => Passed(i)
    BY <1>1, <2>1, <2>2 DEF Passed
  <2> QED  BY <1>1, <2>1, <2>3, CodesStay DEF CodesSound, CodesScanned
<1> QED  BY <1>2, <1>3

(* The lines of the section whose chunks are recorded had been scanned.    *)
LEMMA PackedCodes ==
    ASSUME ChunkInv, CodesInv, Packed
    PROVE  CodesInv'
<1>1. stage = "pack" /\ CodesSound /\ ChunkTypeOK
  BY DEF ChunkInv, CodesInv, Packed
<1>2. CASE stage' = "failed"
  BY <1>2 DEF CodesInv
<1>3. CASE stage' # "failed"
  <2>1. /\ stage' = "section" /\ UNCHANGED <<source, sections, fences, codes>>
        /\ \E C : chunks' = Append(chunks, C)
    BY <1>3 DEF Packed, Fail
  <2>2. Len(chunks) \in Nat /\ Len(chunks') = Len(chunks) + 1
    BY <1>1, <2>1 DEF ChunkTypeOK
  <2>3. ASSUME NEW i, Passed(i)' PROVE Passed(i)
    <3>1. PICK k \in 1..Len(chunks') : i \in sections[k].first..sections[k].last
      BY <2>1, <2>3 DEF Passed
    <3>2. CASE k = Len(chunks) + 1
      BY <1>1, <3>1, <3>2 DEF Passed, section
    <3>3. CASE k # Len(chunks) + 1
      <4>1. k \in 1..Len(chunks)
        BY <2>2, <3>3
      <4> QED  BY <3>1, <4>1 DEF Passed
    <3> QED  BY <3>2, <3>3
  <2> QED  BY <1>1, <2>1, <2>3, CodesStay DEF CodesSound, CodesScanned
<1> QED  BY <1>2, <1>3

(* CodesInv is inductive beside ChunkInv.                                  *)
LEMMA NextCodes ==
    ASSUME ChunkInv, CodesInv, [ChunkNext]_chunkVars
    PROVE  CodesInv'
<1>1. CASE UNCHANGED chunkVars
  <2>1. UNCHANGED <<source, stage, line, headings, sections, chunks, fences, codes>>
    BY <1>1 DEF chunkVars
  <2>2. doc' = doc /\ section' = section
    BY <2>1, Same
  <2>3. CodesSound => CodesSound'
    BY <2>1, <2>2
       DEF CodesSound, CodeOK, Opens, Inside, CodesParsed, CodesDivided, CodesScanned, FoundTo,
           Apart, Passed
  <2> QED  BY <2>1, <2>3 DEF CodesInv
<1>2. CASE Scan
  BY <1>2, ScanFenceCodes, ScanBlankCodes, ScanTextCodes DEF Scan
<1> QED  BY <1>1, <1>2, FrontCodes, ParseCodes, ParsedCodes, SectionCodes, ScannedCodes, WorkCodes,
            PackedCodes DEF ChunkNext

(* Before the first step no fence is found.                                *)
LEMMA InitCodes == ChunkInit => CodesInv
BY DEF ChunkInit, CodesInv, CodesSound, CodesParsed, CodesDivided, CodesScanned

(* It says of a source that is done what ChunksFaithful does.              *)
LEMMA Faithful == ChunkInv /\ CodesInv => ChunksFaithful
<1> SUFFICES ASSUME ChunkInv, CodesInv, stage = "done" PROVE ChunksFaithful
  BY DEF ChunksFaithful
<1>1. ChunkTypeOK /\ Sound /\ CodesSound
  BY DEF ChunkInv, CodesInv
<1>2. DOMAIN chunks = 1..Len(chunks) /\ Len(chunks) = Len(sections)
      /\ DOMAIN sections = 1..Len(sections)
  BY <1>1 DEF ChunkTypeOK, Sound, BetweenOK
<1>3. \A f \in fences : Whole(doc, f, chunks)
  <2>1. Empty
    BY <1>1 DEF Sound, BetweenOK
  <2> SUFFICES ASSUME NEW f \in fences PROVE Whole(doc, f, chunks)
    OBVIOUS
  <2>2. ~ Kept(doc.upto[f[1] - 1], doc.upto[f[2]])
    BY <2>1 DEF Kept, Empty
  <2> QED  BY <1>1, <2>2 DEF Sound, FencesOK, FenceOK
<1>4. ASSUME ReadAlike(doc), NEW c \in codes PROVE Whole(doc, c, chunks)
  <2>1. c[1] \in 1..Len(doc.lines) /\ ContentStart(doc) \in Nat /\ ContentStart(doc) <= c[1]
        /\ ~ Blank(doc, c[1]) /\ Len(doc.lines) \in Nat
    BY <1>1, CodeIs
  <2>2. Divided(sections, c[1])
    BY <1>1, <2>1 DEF Sound, SectionsOK
  <2>3. PICK k \in 1..Len(sections) : c[1] \in sections[k].first..sections[k].last
    BY <1>2, <2>2 DEF Divided
  <2>4. Passed(c[1])
    BY <1>2, <2>3 DEF Passed
  <2>5. c \in fences
    BY <1>1, <1>4, <2>4 DEF CodesSound, CodesScanned
  <2> QED  BY <1>3, <2>5
<1> QED  BY <1>1, <1>2, <1>3, <1>4 DEF ChunksFaithful, Sound, SectionsOK, RecordsOK

(* For every document, tokenizer and configuration: every line with text   *)
(* is in one section, the chunks of a section cover it in order, each a    *)
(* passage of the source with the lines it cites, within the budgets; what *)
(* the chunker takes for a fence is whole in one of them, and so is each   *)
(* fenced block of CommonMark in a document where no line opens or closes  *)
(* a fence for the chunker alone.                                          *)
THEOREM ChunksStayFaithful == ChunkSpec => []ChunksFaithful
<1>1. ChunkInit => ChunkInv /\ CodesInv
  BY InitHolds, InitCodes
<1>2. ChunkInv /\ CodesInv /\ [ChunkNext]_chunkVars => (ChunkInv /\ CodesInv)'
  BY NextKeeps, NextCodes
<1>3. ChunkInv /\ CodesInv => ChunksFaithful
  BY Faithful
<1> QED  BY <1>1, <1>2, <1>3, PTL DEF ChunkSpec
=============================================================================
