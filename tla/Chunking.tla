------------------------------ MODULE Chunking ------------------------------
(***************************************************************************)
(* How a source becomes chunks: front matter and headings divide it into   *)
(* sections, fences and blank lines divide a section into blocks, blocks   *)
(* too long for the embedding model are cut, and blocks are packed into    *)
(* chunks that repeat the end of the previous one.                         *)
(*                                                                         *)
(* Sources: ingest/markdown.py, ingest/text.py, ingest/lines.py,           *)
(* ingest/chunker.py.                                                      *)
(* A character is its place in the document, so that a text, a sequence of *)
(* characters, tells where it was taken from.  Of a line there is its kind *)
(* and where it ends:                                                      *)
(*   "fence"   opens a fence and closes one                                *)
(*   "info"    opens a fence (it has an info string), closes none          *)
(*   "inline"  opens a fence for the chunker, but not for CommonMark: it   *)
(*             has backticks after the backticks                           *)
(*   "deep"    opens and closes one for the chunker, but not for           *)
(*             CommonMark: it is indented by four columns or more          *)
(*   "head"    a heading begins, unless it is in a fence;  level is its    *)
(*             level                                                       *)
(*   "rule"    three dashes                                                *)
(* A line of the other fence character is text in a fence.  The tokenizer  *)
(* is a parameter.  Links, tags, aliases and the wording of prefixes and   *)
(* identifiers are left out.                                               *)
(***************************************************************************)
EXTENDS Naturals, Sequences, FiniteSets

CONSTANTS
    Documents,          \* [lines : sequence of [kind, level], upto : characters of the first i]
    Count(_, _, _),     \* Count(d, n, t): tokens of text t after the prefix for a breadcrumb
                        \* of n - 1 headings, or of t alone if n = 0
    TakeTail(_, _, _),  \* TakeTail(d, t, n): the last n tokens of t, as text
    TargetMax, MaxInput, Overlap

Kinds == {"text", "blank", "rule", "fence", "info", "inline", "deep", "head"}

(* split_source_lines: no line is empty, and joined they are the text.     *)
IsSplit(d) ==
    /\ d.lines \in Seq([kind : Kinds, level : Nat])
    /\ d.upto \in [0..Len(d.lines) -> Nat] /\ d.upto[0] = 0
    /\ \A i, j \in 0..Len(d.lines) : i < j => d.upto[i] < d.upto[j]

ASSUME ChunkingAssumption ==
    /\ \A d \in Documents : IsSplit(d)
    /\ TargetMax \in Nat /\ MaxInput \in Nat /\ Overlap \in Nat
    /\ Overlap < TargetMax /\ TargetMax < MaxInput    \* validate_token_limits

VARIABLES
    source,    \* [doc, markdown]
    stage,     \* "front", "parse", "section", "scan", "split", "cut", "pack", "done", "failed"
    line,      \* the next line to look at
    headings,  \* the lines where headings begin
    sections,  \* of the source, in order: [first, last, path]
    start,     \* the line where the block being scanned began
    blocks,    \* of the section, still to be split
    pieces,    \* what they were split into, still to be packed
    cut,       \* in a block that is being cut, how much has been
    current,   \* the chunk being packed
    packed,    \* the chunks of the section before it
    chunks,    \* the records of the sections before it
    fences,    \* history: the lines that the chunker has taken for fenced blocks
    codes      \* history: the lines of the fenced blocks that CommonMark finds

chunkVars == <<source, stage, line, headings, sections, start, blocks, pieces, cut, current,
               packed, chunks, fences, codes>>

doc == source.doc
NoText == [text |-> <<>>, offset |-> 0]

(* The characters after the a-th up to the b-th, and the lines a to b.     *)
Passage(a, b) == [n \in 1..(b - a) |-> a + n]
Joined(d, a, b) == Passage(d.upto[a - 1], d.upto[b])

Kind(d, i) == d.lines[i].kind
Blank(d, i) == Kind(d, i) = "blank"
Least(S) == CHOOSE x \in S : \A y \in S : x <= y

(* The last line of a fence that line i opens and the given kinds close,   *)
(* and of the blank lines from line i on, among the lines up to n.         *)
EndOfFence(d, i, n, closers) ==
    LET closing == {j \in (i + 1)..n : Kind(d, j) \in closers}
    IN IF closing = {} THEN n ELSE Least(closing)
EndOfGap(d, i, n) ==
    LET text == {j \in i..n : ~ Blank(d, j)}
    IN IF text = {} THEN n ELSE Least(text) - 1

(***************************************************************************)
(* parse_markdown and parse_text.                                          *)
(***************************************************************************)
FrontMatter(d) == d.lines # <<>> /\ Kind(d, 1) = "rule"
Closings(d) == {i \in 2..Len(d.lines) : Kind(d, i) = "rule"}
ContentStart(d) == IF FrontMatter(d) THEN Least(Closings(d)) + 1 ELSE 1

(* The breadcrumb of the heading H[k]: the headings above it, down the     *)
(* levels.                                                                 *)
Path(d, H, k) ==
    {H[g] : g \in {g \in 1..k : \A j \in (g + 1)..k : d.lines[H[j]].level > d.lines[H[g]].level}}

MarkdownSections(d, H) ==
    LET end(k) == IF k < Len(H) THEN H[k + 1] - 1 ELSE Len(d.lines)
        before == ContentStart(d)..(IF H = <<>> THEN Len(d.lines) ELSE H[1] - 1)
        body == {i \in before : ~ Blank(d, i)}
        preamble == [first |-> Least(body), path |-> {},
                     last |-> IF H = <<>> THEN Len(d.lines) ELSE H[1] - 1]
    IN (IF body = {} THEN <<>> ELSE <<preamble>>)
       \o [k \in DOMAIN H |-> [first |-> H[k], last |-> end(k), path |-> Path(d, H, k)]]

TextSections(d) ==
    IF d.lines = <<>> THEN <<>> ELSE <<[first |-> 1, last |-> Len(d.lines), path |-> {}]>>

ChunkInit ==
    /\ source \in [doc : Documents, markdown : BOOLEAN]
    /\ stage = "front"
    /\ line = 1 /\ headings = <<>> /\ sections = <<>>
    /\ start = 1 /\ blocks = <<>> /\ pieces = <<>> /\ cut = 0
    /\ current = NoText /\ packed = <<>> /\ chunks = <<>>
    /\ fences = {} /\ codes = {}

Fail ==
    /\ stage' = "failed"
    /\ UNCHANGED <<source, line, headings, sections, start, blocks, pieces, cut, current, packed,
                   chunks, fences, codes>>

Front ==
    /\ stage = "front"
    /\ LET front == source.markdown /\ FrontMatter(doc)
       IN \/ front /\ Fail     \* never closed, or not the YAML of a mapping
          \/ /\ front => Closings(doc) # {}
             /\ IF source.markdown
                THEN stage' = "parse" /\ line' = ContentStart(doc) /\ UNCHANGED sections
                ELSE stage' = "section" /\ sections' = TextSections(doc) /\ UNCHANGED line
             /\ UNCHANGED <<source, headings, start, blocks, pieces, cut, current, packed, chunks,
                            fences, codes>>

(* The headings, and the fenced blocks, as markdown-it finds them: those of *)
(* lists and quotations are left out.                                      *)
Parse ==
    /\ stage = "parse" /\ line <= Len(doc.lines)
    /\ \/ /\ Kind(doc, line) \in {"fence", "info"}
          /\ line' = EndOfFence(doc, line, Len(doc.lines), {"fence"}) + 1
          /\ codes' = codes \cup {<<line, line' - 1>>}
          /\ UNCHANGED headings
       \/ /\ Kind(doc, line) = "head"
          /\ line' = line + 1
          /\ headings' = Append(headings, line)
          /\ UNCHANGED codes
       \/ /\ Kind(doc, line) \notin {"fence", "info", "head"}
          /\ line' = line + 1
          /\ UNCHANGED <<headings, codes>>
    /\ UNCHANGED <<source, stage, sections, start, blocks, pieces, cut, current, packed, chunks,
                   fences>>

Parsed ==
    /\ stage = "parse" /\ line > Len(doc.lines)
    /\ sections' = MarkdownSections(doc, headings)
    /\ stage' = "section"
    /\ UNCHANGED <<source, line, headings, start, blocks, pieces, cut, current, packed, chunks,
                   fences, codes>>

(***************************************************************************)
(* The sections, one by one.  The prefix alone must leave room for text.   *)
(***************************************************************************)
TokensIn(d, s, t) == Count(d, 1 + Cardinality(s.path), t)

section == sections[Len(chunks) + 1]
Tokens(t) == TokensIn(doc, section, t)

Section ==
    /\ stage = "section"
    /\ \/ /\ Len(chunks) = Len(sections)
          /\ stage' = "done"
          /\ UNCHANGED <<line, start>>
       \/ /\ Len(chunks) < Len(sections) /\ Tokens(<<>>) >= MaxInput
          /\ stage' = "failed"
          /\ UNCHANGED <<line, start>>
       \/ /\ Len(chunks) < Len(sections) /\ Tokens(<<>>) < MaxInput
          /\ stage' = "scan"
          /\ line' = section.first /\ start' = section.first
    /\ UNCHANGED <<source, headings, sections, blocks, pieces, cut, current, packed, chunks,
                   fences, codes>>

(***************************************************************************)
(* _structural_blocks.  A fence is a block, and so is what ends before a   *)
(* fence, with a run of blank lines, or with the section.                  *)
(***************************************************************************)
OffsetOf(i) == doc.upto[i - 1] - doc.upto[section.first - 1]
Block(a, b, whole) == [text |-> Joined(doc, a, b), offset |-> OffsetOf(a), whole |-> whole]
UpTo(b) == IF start > b THEN <<>> ELSE <<Block(start, b, FALSE)>>

ScanFence ==
    LET e == EndOfFence(doc, line, section.last, {"fence", "deep"}) IN
    /\ Kind(doc, line) \in {"fence", "info", "inline", "deep"}
    /\ blocks' = blocks \o UpTo(line - 1) \o <<Block(line, e, TRUE)>>
    /\ line' = e + 1 /\ start' = e + 1
    /\ fences' = fences \cup {<<line, e>>}

ScanBlank ==
    LET e == EndOfGap(doc, line, section.last) IN
    /\ Blank(doc, line)
    /\ blocks' = blocks \o UpTo(e)
    /\ line' = e + 1 /\ start' = e + 1
    /\ UNCHANGED fences

ScanText ==
    /\ Kind(doc, line) \in {"text", "rule", "head"}
    /\ line' = line + 1
    /\ UNCHANGED <<blocks, start, fences>>

Scan ==
    /\ stage = "scan" /\ line <= section.last
    /\ ScanFence \/ ScanBlank \/ ScanText
    /\ UNCHANGED <<source, stage, headings, sections, pieces, cut, current, packed, chunks,
                   codes>>

Scanned ==
    /\ stage = "scan" /\ line > section.last
    /\ blocks' = blocks \o UpTo(section.last)
    /\ stage' = "split"
    /\ UNCHANGED <<source, line, headings, sections, start, pieces, cut, current, packed, chunks,
                   fences, codes>>

(***************************************************************************)
(* _split_ordinary_block.  What is left of the block is cut after as many  *)
(* whole lines as fit; a line that does not fit is cut where a bisection   *)
(* over its prefixes ends, which need not be the longest that fits.        *)
(***************************************************************************)
Limit == IF Tokens(<<>>) < TargetMax THEN TargetMax ELSE MaxInput - 1
Fits(t, n) == Tokens(SubSeq(t, 1, n)) <= Limit

LineEnds(t) == {n \in 1..Len(t) : n = Len(t) \/ \E i \in DOMAIN doc.upto : doc.upto[i] = t[n]}
LargestBoundedPrefixes(t) ==
    {n \in 0..Len(t) : (n > 0 => Fits(t, n)) /\ (n < Len(t) => ~ Fits(t, n + 1))}
WholeLines(t) ==
    {n \in LineEnds(t) : /\ \A m \in LineEnds(t) : m <= n => Fits(t, m)
                         /\ \A m \in LineEnds(t) : m > n =>
                                \E k \in LineEnds(t) : k > n /\ k <= m /\ ~ Fits(t, k)}

Cuts(t) ==
    LET first == Least(LineEnds(t))
    IN IF Fits(t, first) THEN WholeLines(t) ELSE LargestBoundedPrefixes(SubSeq(t, 1, first))

Piece(b, from, n) == [text |-> SubSeq(b.text, from + 1, from + n), offset |-> b.offset + from]

Split ==
    /\ stage = "split" /\ blocks # <<>>
    /\ LET b == Head(blocks)
           fits == Tokens(b.text) < MaxInput
       IN \/ ~ fits /\ b.whole /\ Fail
          \/ /\ ~ fits /\ ~ b.whole
             /\ stage' = "cut" /\ cut' = 0
             /\ UNCHANGED <<source, line, headings, sections, start, blocks, pieces, current,
                            packed, chunks, fences, codes>>
          \/ /\ fits
             /\ pieces' = Append(pieces, Piece(b, 0, Len(b.text)))
             /\ blocks' = Tail(blocks)
             /\ UNCHANGED <<source, stage, line, headings, sections, start, cut, current, packed,
                            chunks, fences, codes>>

Cut ==
    /\ stage = "cut"
    /\ LET b == Head(blocks)
           rest == SubSeq(b.text, cut + 1, Len(b.text))
       IN \E n \in Cuts(rest) :
             \/ n = 0 /\ Fail     \* metadata prefix leaves no room for source text
             \/ /\ n > 0
                /\ pieces' = Append(pieces, Piece(b, cut, n))
                /\ cut' = cut + n
                /\ IF n = Len(rest) THEN stage' = "split" /\ blocks' = Tail(blocks)
                                    ELSE UNCHANGED <<stage, blocks>>
                /\ UNCHANGED <<source, line, headings, sections, start, current, packed, chunks,
                               fences, codes>>

SplitAll ==
    /\ stage = "split" /\ blocks = <<>>
    /\ stage' = "pack"
    /\ UNCHANGED <<source, line, headings, sections, start, blocks, pieces, cut, current, packed,
                   chunks, fences, codes>>

(***************************************************************************)
(* The packing loop of _split_section, and the records of chunk_source.    *)
(***************************************************************************)
EndsWith(t, tail) == \E k \in 1..(Len(t) + 1) : tail = SubSeq(t, k, Len(t))
BoundedTail(t, n) ==
    LET tail == TakeTail(doc, t, n)
    IN IF EndsWith(t, tail) /\ Count(doc, 0, tail) \in 0..n THEN tail ELSE <<>>

OverlapsUnbounded(t, b) ==    \* variant: the room left is not looked at
    {n \in 1..Overlap : BoundedTail(t, n) # <<>>}
Overlaps(t, b) ==
    {n \in 1..Overlap : /\ BoundedTail(t, n) # <<>>
                        /\ Tokens(BoundedTail(t, n) \o b) <= TargetMax}

(* The longest overlap that leaves room for the block.                     *)
Repeated(t, b) ==
    IF Tokens(b) > TargetMax \/ Overlaps(t, b) = {} THEN <<>>
    ELSE BoundedTail(t, CHOOSE n \in Overlaps(t, b) : \A m \in Overlaps(t, b) : m <= n)

Pack ==
    /\ stage = "pack" /\ pieces # <<>>
    /\ LET b == Head(pieces)
           both == current.text \o b.text
           tail == Repeated(current.text, b.text)
       IN IF current = NoText \/ Tokens(both) <= TargetMax
          THEN /\ current' = [text |-> both,
                              offset |-> IF current = NoText THEN b.offset ELSE current.offset]
               /\ UNCHANGED packed
          ELSE /\ packed' = Append(packed, current)
               /\ current' = [text |-> tail \o b.text,
                              offset |-> current.offset + Len(current.text) - Len(tail)]
    /\ pieces' = Tail(pieces)
    /\ UNCHANGED <<source, stage, line, headings, sections, start, blocks, cut, chunks, fences, codes>>

(* _lines_for_text: the lines are found from the offset in the section.    *)
LineAt(d, n) == CHOOSE i \in 1..Len(d.lines) : d.upto[i - 1] < n /\ n <= d.upto[i]
Record(c) ==
    LET n == doc.upto[section.first - 1] + c.offset
    IN [text |-> c.text, lines |-> <<LineAt(doc, n + 1), LineAt(doc, n + Len(c.text))>>]

(* chunk_source checks every chunk once more.                              *)
Packed ==
    /\ stage = "pack" /\ pieces = <<>>
    /\ LET all == IF current = NoText THEN packed ELSE Append(packed, current) IN
       IF \A k \in DOMAIN all : Tokens(all[k].text) < MaxInput
       THEN /\ chunks' = Append(chunks, [k \in DOMAIN all |-> Record(all[k])])
            /\ packed' = <<>> /\ current' = NoText
            /\ stage' = "section"
            /\ UNCHANGED <<source, line, headings, sections, start, blocks, pieces, cut, fences, codes>>
       ELSE Fail

ChunkNext ==
    \/ Front \/ Parse \/ Parsed \/ Section \/ Scan \/ Scanned
    \/ Split \/ Cut \/ SplitAll \/ Pack \/ Packed

ChunkSpec == ChunkInit /\ [][ChunkNext]_chunkVars

(***************************************************************************)
(* What the chunks of a source must be.                                    *)
(***************************************************************************)
First(c) == c.text[1]
Final(c) == c.text[Len(c.text)]

(* Line i is in one of the sections and in no other.                      *)
Divided(S, i) ==
    \E k \in DOMAIN S : \A j \in DOMAIN S : i \in S[j].first..S[j].last <=> j = k

Covered(d, s, C) ==
    /\ C # <<>> /\ First(C[1]) = d.upto[s.first - 1] + 1 /\ Final(C[Len(C)]) = d.upto[s.last]
    /\ \A i \in DOMAIN C :
          /\ C[i].text # <<>> /\ C[i].text = Passage(First(C[i]) - 1, Final(C[i]))
          /\ First(C[i]) \in (d.upto[C[i].lines[1] - 1] + 1)..d.upto[C[i].lines[1]]
          /\ Final(C[i]) \in (d.upto[C[i].lines[2] - 1] + 1)..d.upto[C[i].lines[2]]
          /\ i > 1 => /\ First(C[i - 1]) < First(C[i])
                      /\ First(C[i]) <= Final(C[i - 1]) + 1
                      /\ Final(C[i - 1]) < Final(C[i])

WithinBudgets(d, s, C) ==
    \A i \in DOMAIN C :
        /\ TokensIn(d, s, C[i].text) < MaxInput
        /\ i > 1 /\ First(C[i]) <= Final(C[i - 1]) =>
              Count(d, 0, Passage(First(C[i]) - 1, Final(C[i - 1]))) \in 0..Overlap

(* Lines f[1] to f[2] are together in one chunk.                           *)
Whole(d, f, R) ==
    \E k \in DOMAIN R : \E i \in DOMAIN R[k] :
        First(R[k][i]) <= d.upto[f[1] - 1] + 1 /\ d.upto[f[2]] <= Final(R[k][i])

(* No line opens or closes a fence for the chunker alone.                  *)
ReadAlike(d) == \A i \in 1..Len(d.lines) : Kind(d, i) \notin {"inline", "deep"}

(* Every line with text after the front matter is in one section; the      *)
(* chunks of a section, in order, cover it without a gap, each a passage   *)
(* of the source with the lines it cites, beginning and ending after the   *)
(* one before; none exceeds what the embedding model takes, none repeats   *)
(* more than the overlap.  What the chunker takes for a fence is whole in  *)
(* one of them, and so is each fenced block of CommonMark, unless a line   *)
(* opens or closes a fence for the chunker alone.                          *)
ChunksFaithful ==
    stage = "done" =>
        /\ \A i \in 1..Len(doc.lines) :
              ~ Blank(doc, i) /\ (source.markdown => i >= ContentStart(doc)) => Divided(sections, i)
        /\ Len(chunks) = Len(sections)
        /\ \A k \in DOMAIN chunks : /\ Covered(doc, sections[k], chunks[k])
                                    /\ WithinBudgets(doc, sections[k], chunks[k])
        /\ \A f \in fences : Whole(doc, f, chunks)
        /\ ReadAlike(doc) => \A c \in codes : Whole(doc, c, chunks)


=============================================================================
