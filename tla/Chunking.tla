------------------------------ MODULE Chunking ------------------------------
(***************************************************************************)
(* chunkMarkdown: a document, as a sequence of lines of a kind and a cost  *)
(* in tokens, is cut into chunks, each a run of lines. Front matter is a   *)
(* chunk, a section under a heading is one if it fits the budget, and is   *)
(* packed from blocks, or from lines, if not. The cost of a run is that of *)
(* its lines; every part of the breadcrumb costs one.                      *)
(***************************************************************************)
EXTENDS Integers, Sequences, SequencesExt, FiniteSets, FiniteSetsExt

CONSTANTS
  MaxTokens   \* maxTokens

ASSUME BudgetAssumption == MaxTokens \in Nat

\* What a line may be; mark is the level of a heading or the sort of a fence.
Line == [kind : {"text", "blank", "dashes", "title", "heading", "fence"}, mark : Nat, cost : Nat]

Blank(doc, i) == doc[i].kind = "blank"
Cost(doc, span) == FoldLeft(LAMBDA sum, i : sum + doc[i].cost, 0,
                            [n \in 1..span.end - span.start + 1 |-> span.start + n - 1])
Span(i, j) == [start |-> i, end |-> j]

\* The fence open after each line, counted from line first, or 0.
OpenFence(doc, first) ==
  LET open[i \in first - 1..Len(doc)] ==
        IF i < first THEN 0
        ELSE IF doc[i].kind # "fence" THEN open[i - 1]
        ELSE IF open[i - 1] = 0 THEN doc[i].mark
        ELSE IF open[i - 1] = doc[i].mark THEN 0 ELSE open[i - 1]
  IN open

\* trimSpan: the span without blank lines at its edges, or none of it.
Trimmed(doc, span) ==
  LET solid == {i \in span.start..span.end : ~Blank(doc, i)}
  IN IF solid = {} THEN <<>> ELSE <<Span(Min(solid), Max(solid))>>

\* splitBlocks: runs of lines between blank ones that no fence is open at.
Blocks(doc, span) ==
  LET open == OpenFence(doc, span.start)
      solid == {i \in span.start..span.end : ~Blank(doc, i) \/ open[i] # 0}
      starts == {i \in solid : i - 1 \notin solid}
      endOf(i) == Max({j \in solid : i <= j /\ i..j \subseteq solid})
  IN [n \in 1..Cardinality(starts) |->
        LET i == CHOOSE i \in starts : Cardinality({j \in starts : j <= i}) = n
        IN Span(i, endOf(i))]

\* The last line of front matter, or 0.
FrontMatter(doc) ==
  LET closing == {i \in 2..Len(doc) : doc[i].kind = "dashes"}
  IN IF doc[1].kind = "dashes" /\ closing # {} THEN Min(closing) ELSE 0
Titled(doc) == \E i \in 2..FrontMatter(doc) - 1 : doc[i].kind = "title"

\* Headings above line i, and on it: each closes those of its level and below.
Crumbs(doc, i) ==
  LET body == FrontMatter(doc) + 1
      open == OpenFence(doc, body)
      headings == {j \in body..i : doc[j].kind = "heading" /\ open[j] = 0}
  IN {j \in headings : \A k \in headings : j < k => doc[j].mark < doc[k].mark}
Prefix(doc, i) == Cardinality(Crumbs(doc, i)) + IF Titled(doc) THEN 1 ELSE 0
Budget(doc, i) == Max({1, MaxTokens - Prefix(doc, i)})

\* A section starts at the first line of the body and at every heading.
Sections(doc) ==
  LET body == FrontMatter(doc) + 1
      open == OpenFence(doc, body)
      starts == {i \in body..Len(doc) : i = body \/ (doc[i].kind = "heading" /\ open[i] = 0)}
      endOf(i) == Min({j - 1 : j \in {k \in starts : i < k} \cup {Len(doc) + 1}})
  IN [n \in 1..Cardinality(starts) |->
        LET i == CHOOSE i \in starts : Cardinality({j \in starts : j <= i}) = n
        IN Span(i, endOf(i))]

\* Line packing: a line that fits no more starts a piece.
PackLines(doc, block, budget) ==
  LET packed == FoldLeft(LAMBDA pieces, i :
                  IF pieces # <<>> /\ Cost(doc, Span(Last(pieces).start, i)) <= budget
                  THEN Append(Front(pieces), Span(Last(pieces).start, i))
                  ELSE Append(pieces, Span(i, i)), <<>>,
                  [n \in 1..block.end - block.start + 1 |-> block.start + n - 1])
  IN packed

\* Mutant: what has been packed is forgotten when a block is over the budget.
PackBlockUnflushed(doc, budget, state, block) ==
  LET grown == IF state.acc = <<>> THEN block ELSE Span(state.acc[1].start, block.end)
  IN IF state.acc # <<>> /\ Cost(doc, grown) <= budget THEN [state EXCEPT !.acc = <<grown>>]
     ELSE IF Cost(doc, block) <= budget
     THEN [pieces |-> state.pieces \o state.acc, acc |-> <<block>>]
     ELSE [pieces |-> state.pieces \o PackLines(doc, block, budget), acc |-> <<>>]

\* Greedy packing of whole blocks; one that is over the budget is packed by lines.
PackBlock(doc, budget, state, block) ==
  LET grown == IF state.acc = <<>> THEN block ELSE Span(state.acc[1].start, block.end)
  IN IF state.acc # <<>> /\ Cost(doc, grown) <= budget THEN [state EXCEPT !.acc = <<grown>>]
     ELSE IF Cost(doc, block) <= budget
     THEN [pieces |-> state.pieces \o state.acc, acc |-> <<block>>]
     ELSE [pieces |-> state.pieces \o state.acc \o PackLines(doc, block, budget), acc |-> <<>>]

SectionChunks(doc, section) ==
  LET budget == Budget(doc, section.start)
      packed(span) == FoldLeft(LAMBDA state, block : PackBlock(doc, budget, state, block),
                               [pieces |-> <<>>, acc |-> <<>>], Blocks(doc, span))
      trimmed == Trimmed(doc, section)
  IN IF trimmed = <<>> THEN <<>>
     ELSE IF Cost(doc, trimmed[1]) <= budget THEN trimmed
     ELSE FlattenSeq([n \in DOMAIN (packed(trimmed[1]).pieces \o packed(trimmed[1]).acc) |->
            Trimmed(doc, (packed(trimmed[1]).pieces \o packed(trimmed[1]).acc)[n])])

chunkMarkdown(doc) ==
  IF \A i \in DOMAIN doc : Blank(doc, i) THEN <<>>
  ELSE (IF FrontMatter(doc) = 0 THEN <<>> ELSE <<Span(1, FrontMatter(doc))>>)
       \o FlattenSeq([n \in DOMAIN Sections(doc) |-> SectionChunks(doc, Sections(doc)[n])])

-----------------------------------------------------------------------------
\* "Exact, non-overlapping line ranges in document order" (chunking.ts:169), with
\* every line that is not blank in one of them, within the budget unless a chunk
\* is a single line or the front matter, none of which runs into another section.
ChunksPartition(doc) ==
  LET chunks == chunkMarkdown(doc)
      front == FrontMatter(doc) # 0
  IN /\ \A n \in 2..Len(chunks) : chunks[n - 1].end < chunks[n].start
     /\ \A i \in DOMAIN doc : Blank(doc, i) \/ \E c \in Range(chunks) : i \in c.start..c.end
     /\ \A n \in DOMAIN chunks : (front /\ n = 1) \/
          LET c == chunks[n]
          IN /\ ~Blank(doc, c.start) /\ ~Blank(doc, c.end)
             /\ (c.start = c.end \/ Cost(doc, c) <= Budget(doc, c.start))
             /\ Crumbs(doc, c.start) = Crumbs(doc, c.end)
=============================================================================
