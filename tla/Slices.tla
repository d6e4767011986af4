------------------------------- MODULE Slices -------------------------------
(***************************************************************************)
(* Reading parts of a file: readFileBuffer, readFileRange, readFileLines   *)
(* and readFileChunks, on what the statement finds at a path once links    *)
(* are followed. A text is a sequence of characters, NewLine one of them.  *)
(***************************************************************************)
EXTENDS Integers, Sequences, SequencesExt

NewLine == "\n"
NoLimit == 0 - 1

\* What is found: nothing, a directory, or a file whose blob is text or binary.
Node(type, data) == [type |-> type, data |-> data]
Failure(error) == [error |-> error, data |-> <<>>, total |-> 0]
Answer(data, total) == [error |-> "none", data |-> data, total |-> total]

\* The checks that every read makes on the row it found, in their order.
OfFile(node, answer) ==
  CASE node.type = "none" -> Failure("ENOENT")
    [] node.type = "directory" -> Failure("EISDIR")
    [] OTHER -> answer

\* substr(text, from [, count])
Substr(text, from, count) ==
  SubSeq(text, from, IF count = NoLimit \/ from + count - 1 > Len(text) THEN Len(text) ELSE from + count - 1)

readFileBuffer(node) == OfFile(node, Answer(node.data, 0))
readFileRange(node, offset, limit) == OfFile(node, Answer(Substr(node.data, offset + 1, limit), 0))

\* text.split("\n"); string_to_array splits the same, but for an empty text.
Split(text) ==
  FoldLeft(LAMBDA lines, c : IF c = NewLine THEN Append(lines, <<>>)
                             ELSE Append(Front(lines), Append(Last(lines), c)),
           <<<<>>>>, text)
Trails(text) == text # <<>> /\ Last(text) = NewLine
Join(lines) ==
  IF lines = <<>> THEN <<>>
  ELSE Head(lines) \o FlattenSeq([i \in 1..Len(lines) - 1 |-> <<NewLine>> \o lines[i + 1]])

\* The lines of readFileLines, without the empty element after a trailing newline.
FileLines(text) ==
  IF text = <<>> THEN <<>> ELSE IF Trails(text) THEN Front(Split(text)) ELSE Split(text)

readFileLines(node, offset, limit) ==
  IF offset < 1 \/ (limit # NoLimit /\ limit < 1) THEN Failure("EINVAL")
  ELSE OfFile(node,
         IF node.type = "binary" THEN Failure("EINVAL")
         ELSE Answer(Join(Substr(FileLines(node.data), offset, limit)), Len(FileLines(node.data))))

\* The lines that chunkMarkdown numbers
ChunkLines(text) ==
  LET lines == Split(text)
  IN IF Len(lines) > 1 /\ Last(lines) = <<>> THEN Front(lines) ELSE lines

\* A chunk is indexed with the headings it is under, and front matter without
\* the lines of volatile keys (stripFrontmatterKeys).
Breadcrumb(headingPath) == IF headingPath = <<>> THEN <<>> ELSE headingPath \o <<NewLine, NewLine>>
Without(lines, volatile) ==
  LET kept == SetToSortSeq(DOMAIN lines \ volatile, <)
  IN [n \in DOMAIN kept |-> lines[kept[n]]]

\* readFileChunks: the rows that chunkMarkdown stored with the blob, each for a
\* span of lines: [start, end, headingPath, volatile].
readFileChunks(node, spans) ==
  OfFile(node, Answer([n \in DOMAIN spans |->
    [start |-> spans[n].start, end |-> spans[n].end, headingPath |-> spans[n].headingPath,
     content |-> Breadcrumb(spans[n].headingPath)
                 \o Join(Without(SubSeq(ChunkLines(node.data), spans[n].start, spans[n].end),
                                 spans[n].volatile))]], 0))

\* Spans that a text may have chunks of: front matter, which starts with the
\* first line and keeps its fences, or lines under headings. A blank text has none.
SpansOf(text) ==
  LET n == Len(ChunkLines(text))
      frontMatter == [start : {1}, end : 1..n, headingPath : {<<>>}, volatile : SUBSET (2..n)]
      section == [start : 1..n, end : 1..n, headingPath : {<<>>, <<"a">>}, volatile : {{}}]
  IN IF Range(text) \subseteq {NewLine} THEN {}
     ELSE {span \in frontMatter \cup section :
             span.start <= span.end /\ \A line \in span.volatile : line < span.end}

-----------------------------------------------------------------------------
PageOf(n, size) == (n - 1) * size
Pages(node, size) ==
  [n \in 1..(readFileLines(node, 1, size).total + size - 1) \div size |->
     readFileLines(node, PageOf(n, size) + 1, size)]
Ranges(node, size) ==
  [n \in 1..(Len(node.data) + size - 1) \div size |-> readFileRange(node, PageOf(n, size), size).data]

\* A text read in pages of lines, or in ranges, comes back whole: pages joined
\* by newlines lack the trailing one only, and tell the same total. The content
\* of a chunk is its breadcrumb and what readFileLines returns for its lines ("a
\* chunk hydrates via readFileLines", filesystem.ts:688), volatile front matter
\* apart, and the reads fail for the same reasons.
SlicesRecompose(node, sizes) ==
  /\ node.type = "text" =>
       /\ \A size \in sizes :
            /\ node.data = Join([n \in DOMAIN Pages(node, size) |-> Pages(node, size)[n].data])
                             \o IF Trails(node.data) THEN <<NewLine>> ELSE <<>>
            /\ \A n \in DOMAIN Pages(node, size) :
                 Pages(node, size)[n].total = readFileLines(node, 1, NoLimit).total
       /\ \A span \in SpansOf(node.data) :
            LET lines == readFileLines(node, span.start, span.end - span.start + 1).data
            IN readFileChunks(node, <<span>>).data[1].content
                 = Breadcrumb(span.headingPath) \o Join(Without(Split(lines), span.volatile))
  /\ node.type \in {"text", "binary"} =>
       \A size \in sizes : FlattenSeq(Ranges(node, size)) = readFileBuffer(node).data
  /\ \A size \in sizes, offset \in 1..3 :
       LET error == readFileBuffer(node).error
       IN /\ readFileRange(node, offset, size).error = error
          /\ readFileChunks(node, <<>>).error = error
          /\ readFileLines(node, offset, size).error = IF node.type = "binary" THEN "EINVAL" ELSE error
=============================================================================
