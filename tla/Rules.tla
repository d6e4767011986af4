-------------------------------- MODULE Rules --------------------------------
(***************************************************************************)
(* Which paths an instance hides: exclude patterns and mounts, each        *)
(* decided twice, by a predicate on POSIX paths before writes and single   *)
(* reads and by a WHERE clause on encoded ltree paths in listings and      *)
(* walks. glob() likewise has a query plan and a regular expression. Names *)
(* and patterns are sequences of characters, and "**" is one of these;     *)
(* character classes, braces, empty segments and line breaks in names are  *)
(* left out. One question is asked of the rules in a behaviour: nothing    *)
(* changes state.                                                          *)
(***************************************************************************)
EXTENDS Naturals, Sequences, SequencesExt, FiniteSets, Functions

CONSTANTS
  Plain,      \* characters that an ltree label can have
  Escape,     \* the label characters that stand for each other one
  Workspace,  \* the label of the workspace, first of every ltree path
  Visited,    \* the paths that are listed and read
  Questions   \* the rules that an instance may be made with: [kind, root, rule]

VARIABLES
  question    \* the rule that is put to its paths

\* An escape starts with a character that no label has otherwise, and ends with
\* the next one of these, so that none is the beginning of another.
ASSUME EscapeAssumption ==
  /\ \A c \in DOMAIN Escape : /\ c \notin Plain
                              /\ Escape[c] \in Seq(Range(Escape[c])) \ {<<>>}
                              /\ Escape[c][1] \notin Plain
  /\ \A c, d \in DOMAIN Escape : IsPrefix(Escape[c], Escape[d]) => c = d

\* encodeLabel
Encode(name) == FlattenSeq([i \in 1..Len(name) |->
                  IF name[i] \in Plain THEN <<name[i]>> ELSE Escape[name[i]]])

\* The escape that starts at position i of a label, or none.
EscapesAt(label, i) == {c \in DOMAIN Escape :
  i + Len(Escape[c]) - 1 <= Len(label) /\ SubSeq(label, i, i + Len(Escape[c]) - 1) = Escape[c]}

\* decodeLabel: escapes are replaced from left to right.
Decode(label) ==
  LET from[i \in 1..Len(label) + 1] ==
        IF i > Len(label) THEN <<>>
        ELSE IF EscapesAt(label, i) = {} THEN <<label[i]>> \o from[i + 1]
        ELSE LET c == CHOOSE c \in EscapesAt(label, i) : TRUE
             IN <<c>> \o from[i + Len(Escape[c])]
  IN from[1]

\* The label of the workspace ("w_" and its id) is that of no name.
ASSUME WorkspaceAssumption == Encode(Decode(Workspace)) # Workspace

\* normalizePath, on the parts between slashes
Normalize(parts) ==
  FoldLeft(LAMBDA path, part : CASE part = <<".">> -> path
                                 [] part = <<".", ".">> -> IF path = <<>> THEN path ELSE Front(path)
                                 [] OTHER -> Append(path, part), <<>>, parts)

\* pathToLtree
Ltree(path) == <<Workspace>> \o [i \in 1..Len(path) |-> Encode(path[i])]

ToInternal(root, path) == root \o path
ToUser(root, path) == SubSeq(path, Len(root) + 1, Len(path))

-----------------------------------------------------------------------------
\* Exclude patterns: [anchored, segments].
Star2 == <<"**">>
IsGlob(segment) == Range(segment) \cap {"*", "?", "**"} # {}

\* compilePattern: where a pattern is put.
Bucket(p) ==
  LET n == Len(p.segments)
  IN CASE n = 1 /\ ~IsGlob(p.segments[1]) -> IF p.anchored THEN "prefix" ELSE "label"
       [] n = 2 /\ ~p.anchored /\ p.segments[1] = Star2 /\ ~IsGlob(p.segments[2]) -> "label"
       [] n = 1 /\ ~p.anchored /\ p.segments[1] # Star2 /\ IsGlob(p.segments[1]) -> "segment"
       [] OTHER -> "path"

\* What regular expressions match: token by token, each between two places of
\* the text that it fits, from the beginning to the end.
Spans(text) == {at \in (0..Len(text)) \X (0..Len(text)) : at[1] <= at[2]}
Part(text, at) == SubSeq(text, at[1] + 1, at[2])
Matches(fits, n) ==
  LET ends[i \in 0..Len(fits)] ==
        IF i = 0 THEN {0}
        ELSE LET starts == ends[i - 1] IN {k \in 0..n : \E j \in starts : <<j, k>> \in fits[i]}
  IN n \in ends[Len(fits)]

\* segmentGlobToJsRegex
JsFits(token, name) ==
  {at \in Spans(name) : CASE token = "*" -> TRUE
                          [] token = "?" -> at[2] = at[1] + 1
                          [] OTHER -> Part(name, at) = <<token>>}
JsSegment(segment, name) == Matches([i \in 1..Len(segment) |-> JsFits(segment[i], name)], Len(name))

\* compileGlobToEncodedRegex: a star runs over label characters, those of an
\* escape among them; a question mark is one character, or one escape.
SqlFits(token, label) ==
  {at \in Spans(label) :
     CASE token = "*" -> TRUE
       [] token = "?" -> Part(label, at) \in {<<c>> : c \in Plain} \cup Range(Escape)
       [] OTHER -> Part(label, at) = Encode(<<token>>)}
SqlSegment(segment, label) == Matches([i \in 1..Len(segment) |-> SqlFits(segment[i], label)], Len(label))

\* makeFullPathTest and buildSegmentRegex. The text is n names with a separator
\* between two: an even place of it is before a name, an odd one after it. No
\* expression ends within a name, for it goes on with a separator or the end.
TextLength(n) == IF n = 0 THEN 0 ELSE 2 * n - 1
Places(n) == {at \in (0..TextLength(n)) \X (0..TextLength(n)) : at[1] <= at[2]}
AtName(place) == place % 2 = 0

\* (?:[^/]+/)* and (?:/[^/]+)*
Folders(n) == {at \in Places(n) : at[1] = at[2] \/ (AtName(at[1]) /\ AtName(at[2]))}
Deeper(n) == {at \in Places(n) : at[1] = at[2] \/ (~AtName(at[1]) /\ ~AtName(at[2]))}
\* (?:[^/]+/?)* and (?:/[^/]+)*/
Anything(n) == {at \in Places(n) : at[1] = at[2] \/ AtName(at[1])}
Passing(n) == {at \in Places(n) : ~AtName(at[1]) /\ AtName(at[2])}
\* (?:/.*)?$ and (?:\.|$): what follows a match is hidden with it.
AndBelow(n) == {at \in Places(n) : at[2] = TextLength(n) /\ (at[1] = at[2] \/ ~AtName(at[1]))}

\* A "**" by its neighbours, so that of two in a row each asks for a separator.
\* Any other segment takes a name, or nothing (0), after a separator of its own.
Piece(segments, i, n, taken) ==
  LET first == i = 1
      last == i = Len(segments)
      own == IF first \/ segments[i - 1] = Star2 THEN 0 ELSE 1
  IN CASE segments[i] = Star2 /\ first /\ last -> Anything(n)
       [] segments[i] = Star2 /\ first /\ ~last -> Folders(n)
       [] segments[i] = Star2 /\ ~first /\ last -> Deeper(n)
       [] segments[i] = Star2 /\ ~first /\ ~last -> Passing(n)
       [] OTHER -> {at \in Places(n) :
            /\ own = 1 => ~AtName(at[1])
            /\ \/ at[2] = at[1] + own /\ 0 \in taken[i]
               \/ at[2] = at[1] + own + 1 /\ ~AtName(at[2]) /\ (at[2] + 1) \div 2 \in taken[i]}

Pieces(p, n, taken) ==
  <<IF p.anchored THEN {<<0, 0>>} ELSE Folders(n)>>
    \o [i \in 1..Len(p.segments) |-> Piece(p.segments, i, n, taken)]

NameOrNothing(names, k) == IF k = 0 THEN <<>> ELSE names[k]
JsTaken(segments, names) == [i \in 1..Len(segments) |->
  {k \in 0..Len(names) : JsSegment(segments[i], NameOrNothing(names, k))}]
SqlTaken(segments, labels) == [i \in 1..Len(segments) |->
  {k \in 0..Len(labels) : SqlSegment(segments[i], NameOrNothing(labels, k))}]

\* Under the root "/", the path "/" is a text without a name.
JsFullPath(p, root, path) ==
  LET names == ToUser(root, path)
      n == Len(names)
  IN /\ IsPrefix(root, path) /\ (names # <<>> \/ root = <<>>)
     /\ Matches(Append(Pieces(p, n, JsTaken(p.segments, names)), AndBelow(n)), TextLength(n))

\* Mutant: only the match itself is hidden, where the match ends the path.
SqlFullPathExact(p, root, path) ==
  LET labels == Tail(Ltree(ToUser(root, path)))
      n == Len(labels)
  IN /\ IsPrefix(root, path) /\ labels # <<>>
     /\ Matches(Pieces(p, n, SqlTaken(p.segments, labels)), TextLength(n))

SqlFullPath(p, root, path) ==
  LET labels == Tail(Ltree(ToUser(root, path)))
      n == Len(labels)
  IN /\ IsPrefix(root, path) /\ labels # <<>>
     /\ Matches(Append(Pieces(p, n, SqlTaken(p.segments, labels)), AndBelow(n)), TextLength(n))

\* isExcluded
JsExcluded(p, root, path) ==
  CASE Bucket(p) = "label" -> Last(p.segments) \in Range(path)
    [] Bucket(p) = "prefix" -> IsPrefix(ToInternal(root, p.segments), path)
    [] Bucket(p) = "segment" -> \E name \in Range(path) : JsSegment(p.segments[1], name)
    [] Bucket(p) = "path" -> JsFullPath(p, root, path)

\* excludeWhereSql
SqlExcluded(p, root, path) ==
  CASE Bucket(p) = "label" -> Encode(Last(p.segments)) \in Range(Ltree(path))
    [] Bucket(p) = "prefix" -> IsPrefix(Ltree(ToInternal(root, p.segments)), Ltree(path))
    [] Bucket(p) = "segment" -> \E label \in Range(Ltree(path)) : SqlSegment(p.segments[1], label)
    [] Bucket(p) = "path" -> SqlFullPath(p, root, path)

-----------------------------------------------------------------------------
\* Mounts: a set of [path, readonly]. byRoot: a writable spec wins.
Roots(mounts, root) == {ToInternal(root, m.path) : m \in mounts}
ReadonlyAt(mounts, root, r) == \A m \in mounts : ToInternal(root, m.path) = r => m.readonly
NoMounts(mounts, root) ==
  \/ mounts = {}
  \/ /\ <<>> \in Roots(mounts, root) /\ ~ReadonlyAt(mounts, root, <<>>)
     /\ \A r \in Roots(mounts, root) : ~ReadonlyAt(mounts, root, r)
CoversAll(mounts, root) == NoMounts(mounts, root) \/ <<>> \in Roots(mounts, root)
Ancestors(mounts, root) ==
  UNION {{SubSeq(r, 1, n) : n \in 0..Len(r) - 1} : r \in Roots(mounts, root)}

MountVisible(mounts, root, path) ==
  \/ CoversAll(mounts, root) \/ path = <<>>
  \/ \E r \in Roots(mounts, root) : IsPrefix(r, path)
  \/ path \in Ancestors(mounts, root)

\* The deepest mount around a path decides.
MountWritable(mounts, root, path) ==
  LET around == {r \in Roots(mounts, root) : IsPrefix(r, path)}
  IN \/ NoMounts(mounts, root)
     \/ \E r \in around : (\A s \in around : Len(s) <= Len(r)) /\ ~ReadonlyAt(mounts, root, r)

\* mountWhereSql: subpath(path, 0, n) is cut at the length of the path.
MountSql(mounts, root, path) ==
  \/ CoversAll(mounts, root)
  \/ \E r \in Roots(mounts, root) :
       SubSeq(Ltree(path), 1, IF Len(r) < Len(path) THEN Len(r) + 1 ELSE Len(path) + 1) = Ltree(r)
  \/ Ltree(path) \in {Ltree(a) : a \in Ancestors(mounts, root)}

\* guardWrite, with guardExcludedWrite
GuardWrite(mounts, excludes, root, path) ==
  CASE ~MountVisible(mounts, root, path) -> "ENOENT"
    [] ~MountWritable(mounts, root, path) -> "EACCES"
    [] \E p \in excludes : JsExcluded(p, root, path) -> "ENOENT"
    [] OTHER -> "ok"

\* guardRootBoundary, for the target of a link
InBoundary(mounts, root, path) ==
  IF NoMounts(mounts, root) THEN IsPrefix(root, path) ELSE MountVisible(mounts, root, path)

-----------------------------------------------------------------------------
\* glob(): a pattern is a sequence of segments. The regular expression is
\* matched against the path written out: "*" stays within a name, "**" does
\* not, be it a segment or part of one, and takes a "/" that follows with it.
Joined(names, cuts) ==
  FlattenSeq([i \in 1..Len(names) |-> IF i \in cuts THEN <<"/">> \o names[i] ELSE names[i]])
Written(names) == Joined(names, 2..Len(names))
GlobFits(token, text) ==
  {at \in Spans(text) : CASE token = "**" -> TRUE
                          [] token = "*" -> "/" \notin Range(Part(text, at))
                          [] token = "?" -> at[2] = at[1] + 1 /\ text[at[2]] # "/"
                          [] OTHER -> Part(text, at) = <<token>>}
GlobRegex(pattern, text) ==
  LET glob == Joined(pattern, {i \in 2..Len(pattern) : Last(pattern[i - 1]) # "**"})
  IN Matches([i \in 1..Len(glob) |-> GlobFits(glob[i], text)], Len(text))

\* globLiteralPrefix
LiteralPrefix(pattern) ==
  LET literal == {n \in 0..Len(pattern) : \A i \in 1..n :
                    ~IsGlob(pattern[i]) /\ pattern[i] \notin {<<".">>, <<".", ".">>}}
  IN SubSeq(pattern, 1, CHOOSE n \in literal : \A m \in literal : m <= n)

\* analyzeGlobPattern: what the query asks of a path. Only a segment "**" makes
\* its depth free.
GlobPlan(pattern, path) ==
  LET n == Len(LiteralPrefix(pattern))
      relative == SubSeq(pattern, n + 1, Len(pattern))
  IN /\ IsPrefix(LiteralPrefix(pattern), path)
     /\ relative = <<>> => Len(path) = n
     /\ relative # <<>> /\ Star2 \notin Range(relative) => Len(path) = Len(pattern)
     /\ relative # <<>> /\ ~IsGlob(Last(relative)) => 
          path # <<>> /\ Encode(Last(path)) = Encode(Last(relative))

-----------------------------------------------------------------------------
\* What both sides hide is the same, but: listings also hide what fits a glob
\* only in its escaped form, or everything when a glob fits the label of the
\* workspace, and a pattern of stars alone hides "/" from single reads only.
ExcludesAgree(p, root, paths) ==
  \A path \in paths :
    /\ JsExcluded(p, root, path) =>
         \/ SqlExcluded(p, root, path)
         \/ path = <<>> /\ \A i \in DOMAIN p.segments : Range(p.segments[i]) \subseteq {"*", "**"}
    /\ SqlExcluded(p, root, path) /\ ~JsExcluded(p, root, path) =>
         \/ \E name \in Range(path) : Encode(name) # name
         \/ Bucket(p) = "segment" /\ SqlSegment(p.segments[1], Workspace)

\* Listings show what single reads see, a tree that can be walked from "/", and
\* nothing out of sight can be written.
MountsAgree(mounts, root, paths) ==
  \A path \in paths :
    /\ MountSql(mounts, root, path) <=> MountVisible(mounts, root, path)
    /\ MountVisible(mounts, root, path) =>
         \A n \in 0..Len(path) : MountVisible(mounts, root, SubSeq(path, 1, n))
    /\ GuardWrite(mounts, {}, root, path) = "ok" => InBoundary(mounts, root, path)
                                                  \/ NoMounts(mounts, root)

\* The query of glob() drops no path that its expression takes, but: the last
\* name after a "**" is compared whole, where the expression takes any name that
\* ends with it, and a "**" within a segment leaves the depth fixed, where the
\* expression goes on below.
GlobAgrees(pattern, paths) ==
  \A path \in paths \ {<<>>} : GlobRegex(pattern, Written(path)) =>
    \/ GlobPlan(pattern, path)
    \/ /\ \E i \in DOMAIN pattern : "**" \in Range(pattern[i])
       /\ ~IsGlob(Last(pattern)) \/ Star2 \notin Range(pattern)

\* Every name comes back from its label, and no two names share one.
NamesAgree(names) ==
  /\ \A name \in names : Decode(Encode(name)) = name
  /\ \A m, n \in names : Encode(m) = Encode(n) => m = n

-----------------------------------------------------------------------------
\* A path has no "/" within a name. A pattern is made of names and wildcards;
\* two stars in a row are a "**" to glob(), to excludes only as a segment.
Characters == Plain \cup DOMAIN Escape
Letters == Characters \ {"/", "**"}
FileNames == Seq(Letters) \ {<<>>}
GlobTokens == Letters \cup {"*", "?"}
ExcludeSegments == {Star2} \cup (Seq(GlobTokens) \ {<<>>, <<"*", "*">>})
GlobSegments == {s \in Seq(GlobTokens \cup {"**"}) \ {<<>>} :
                   \A i \in 2..Len(s) : s[i - 1] = "*" => s[i] \notin {"*", "**"}}

ASSUME QuestionsAssumption ==
  /\ Visited \subseteq Seq(FileNames)
  /\ \A q \in Questions :
       /\ q.kind \in {"exclude", "mount", "glob", "name"}
       /\ q.root \in Seq(FileNames)
       /\ q.kind = "exclude" =>
            q.rule \in [anchored : BOOLEAN, segments : Seq(ExcludeSegments) \ {<<>>}]
       /\ q.kind = "mount" => q.rule \subseteq [path : Seq(FileNames), readonly : BOOLEAN]
       /\ q.kind = "glob" => q.rule \in Seq(GlobSegments) \ {<<>>}
       /\ q.kind = "name" => q.rule \subseteq FileNames

Question(kind, root, rule) == [kind |-> kind, root |-> root, rule |-> rule]
RuleInit == question = Question("none", <<>>, <<>>)
Ask == question.kind = "none" /\ question' \in Questions
RuleSpec == RuleInit /\ [][Ask]_question

\* The two ways in which excludes, mounts and globs are decided agree, and names
\* come back from their labels.
RulesAgree ==
  CASE question.kind = "exclude" -> ExcludesAgree(question.rule, question.root, Visited)
    [] question.kind = "mount" -> MountsAgree(question.rule, question.root, Visited)
    [] question.kind = "glob" -> GlobAgrees(question.rule, Visited)
    [] question.kind = "name" -> NamesAgree(question.rule)
    [] OTHER -> TRUE
=============================================================================
