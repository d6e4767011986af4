---------------------------- MODULE MCComponents ----------------------------
(***************************************************************************)
(* The components that have their own state and no step in common, checked *)
(* in one run: a behaviour is one of one of them, and the others stay in   *)
(* their initial state. The pure ones are applied to every input. Init,    *)
(* Next and vars are those of Handles.                                     *)
(***************************************************************************)
EXTENDS Handles, TreeRace, Quota, Reads, Streams, Indexing, Connections, Rules, Search, Chunking, Slices, TLC

CONSTANTS
  \* TreeRace
  a, b, x, c1, c2,
  \* Handles
  main, dev,
  \* Connections
  u1, u2, w1, w2,
  \* Reads
  k1, k2, bad,
  \* Quota
  h2, h3, q1, q2, q3

VARIABLES
  part,                                     \* the component that acts
  input                                     \* of a pure component

componentVars == <<part, input, question, corpus, raceVars, vars, readVars, quotaVars, streamVars, indexVars, poolVars>>

-----------------------------------------------------------------------------
\* TreeRace: the ancestors show the directory /a and the files /a/b and /b; the
\* version to merge removed /a/b and wrote /b.
RaceNode(type, data, mode) == [type |-> type, data |-> data, mode |-> mode]
RaceInherited == [p \in UNION {[1..n -> {a, b}] : n \in 0..2} |->
  CASE p = <<a>> -> RaceNode("directory", <<>>, "0755")
    [] p \in {<<b>>, <<a, b>>} -> RaceNode("file", <<>>, "0644")
    [] OTHER -> Absent]
RaceTouched == {<<a>>, <<b>>, <<a, b>>}
RaceAt(own) == [p \in Paths |-> IF p \in DOMAIN own THEN own[p] ELSE RaceInherited[p]]
RaceRoot == <<>> :> RaceNode("directory", <<>>, "0755")
RaceSource == [view |-> RaceAt(RaceRoot @@ <<a, b>> :> Absent @@ <<b>> :> RaceNode("file", <<x>>, "0644")),
               base |-> RaceAt(RaceRoot), ancestor |-> FALSE]

\* Reads: a path may show nothing, a file or a link to k2.
ReadRows == {[type |-> "none", data |-> 0], [type |-> "file", data |-> x],
             [type |-> "symlink", data |-> k2]}

\* Quota: two instances with the option, one without.
QuotaSizes == h2 :> 2 @@ h3 :> 3
QuotaLimits == q1 :> 3 @@ q2 :> 3 @@ q3 :> Unlimited

\* Streams: the parent shows the first two keys, the fork wrote none,
\* removed one, removed one and added the third, or removed both.
StreamParent == [k \in {1, 2} |-> "f"]
StreamForks == {<<>>, [k \in {2} |-> Nothing], [k \in {2, 3} |-> IF k = 2 THEN Nothing ELSE "f"],
                [k \in {1, 2} |-> Nothing]}

\* Indexing: two chunkings of one content, the same of the other.
IndexOptions == c1 :> "fine" @@ c2 :> "coarse"
IndexTexts == "d" :> [fine |-> <<"s", "t">>, coarse |-> <<"st">>]
           @@ "e" :> [fine |-> <<"t">>, coarse |-> <<"t">>]

\* Connections: one task in each of two workspaces.
TaskWorkspaces == u1 :> w1 @@ u2 :> w2

\* Rules: the escaped characters "." and "_"; segments and names that use them.
RuleEscape == "." :> <<"_", "x", "2", "E", "_">> @@ "_" :> <<"_", "x", "5", "F", "_">>
RuleWorkspace == <<"w", "_", "a">>
RulePaths == SeqOf({<<"a">>, <<"a", "b">>, <<"a", ".">>}, 3)
RuleSegments == {<<"a">>, <<"a", ".">>, <<"*">>, <<"a", "*">>, <<"?">>, <<"?", "b">>,
                 <<"*", "E", "*">>, <<"**">>}
RulePatterns == (SeqOf(RuleSegments, 2) \ {<<>>}) \cup [1..3 -> {<<"a">>, <<"*">>, <<"**">>}]
GlobPatterns == RulePatterns \cup (SeqOf({<<"a">>, <<"?">>, <<"**", "a">>, <<"a", "**">>, <<"**", "*">>}, 2) \ {<<>>})
RuleRoots == {<<>>, <<<<"a">>>>}
RuleMounts == [path : SeqOf({<<"a">>, <<"a", ".">>}, 2), readonly : BOOLEAN]
RuleNames == SeqOf({"a", ".", "_", "x", "2", "E"}, 3) \ {<<>>}
RuleQuestions ==
  {Question("exclude", r, [anchored |-> anchored, segments |-> s]) :
     r \in RuleRoots, anchored \in BOOLEAN, s \in RulePatterns}
  \cup {Question("mount", r, m) : r \in RuleRoots, m \in {m \in SUBSET RuleMounts : Cardinality(m) <= 3}}
  \cup {Question("glob", <<>>, s) : s \in GlobPatterns}
  \cup {Question("name", <<>>, RuleNames)}

\* Chunking: short documents of every kind of line, longer ones under a heading.
LineOf(kind, mark, cost) == [kind |-> kind, mark |-> mark, cost |-> cost]
PlainLines == {LineOf("text", 0, 1), LineOf("text", 0, 3), LineOf("blank", 0, 0), LineOf("fence", 1, 1)}
AnyLines == PlainLines \cup {LineOf("title", 0, 1), LineOf("dashes", 0, 1), LineOf("fence", 2, 1)}
                       \cup {LineOf("heading", n, 1) : n \in 1..2}
Documents == (SeqOf(AnyLines, 4) \ {<<>>}) \cup {<<LineOf("heading", 1, 1)>> \o d : d \in [1..5 -> PlainLines]}

\* Slices: every text of at most five characters, and what is no text.
SliceTexts == {Node("text", t) : t \in SeqOf({"a", NewLine}, 5)}
Nodes == SliceTexts \cup {Node("binary", <<"a", "b", NewLine>>), Node("none", <<>>), Node("directory", <<>>)}

\* Search: two blobs of two chunks, the first one shown at two paths.
Profiles == {<<1, 0>>, <<0, 1>>, <<2, 1>>, <<1, 2>>}
Chunk(blob, index, p) == [blob |-> blob, index |-> index, score |-> p[1], near |-> p[2]]
SearchCorpora == {{Chunk(1, 1, p), Chunk(1, 2, q), Chunk(2, 1, r), Chunk(2, 2, s)} :
                    p \in Profiles, q \in Profiles, r \in Profiles, s \in Profiles}
SearchShows == 1 :> 1 @@ 2 :> 1 @@ 3 :> 2
SearchHidden == {{}, {1}, {3}}
SearchGiven == [limit : {<<0>>, <<2>>}, perFileCap : {<<>>, <<1>>}]

NoInput == [kind |-> "none", value |-> <<>>]
Inputs ==
  [kind : {"document"}, value : Documents] \cup [kind : {"node"}, value : Nodes]

-----------------------------------------------------------------------------
\* The state in which a component stays that does not act is a single one.
InitComponents ==
  /\ part \in {"race", "handle", "read", "quota", "stream", "index", "connection", "rule", "search", "pure"}
  /\ Init /\ RaceInit /\ ReadInit /\ QuotaInit /\ IndexInit
  /\ StreamInit /\ written[1] = StreamParent
  /\ written[2] \in IF part = "stream" THEN StreamForks ELSE {StreamParent}
  /\ PoolInit /\ (part # "connection" => setup = CHOOSE d \in Databases : TRUE)
  /\ RuleInit /\ SearchInit /\ input = NoInput

NextComponents ==
  \/ /\ part = "pure" /\ input = NoInput /\ input' \in Inputs
     /\ UNCHANGED <<part, question, corpus, raceVars, vars, readVars, quotaVars, streamVars, indexVars, poolVars>>
  \/ /\ part = "rule" /\ Ask
     /\ UNCHANGED <<part, input, corpus, raceVars, vars, readVars, quotaVars, streamVars, indexVars, poolVars>>
  \/ /\ part = "search" /\ Store
     /\ UNCHANGED <<part, input, question, raceVars, vars, readVars, quotaVars, streamVars, indexVars, poolVars>>
  \/ /\ part = "race" /\ RaceNext
     /\ UNCHANGED <<part, input, question, corpus, vars, readVars, quotaVars, streamVars, indexVars, poolVars>>
  \/ /\ part = "handle" /\ Next
     /\ UNCHANGED <<part, input, question, corpus, raceVars, readVars, quotaVars, streamVars, indexVars, poolVars>>
  \/ /\ part = "read" /\ ReadNext
     /\ UNCHANGED <<part, input, question, corpus, raceVars, vars, quotaVars, streamVars, indexVars, poolVars>>
  \/ /\ part = "quota" /\ QuotaNext
     /\ UNCHANGED <<part, input, question, corpus, raceVars, vars, readVars, streamVars, indexVars, poolVars>>
  \/ /\ part = "stream" /\ StreamNext
     /\ UNCHANGED <<part, input, question, corpus, raceVars, vars, readVars, quotaVars, indexVars, poolVars>>
  \/ /\ part = "index" /\ IndexNext
     /\ UNCHANGED <<part, input, question, corpus, raceVars, vars, readVars, quotaVars, streamVars, poolVars>>
  \/ /\ part = "connection" /\ PoolNext
     /\ UNCHANGED <<part, input, question, corpus, raceVars, vars, readVars, quotaVars, streamVars, indexVars>>

SpecComponents == InitComponents /\ [][NextComponents]_componentVars /\ ReadFairness

\* Chunks are a partition of the lines of every document, what is read in parts
\* is the whole, and a chunk is read as the lines it names under its headings.
PartsAreWhole ==
  /\ input.kind = "document" => ChunksPartition(input.value)
  /\ input.kind = "node" => SlicesRecompose(input.value, 1..3)
=============================================================================
