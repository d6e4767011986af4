------------------------------- MODULE Search -------------------------------
(***************************************************************************)
(* textSearch, semanticSearch and hybridSearch. The chunks of the blobs    *)
(* that an instance sees are ranked, the best of them taken as candidates, *)
(* mapped back to the paths that show their blob, capped per file and cut  *)
(* to the limit. A chunk has a lexical score (0: no match) and a nearness  *)
(* to the query (0: its content has no cached embedding).                  *)
(***************************************************************************)
EXTENDS Integers, FiniteSets, Sequences

CONSTANTS
  Oversample,       \* VISIBILITY_OVERSAMPLE
  MaxSearchLimit,   \* MAX_SEARCH_LIMIT
  DefaultLimit,     \* of hits, where no limit is given
  DefaultCap,       \* DEFAULT_PER_FILE_CAP
  RrfK,             \* RRF_K
  PathBlobs,            \* the blob that each path shows, paths and blobs by their order
  Hideable,         \* the sets of those paths that an instance may not see
  Corpora,          \* the sets of chunks that may be stored
  SearchOptions     \* what a search may be given

\* A chunk has one row of (blob_hash, chunk_index).
Corpus(chunks) ==
  /\ IsFiniteSet(chunks) /\ chunks \subseteq [blob : Nat, index : Nat, score : Nat, near : Nat]
  /\ \A c, d \in chunks : c.blob = d.blob /\ c.index = d.index => c = d

ASSUME SearchAssumption ==
  /\ {Oversample, MaxSearchLimit, DefaultLimit, DefaultCap} \subseteq Nat \ {0} /\ RrfK \in Nat
  /\ IsFiniteSet(DOMAIN PathBlobs) /\ DOMAIN PathBlobs \subseteq Nat
  /\ \A chunks \in Corpora : Corpus(chunks)
  /\ \A opts \in SearchOptions : \A option \in {opts.limit, opts.perFileCap} :
       option \in Seq(Int) /\ Len(option) <= 1

VARIABLE corpus     \* the chunks that are stored

Signals == {"text", "vector", "hybrid"}
Lesser(m, n) == IF m < n THEN m ELSE n

\* An option is a sequence of at most one number; absent, it is the fallback.
clampLimit(option, fallback) ==
  IF option = <<>> THEN fallback
  ELSE Lesser(IF option[1] < 1 THEN 1 ELSE option[1], MaxSearchLimit)

\* Mutant: candidates up to the limit of the answer.
WindowExact(limit) == limit
\* fetchLimit
Window(limit) == limit * Oversample

-----------------------------------------------------------------------------
\* files is what visibleEntriesSql yields: paths with the blob that each shows.
InScope(files, chunks) == {c \in chunks : \E p \in DOMAIN files : files[p] = c.blob}

\* Ranks are fractions <<numerator, denominator>>.
Higher(r, s) == r[1] * s[2] > s[1] * r[2]
Level(r, s) == r[1] * s[2] = s[1] * r[2]
Earlier(c, d) == c.blob < d.blob \/ (c.blob = d.blob /\ c.index < d.index)
Rated(c, rank) == [chunk |-> c, rank |-> rank]

\* ROW_NUMBER() OVER (ORDER BY rank DESC, blob_hash, chunk_index)
Place(rated, c) ==
  1 + Cardinality({d \in rated : \/ Higher(d.rank, c.rank)
                                 \/ Level(d.rank, c.rank) /\ Earlier(d.chunk, c.chunk)})
Best(rated, n) == {c \in rated : Place(rated, c) <= n}

\* TEXT_SCORED and its filter; the join with fs_chunk_embeddings.
TextScored(scope) == {Rated(c, <<c.score, 1>>) : c \in {c \in scope : c.score > 0}}
VectorScored(scope) == {Rated(c, <<c.near, 1>>) : c \in {c \in scope : c.near > 0}}

\* What one ranking adds to the fused rank: 1 / (RRF_K + r), 0 where it has none.
Share(rated, chunk, window) ==
  LET ranked == {c \in Best(rated, window) : c.chunk = chunk}
  IN IF ranked = {} THEN <<0, 1>> ELSE <<1, RrfK + Place(rated, CHOOSE c \in ranked : TRUE)>>
Plus(r, s) == <<r[1] * s[2] + s[1] * r[2], r[2] * s[2]>>
Fused(scope, window) ==
  LET text == TextScored(scope)
      vector == VectorScored(scope)
  IN {Rated(c.chunk, Plus(Share(text, c.chunk, window), Share(vector, c.chunk, window))) :
        c \in Best(text, window) \cup Best(vector, window)}

Candidates(signal, scope, window) ==
  Best(CASE signal = "text" -> TextScored(scope)
         [] signal = "vector" -> VectorScored(scope)
         [] OTHER -> Fused(scope, window), window)

\* The shared tail: hits of a path by rank and line, hits of all by rank, path, line.
HitsOf(files, candidates) ==
  {[path |-> p, chunk |-> c.chunk, rank |-> c.rank] : p \in DOMAIN files, c \in candidates}
HitsShown(files, hits) == {h \in hits : files[h.path] = h.chunk.blob}
Before(h, g) ==
  \/ Higher(h.rank, g.rank)
  \/ /\ Level(h.rank, g.rank)
     /\ h.path < g.path \/ (h.path = g.path /\ h.chunk.index < g.chunk.index)
Ordered(hits) ==
  [n \in 1..Cardinality(hits) |-> CHOOSE h \in hits : Cardinality({g \in hits : Before(g, h)}) = n - 1]
FileRank(hits, h) == 1 + Cardinality({g \in hits : g.path = h.path /\ Before(g, h)})

runChunkSearch(signal, files, chunks, opts) ==
  LET limit == clampLimit(opts.limit, DefaultLimit)
      perFileCap == clampLimit(opts.perFileCap, DefaultCap)
      hits == HitsShown(files, HitsOf(files, Candidates(signal, InScope(files, chunks), Window(limit))))
      kept == Ordered({h \in hits : FileRank(hits, h) <= perFileCap})
  IN SubSeq(kept, 1, Lesser(limit, Len(kept)))

-----------------------------------------------------------------------------
Matching(signal, c) == IF signal = "text" THEN c.score > 0
                        ELSE IF signal = "vector" THEN c.near > 0 ELSE c.score > 0 \/ c.near > 0
Capped(result, h, cap) ==
  Cardinality({n \in DOMAIN result : result[n].path = h.path /\ Before(result[n], h)}) >= cap
\* A chunk that both signals rank above another one.
Outdone(c, d) == c.score > d.score /\ c.near > d.near

\* Hits come in order, at most cap of a file. A matching chunk that is missing
\* was pushed out by better hits: by enough of its own file, or by a full answer;
\* but where the chunks that match fill more than the window, it may be missing
\* because its rank is beyond. Only what the instance sees counts there ("a
\* reachable hit is never crowded out of the candidate window by chunks the handle
\* can't see", search.ts:137). The fused order never contradicts both.
SearchSound(files, hidden, chunks, options) ==
  \A signal \in Signals, opts \in options :
    LET limit == clampLimit(opts.limit, DefaultLimit)
        cap == clampLimit(opts.perFileCap, DefaultCap)
        seen == [p \in DOMAIN files \ hidden |-> files[p]]
        scope == InScope(seen, chunks)
        matching == {c \in scope : Matching(signal, c)}
        result == runChunkSearch(signal, seen, chunks, opts)
        found == {result[n] : n \in DOMAIN result}
        hits == HitsShown(seen, HitsOf(seen, Candidates(signal, scope, Cardinality(scope))))
    IN /\ Len(result) <= limit
       /\ \A i, j \in DOMAIN result : i < j => Before(result[i], result[j])
       /\ \A p \in DOMAIN seen : Cardinality({h \in found : h.path = p}) <= cap
       /\ {h.chunk : h \in hits} = matching
       /\ Cardinality(matching) <= limit * Oversample =>
            \A h \in hits \ found :
              Capped(result, h, cap) \/ (Len(result) = limit /\ Before(result[limit], h))
       /\ signal = "hybrid" =>
            \A h, g \in found : Outdone(h.chunk, g.chunk) => Higher(h.rank, g.rank)

\* Any corpus may be stored when searches are made.
SearchInit == corpus = {}
Store == corpus = {} /\ corpus' \in Corpora
SearchSpec == SearchInit /\ [][Store]_corpus

\* Searches of what is stored answer with the best hits that their instance sees.
SearchesHold ==
  corpus # {} => \A hidden \in Hideable : SearchSound(PathBlobs, hidden, corpus, SearchOptions)
=============================================================================
