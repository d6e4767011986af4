------------------------------ MODULE Indexing ------------------------------
(***************************************************************************)
(* The chunk rows of blobs and the cache of embeddings. A write chunks the *)
(* content that has no rows yet (maybeChunk), backfillChunks does so for   *)
(* what was written before, indexChunkEmbeddings embeds the contents of    *)
(* the chunks that an instance sees. Every client is an instance on a      *)
(* version of its own with chunking options of its own; a file is named    *)
(* by its content. Statements run under READ COMMITTED.                    *)
(***************************************************************************)
EXTENDS Integers, Sequences, FiniteSets, SequencesExt

CONSTANTS
  Clients, Blobs, Texts,
  Option,       \* chunking option of every client
  TextsOf,      \* chunkMarkdown: texts of the chunks of a content under an option
  Early,        \* contents that every version has since before chunking
  BatchSize,    \* BATCH
  MaxOps        \* bound: transactions and passes

ASSUME EarlyAssumption == Early \subseteq Blobs
ASSUME TextsAssumption ==
  \A b \in Blobs, c \in Clients : TextsOf[b][Option[c]] \in Seq(Texts)
ASSUME BatchAssumption == BatchSize \in Nat \ {0}

VARIABLES
  shown,    \* contents of the files a version shows
  stored,   \* blobs
  rows,     \* chunk rows
  cache,    \* texts with an embedding
  work,     \* open transaction of every client
  pass,     \* its pass of indexChunkEmbeddings
  raced,    \* blobs that two options chunked at a time
  ops       \* begun so far

indexVars == <<shown, stored, rows, cache, work, pass, raced, ops>>

Idle == [status |-> "idle", blob |-> CHOOSE b \in Blobs : TRUE, todo |-> {},
         adds |-> {}, removes |-> {}, rows |-> {}]
NoPass == [status |-> "idle", total |-> 0, misses |-> <<>>, since |-> {}, moved |-> FALSE]

IndexInit ==
  /\ shown = [c \in Clients |-> Early] /\ stored = Early /\ rows = {} /\ cache = {}
  /\ work = [c \in Clients |-> Idle] /\ pass = [c \in Clients |-> NoPass]
  /\ raced = {} /\ ops = 0

-----------------------------------------------------------------------------
ChunkRow(b, i, text) == [blob |-> b, index |-> i, text |-> text]
RowsOf(b, option) == {ChunkRow(b, i, TextsOf[b][option][i]) : i \in DOMAIN TextsOf[b][option]}
Chunked(b) == \E r \in rows : r.blob = b

\* The texts that the searches and passes of c find: visibleEntriesSql joined with
\* the chunk rows.
VisibleTexts(contents, chunks) == {r.text : r \in {r \in chunks : r.blob \in contents}}
Seen(c) == VisibleTexts(shown[c], rows)

\* Passes note which texts come into their view.
Noticed ==
  pass' = [c \in Clients |->
    LET new == VisibleTexts(shown'[c], rows') \ Seen(c)
    IN [pass[c] EXCEPT !.since = @ \cup new, !.moved = @ \/ new # {}]]

Busy(c, status) == work[c].status = status
Begins == ops < MaxOps /\ ops' = ops + 1
Keeps(c, b) == b \in work[c].adds \/ \E r \in work[c].rows : r.blob = b

-----------------------------------------------------------------------------
\* attemptFusedWrite: the new blob waits for whoever is inserting it.
WriteContent(c, b) ==
  /\ Busy(c, "idle") /\ Begins
  /\ b \in stored \/ \A d \in Clients : b \notin work[d].adds
  /\ work' = [work EXCEPT ![c] = [Idle EXCEPT !.status = "probe", !.blob = b, !.adds = {b}]]
  /\ UNCHANGED <<shown, stored, rows, cache, pass, raced>>

Rm(c, b) ==
  /\ Busy(c, "idle") /\ Begins /\ b \in shown[c]
  /\ work' = [work EXCEPT ![c] = [Idle EXCEPT !.status = "written", !.removes = {b}]]
  /\ UNCHANGED <<shown, stored, rows, cache, pass, raced>>

\* Whoever found a blob without rows and has not ended.
Chunking(d, b) == Busy(d, "insert") /\ b \in work[d].todo \cup {r.blob : r \in work[d].rows}
RacedBy(c, found) ==
  {b \in found : \E d \in Clients \ {c} : Option[d] # Option[c] /\
                   (Chunking(d, b) \/ \E r \in work[d].rows : r.blob = b)}

\* Mutant: the statement of maybeChunk without its existence probe.
Unprobed(found) == found
\* The contents among found that have no rows yet.
Unchunked(found) == {b \in found : ~Chunked(b)}

\* maybeChunk: the existence probe.
Probe(c) ==
  LET found == Unchunked({work[c].blob})
  IN /\ Busy(c, "probe")
     /\ work' = [work EXCEPT ![c].status = IF found = {} THEN "written" ELSE "insert", ![c].todo = found]
     /\ raced' = raced \cup RacedBy(c, found)
     /\ UNCHANGED <<shown, stored, rows, cache, pass, ops>>

\* backfillChunks: the visible blobs without rows, read in one statement.
Backfill(c) ==
  LET found == Unchunked(shown[c])
  IN /\ Busy(c, "idle") /\ Begins
     /\ work' = [work EXCEPT ![c] = [Idle EXCEPT !.status = IF found = {} THEN "written" ELSE "insert",
                                                 !.todo = found]]
     /\ raced' = raced \cup RacedBy(c, found)
     /\ UNCHANGED <<shown, stored, rows, cache, pass>>

\* The rows that insertChunkRows adds: those whose index is not taken.
Added(c, b) == {r \in RowsOf(b, Option[c]) : \A q \in rows : q.blob = b => q.index # r.index}
AfterInsert(c, b) ==
  [work[c] EXCEPT !.todo = @ \ {b}, !.rows = @ \cup Added(c, b),
                  !.status = IF work[c].todo = {b} THEN "written" ELSE "insert"]

\* insertChunkRows: waits for a transaction that is inserting rows of the blob,
\* then skips those that are there; fails if the blob is gone.
Insert(c, b) ==
  /\ Busy(c, "insert") /\ b \in work[c].todo
  /\ \A d \in Clients \ {c} : \A r \in work[d].rows : r.blob # b
  /\ work' = [work EXCEPT ![c] =
       IF b \in stored \cup work[c].adds THEN AfterInsert(c, b) ELSE Idle]
  /\ UNCHANGED <<shown, stored, rows, cache, pass, raced, ops>>

CommitWork(c) ==
  /\ Busy(c, "written")
  /\ shown' = [shown EXCEPT ![c] = (@ \cup work[c].adds) \ work[c].removes]
  /\ stored' = stored \cup work[c].adds
  /\ rows' = rows \cup work[c].rows
  /\ work' = [work EXCEPT ![c] = Idle]
  /\ Noticed /\ UNCHANGED <<cache, raced, ops>>

\* Whatever fails in it, the transaction leaves nothing behind.
RollbackWork(c) ==
  /\ ~Busy(c, "idle") /\ work' = [work EXCEPT ![c] = Idle]
  /\ UNCHANGED <<shown, stored, rows, cache, pass, raced, ops>>

\* The sweep of history deletes blobs without entries, and their rows with them;
\* what an open transaction refers to is locked.
Collect(b) ==
  /\ b \in stored /\ \A c \in Clients : b \notin shown[c] /\ ~Keeps(c, b)
  /\ stored' = stored \ {b} /\ rows' = {r \in rows : r.blob # b}
  /\ UNCHANGED <<shown, cache, work, pass, raced, ops>>

-----------------------------------------------------------------------------
\* indexChunkEmbeddings: two statements count the texts and read the misses.
ReadTotal(c) ==
  /\ pass[c].status = "idle" /\ Begins
  /\ pass' = [pass EXCEPT ![c] = [NoPass EXCEPT !.status = "counted", !.total = Cardinality(Seen(c))]]
  /\ UNCHANGED <<shown, stored, rows, cache, work, raced>>

ReadMisses(c) ==
  /\ pass[c].status = "counted"
  /\ pass' = [pass EXCEPT ![c] = [@ EXCEPT !.status = "calling", !.misses = SetToSeq(Seen(c) \ cache),
                                           !.since = {}]]
  /\ UNCHANGED <<shown, stored, rows, cache, work, raced, ops>>

Batch(misses) == SubSeq(misses, 1, IF Len(misses) < BatchSize THEN Len(misses) ELSE BatchSize)
Rest(misses) == SubSeq(misses, BatchSize + 1, Len(misses))

\* The embedder answers, and the batch is stored in a transaction of its own.
StoreBatch(c) ==
  /\ pass[c].status = "calling" /\ pass[c].misses # <<>>
  /\ cache' = cache \cup Range(Batch(pass[c].misses))
  /\ pass' = [pass EXCEPT ![c].misses = Rest(@)]
  /\ UNCHANGED <<shown, stored, rows, work, raced, ops>>

\* It throws, or answers with too few vectors or bad ones: the pass ends.
EmbedFails(c) ==
  /\ pass[c].status = "calling" /\ pass[c].misses # <<>>
  /\ pass' = [pass EXCEPT ![c] = NoPass]
  /\ UNCHANGED <<shown, stored, rows, cache, work, raced, ops>>

Done(c) ==
  /\ pass[c].status = "calling" /\ pass[c].misses = <<>>
  /\ pass' = [pass EXCEPT ![c].status = "done"]
  /\ UNCHANGED <<shown, stored, rows, cache, work, raced, ops>>

Forget(c) ==
  /\ pass[c].status = "done" /\ pass' = [pass EXCEPT ![c] = NoPass]
  /\ UNCHANGED <<shown, stored, rows, cache, work, raced, ops>>

IndexNext ==
  \/ \E c \in Clients, b \in Blobs : WriteContent(c, b) \/ Rm(c, b) \/ Insert(c, b)
  \/ \E c \in Clients : Probe(c) \/ Backfill(c) \/ CommitWork(c) \/ RollbackWork(c)
  \/ \E b \in Blobs : Collect(b)
  \/ \E c \in Clients : ReadTotal(c) \/ ReadMisses(c) \/ StoreBatch(c) \/ EmbedFails(c) \/ Done(c) \/ Forget(c)

IndexSpec == IndexInit /\ [][IndexNext]_indexVars

-----------------------------------------------------------------------------
\* The rows of a blob are those of one chunking of it, all of them or none,
\* unless transactions with different options chunked it at the same time ("both
\* compute identical rows", write-ops.ts:599, is true of equal options only).
RowsAreWhole ==
  /\ \A r \in rows : r.blob \in stored
  /\ \A b \in stored \ raced :
       {r \in rows : r.blob = b} \in {{}} \cup {RowsOf(b, Option[c]) : c \in Clients}

\* A pass that ended well leaves no text without embedding in the view of its
\* instance but those that came into view since it read ("main is fully indexed
\* the moment it becomes visible", filesystem.ts:894), and has counted more
\* misses than texts only if some came between its two statements.
PassesCover ==
  \A c \in Clients :
    /\ pass[c].status = "done" => Seen(c) \subseteq cache \cup pass[c].since
    /\ pass[c].status = "calling" => Seen(c) \subseteq cache \cup pass[c].since \cup Range(pass[c].misses)
    /\ pass[c].status = "calling" /\ Len(pass[c].misses) > pass[c].total => pass[c].moved

IndexKeepsUp == RowsAreWhole /\ PassesCover
=============================================================================
