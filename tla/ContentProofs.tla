--------------------------- MODULE ContentProofs ---------------------------
(***************************************************************************)
(* What holds of the contents a workspace stores: IndexKeepsUp of          *)
(* Indexing, QuotaHolds of Quota and SearchesHold of Search, for any       *)
(* clients, contents, sizes, limits, options and bounds. The last is a     *)
(* fact about every corpus; the others are not inductive. That a commit    *)
(* adds all chunk rows of a blob or none rests on what its transaction,    *)
(* and every other one that found the blob without rows, is going to       *)
(* insert; that the quota is kept rests on who holds the advisory lock of  *)
(* the workspace between the sum and the commit, and on facts about the    *)
(* sum itself.                                                             *)
(***************************************************************************)
EXTENDS Indexing, Quota, Search, FiniteSetTheorems, SequenceTheorems, WellFoundedInduction, TLAPS

-----------------------------------------------------------------------------
\* Indexing
ChunkRows == [blob : Blobs, index : Nat, text : Texts]
Work == [status : {"idle", "probe", "insert", "written"}, blob : Blobs \cup {Idle.blob},
         todo : SUBSET Blobs, adds : SUBSET Blobs, removes : SUBSET Blobs,
         rows : SUBSET ChunkRows]
Pass == [status : {"idle", "counted", "calling", "done"}, total : Nat, misses : Seq(Texts),
         since : SUBSET Texts, moved : BOOLEAN]

TypeOK ==
  /\ shown \in [Clients -> SUBSET Blobs] /\ stored \subseteq Blobs
  /\ rows \subseteq ChunkRows /\ IsFiniteSet(rows)
  /\ cache \subseteq Texts /\ raced \subseteq Blobs /\ ops \in Nat
  /\ work \in [Clients -> Work] /\ \A c \in Clients : IsFiniteSet(work[c].rows)
  /\ pass \in [Clients -> Pass]

\* Rows of blob b: those in the table, and those an open transaction has inserted.
Table(b) == {r \in rows : r.blob = b}
Mine(c, b) == {r \in work[c].rows : r.blob = b}
Chunks(c, b) == b \in work[c].todo \/ Mine(c, b) # {}

\* What every transaction has come to at its step.
StepOK ==
  \A c \in Clients :
    /\ work[c].status = "probe" => work[c].blob \in Blobs
    /\ work[c].status # "insert" => work[c].todo = {}
    /\ work[c].status \in {"idle", "probe"} => work[c].rows = {}
    /\ work[c].status = "idle" => work[c].adds = {}
    /\ \A r \in work[c].rows : r.blob \in stored \cup work[c].adds
    /\ \A b \in work[c].todo : Mine(c, b) = {}

\* Only one transaction at a time has rows of a blob to commit.
OneInserts ==
  \A c, d \in Clients, b \in Blobs : c # d /\ Mine(c, b) # {} => Mine(d, b) = {}

\* The rows of a blob that was not raced, in the table and on the way there.
WholeOrNone ==
  \A b \in Blobs \ raced :
    /\ Table(b) \in {{}} \cup {RowsOf(b, Option[c]) : c \in Clients}
    /\ \A c \in Clients :
         /\ b \in work[c].todo => Table(b) \in {{}, RowsOf(b, Option[c])}
         /\ Mine(c, b) # {} => Mine(c, b) = RowsOf(b, Option[c]) /\ Table(b) = {}
         /\ \A d \in Clients : Chunks(c, b) /\ Chunks(d, b) => Option[c] = Option[d]

TableStored == \A r \in rows : r.blob \in stored

\* What a pass has seen and counted, at each of its steps.
PassOK ==
  \A c \in Clients :
    /\ pass[c].status = "counted" /\ ~pass[c].moved => Cardinality(Seen(c)) <= pass[c].total
    /\ pass[c].status = "calling" => Seen(c) \subseteq cache \cup pass[c].since \cup Range(pass[c].misses)
    /\ pass[c].status = "calling" /\ ~pass[c].moved => Len(pass[c].misses) <= pass[c].total
    /\ pass[c].status = "done" => Seen(c) \subseteq cache \cup pass[c].since

ChunkInv == StepOK /\ OneInserts /\ WholeOrNone /\ TableStored
Inv == TypeOK /\ ChunkInv /\ PassOK

-----------------------------------------------------------------------------
(* The operators.                                                          *)

\* A finite set as a sequence has each of its elements, once.
LEMMA SetAsSeq ==
  ASSUME NEW S, IsFiniteSet(S)
  PROVE  /\ SetToSeq(S) \in Seq(S)
         /\ Len(SetToSeq(S)) = Cardinality(S)
         /\ Range(SetToSeq(S)) = S
<1> DEFINE n == Cardinality(S)
           f == SetToSeq(S)
<1>1. n \in Nat /\ ExistsBijection(1..n, S)
  BY FS_CardinalityType
<1>2. \E g \in [1..n -> S] : IsInjective(g)
  BY <1>1 DEF ExistsBijection, Bijection, Injection
<1>3. f \in [1..n -> S] /\ IsInjective(f)
  BY <1>2 DEF SetToSeq
<1>4. f \in Injection(1..n, S)
  BY <1>3 DEF Injection
<1>5. Cardinality(1..n) = n
  BY <1>1, FS_Interval
<1>6. f \in Surjection(1..n, S)
  BY <1>4, <1>5, FS_Injection
<1>7. f \in Seq(S) /\ Len(f) = n
  BY <1>1, <1>3
<1>8. Range(f) = S
  BY <1>3, <1>6 DEF Surjection, Range
<1>. QED
  BY <1>7, <1>8

\* A batch and what it leaves are the sequence they are cut from.
LEMMA Batches ==
  ASSUME NEW misses \in Seq(Texts)
  PROVE  /\ Rest(misses) \in Seq(Texts)
         /\ Len(Rest(misses)) <= Len(misses)
         /\ Range(Batch(misses)) \subseteq Texts
         /\ Range(misses) \subseteq Range(Batch(misses)) \cup Range(Rest(misses))
<1> DEFINE n == Len(misses)
           k == IF n < BatchSize THEN n ELSE BatchSize
<1>1. n \in Nat /\ k \in 0..n /\ BatchSize \in Nat /\ (k # BatchSize => k = n)
  BY BatchAssumption
<1>2. /\ Batch(misses) \in Seq(Texts) /\ Len(Batch(misses)) = k
      /\ \A i \in 1..k : Batch(misses)[i] = misses[i]
  BY <1>1 DEF Batch
<1>3. /\ Rest(misses) \in Seq(Texts)
      /\ Len(Rest(misses)) = IF BatchSize + 1 <= n THEN n - BatchSize ELSE 0
      /\ \A i \in 1..(n - BatchSize) : Rest(misses)[i] = misses[BatchSize + i]
  BY <1>1 DEF Rest
<1>4. Range(Batch(misses)) \subseteq Texts
  BY <1>2 DEF Range
<1>5. ASSUME NEW i \in 1..n
      PROVE  misses[i] \in Range(Batch(misses)) \cup Range(Rest(misses))
  <2>1. CASE i <= k
    <3>1. i \in DOMAIN Batch(misses) /\ Batch(misses)[i] = misses[i]
      BY <1>1, <1>2, <1>5, <2>1
    <3>. QED
      BY <3>1 DEF Range
  <2>2. CASE ~(i <= k)
    <3>1. k = BatchSize /\ i - BatchSize \in 1..(n - BatchSize)
      BY <1>1, <1>5, <2>2
    <3>2. i - BatchSize \in DOMAIN Rest(misses) /\ Rest(misses)[i - BatchSize] = misses[i]
      BY <1>1, <1>3, <1>5, <3>1
    <3>. QED
      BY <3>2 DEF Range
  <2>. QED
    BY <2>1, <2>2
<1>6. Range(misses) \subseteq Range(Batch(misses)) \cup Range(Rest(misses))
  BY <1>5 DEF Range
<1>. QED
  BY <1>1, <1>3, <1>4, <1>6

\* The rows of a chunking: typed, finitely many, one per index.
LEMMA ChunkingRows ==
  ASSUME NEW b \in Blobs, NEW c \in Clients
  PROVE  /\ RowsOf(b, Option[c]) \subseteq ChunkRows
         /\ IsFiniteSet(RowsOf(b, Option[c]))
         /\ \A r \in RowsOf(b, Option[c]) : r.blob = b
<1> DEFINE s == TextsOf[b][Option[c]]
           f == [i \in 1..Len(s) |-> ChunkRow(b, i, s[i])]
<1>1. s \in Seq(Texts) /\ Len(s) \in Nat /\ DOMAIN s = 1..Len(s)
  BY TextsAssumption
<1>2. \A i \in 1..Len(s) : s[i] \in Texts
  BY <1>1
<1> HIDE DEF s
<1>3. RowsOf(b, Option[c]) = {ChunkRow(b, i, s[i]) : i \in 1..Len(s)}
  BY <1>1 DEF RowsOf, s
<1>4. f \in Surjection(1..Len(s), RowsOf(b, Option[c]))
  BY <1>3 DEF Surjection
<1>5. IsFiniteSet(1..Len(s))
  BY <1>1, FS_Interval
<1>6. IsFiniteSet(RowsOf(b, Option[c]))
  <2> HIDE DEF f
  <2>. QED
    BY <1>4, <1>5, FS_Surjection
<1>. QED
  BY <1>2, <1>3, <1>6 DEF ChunkRow, ChunkRows

\* A finite table shows finitely many texts.
LEMMA TextsFinite ==
  ASSUME NEW contents, NEW chunks \in SUBSET ChunkRows, IsFiniteSet(chunks)
  PROVE  /\ VisibleTexts(contents, chunks) \subseteq Texts
         /\ IsFiniteSet(VisibleTexts(contents, chunks))
<1> DEFINE R == {r \in chunks : r.blob \in contents}
           f == [r \in R |-> r.text]
<1>1. IsFiniteSet(R)
  BY FS_Subset
<1>2. f \in Surjection(R, VisibleTexts(contents, chunks))
  BY DEF Surjection, VisibleTexts
<1>3. IsFiniteSet(VisibleTexts(contents, chunks))
  <2> HIDE DEF f, R
  <2>. QED
    BY <1>1, <1>2, FS_Surjection
<1>. QED
  BY <1>3 DEF VisibleTexts, ChunkRows

LEMMA SmallerSeen ==
  ASSUME NEW S, NEW T, IsFiniteSet(T), S \subseteq T
  PROVE  IsFiniteSet(S) /\ Cardinality(S) \in Nat /\ Cardinality(S) <= Cardinality(T)
BY FS_Subset, FS_CardinalityType

-----------------------------------------------------------------------------
(* Initial states and types.                                               *)

LEMMA InitInv == IndexInit => Inv
<1> SUFFICES ASSUME IndexInit PROVE Inv
  OBVIOUS
<1>1. \A c \in Clients : work[c] = Idle /\ pass[c] = NoPass
  BY DEF IndexInit
<1>2. TypeOK
  <2>1. Idle \in Work
    BY DEF Idle, Work
  <2>2. NoPass \in Pass
    <3>1. <<>> \in Seq(Texts)
      OBVIOUS
    <3>. QED
      BY <3>1 DEF NoPass, Pass
  <2>3. IsFiniteSet(rows) /\ \A c \in Clients : IsFiniteSet(work[c].rows)
    BY <1>1, FS_EmptySet DEF IndexInit, Idle
  <2>. QED
    BY <2>1, <2>2, <2>3, EarlyAssumption DEF IndexInit, TypeOK
<1>0. \A c \in Clients : /\ work[c].status = "idle" /\ work[c].todo = {}
                         /\ work[c].adds = {} /\ work[c].rows = {}
  <2>1. Idle.status = "idle" /\ Idle.todo = {} /\ Idle.adds = {} /\ Idle.rows = {}
    BY DEF Idle
  <2>. QED
    BY <1>1, <2>1
<1>3. \A c \in Clients, b \in Blobs : Mine(c, b) = {} /\ Table(b) = {} /\ ~Chunks(c, b)
  BY <1>1 DEF IndexInit, Mine, Table, Chunks, Idle
<1>4. ChunkInv
  <2>1. StepOK
    BY <1>0 DEF StepOK
  <2>2. OneInserts
    BY <1>3 DEF OneInserts
  <2>3. WholeOrNone
    <3>1. \A b \in Blobs : Table(b) \in {{}} \cup {RowsOf(b, Option[c]) : c \in Clients}
      BY DEF IndexInit, Table
    <3>2. \A c \in Clients, b \in Blobs :
            b \notin work[c].todo /\ Mine(c, b) = {} /\ ~Chunks(c, b)
      BY <1>0, <1>3
    <3>. QED
      BY <3>1, <3>2 DEF WholeOrNone
  <2>4. TableStored
    BY DEF IndexInit, TableStored
  <2>. QED
    BY <2>1, <2>2, <2>3, <2>4 DEF ChunkInv
<1>5. PassOK
  BY <1>1 DEF PassOK, NoPass
<1>. QED
  BY <1>2, <1>4, <1>5 DEF Inv

LEMMA NextType == Inv /\ [IndexNext]_indexVars => TypeOK'
<1> SUFFICES ASSUME Inv, [IndexNext]_indexVars PROVE TypeOK'
  OBVIOUS
<1> USE DEF Inv
<1> DEFINE Typed(w) == w \in Work /\ IsFiniteSet(w.rows)
           Keeps1 == work' \in [Clients -> Work] /\ \A c \in Clients : IsFiniteSet(work'[c].rows)
<1>0. Typed(Idle)
  BY FS_EmptySet DEF Idle, Work
<1>1. ASSUME NEW c \in Clients, NEW w, Typed(w), work' = [work EXCEPT ![c] = w]
      PROVE  Keeps1
  BY <1>1 DEF TypeOK
<1>2. ASSUME NEW c \in Clients, NEW p \in Pass, pass' = [pass EXCEPT ![c] = p]
      PROVE  pass' \in [Clients -> Pass]
  BY <1>2 DEF TypeOK
<1>3. \A c \in Clients : work[c] \in Work /\ IsFiniteSet(work[c].rows) /\ pass[c] \in Pass
  BY DEF TypeOK
<1>4. NoPass \in Pass
  <2>1. <<>> \in Seq(Texts)
    OBVIOUS
  <2>. QED
    BY <2>1 DEF NoPass, Pass
<1>5. \A c \in Clients : Seen(c) \subseteq Texts /\ IsFiniteSet(Seen(c)) /\ Cardinality(Seen(c)) \in Nat
  BY TextsFinite, FS_CardinalityType DEF TypeOK, Seen
<1>6. ASSUME NEW c \in Clients, NEW b \in Blobs, WriteContent(c, b)
      PROVE  TypeOK'
  <2>1. Typed([Idle EXCEPT !.status = "probe", !.blob = b, !.adds = {b}])
    BY FS_EmptySet DEF Idle, Work
  <2>2. Keeps1
    BY <1>1, <1>6, <2>1 DEF WriteContent
  <2>. QED
    BY <1>6, <2>2 DEF WriteContent, Begins, TypeOK
<1>7. ASSUME NEW c \in Clients, NEW b \in Blobs, Rm(c, b)
      PROVE  TypeOK'
  <2>1. Typed([Idle EXCEPT !.status = "written", !.removes = {b}])
    BY FS_EmptySet DEF Idle, Work
  <2>2. Keeps1
    BY <1>1, <1>7, <2>1 DEF Rm
  <2>. QED
    BY <1>7, <2>2 DEF Rm, Begins, TypeOK
<1>8. ASSUME NEW c \in Clients, Probe(c)
      PROVE  TypeOK'
  <2> DEFINE found == Unchunked({work[c].blob})
  <2>1. found \subseteq Blobs
    BY <1>3, <1>8 DEF Probe, Busy, Unchunked, ChunkInv, StepOK
  <2> HIDE DEF found
  <2> DEFINE w == [work[c] EXCEPT !.status = IF found = {} THEN "written" ELSE "insert", !.todo = found]
  <2>2. Typed(w)
    BY <1>3, <2>1 DEF Work
  <2>3. work' = [work EXCEPT ![c] = w]
    BY <1>8 DEF Probe, found, TypeOK
  <2>4. Keeps1
    <3> HIDE DEF w
    <3>. QED
      BY <1>1, <2>2, <2>3
  <2>5. raced' \subseteq Blobs
    BY <1>8, <2>1 DEF Probe, RacedBy, found, TypeOK
  <2>. QED
    BY <1>8, <2>4, <2>5 DEF Probe, TypeOK
<1>9. ASSUME NEW c \in Clients, Backfill(c)
      PROVE  TypeOK'
  <2> DEFINE found == Unchunked(shown[c])
  <2>1. found \subseteq Blobs
    BY DEF Unchunked, TypeOK
  <2> HIDE DEF found
  <2> DEFINE w == [Idle EXCEPT !.status = IF found = {} THEN "written" ELSE "insert", !.todo = found]
  <2>2. Typed(w)
    BY <2>1, FS_EmptySet DEF Work, Idle
  <2>3. work' = [work EXCEPT ![c] = w]
    BY <1>9 DEF Backfill, found
  <2>4. Keeps1
    <3> HIDE DEF w
    <3>. QED
      BY <1>1, <2>2, <2>3
  <2>5. raced' \subseteq Blobs
    BY <1>9, <2>1 DEF Backfill, RacedBy, found, TypeOK
  <2>. QED
    BY <1>9, <2>4, <2>5 DEF Backfill, Begins, TypeOK
<1>10. ASSUME NEW c \in Clients, NEW b \in Blobs, Insert(c, b)
       PROVE  TypeOK'
  <2>1. Added(c, b) \subseteq ChunkRows /\ IsFiniteSet(Added(c, b))
    <3>1. IsFiniteSet(RowsOf(b, Option[c])) /\ RowsOf(b, Option[c]) \subseteq ChunkRows
      BY ChunkingRows
    <3>. QED
      BY <3>1, FS_Subset DEF Added
  <2>2. Typed(AfterInsert(c, b))
    <3>1. IsFiniteSet(work[c].rows \cup Added(c, b))
      BY <1>3, <2>1, FS_Union
    <3>2. /\ AfterInsert(c, b) \in Work
          /\ AfterInsert(c, b).rows = work[c].rows \cup Added(c, b)
      BY <1>3, <2>1 DEF AfterInsert, Work
    <3>. QED
      BY <3>1, <3>2
  <2>3. Keeps1
    BY <1>0, <1>1, <1>10, <2>2 DEF Insert
  <2>. QED
    BY <1>10, <2>3 DEF Insert, TypeOK
<1>11. ASSUME NEW c \in Clients, CommitWork(c)
       PROVE  TypeOK'
  <2>1. Keeps1
    BY <1>0, <1>1, <1>11 DEF CommitWork
  <2>2. rows' \subseteq ChunkRows /\ IsFiniteSet(rows')
    <3>1. rows' = rows \cup work[c].rows /\ work[c].rows \subseteq ChunkRows
      BY <1>3, <1>11 DEF CommitWork, Work
    <3>. QED
      BY <1>3, <3>1, FS_Union DEF TypeOK
  <2>3. shown' \in [Clients -> SUBSET Blobs] /\ stored' \subseteq Blobs
    BY <1>3, <1>11 DEF CommitWork, Work, TypeOK
  <2>4. pass' \in [Clients -> Pass]
    <3> DEFINE new(d) == VisibleTexts(shown'[d], rows') \ Seen(d)
    <3>1. pass' = [d \in Clients |-> [pass[d] EXCEPT !.since = @ \cup new(d), !.moved = @ \/ new(d) # {}]]
      BY <1>11 DEF CommitWork, Noticed
    <3>2. \A d \in Clients : new(d) \subseteq Texts
      BY <2>2, TextsFinite
    <3> HIDE DEF new
    <3>3. \A d \in Clients : [pass[d] EXCEPT !.since = @ \cup new(d), !.moved = @ \/ new(d) # {}] \in Pass
      BY <1>3, <3>2 DEF Pass
    <3>. QED
      BY <3>1, <3>3
  <2>. QED
    BY <1>11, <2>1, <2>2, <2>3, <2>4 DEF CommitWork, TypeOK
<1>12. ASSUME NEW c \in Clients, RollbackWork(c)
       PROVE  TypeOK'
  <2>1. Keeps1
    BY <1>0, <1>1, <1>12 DEF RollbackWork
  <2>. QED
    BY <1>12, <2>1 DEF RollbackWork, TypeOK
<1>13. ASSUME NEW b \in Blobs, Collect(b)
       PROVE  TypeOK'
  <2>1. rows' \subseteq rows
    BY <1>13 DEF Collect
  <2>2. IsFiniteSet(rows')
    BY <2>1, FS_Subset DEF TypeOK
  <2>. QED
    BY <1>13, <2>1, <2>2 DEF Collect, TypeOK
<1>14. ASSUME NEW c \in Clients, ReadTotal(c)
       PROVE  TypeOK'
  <2>1. [NoPass EXCEPT !.status = "counted", !.total = Cardinality(Seen(c))] \in Pass
    BY <1>4, <1>5 DEF Pass
  <2>2. pass' \in [Clients -> Pass]
    BY <1>2, <1>14, <2>1 DEF ReadTotal
  <2>. QED
    BY <1>14, <2>2 DEF ReadTotal, Begins, TypeOK
<1>15. ASSUME NEW c \in Clients, ReadMisses(c)
       PROVE  TypeOK'
  <2> DEFINE m == SetToSeq(Seen(c) \ cache)
             p == [pass[c] EXCEPT !.status = "calling", !.misses = m, !.since = {}]
  <2>1. m \in Seq(Texts)
    <3>1. IsFiniteSet(Seen(c) \ cache)
      BY <1>5, FS_Subset
    <3>2. m \in Seq(Seen(c) \ cache)
      BY <3>1, SetAsSeq
    <3>3. Seen(c) \ cache \subseteq Texts
      BY <1>5
    <3>. QED
      BY <3>2, <3>3, SeqMonotonic
  <2> HIDE DEF m
  <2>2. p \in Pass
    BY <1>3, <2>1 DEF Pass
  <2>3. pass' = [pass EXCEPT ![c] = p]
    BY <1>15 DEF ReadMisses, m, TypeOK
  <2>4. pass' \in [Clients -> Pass]
    <3> HIDE DEF p
    <3>. QED
      BY <1>2, <2>2, <2>3
  <2>. QED
    BY <1>15, <2>4 DEF ReadMisses, TypeOK
<1>16. ASSUME NEW c \in Clients, StoreBatch(c)
       PROVE  TypeOK'
  <2>1. pass[c].misses \in Seq(Texts)
    BY <1>3 DEF Pass
  <2>2. Rest(pass[c].misses) \in Seq(Texts) /\ Range(Batch(pass[c].misses)) \subseteq Texts
    BY <2>1, Batches
  <2> DEFINE m == Rest(pass[c].misses)
             p == [pass[c] EXCEPT !.misses = m]
  <2> HIDE DEF m
  <2>3. p \in Pass
    BY <1>3, <2>2 DEF Pass, m
  <2>4. pass' = [pass EXCEPT ![c] = p]
    BY <1>16 DEF StoreBatch, m, TypeOK
  <2>5. pass' \in [Clients -> Pass]
    <3> HIDE DEF p
    <3>. QED
      BY <1>2, <2>3, <2>4
  <2>. QED
    BY <1>16, <2>2, <2>5 DEF StoreBatch, TypeOK
<1>17. ASSUME NEW c \in Clients, EmbedFails(c) \/ Forget(c)
       PROVE  TypeOK'
  <2>1. pass' \in [Clients -> Pass]
    BY <1>2, <1>4, <1>17 DEF EmbedFails, Forget
  <2>. QED
    BY <1>17, <2>1 DEF EmbedFails, Forget, TypeOK
<1>18. ASSUME NEW c \in Clients, Done(c)
       PROVE  TypeOK'
  <2> DEFINE p == [pass[c] EXCEPT !.status = "done"]
  <2>1. p \in Pass
    BY <1>3 DEF Pass
  <2>2. pass' = [pass EXCEPT ![c] = p]
    BY <1>18 DEF Done, TypeOK
  <2>3. pass' \in [Clients -> Pass]
    <3> HIDE DEF p
    <3>. QED
      BY <1>2, <2>1, <2>2
  <2>. QED
    BY <1>18, <2>3 DEF Done, TypeOK
<1>19. ASSUME UNCHANGED indexVars
       PROVE  TypeOK'
  BY <1>19 DEF indexVars, TypeOK
<1>. QED
  BY <1>6, <1>7, <1>8, <1>9, <1>10, <1>11, <1>12, <1>13, <1>14, <1>15, <1>16, <1>17, <1>18, <1>19
  DEF IndexNext

-----------------------------------------------------------------------------
(* The chunk rows.                                                         *)

\* A step that changes none of the tables involved.
LEMMA SameChunks ==
  ASSUME ChunkInv, UNCHANGED <<stored, rows, work, raced>>
  PROVE  ChunkInv'
<1>0. stored' = stored /\ rows' = rows /\ work' = work /\ raced' = raced /\ WholeOrNone
  BY DEF ChunkInv
<1>1. /\ \A b \in Blobs : Table(b)' = Table(b)
      /\ \A c \in Clients, b \in Blobs :
           Mine(c, b)' = Mine(c, b) /\ (Chunks(c, b)' <=> Chunks(c, b))
  BY <1>0 DEF Mine, Table, Chunks
<1>2. StepOK'
  BY <1>1 DEF ChunkInv, StepOK, Mine
<1>3. OneInserts'
  BY <1>1 DEF ChunkInv, OneInserts
<1>4. WholeOrNone'
  <2> SUFFICES ASSUME NEW b \in Blobs, b \notin raced
               PROVE  /\ Table(b)' \in {{}} \cup {RowsOf(b, Option[d]) : d \in Clients}
                      /\ \A d \in Clients :
                           /\ b \in work'[d].todo => Table(b)' \in {{}, RowsOf(b, Option[d])}
                           /\ Mine(d, b)' # {} => Mine(d, b)' = RowsOf(b, Option[d]) /\ Table(b)' = {}
                           /\ \A e \in Clients : Chunks(d, b)' /\ Chunks(e, b)' => Option[d] = Option[e]
    BY DEF WholeOrNone
  <2>. QED
    BY <1>0, <1>1 DEF WholeOrNone
<1>5. TableStored'
  BY DEF ChunkInv, TableStored
<1>. QED
  BY <1>2, <1>3, <1>4, <1>5 DEF ChunkInv

\* A transaction begins with nothing to insert, or ends without having committed.
LEMMA Drops ==
  ASSUME Inv, NEW c \in Clients, work' \in [Clients -> Work],
         \A d \in Clients : d # c => work'[d] = work[d],
         UNCHANGED <<stored, rows, raced>>,
         work'[c].todo = {}, work'[c].rows = {}, work'[c].status # "insert",
         work'[c].status = "probe" => work'[c].blob \in Blobs,
         work'[c].status = "idle" => work'[c].adds = {}
  PROVE  ChunkInv'
<1>1. \A b \in Blobs : Table(b)' = Table(b) /\ Mine(c, b)' = {} /\ ~Chunks(c, b)'
  BY DEF Table, Mine, Chunks
<1>2. \A d \in Clients, b \in Blobs :
        d # c => Mine(d, b)' = Mine(d, b) /\ (Chunks(d, b)' <=> Chunks(d, b))
  BY DEF Mine, Chunks
<1>3. StepOK'
  <2> SUFFICES ASSUME NEW d \in Clients
               PROVE  /\ work'[d].status = "probe" => work'[d].blob \in Blobs
                      /\ work'[d].status # "insert" => work'[d].todo = {}
                      /\ work'[d].status \in {"idle", "probe"} => work'[d].rows = {}
                      /\ work'[d].status = "idle" => work'[d].adds = {}
                      /\ \A r \in work'[d].rows : r.blob \in stored' \cup work'[d].adds
                      /\ \A b \in work'[d].todo : Mine(d, b)' = {}
    BY DEF StepOK
  <2>1. CASE d = c
    BY <2>1
  <2>2. CASE d # c
    BY <2>2 DEF Inv, ChunkInv, StepOK, Mine
  <2>. QED
    BY <2>1, <2>2
<1>4. OneInserts'
  BY <1>1, <1>2 DEF Inv, ChunkInv, OneInserts
<1>5. WholeOrNone'
  <2> SUFFICES ASSUME NEW b \in Blobs, b \notin raced
               PROVE  /\ Table(b)' \in {{}} \cup {RowsOf(b, Option[d]) : d \in Clients}
                      /\ \A d \in Clients :
                           /\ b \in work'[d].todo => Table(b)' \in {{}, RowsOf(b, Option[d])}
                           /\ Mine(d, b)' # {} => Mine(d, b)' = RowsOf(b, Option[d]) /\ Table(b)' = {}
                           /\ \A e \in Clients : Chunks(d, b)' /\ Chunks(e, b)' => Option[d] = Option[e]
    BY DEF WholeOrNone
  <2>1. \A d \in Clients : b \in work'[d].todo => d # c /\ b \in work[d].todo
    OBVIOUS
  <2>2. \A d \in Clients : Chunks(d, b)' => d # c /\ Chunks(d, b)
    BY <1>1, <1>2
  <2>3. \A d \in Clients : Mine(d, b)' # {} => d # c /\ Mine(d, b)' = Mine(d, b)
    BY <1>1, <1>2
  <2>4. Table(b)' = Table(b)
    BY <1>1
  <2>. QED
    BY <2>1, <2>2, <2>3, <2>4 DEF Inv, ChunkInv, WholeOrNone
<1>6. TableStored'
  BY DEF Inv, ChunkInv, TableStored
<1>. QED
  BY <1>3, <1>4, <1>5, <1>6 DEF ChunkInv

\* A transaction notes the blobs it found without rows, and whoever else is at
\* work on them.
LEMMA Finds ==
  ASSUME Inv, NEW c \in Clients, NEW found \in SUBSET Blobs,
         \A b \in found : ~Chunked(b), work[c].rows = {},
         work' \in [Clients -> Work],
         \A d \in Clients : d # c => work'[d] = work[d],
         UNCHANGED <<stored, rows>>, raced' = raced \cup RacedBy(c, found),
         work'[c].todo = found, work'[c].rows = {},
         work'[c].status = IF found = {} THEN "written" ELSE "insert"
  PROVE  ChunkInv'
<1>1. \A b \in Blobs : Table(b)' = Table(b) /\ Mine(c, b)' = {} /\ (Chunks(c, b)' <=> b \in found)
  BY DEF Table, Mine, Chunks
<1>2. \A d \in Clients, b \in Blobs :
        d # c => Mine(d, b)' = Mine(d, b) /\ (Chunks(d, b)' <=> Chunks(d, b))
  BY DEF Mine, Chunks
<1>3. StepOK'
  <2> SUFFICES ASSUME NEW d \in Clients
               PROVE  /\ work'[d].status = "probe" => work'[d].blob \in Blobs
                      /\ work'[d].status # "insert" => work'[d].todo = {}
                      /\ work'[d].status \in {"idle", "probe"} => work'[d].rows = {}
                      /\ work'[d].status = "idle" => work'[d].adds = {}
                      /\ \A r \in work'[d].rows : r.blob \in stored' \cup work'[d].adds
                      /\ \A b \in work'[d].todo : Mine(d, b)' = {}
    BY DEF StepOK
  <2>1. CASE d = c
    BY <1>1, <2>1
  <2>2. CASE d # c
    BY <2>2 DEF Inv, ChunkInv, StepOK, Mine
  <2>. QED
    BY <2>1, <2>2
<1>4. OneInserts'
  BY <1>1, <1>2 DEF Inv, ChunkInv, OneInserts
<1>5. WholeOrNone'
  <2> SUFFICES ASSUME NEW b \in Blobs, b \notin raced, b \notin RacedBy(c, found)
               PROVE  /\ Table(b)' \in {{}} \cup {RowsOf(b, Option[d]) : d \in Clients}
                      /\ \A d \in Clients :
                           /\ b \in work'[d].todo => Table(b)' \in {{}, RowsOf(b, Option[d])}
                           /\ Mine(d, b)' # {} => Mine(d, b)' = RowsOf(b, Option[d]) /\ Table(b)' = {}
                           /\ \A e \in Clients : Chunks(d, b)' /\ Chunks(e, b)' => Option[d] = Option[e]
    BY DEF WholeOrNone
  <2>1. b \in found => Table(b) = {}
    BY DEF Chunked, Table
  <2>2. ASSUME NEW d \in Clients, d # c, b \in found, Chunks(d, b)
        PROVE  Option[d] = Option[c]
    <3>1. Chunking(d, b) \/ \E r \in work[d].rows : r.blob = b
      <4>1. b \in work[d].todo => work[d].status = "insert"
        BY DEF Inv, ChunkInv, StepOK
      <4>. QED
        BY <2>2, <4>1 DEF Chunks, Mine, Chunking, Busy
    <3>. QED
      BY <2>2, <3>1 DEF RacedBy
  <2>3. WholeOrNone
    BY DEF Inv, ChunkInv
  <2>4. ASSUME NEW d \in Clients, NEW e \in Clients, Chunks(d, b)', Chunks(e, b)'
        PROVE  Option[d] = Option[e]
    <3>1. d = c => b \in found
      BY <1>1, <2>4
    <3>2. e = c => b \in found
      BY <1>1, <2>4
    <3>3. d # c => Chunks(d, b)
      BY <1>2, <2>4
    <3>4. e # c => Chunks(e, b)
      BY <1>2, <2>4
    <3>. QED
      BY <2>2, <2>3, <3>1, <3>2, <3>3, <3>4 DEF WholeOrNone
  <2>5. Table(b)' = Table(b)
    BY <1>1
  <2>6. ASSUME NEW d \in Clients
        PROVE  /\ b \in work'[d].todo => Table(b)' \in {{}, RowsOf(b, Option[d])}
               /\ Mine(d, b)' # {} => Mine(d, b)' = RowsOf(b, Option[d]) /\ Table(b)' = {}
    <3>1. CASE d = c
      BY <1>1, <2>1, <2>5, <3>1
    <3>2. CASE d # c
      <4>1. Mine(d, b)' = Mine(d, b) /\ work'[d] = work[d]
        BY <1>2, <3>2
      <4>. QED
        BY <2>3, <2>5, <4>1 DEF WholeOrNone
    <3>. QED
      BY <3>1, <3>2
  <2>. QED
    BY <2>3, <2>4, <2>5, <2>6 DEF WholeOrNone
<1>6. TableStored'
  BY DEF Inv, ChunkInv, TableStored
<1>. QED
  BY <1>3, <1>4, <1>5, <1>6 DEF ChunkInv

\* insertChunkRows adds all rows of a chunking, or none.
LEMMA Inserts ==
  ASSUME Inv, NEW c \in Clients, NEW b \in Blobs, Insert(c, b),
         b \in stored \cup work[c].adds
  PROVE  ChunkInv'
<1>1. \A d \in Clients : work[d] \in Work
  BY DEF Inv, TypeOK
<1>2. /\ work'[c] = AfterInsert(c, b)
      /\ \A d \in Clients : d # c => work'[d] = work[d]
      /\ UNCHANGED <<stored, rows, raced>>
  BY DEF Insert, Inv, TypeOK
<1>3. /\ work'[c].todo = work[c].todo \ {b}
      /\ work'[c].rows = work[c].rows \cup Added(c, b)
      /\ work'[c].status = IF work[c].todo = {b} THEN "written" ELSE "insert"
      /\ work'[c].adds = work[c].adds
  BY <1>1, <1>2 DEF AfterInsert, Work
<1>4. /\ work[c].status = "insert" /\ b \in work[c].todo
      /\ \A d \in Clients : Mine(d, b) = {}
  BY DEF Insert, Busy, Mine, Inv, ChunkInv, StepOK
<1>5. \A r \in Added(c, b) : r.blob = b
  BY ChunkingRows DEF Added
<1>6. \A x \in Blobs : /\ Table(x)' = Table(x)
                       /\ x # b => Mine(c, x)' = Mine(c, x) /\ (Chunks(c, x)' <=> Chunks(c, x))
                       /\ Chunks(c, x)' => Chunks(c, x)
  BY <1>2, <1>3, <1>4, <1>5 DEF Table, Mine, Chunks
<1>7. Mine(c, b)' = Added(c, b)
  BY <1>3, <1>4, <1>5 DEF Mine
<1>8. \A d \in Clients, x \in Blobs :
        d # c => Mine(d, x)' = Mine(d, x) /\ (Chunks(d, x)' <=> Chunks(d, x))
  BY <1>2 DEF Mine, Chunks
<1>9. StepOK'
  <2> SUFFICES ASSUME NEW d \in Clients
               PROVE  /\ work'[d].status = "probe" => work'[d].blob \in Blobs
                      /\ work'[d].status # "insert" => work'[d].todo = {}
                      /\ work'[d].status \in {"idle", "probe"} => work'[d].rows = {}
                      /\ work'[d].status = "idle" => work'[d].adds = {}
                      /\ \A r \in work'[d].rows : r.blob \in stored' \cup work'[d].adds
                      /\ \A x \in work'[d].todo : Mine(d, x)' = {}
    BY DEF StepOK
  <2>1. CASE d = c
    <3>1. \A r \in work'[c].rows : r.blob \in stored' \cup work'[c].adds
      BY <1>2, <1>3, <1>5 DEF Inv, ChunkInv, StepOK
    <3>2. \A x \in work'[c].todo : Mine(c, x)' = {}
      <4>1. \A x \in work'[c].todo : x \in Blobs /\ x # b /\ x \in work[c].todo
        BY <1>1, <1>3 DEF Work
      <4>. QED
        BY <1>6, <4>1 DEF Inv, ChunkInv, StepOK
    <3>. QED
      BY <1>3, <1>4, <2>1, <3>1, <3>2
  <2>2. CASE d # c
    BY <1>2, <2>2 DEF Inv, ChunkInv, StepOK, Mine
  <2>. QED
    BY <2>1, <2>2
<1>10. OneInserts'
  <2> SUFFICES ASSUME NEW d \in Clients, NEW e \in Clients, NEW x \in Blobs, d # e, Mine(d, x)' # {}
               PROVE  Mine(e, x)' = {}
    BY DEF OneInserts
  <2>1. CASE x = b
    BY <1>4, <1>8, <2>1
  <2>2. CASE x # b
    <3>1. Mine(d, x)' = Mine(d, x) /\ Mine(e, x)' = Mine(e, x)
      BY <1>6, <1>8, <2>2
    <3>. QED
      BY <3>1 DEF Inv, ChunkInv, OneInserts
  <2>. QED
    BY <2>1, <2>2
<1>11. WholeOrNone'
  <2> SUFFICES ASSUME NEW x \in Blobs, x \notin raced
               PROVE  /\ Table(x)' \in {{}} \cup {RowsOf(x, Option[d]) : d \in Clients}
                      /\ \A d \in Clients :
                           /\ x \in work'[d].todo => Table(x)' \in {{}, RowsOf(x, Option[d])}
                           /\ Mine(d, x)' # {} => Mine(d, x)' = RowsOf(x, Option[d]) /\ Table(x)' = {}
                           /\ \A e \in Clients : Chunks(d, x)' /\ Chunks(e, x)' => Option[d] = Option[e]
    BY <1>2 DEF WholeOrNone
  <2>1. WholeOrNone /\ Table(x)' = Table(x)
    BY <1>6 DEF Inv, ChunkInv
  <2>2. \A d \in Clients : Chunks(d, x)' => Chunks(d, x)
    BY <1>6, <1>8
  <2>3. \A d \in Clients : x \in work'[d].todo => x \in work[d].todo
    BY <1>2, <1>3
  <2>4. ASSUME NEW d \in Clients, Mine(d, x)' # {}
        PROVE  Mine(d, x)' = RowsOf(x, Option[d]) /\ Table(x) = {}
    <3>1. CASE d = c /\ x = b
      <4>1. Table(b) \in {{}, RowsOf(b, Option[c])}
        BY <1>4, <2>1, <3>1 DEF WholeOrNone
      <4>2. Table(b) = RowsOf(b, Option[c]) => Added(c, b) = {}
        BY DEF Table, Added
      <4>3. Table(b) = {} => Added(c, b) = RowsOf(b, Option[c])
        BY DEF Table, Added
      <4>. QED
        BY <1>7, <2>4, <3>1, <4>1, <4>2, <4>3
    <3>2. CASE ~(d = c /\ x = b)
      <4>1. Mine(d, x)' = Mine(d, x)
        BY <1>6, <1>8, <3>2
      <4>. QED
        BY <2>1, <2>4, <4>1 DEF WholeOrNone
    <3>. QED
      BY <3>1, <3>2
  <2>. QED
    BY <2>1, <2>2, <2>3, <2>4 DEF WholeOrNone
<1>12. TableStored'
  BY <1>2 DEF Inv, ChunkInv, TableStored
<1>. QED
  BY <1>9, <1>10, <1>11, <1>12 DEF ChunkInv

\* A commit brings rows into a table that has none of their blob.
LEMMA Commits ==
  ASSUME Inv, NEW c \in Clients, CommitWork(c)
  PROVE  ChunkInv'
<1>1. /\ work'[c] = Idle
      /\ \A d \in Clients : d # c => work'[d] = work[d]
      /\ stored' = stored \cup work[c].adds /\ rows' = rows \cup work[c].rows /\ raced' = raced
  BY DEF CommitWork, Inv, TypeOK
<1>2. work'[c].status = "idle" /\ work'[c].todo = {} /\ work'[c].adds = {} /\ work'[c].rows = {}
  <2>1. Idle.status = "idle" /\ Idle.todo = {} /\ Idle.adds = {} /\ Idle.rows = {}
    BY DEF Idle
  <2>. QED
    BY <1>1, <2>1
<1>3. \A b \in Blobs : /\ Table(b)' = Table(b) \cup Mine(c, b)
                       /\ Mine(c, b)' = {} /\ ~Chunks(c, b)'
  BY <1>1, <1>2 DEF Table, Mine, Chunks
<1>4. \A d \in Clients, b \in Blobs :
        d # c => Mine(d, b)' = Mine(d, b) /\ (Chunks(d, b)' <=> Chunks(d, b))
  BY <1>1 DEF Mine, Chunks
<1>5. StepOK'
  <2> SUFFICES ASSUME NEW d \in Clients
               PROVE  /\ work'[d].status = "probe" => work'[d].blob \in Blobs
                      /\ work'[d].status # "insert" => work'[d].todo = {}
                      /\ work'[d].status \in {"idle", "probe"} => work'[d].rows = {}
                      /\ work'[d].status = "idle" => work'[d].adds = {}
                      /\ \A r \in work'[d].rows : r.blob \in stored' \cup work'[d].adds
                      /\ \A b \in work'[d].todo : Mine(d, b)' = {}
    BY DEF StepOK
  <2>1. CASE d = c
    BY <1>2, <2>1
  <2>2. CASE d # c
    BY <1>1, <2>2 DEF Inv, ChunkInv, StepOK, Mine
  <2>. QED
    BY <2>1, <2>2
<1>6. OneInserts'
  BY <1>3, <1>4 DEF Inv, ChunkInv, OneInserts
<1>7. WholeOrNone'
  <2> SUFFICES ASSUME NEW b \in Blobs, b \notin raced
               PROVE  /\ Table(b)' \in {{}} \cup {RowsOf(b, Option[d]) : d \in Clients}
                      /\ \A d \in Clients :
                           /\ b \in work'[d].todo => Table(b)' \in {{}, RowsOf(b, Option[d])}
                           /\ Mine(d, b)' # {} => Mine(d, b)' = RowsOf(b, Option[d]) /\ Table(b)' = {}
                           /\ \A e \in Clients : Chunks(d, b)' /\ Chunks(e, b)' => Option[d] = Option[e]
    BY <1>1 DEF WholeOrNone
  <2>1. WholeOrNone /\ OneInserts
    BY DEF Inv, ChunkInv
  <2>2. Table(b)' = IF Mine(c, b) = {} THEN Table(b) ELSE RowsOf(b, Option[c])
    BY <1>3, <2>1 DEF WholeOrNone
  <2>3. Table(b)' \in {{}} \cup {RowsOf(b, Option[d]) : d \in Clients}
    BY <2>1, <2>2 DEF WholeOrNone
  <2>4. ASSUME NEW d \in Clients, b \in work'[d].todo
        PROVE  Table(b)' \in {{}, RowsOf(b, Option[d])}
    <3>1. d # c /\ b \in work[d].todo
      BY <1>1, <1>2, <2>4
    <3>2. Mine(c, b) # {} => Option[d] = Option[c]
      BY <2>1, <3>1 DEF WholeOrNone, Chunks
    <3>. QED
      BY <2>1, <2>2, <3>1, <3>2 DEF WholeOrNone
  <2>5. ASSUME NEW d \in Clients, Mine(d, b)' # {}
        PROVE  Mine(d, b)' = RowsOf(b, Option[d]) /\ Table(b)' = {}
    <3>1. d # c /\ Mine(d, b)' = Mine(d, b)
      BY <1>3, <1>4, <2>5
    <3>2. Mine(c, b) = {}
      BY <2>1, <2>5, <3>1 DEF OneInserts
    <3>. QED
      BY <2>1, <2>2, <2>5, <3>1, <3>2 DEF WholeOrNone
  <2>6. \A d \in Clients : Chunks(d, b)' => Chunks(d, b)
    BY <1>3, <1>4
  <2>. QED
    BY <2>1, <2>3, <2>4, <2>5, <2>6 DEF WholeOrNone
<1>8. TableStored'
  BY <1>1 DEF Inv, ChunkInv, TableStored, StepOK
<1>. QED
  BY <1>5, <1>6, <1>7, <1>8 DEF ChunkInv

\* What is collected is nobody's, and goes with all its rows.
LEMMA Collects ==
  ASSUME Inv, NEW b \in Blobs, Collect(b)
  PROVE  ChunkInv'
<1>1. /\ work' = work /\ raced' = raced /\ stored' = stored \ {b}
      /\ rows' = {r \in rows : r.blob # b}
      /\ \A c \in Clients : b \notin work[c].adds /\ \A r \in work[c].rows : r.blob # b
  BY DEF Collect, Keeps
<1>2. \A x \in Blobs : Table(x)' = IF x = b THEN {} ELSE Table(x)
  BY <1>1 DEF Table
<1>3. \A c \in Clients, x \in Blobs : Mine(c, x)' = Mine(c, x) /\ (Chunks(c, x)' <=> Chunks(c, x))
  BY <1>1 DEF Mine, Chunks
<1>4. StepOK'
  BY <1>1 DEF Inv, ChunkInv, StepOK, Mine
<1>5. OneInserts'
  BY <1>3 DEF Inv, ChunkInv, OneInserts
<1>6. WholeOrNone'
  <2> SUFFICES ASSUME NEW x \in Blobs, x \notin raced
               PROVE  /\ Table(x)' \in {{}} \cup {RowsOf(x, Option[d]) : d \in Clients}
                      /\ \A d \in Clients :
                           /\ x \in work'[d].todo => Table(x)' \in {{}, RowsOf(x, Option[d])}
                           /\ Mine(d, x)' # {} => Mine(d, x)' = RowsOf(x, Option[d]) /\ Table(x)' = {}
                           /\ \A e \in Clients : Chunks(d, x)' /\ Chunks(e, x)' => Option[d] = Option[e]
    BY <1>1 DEF WholeOrNone
  <2>1. WholeOrNone
    BY DEF Inv, ChunkInv
  <2>2. Table(x)' = {} \/ Table(x)' = Table(x)
    BY <1>2
  <2>. QED
    BY <1>1, <1>3, <2>1, <2>2 DEF WholeOrNone
<1>7. TableStored'
  BY <1>1 DEF Inv, ChunkInv, TableStored
<1>. QED
  BY <1>4, <1>5, <1>6, <1>7 DEF ChunkInv

LEMMA NextChunks == Inv /\ TypeOK' /\ [IndexNext]_indexVars => ChunkInv'
<1> SUFFICES ASSUME Inv, TypeOK', [IndexNext]_indexVars PROVE ChunkInv'
  OBVIOUS
<1>0. /\ work \in [Clients -> Work] /\ work' \in [Clients -> Work]
      /\ Idle.status = "idle" /\ Idle.todo = {} /\ Idle.adds = {} /\ Idle.rows = {}
  <2>1. Idle.status = "idle" /\ Idle.todo = {} /\ Idle.adds = {} /\ Idle.rows = {}
    BY DEF Idle
  <2>. QED
    BY <2>1 DEF Inv, TypeOK
<1>1. ASSUME NEW c \in Clients, NEW b \in Blobs, WriteContent(c, b) PROVE ChunkInv'
  <2> DEFINE w == [Idle EXCEPT !.status = "probe", !.blob = b, !.adds = {b}]
  <2>1. w.status = "probe" /\ w.blob = b /\ w.todo = {} /\ w.rows = {}
    BY DEF Idle
  <2>2. work' = [work EXCEPT ![c] = w] /\ UNCHANGED <<stored, rows, raced>>
    BY <1>1 DEF WriteContent
  <2> HIDE DEF w
  <2>3. work'[c] = w /\ \A d \in Clients : d # c => work'[d] = work[d]
    BY <1>0, <2>2
  <2>. QED
    BY <1>0, <2>1, <2>2, <2>3, Drops
<1>2. ASSUME NEW c \in Clients, NEW b \in Blobs, Rm(c, b) PROVE ChunkInv'
  <2> DEFINE w == [Idle EXCEPT !.status = "written", !.removes = {b}]
  <2>1. w.status = "written" /\ w.todo = {} /\ w.rows = {}
    BY DEF Idle
  <2>2. work' = [work EXCEPT ![c] = w] /\ UNCHANGED <<stored, rows, raced>>
    BY <1>2 DEF Rm
  <2> HIDE DEF w
  <2>3. work'[c] = w /\ \A d \in Clients : d # c => work'[d] = work[d]
    BY <1>0, <2>2
  <2>. QED
    BY <1>0, <2>1, <2>2, <2>3, Drops
<1>3. ASSUME NEW c \in Clients, Probe(c) PROVE ChunkInv'
  <2> DEFINE found == Unchunked({work[c].blob})
  <2>1. work[c].status = "probe" /\ work[c].blob \in Blobs /\ work[c].rows = {}
    BY <1>3 DEF Probe, Busy, Inv, ChunkInv, StepOK
  <2>2. found \subseteq Blobs /\ \A b \in found : ~Chunked(b)
    BY <2>1 DEF Unchunked
  <2>3. /\ work' = [work EXCEPT ![c].status = IF found = {} THEN "written" ELSE "insert", ![c].todo = found]
        /\ UNCHANGED <<stored, rows>> /\ raced' = raced \cup RacedBy(c, found)
    BY <1>3 DEF Probe
  <2> HIDE DEF found
  <2>4. /\ work'[c].status = IF found = {} THEN "written" ELSE "insert"
        /\ work'[c].todo = found /\ work'[c].rows = {}
        /\ \A d \in Clients : d # c => work'[d] = work[d]
    BY <1>0, <2>1, <2>3 DEF Work
  <2>. QED
    BY <1>0, <2>1, <2>2, <2>3, <2>4, Finds
<1>4. ASSUME NEW c \in Clients, Backfill(c) PROVE ChunkInv'
  <2> DEFINE found == Unchunked(shown[c])
             w == [Idle EXCEPT !.status = IF found = {} THEN "written" ELSE "insert", !.todo = found]
  <2>1. work[c].status = "idle" /\ work[c].rows = {}
    BY <1>4 DEF Backfill, Busy, Inv, ChunkInv, StepOK
  <2>2. found \subseteq Blobs /\ \A b \in found : ~Chunked(b)
    BY DEF Unchunked, Inv, TypeOK
  <2>3. work' = [work EXCEPT ![c] = w] /\ UNCHANGED <<stored, rows>> /\ raced' = raced \cup RacedBy(c, found)
    BY <1>4 DEF Backfill
  <2> HIDE DEF found
  <2>4. w.status = (IF found = {} THEN "written" ELSE "insert") /\ w.todo = found /\ w.rows = {}
    BY DEF Idle
  <2> HIDE DEF w
  <2>5. work'[c] = w /\ \A d \in Clients : d # c => work'[d] = work[d]
    BY <1>0, <2>3
  <2>. QED
    BY <1>0, <2>1, <2>2, <2>3, <2>4, <2>5, Finds
<1>5. ASSUME NEW c \in Clients, NEW b \in Blobs, Insert(c, b) PROVE ChunkInv'
  <2>1. CASE b \in stored \cup work[c].adds
    BY <1>5, <2>1, Inserts
  <2>2. CASE ~(b \in stored \cup work[c].adds)
    <3>1. work' = [work EXCEPT ![c] = Idle] /\ UNCHANGED <<stored, rows, raced>>
      BY <1>5, <2>2 DEF Insert
    <3>2. work'[c] = Idle /\ \A d \in Clients : d # c => work'[d] = work[d]
      BY <1>0, <3>1
    <3>. QED
      BY <1>0, <3>1, <3>2, Drops
  <2>. QED
    BY <2>1, <2>2
<1>6. ASSUME NEW c \in Clients, CommitWork(c) PROVE ChunkInv'
  BY <1>6, Commits
<1>7. ASSUME NEW c \in Clients, RollbackWork(c) PROVE ChunkInv'
  <2>1. work' = [work EXCEPT ![c] = Idle] /\ UNCHANGED <<stored, rows, raced>>
    BY <1>7 DEF RollbackWork
  <2>2. work'[c] = Idle /\ \A d \in Clients : d # c => work'[d] = work[d]
    BY <1>0, <2>1
  <2>. QED
    BY <1>0, <2>1, <2>2, Drops
<1>8. ASSUME NEW b \in Blobs, Collect(b) PROVE ChunkInv'
  BY <1>8, Collects
<1>9. ASSUME NEW c \in Clients,
             \/ ReadTotal(c) \/ ReadMisses(c) \/ StoreBatch(c) \/ EmbedFails(c) \/ Done(c) \/ Forget(c)
      PROVE  ChunkInv'
  <2>1. UNCHANGED <<stored, rows, work, raced>>
    BY <1>9 DEF ReadTotal, ReadMisses, StoreBatch, EmbedFails, Done, Forget
  <2>. QED
    BY <2>1, SameChunks DEF Inv
<1>10. ASSUME UNCHANGED indexVars PROVE ChunkInv'
  BY <1>10, SameChunks DEF indexVars, Inv
<1>. QED
  BY <1>1, <1>2, <1>3, <1>4, <1>5, <1>6, <1>7, <1>8, <1>9, <1>10 DEF IndexNext

-----------------------------------------------------------------------------
(* The passes.                                                             *)

\* A step that brings no text into a view and takes none out of the cache.
LEMMA SamePass ==
  ASSUME Inv, NEW c \in Clients, pass'[c] = pass[c],
         Seen(c)' \subseteq Seen(c), cache \subseteq cache'
  PROVE  /\ pass[c].status = "counted" /\ ~pass[c].moved => Cardinality(Seen(c)') <= pass[c].total
         /\ pass[c].status = "calling" =>
              Seen(c)' \subseteq cache' \cup pass[c].since \cup Range(pass[c].misses)
         /\ pass[c].status = "calling" /\ ~pass[c].moved => Len(pass[c].misses) <= pass[c].total
         /\ pass[c].status = "done" => Seen(c)' \subseteq cache' \cup pass[c].since
<1>1. IsFiniteSet(Seen(c))
  BY TextsFinite DEF Inv, TypeOK, Seen
<1>2. Cardinality(Seen(c)') <= Cardinality(Seen(c)) /\ Cardinality(Seen(c)') \in Nat
      /\ Cardinality(Seen(c)) \in Nat
  BY <1>1, SmallerSeen, FS_CardinalityType
<1>3. pass[c].total \in Nat
  BY DEF Inv, TypeOK, Pass
<1>. QED
  BY <1>2, <1>3 DEF Inv, PassOK

LEMMA NextPass == Inv /\ TypeOK' /\ [IndexNext]_indexVars => PassOK'
<1> SUFFICES ASSUME Inv, TypeOK', [IndexNext]_indexVars, NEW c \in Clients
             PROVE  /\ pass'[c].status = "counted" /\ ~pass'[c].moved =>
                         Cardinality(Seen(c)') <= pass'[c].total
                    /\ pass'[c].status = "calling" =>
                         Seen(c)' \subseteq cache' \cup pass'[c].since \cup Range(pass'[c].misses)
                    /\ pass'[c].status = "calling" /\ ~pass'[c].moved =>
                         Len(pass'[c].misses) <= pass'[c].total
                    /\ pass'[c].status = "done" => Seen(c)' \subseteq cache' \cup pass'[c].since
  BY DEF PassOK
<1>0. /\ pass[c] \in Pass /\ pass \in [Clients -> Pass]
      /\ IsFiniteSet(Seen(c)) /\ Seen(c) \subseteq Texts /\ Cardinality(Seen(c)) \in Nat
  BY TextsFinite, FS_CardinalityType DEF Inv, TypeOK, Seen
<1>1. ASSUME UNCHANGED <<shown, rows, cache, pass>>
      PROVE  pass'[c] = pass[c] /\ Seen(c)' \subseteq Seen(c) /\ cache \subseteq cache'
  BY <1>1 DEF Seen
<1>2. ASSUME NEW d \in Clients,
             \/ \E b \in Blobs : WriteContent(d, b) \/ Rm(d, b) \/ Insert(d, b)
             \/ Probe(d) \/ Backfill(d) \/ RollbackWork(d)
      PROVE  pass'[c] = pass[c] /\ Seen(c)' \subseteq Seen(c) /\ cache \subseteq cache'
  BY <1>1, <1>2 DEF WriteContent, Rm, Insert, Probe, Backfill, RollbackWork
<1>3. ASSUME NEW b \in Blobs, Collect(b)
      PROVE  pass'[c] = pass[c] /\ Seen(c)' \subseteq Seen(c) /\ cache \subseteq cache'
  BY <1>3 DEF Collect, Seen, VisibleTexts
<1>4. ASSUME NEW d \in Clients, d # c,
             \/ ReadTotal(d) \/ ReadMisses(d) \/ StoreBatch(d) \/ EmbedFails(d) \/ Done(d) \/ Forget(d)
      PROVE  pass'[c] = pass[c] /\ Seen(c)' \subseteq Seen(c) /\ cache \subseteq cache'
  BY <1>0, <1>4 DEF ReadTotal, ReadMisses, StoreBatch, EmbedFails, Done, Forget, Seen
<1>5. CASE pass'[c] = pass[c] /\ Seen(c)' \subseteq Seen(c) /\ cache \subseteq cache'
  BY <1>5, SamePass
<1>6. ASSUME NEW d \in Clients, CommitWork(d)
      PROVE  /\ pass'[c].status = "counted" /\ ~pass'[c].moved =>
                  Cardinality(Seen(c)') <= pass'[c].total
             /\ pass'[c].status = "calling" =>
                  Seen(c)' \subseteq cache' \cup pass'[c].since \cup Range(pass'[c].misses)
             /\ pass'[c].status = "calling" /\ ~pass'[c].moved =>
                  Len(pass'[c].misses) <= pass'[c].total
             /\ pass'[c].status = "done" => Seen(c)' \subseteq cache' \cup pass'[c].since
  <2> DEFINE new == Seen(c)' \ Seen(c)
  <2>1. pass'[c] = [pass[c] EXCEPT !.since = pass[c].since \cup new,
                                   !.moved = pass[c].moved \/ new # {}]
    BY <1>6 DEF CommitWork, Noticed, Seen
  <2> HIDE DEF new
  <2>2. /\ pass'[c].status = pass[c].status /\ pass'[c].total = pass[c].total
        /\ pass'[c].misses = pass[c].misses /\ pass'[c].since = pass[c].since \cup new
        /\ pass'[c].moved = (pass[c].moved \/ new # {})
    BY <1>0, <2>1 DEF Pass
  <2>3. cache' = cache /\ Seen(c)' \subseteq Seen(c) \cup new
    BY <1>6 DEF CommitWork, new
  <2>4. new = {} => Seen(c)' \subseteq Seen(c)
    BY DEF new
  <2>5. new = {} => Cardinality(Seen(c)') \in Nat /\ Cardinality(Seen(c)') <= Cardinality(Seen(c))
    BY <1>0, <2>4, SmallerSeen
  <2>6. pass[c].total \in Nat
    BY <1>0 DEF Pass
  <2>. QED
    <3>1. ~pass'[c].moved => ~pass[c].moved /\ new = {}
      BY <2>2, Zenon
    <3>2. pass'[c].status = "counted" /\ ~pass'[c].moved => Cardinality(Seen(c)') <= pass'[c].total
      <4>1. pass[c].status = "counted" /\ ~pass[c].moved => Cardinality(Seen(c)) <= pass[c].total
        BY DEF Inv, PassOK
      <4>. QED
        BY <1>0, <2>2, <2>5, <2>6, <3>1, <4>1
    <3>3. pass'[c].status = "calling" /\ ~pass'[c].moved => Len(pass'[c].misses) <= pass'[c].total
      BY <2>2, <3>1 DEF Inv, PassOK
    <3>4. pass'[c].status = "calling" =>
            Seen(c)' \subseteq cache' \cup pass'[c].since \cup Range(pass'[c].misses)
      BY <2>2, <2>3 DEF Inv, PassOK
    <3>5. pass'[c].status = "done" => Seen(c)' \subseteq cache' \cup pass'[c].since
      BY <2>2, <2>3 DEF Inv, PassOK
    <3>. QED
      BY <3>2, <3>3, <3>4, <3>5
<1>7. CASE ReadTotal(c)
  <2>1. pass'[c].status = "counted" /\ pass'[c].total = Cardinality(Seen(c)) /\ Seen(c)' = Seen(c)
    BY <1>0, <1>7 DEF ReadTotal, NoPass, Seen
  <2>. QED
    BY <1>0, <2>1
<1>8. CASE ReadMisses(c)
  <2> DEFINE m == SetToSeq(Seen(c) \ cache)
  <2>1. /\ pass[c].status = "counted"
        /\ pass' = [pass EXCEPT ![c] = [pass[c] EXCEPT !.status = "calling", !.misses = m, !.since = {}]]
        /\ Seen(c)' = Seen(c) /\ cache' = cache
    BY <1>8 DEF ReadMisses, Seen
  <2>2. IsFiniteSet(Seen(c) \ cache) /\ Cardinality(Seen(c) \ cache) \in Nat
        /\ Cardinality(Seen(c) \ cache) <= Cardinality(Seen(c))
    BY <1>0, SmallerSeen
  <2>3. Len(m) = Cardinality(Seen(c) \ cache) /\ Range(m) = Seen(c) \ cache
    BY <2>2, SetAsSeq
  <2> HIDE DEF m
  <2>4. /\ pass'[c].status = "calling" /\ pass'[c].misses = m /\ pass'[c].since = {}
        /\ pass'[c].total = pass[c].total /\ pass'[c].moved = pass[c].moved /\ pass[c].total \in Nat
    BY <1>0, <2>1 DEF Pass
  <2>5. ~pass[c].moved => Cardinality(Seen(c)) <= pass[c].total
    BY <2>1 DEF Inv, PassOK
  <2>6. ~pass[c].moved => Len(m) <= pass[c].total
    BY <1>0, <2>2, <2>3, <2>4, <2>5
  <2>7. Seen(c) \subseteq cache \cup Range(m)
    BY <2>3
  <2>. QED
    BY <2>1, <2>4, <2>6, <2>7
<1>9. CASE StoreBatch(c)
  <2> DEFINE m == pass[c].misses
  <2>1. m \in Seq(Texts) /\ pass[c].total \in Nat /\ Len(m) \in Nat
    BY <1>0 DEF Pass
  <2>2. /\ Rest(m) \in Seq(Texts) /\ Len(Rest(m)) <= Len(m) /\ Len(Rest(m)) \in Nat
        /\ Range(m) \subseteq Range(Batch(m)) \cup Range(Rest(m))
    BY <2>1, Batches
  <2>3. /\ pass[c].status = "calling" /\ cache' = cache \cup Range(Batch(m)) /\ Seen(c)' = Seen(c)
        /\ pass' = [pass EXCEPT ![c].misses = Rest(m)]
    BY <1>9 DEF StoreBatch, Seen
  <2> HIDE DEF m
  <2>4. /\ pass'[c].status = "calling" /\ pass'[c].misses = Rest(m) /\ pass'[c].since = pass[c].since
        /\ pass'[c].total = pass[c].total /\ pass'[c].moved = pass[c].moved
    BY <1>0, <2>3 DEF Pass
  <2>5. /\ Seen(c) \subseteq cache \cup pass[c].since \cup Range(m)
        /\ ~pass[c].moved => Len(m) <= pass[c].total
    BY <2>3 DEF Inv, PassOK, m
  <2>6. ~pass[c].moved => Len(Rest(m)) <= pass[c].total
    BY <2>1, <2>2, <2>5 DEF m
  <2>7. Seen(c) \subseteq cache' \cup pass[c].since \cup Range(Rest(m))
    BY <2>2, <2>3, <2>5
  <2>. QED
    BY <2>3, <2>4, <2>6, <2>7
<1>10. CASE EmbedFails(c) \/ Forget(c)
  <2>1. pass'[c].status = "idle"
    BY <1>0, <1>10 DEF EmbedFails, Forget, NoPass
  <2>. QED
    BY <2>1
<1>11. CASE Done(c)
  <2>1. /\ pass[c].status = "calling" /\ pass[c].misses = <<>> /\ Seen(c)' = Seen(c) /\ cache' = cache
        /\ pass' = [pass EXCEPT ![c].status = "done"]
    BY <1>11 DEF Done, Seen
  <2>2. pass'[c].status = "done" /\ pass'[c].since = pass[c].since
    BY <1>0, <2>1 DEF Pass
  <2>3. Range(pass[c].misses) = {}
    BY <2>1 DEF Range
  <2>. QED
    BY <2>1, <2>2, <2>3 DEF Inv, PassOK
<1>12. ASSUME UNCHANGED indexVars
       PROVE  pass'[c] = pass[c] /\ Seen(c)' \subseteq Seen(c) /\ cache \subseteq cache'
  BY <1>1, <1>12 DEF indexVars
<1>. QED
  BY <1>2, <1>3, <1>4, <1>5, <1>6, <1>7, <1>8, <1>9, <1>10, <1>11, <1>12 DEF IndexNext

-----------------------------------------------------------------------------
LEMMA NextInv == Inv /\ [IndexNext]_indexVars => Inv'
BY NextType, NextChunks, NextPass DEF Inv

LEMMA Invariant == IndexSpec => []Inv
<1>1. Inv /\ [IndexNext]_indexVars => Inv'
  BY NextInv
<1>. QED
  BY InitInv, <1>1, PTL DEF IndexSpec

\* The rows of a blob are one chunking of it unless two options raced for it,
\* and a pass that ended well has embedded what its instance saw.
THEOREM IndexAlwaysKeepsUp == IndexSpec => []IndexKeepsUp
<1>1. Inv => IndexKeepsUp
  <2> SUFFICES ASSUME Inv PROVE RowsAreWhole /\ PassesCover
    BY DEF IndexKeepsUp
  <2>1. RowsAreWhole
    BY DEF RowsAreWhole, Inv, ChunkInv, TableStored, WholeOrNone, Table, TypeOK
  <2>2. PassesCover
    <3>1. \A c \in Clients : Len(pass[c].misses) \in Nat /\ pass[c].total \in Nat /\ pass[c].moved \in BOOLEAN
      BY DEF Inv, TypeOK, Pass
    <3>. QED
      BY <3>1 DEF PassesCover, Inv, PassOK
  <2>. QED
    BY <2>1, <2>2
<1>. QED
  BY Invariant, <1>1, PTL

-----------------------------------------------------------------------------
\* Quota: sums over finite sets

\* A nonempty set of finite sets has a member of which no other member is a part.
LEMMA MinimalMember ==
  ASSUME NEW B, B # {}, \A s \in B : IsFiniteSet(s)
  PROVE  \E m \in B : \A y \in B : y \subseteq m => y = m
<1> DEFINE U == UNION B
           R == StrictSubsetOrdering(U)
<1>1. IsWellFoundedOn(R, FiniteSubsetsOf(U))
  BY FS_StrictSubsetOrderingWellFounded
<1>2. B \subseteq FiniteSubsetsOf(U)
  BY DEF FiniteSubsetsOf
<1>3. \E m \in B : \A y \in B : ~ (<<y, m>> \in R)
  <2> HIDE DEF R
  <2> QED BY <1>1, <1>2, WFMin
<1> QED BY <1>3 DEF StrictSubsetOrdering

\* The recursion that Bytes is, on the parts of a set.
OneOf(s) == CHOOSE h \in s : TRUE
Sums(g, T) ==
  g = [s \in SUBSET T |-> IF s = {} THEN 0 ELSE Size[OneOf(s)] + g[s \ {OneOf(s)}]]

LEMMA BytesIsSum == \A T : Bytes(T) = (CHOOSE g : Sums(g, T))[T]
BY DEF Bytes, MapThenSumSet, MapThenFoldSet, Sums, OneOf

LEMMA SumsAt ==
  ASSUME NEW g, NEW T, Sums(g, T), NEW s \in SUBSET T
  PROVE  g[s] = IF s = {} THEN 0 ELSE Size[OneOf(s)] + g[s \ {OneOf(s)}]
BY DEF Sums

LEMMA OneOfIsMember == ASSUME NEW s, s # {} PROVE OneOf(s) \in s
BY DEF OneOf

\* Two such functions agree where both are defined.
LEMMA SumsAgree ==
  ASSUME NEW S, NEW T, IsFiniteSet(S), NEW f, NEW g, Sums(f, S), Sums(g, T),
         NEW s \in SUBSET S, s \subseteq T
  PROVE  f[s] = g[s]
<1> DEFINE B == {u \in SUBSET (S \cap T) : f[u] # g[u]}
<1> SUFFICES ASSUME B # {} PROVE FALSE
  OBVIOUS
<1>1. \A u \in B : IsFiniteSet(u)
  BY FS_Subset
<1>2. PICK m \in B : \A y \in B : y \subseteq m => y = m
  <2> HIDE DEF B
  <2> QED BY <1>1, MinimalMember
<1> DEFINE x == OneOf(m)
           u == m \ {x}
<1>3. m \in SUBSET S /\ m \in SUBSET T /\ f[m] # g[m]
  OBVIOUS
<1>4. /\ f[m] = IF m = {} THEN 0 ELSE Size[x] + f[u]
      /\ g[m] = IF m = {} THEN 0 ELSE Size[x] + g[u]
  BY <1>3, SumsAt
<1>5. m # {}
  BY <1>3, <1>4
<1>6. x \in m
  BY <1>5, OneOfIsMember
<1>7. u \subseteq m /\ u # m /\ u \in SUBSET (S \cap T)
  BY <1>3, <1>6
<1>8. u \notin B
  BY <1>2, <1>7
<1>9. f[u] = g[u]
  BY <1>7, <1>8
<1> QED
  <2> HIDE DEF B, x, u
  <2> QED BY <1>3, <1>4, <1>9

LEMMA SumsExist == ASSUME NEW T, IsFiniteSet(T) PROVE \E g : Sums(g, T)
<1> DEFINE B == {u \in SUBSET T : ~ \E g : Sums(g, u)}
<1> SUFFICES ASSUME B # {} PROVE FALSE
  OBVIOUS
<1>1. \A u \in B : IsFiniteSet(u)
  BY FS_Subset
<1>2. PICK m \in B : \A y \in B : y \subseteq m => y = m
  <2> HIDE DEF B
  <2> QED BY <1>1, MinimalMember
<1>3. m \in SUBSET T /\ ~ \E g : Sums(g, m)
  OBVIOUS
<1> DEFINE Of(u) == CHOOSE g : Sums(g, u)
           Less(s) == s \ {OneOf(s)}
           f == [s \in SUBSET m |-> IF s = {} THEN 0 ELSE Size[OneOf(s)] + Of(Less(s))[Less(s)]]
<1>4. ASSUME NEW u \in SUBSET m, u # m PROVE Sums(Of(u), u)
  <2>1. u \in SUBSET T /\ u \notin B
    BY <1>2, <1>3, <1>4
  <2>2. \E g : Sums(g, u)
    BY <2>1
  <2> QED BY <2>2
<1>5. ASSUME NEW s \in SUBSET m, s # {}
      PROVE  Less(s) \in SUBSET m /\ Less(s) # m /\ IsFiniteSet(Less(s))
  <2>1. OneOf(s) \in s
    BY <1>5, OneOfIsMember
  <2>2. Less(s) \in SUBSET T
    BY <1>3
  <2> QED BY <2>1, <2>2, FS_Subset
<1>6. ASSUME NEW u \in SUBSET m, u # m, IsFiniteSet(u)
      PROVE  Of(u)[u] = f[u]
  <2>1. Sums(Of(u), u)
    BY <1>4, <1>6
  <2>2. Of(u)[u] = IF u = {} THEN 0 ELSE Size[OneOf(u)] + Of(u)[Less(u)]
    <3> HIDE DEF Of
    <3> QED BY <2>1, SumsAt
  <2>3. CASE u = {}
    <3> HIDE DEF Of, Less
    <3> QED BY <2>2, <2>3
  <2>4. CASE u # {}
    <3>1. Less(u) \in SUBSET m /\ Less(u) # m /\ IsFiniteSet(Less(u)) /\ Less(u) \in SUBSET u
      BY <1>5, <2>4
    <3>2. Sums(Of(Less(u)), Less(u))
      BY <1>4, <3>1
    <3>3. Of(u)[Less(u)] = Of(Less(u))[Less(u)]
      <4> HIDE DEF Of, Less
      <4> QED BY <2>1, <3>1, <3>2, <1>6, SumsAgree
    <3> HIDE DEF Of, Less
    <3> QED BY <2>2, <2>4, <3>3
  <2> QED BY <2>3, <2>4
<1>7. ASSUME NEW s \in SUBSET m
      PROVE  f[s] = IF s = {} THEN 0 ELSE Size[OneOf(s)] + f[Less(s)]
  <2>1. CASE s = {}
    <3> HIDE DEF Of, Less
    <3> QED BY <2>1
  <2>2. CASE s # {}
    <3>1. Of(Less(s))[Less(s)] = f[Less(s)]
      <4> HIDE DEF f, Of, Less
      <4> QED BY <1>5, <1>6, <2>2
    <3>2. f[s] = Size[OneOf(s)] + Of(Less(s))[Less(s)]
      <4> HIDE DEF Of, Less
      <4> QED BY <2>2
    <3> HIDE DEF f, Of, Less
    <3> QED BY <2>2, <3>1, <3>2
  <2> QED BY <2>1, <2>2
<1>8. f = [s \in SUBSET m |-> f[s]]
  <2> HIDE DEF Of, Less
  <2> QED OBVIOUS
<1>9. Sums(f, m)
  <2> HIDE DEF f
  <2>1. [s \in SUBSET m |-> f[s]]
          = [s \in SUBSET m |-> IF s = {} THEN 0 ELSE Size[OneOf(s)] + f[Less(s)]]
    <3> HIDE DEF Less
    <3> QED BY <1>7
  <2> QED BY <1>8, <2>1 DEF Sums
<1> QED BY <1>3, <1>9

LEMMA BytesSums ==
  ASSUME NEW T, IsFiniteSet(T)
  PROVE  \E g : Sums(g, T) /\ Bytes(T) = g[T]
<1> DEFINE g == CHOOSE f : Sums(f, T)
<1>1. Sums(g, T)
  BY SumsExist
<1>2. Bytes(T) = g[T]
  BY BytesIsSum
<1> QED BY <1>1, <1>2

LEMMA BytesOfNone == Bytes({}) = 0
<1>1. PICK g : Sums(g, {}) /\ Bytes({}) = g[{}]
  BY BytesSums, FS_EmptySet
<1> QED BY <1>1, SumsAt

LEMMA BytesStep ==
  ASSUME NEW T, IsFiniteSet(T), T # {}
  PROVE  Bytes(T) = Size[OneOf(T)] + Bytes(T \ {OneOf(T)})
<1> DEFINE u == T \ {OneOf(T)}
<1>1. IsFiniteSet(u) /\ u \in SUBSET T
  BY FS_RemoveElement
<1>2. PICK g : Sums(g, T) /\ Bytes(T) = g[T]
  BY BytesSums
<1>3. PICK f : Sums(f, u) /\ Bytes(u) = f[u]
  BY <1>1, BytesSums
<1>4. f[u] = g[u]
  <2> HIDE DEF u
  <2> QED BY <1>1, <1>2, <1>3, SumsAgree
<1>5. g[T] = Size[OneOf(T)] + g[u]
  BY <1>2, SumsAt
<1> QED BY <1>2, <1>3, <1>4, <1>5

\* Bytes is a natural number, and a blob counts for its size whatever the order
\* in which the blobs are added.
LEMMA BytesType == ASSUME NEW T \in SUBSET Stored, IsFiniteSet(T) PROVE Bytes(T) \in Nat
<1> DEFINE B == {s \in SUBSET T : Bytes(s) \notin Nat}
<1> SUFFICES ASSUME B # {} PROVE FALSE
  OBVIOUS
<1>1. \A s \in B : IsFiniteSet(s)
  BY FS_Subset
<1>2. PICK m \in B : \A y \in B : y \subseteq m => y = m
  <2> HIDE DEF B
  <2> QED BY <1>1, MinimalMember
<1>3. m \in SUBSET T /\ Bytes(m) \notin Nat /\ IsFiniteSet(m)
  BY <1>1
<1>4. m # {}
  BY <1>3, BytesOfNone
<1> DEFINE x == OneOf(m)
           u == m \ {x}
<1>5. x \in m /\ u \in SUBSET T /\ u \subseteq m /\ u # m
  BY <1>3, <1>4, OneOfIsMember
<1>6. Bytes(u) \in Nat
  BY <1>2, <1>5
<1>7. Size[x] \in Nat
  BY <1>3, <1>5, QuotaAssumption
<1>8. Bytes(m) = Size[x] + Bytes(u)
  BY <1>3, <1>4, BytesStep
<1> QED
  <2> HIDE DEF B, x, u
  <2> QED BY <1>3, <1>6, <1>7, <1>8

LEMMA BytesWithout ==
  ASSUME NEW T \in SUBSET Stored, IsFiniteSet(T), NEW x \in T
  PROVE  Bytes(T) = Size[x] + Bytes(T \ {x})
<1> DEFINE Right(s) == \A h \in s : Bytes(s) = Size[h] + Bytes(s \ {h})
           B == {s \in SUBSET T : ~Right(s)}
<1> SUFFICES ASSUME B # {} PROVE FALSE
  OBVIOUS
<1>1. \A s \in B : IsFiniteSet(s)
  BY FS_Subset
<1>2. PICK m \in B : \A y \in B : y \subseteq m => y = m
  <2> HIDE DEF B
  <2> QED BY <1>1, MinimalMember
<1>3. m \in SUBSET T /\ IsFiniteSet(m)
  BY <1>1
<1>4. PICK h \in m : Bytes(m) # Size[h] + Bytes(m \ {h})
  OBVIOUS
<1> DEFINE k == OneOf(m)
           mk == m \ {k}
           mh == m \ {h}
           mhk == mh \ {k}
<1>5. k \in m
  BY <1>4, OneOfIsMember
<1>6. Bytes(m) = Size[k] + Bytes(mk)
  BY <1>3, <1>4, BytesStep
<1>7. h # k
  BY <1>4, <1>6
<1>8. Right(mk) /\ Right(mh)
  <2>1. mk \in SUBSET T /\ mk \subseteq m /\ mk # m
    BY <1>3, <1>5
  <2>2. mh \in SUBSET T /\ mh \subseteq m /\ mh # m
    BY <1>3, <1>4
  <2> HIDE DEF Right, mk, mh
  <2> QED BY <1>2, <2>1, <2>2
<1>9. mk \ {h} = mhk
  OBVIOUS
<1>10. Bytes(mk) = Size[h] + Bytes(mhk)
  BY <1>4, <1>7, <1>8, <1>9
<1>11. Bytes(mh) = Size[k] + Bytes(mhk)
  BY <1>5, <1>7, <1>8
<1>12. Size[h] \in Nat /\ Size[k] \in Nat
  BY <1>3, <1>4, <1>5, QuotaAssumption
<1>13. Bytes(mhk) \in Nat
  <2>1. mhk \in SUBSET T
    BY <1>3
  <2> QED BY <2>1, FS_Subset, BytesType
<1>14. Bytes(m) # Size[h] + Bytes(mh)
  BY <1>4
<1> QED
  <2> HIDE DEF B, k, mk, mh, mhk
  <2> QED BY <1>14, <1>6, <1>10, <1>11, <1>12, <1>13

LEMMA BytesMonotone ==
  ASSUME NEW T \in SUBSET Stored, IsFiniteSet(T), NEW S \in SUBSET T
  PROVE  Bytes(S) <= Bytes(T)
<1> DEFINE B == {s \in SUBSET T : S \subseteq s /\ ~(Bytes(S) <= Bytes(s))}
<1> SUFFICES ASSUME B # {} PROVE FALSE
  OBVIOUS
<1>1. \A s \in B : IsFiniteSet(s)
  BY FS_Subset
<1>2. PICK m \in B : \A y \in B : y \subseteq m => y = m
  <2> HIDE DEF B
  <2> QED BY <1>1, MinimalMember
<1>3. m \in SUBSET Stored /\ IsFiniteSet(m) /\ S \subseteq m /\ ~(Bytes(S) <= Bytes(m))
  BY <1>1
<1>4. Bytes(S) \in Nat
  BY FS_Subset, BytesType
<1>5. S # m
  BY <1>3, <1>4
<1>6. PICK x \in m : x \notin S
  BY <1>3, <1>5
<1> DEFINE u == m \ {x}
<1>7. Bytes(m) = Size[x] + Bytes(u)
  BY <1>3, <1>6, BytesWithout
<1>8. Bytes(S) <= Bytes(u)
  <2>1. u \in SUBSET T /\ S \subseteq u /\ u \subseteq m /\ u # m
    BY <1>3, <1>6
  <2> QED BY <1>2, <2>1
<1>9. Size[x] \in Nat
  BY <1>3, <1>6, QuotaAssumption
<1>10. Bytes(u) \in Nat
  BY <1>3, FS_Subset, BytesType
<1> QED
  <2> HIDE DEF B, u
  <2> QED BY <1>3, <1>4, <1>7, <1>8, <1>9, <1>10

-----------------------------------------------------------------------------
QuotaSteps == {"ready", "quota", "check", "insert", "bump", "rm"}
BlobWriting == [step : QuotaSteps, content : Stored \cup {AnyContent},
                mine : SUBSET Stored, ops : Nat]

QuotaTypeOK ==
  /\ blobs \in SUBSET Stored /\ IsFiniteSet(blobs)
  /\ writing \in [Writers -> BlobWriting]
  /\ unbound \in BOOLEAN
  /\ \A c \in Writers : IsFiniteSet(writing[c].mine)
  /\ \A c \in Writers : writing[c].step \in {"quota", "check", "insert"} => writing[c].content \in Stored

Limited == {c \in Writers : Limit[c] # Unlimited}
QuotaLock(c) == Db!Lock(c, "quota", "workspace", "update")

\* A set of blobs that some limit allows.
Fits(S) == S = {} \/ \E c \in Limited : Bytes(S) <= Limit[c]

\* The lock of the workspace is exclusive, and its holder keeps it from the sum
\* to the end of the transaction, as long as it has blobs of its own.
OneQuotaLock == \A c, d \in Writers : QuotaLock(c) \in held /\ QuotaLock(d) \in held => c = d
LimitedKeepLock ==
  \A c \in Limited : writing[c].step \in {"check", "insert"} \/ writing[c].mine # {} => QuotaLock(c) \in held

\* What is committed fits, what each instance sees in its transaction does, and
\* still does with the blob it is about to insert.
SeenFits ==
  unbound \/ /\ Fits(blobs)
             /\ \A c \in Limited :
                  /\ Fits(SeenBy(c))
                  /\ writing[c].step = "insert" => Fits(SeenBy(c) \cup {writing[c].content})

QuotaInv == QuotaTypeOK /\ OneQuotaLock /\ LimitedKeepLock /\ SeenFits

LEMMA FitsPart ==
  ASSUME NEW T \in SUBSET Stored, IsFiniteSet(T), Fits(T), NEW S \in SUBSET T
  PROVE  Fits(S)
<1>1. CASE S = {}
  BY <1>1 DEF Fits
<1>2. CASE S # {}
  <2>1. PICK c \in Limited : Bytes(T) <= Limit[c]
    BY <1>2 DEF Fits
  <2>2. Bytes(S) <= Bytes(T)
    BY BytesMonotone
  <2>3. Bytes(S) \in Nat /\ Bytes(T) \in Nat
    BY FS_Subset, BytesType
  <2>4. Limit[c] \in Nat
    BY QuotaAssumption DEF Limited
  <2> QED BY <2>1, <2>2, <2>3, <2>4 DEF Fits
<1> QED BY <1>1, <1>2

LEMMA LocksDiffer ==
  ASSUME NEW c, NEW d
  PROVE  /\ QuotaLock(c) = QuotaLock(d) => c = d
         /\ QuotaLock(c).by = c
         /\ QuotaLock(c) # Db!Lock(d, "version", "v", "noKeyUpdate")
BY DEF QuotaLock, Db!Lock

LEMMA SeenFinite ==
  ASSUME QuotaTypeOK, NEW c \in Writers
  PROVE  /\ SeenBy(c) \in SUBSET Stored /\ IsFiniteSet(SeenBy(c))
         /\ \A h \in Stored : SeenBy(c) \cup {h} \in SUBSET Stored /\ IsFiniteSet(SeenBy(c) \cup {h})
<1>1. writing[c].mine \in SUBSET Stored /\ IsFiniteSet(writing[c].mine)
  BY DEF QuotaTypeOK, BlobWriting
<1>2. blobs \in SUBSET Stored /\ IsFiniteSet(blobs)
  BY DEF QuotaTypeOK
<1>3. SeenBy(c) \in SUBSET Stored /\ IsFiniteSet(SeenBy(c))
  BY <1>1, <1>2, FS_Union DEF SeenBy
<1>4. ASSUME NEW h \in Stored
      PROVE  SeenBy(c) \cup {h} \in SUBSET Stored /\ IsFiniteSet(SeenBy(c) \cup {h})
  BY <1>3, FS_AddElement
<1> QED BY <1>3, <1>4

\* A step of one instance that leaves what is committed.
LEMMA OwnStep ==
  ASSUME QuotaInv, NEW c \in Writers, UNCHANGED <<blobs, unbound>>,
         writing' \in [Writers -> BlobWriting],
         \A d \in Writers \ {c} : writing'[d] = writing[d],
         \A d \in Writers \ {c} : QuotaLock(d) \in held' <=> QuotaLock(d) \in held,
         IsFiniteSet(writing'[c].mine),
         writing'[c].step \in {"quota", "check", "insert"} => writing'[c].content \in Stored,
         OneQuotaLock',
         c \in Limited =>
           /\ writing'[c].step \in {"check", "insert"} \/ writing'[c].mine # {} => QuotaLock(c) \in held'
           /\ ~unbound => /\ Fits(blobs \cup writing'[c].mine)
                          /\ writing'[c].step = "insert" =>
                               Fits(blobs \cup writing'[c].mine \cup {writing'[c].content})
  PROVE  QuotaInv'
<1>1. QuotaTypeOK'
  BY DEF QuotaInv, QuotaTypeOK
<1>2. LimitedKeepLock'
  <2> SUFFICES ASSUME NEW d \in Limited,
                      writing'[d].step \in {"check", "insert"} \/ writing'[d].mine # {}
               PROVE  QuotaLock(d) \in held'
    BY DEF LimitedKeepLock, QuotaLock, Db!Lock
  <2>1. CASE d = c
    BY <2>1
  <2>2. CASE d # c
    BY <2>2 DEF QuotaInv, LimitedKeepLock, Limited
  <2> QED BY <2>1, <2>2
<1>3. SeenFits'
  <2> SUFFICES ASSUME ~unbound PROVE SeenFits'
    BY DEF SeenFits
  <2>1. Fits(blobs)'
    BY DEF QuotaInv, SeenFits, Fits
  <2>2. ASSUME NEW d \in Limited
        PROVE  /\ Fits(blobs \cup writing'[d].mine)
               /\ writing'[d].step = "insert" => Fits(blobs \cup writing'[d].mine \cup {writing'[d].content})
    <3>1. CASE d = c
      BY <3>1
    <3>2. CASE d # c
      BY <3>2 DEF QuotaInv, SeenFits, SeenBy, Limited
    <3> QED BY <3>1, <3>2
  <2>3. \A d \in Limited : SeenBy(d)' = blobs \cup writing'[d].mine
    BY DEF SeenBy
  <2>4. \A d \in Limited : Fits(SeenBy(d))' /\ (writing'[d].step = "insert" => Fits(SeenBy(d) \cup {writing[d].content})')
    BY <2>2, <2>3 DEF Fits
  <2> QED BY <2>1, <2>4 DEF SeenFits
<1> QED BY <1>1, <1>2, <1>3 DEF QuotaInv

-----------------------------------------------------------------------------
\* Every step keeps the invariant.
LEMMA QuotaInitInv == QuotaInit => QuotaInv
<1> SUFFICES ASSUME QuotaInit PROVE QuotaInv
  OBVIOUS
<1>1. NoWrite \in BlobWriting
  BY DEF NoWrite, BlobWriting, QuotaSteps
<1>2. QuotaTypeOK
  BY <1>1, FS_EmptySet DEF QuotaInit, QuotaTypeOK, NoWrite
<1>3. OneQuotaLock /\ LimitedKeepLock
  BY DEF QuotaInit, OneQuotaLock, LimitedKeepLock, Limited, NoWrite
<1>4. SeenFits
  BY DEF QuotaInit, SeenFits, SeenBy, Fits, Limited, NoWrite
<1> QED BY <1>2, <1>3, <1>4 DEF QuotaInv

LEMMA BeginFileKeeps ==
  ASSUME QuotaInv, NEW c \in Writers, NEW h \in Stored, BeginFile(c, h) PROVE QuotaInv'
<1>1. /\ writing[c] \in BlobWriting
      /\ writing[c].ops + 1 \in Nat
  <2>1. writing[c] \in BlobWriting
    BY DEF QuotaInv, QuotaTypeOK
  <2>2. writing[c].ops \in Nat
    BY <2>1 DEF BlobWriting
  <2> QED BY <2>1, <2>2
<1>2. /\ \A d \in Writers \ {c} : writing'[d] = writing[d]
      /\ writing'[c] = [writing[c] EXCEPT !.step = IF Limit[c] = Unlimited THEN "insert" ELSE "quota",
                                          !.content = h, !.ops = writing[c].ops + 1]
      /\ writing' = [d \in Writers |-> writing'[d]]
  BY DEF BeginFile, QuotaInv, QuotaTypeOK
<1>3. /\ writing'[c] \in BlobWriting /\ writing'[c].mine = writing[c].mine
      /\ writing'[c].content = h /\ (c \in Limited => writing'[c].step = "quota")
  BY <1>1, <1>2 DEF BlobWriting, QuotaSteps, Limited
<1>4. writing' \in [Writers -> BlobWriting]
  BY <1>2, <1>3 DEF QuotaInv, QuotaTypeOK
<1>5. UNCHANGED <<blobs, unbound, held>>
  BY DEF BeginFile
<1> QED BY <1>2, <1>3, <1>4, <1>5, OwnStep
        DEF QuotaInv, QuotaTypeOK, OneQuotaLock, LimitedKeepLock, SeenFits, SeenBy

LEMMA BeginRemovalKeeps ==
  ASSUME QuotaInv, NEW c \in Writers, BeginRemoval(c) PROVE QuotaInv'
<1>1. /\ writing[c] \in BlobWriting
      /\ writing[c].ops + 1 \in Nat
  <2>1. writing[c] \in BlobWriting
    BY DEF QuotaInv, QuotaTypeOK
  <2>2. writing[c].ops \in Nat
    BY <2>1 DEF BlobWriting
  <2> QED BY <2>1, <2>2
<1>2. /\ \A d \in Writers \ {c} : writing'[d] = writing[d]
      /\ writing'[c] = [writing[c] EXCEPT !.step = "rm", !.ops = writing[c].ops + 1]
      /\ writing' = [d \in Writers |-> writing'[d]]
  BY DEF BeginRemoval, QuotaInv, QuotaTypeOK
<1>3. writing'[c] \in BlobWriting /\ writing'[c].mine = writing[c].mine /\ writing'[c].step = "rm"
  BY <1>1, <1>2 DEF BlobWriting, QuotaSteps
<1>4. writing' \in [Writers -> BlobWriting]
  BY <1>2, <1>3 DEF QuotaInv, QuotaTypeOK
<1>5. UNCHANGED <<blobs, unbound, held>>
  BY DEF BeginRemoval
<1> QED BY <1>2, <1>3, <1>4, <1>5, OwnStep
        DEF QuotaInv, QuotaTypeOK, OneQuotaLock, LimitedKeepLock, SeenFits, SeenBy

\* The lock of the workspace is granted only when no other instance has it.
LEMMA LockQuotaKeeps ==
  ASSUME QuotaInv, NEW c \in Writers, LockQuota(c) PROVE QuotaInv'
<1>1. writing[c] \in BlobWriting
  BY DEF QuotaInv, QuotaTypeOK
<1>2. /\ \A d \in Writers \ {c} : writing'[d] = writing[d]
      /\ writing'[c] = [writing[c] EXCEPT !.step = "check"]
      /\ writing' = [d \in Writers |-> writing'[d]]
  BY DEF LockQuota, Goes, QuotaInv, QuotaTypeOK
<1>3. /\ writing'[c] \in BlobWriting /\ writing'[c].mine = writing[c].mine
      /\ writing'[c].content = writing[c].content /\ writing'[c].step = "check"
      /\ writing[c].step = "quota"
  BY <1>1, <1>2 DEF BlobWriting, QuotaSteps, LockQuota
<1>4. writing' \in [Writers -> BlobWriting]
  BY <1>2, <1>3 DEF QuotaInv, QuotaTypeOK
<1>5. UNCHANGED <<blobs, unbound>> /\ held' = held \cup {QuotaLock(c)} /\ BlockedBy(c) = {}
  BY DEF LockQuota, GrantLock, LocksOf, QuotaLock
<1>6. \A d \in Writers \ {c} : QuotaLock(d) \notin held
  <2> SUFFICES ASSUME NEW d \in Writers \ {c}, QuotaLock(d) \in held PROVE FALSE
    OBVIOUS
  <2>1. Db!HoldersAgainst(c, {QuotaLock(c)}) = {}
    BY <1>3, <1>5 DEF BlockedBy, LocksOf, QuotaLock
  <2>2. /\ QuotaLock(d).by = d /\ QuotaLock(d).kind = QuotaLock(c).kind /\ QuotaLock(d).on = QuotaLock(c).on
        /\ Db!Conflict(QuotaLock(d).mode, QuotaLock(c).mode)
    BY DEF QuotaLock, Db!Lock, Db!Conflict
  <2>3. d \in Db!HoldersAgainst(c, {QuotaLock(c)})
    BY <2>2 DEF Db!HoldersAgainst
  <2> QED BY <2>1, <2>3
<1>7. \A d \in Writers \ {c} : QuotaLock(d) \notin held'
  BY <1>5, <1>6, LocksDiffer
<1>8. OneQuotaLock'
  BY <1>7 DEF OneQuotaLock, QuotaLock, Db!Lock
<1>9. IsFiniteSet(writing'[c].mine) /\ writing'[c].content \in Stored
  BY <1>3 DEF QuotaInv, QuotaTypeOK
<1>10. c \in Limited /\ ~unbound => Fits(blobs \cup writing'[c].mine)
  BY <1>3 DEF QuotaInv, SeenFits, SeenBy
<1> QED BY <1>2, <1>3, <1>4, <1>5, <1>6, <1>7, <1>8, <1>9, <1>10, OwnStep

LEMMA AbortKeeps ==
  ASSUME QuotaInv, NEW c \in Writers, AbortWrite(c) PROVE QuotaInv'
<1>1. /\ \A d \in Writers \ {c} : writing'[d] = writing[d]
      /\ writing'[c] = NoWrite
      /\ writing' = [d \in Writers |-> writing'[d]]
  BY DEF AbortWrite, QuotaInv, QuotaTypeOK
<1>2. NoWrite \in BlobWriting /\ NoWrite.mine = {} /\ NoWrite.step = "ready"
  BY DEF BlobWriting, QuotaSteps, NoWrite
<1>3. writing' \in [Writers -> BlobWriting]
  BY <1>1, <1>2 DEF QuotaInv, QuotaTypeOK
<1>4. UNCHANGED <<blobs, unbound>> /\ held' = {k \in held : k.by # c}
  BY DEF AbortWrite, Db!Release
<1>5. \A d \in Writers \ {c} : QuotaLock(d) \in held' <=> QuotaLock(d) \in held
  BY <1>4, LocksDiffer
<1>6. OneQuotaLock'
  BY <1>4 DEF QuotaInv, OneQuotaLock, QuotaLock, Db!Lock
<1>7. c \in Limited /\ ~unbound => Fits(blobs \cup NoWrite.mine)
  BY <1>2 DEF QuotaInv, SeenFits
<1> QED BY <1>1, <1>2, <1>3, <1>4, <1>5, <1>6, <1>7, FS_EmptySet, OwnStep

\* The sum that was checked still holds when the blob is inserted: no other
\* instance with the option has blobs of its own.
LEMMA CheckKeeps ==
  ASSUME QuotaInv, NEW c \in Writers, Check(c) PROVE QuotaInv'
<1>1. CASE writing[c].content \notin SeenBy(c) /\ PastLimit(c)
  BY <1>1, AbortKeeps DEF Check
<1>2. CASE ~(writing[c].content \notin SeenBy(c) /\ PastLimit(c))
  <2> DEFINE h == writing[c].content
  <2>1. writing[c] \in BlobWriting /\ writing[c].step = "check" /\ h \in Stored
    BY DEF QuotaInv, QuotaTypeOK, Check
  <2>2. /\ \A d \in Writers \ {c} : writing'[d] = writing[d]
        /\ writing'[c] = [writing[c] EXCEPT !.step = "insert"]
        /\ writing' = [d \in Writers |-> writing'[d]]
        /\ UNCHANGED <<blobs, unbound, held>>
    BY <1>2 DEF Check, Goes, QuotaInv, QuotaTypeOK
  <2>3. /\ writing'[c] \in BlobWriting /\ writing'[c].mine = writing[c].mine
        /\ writing'[c].content = h /\ writing'[c].step = "insert"
    BY <2>1, <2>2 DEF BlobWriting, QuotaSteps
  <2>4. writing' \in [Writers -> BlobWriting]
    BY <2>2, <2>3 DEF QuotaInv, QuotaTypeOK
  <2>5. c \in Limited => QuotaLock(c) \in held
    BY <2>1 DEF QuotaInv, LimitedKeepLock
  <2>6. ASSUME c \in Limited, ~unbound PROVE Fits(SeenBy(c)) /\ Fits(SeenBy(c) \cup {h})
    <3>1. Fits(SeenBy(c))
      BY <2>6 DEF QuotaInv, SeenFits
    <3>2. CASE h \in SeenBy(c)
      <4>1. SeenBy(c) \cup {h} = SeenBy(c)
        BY <3>2
      <4> HIDE DEF h
      <4> QED BY <3>1, <4>1
    <3>3. CASE h \notin SeenBy(c)
      <4> DEFINE T == SeenBy(c) \cup {h}
      <4>1. T \in SUBSET Stored /\ IsFiniteSet(T) /\ h \in T /\ T \ {h} = SeenBy(c)
        BY <2>1, <3>3, SeenFinite DEF QuotaInv
      <4>2. Bytes(T) = Size[h] + Bytes(SeenBy(c))
        BY <4>1, BytesWithout
      <4>3. Limit[c] \in Nat /\ Size[h] \in Nat /\ Bytes(SeenBy(c)) \in Nat
        BY <2>1, <2>6, QuotaAssumption, SeenFinite, BytesType DEF QuotaInv, Limited
      <4>4. ~(Bytes(SeenBy(c)) + Size[h] > Limit[c])
        BY <1>2, <3>3 DEF PastLimit
      <4>5. Bytes(T) <= Limit[c]
        <5> HIDE DEF T, h
        <5> QED BY <4>2, <4>3, <4>4
      <4>6. Fits(T)
        <5> HIDE DEF T
        <5> QED BY <2>6, <4>5 DEF Fits
      <4> QED BY <3>1, <4>6
    <3> QED BY <3>1, <3>2, <3>3
  <2>7. IsFiniteSet(writing[c].mine) /\ OneQuotaLock'
    BY <2>2 DEF QuotaInv, QuotaTypeOK, OneQuotaLock
  <2> HIDE DEF h
  <2> QED BY <2>1, <2>2, <2>3, <2>4, <2>5, <2>6, <2>7, OwnStep DEF SeenBy
<1> QED BY <1>1, <1>2

LEMMA InsertBlobKeeps ==
  ASSUME QuotaInv, NEW c \in Writers, InsertBlob(c) PROVE QuotaInv'
<1> DEFINE h == writing[c].content
           more == writing[c].mine \cup ({h} \ blobs)
<1>1. writing[c] \in BlobWriting /\ writing[c].step = "insert" /\ h \in Stored
  BY DEF QuotaInv, QuotaTypeOK, InsertBlob
<1>2. /\ \A d \in Writers \ {c} : writing'[d] = writing[d]
      /\ writing'[c] = [writing[c] EXCEPT !.step = "bump", !.mine = more]
      /\ writing' = [d \in Writers |-> writing'[d]]
  BY DEF InsertBlob, QuotaInv, QuotaTypeOK
<1>3. more \in SUBSET Stored /\ IsFiniteSet(more)
  <2>1. writing[c].mine \in SUBSET Stored /\ IsFiniteSet(writing[c].mine)
    BY <1>1 DEF BlobWriting, QuotaInv, QuotaTypeOK
  <2>2. IsFiniteSet({h} \ blobs)
    BY FS_Singleton, FS_Difference
  <2> QED BY <1>1, <2>1, <2>2, FS_Union
<1>4. /\ writing'[c] \in BlobWriting /\ writing'[c].mine = more /\ writing'[c].step = "bump"
  <2> HIDE DEF more
  <2> QED BY <1>1, <1>2, <1>3 DEF BlobWriting, QuotaSteps
<1>5. writing' \in [Writers -> BlobWriting]
  BY <1>2, <1>4 DEF QuotaInv, QuotaTypeOK
<1>6. UNCHANGED <<blobs, unbound, held>>
  BY <1>1 DEF InsertBlob, GrantLock, LocksOf
<1>7. c \in Limited => QuotaLock(c) \in held
  BY <1>1 DEF QuotaInv, LimitedKeepLock
<1>8. c \in Limited /\ ~unbound => Fits(blobs \cup more)
  <2>1. blobs \cup more = SeenBy(c) \cup {h}
    BY DEF SeenBy
  <2> QED BY <1>1, <2>1 DEF QuotaInv, SeenFits
<1>9. OneQuotaLock'
  BY <1>6 DEF QuotaInv, OneQuotaLock
<1> QED
  <2> HIDE DEF h, more
  <2> QED BY <1>2, <1>3, <1>4, <1>5, <1>6, <1>7, <1>8, <1>9, OwnStep

LEMMA BumpVersionKeeps ==
  ASSUME QuotaInv, NEW c \in Writers, BumpVersion(c) PROVE QuotaInv'
<1>1. writing[c] \in BlobWriting /\ writing[c].step \in {"rm", "bump"}
  BY DEF QuotaInv, QuotaTypeOK, BumpVersion
<1>2. /\ \A d \in Writers \ {c} : writing'[d] = writing[d]
      /\ writing'[c] = [writing[c] EXCEPT !.step = "ready", !.content = AnyContent]
      /\ writing' = [d \in Writers |-> writing'[d]]
  BY DEF BumpVersion, QuotaInv, QuotaTypeOK
<1>3. writing'[c] \in BlobWriting /\ writing'[c].mine = writing[c].mine /\ writing'[c].step = "ready"
  BY <1>1, <1>2 DEF BlobWriting, QuotaSteps
<1>4. writing' \in [Writers -> BlobWriting]
  BY <1>2, <1>3 DEF QuotaInv, QuotaTypeOK
<1>5. UNCHANGED <<blobs, unbound>> /\ held' = held \cup {Db!Lock(c, "version", "v", "noKeyUpdate")}
  BY <1>1 DEF BumpVersion, GrantLock, LocksOf
<1>6. \A d \in Writers : QuotaLock(d) \in held' <=> QuotaLock(d) \in held
  BY <1>5, LocksDiffer
<1>7. OneQuotaLock'
  BY <1>6 DEF QuotaInv, OneQuotaLock, QuotaLock, Db!Lock
<1>8. IsFiniteSet(writing'[c].mine)
  BY <1>3 DEF QuotaInv, QuotaTypeOK
<1> QED BY <1>2, <1>3, <1>4, <1>5, <1>6, <1>7, <1>8, OwnStep DEF QuotaInv, LimitedKeepLock, SeenFits, SeenBy

LEMMA CommitBlobsKeeps ==
  ASSUME QuotaInv, NEW c \in Writers, CommitBlobs(c) PROVE QuotaInv'
<1>1. /\ \A d \in Writers \ {c} : writing'[d] = writing[d]
      /\ writing'[c] = NoWrite
      /\ writing' = [d \in Writers |-> writing'[d]]
      /\ blobs' = SeenBy(c) /\ unbound' = (unbound \/ (Limit[c] = Unlimited /\ writing[c].mine # {}))
      /\ held' = {k \in held : k.by # c}
  BY DEF CommitBlobs, QuotaInv, QuotaTypeOK, SeenBy, Db!Release
<1>2. NoWrite \in BlobWriting /\ NoWrite.mine = {} /\ NoWrite.step = "ready"
  BY DEF BlobWriting, QuotaSteps, NoWrite
<1>3. QuotaTypeOK'
  <2>1. writing' \in [Writers -> BlobWriting]
    BY <1>1, <1>2 DEF QuotaInv, QuotaTypeOK
  <2>2. blobs' \in SUBSET Stored /\ IsFiniteSet(blobs') /\ unbound' \in BOOLEAN
    BY <1>1, SeenFinite DEF QuotaInv, QuotaTypeOK
  <2>3. ASSUME NEW d \in Writers
        PROVE  /\ IsFiniteSet(writing'[d].mine)
               /\ writing'[d].step \in {"quota", "check", "insert"} => writing'[d].content \in Stored
    BY <1>1, <1>2, FS_EmptySet DEF QuotaInv, QuotaTypeOK
  <2> QED BY <2>1, <2>2, <2>3 DEF QuotaTypeOK
<1>4. \A d \in Writers \ {c} : QuotaLock(d) \in held' <=> QuotaLock(d) \in held
  BY <1>1, LocksDiffer
<1>5. OneQuotaLock'
  BY <1>1 DEF QuotaInv, OneQuotaLock, QuotaLock, Db!Lock
<1>6. LimitedKeepLock'
  <2> SUFFICES ASSUME NEW d \in Limited,
                      writing'[d].step \in {"check", "insert"} \/ writing'[d].mine # {}
               PROVE  QuotaLock(d) \in held'
    BY DEF LimitedKeepLock, QuotaLock, Db!Lock
  <2> QED BY <1>1, <1>2, <1>4 DEF QuotaInv, LimitedKeepLock, Limited
<1>7. SeenFits'
  <2> SUFFICES ASSUME ~unbound' PROVE SeenFits'
    BY DEF SeenFits
  <2>1. ~unbound /\ (c \in Limited \/ writing[c].mine = {})
    BY <1>1 DEF Limited
  <2>2. Fits(blobs')
    BY <1>1, <2>1 DEF QuotaInv, SeenFits, SeenBy
  <2>3. ASSUME NEW d \in Limited
        PROVE  /\ Fits(blobs' \cup writing'[d].mine)
               /\ writing'[d].step = "insert" => Fits(blobs' \cup writing'[d].mine \cup {writing'[d].content})
    <3>1. CASE d = c
      BY <1>1, <1>2, <2>2, <3>1
    <3>2. CASE d # c /\ writing[c].mine = {}
      <4>1. blobs' = blobs /\ writing'[d] = writing[d]
        BY <1>1, <3>2 DEF SeenBy, Limited
      <4> QED BY <2>1, <4>1 DEF QuotaInv, SeenFits, SeenBy
    <3>3. CASE d # c /\ writing[c].mine # {}
      <4>1. QuotaLock(c) \in held
        BY <2>1, <3>3 DEF QuotaInv, LimitedKeepLock
      <4>2. QuotaLock(d) \notin held
        BY <3>3, <4>1 DEF QuotaInv, OneQuotaLock, Limited
      <4>3. writing[d].mine = {} /\ writing[d].step # "insert"
        BY <4>2 DEF QuotaInv, LimitedKeepLock
      <4> QED BY <1>1, <2>2, <3>3, <4>3 DEF Limited
    <3> QED BY <3>1, <3>2, <3>3
  <2>4. \A d \in Limited : SeenBy(d)' = blobs' \cup writing'[d].mine
    BY DEF SeenBy
  <2>5. \A d \in Limited : Fits(SeenBy(d))' /\ (writing'[d].step = "insert" => Fits(SeenBy(d) \cup {writing[d].content})')
    BY <2>3, <2>4 DEF Fits
  <2>6. Fits(blobs)'
    BY <2>2 DEF Fits
  <2> QED BY <2>5, <2>6 DEF SeenFits
<1> QED BY <1>3, <1>5, <1>6, <1>7 DEF QuotaInv

\* A collection leaves less, and may take a blob whose writer has just found it.
LEMMA CollectBlobsKeeps ==
  ASSUME QuotaInv, NEW hashes \in SUBSET blobs, CollectBlobs(hashes) PROVE QuotaInv'
<1>1. blobs' = blobs \ hashes /\ UNCHANGED <<writing, unbound, held>>
  BY DEF CollectBlobs
<1>2. blobs' \in SUBSET blobs /\ IsFiniteSet(blobs')
  BY <1>1, FS_Subset DEF QuotaInv, QuotaTypeOK
<1>3. QuotaTypeOK' /\ OneQuotaLock' /\ LimitedKeepLock'
  BY <1>1, <1>2 DEF QuotaInv, QuotaTypeOK, OneQuotaLock, LimitedKeepLock
<1>4. SeenFits'
  <2> SUFFICES ASSUME ~unbound PROVE SeenFits'
    BY <1>1 DEF SeenFits
  <2>1. Fits(blobs')
    BY <1>2, FitsPart DEF QuotaInv, QuotaTypeOK, SeenFits
  <2>2. ASSUME NEW d \in Limited
        PROVE  /\ Fits(blobs' \cup writing[d].mine)
               /\ writing[d].step = "insert" => Fits(blobs' \cup writing[d].mine \cup {writing[d].content})
    <3>1. d \in Writers
      BY DEF Limited
    <3>2. SeenBy(d) \in SUBSET Stored /\ IsFiniteSet(SeenBy(d)) /\ Fits(SeenBy(d))
      BY <3>1, SeenFinite DEF QuotaInv, SeenFits
    <3>3. blobs' \cup writing[d].mine \in SUBSET SeenBy(d)
      BY <1>2 DEF SeenBy
    <3>4. Fits(blobs' \cup writing[d].mine)
      BY <3>2, <3>3, FitsPart
    <3>5. ASSUME writing[d].step = "insert"
          PROVE  Fits(blobs' \cup writing[d].mine \cup {writing[d].content})
      <4> DEFINE h == writing[d].content
                 T == SeenBy(d) \cup {h}
      <4>1. h \in Stored
        BY <3>1, <3>5 DEF QuotaInv, QuotaTypeOK
      <4>2. T \in SUBSET Stored /\ IsFiniteSet(T)
        <5> HIDE DEF h
        <5> QED BY <3>1, <4>1, SeenFinite DEF QuotaInv
      <4>3. Fits(T)
        BY <3>5 DEF QuotaInv, SeenFits
      <4>4. blobs' \cup writing[d].mine \cup {h} \in SUBSET T
        BY <3>3
      <4> HIDE DEF T
      <4> QED BY <4>2, <4>3, <4>4, FitsPart
    <3> QED BY <3>4, <3>5
  <2>3. \A d \in Limited : SeenBy(d)' = blobs' \cup writing[d].mine
    BY <1>1 DEF SeenBy
  <2>4. \A d \in Limited : Fits(SeenBy(d))' /\ (writing'[d].step = "insert" => Fits(SeenBy(d) \cup {writing[d].content})')
    BY <1>1, <2>2, <2>3 DEF Fits
  <2>5. Fits(blobs)'
    BY <2>1 DEF Fits
  <2> QED BY <2>4, <2>5 DEF SeenFits
<1> QED BY <1>3, <1>4 DEF QuotaInv

LEMMA QuotaNextInv == QuotaInv /\ [QuotaNext]_quotaVars => QuotaInv'
<1> SUFFICES ASSUME QuotaInv, [QuotaNext]_quotaVars PROVE QuotaInv'
  OBVIOUS
<1>1. CASE UNCHANGED quotaVars
  BY <1>1 DEF quotaVars, QuotaInv, QuotaTypeOK, OneQuotaLock, LimitedKeepLock, SeenFits, SeenBy, Fits
<1>2. ASSUME NEW c \in Writers, BeginRemoval(c) PROVE QuotaInv'
  BY <1>2, BeginRemovalKeeps
<1>3. ASSUME NEW c \in Writers, LockQuota(c) PROVE QuotaInv'
  BY <1>3, LockQuotaKeeps
<1>4. ASSUME NEW c \in Writers, Check(c) PROVE QuotaInv'
  BY <1>4, CheckKeeps
<1>5. ASSUME NEW c \in Writers, InsertBlob(c) PROVE QuotaInv'
  BY <1>5, InsertBlobKeeps
<1>6. ASSUME NEW c \in Writers, BumpVersion(c) PROVE QuotaInv'
  BY <1>6, BumpVersionKeeps
<1>7. ASSUME NEW c \in Writers, CommitBlobs(c) PROVE QuotaInv'
  BY <1>7, CommitBlobsKeeps
<1>8. ASSUME NEW c \in Writers, RollbackBlobs(c) \/ BreakDeadlock(c) PROVE QuotaInv'
  BY <1>8, AbortKeeps DEF RollbackBlobs, BreakDeadlock
<1>9. ASSUME NEW c \in Writers, NEW h \in Stored, BeginFile(c, h) PROVE QuotaInv'
  BY <1>9, BeginFileKeeps
<1>10. ASSUME NEW hashes \in SUBSET blobs, CollectBlobs(hashes) PROVE QuotaInv'
  BY <1>10, CollectBlobsKeeps
<1> QED BY <1>1, <1>2, <1>3, <1>4, <1>5, <1>6, <1>7, <1>8, <1>9, <1>10 DEF QuotaNext

LEMMA QuotaInvHolds == QuotaSpec => []QuotaInv
BY QuotaInitInv, QuotaNextInv, PTL DEF QuotaSpec

\* For any number of instances, contents, sizes and limits: while every instance
\* that has stored a blob has the option maxWorkspaceBytes, the workspace holds
\* no more than the largest limit (assertWorkspaceQuota's advisory lock).
THEOREM QuotaIsKept == QuotaSpec => []QuotaHolds
<1>1. QuotaInv => QuotaHolds
  BY DEF QuotaInv, SeenFits, Fits, Limited, QuotaHolds
<1> QED BY <1>1, QuotaInvHolds, PTL

-----------------------------------------------------------------------------
\* Search

Ratio == Nat \X (Nat \ {0})

LEMMA Scaled ==
  ASSUME NEW m \in Nat, NEW n \in Nat, NEW k \in Nat \ {0}
  PROVE  (m > n <=> m * k > n * k) /\ (m = n <=> m * k = n * k)
OBVIOUS

\* Ratios are ordered, those that are level in one place.
LEMMA RatiosOrdered ==
  ASSUME NEW r \in Ratio, NEW s \in Ratio, NEW t \in Ratio
  PROVE  /\ ~Higher(r, r) /\ Level(r, r)
         /\ Higher(r, s) \/ Level(r, s) \/ Higher(s, r)
         /\ ~(Higher(r, s) /\ Higher(s, r)) /\ ~(Higher(r, s) /\ Level(r, s))
         /\ Level(r, s) => Level(s, r)
         /\ (Higher(r, s) \/ Level(r, s)) /\ Higher(s, t) => Higher(r, t)
         /\ Higher(r, s) /\ (Higher(s, t) \/ Level(s, t)) => Higher(r, t)
         /\ Level(r, s) /\ Level(s, t) => Level(r, t)
<1>1. /\ r[1] \in Nat /\ s[1] \in Nat /\ t[1] \in Nat
      /\ r[2] \in Nat \ {0} /\ s[2] \in Nat \ {0} /\ t[2] \in Nat \ {0}
  BY DEF Ratio
<1> DEFINE a == r[1]  b == r[2]  c == s[1]  d == s[2]  e == t[1]  f == t[2]
<1>2. \A m, n \in Nat : m * n = n * m /\ m * n \in Nat
  OBVIOUS
<1>3. \A m, n, k \in Nat : (m * n) * k = (m * k) * n /\ (m * n) * k = (k * n) * m
  OBVIOUS
<1> DEFINE ad == a * d  cb == c * b  cf == c * f  ed == e * d  af == a * f  eb == e * b
<1>4. ad \in Nat /\ cb \in Nat /\ cf \in Nat /\ ed \in Nat /\ af \in Nat /\ eb \in Nat
  BY <1>1, <1>2
<1>5. ad * f = af * d /\ cb * f = cf * b /\ ed * b = eb * d
  BY <1>1, <1>3
<1>6. /\ (ad > cb <=> ad * f > cb * f) /\ (ad = cb <=> ad * f = cb * f)
      /\ (cf > ed <=> cf * b > ed * b) /\ (cf = ed <=> cf * b = ed * b)
      /\ (af > eb <=> af * d > eb * d) /\ (af = eb <=> af * d = eb * d)
  <2>1. b \in Nat \ {0} /\ d \in Nat \ {0} /\ f \in Nat \ {0}
    BY <1>1
  <2> HIDE DEF a, b, c, d, e, f, ad, cb, cf, ed, af, eb
  <2>. QED
    BY <1>4, <2>1, Scaled
<1>7. /\ Higher(r, s) <=> ad > cb
      /\ Level(r, s) <=> ad = cb
      /\ Higher(s, r) <=> cb > ad
      /\ Level(s, r) <=> cb = ad
      /\ Higher(s, t) <=> cf > ed
      /\ Level(s, t) <=> cf = ed
      /\ Higher(r, t) <=> af > eb
      /\ Level(r, t) <=> af = eb
      /\ Higher(r, r) <=> a * b > a * b
      /\ Level(r, r) <=> a * b = a * b
  BY DEF Higher, Level
<1>8. a * b \in Nat /\ ad * f \in Nat /\ cb * f \in Nat /\ ed * b \in Nat
  BY <1>1, <1>2, <1>4
<1> HIDE DEF a, b, c, d, e, f, ad, cb, cf, ed, af, eb
<1>9. /\ (ad > cb \/ ad = cb) /\ cf > ed => af > eb
      /\ ad > cb /\ (cf > ed \/ cf = ed) => af > eb
      /\ ad = cb /\ cf = ed => af = eb
  <2> DEFINE p == ad * f  q == cb * f  w == ed * b
  <2>1. p \in Nat /\ q \in Nat /\ w \in Nat
    BY <1>8
  <2>2. /\ (ad > cb <=> p > q) /\ (ad = cb <=> p = q)
        /\ (cf > ed <=> q > w) /\ (cf = ed <=> q = w)
        /\ (af > eb <=> p > w) /\ (af = eb <=> p = w)
    BY <1>5, <1>6
  <2> HIDE DEF p, q, w
  <2>. QED
    BY <2>1, <2>2
<1>. QED
  BY <1>4, <1>7, <1>8, <1>9

\* Hits of a search: no two of a path and a chunk, which gives them their rank.
Ranked(hits) ==
  /\ IsFiniteSet(hits)
  /\ \A h \in hits : h.path \in Nat /\ h.chunk.index \in Nat /\ h.rank \in Ratio
  /\ \A h, g \in hits : h.path = g.path /\ h.chunk.index = g.chunk.index => h = g

LEMMA BeforeOrders ==
  ASSUME NEW hits, Ranked(hits), NEW h \in hits, NEW g \in hits, NEW k \in hits
  PROVE  /\ ~Before(h, h)
         /\ h = g \/ Before(h, g) \/ Before(g, h)
         /\ Before(h, g) => ~Before(g, h)
         /\ Before(h, g) /\ Before(g, k) => Before(h, k)
<1>1. /\ h.path \in Nat /\ h.chunk.index \in Nat /\ h.rank \in Ratio
      /\ g.path \in Nat /\ g.chunk.index \in Nat /\ g.rank \in Ratio
      /\ k.path \in Nat /\ k.chunk.index \in Nat /\ k.rank \in Ratio
      /\ h.path = g.path /\ h.chunk.index = g.chunk.index => h = g
  BY DEF Ranked
<1> DEFINE Then(u, v) == u.path < v.path \/ (u.path = v.path /\ u.chunk.index < v.chunk.index)
<1>2. /\ ~Then(h, h) /\ (Then(h, g) \/ Then(g, h) \/ h = g) /\ (Then(h, g) => ~Then(g, h))
      /\ (Then(h, g) /\ Then(g, k) => Then(h, k))
  BY <1>1
<1>3. \A u, v : Before(u, v) <=> Higher(u.rank, v.rank) \/ (Level(u.rank, v.rank) /\ Then(u, v))
  BY DEF Before
<1> HIDE DEF Then
<1>4. ~Before(h, h)
  BY <1>1, <1>2, <1>3, RatiosOrdered
<1>5. h = g \/ Before(h, g) \/ Before(g, h)
  BY <1>1, <1>2, <1>3, RatiosOrdered
<1>6. Before(h, g) => ~Before(g, h)
  BY <1>1, <1>2, <1>3, RatiosOrdered
<1>7. Before(h, g) /\ Before(g, k) => Before(h, k)
  BY <1>1, <1>2, <1>3, RatiosOrdered
<1>. QED
  BY <1>4, <1>5, <1>6, <1>7

\* The hits that come before one of them: fewer the earlier it comes.
Ahead(hits, h) == {g \in hits : Before(g, h)}

LEMMA AheadCounts ==
  ASSUME NEW hits, Ranked(hits), NEW h \in hits
  PROVE  /\ IsFiniteSet(Ahead(hits, h)) /\ Cardinality(hits) \in Nat
         /\ Cardinality(Ahead(hits, h)) \in 0..Cardinality(hits) - 1
         /\ \A g \in hits : Before(g, h) <=> Cardinality(Ahead(hits, g)) < Cardinality(Ahead(hits, h))
         /\ \A g \in hits : Cardinality(Ahead(hits, g)) = Cardinality(Ahead(hits, h)) => g = h
<1>1. IsFiniteSet(hits)
  BY DEF Ranked
<1>2. ASSUME NEW g \in hits
      PROVE  /\ IsFiniteSet(Ahead(hits, g)) /\ Cardinality(hits) \in Nat
             /\ Cardinality(Ahead(hits, g)) \in 0..Cardinality(hits) - 1
  <2>1. Ahead(hits, g) \subseteq hits /\ g \notin Ahead(hits, g)
    BY BeforeOrders DEF Ahead
  <2>2. IsFiniteSet(Ahead(hits, g)) /\ Cardinality(Ahead(hits, g)) <= Cardinality(hits)
        /\ Cardinality(hits) # Cardinality(Ahead(hits, g))
    BY <1>1, <2>1, FS_Subset
  <2>3. Cardinality(Ahead(hits, g)) \in Nat /\ Cardinality(hits) \in Nat
    BY <1>1, <2>2, FS_CardinalityType
  <2>. QED
    BY <2>2, <2>3
<1>3. ASSUME NEW u \in hits, NEW v \in hits, Before(u, v)
      PROVE  Cardinality(Ahead(hits, u)) < Cardinality(Ahead(hits, v))
  <2>1. Ahead(hits, u) \subseteq Ahead(hits, v) /\ u \in Ahead(hits, v) /\ u \notin Ahead(hits, u)
    BY <1>3, BeforeOrders DEF Ahead
  <2>2. /\ Cardinality(Ahead(hits, u)) <= Cardinality(Ahead(hits, v))
        /\ Cardinality(Ahead(hits, v)) # Cardinality(Ahead(hits, u))
    BY <1>2, <2>1, FS_Subset
  <2>. QED
    BY <1>2, <2>2
<1>4. ASSUME NEW g \in hits
      PROVE  /\ Before(g, h) <=> Cardinality(Ahead(hits, g)) < Cardinality(Ahead(hits, h))
             /\ Cardinality(Ahead(hits, g)) = Cardinality(Ahead(hits, h)) => g = h
  <2>1. Cardinality(Ahead(hits, g)) \in Nat /\ Cardinality(Ahead(hits, h)) \in Nat
    BY <1>2
  <2>2. /\ Before(g, h) => Cardinality(Ahead(hits, g)) < Cardinality(Ahead(hits, h))
        /\ Before(h, g) => Cardinality(Ahead(hits, h)) < Cardinality(Ahead(hits, g))
    BY <1>3
  <2>3. g = h \/ Before(g, h) \/ Before(h, g)
    BY BeforeOrders
  <2>4. g = h => ~Before(g, h)
    BY BeforeOrders
  <2>. QED
    BY <2>1, <2>2, <2>3, <2>4
<1>. QED
  BY <1>2, <1>4

\* Each number of hits has one hit that it is ahead of.
LEMMA AheadReaches ==
  ASSUME NEW hits, Ranked(hits), NEW n \in 0..Cardinality(hits) - 1
  PROVE  \E h \in hits : Cardinality(Ahead(hits, h)) = n
<1> DEFINE m == Cardinality(hits)
           r == [h \in hits |-> Cardinality(Ahead(hits, h))]
<1>1. IsFiniteSet(hits) /\ m \in Nat
  BY FS_CardinalityType DEF Ranked
<1>2. IsFiniteSet(0..m - 1) /\ Cardinality(0..m - 1) = m
  BY <1>1, FS_Interval
<1>3. \A h \in hits : Cardinality(Ahead(hits, h)) \in 0..m - 1
  BY AheadCounts
<1>4. \A h, g \in hits : Cardinality(Ahead(hits, g)) = Cardinality(Ahead(hits, h)) => g = h
  BY AheadCounts
<1> HIDE DEF m
<1>5. r \in [hits -> 0..m - 1] /\ \A h \in hits : r[h] = Cardinality(Ahead(hits, h))
  BY <1>3
<1> HIDE DEF r
<1>6. r \in Injection(hits, 0..m - 1)
  BY <1>4, <1>5 DEF Injection, IsInjective
<1>7. r \in Surjection(hits, 0..m - 1)
  BY <1>1, <1>2, <1>6, FS_Injection DEF m
<1>8. n \in 0..m - 1
  BY DEF m
<1>. QED
  BY <1>5, <1>7, <1>8 DEF Surjection

\* So many hits have fewer than n ahead of them: n, if there are so many.
LEMMA AheadBelow ==
  ASSUME NEW hits, Ranked(hits), NEW n \in Nat
  PROVE  LET first == {h \in hits : Cardinality(Ahead(hits, h)) < n}
         IN /\ IsFiniteSet(first) /\ Cardinality(first) <= n
            /\ Cardinality(first) \in Nat
            /\ Cardinality(hits) >= n => Cardinality(first) = n
<1> DEFINE first == {h \in hits : Cardinality(Ahead(hits, h)) < n}
           r == [h \in first |-> Cardinality(Ahead(hits, h))]
<1>1. first \subseteq hits /\ IsFiniteSet(hits) /\ Cardinality(hits) \in Nat
  BY FS_CardinalityType DEF Ranked
<1>2. IsFiniteSet(0..n - 1) /\ Cardinality(0..n - 1) = n
  BY FS_Interval
<1>3. \A h \in first : h \in hits /\ Cardinality(Ahead(hits, h)) \in 0..n - 1
  <2> TAKE h \in first
  <2>1. h \in hits /\ Cardinality(Ahead(hits, h)) < n
    OBVIOUS
  <2>2. Cardinality(Ahead(hits, h)) \in 0..Cardinality(hits) - 1
    BY <2>1, AheadCounts
  <2>. QED
    BY <1>1, <2>1, <2>2
<1>4. \A h, g \in hits : Cardinality(Ahead(hits, g)) = Cardinality(Ahead(hits, h)) => g = h
  BY AheadCounts
<1>5. \A i \in 0..n - 1 : Cardinality(hits) >= n => \E h \in first : Cardinality(Ahead(hits, h)) = i
  <2> SUFFICES ASSUME NEW i \in 0..n - 1, Cardinality(hits) >= n
               PROVE  \E h \in first : Cardinality(Ahead(hits, h)) = i
    OBVIOUS
  <2>1. i \in 0..Cardinality(hits) - 1 /\ i < n
    BY <1>1
  <2>2. PICK h \in hits : Cardinality(Ahead(hits, h)) = i
    BY <2>1, AheadReaches
  <2>. QED
    BY <2>1, <2>2
<1> HIDE DEF first
<1>6. r \in [first -> 0..n - 1] /\ \A h \in first : r[h] = Cardinality(Ahead(hits, h))
  BY <1>3
<1> HIDE DEF r
<1>7. r \in Injection(first, 0..n - 1)
  BY <1>3, <1>4, <1>6 DEF Injection, IsInjective
<1>8. IsFiniteSet(first) /\ Cardinality(first) <= n /\ Cardinality(first) \in Nat
  BY <1>2, <1>7, FS_Injection, FS_CardinalityType
<1>9. Cardinality(hits) >= n => r \in Surjection(first, 0..n - 1)
  BY <1>5, <1>6 DEF Surjection
<1>10. Cardinality(hits) >= n => Cardinality(first) = n
  BY <1>2, <1>7, <1>9, FS_Injection
<1>. QED
  BY <1>8, <1>10 DEF first

\* The order of hits has every one of them once, the better first.
LEMMA OrderedIs ==
  ASSUME NEW hits, Ranked(hits)
  PROVE  /\ Ordered(hits) \in Seq(hits) /\ Len(Ordered(hits)) = Cardinality(hits)
         /\ \A n \in 1..Cardinality(hits) : Cardinality(Ahead(hits, Ordered(hits)[n])) = n - 1
         /\ \A i, j \in 1..Cardinality(hits) : i < j => Before(Ordered(hits)[i], Ordered(hits)[j])
         /\ \A h \in hits : \E n \in 1..Cardinality(hits) : Ordered(hits)[n] = h
<1> DEFINE m == Cardinality(hits)
           s == Ordered(hits)
<1>1. m \in Nat
  BY FS_CardinalityType DEF Ranked
<1>2. s = [n \in 1..m |-> CHOOSE h \in hits : Cardinality(Ahead(hits, h)) = n - 1]
  BY DEF Ordered, Ahead
<1>3. \A n \in 1..m : \E h \in hits : Cardinality(Ahead(hits, h)) = n - 1
  <2> TAKE n \in 1..m
  <2>1. n - 1 \in 0..m - 1
    BY <1>1
  <2>. QED
    BY <2>1, AheadReaches
<1> HIDE DEF s, m
<1>4. \A n \in 1..m : s[n] \in hits /\ Cardinality(Ahead(hits, s[n])) = n - 1
  BY <1>2, <1>3
<1>5. s \in [1..m -> hits]
  BY <1>2, <1>4
<1>6. s \in Seq(hits) /\ Len(s) = m
  BY <1>1, <1>5
<1>7. ASSUME NEW i \in 1..m, NEW j \in 1..m, i < j
      PROVE  Before(s[i], s[j])
  <2>1. Cardinality(Ahead(hits, s[i])) < Cardinality(Ahead(hits, s[j]))
    BY <1>1, <1>4, <1>7
  <2>. QED
    BY <1>4, <2>1, AheadCounts
<1>8. ASSUME NEW h \in hits
      PROVE  \E n \in 1..m : s[n] = h
  <2> DEFINE n == Cardinality(Ahead(hits, h)) + 1
  <2>1. n \in 1..m /\ n - 1 = Cardinality(Ahead(hits, h))
    BY <1>1, AheadCounts DEF m
  <2> HIDE DEF n
  <2>2. s[n] \in hits /\ Cardinality(Ahead(hits, s[n])) = Cardinality(Ahead(hits, h))
    BY <1>4, <2>1
  <2>3. s[n] = h
    BY <2>2, AheadCounts
  <2>. QED
    BY <2>1, <2>3
<1>. QED
  BY <1>4, <1>6, <1>7, <1>8 DEF s, m

LEMMA SubsetsRanked ==
  ASSUME NEW hits, Ranked(hits), NEW some \in SUBSET hits
  PROVE  Ranked(some)
<1>1. IsFiniteSet(some)
  BY FS_Subset DEF Ranked
<1>. QED
  BY <1>1 DEF Ranked

OfPath(hits, p) == {h \in hits : h.path = p}
Kept(hits, cap) == {h \in hits : FileRank(hits, h) <= cap}
Returned(hits, limit, cap) ==
  SubSeq(Ordered(Kept(hits, cap)), 1, Lesser(limit, Len(Ordered(Kept(hits, cap)))))

\* A hit is kept if fewer than the cap of its file are ahead of it.
LEMMA KeptIs ==
  ASSUME NEW hits, Ranked(hits), NEW h \in hits, NEW cap \in Nat
  PROVE  /\ h \in OfPath(hits, h.path) /\ Ranked(OfPath(hits, h.path))
         /\ Cardinality(Ahead(OfPath(hits, h.path), h)) \in Nat
         /\ h \in Kept(hits, cap) <=> Cardinality(Ahead(OfPath(hits, h.path), h)) < cap
<1> DEFINE own == OfPath(hits, h.path)
<1>1. h \in own /\ own \subseteq hits
  BY DEF OfPath
<1>2. Ranked(own)
  BY <1>1, SubsetsRanked
<1>3. {g \in hits : g.path = h.path /\ Before(g, h)} = Ahead(own, h)
  BY DEF OfPath, Ahead
<1> HIDE DEF own
<1>4. Cardinality(own) \in Nat /\ Cardinality(Ahead(own, h)) \in 0..Cardinality(own) - 1
  BY <1>1, <1>2, AheadCounts
<1>5. FileRank(hits, h) = 1 + Cardinality(Ahead(own, h))
  BY <1>3 DEF FileRank
<1>6. h \in Kept(hits, cap) <=> Cardinality(Ahead(own, h)) < cap
  BY <1>4, <1>5 DEF Kept
<1>. QED
  BY <1>1, <1>2, <1>4, <1>6 DEF own

\* The answer is the first of the hits that are kept.
LEMMA AnswerIs ==
  ASSUME NEW hits, Ranked(hits), NEW limit \in Nat \ {0}, NEW cap \in Nat \ {0}
  PROVE  LET kept == Ordered(Kept(hits, cap))
             result == Returned(hits, limit, cap)
         IN /\ Ranked(Kept(hits, cap)) /\ Len(kept) \in Nat
            /\ Len(result) \in Nat /\ Len(result) <= limit /\ Len(result) <= Len(kept)
            /\ Len(result) # limit => Len(result) = Len(kept)
            /\ DOMAIN result = 1..Len(result)
            /\ \A n \in 1..Len(result) : result[n] = kept[n]
            /\ \A n \in 1..Len(kept) : kept[n] \in Kept(hits, cap)
            /\ \A i, j \in 1..Len(kept) : i < j => Before(kept[i], kept[j])
            /\ \A h \in Kept(hits, cap) : \E n \in 1..Len(kept) : kept[n] = h
<1> DEFINE K == Kept(hits, cap)
           kept == Ordered(K)
           result == Returned(hits, limit, cap)
           top == Lesser(limit, Len(kept))
<1>1. Ranked(K)
  BY SubsetsRanked DEF Kept
<1>2. result = SubSeq(kept, 1, top)
  BY DEF Returned
<1> HIDE DEF K, kept, result
<1>3. /\ kept \in Seq(K) /\ Len(kept) = Cardinality(K)
      /\ \A i, j \in 1..Cardinality(K) : i < j => Before(kept[i], kept[j])
      /\ \A h \in K : \E n \in 1..Cardinality(K) : kept[n] = h
  BY <1>1, OrderedIs DEF kept
<1>4. Len(kept) \in Nat /\ DOMAIN kept = 1..Len(kept) /\ \A n \in 1..Len(kept) : kept[n] \in K
  BY <1>3
<1>5. top \in 0..Len(kept) /\ top <= limit /\ (top # limit => top = Len(kept))
  BY <1>4 DEF Lesser
<1> HIDE DEF top
<1>6. Len(result) = top /\ DOMAIN result = 1..top /\ \A n \in 1..top : result[n] = kept[n]
  <2>1. SubSeq(kept, 1, top) = [n \in 1..top |-> kept[n]]
    BY <1>3, <1>4, <1>5, SubSeqProperties
  <2>. QED
    BY <1>2, <1>5, <2>1
<1>. QED
  BY <1>1, <1>3, <1>4, <1>5, <1>6 DEF K, kept, result

\* At most cap hits of a path are among those found.
LEMMA PathsCapped ==
  ASSUME NEW hits, Ranked(hits), NEW limit \in Nat \ {0}, NEW cap \in Nat \ {0}, NEW p,
         NEW result, result = Returned(hits, limit, cap),
         NEW found, found = {result[n] : n \in DOMAIN result}
  PROVE  found \subseteq hits /\ Cardinality(OfPath(found, p)) <= cap
<1> DEFINE own == OfPath(hits, p)
           first == {h \in own : Cardinality(Ahead(own, h)) < cap}
<1>1. found \subseteq Kept(hits, cap)
  <2>1. \A n \in DOMAIN result : result[n] \in Kept(hits, cap)
    <3> TAKE n \in DOMAIN result
    <3> DEFINE kept == Ordered(Kept(hits, cap))
    <3>1. /\ Len(result) \in Nat /\ Len(kept) \in Nat /\ Len(result) <= Len(kept)
          /\ DOMAIN result = 1..Len(result)
          /\ \A i \in 1..Len(result) : result[i] = kept[i]
          /\ \A i \in 1..Len(kept) : kept[i] \in Kept(hits, cap)
      BY AnswerIs
    <3> HIDE DEF kept
    <3>2. n \in 1..Len(result) /\ n \in 1..Len(kept)
      BY <3>1
    <3>. QED
      BY <3>1, <3>2
  <2>. QED
    BY <2>1
<1>2. Kept(hits, cap) \subseteq hits
  BY DEF Kept
<1>3. Ranked(own)
  BY SubsetsRanked DEF OfPath
<1>4. {h \in found : h.path = p} \subseteq first
  <2> SUFFICES ASSUME NEW h \in found, h.path = p
               PROVE  h \in first
    OBVIOUS
  <2>1. h \in Kept(hits, cap) /\ h \in hits
    BY <1>1, <1>2
  <2>2. h \in own /\ Cardinality(Ahead(own, h)) < cap
    BY <2>1, KeptIs
  <2>. QED
    BY <2>2
<1> HIDE DEF own
<1>5. IsFiniteSet(first) /\ Cardinality(first) <= cap /\ Cardinality(first) \in Nat
  BY <1>3, AheadBelow
<1> HIDE DEF first
<1>6. IsFiniteSet({h \in found : h.path = p}) /\ Cardinality({h \in found : h.path = p}) <= Cardinality(first)
  BY <1>4, <1>5, FS_Subset
<1>7. Cardinality({h \in found : h.path = p}) \in Nat
  BY <1>6, FS_CardinalityType
<1>. QED
  BY <1>1, <1>2, <1>5, <1>6, <1>7 DEF OfPath

\* A hit that is missing was pushed out by better ones.
LEMMA MissingOutdone ==
  ASSUME NEW hits, Ranked(hits), NEW limit \in Nat \ {0}, NEW cap \in Nat \ {0},
         NEW h \in hits, \A n \in DOMAIN Returned(hits, limit, cap) : Returned(hits, limit, cap)[n] # h
  PROVE  LET result == Returned(hits, limit, cap)
         IN Capped(result, h, cap) \/ (Len(result) = limit /\ Before(result[limit], h))
<1> DEFINE K == Kept(hits, cap)
           kept == Ordered(K)
           result == Returned(hits, limit, cap)
           own == OfPath(hits, h.path)
           first == {g \in own : Cardinality(Ahead(own, g)) < cap}
           there == {n \in DOMAIN result : result[n].path = h.path /\ Before(result[n], h)}
<1>1. /\ Ranked(K) /\ Len(kept) \in Nat
      /\ Len(result) \in Nat /\ Len(result) <= limit /\ Len(result) <= Len(kept)
      /\ Len(result) # limit => Len(result) = Len(kept)
      /\ DOMAIN result = 1..Len(result)
      /\ \A n \in 1..Len(result) : result[n] = kept[n]
      /\ \A n \in 1..Len(kept) : kept[n] \in K
      /\ \A i, j \in 1..Len(kept) : i < j => Before(kept[i], kept[j])
      /\ \A g \in K : \E n \in 1..Len(kept) : kept[n] = g
  BY AnswerIs
<1>2. \A n \in DOMAIN result : result[n] # h
  OBVIOUS
<1>3. K \subseteq hits
  BY DEF Kept
<1>4. \A g \in hits : /\ g \in OfPath(hits, g.path)
                      /\ g \in K <=> Cardinality(Ahead(OfPath(hits, g.path), g)) < cap
  BY KeptIs
<1>5. own \subseteq hits /\ \A g \in own : g.path = h.path
  BY DEF OfPath
<1> HIDE DEF K, kept, result, own
<1>10. Len(result) \in Nat
  BY <1>1
<1>6. \A g \in first : g \in K /\ g.path = h.path /\ g \in hits
  BY <1>4, <1>5 DEF own
\* What is kept and beyond the answer comes after the last of it.
<1>7. ASSUME NEW g \in K, \A n \in DOMAIN result : result[n] # g
      PROVE  Len(result) = limit /\ result[limit] \in hits /\ Before(result[limit], g)
  <2>1. PICK n \in 1..Len(kept) : kept[n] = g
    BY <1>1
  <2>2. n \notin 1..Len(result)
    BY <1>1, <1>7, <2>1
  <2>3. Len(result) = limit /\ limit \in 1..Len(kept) /\ limit \in 1..Len(result) /\ limit < n
    <3> DEFINE l == Len(result)  k == Len(kept)
    <3>1. l \in Nat /\ k \in Nat /\ l <= k /\ (l # limit => l = k) /\ n \in 1..k /\ n \notin 1..l
      BY <1>1, <2>2
    <3> HIDE DEF l, k
    <3>2. l = limit /\ limit \in 1..k /\ limit \in 1..l /\ limit < n
      BY <3>1
    <3>. QED
      BY <3>2 DEF l, k
  <2>. QED
    BY <1>1, <1>3, <2>1, <2>3
<1>8. CASE h \in K
  BY <1>2, <1>7, <1>8 DEF result
<1>9. CASE h \notin K
  <2>0. Ranked(own) /\ h \in own
    BY KeptIs DEF own
  <2>1. /\ Cardinality(own) \in Nat /\ Cardinality(Ahead(own, h)) \in 0..Cardinality(own) - 1
        /\ \A g \in own : Before(g, h) <=> Cardinality(Ahead(own, g)) < Cardinality(Ahead(own, h))
        /\ \A g \in own : Cardinality(Ahead(own, g)) \in Nat
    BY <2>0, AheadCounts
  <2>2. ~(Cardinality(Ahead(own, h)) < cap)
    BY <1>4, <1>9 DEF own
  <2>3. \A g \in first : Before(g, h)
    BY <2>1, <2>2
  <2>4. IsFiniteSet(first) /\ Cardinality(first) = cap
    <3>1. Cardinality(own) >= cap
      BY <2>1, <2>2
    <3>. QED
      BY <2>0, <3>1, AheadBelow
  <2> HIDE DEF first
  <2>5. CASE \A g \in first : \E n \in DOMAIN result : result[n] = g
    <3> DEFINE at == [g \in first |-> CHOOSE n \in DOMAIN result : result[n] = g]
    <3>1. \A g \in first : at[g] \in DOMAIN result /\ result[at[g]] = g
      BY <2>5
    <3>2. \A g \in first : at[g] \in there
      BY <1>6, <2>3, <3>1
    <3>3. DOMAIN at = first
      OBVIOUS
    <3> HIDE DEF at
    <3>4. IsFiniteSet(there) /\ Cardinality(there) \in Nat
      <4>1. there \subseteq 1..Len(result)
        BY <1>1
      <4>2. IsFiniteSet(1..Len(result))
        BY ONLY <1>10, FS_Interval
      <4> HIDE DEF there
      <4>. QED
        BY <4>1, <4>2, FS_Subset, FS_CardinalityType
    <3> HIDE DEF there
    <3>5. at \in Injection(first, there)
      <4>1. at \in [first -> there]
        <5>1. at = [g \in first |-> at[g]]
          BY <3>3 DEF at
        <5>. QED
          BY <3>2, <5>1
      <4>2. \A g, k \in first : at[g] = at[k] => g = k
        BY <3>1
      <4>. QED
        BY <4>1, <4>2 DEF Injection, IsInjective
    <3>6. Cardinality(first) <= Cardinality(there)
      BY <3>4, <3>5, FS_Injection
    <3>7. Cardinality(there) >= cap
      BY <2>4, <3>4, <3>6
    <3>. QED
      BY <3>7 DEF Capped, result, there
  <2>6. CASE \E g \in first : \A n \in DOMAIN result : result[n] # g
    <3>1. PICK g \in first : \A n \in DOMAIN result : result[n] # g
      BY <2>6
    <3>2. Len(result) = limit /\ result[limit] \in hits /\ Before(result[limit], g)
      BY <1>6, <1>7, <3>1
    <3>3. g \in hits /\ Before(g, h)
      BY <1>6, <2>3
    <3>4. Before(result[limit], h)
      BY <3>2, <3>3, BeforeOrders
    <3>. QED
      BY <3>2, <3>4 DEF result
  <2>. QED
    BY <2>5, <2>6
<1>. QED
  BY <1>8, <1>9

\* Scored chunks: a chunk has one rank.
Rating(rated) ==
  /\ IsFiniteSet(rated)
  /\ \A c \in rated : /\ c.chunk.blob \in Nat /\ c.chunk.index \in Nat /\ c.rank \in Ratio
  /\ \A c, d \in rated :
       c.chunk.blob = d.chunk.blob /\ c.chunk.index = d.chunk.index => c = d

LEMMA ImageFinite ==
  ASSUME NEW f, IsFiniteSet(DOMAIN f)
  PROVE  /\ IsFiniteSet({f[x] : x \in DOMAIN f})
         /\ Cardinality({f[x] : x \in DOMAIN f}) <= Cardinality(DOMAIN f)
<1> DEFINE T == {f[x] : x \in DOMAIN f}
           g == [x \in DOMAIN f |-> f[x]]
<1>1. g \in Surjection(DOMAIN f, T)
  BY DEF Surjection
<1> HIDE DEF g, T
<1>2. IsFiniteSet(T) /\ Cardinality(T) <= Cardinality(DOMAIN f)
  BY <1>1, FS_Surjection
<1>. QED
  BY <1>2 DEF T

LEMMA PairsAre ==
  ASSUME NEW S, NEW T
  PROVE  /\ IsFiniteSet(S) /\ IsFiniteSet(T) => IsFiniteSet(S \X T)
         /\ \A x \in S \X T : x[1] \in S /\ x[2] \in T
         /\ \A y \in S, z \in T : <<y, z>> \in S \X T /\ <<y, z>>[1] = y /\ <<y, z>>[2] = z
<1>1. IsFiniteSet(S) /\ IsFiniteSet(T) => IsFiniteSet(S \X T)
  BY FS_Product
<1>2. \A x \in S \X T : x[1] \in S /\ x[2] \in T
  OBVIOUS
<1>3. \A y \in S, z \in T : <<y, z>> \in S \X T /\ <<y, z>>[1] = y /\ <<y, z>>[2] = z
  OBVIOUS
<1>. QED
  BY <1>1, <1>2, <1>3

\* The hits of rated chunks at the paths that show them are ranked.
LEMMA HitsRanked ==
  ASSUME NEW files, IsFiniteSet(DOMAIN files), DOMAIN files \subseteq Nat,
         NEW rated, Rating(rated)
  PROVE  Ranked(HitsShown(files, HitsOf(files, rated)))
<1> DEFINE D == DOMAIN files
           pairs == D \X rated
           f == [x \in pairs |-> [path |-> x[1], chunk |-> x[2].chunk, rank |-> x[2].rank]]
           all == HitsOf(files, rated)
<1>0. IsFiniteSet(rated)
  BY DEF Rating
<1>00. IsFiniteSet(D)
  OBVIOUS
<1> HIDE DEF D
<1>1. IsFiniteSet(pairs)
  BY <1>0, <1>00, PairsAre
<1>2. {f[x] : x \in DOMAIN f} = all
  <2>1. ASSUME NEW x \in pairs
        PROVE  f[x] \in all
    <3>1. x[1] \in D /\ x[2] \in rated
      BY PairsAre
    <3>2. f[x] = [path |-> x[1], chunk |-> x[2].chunk, rank |-> x[2].rank]
      OBVIOUS
    <3> HIDE DEF f
    <3>. QED
      BY <3>1, <3>2 DEF HitsOf, D
  <2>2. ASSUME NEW h \in all
        PROVE  \E x \in pairs : f[x] = h
    <3>1. PICK p \in D, c \in rated : h = [path |-> p, chunk |-> c.chunk, rank |-> c.rank]
      BY <2>2 DEF HitsOf, D
    <3> HIDE DEF all
    <3> DEFINE x == <<p, c>>
    <3>2. x \in pairs /\ x[1] = p /\ x[2] = c
      BY PairsAre
    <3> HIDE DEF x
    <3>3. f[x] = h
      BY <3>1, <3>2
    <3>. QED
      BY <3>2, <3>3
  <2>3. DOMAIN f = pairs
    OBVIOUS
  <2> HIDE DEF f, all, pairs
  <2>. QED
    BY <2>1, <2>2, <2>3
<1>3. DOMAIN f = pairs
  OBVIOUS
<1> HIDE DEF f, pairs
<1>4. IsFiniteSet(all)
  BY <1>1, <1>2, <1>3, ImageFinite
<1> HIDE DEF all
<1> DEFINE hits == HitsShown(files, all)
<1>5. hits \subseteq all /\ \A h \in hits : files[h.path] = h.chunk.blob
  BY DEF HitsShown
<1> HIDE DEF hits
<1>6. IsFiniteSet(hits)
  BY <1>4, <1>5, FS_Subset
<1>7. \A h \in all : h.path \in DOMAIN files /\ \E c \in rated :
        h = [path |-> h.path, chunk |-> c.chunk, rank |-> c.rank]
  BY DEF all, HitsOf
<1>8. \A h \in all : h.path \in Nat /\ h.chunk.index \in Nat /\ h.chunk.blob \in Nat /\ h.rank \in Ratio
  BY <1>7 DEF Rating
<1>9. ASSUME NEW h \in hits, NEW g \in hits, h.path = g.path, h.chunk.index = g.chunk.index
      PROVE  h = g
  <2>1. h.chunk.blob = g.chunk.blob /\ h \in all /\ g \in all
    BY <1>5, <1>9
  <2>2. PICK c \in rated : h = [path |-> h.path, chunk |-> c.chunk, rank |-> c.rank]
    BY <1>7, <2>1
  <2>3. PICK d \in rated : g = [path |-> g.path, chunk |-> d.chunk, rank |-> d.rank]
    BY <1>7, <2>1
  <2>4. h.chunk = c.chunk /\ g.chunk = d.chunk
    BY <2>2, <2>3
  <2>5. c = d
    BY <1>9, <2>1, <2>4 DEF Rating
  <2>. QED
    BY <1>9, <2>2, <2>3, <2>5
<1>. QED
  BY <1>5, <1>6, <1>8, <1>9 DEF Ranked, hits, all

LEMMA CorpusPart ==
  ASSUME NEW chunks, Corpus(chunks), NEW some \in SUBSET chunks
  PROVE  /\ Corpus(some) /\ IsFiniteSet(some) /\ Cardinality(some) \in Nat
         /\ Cardinality(chunks) \in Nat /\ Cardinality(some) <= Cardinality(chunks)
<1>1. IsFiniteSet(chunks)
  BY DEF Corpus
<1>2. IsFiniteSet(some) /\ Cardinality(some) <= Cardinality(chunks)
  BY <1>1, FS_Subset
<1>3. Cardinality(some) \in Nat /\ Cardinality(chunks) \in Nat
  BY <1>1, <1>2, FS_CardinalityType
<1>. QED
  BY <1>2, <1>3 DEF Corpus

\* Chunks of a corpus that have a rank each are rated, and no more than there are.
LEMMA RatingOf ==
  ASSUME NEW chunks, Corpus(chunks), NEW rated,
         \A u \in rated : u.chunk \in chunks /\ u.rank \in Ratio,
         \A u, v \in rated : u.chunk = v.chunk => u = v
  PROVE  /\ Rating(rated) /\ Cardinality(rated) \in Nat
         /\ Cardinality(rated) <= Cardinality(chunks)
<1> DEFINE f == [u \in rated |-> u.chunk]
<1>1. IsFiniteSet(chunks)
  BY DEF Corpus
<1>2. f \in [rated -> chunks] /\ \A u \in rated : f[u] = u.chunk
  OBVIOUS
<1> HIDE DEF f
<1>3. f \in Injection(rated, chunks)
  BY <1>2 DEF Injection, IsInjective
<1>4. IsFiniteSet(rated) /\ Cardinality(rated) <= Cardinality(chunks)
  BY <1>1, <1>3, FS_Injection
<1>5. Cardinality(rated) \in Nat
  BY <1>4, FS_CardinalityType
<1>6. \A c \in chunks : c.blob \in Nat /\ c.index \in Nat
  BY DEF Corpus
<1>7. \A c, d \in chunks : c.blob = d.blob /\ c.index = d.index => c = d
  BY DEF Corpus
<1>8. Rating(rated)
  BY <1>4, <1>6, <1>7 DEF Rating
<1>. QED
  BY <1>4, <1>5, <1>8

LEMMA PlaceIs ==
  ASSUME NEW rated, Rating(rated), NEW c \in rated
  PROVE  /\ Cardinality(rated) \in Nat
         /\ Place(rated, c) \in 1..Cardinality(rated)
         /\ \A d \in rated : Higher(c.rank, d.rank) => Place(rated, c) < Place(rated, d)
<1> DEFINE B(d) == {e \in rated : \/ Higher(e.rank, d.rank)
                                  \/ Level(e.rank, d.rank) /\ Earlier(e.chunk, d.chunk)}
<1>1. IsFiniteSet(rated) /\ Cardinality(rated) \in Nat
  BY FS_CardinalityType DEF Rating
<1>2. \A d \in rated : B(d) \subseteq rated /\ d \notin B(d)
  <2> TAKE d \in rated
  <2>1. d.rank \in Ratio /\ d.chunk.blob \in Nat /\ d.chunk.index \in Nat
    BY DEF Rating
  <2>2. ~Higher(d.rank, d.rank)
    BY <2>1, RatiosOrdered
  <2>3. ~Earlier(d.chunk, d.chunk)
    BY <2>1 DEF Earlier
  <2>. QED
    BY <2>2, <2>3
<1>3. ASSUME NEW d \in rated, Higher(c.rank, d.rank)
      PROVE  B(c) \subseteq B(d) /\ c \in B(d)
  <2>1. \A e \in rated : e.rank \in Ratio
    BY DEF Rating
  <2>2. \A e \in rated : Higher(e.rank, c.rank) \/ Level(e.rank, c.rank) => Higher(e.rank, d.rank)
    BY <1>3, <2>1, RatiosOrdered
  <2>. QED
    BY <1>3, <2>2
<1>4. \A d : Place(rated, d) = 1 + Cardinality(B(d))
  BY DEF Place
<1> HIDE DEF B
<1>5. \A d \in rated : IsFiniteSet(B(d)) /\ Cardinality(B(d)) \in 0..Cardinality(rated) - 1
  <2> TAKE d \in rated
  <2>1. /\ IsFiniteSet(B(d)) /\ Cardinality(B(d)) <= Cardinality(rated)
        /\ Cardinality(rated) # Cardinality(B(d))
    BY <1>1, <1>2, FS_Subset
  <2>2. Cardinality(B(d)) \in Nat
    BY <2>1, FS_CardinalityType
  <2>. QED
    BY <1>1, <2>1, <2>2
<1>6. Place(rated, c) \in 1..Cardinality(rated)
  BY <1>1, <1>4, <1>5
<1>7. ASSUME NEW d \in rated, Higher(c.rank, d.rank)
      PROVE  Place(rated, c) < Place(rated, d)
  <2>1. B(c) \subseteq B(d) /\ c \in B(d) /\ c \notin B(c)
    BY <1>2, <1>3, <1>7
  <2>2. Cardinality(B(c)) <= Cardinality(B(d)) /\ Cardinality(B(d)) # Cardinality(B(c))
    BY <1>5, <2>1, FS_Subset
  <2>. QED
    BY <1>1, <1>4, <1>5, <2>2
<1>. QED
  BY <1>1, <1>6, <1>7

LEMMA BestIs ==
  ASSUME NEW rated, Rating(rated), NEW n \in Nat
  PROVE  /\ Best(rated, n) \subseteq rated /\ Rating(Best(rated, n))
         /\ Cardinality(rated) <= n => Best(rated, n) = rated
<1>1. Best(rated, n) \subseteq rated
  BY DEF Best
<1>2. IsFiniteSet(Best(rated, n))
  BY <1>1, FS_Subset DEF Rating
<1>3. Rating(Best(rated, n))
  BY <1>1, <1>2 DEF Rating
<1>4. ASSUME Cardinality(rated) <= n
      PROVE  \A c \in rated : Place(rated, c) <= n
  <2> TAKE c \in rated
  <2>1. Cardinality(rated) \in Nat /\ Place(rated, c) \in 1..Cardinality(rated)
    BY PlaceIs
  <2>. QED
    BY <1>4, <2>1
<1>. QED
  BY <1>1, <1>3, <1>4 DEF Best

\* What a ranking adds: by its place there, or nothing.
LEMMA ShareIs ==
  ASSUME NEW rated, Rating(rated), NEW chunk, NEW n \in Nat
  PROVE  /\ Share(rated, chunk, n) \in Ratio
         /\ \A u \in Best(rated, n) : u.chunk = chunk =>
              Share(rated, chunk, n) = <<1, RrfK + Place(rated, u)>>
         /\ (\A u \in Best(rated, n) : u.chunk # chunk) => Share(rated, chunk, n) = <<0, 1>>
<1> DEFINE ranked == {c \in Best(rated, n) : c.chunk = chunk}
<1>1. Best(rated, n) \subseteq rated /\ Rating(Best(rated, n))
  BY BestIs
<1>2. \A u, v \in ranked : u = v
  BY <1>1 DEF Rating
<1>3. Share(rated, chunk, n) = IF ranked = {} THEN <<0, 1>> ELSE <<1, RrfK + Place(rated, CHOOSE c \in ranked : TRUE)>>
  BY DEF Share
<1>4. ASSUME NEW u \in ranked
      PROVE  Share(rated, chunk, n) = <<1, RrfK + Place(rated, u)>> /\ Share(rated, chunk, n) \in Ratio
  <2>1. (CHOOSE c \in ranked : TRUE) \in ranked /\ ranked # {}
    BY <1>4
  <2>2. (CHOOSE c \in ranked : TRUE) = u
    BY <1>2, <1>4, <2>1
  <2>3. Share(rated, chunk, n) = <<1, RrfK + Place(rated, u)>>
    BY <1>3, <2>1, <2>2
  <2>4. Cardinality(rated) \in Nat /\ Place(rated, u) \in 1..Cardinality(rated)
    BY <1>1, PlaceIs
  <2>5. RrfK + Place(rated, u) \in Nat \ {0}
    BY <2>4, SearchAssumption
  <2>. QED
    BY <2>3, <2>5 DEF Ratio
<1>5. ranked = {} => Share(rated, chunk, n) = <<0, 1>> /\ Share(rated, chunk, n) \in Ratio
  BY <1>3 DEF Ratio
<1>. QED
  BY <1>4, <1>5

LEMMA Products ==
  ASSUME NEW m \in Nat, NEW n \in Nat, NEW k \in Nat, NEW l \in Nat
  PROVE  /\ m * n \in Nat /\ m + n \in Nat
         /\ (m * n) * (k * l) = (m * k) * (n * l) /\ (m * n) * (k * l) = (k * m) * (l * n)
         /\ (m + n) * k = m * k + n * k
         /\ m # 0 /\ n # 0 => m * n # 0
         /\ m >= n => m * k >= n * k
OBVIOUS

\* A sum of ratios grows with both of them.
LEMMA SumsGrow ==
  ASSUME NEW r \in Ratio, NEW s \in Ratio, NEW t \in Ratio, NEW u \in Ratio
  PROVE  /\ Plus(r, s) \in Ratio
         /\ Higher(r, s) /\ (Higher(t, u) \/ t = u) => Higher(Plus(r, t), Plus(s, u))
         /\ Higher(r, s) /\ (Higher(t, u) \/ t = u) => Higher(Plus(t, r), Plus(u, s))
<1>1. /\ r[1] \in Nat /\ s[1] \in Nat /\ t[1] \in Nat /\ u[1] \in Nat
      /\ r[2] \in Nat \ {0} /\ s[2] \in Nat \ {0} /\ t[2] \in Nat \ {0} /\ u[2] \in Nat \ {0}
  BY DEF Ratio
<1> DEFINE a == r[1]  b == r[2]  c == s[1]  d == s[2]  e == t[1]  f == t[2]  g == u[1]  h == u[2]
<1>2. /\ a \in Nat /\ c \in Nat /\ e \in Nat /\ g \in Nat
      /\ b \in Nat \ {0} /\ d \in Nat \ {0} /\ f \in Nat \ {0} /\ h \in Nat \ {0}
  BY <1>1
<1>3. /\ Plus(r, s) = <<a * d + c * b, b * d>>
      /\ Plus(r, t) = <<a * f + e * b, b * f>> /\ Plus(s, u) = <<c * h + g * d, d * h>>
      /\ Plus(t, r) = <<e * b + a * f, f * b>> /\ Plus(u, s) = <<g * d + c * h, h * d>>
  BY DEF Plus
<1>4. /\ Higher(r, s) <=> a * d > c * b
      /\ Higher(t, u) <=> e * h > g * f
      /\ t = u => e = g /\ f = h
      /\ Higher(Plus(r, t), Plus(s, u)) <=> (a * f + e * b) * (d * h) > (c * h + g * d) * (b * f)
      /\ Higher(Plus(t, r), Plus(u, s)) <=> (e * b + a * f) * (h * d) > (g * d + c * h) * (f * b)
  BY <1>3 DEF Higher
<1> HIDE DEF a, b, c, d, e, f, g, h
<1>5. Plus(r, s) \in Ratio
  <2>1. a * d \in Nat /\ c * b \in Nat /\ b * d \in Nat /\ b * d # 0
    BY <1>2, Products
  <2>2. a * d + c * b \in Nat
    BY <2>1
  <2>. QED
    BY <1>3, <2>1, <2>2 DEF Ratio
<1> DEFINE fh == f * h  bd == b * d  ad == a * d  cb == c * b  eh == e * h  gf == g * f
           left == (a * f + e * b) * (d * h)
           right == (c * h + g * d) * (b * f)
<1>6. /\ fh \in Nat \ {0} /\ bd \in Nat \ {0} /\ ad \in Nat /\ cb \in Nat /\ eh \in Nat /\ gf \in Nat
      /\ a * f \in Nat /\ e * b \in Nat /\ d * h \in Nat /\ c * h \in Nat /\ g * d \in Nat /\ b * f \in Nat
      /\ e * b + a * f = a * f + e * b /\ g * d + c * h = c * h + g * d
      /\ h * d = d * h /\ f * b = b * f
  BY <1>2, Products
<1>7. left = ad * fh + eh * bd
  <2>1. left = (a * f) * (d * h) + (e * b) * (d * h)
    BY <1>6, Products
  <2>2. (a * f) * (d * h) = ad * fh
    BY <1>2, Products
  <2>3. (e * b) * (d * h) = eh * bd
    <3>1. d * h = h * d
      BY <1>6
    <3>2. (e * b) * (h * d) = (e * h) * (b * d)
      BY <1>2, Products
    <3>. QED
      BY <3>1, <3>2
  <2>. QED
    BY <2>1, <2>2, <2>3
<1>8. right = cb * fh + gf * bd
  <2>1. right = (c * h) * (b * f) + (g * d) * (b * f)
    BY <1>6, Products
  <2>2. (c * h) * (b * f) = cb * fh
    <3>1. (c * h) * (b * f) = (c * b) * (h * f)
      BY <1>2, Products
    <3>2. h * f = f * h
      BY <1>2
    <3>. QED
      BY <3>1, <3>2
  <2>3. (g * d) * (b * f) = gf * bd
    <3>1. b * f = f * b
      BY <1>6
    <3>2. (g * d) * (f * b) = (g * f) * (d * b)
      BY <1>2, Products
    <3>3. d * b = b * d
      BY <1>2
    <3>. QED
      BY <3>1, <3>2, <3>3
  <2>. QED
    BY <2>1, <2>2, <2>3
<1>9. ASSUME Higher(r, s), Higher(t, u) \/ t = u
      PROVE  left > right
  <2>1. ad > cb
    BY <1>4, <1>9
  <2>2. eh >= gf
    <3>1. t = u => eh = gf
      <4> SUFFICES ASSUME t = u
                   PROVE  e * h = g * f
        OBVIOUS
      <4>1. e = g /\ f = h
        BY <1>4
      <4>. QED
        BY <4>1
    <3> HIDE DEF ad, cb
    <3>2. Higher(t, u) => eh > gf
      BY <1>4
    <3>. QED
      BY <1>6, <1>9, <3>1, <3>2
  <2> HIDE DEF fh, bd, ad, cb, eh, gf, left, right
  <2> DEFINE p == ad * fh  q == cb * fh  v == eh * bd  w == gf * bd
  <2>3. p \in Nat /\ q \in Nat /\ v \in Nat /\ w \in Nat
    BY <1>6, Products
  <2>4. p > q
    BY <1>6, <2>1, Scaled
  <2>5. v >= w
    BY <1>6, <2>2, Products
  <2>6. left = p + v /\ right = q + w
    BY <1>7, <1>8
  <2> HIDE DEF p, q, v, w
  <2>. QED
    BY <2>3, <2>4, <2>5, <2>6
<1>10. /\ Higher(Plus(r, t), Plus(s, u)) <=> left > right
       /\ Higher(Plus(t, r), Plus(u, s)) <=> left > right
  BY <1>4, <1>6
<1>. QED
  BY <1>5, <1>9, <1>10

Hits(signal, scope) == {c \in scope : Matching(signal, c)}

\* The chunks that match a signal, rated.
LEMMA ScoredIs ==
  ASSUME NEW scope, Corpus(scope)
  PROVE  LET text == TextScored(scope)
             vector == VectorScored(scope)
         IN /\ Rating(text) /\ Cardinality(text) \in Nat
            /\ Cardinality(text) <= Cardinality(Hits("text", scope))
            /\ \A u \in text : u.chunk \in scope /\ u.chunk.score > 0 /\ u.rank = <<u.chunk.score, 1>>
            /\ \A c \in scope : c.score > 0 => \E u \in text : u.chunk = c
            /\ Rating(vector) /\ Cardinality(vector) \in Nat
            /\ Cardinality(vector) <= Cardinality(Hits("vector", scope))
            /\ \A u \in vector : u.chunk \in scope /\ u.chunk.near > 0 /\ u.rank = <<u.chunk.near, 1>>
            /\ \A c \in scope : c.near > 0 => \E u \in vector : u.chunk = c
<1> DEFINE text == TextScored(scope)
           vector == VectorScored(scope)
<1>1. \A c \in scope : c.score \in Nat /\ c.near \in Nat
  BY DEF Corpus
<1>2. \A u : u \in text <=> \E c \in scope : c.score > 0 /\ u = [chunk |-> c, rank |-> <<c.score, 1>>]
  BY DEF TextScored, Rated
<1>3. \A u : u \in vector <=> \E c \in scope : c.near > 0 /\ u = [chunk |-> c, rank |-> <<c.near, 1>>]
  BY DEF VectorScored, Rated
<1> HIDE DEF text, vector
<1>4. /\ \A u \in text : u.chunk \in scope /\ u.chunk.score > 0 /\ u.rank = <<u.chunk.score, 1>>
      /\ \A c \in scope : c.score > 0 => \E u \in text : u.chunk = c
      /\ \A u, v \in text : u.chunk = v.chunk => u = v
  <2>1. \A u \in text : u.chunk \in scope /\ u.chunk.score > 0 /\ u.rank = <<u.chunk.score, 1>>
    BY <1>2
  <2>2. ASSUME NEW c \in scope, c.score > 0
        PROVE  \E u \in text : u.chunk = c
    <3> DEFINE u == [chunk |-> c, rank |-> <<c.score, 1>>]
    <3>1. u \in text
      BY <1>2, <2>2
    <3>2. u.chunk = c
      OBVIOUS
    <3>. QED
      BY <3>1, <3>2
  <2>3. \A u, v \in text : u.chunk = v.chunk => u = v
    BY <1>2
  <2>. QED
    BY <2>1, <2>2, <2>3
<1>5. /\ \A u \in vector : u.chunk \in scope /\ u.chunk.near > 0 /\ u.rank = <<u.chunk.near, 1>>
      /\ \A c \in scope : c.near > 0 => \E u \in vector : u.chunk = c
      /\ \A u, v \in vector : u.chunk = v.chunk => u = v
  <2>1. \A u \in vector : u.chunk \in scope /\ u.chunk.near > 0 /\ u.rank = <<u.chunk.near, 1>>
    BY <1>3
  <2>2. ASSUME NEW c \in scope, c.near > 0
        PROVE  \E u \in vector : u.chunk = c
    <3> DEFINE u == [chunk |-> c, rank |-> <<c.near, 1>>]
    <3>1. u \in vector
      BY <1>3, <2>2
    <3>2. u.chunk = c
      OBVIOUS
    <3>. QED
      BY <3>1, <3>2
  <2>3. \A u, v \in vector : u.chunk = v.chunk => u = v
    BY <1>3
  <2>. QED
    BY <2>1, <2>2, <2>3
<1>6. Corpus(Hits("text", scope)) /\ Corpus(Hits("vector", scope))
  BY CorpusPart DEF Hits
<1>7. \A u \in text : u.chunk \in Hits("text", scope) /\ u.rank \in Ratio
  <2> TAKE u \in text
  <2>1. u.chunk \in scope /\ u.chunk.score > 0 /\ u.rank = <<u.chunk.score, 1>> /\ u.chunk.score \in Nat
    BY <1>1, <1>4
  <2>2. Matching("text", u.chunk)
    BY <2>1 DEF Matching
  <2>3. u.rank \in Ratio
    BY <2>1 DEF Ratio
  <2>. QED
    BY <2>1, <2>2, <2>3 DEF Hits
<1>8. \A u \in vector : u.chunk \in Hits("vector", scope) /\ u.rank \in Ratio
  <2> TAKE u \in vector
  <2>1. u.chunk \in scope /\ u.chunk.near > 0 /\ u.rank = <<u.chunk.near, 1>> /\ u.chunk.near \in Nat
    BY <1>1, <1>5
  <2>2. Matching("vector", u.chunk)
    BY <2>1 DEF Matching
  <2>3. u.rank \in Ratio
    BY <2>1 DEF Ratio
  <2>. QED
    BY <2>1, <2>2, <2>3 DEF Hits
<1>9. Rating(text) /\ Cardinality(text) \in Nat /\ Cardinality(text) <= Cardinality(Hits("text", scope))
  BY <1>4, <1>6, <1>7, RatingOf
<1>10. Rating(vector) /\ Cardinality(vector) \in Nat /\ Cardinality(vector) <= Cardinality(Hits("vector", scope))
  BY <1>5, <1>6, <1>8, RatingOf
<1>. QED
  BY <1>4, <1>5, <1>9, <1>10 DEF text, vector

\* The fused ranking has the best chunks of both, rated by what they add to them.
LEMMA FusedIs ==
  ASSUME NEW scope, Corpus(scope), NEW n \in Nat
  PROVE  LET text == TextScored(scope)
             vector == VectorScored(scope)
             fused == Fused(scope, n)
         IN /\ Rating(fused) /\ Cardinality(fused) \in Nat
            /\ Cardinality(fused) <= Cardinality(Hits("hybrid", scope))
            /\ \A u \in fused :
                 /\ u.chunk \in Hits("hybrid", scope)
                 /\ u.rank = Plus(Share(text, u.chunk, n), Share(vector, u.chunk, n))
                 /\ \E v \in Best(text, n) \cup Best(vector, n) : v.chunk = u.chunk
            /\ \A v \in Best(text, n) \cup Best(vector, n) : \E u \in fused : u.chunk = v.chunk
<1> DEFINE text == TextScored(scope)
           vector == VectorScored(scope)
           best == Best(text, n) \cup Best(vector, n)
           fused == Fused(scope, n)
           F(c) == Plus(Share(text, c, n), Share(vector, c, n))
           H == Hits("hybrid", scope)
<1>1. /\ Rating(text) /\ Rating(vector)
      /\ \A u \in text : u.chunk \in scope /\ u.chunk.score > 0
      /\ \A u \in vector : u.chunk \in scope /\ u.chunk.near > 0
  BY ScoredIs
<1>2. \A u : u \in fused <=> \E v \in best : u = [chunk |-> v.chunk, rank |-> F(v.chunk)]
  BY DEF Fused, Rated
<1>3. Corpus(H)
  BY CorpusPart DEF Hits
<1> HIDE DEF text, vector
<1>4. \A c : Share(text, c, n) \in Ratio /\ Share(vector, c, n) \in Ratio
  BY <1>1, ShareIs
<1>5. \A c : F(c) \in Ratio
  BY <1>4, SumsGrow
<1>6. Best(text, n) \subseteq text /\ Best(vector, n) \subseteq vector
  BY <1>1, BestIs
<1>7. \A v \in best : v.chunk \in H
  BY <1>1, <1>6 DEF Hits, Matching
<1> HIDE DEF fused, best, F, H
<1>8. /\ \A u \in fused : u.rank = F(u.chunk) /\ \E v \in best : v.chunk = u.chunk
      /\ \A v \in best : \E u \in fused : u.chunk = v.chunk
      /\ \A u, v \in fused : u.chunk = v.chunk => u = v
  <2>1. \A u \in fused : u.rank = F(u.chunk) /\ \E v \in best : v.chunk = u.chunk
    BY <1>2
  <2>2. ASSUME NEW v \in best
        PROVE  \E u \in fused : u.chunk = v.chunk
    <3> DEFINE u == [chunk |-> v.chunk, rank |-> F(v.chunk)]
    <3>1. u \in fused
      BY <1>2
    <3>2. u.chunk = v.chunk
      OBVIOUS
    <3>. QED
      BY <3>1, <3>2
  <2>3. \A u, v \in fused : u.chunk = v.chunk => u = v
    BY <1>2
  <2>. QED
    BY <2>1, <2>2, <2>3
<1>9. \A u \in fused : u.chunk \in H /\ u.rank \in Ratio
  BY <1>5, <1>7, <1>8
<1>10. Rating(fused) /\ Cardinality(fused) \in Nat /\ Cardinality(fused) <= Cardinality(H)
  BY <1>3, <1>8, <1>9, RatingOf
<1>. QED
  BY <1>8, <1>9, <1>10 DEF text, vector, best, fused, F, H

\* A window that all matching chunks fit in has them all, and no rank depends on it.
LEMMA FusedWhole ==
  ASSUME NEW scope, Corpus(scope), NEW n \in Nat, Cardinality(Hits("hybrid", scope)) <= n
  PROVE  /\ Best(TextScored(scope), n) = TextScored(scope)
         /\ Best(VectorScored(scope), n) = VectorScored(scope)
<1> DEFINE T == Hits("text", scope)  V == Hits("vector", scope)  H == Hits("hybrid", scope)
<1>1. T \subseteq H /\ V \subseteq H /\ H \subseteq scope
  BY DEF Hits, Matching
<1>2. Corpus(H)
  BY <1>1, CorpusPart
<1> HIDE DEF T, V, H
<1>3. /\ Cardinality(T) \in Nat /\ Cardinality(V) \in Nat /\ Cardinality(H) \in Nat
      /\ Cardinality(T) <= Cardinality(H) /\ Cardinality(V) <= Cardinality(H)
  BY <1>1, <1>2, CorpusPart
<1> DEFINE t == Cardinality(TextScored(scope))  v == Cardinality(VectorScored(scope))
<1>4. /\ Rating(TextScored(scope)) /\ t \in Nat /\ t <= Cardinality(T)
      /\ Rating(VectorScored(scope)) /\ v \in Nat /\ v <= Cardinality(V)
  BY ScoredIs DEF T, V
<1>5. Cardinality(H) <= n
  BY DEF H
<1>6. t <= n /\ v <= n
  BY <1>3, <1>4, <1>5
<1>. QED
  BY <1>4, <1>6, BestIs

LEMMA CandidatesAre ==
  ASSUME NEW scope, Corpus(scope), NEW signal \in Signals, NEW n \in Nat
  PROVE  /\ Rating(Candidates(signal, scope, n))
         /\ \A u \in Candidates(signal, scope, n) : u.chunk \in Hits(signal, scope)
         /\ signal = "hybrid" => Candidates(signal, scope, n) \subseteq Fused(scope, n)
         /\ Cardinality(Hits(signal, scope)) <= n =>
              /\ \A c \in Hits(signal, scope) : \E u \in Candidates(signal, scope, n) : u.chunk = c
              /\ \A m \in Nat : Cardinality(Hits(signal, scope)) <= m =>
                   Candidates(signal, scope, m) = Candidates(signal, scope, n)
<1> DEFINE text == TextScored(scope)
           vector == VectorScored(scope)
<1>0. \A m \in Nat :
        /\ Candidates("text", scope, m) = Best(text, m)
        /\ Candidates("vector", scope, m) = Best(vector, m)
        /\ Candidates("hybrid", scope, m) = Best(Fused(scope, m), m)
  BY DEF Candidates
<1>1. /\ Rating(text) /\ Cardinality(text) \in Nat
      /\ Cardinality(text) <= Cardinality(Hits("text", scope))
      /\ \A u \in text : u.chunk \in Hits("text", scope)
      /\ \A c \in Hits("text", scope) : \E u \in text : u.chunk = c
  BY ScoredIs DEF Hits, Matching
<1>2. /\ Rating(vector) /\ Cardinality(vector) \in Nat
      /\ Cardinality(vector) <= Cardinality(Hits("vector", scope))
      /\ \A u \in vector : u.chunk \in Hits("vector", scope)
      /\ \A c \in Hits("vector", scope) : \E u \in vector : u.chunk = c
  BY ScoredIs DEF Hits, Matching
<1>3. Cardinality(Hits(signal, scope)) \in Nat
  BY CorpusPart DEF Hits
<1> HIDE DEF text, vector
<1>4. CASE signal = "text"
  <2>1. Best(text, n) \subseteq text /\ Rating(Best(text, n))
    BY <1>1, BestIs
  <2>2. \A m \in Nat : Cardinality(Hits(signal, scope)) <= m => Best(text, m) = text
    <3> TAKE m \in Nat
    <3> HAVE Cardinality(Hits(signal, scope)) <= m
    <3>1. Cardinality(text) <= m
      BY <1>1, <1>3, <1>4
    <3>. QED
      BY <1>1, <3>1, BestIs
  <2>. QED
    BY <1>0, <1>1, <1>4, <2>1, <2>2
<1>5. CASE signal = "vector"
  <2>1. Best(vector, n) \subseteq vector /\ Rating(Best(vector, n))
    BY <1>2, BestIs
  <2>2. \A m \in Nat : Cardinality(Hits(signal, scope)) <= m => Best(vector, m) = vector
    <3> TAKE m \in Nat
    <3> HAVE Cardinality(Hits(signal, scope)) <= m
    <3>1. Cardinality(vector) <= m
      BY <1>2, <1>3, <1>5
    <3>. QED
      BY <1>2, <3>1, BestIs
  <2>. QED
    BY <1>0, <1>2, <1>5, <2>1, <2>2
<1>6. CASE signal = "hybrid"
  <2> DEFINE H == Hits("hybrid", scope)
  <2>1. \A m \in Nat : /\ Rating(Fused(scope, m)) /\ Cardinality(Fused(scope, m)) \in Nat
                       /\ Cardinality(Fused(scope, m)) <= Cardinality(H)
                       /\ \A u \in Fused(scope, m) : u.chunk \in H
    BY FusedIs
  <2>2. \A m \in Nat : /\ Best(Fused(scope, m), m) \subseteq Fused(scope, m)
                       /\ Rating(Best(Fused(scope, m), m))
                       /\ Cardinality(H) <= m => Best(Fused(scope, m), m) = Fused(scope, m)
    <3> TAKE m \in Nat
    <3> HIDE DEF H
    <3>1. /\ Rating(Fused(scope, m)) /\ Cardinality(Fused(scope, m)) \in Nat
          /\ Cardinality(Fused(scope, m)) <= Cardinality(H)
      BY <2>1
    <3>2. Cardinality(H) \in Nat
      BY <1>3, <1>6 DEF H
    <3>3. Cardinality(H) <= m => Cardinality(Fused(scope, m)) <= m
      BY <3>1, <3>2
    <3>. QED
      BY <3>1, <3>3, BestIs
  <2>3. ASSUME NEW m \in Nat, Cardinality(H) <= m
        PROVE  /\ Best(text, m) = text /\ Best(vector, m) = vector
    BY <2>3, FusedWhole DEF text, vector
  <2>4. ASSUME NEW m \in Nat, Cardinality(H) <= m, Cardinality(H) <= n
        PROVE  Fused(scope, m) = Fused(scope, n)
    <3>1. /\ Best(text, m) = text /\ Best(vector, m) = vector
          /\ Best(text, n) = text /\ Best(vector, n) = vector
      BY <2>3, <2>4
    <3>2. \A c : Share(text, c, m) = Share(text, c, n) /\ Share(vector, c, m) = Share(vector, c, n)
      BY <3>1 DEF Share
    <3>. QED
      BY <3>1, <3>2 DEF Fused, text, vector
  <2>5. ASSUME NEW c \in H, Cardinality(H) <= n
        PROVE  \E u \in Fused(scope, n) : u.chunk = c
    <3>1. c \in Hits("text", scope) \/ c \in Hits("vector", scope)
      BY DEF Hits, Matching
    <3>2. PICK v \in text \cup vector : v.chunk = c
      BY <1>1, <1>2, <3>1
    <3>3. v \in Best(text, n) \cup Best(vector, n)
      BY <2>3, <2>5, <3>2
    <3>4. \E u \in Fused(scope, n) : u.chunk = v.chunk
      BY <3>3, FusedIs DEF text, vector
    <3>. QED
      BY <3>2, <3>4
  <2> HIDE DEF H
  <2>6. Hits(signal, scope) = H
    BY <1>6 DEF H
  <2>7. \A m \in Nat : Candidates(signal, scope, m) = Best(Fused(scope, m), m)
    BY <1>0, <1>6
  <2>8. /\ Rating(Candidates(signal, scope, n)) /\ Candidates(signal, scope, n) \subseteq Fused(scope, n)
        /\ \A u \in Candidates(signal, scope, n) : u.chunk \in H
    BY <2>1, <2>2, <2>7
  <2>9. ASSUME Cardinality(H) <= n
        PROVE  /\ Candidates(signal, scope, n) = Fused(scope, n)
               /\ \A m \in Nat : Cardinality(H) <= m => Candidates(signal, scope, m) = Fused(scope, n)
    BY <2>2, <2>4, <2>7, <2>9
  <2>. QED
    BY <2>5, <2>6, <2>8, <2>9
<1>. QED
  BY <1>4, <1>5, <1>6 DEF Signals

\* A chunk that both signals rank above another adds up to more.
LEMMA OutdoneBelow ==
  ASSUME NEW scope, Corpus(scope), NEW n \in Nat, NEW u \in Fused(scope, n), NEW v \in Fused(scope, n),
         Outdone(u.chunk, v.chunk)
  PROVE  Higher(u.rank, v.rank)
<1> DEFINE text == TextScored(scope)
           vector == VectorScored(scope)
           c == u.chunk
           d == v.chunk
<1>1. c.score > d.score /\ c.near > d.near
  BY DEF Outdone
<1>2. /\ Rating(text)
      /\ \A w \in text : w.chunk \in scope /\ w.chunk.score > 0 /\ w.rank = <<w.chunk.score, 1>>
      /\ \A e \in scope : e.score > 0 => \E w \in text : w.chunk = e
      /\ Rating(vector)
      /\ \A w \in vector : w.chunk \in scope /\ w.chunk.near > 0 /\ w.rank = <<w.chunk.near, 1>>
      /\ \A e \in scope : e.near > 0 => \E w \in vector : w.chunk = e
  BY ScoredIs
<1>3. /\ c \in scope /\ d \in scope
      /\ u.rank = Plus(Share(text, c, n), Share(vector, c, n))
      /\ v.rank = Plus(Share(text, d, n), Share(vector, d, n))
      /\ \E w \in Best(text, n) \cup Best(vector, n) : w.chunk = d
  <2>1. \A x \in Fused(scope, n) :
          /\ x.chunk \in Hits("hybrid", scope)
          /\ x.rank = Plus(Share(text, x.chunk, n), Share(vector, x.chunk, n))
          /\ \E w \in Best(text, n) \cup Best(vector, n) : w.chunk = x.chunk
    BY FusedIs
  <2>2. Hits("hybrid", scope) \subseteq scope
    BY DEF Hits
  <2> HIDE DEF text, vector
  <2>. QED
    BY <2>1, <2>2
<1>4. c.score \in Nat /\ d.score \in Nat /\ c.near \in Nat /\ d.near \in Nat
  BY <1>3 DEF Corpus
<1> HIDE DEF text, vector, c, d
<1>5. ASSUME NEW rated, Rating(rated), NEW w \in Best(rated, n), w.chunk = d,
             NEW z \in rated, z.chunk = c, Higher(z.rank, w.rank)
      PROVE  Higher(Share(rated, c, n), Share(rated, d, n))
  <2>1. w \in rated /\ Place(rated, w) <= n
    BY <1>5 DEF Best
  <2>2. /\ Cardinality(rated) \in Nat
        /\ Place(rated, z) \in 1..Cardinality(rated) /\ Place(rated, w) \in 1..Cardinality(rated)
        /\ Place(rated, z) < Place(rated, w)
    BY <1>5, <2>1, PlaceIs
  <2>3. z \in Best(rated, n)
    <3>1. Place(rated, z) <= n
      BY <2>1, <2>2
    <3>. QED
      BY <3>1 DEF Best
  <2>4. Share(rated, c, n) = <<1, RrfK + Place(rated, z)>> /\ Share(rated, d, n) = <<1, RrfK + Place(rated, w)>>
    BY <1>5, <2>3, ShareIs
  <2>5. RrfK \in Nat
    BY SearchAssumption
  <2>6. 1 * (RrfK + Place(rated, w)) > 1 * (RrfK + Place(rated, z))
    BY <2>2, <2>5
  <2>. QED
    BY <2>4, <2>6 DEF Higher
<1>6. ASSUME NEW rated, Rating(rated), \A w \in Best(rated, n) : w.chunk # d
      PROVE  Higher(Share(rated, c, n), Share(rated, d, n)) \/ Share(rated, c, n) = Share(rated, d, n)
  <2>1. Share(rated, d, n) = <<0, 1>>
    BY <1>6, ShareIs
  <2>2. CASE \E z \in Best(rated, n) : z.chunk = c
    <3>1. PICK z \in Best(rated, n) : z.chunk = c
      BY <2>2
    <3>2. Share(rated, c, n) = <<1, RrfK + Place(rated, z)>>
      BY <1>6, <3>1, ShareIs
    <3>3. Place(rated, z) \in Nat /\ RrfK \in Nat
      <4>1. z \in rated
        BY <3>1 DEF Best
      <4>2. Cardinality(rated) \in Nat /\ Place(rated, z) \in 1..Cardinality(rated)
        BY <1>6, <4>1, PlaceIs
      <4>. QED
        BY <4>2, SearchAssumption
    <3>4. 1 * 1 > 0 * (RrfK + Place(rated, z))
      BY <3>3
    <3>. QED
      BY <2>1, <3>2, <3>4 DEF Higher
  <2>3. CASE \A z \in Best(rated, n) : z.chunk # c
    BY <1>6, <2>1, <2>3, ShareIs
  <2>. QED
    BY <2>2, <2>3
<1>7. ASSUME NEW w \in Best(text, n), w.chunk = d
      PROVE  Higher(Share(text, c, n), Share(text, d, n))
  <2>1. w \in text /\ w.chunk.score > 0 /\ w.rank = <<d.score, 1>>
    BY <1>2, <1>7 DEF Best
  <2>2. PICK z \in text : z.chunk = c
    BY <1>1, <1>2, <1>3, <1>4, <1>7, <2>1
  <2>3. z.rank = <<c.score, 1>>
    BY <1>2, <2>2
  <2>4. Higher(z.rank, w.rank)
    BY <1>1, <1>4, <2>1, <2>3 DEF Higher
  <2>. QED
    BY <1>2, <1>5, <1>7, <2>2, <2>4
<1>8. ASSUME NEW w \in Best(vector, n), w.chunk = d
      PROVE  Higher(Share(vector, c, n), Share(vector, d, n))
  <2>1. w \in vector /\ w.chunk.near > 0 /\ w.rank = <<d.near, 1>>
    BY <1>2, <1>8 DEF Best
  <2>2. PICK z \in vector : z.chunk = c
    BY <1>1, <1>2, <1>3, <1>4, <1>8, <2>1
  <2>3. z.rank = <<c.near, 1>>
    BY <1>2, <2>2
  <2>4. Higher(z.rank, w.rank)
    BY <1>1, <1>4, <2>1, <2>3 DEF Higher
  <2>. QED
    BY <1>2, <1>5, <1>8, <2>2, <2>4
<1> DEFINE tc == Share(text, c, n)  td == Share(text, d, n)
           vc == Share(vector, c, n)  vd == Share(vector, d, n)
<1>9. /\ Higher(tc, td) \/ tc = td
      /\ Higher(vc, vd) \/ vc = vd
      /\ Higher(tc, td) \/ Higher(vc, vd)
  BY <1>2, <1>3, <1>6, <1>7, <1>8
<1>10. tc \in Ratio /\ td \in Ratio /\ vc \in Ratio /\ vd \in Ratio
  BY <1>2, ShareIs
<1>11. u.rank = Plus(tc, vc) /\ v.rank = Plus(td, vd)
  BY <1>3
<1> HIDE DEF tc, td, vc, vd
<1>. QED
  BY <1>9, <1>10, <1>11, SumsGrow

LEMMA LimitIs ==
  ASSUME NEW option \in Seq(Int), Len(option) <= 1, NEW fallback \in Nat \ {0}
  PROVE  clampLimit(option, fallback) \in Nat \ {0}
<1>1. MaxSearchLimit \in Nat \ {0}
  BY SearchAssumption
<1>2. CASE option = <<>>
  BY <1>2 DEF clampLimit
<1>3. CASE option # <<>>
  <2>1. option[1] \in Int
    BY <1>3
  <2> DEFINE o == option[1]
  <2>2. clampLimit(option, fallback) = Lesser(IF o < 1 THEN 1 ELSE o, MaxSearchLimit)
    BY <1>3 DEF clampLimit
  <2> HIDE DEF o
  <2>3. o \in Int
    BY <2>1 DEF o
  <2>. QED
    BY <1>1, <2>2, <2>3 DEF Lesser
<1>. QED
  BY <1>2, <1>3

LEMMA ScopeIs ==
  ASSUME NEW files, NEW chunks, Corpus(chunks)
  PROVE  /\ InScope(files, chunks) \subseteq chunks /\ Corpus(InScope(files, chunks))
         /\ Cardinality(InScope(files, chunks)) \in Nat
<1>1. InScope(files, chunks) \subseteq chunks
  BY DEF InScope
<1>2. Corpus(InScope(files, chunks)) /\ Cardinality(InScope(files, chunks)) \in Nat
  BY <1>1, CorpusPart
<1>. QED
  BY <1>1, <1>2

\* The answer of a search, as that of its ranked hits.
LEMMA SearchIs ==
  ASSUME NEW signal, NEW files, NEW chunks, NEW opts
  PROVE  runChunkSearch(signal, files, chunks, opts) =
           LET limit == clampLimit(opts.limit, DefaultLimit)
           IN Returned(HitsShown(files, HitsOf(files, Candidates(signal, InScope(files, chunks), limit * Oversample))),
                     limit, clampLimit(opts.perFileCap, DefaultCap))
BY DEF runChunkSearch, Returned, Kept, Window

\* The hits of candidates show exactly their chunks, if all are in scope.
LEMMA ShownChunks ==
  ASSUME NEW files, NEW chunks, NEW rated,
         \A u \in rated : u.chunk \in InScope(files, chunks)
  PROVE  LET hits == HitsShown(files, HitsOf(files, rated))
         IN /\ \A h \in hits : \E u \in rated : u.chunk = h.chunk /\ u.rank = h.rank
            /\ \A u \in rated : \E h \in hits : h.chunk = u.chunk
<1> DEFINE all == HitsOf(files, rated)
           hits == HitsShown(files, all)
<1>1. \A h \in all : \E u \in rated : u.chunk = h.chunk /\ u.rank = h.rank
  BY DEF HitsOf
<1>2. ASSUME NEW u \in rated
      PROVE  \E h \in hits : h.chunk = u.chunk
  <2>1. PICK p \in DOMAIN files : files[p] = u.chunk.blob
    BY DEF InScope
  <2> DEFINE h == [path |-> p, chunk |-> u.chunk, rank |-> u.rank]
  <2>2. h \in all /\ h.path = p /\ h.chunk = u.chunk
    BY DEF HitsOf
  <2> HIDE DEF h, all
  <2>3. h \in hits
    BY <2>1, <2>2 DEF HitsShown
  <2>. QED
    BY <2>2, <2>3
<1>3. hits \subseteq all
  BY DEF HitsShown
<1> HIDE DEF hits, all
<1>. QED
  BY <1>1, <1>2, <1>3 DEF hits, all

\* Every search of every corpus answers with the best hits that are seen.
THEOREM SearchesAreSound ==
  ASSUME NEW files, IsFiniteSet(DOMAIN files), DOMAIN files \subseteq Nat, NEW hidden,
         NEW chunks, Corpus(chunks), NEW options,
         \A opts \in options : \A option \in {opts.limit, opts.perFileCap} :
           option \in Seq(Int) /\ Len(option) <= 1
  PROVE  SearchSound(files, hidden, chunks, options)
<1> SUFFICES ASSUME NEW signal \in Signals, NEW opts \in options
             PROVE
    LET limit == clampLimit(opts.limit, DefaultLimit)
        cap == clampLimit(opts.perFileCap, DefaultCap)
        seen == [p \in DOMAIN files \ hidden |-> files[p]]
        scope == InScope(seen, chunks)
        matching == {c \in scope : Matching(signal, c)}
        result == runChunkSearch(signal, seen, chunks, opts)
        found == {result[n] : n \in DOMAIN result}
        hits == HitsShown(seen, HitsOf(seen, Candidates(signal, scope, Cardinality(scope))))
    IN /\ Len(result) <= limit
       /\ \A i, j \in DOMAIN result : i < j => Before(result[i], result[j])
       /\ \A p \in DOMAIN seen : Cardinality({h \in found : h.path = p}) <= cap
       /\ {h.chunk : h \in hits} = matching
       /\ Cardinality(matching) <= limit * Oversample =>
            \A h \in hits \ found :
              Capped(result, h, cap) \/ (Len(result) = limit /\ Before(result[limit], h))
       /\ signal = "hybrid" =>
            \A h, g \in found : Outdone(h.chunk, g.chunk) => Higher(h.rank, g.rank)
  BY DEF SearchSound
<1> DEFINE limit == clampLimit(opts.limit, DefaultLimit)
           cap == clampLimit(opts.perFileCap, DefaultCap)
           seen == [p \in DOMAIN files \ hidden |-> files[p]]
           scope == InScope(seen, chunks)
           matching == {c \in scope : Matching(signal, c)}
           result == runChunkSearch(signal, seen, chunks, opts)
           found == {result[n] : n \in DOMAIN result}
           window == limit * Oversample
           best == Candidates(signal, scope, window)
           near == HitsShown(seen, HitsOf(seen, best))
           full == Candidates(signal, scope, Cardinality(scope))
           hits == HitsShown(seen, HitsOf(seen, full))
<1>1. limit \in Nat \ {0} /\ cap \in Nat \ {0} /\ window \in Nat
  <2>1. DefaultLimit \in Nat \ {0} /\ DefaultCap \in Nat \ {0} /\ Oversample \in Nat \ {0}
    BY SearchAssumption
  <2>2. limit \in Nat \ {0} /\ cap \in Nat \ {0}
    <3>1. opts.limit \in Seq(Int) /\ Len(opts.limit) <= 1 /\ opts.perFileCap \in Seq(Int) /\ Len(opts.perFileCap) <= 1
      OBVIOUS
    <3>. QED
      BY <2>1, <3>1, LimitIs
  <2> HIDE DEF limit, cap
  <2>. QED
    BY <2>1, <2>2
<1>2. DOMAIN seen \subseteq Nat /\ IsFiniteSet(DOMAIN seen)
  <2>1. DOMAIN seen = DOMAIN files \ hidden
    OBVIOUS
  <2>2. DOMAIN files \ hidden \in SUBSET DOMAIN files
    OBVIOUS
  <2> HIDE DEF seen
  <2>. QED
    BY <2>1, <2>2, FS_Subset
<1> HIDE DEF limit, cap, seen
<1>3. Corpus(scope) /\ Cardinality(scope) \in Nat /\ scope \subseteq chunks
  BY ScopeIs
<1>4. result = Returned(near, limit, cap)
  BY SearchIs DEF limit, cap
<1>5. matching = Hits(signal, scope) /\ Cardinality(matching) \in Nat /\ Cardinality(matching) <= Cardinality(scope)
  <2>1. matching = Hits(signal, scope) /\ matching \subseteq scope
    BY DEF Hits
  <2> HIDE DEF matching, scope
  <2>. QED
    BY <1>3, <2>1, CorpusPart
<1> HIDE DEF scope, window, matching, result
<1>6. /\ Rating(best) /\ \A u \in best : u.chunk \in scope
      /\ signal = "hybrid" => best \subseteq Fused(scope, window)
  BY <1>1, <1>3, CandidatesAre DEF Hits
<1>7. /\ \A u \in full : u.chunk \in matching /\ u.chunk \in scope
      /\ \A c \in matching : \E u \in full : u.chunk = c
      /\ Cardinality(matching) <= window => best = full
  <2>1. /\ \A u \in full : u.chunk \in matching
        /\ \A c \in matching : \E u \in full : u.chunk = c
        /\ Cardinality(matching) <= window => best = full
    BY <1>1, <1>3, <1>5, CandidatesAre
  <2>2. matching \subseteq scope
    BY <1>5 DEF Hits
  <2> HIDE DEF full, best
  <2>. QED
    BY <2>1, <2>2
<1> HIDE DEF best, full
<1>8. Ranked(near)
  BY <1>2, <1>6, HitsRanked
<1>9. \A h \in near : \E u \in best : u.chunk = h.chunk /\ u.rank = h.rank
  BY <1>6, ShownChunks DEF scope
<1>10. {h.chunk : h \in hits} = matching
  <2>1. /\ \A h \in hits : \E u \in full : u.chunk = h.chunk
        /\ \A u \in full : \E h \in hits : h.chunk = u.chunk
    BY <1>7, ShownChunks DEF scope
  <2> HIDE DEF hits
  <2>. QED
    BY <1>7, <2>1
<1>11. Cardinality(matching) <= window => hits = near
  BY <1>7
<1> HIDE DEF near, hits
<1>12. /\ Len(result) <= limit
       /\ \A i, j \in DOMAIN result : i < j => Before(result[i], result[j])
  <2> DEFINE kept == Ordered(Kept(near, cap))
  <2>1. /\ Len(kept) \in Nat /\ Len(result) \in Nat /\ Len(result) <= limit /\ Len(result) <= Len(kept)
        /\ DOMAIN result = 1..Len(result)
        /\ \A n \in 1..Len(result) : result[n] = kept[n]
        /\ \A i, j \in 1..Len(kept) : i < j => Before(kept[i], kept[j])
    BY <1>1, <1>4, <1>8, AnswerIs
  <2> HIDE DEF kept
  <2>2. 1..Len(result) \subseteq 1..Len(kept)
    BY <2>1
  <2>. QED
    BY <2>1, <2>2
<1>13. found \subseteq near /\ \A p \in DOMAIN seen : Cardinality({h \in found : h.path = p}) <= cap
  <2>0. found = {result[n] : n \in DOMAIN result}
    OBVIOUS
  <2> HIDE DEF found
  <2>1. \A p : found \subseteq near /\ Cardinality(OfPath(found, p)) <= cap
    BY <1>1, <1>4, <1>8, <2>0, PathsCapped
  <2>. QED
    BY <2>1 DEF OfPath
<1>14. ASSUME Cardinality(matching) <= window, NEW h \in hits \ found
       PROVE  Capped(result, h, cap) \/ (Len(result) = limit /\ Before(result[limit], h))
  <2>1. h \in near /\ \A n \in DOMAIN result : result[n] # h
    BY <1>11, <1>14
  <2>. QED
    BY <1>1, <1>4, <1>8, <2>1, MissingOutdone
<1>15. ASSUME signal = "hybrid", NEW h \in found, NEW g \in found, Outdone(h.chunk, g.chunk)
       PROVE  Higher(h.rank, g.rank)
  <2>1. PICK u \in best : u.chunk = h.chunk /\ u.rank = h.rank
    BY <1>9, <1>13
  <2>2. PICK v \in best : v.chunk = g.chunk /\ v.rank = g.rank
    BY <1>9, <1>13
  <2>3. u \in Fused(scope, window) /\ v \in Fused(scope, window) /\ Outdone(u.chunk, v.chunk)
    BY <1>6, <1>15, <2>1, <2>2
  <2>. QED
    BY <1>1, <1>3, <2>1, <2>2, <2>3, OutdoneBelow
<1> HIDE DEF found
<1>. QED
  BY <1>10, <1>12, <1>13, <1>14, <1>15
     DEF limit, cap, seen, scope, matching, result, found, window, full, hits

SearchInv == corpus = {} \/ corpus \in Corpora

THEOREM CorpusStays == SearchSpec => []SearchInv
<1>1. SearchInit => SearchInv
  BY DEF SearchInit, SearchInv
<1>2. SearchInv /\ [Store]_corpus => SearchInv'
  BY DEF SearchInv, Store
<1>. QED
  BY <1>1, <1>2, PTL DEF SearchSpec

\* Whatever is stored, searches answer with the best hits that their instance sees.
THEOREM SearchesAlwaysHold == SearchSpec => []SearchesHold
<1>1. SearchInv => SearchesHold
  <2> SUFFICES ASSUME SearchInv, NEW hidden \in Hideable
               PROVE  SearchSound(PathBlobs, hidden, corpus, SearchOptions)
    BY DEF SearchesHold
  <2>1. Corpus(corpus)
    <3>1. Corpus({})
      BY FS_EmptySet DEF Corpus
    <3>. QED
      BY <3>1, SearchAssumption DEF SearchInv
  <2>2. /\ IsFiniteSet(DOMAIN PathBlobs) /\ DOMAIN PathBlobs \subseteq Nat
        /\ \A opts \in SearchOptions : \A option \in {opts.limit, opts.perFileCap} :
             option \in Seq(Int) /\ Len(option) <= 1
    BY SearchAssumption
  <2>. QED
    BY <2>1, <2>2, SearchesAreSound
<1>. QED
  BY <1>1, CorpusStays, PTL
=============================================================================
