-------------------------------- MODULE ReadProofs --------------------------------
(***************************************************************************)
(* StreamsPageOnce is an invariant of Streams, for any keys, contents,     *)
(* batch sizes and edits. It is not inductive: a page continues what was   *)
(* yielded only because that ends at the cursor, and it misses nothing     *)
(* only because what was owed all along is owed now, and every key that is *)
(* owed has a row a page is taken from.                                    *)
(*                                                                         *)
(* Every step of Reads keeps SettlesAsUnbatched, for any calls, paths,     *)
(* rows, batch size and depth of links. What a call may still end with is  *)
(* among what it might have ended with when it was made; this is kept      *)
(* while rows change because it holds at any further rows as well, and by  *)
(* an answer because every call waits for one statement.                   *)
(*                                                                         *)
(* RulesAgree is an invariant of Rules, for any names, patterns, mounts    *)
(* and paths: what excludes, mounts and globs hide or find is the same by  *)
(* the predicate on paths and by the clause on labels.                     *)
(***************************************************************************)
EXTENDS Streams, Reads, Rules, FiniteSetTheorems, SequenceTheorems, TLAPS

Stream == [kind : {"none", "diff", "version"}, status : {"idle", "open", "failed", "done"},
           batch : Nat \ {0}, own : Versions \cup {Nothing}, parent : Versions \cup {Nothing},
           cursor : Nat, yielded : Seq(Keys)]
StreamTypeOK ==
  /\ label \in [Sides -> Versions \cup {Nothing}]
  /\ stream \in Stream
  /\ always \subseteq Keys /\ ever \subseteq Keys

\* A version with a parent has one without, and a stream by version still has
\* the parent of its version, or that is detached.
ParentsOK ==
  /\ parentOf \in [Versions -> {1, Nothing}] /\ parentOf[1] = Nothing
  /\ stream.kind = "version" => /\ stream.own \in Versions /\ stream.parent \in {1, Nothing}
                                /\ parentOf[stream.own] \in {stream.parent, Nothing}

Ascends(s) == \A i, j \in DOMAIN s : i < j => s[i] < s[j]

\* What was yielded ends at the cursor.
YieldedOK ==
  /\ Ascends(stream.yielded)
  /\ Range(stream.yielded) \subseteq ever
  /\ \A k \in Range(stream.yielded) : k <= stream.cursor

\* What was owed all along is owed now, and what differs now has differed.
HistoryOK == stream.status = "open" => always \subseteq Owed /\ Differs \subseteq ever

NothingMissed ==
  \A k \in always : k <= stream.cursor \/ stream.status = "done" => k \in Range(stream.yielded)

FailsForLabel ==
  stream.status = "failed" => /\ stream.kind = "diff"
                              /\ label[Theirs] = Nothing \/ stream.own = Nothing

StreamInv == StreamTypeOK /\ ParentsOK /\ YieldedOK /\ HistoryOK /\ NothingMissed /\ FailsForLabel

-----------------------------------------------------------------------------
(* Pages.                                                                  *)

LEMMA NatMinimum ==
  ASSUME NEW S, S \subseteq Nat, S # {}
  PROVE  \E n \in S : \A m \in S : n <= m
<1> DEFINE R == {ss \in Nat \X Nat : ss[1] < ss[2]}
<1>1. IsWellFoundedOn(R, Nat)
  BY NatLessThanWellFounded DEF OpToRel
<1>2. \E n \in S : \A m \in S : ~ (<<m, n>> \in R)
  <2> HIDE DEF R
  <2>. QED
    BY <1>1, WFMin
<1>3. \A n, m \in S : ~ (<<m, n>> \in R) => n <= m
  OBVIOUS
<1>. QED
  BY <1>2, <1>3

\* A finite set of numbers can be listed in ascending order: each one at the
\* place given by how many are not above it.
LEMMA AscendingExists ==
  ASSUME NEW S \in SUBSET Nat, IsFiniteSet(S)
  PROVE  \E s \in SetToSeqs(S) : Ascends(s)
<1> DEFINE n == Cardinality(S)
           Upto(x) == {y \in S : y <= x}
           r == [x \in S |-> Cardinality(Upto(x))]
<1>1. n \in Nat /\ IsFiniteSet(1..n) /\ Cardinality(1..n) = n
  BY FS_CardinalityType, FS_Interval
<1>2. \A x \in S : /\ IsFiniteSet(Upto(x)) /\ Cardinality(Upto(x)) \in Nat
                   /\ Cardinality(Upto(x)) <= n /\ x \in Upto(x)
  <2> TAKE x \in S
  <2>1. Upto(x) \subseteq S /\ x \in Upto(x)
    OBVIOUS
  <2> HIDE DEF Upto
  <2>. QED
    BY <2>1, FS_Subset, FS_CardinalityType
<1>3. \A x \in S : r[x] = Cardinality(Upto(x)) /\ r[x] \in 1..n
  <2> TAKE x \in S
  <2>1. Cardinality(Upto(x)) # 0
    <3> HIDE DEF Upto
    <3>. QED
      BY <1>2, FS_EmptySet
  <2> HIDE DEF Upto
  <2>. QED
    BY <1>1, <1>2, <2>1
<1>4. ASSUME NEW x \in S, NEW y \in S, x < y
      PROVE  r[x] < r[y]
  <2>0. \A z \in S : z \in Nat /\ (z <= x => z <= y)
    BY <1>4
  <2>1. Upto(x) \subseteq Upto(y)
    BY <2>0
  <2>2. y \in Upto(y) /\ y \notin Upto(x)
    <3>1. y <= y /\ ~(y <= x)
      BY <1>4, <2>0
    <3>. QED
      BY <3>1
  <2> HIDE DEF Upto
  <2>3. Cardinality(Upto(x)) <= Cardinality(Upto(y)) /\ Cardinality(Upto(x)) # Cardinality(Upto(y))
    BY <1>2, <2>1, <2>2, FS_Subset
  <2>. QED
    BY <1>2, <2>3
<1> HIDE DEF r, Upto
<1>5. r \in [S -> 1..n] /\ \A x, y \in S : r[x] = r[y] => x = y
  <2>1. DOMAIN r = S
    BY DEF r
  <2>2. r = [x \in S |-> r[x]]
    BY <2>1 DEF r
  <2>3. ASSUME NEW x \in S, NEW y \in S, r[x] = r[y]
        PROVE  x = y
    <3>1. ~(x < y) /\ ~(y < x)
      BY <1>1, <1>3, <1>4, <2>3
    <3>. QED
      BY <3>1
  <2>. QED
    BY <1>3, <2>2, <2>3
<1>6. r \in Injection(S, 1..n)
  BY <1>5 DEF Injection, IsInjective
<1>7. r \in Surjection(S, 1..n)
  BY <1>1, <1>6, FS_Injection
<1>8. \A i \in 1..n : \E x \in S : r[x] = i
  BY <1>5, <1>7 DEF Surjection
<1> DEFINE s == [i \in 1..n |-> CHOOSE x \in S : r[x] = i]
<1>9. s \in [1..n -> S] /\ \A i \in 1..n : s[i] \in S /\ r[s[i]] = i
  BY <1>8
<1> HIDE DEF s
<1>10. Ascends(s)
  <2> SUFFICES ASSUME NEW i \in 1..n, NEW j \in 1..n, i < j
               PROVE  s[i] < s[j]
    BY <1>9 DEF Ascends
  <2>1. s[i] \in Nat /\ s[j] \in Nat
    BY <1>9
  <2>2. s[i] # s[j] /\ ~(s[j] < s[i])
    <3>1. r[s[i]] = i /\ r[s[j]] = j /\ s[i] \in S /\ s[j] \in S
      BY <1>9
    <3>2. s[j] < s[i] => j < i
      BY <1>4, <3>1
    <3>. QED
      BY <1>1, <3>1, <3>2
  <2>. QED
    BY <2>1, <2>2
<1>11. s \in SetToSeqs(S)
  <2>1. \A i, j \in 1..n : i # j => s[i] # s[j]
    BY <1>9
  <2>. QED
    BY <1>9, <2>1 DEF SetToSeqs
<1>. QED
  BY <1>10, <1>11

LEMMA OrderIs ==
  ASSUME NEW S \in SUBSET Keys
  PROVE  /\ InOrder(S) \in Seq(Keys) /\ Ascends(InOrder(S)) /\ Range(InOrder(S)) = S
         /\ S # {} => /\ Last(InOrder(S)) \in S
                      /\ \A k \in S : k <= Last(InOrder(S))
<1> DEFINE s == InOrder(S)
           n == Cardinality(S)
<1>1. S \subseteq Nat /\ IsFiniteSet(S) /\ n \in Nat
  BY KeysAssumption, FS_Subset, FS_CardinalityType
<1>2. s \in SetToSeqs(S) /\ Ascends(s)
  BY <1>1, AscendingExists DEF InOrder, Ascends
<1> HIDE DEF s
<1>3. s \in [1..n -> S] /\ \A i, j \in 1..n : s[i] = s[j] => i = j
  BY <1>2 DEF SetToSeqs
<1>4. s \in Seq(Keys) /\ Len(s) = n /\ DOMAIN s = 1..n
  <2>1. s \in Seq(S) /\ Len(s) = n /\ DOMAIN s = 1..n
    BY <1>1, <1>3
  <2>. QED
    BY <2>1, SeqMonotonic
<1>5. s \in Surjection(1..n, S)
  <2>1. s \in Injection(1..n, S)
    BY <1>3 DEF Injection, IsInjective
  <2>2. IsFiniteSet(1..n) /\ Cardinality(1..n) = n
    BY <1>1, FS_Interval
  <2>. QED
    BY <1>1, <2>1, <2>2, FS_Injection
<1>6. \A k \in S : \E i \in 1..n : s[i] = k
  BY <1>5 DEF Surjection
<1>7. Range(s) = S
  BY <1>3, <1>4, <1>6 DEF Range
<1>8. ASSUME S # {}
      PROVE  Last(s) \in S /\ \A k \in S : k <= Last(s)
  <2>0. \E i \in 1..n : TRUE
    BY <1>6, <1>8
  <2>1. n \in 1..n /\ Last(s) = s[n]
    BY <1>1, <1>4, <2>0 DEF Last
  <2>2. ASSUME NEW k \in S
        PROVE  k <= s[n]
    <3>1. PICK i \in 1..n : s[i] = k
      BY <1>6
    <3>2. i = n \/ i < n
      BY <1>1
    <3>3. k \in Nat /\ s[n] \in Nat
      BY <1>1, <1>3, <2>1
    <3>4. i < n => s[i] < s[n]
      BY <1>2, <1>4, <2>1 DEF Ascends
    <3>. QED
      BY <3>1, <3>2, <3>3, <3>4
  <2>. QED
    BY <1>3, <2>1, <2>2
<1>. QED
  BY <1>2, <1>4, <1>7, <1>8 DEF s

\* A page has the lowest keys beyond the cursor.
LEMMA PageIs ==
  ASSUME NEW keys \in SUBSET Keys, NEW cursor \in Nat, NEW limit \in Nat \ {0}
  PROVE  /\ Page(keys, cursor, limit) \subseteq keys
         /\ \A k \in Page(keys, cursor, limit) : k > cursor
         /\ \A k \in keys : \A m \in Page(keys, cursor, limit) :
              cursor < k /\ k <= m => k \in Page(keys, cursor, limit)
         /\ Cardinality(Page(keys, cursor, limit)) < limit =>
              \A k \in keys : cursor < k => k \in Page(keys, cursor, limit)
<1> DEFINE B == Beyond(keys, cursor)
           Below(k) == {j \in B : j < k}
           P == Page(keys, cursor, limit)
<1>1. B \subseteq Nat /\ IsFiniteSet(B)
  BY KeysAssumption, FS_Subset DEF Beyond
<1>2. P = {k \in B : Cardinality(Below(k)) < limit}
  BY DEF Page
<1>3. \A k \in keys : cursor < k <=> k \in B
  BY KeysAssumption DEF Beyond
<1>4. \A k : /\ Below(k) \subseteq B /\ IsFiniteSet(Below(k)) /\ Cardinality(Below(k)) \in Nat
  BY <1>1, FS_Subset, FS_CardinalityType
<1>5. B \subseteq keys /\ \A k \in B : k > cursor
  BY DEF Beyond
<1>6. ASSUME NEW k \in B, NEW m \in P, k <= m
      PROVE  k \in P
  <2>1. Below(k) \subseteq Below(m)
    BY <1>1, <1>2, <1>6
  <2> HIDE DEF Below
  <2>2. Cardinality(Below(k)) <= Cardinality(Below(m))
    BY <1>4, <2>1, FS_Subset
  <2>. QED
    BY <1>2, <1>4, <2>2
<1>7. ASSUME Cardinality(P) < limit
      PROVE  B \subseteq P
  <2> SUFFICES ASSUME B \ P # {} PROVE FALSE
    OBVIOUS
  <2>1. PICK k \in B \ P : \A j \in B \ P : k <= j
    <3>1. B \ P \subseteq Nat
      BY <1>1
    <3>. QED
      BY <3>1, NatMinimum
  <2>2. Below(k) \subseteq P
    BY <1>1, <2>1
  <2>3. IsFiniteSet(P)
    BY <1>1, <1>2, FS_Subset
  <2> HIDE DEF Below, P
  <2>4. Cardinality(Below(k)) <= Cardinality(P) /\ Cardinality(P) \in Nat
    BY <2>2, <2>3, FS_Subset, FS_CardinalityType
  <2>5. Cardinality(Below(k)) < limit
    BY <1>4, <1>7, <2>4
  <2>. QED
    BY <1>2, <2>1, <2>5
<1>. QED
  BY <1>2, <1>3, <1>5, <1>6, <1>7

LEMMA OwedTyped == Owed \subseteq Differs /\ Differs \subseteq Keys
BY DEF Owed, Differs

\* What a page is taken from has all that is owed: a key without a row of the
\* version is shown as its parent shows it.
LEMMA OwedReported ==
  ASSUME ParentsOK
  PROVE  Owed \subseteq Reported /\ Reported \subseteq Differs
<1>1. Reported \subseteq Differs
  BY DEF Reported
<1>2. CASE stream.kind # "version"
  BY <1>2, OwedTyped DEF Reported
<1>3. CASE stream.kind = "version"
  <2> DEFINE v == stream.own
             w == stream.parent
  <2>1. Own = v /\ Other = w /\ v \in Versions /\ w \in {1, Nothing} /\ parentOf[v] \in {w, Nothing}
    BY <1>3 DEF Own, Other, ParentsOK
  <2>2. v # Nothing /\ 1 # Nothing /\ parentOf[1] = Nothing
    BY <2>1, NothingAssumption DEF ParentsOK, Versions
  <2> SUFFICES ASSUME NEW k \in Owed, ~Wrote(v, k) PROVE FALSE
    BY <1>1, <1>3, <2>1, <2>2, OwedTyped DEF Reported, Wrote
  <2>3. Shown(v, k) # Shown(w, k) /\ (parentOf[v] # w => Shown(v, k) # Nothing)
    BY <1>3, <2>1 DEF Owed, Differs
  <2>4. ~Wrote(Nothing, k) /\ Shown(Nothing, k) = Nothing
    BY DEF Wrote, Shown
  <2>5. parentOf[v] = Nothing => Shown(v, k) = Nothing
    BY <2>4 DEF Shown
  <2>6. CASE parentOf[v] = w
    <3>1. CASE w = Nothing
      BY <2>3, <2>4, <2>5, <2>6, <3>1
    <3>2. CASE w = 1
      <4>1. Shown(v, k) = IF Wrote(1, k) THEN written[1][k] ELSE Nothing
        BY <2>2, <2>6, <3>2 DEF Shown
      <4>2. Shown(1, k) = IF Wrote(1, k) THEN written[1][k] ELSE Nothing
        BY <2>2, <2>4 DEF Shown
      <4>. QED
        BY <2>3, <3>2, <4>1, <4>2
    <3>. QED
      BY <2>1, <3>1, <3>2
  <2>7. CASE parentOf[v] # w
    BY <2>1, <2>3, <2>5, <2>7
  <2>. QED
    BY <2>6, <2>7
<1>. QED
  BY <1>2, <1>3

-----------------------------------------------------------------------------
(* The steps.                                                              *)

LEMMA StreamInitInv == StreamInit => StreamInv
<1> SUFFICES ASSUME StreamInit PROVE StreamInv
  OBVIOUS
<1>1. /\ NoStream.yielded = <<>> /\ NoStream.status = "idle" /\ NoStream.kind = "none"
      /\ NoStream \in Stream
  <2>1. <<>> \in Seq(Keys)
    OBVIOUS
  <2>. QED
    BY <2>1 DEF NoStream, Stream
<1>2. stream = NoStream /\ always = {} /\ ever = {}
  BY DEF StreamInit
<1>3. StreamTypeOK
  <2>1. label \in [Sides -> Versions \cup {Nothing}]
    BY DEF StreamInit, Versions
  <2>. QED
    BY <1>1, <1>2, <2>1 DEF StreamTypeOK
<1>4. ParentsOK
  BY <1>1, <1>2 DEF StreamInit, ParentsOK, Versions
<1>5. YieldedOK
  <2>1. DOMAIN stream.yielded = {}
    BY <1>1, <1>2
  <2>. QED
    BY <2>1 DEF YieldedOK, Ascends, Range
<1>. QED
  BY <1>1, <1>2, <1>3, <1>4, <1>5 DEF StreamInv, HistoryOK, NothingMissed, FailsForLabel

\* A stream begins with nothing yielded and no key at its cursor.
LEMMA OpenedInv ==
  ASSUME StreamInv, NEW s \in Stream, Opened(s), s.status = "open", s.cursor = 0, s.yielded = <<>>,
         s.kind = "version" => /\ s.own \in Versions /\ s.parent = parentOf[s.own]
  PROVE  StreamInv'
<1>1. /\ stream' = s /\ always' = Owed' /\ ever' = Differs'
      /\ UNCHANGED <<written, label, parentOf, deleted>>
  BY DEF Opened
<1>2. always' \subseteq ever' /\ ever' \subseteq Keys
  BY <1>1 DEF Owed, Differs
<1>3. StreamTypeOK'
  BY <1>1, <1>2 DEF StreamInv, StreamTypeOK
<1>4. ParentsOK'
  BY <1>1 DEF StreamInv, ParentsOK
<1>5. YieldedOK'
  <2>1. DOMAIN stream'.yielded = {}
    BY <1>1
  <2>. QED
    BY <2>1 DEF YieldedOK, Ascends, Range
<1>6. NothingMissed'
  BY <1>1, <1>2, KeysAssumption DEF NothingMissed
<1>. QED
  BY <1>1, <1>2, <1>3, <1>4, <1>5, <1>6 DEF StreamInv, HistoryOK, FailsForLabel

\* One sequence of ascending keys after another, all greater.
LEMMA Appended ==
  ASSUME NEW s \in Seq(Keys), NEW t \in Seq(Keys), Ascends(s), Ascends(t), NEW n \in Nat,
         \A k \in Range(s) : k <= n, \A k \in Range(t) : n < k
  PROVE  s \o t \in Seq(Keys) /\ Ascends(s \o t) /\ Range(s \o t) = Range(s) \cup Range(t)
<1> DEFINE u == s \o t
           l == Len(s)
<1>1. /\ l \in Nat /\ Len(t) \in Nat /\ Len(u) = l + Len(t)
      /\ DOMAIN s = 1..l /\ DOMAIN t = 1..Len(t) /\ DOMAIN u = 1..(l + Len(t))
      /\ u \in Seq(Keys)
  OBVIOUS
<1>2. \A i \in 1..(l + Len(t)) : u[i] = IF i <= l THEN s[i] ELSE t[i - l]
  OBVIOUS
<1>3. \A i \in 1..l : s[i] \in Nat /\ s[i] <= n
  <2>1. \A i \in 1..l : s[i] \in Keys /\ s[i] \in Range(s)
    BY <1>1 DEF Range
  <2>. QED
    BY <2>1, KeysAssumption
<1>4. \A i \in 1..Len(t) : t[i] \in Nat /\ n < t[i]
  <2>1. \A i \in 1..Len(t) : t[i] \in Keys /\ t[i] \in Range(t)
    BY <1>1 DEF Range
  <2>. QED
    BY <2>1, KeysAssumption
<1> HIDE DEF u, l
<1>5. Ascends(u)
  <2> SUFFICES ASSUME NEW i \in 1..(l + Len(t)), NEW j \in 1..(l + Len(t)), i < j
               PROVE  u[i] < u[j]
    BY <1>1 DEF Ascends
  <2>1. CASE j <= l
    <3>1. i \in 1..l /\ j \in 1..l /\ u[i] = s[i] /\ u[j] = s[j]
      BY <1>1, <1>2, <2>1
    <3>. QED
      BY <1>1, <3>1 DEF Ascends
  <2>2. CASE i <= l /\ ~(j <= l)
    <3>1. i \in 1..l /\ j - l \in 1..Len(t) /\ u[i] = s[i] /\ u[j] = t[j - l]
      BY <1>1, <1>2, <2>2
    <3>. QED
      BY <1>3, <1>4, <3>1
  <2>3. CASE ~(i <= l)
    <3>0. ~(j <= l) /\ i - l \in 1..Len(t) /\ j - l \in 1..Len(t)
      BY <1>1, <2>3
    <3>1. u[i] = t[i - l] /\ u[j] = t[j - l]
      BY <1>2, <2>3, <3>0
    <3>2. i - l < j - l
      BY <1>1
    <3>. QED
      BY <1>1, <3>0, <3>1, <3>2 DEF Ascends
  <2>. QED
    BY <2>1, <2>2, <2>3
<1>6. Range(u) = Range(s) \cup Range(t)
  <2>1. \A i \in 1..l : i \in 1..(l + Len(t)) /\ u[i] = s[i]
    BY <1>1, <1>2
  <2>2. \A i \in 1..Len(t) : l + i \in 1..(l + Len(t)) /\ u[l + i] = t[i]
    <3> TAKE i \in 1..Len(t)
    <3>1. l + i \in 1..(l + Len(t)) /\ ~(l + i <= l) /\ (l + i) - l = i
      BY <1>1
    <3>. QED
      BY <1>2, <3>1
  <2>3. \A i \in 1..(l + Len(t)) : ~(i <= l) => i - l \in 1..Len(t)
    BY <1>1
  <2>4. Range(u) \subseteq Range(s) \cup Range(t)
    BY <1>1, <1>2, <2>3 DEF Range
  <2>5. Range(s) \subseteq Range(u) /\ Range(t) \subseteq Range(u)
    BY <1>1, <2>1, <2>2 DEF Range
  <2>. QED
    BY <2>4, <2>5
<1>. QED
  BY <1>1, <1>5, <1>6 DEF u

\* The version of a stream is the same before a page and after.
LEMMA PinnedSame ==
  ASSUME ~Unresolved, UNCHANGED <<written, label, parentOf>>, stream'.kind = stream.kind,
         stream'.own = Own, stream'.parent = stream.parent
  PROVE  Owed' = Owed /\ Differs' = Differs
<1>1. Own' = Own /\ Other' = Other
  BY DEF Own, Other
<1>2. \A v, k : Shown(v, k)' = Shown(v, k)
  BY DEF Shown, Wrote
<1>3. Unresolved' = Unresolved
  BY <1>1 DEF Unresolved
<1>4. Differs' = Differs
  BY <1>1, <1>2, <1>3 DEF Differs
<1>. QED
  BY <1>1, <1>2, <1>4 DEF Owed

LEMMA NextPageInv ==
  ASSUME StreamInv, NextPage
  PROVE  StreamInv'
<1> DEFINE page == Page(Reported, stream.cursor, stream.batch)
           order == InOrder(page)
<1>1. /\ stream \in Stream /\ stream.status = "open" /\ stream.cursor \in Nat /\ stream.batch \in Nat \ {0}
      /\ stream.yielded \in Seq(Keys)
      /\ UNCHANGED <<written, label, parentOf, deleted, always, ever>>
  BY DEF NextPage, StreamInv, StreamTypeOK, Stream
<1>0. always \subseteq Owed /\ Owed \subseteq Reported /\ Reported \subseteq ever /\ Reported \subseteq Keys
  BY <1>1, OwedTyped, OwedReported DEF StreamInv, HistoryOK
<1>2. /\ page \subseteq Reported
      /\ \A k \in page : k > stream.cursor
      /\ \A k \in Reported : \A m \in page : stream.cursor < k /\ k <= m => k \in page
      /\ Cardinality(page) < stream.batch => \A k \in Reported : stream.cursor < k => k \in page
  BY <1>0, <1>1, PageIs
<1>3. CASE Unresolved
  <2>1. stream' = [stream EXCEPT !.status = "failed"]
    BY <1>3 DEF NextPage
  <2>2. /\ stream' \in Stream /\ stream'.status = "failed"
        /\ stream'.yielded = stream.yielded /\ stream'.cursor = stream.cursor
        /\ stream'.kind = stream.kind /\ stream'.own = stream.own /\ stream'.parent = stream.parent
    BY <1>1, <2>1 DEF Stream
  <2>3. stream.kind = "diff" /\ (label[Theirs] = Nothing \/ stream.own = Nothing)
    BY <1>3 DEF Unresolved, Own, Other
  <2>4. StreamTypeOK'
    BY <1>1, <2>2 DEF StreamInv, StreamTypeOK
  <2>5. ParentsOK'
    BY <1>1, <2>2 DEF StreamInv, ParentsOK
  <2>. QED
    BY <1>1, <2>2, <2>3, <2>4, <2>5 DEF StreamInv, YieldedOK, HistoryOK, NothingMissed, FailsForLabel
<1>4. CASE ~Unresolved
  <2> DEFINE next == IF page = {} THEN stream.cursor ELSE Last(order)
             status == IF EndsPage(page, stream) THEN "done" ELSE "open"
  <2>1. stream' = [stream EXCEPT !.own = Own, !.yielded = @ \o order, !.status = status, !.cursor = next]
    BY <1>4 DEF NextPage
  <2>2. /\ order \in Seq(Keys) /\ Ascends(order) /\ Range(order) = page
        /\ page # {} => Last(order) \in page /\ \A k \in page : k <= Last(order)
    BY <1>0, <1>2, OrderIs
  <2>3. page \subseteq Nat
    BY <1>0, <1>2, KeysAssumption
  <2>4. next \in Nat /\ stream.cursor <= next /\ \A k \in page : k <= next
    BY <1>1, <1>2, <2>2, <2>3
  <2>5. status = "done" => Cardinality(page) < stream.batch
    BY DEF EndsPage
  <2>6. page # {} => next \in page
    BY <2>2
  <2>7. status \in {"done", "open"}
    OBVIOUS
  <2> HIDE DEF page, order, next, status
  <2>8. /\ stream.yielded \o order \in Seq(Keys) /\ Ascends(stream.yielded \o order)
        /\ Range(stream.yielded \o order) = Range(stream.yielded) \cup page
    BY <1>1, <1>2, <2>2, Appended DEF StreamInv, YieldedOK
  <2>0. Own \in Versions \cup {Nothing} /\ (stream.kind = "version" => Own = stream.own)
    <3>1. label[Ours] \in Versions \cup {Nothing} /\ stream.own \in Versions \cup {Nothing}
      BY <1>1 DEF StreamInv, StreamTypeOK, Sides, Stream
    <3>. QED
      BY <3>1 DEF Own
  <2>9. /\ stream' \in Stream /\ stream'.status = status /\ stream'.cursor = next
        /\ stream'.kind = stream.kind /\ stream'.parent = stream.parent /\ stream'.own = Own
        /\ stream'.yielded = stream.yielded \o order
    BY <1>1, <2>0, <2>1, <2>4, <2>7, <2>8 DEF Stream
  <2>10. Owed' = Owed /\ Differs' = Differs
    BY <1>1, <1>4, <2>9, PinnedSame
  <2>11. Range(stream.yielded) \subseteq Nat /\ \A k \in Range(stream.yielded) : k <= stream.cursor
    <3>1. Range(stream.yielded) \subseteq Keys
      BY <1>1 DEF Range
    <3>. QED
      BY <3>1, KeysAssumption DEF StreamInv, YieldedOK
  <2>12. YieldedOK'
    <3>1. \A k \in Range(stream.yielded) : k <= next
      BY <1>1, <2>4, <2>11
    <3>2. Range(stream.yielded) \cup page \subseteq ever
      BY <1>0, <1>2 DEF StreamInv, YieldedOK
    <3>. QED
      BY <1>1, <2>4, <2>8, <2>9, <3>1, <3>2 DEF YieldedOK
  <2>13. NothingMissed'
    <3> SUFFICES ASSUME NEW k \in always, k <= next \/ status = "done"
                 PROVE  k \in Range(stream.yielded) \cup page
      BY <1>1, <2>8, <2>9 DEF NothingMissed
    <3>1. k \in Reported /\ k \in Nat
      BY <1>0, KeysAssumption
    <3>2. CASE k <= stream.cursor
      BY <3>2 DEF StreamInv, NothingMissed
    <3>3. CASE ~(k <= stream.cursor)
      <4>1. stream.cursor < k
        BY <1>1, <3>1, <3>3
      <4>2. CASE status = "done"
        BY <1>2, <2>5, <3>1, <4>1, <4>2
      <4>3. CASE k <= next
        <5>1. page # {}
          BY <1>1, <3>3, <4>3 DEF next
        <5>. QED
          BY <1>2, <2>6, <3>1, <4>1, <4>3, <5>1
      <4>. QED
        BY <4>2, <4>3
    <3>. QED
      BY <3>2, <3>3
  <2>14. StreamTypeOK'
    BY <1>1, <2>9 DEF StreamInv, StreamTypeOK
  <2>15. ParentsOK'
    BY <1>1, <2>0, <2>9 DEF StreamInv, ParentsOK
  <2>16. HistoryOK'
    BY <1>1, <2>10 DEF StreamInv, HistoryOK
  <2>. QED
    BY <2>7, <2>9, <2>12, <2>13, <2>14, <2>15, <2>16 DEF StreamInv, FailsForLabel
<1>. QED
  BY <1>3, <1>4

\* What others do narrows what was owed all along and widens what has differed.
LEMMA EditInv ==
  ASSUME StreamInv, Edit, label' \in [Sides -> Versions \cup {Nothing}],
         parentOf' \in [Versions -> {1, Nothing}],
         \A v \in Versions : parentOf'[v] \in {parentOf[v], Nothing}
  PROVE  StreamInv'
<1>1. /\ stream' = stream /\ stream.status = "open"
      /\ always' = always \cap Owed' /\ ever' = ever \cup Differs'
  BY DEF Edit
<1>2. Differs' \subseteq Keys
  BY DEF Differs
<1>3. StreamTypeOK'
  BY <1>1, <1>2 DEF StreamInv, StreamTypeOK
<1>4. ParentsOK'
  <2>1. 1 \in Versions
    BY DEF Versions
  <2>. QED
    BY <1>1, <2>1 DEF StreamInv, ParentsOK
<1>5. YieldedOK'
  BY <1>1 DEF StreamInv, YieldedOK
<1>6. NothingMissed'
  BY <1>1 DEF StreamInv, NothingMissed
<1>. QED
  BY <1>1, <1>3, <1>4, <1>5, <1>6 DEF StreamInv, HistoryOK, FailsForLabel

LEMMA StreamNextInv == StreamInv /\ [StreamNext]_streamVars => StreamInv'
<1> SUFFICES ASSUME StreamInv, [StreamNext]_streamVars PROVE StreamInv'
  OBVIOUS
<1>0. /\ label \in [Sides -> Versions \cup {Nothing}]
      /\ parentOf \in [Versions -> {1, Nothing}]
  BY DEF StreamInv, StreamTypeOK, ParentsOK
<1>1. ASSUME NEW batch \in BatchSizes, NEW cached \in Versions \cup {Nothing}, OpenDiff(batch, cached)
      PROVE  StreamInv'
  <2> DEFINE s == [NoStream EXCEPT !.kind = "diff", !.status = "open", !.batch = batch, !.own = cached]
  <2>1. s \in Stream /\ s.status = "open" /\ s.cursor = 0 /\ s.yielded = <<>> /\ s.kind = "diff"
    <3>1. <<>> \in Seq(Keys) /\ batch \in Nat \ {0}
      BY PageAssumption
    <3>. QED
      BY <3>1 DEF NoStream, Stream
  <2>2. Opened(s)
    BY <1>1 DEF OpenDiff
  <2> HIDE DEF s
  <2>. QED
    BY <2>1, <2>2, OpenedInv
<1>2. ASSUME NEW batch \in BatchSizes, NEW v \in Versions, OpenVersionDiff(batch, v) PROVE StreamInv'
  <2> DEFINE s == [NoStream EXCEPT !.kind = "version", !.status = "open", !.batch = batch,
                                   !.own = v, !.parent = parentOf[v]]
  <2>1. /\ s \in Stream /\ s.status = "open" /\ s.cursor = 0 /\ s.yielded = <<>>
        /\ s.own \in Versions /\ s.parent = parentOf[s.own]
    <3>1. <<>> \in Seq(Keys) /\ batch \in Nat \ {0} /\ parentOf[v] \in Versions \cup {Nothing}
      BY <1>0, PageAssumption DEF Versions
    <3>. QED
      BY <3>1 DEF NoStream, Stream
  <2>2. Opened(s)
    BY <1>2 DEF OpenVersionDiff
  <2> HIDE DEF s
  <2>. QED
    BY <2>1, <2>2, OpenedInv
<1>3. ASSUME NextPage PROVE StreamInv'
  BY <1>3, NextPageInv
<1>4. ASSUME NEW v \in Versions, NEW k \in Keys, NEW content \in Files \cup {Nothing},
             WriteEntry(v, k, content)
      PROVE  StreamInv'
  BY <1>0, <1>4, EditInv DEF WriteEntry
<1>5. ASSUME NEW l \in Sides, NEW v \in Versions \cup {Nothing}, Relabel(l, v) PROVE StreamInv'
  <2>1. label' \in [Sides -> Versions \cup {Nothing}] /\ parentOf' = parentOf /\ Edit
    BY <1>0, <1>5 DEF Relabel
  <2>. QED
    BY <1>0, <2>1, EditInv
<1>6. ASSUME NEW v \in Versions, Detach(v) PROVE StreamInv'
  <2>1. parentOf' = [parentOf EXCEPT ![v] = Nothing] /\ label' = label /\ Edit
    BY <1>6 DEF Detach
  <2>2. parentOf' \in [Versions -> {1, Nothing}] /\ \A w \in Versions : parentOf'[w] \in {parentOf[w], Nothing}
    BY <1>0, <2>1
  <2>. QED
    BY <1>0, <2>1, <2>2, EditInv
<1>7. ASSUME NEW v \in Versions, DeleteVersion(v) PROVE StreamInv'
  <2>1. parentOf' = [parentOf EXCEPT ![v] = Nothing] /\ label' = label /\ Edit
    BY <1>7 DEF DeleteVersion
  <2>2. parentOf' \in [Versions -> {1, Nothing}] /\ \A w \in Versions : parentOf'[w] \in {parentOf[w], Nothing}
    BY <1>0, <2>1
  <2>. QED
    BY <1>0, <2>1, <2>2, EditInv
<1>8. ASSUME UNCHANGED streamVars PROVE StreamInv'
  <2>1. /\ written' = written /\ label' = label /\ parentOf' = parentOf /\ deleted' = deleted
        /\ stream' = stream /\ always' = always /\ ever' = ever
    BY <1>8 DEF streamVars
  <2>2. Owed' = Owed /\ Differs' = Differs
    BY <2>1 DEF Owed, Differs, Own, Other, Unresolved, Shown, Wrote
  <2>. QED
    BY <2>1, <2>2 DEF StreamInv, StreamTypeOK, ParentsOK, YieldedOK, HistoryOK, NothingMissed, FailsForLabel
<1>. QED
  BY <1>1, <1>2, <1>3, <1>4, <1>5, <1>6, <1>7, <1>8 DEF StreamNext

\* A stream yields no path twice, every path that differed all along (but what a
\* detached version does not show), and none that never differed.
THEOREM StreamsAlwaysPageOnce == StreamSpec => []StreamsPageOnce
<1>1. StreamInv /\ [StreamNext]_streamVars => StreamInv'
  BY StreamNextInv
<1>2. StreamInv => StreamsPageOnce
  BY DEF StreamInv, YieldedOK, NothingMissed, FailsForLabel, Ascends, StreamsPageOnce
<1>. QED
  BY StreamInitInv, <1>1, <1>2, PTL DEF StreamSpec
-----------------------------------------------------------------------------
(* Reads: what a call may end with, by how far it may still follow.        *)

Below(g, d) == IF d = 0 THEN [k \in ReadKeys |-> {"ELOOP"}] ELSE g[d - 1]
Follows(g, s, n) == g = [d \in 0..n |-> Outcomes(s, Below(g, d))]
After(s) == CHOOSE g : Follows(g, s, MaxDepth)

LEMMA PossibleIs == \A s, first : Possible(s, first) = After(s)[MaxDepth][first]
BY DEF Possible, After, Follows, Below

LEMMA FollowsExists == ASSUME NEW s, NEW n \in Nat PROVE \E g : Follows(g, s, n)
<1> DEFINE B == {i \in Nat : ~ \E g : Follows(g, s, i)}
<1> SUFFICES ASSUME B # {} PROVE FALSE
  OBVIOUS
<1>1. PICK m \in B : \A i \in B : m <= i
  <2>1. B \subseteq Nat
    OBVIOUS
  <2> HIDE DEF B
  <2> QED BY <2>1, NatMinimum
<1>2. m \in Nat /\ ~ \E g : Follows(g, s, m)
  OBVIOUS
<1>3. CASE m = 0
  <2> DEFINE g == [d \in 0..0 |-> Outcomes(s, Below(<<>>, d))]
  <2>1. \A d \in 0..0 : Outcomes(s, Below(<<>>, d)) = Outcomes(s, Below(g, d))
    BY DEF Below
  <2>2. g = [d \in 0..0 |-> Outcomes(s, Below(g, d))]
    <3>1. \A h : (\A d \in 0..0 : Outcomes(s, Below(<<>>, d)) = Outcomes(s, Below(h, d)))
                   => [d \in 0..0 |-> Outcomes(s, Below(<<>>, d))] = [d \in 0..0 |-> Outcomes(s, Below(h, d))]
      OBVIOUS
    <3> QED BY <2>1, <3>1
  <2> HIDE DEF g
  <2> QED BY <1>2, <1>3, <2>2 DEF Follows
<1>4. CASE m # 0
  <2>1. m - 1 \in Nat /\ m - 1 \notin B
    BY <1>1, <1>2, <1>4
  <2>2. PICK f : Follows(f, s, m - 1)
    BY <2>1
  <2>3. \A d \in 0..(m - 1) : f[d] = Outcomes(s, Below(f, d))
    BY <2>2 DEF Follows
  <2> DEFINE g == [d \in 0..m |-> IF d < m THEN f[d] ELSE Outcomes(s, Below(f, d))]
  <2>4. \A d \in 0..(m - 1) : g[d] = f[d]
    BY <1>2
  <2>5. g[m] = Outcomes(s, Below(f, m)) /\ DOMAIN g = 0..m
    BY <1>2
  <2>6. g = [d \in 0..m |-> g[d]]
    OBVIOUS
  <2> HIDE DEF g
  <2>7. \A d \in 0..m : Outcomes(s, Below(f, d)) = Outcomes(s, Below(g, d))
    <3> TAKE d \in 0..m
    <3>1. d \in Nat /\ (d > 0 => f[d - 1] = g[d - 1])
      BY <1>2, <2>4
    <3> QED BY <3>1 DEF Below
  <2>8. \A d \in 0..m : g[d] = Outcomes(s, Below(g, d))
    <3> TAKE d \in 0..m
    <3>1. CASE d = m
      BY <3>1, <2>5, <2>7
    <3>2. CASE d # m
      <4>1. d \in 0..(m - 1)
        BY <1>2, <3>2
      <4> QED BY <4>1, <2>3, <2>4, <2>7
    <3> QED BY <3>1, <3>2
  <2>9. g = [d \in 0..m |-> Outcomes(s, Below(g, d))]
    BY <2>6, <2>8
  <2> QED BY <1>2, <2>9 DEF Follows
<1> QED BY <1>3, <1>4

LEMMA AfterAt ==
  ASSUME NEW s, NEW d \in 0..MaxDepth
  PROVE  After(s)[d] = Outcomes(s, Below(After(s), d))
<1>1. Follows(After(s), s, MaxDepth)
  BY FollowsExists, ReadAssumption DEF After
<1> QED BY <1>1 DEF Follows

\* What the row of a path gives is among what its path may give.
LEMMA RowCounts ==
  ASSUME NEW s, NEW d \in 0..MaxDepth, NEW k \in ReadKeys, k \notin Unencodable, NEW row \in s[k]
  PROVE  Outcome(row, Below(After(s), d)) \subseteq After(s)[d][k]
<1>1. After(s)[d][k] = Outcomes(s, Below(After(s), d))[k]
  BY AfterAt
<1>2. ASSUME NEW next
      PROVE  Outcome(row, next) \subseteq Outcomes(s, next)[k]
  BY DEF Outcomes
<1> QED BY <1>1, <1>2

LEMMA Faulty ==
  ASSUME NEW s, NEW d \in 0..MaxDepth, NEW k \in ReadKeys, k \in Unencodable
  PROVE  "failed" \in After(s)[d][k]
<1>1. After(s)[d][k] = Outcomes(s, Below(After(s), d))[k]
  BY AfterAt
<1> QED BY <1>1 DEF Outcomes

-----------------------------------------------------------------------------
(* Reads: the statements of a batch share no call.                         *)

LEMMA ApartBy ==
  ASSUME NEW i \in Nat, NEW j \in Nat, i < j,
         NEW n \in Nat \ {0}, i % n = 0, j % n = 0
  PROVE  i + n <= j
<1>1. PICK a \in Nat : i = a * n
  <2>1. i = n * (i \div n) + (i % n)
    OBVIOUS
  <2> QED BY <2>1
<1>2. PICK b \in Nat : j = b * n
  <2>1. j = n * (j \div n) + (j % n)
    OBVIOUS
  <2> QED BY <2>1
<1>3. a < b
  <2> SUFFICES ASSUME b <= a PROVE FALSE
    OBVIOUS
  <2> DEFINE c == a - b
  <2>1. c \in Nat /\ a = b + c
    OBVIOUS
  <2> HIDE DEF c
  <2>2. c * n >= 0 /\ a * n = b * n + c * n
    BY <2>1
  <2>3. b * n \in Nat /\ c * n \in Nat
    BY <2>1
  <2> QED BY <1>1, <1>2, <2>2, <2>3
<1> QED BY <1>1, <1>2, <1>3

LEMMA ChunksApart ==
  ASSUME NEW keys \in Seq(ReadKeys), \A i, j \in DOMAIN keys : keys[i] = keys[j] => i = j,
         NEW s \in Chunks(keys), NEW t \in Chunks(keys), NEW k \in Range(s), k \in Range(t)
  PROVE  s = t
<1> DEFINE End(i) == IF i + MaxBatch - 1 < Len(keys) THEN i + MaxBatch - 1 ELSE Len(keys)
           Starts == {i \in 1..Len(keys) : (i - 1) % MaxBatch = 0}
<1>1. PICK i \in Starts : s = SubSeq(keys, i, End(i))
  BY DEF Chunks
<1>2. PICK j \in Starts : t = SubSeq(keys, j, End(j))
  BY DEF Chunks
<1>3. \A n \in Starts : \A m \in Range(SubSeq(keys, n, End(n))) :
         \E h \in DOMAIN keys : n <= h /\ h <= n + MaxBatch - 1 /\ m = keys[h]
  <2> TAKE n \in Starts
  <2> TAKE m \in Range(SubSeq(keys, n, End(n)))
  <2>1. n \in Nat /\ n >= 1 /\ n <= Len(keys) /\ End(n) \in Nat /\ End(n) <= n + MaxBatch - 1
        /\ End(n) <= Len(keys) /\ End(n) >= n
    BY ReadAssumption
  <2> HIDE DEF End
  <2>2. SubSeq(keys, n, End(n)) = [e \in 1..(End(n) - n + 1) |-> keys[n + e - 1]]
    BY <2>1
  <2> DEFINE sub == SubSeq(keys, n, End(n))
             I == 1..(End(n) - n + 1)
  <2>3. DOMAIN sub = I /\ \A e \in I : sub[e] = keys[n + e - 1]
    BY <2>2
  <2>4. m \in Range(sub)
    OBVIOUS
  <2>5. PICK e \in I : m = keys[n + e - 1]
    <3> HIDE DEF sub, I
    <3> QED BY <2>3, <2>4 DEF Range
  <2>6. n + e - 1 \in DOMAIN keys /\ n <= n + e - 1 /\ n + e - 1 <= n + MaxBatch - 1
    BY <2>1, <2>5, ReadAssumption
  <2> QED BY <2>5, <2>6
<1>4. PICK h \in DOMAIN keys : i <= h /\ h <= i + MaxBatch - 1 /\ k = keys[h]
  BY <1>1, <1>3
<1>5. PICK g \in DOMAIN keys : j <= g /\ g <= j + MaxBatch - 1 /\ k = keys[g]
  BY <1>2, <1>3
<1>6. g = h
  BY <1>4, <1>5
<1>7. ~(i < j) /\ ~(j < i)
  <2>1. i - 1 \in Nat /\ j - 1 \in Nat /\ MaxBatch \in Nat \ {0} /\ h \in Nat
    BY ReadAssumption
  <2>2. ASSUME i < j PROVE i - 1 + MaxBatch <= j - 1
    <3>1. i - 1 < j - 1 /\ (i - 1) % MaxBatch = 0 /\ (j - 1) % MaxBatch = 0
      BY <2>2
    <3> QED BY <2>1, <3>1, ApartBy
  <2>3. ASSUME j < i PROVE j - 1 + MaxBatch <= i - 1
    <3>1. j - 1 < i - 1 /\ (i - 1) % MaxBatch = 0 /\ (j - 1) % MaxBatch = 0
      BY <2>3
    <3> QED BY <2>1, <3>1, ApartBy
  <2>4. i \in Nat /\ j \in Nat /\ j <= h /\ h <= i + MaxBatch - 1 /\ i <= h /\ h <= j + MaxBatch - 1
    BY <1>4, <1>5, <1>6
  <2> HIDE DEF Starts, End
  <2>5. ~(i < j)
    BY <2>1, <2>2, <2>4
  <2>6. ~(j < i)
    BY <2>1, <2>3, <2>4
  <2> QED BY <2>5, <2>6
<1>8. i = j
  BY <1>7
<1> QED BY <1>1, <1>2, <1>8
-----------------------------------------------------------------------------
(* Reads: the invariant. Every call waits in one place, and what it may    *)
(* still end with is among what it might have ended with when it was made: *)
(* at the rows its paths had since, and also when they get further ones,   *)
(* which keeps that true while rows change.                                *)

AllRows == Rows \cup {NoneThere}
Results == {"none", "failed", "ENOENT", "ELOOP", "EISDIR", "E2BIG"} \cup {row.data : row \in AllRows}
SeenRows == [ReadKeys -> SUBSET AllRows]
Call == [state : {"idle", "waiting", "following", "settled"}, first : ReadKeys, key : ReadKeys,
         depth : 0..MaxDepth, result : Results, seen : SeenRows]
Waiters == [ReadKeys -> SUBSET Calls]
Statement == [waiters : Waiters, kind : {"one", "many"}, done : BOOLEAN,
              rows : [ReadKeys -> AllRows]]
ReadTypeOK ==
  /\ store \in [ReadKeys -> AllRows]
  /\ call \in [Calls -> Call]
  /\ pending \in [keys : Seq(ReadKeys), waiters : Waiters]
  /\ queries \subseteq Statement

Waits(c, k) == call[c].state = "waiting" /\ call[c].key = k

\* The keys of the batch are those with callers, each once; its callers wait
\* for no statement.
PendingOK ==
  /\ \A i, j \in DOMAIN pending.keys : pending.keys[i] = pending.keys[j] => i = j
  /\ \A i \in DOMAIN pending.keys : pending.waiters[pending.keys[i]] # {}
  /\ \A k \in ReadKeys : \A c \in pending.waiters[k] :
       /\ Waits(c, k)
       /\ \A q \in queries, j \in ReadKeys : c \notin q.waiters[j]

\* What a statement that was run saw for a caller.
Saw(q, c, k) == k \notin Unencodable /\ q.rows[k] \in call[c].seen[k]
QueriesOK ==
  \A q \in queries, k \in ReadKeys : \A c \in q.waiters[k] : Waits(c, k) /\ (q.done => Saw(q, c, k))
OneKey == \A q \in queries : q.kind = "one" => \A k, j \in KeysOf(q) : k = j
Alone == \A q, r \in queries, k, j \in ReadKeys : q.waiters[k] \cap r.waiters[j] # {} => q = r

UnderWay(t) == t.state \in {"waiting", "following"}
SeenOK == \A c \in Calls : UnderWay(call[c]) => \A k \in ReadKeys : store[k] \in call[c].seen[k]

Leads(t) ==
  \A s \in SeenRows : (\A k \in ReadKeys : t.seen[k] \subseteq s[k])
                        => After(s)[t.depth][t.key] \subseteq After(s)[MaxDepth][t.first]
Chain == \A c \in Calls : UnderWay(call[c]) => Leads(call[c])

ReadInv == ReadTypeOK /\ PendingOK /\ QueriesOK /\ OneKey /\ Alone /\ SeenOK /\ Chain

LEMMA RowTypes ==
  \A row \in AllRows : /\ row.type \in {"none", "file", "directory", "symlink"}
                       /\ row.type = "symlink" => row.data \in ReadKeys
                       /\ row.data \in Results
BY ReadAssumption DEF AllRows, Results, NoneThere

LEMMA CallsTyped ==
  /\ NotMade \in Call /\ NotMade.state = "idle"
  /\ \A result \in Results : /\ EndedWith(result) \in Call /\ EndedWith(result).state = "settled"
                             /\ EndedWith(result).result = result
<1>1. FirstKey \in ReadKeys /\ 0 \in 0..MaxDepth
  BY ReadAssumption DEF FirstKey
<1>2. [k \in ReadKeys |-> {}] \in SeenRows
  BY DEF SeenRows
<1> QED BY <1>1, <1>2 DEF NotMade, EndedWith, Call, Results

\* What becomes of a call that gets the row of its path.
LEMMA SettledIs ==
  ASSUME NEW t \in Call, NEW row \in AllRows
  PROVE  /\ Settled(t, row) \in Call
         /\ Settled(t, row).state \in {"settled", "following"}
         /\ Settled(t, row).state = "following" =>
              /\ row.type = "symlink" /\ t.depth > 0
              /\ Settled(t, row) = [t EXCEPT !.state = "following", !.key = row.data, !.depth = t.depth - 1]
         /\ Settled(t, row).state = "settled" =>
              Settled(t, row).result \in Outcome(row, Below(After(t.seen), t.depth))
<1>1. /\ row.type \in {"none", "file", "directory", "symlink"} /\ row.data \in Results
      /\ row.type = "symlink" => row.data \in ReadKeys
  BY RowTypes
<1>2. t.depth \in 0..MaxDepth /\ t.depth \in Nat
  BY ReadAssumption DEF Call
<1>3. {"ENOENT", "ELOOP", "EISDIR", "E2BIG"} \subseteq Results
  BY DEF Results
<1>4. CASE row.type = "none"
  <2>1. Settled(t, row) = EndedWith("ENOENT")
    BY <1>4 DEF Settled
  <2>2. "ENOENT" \in Results /\ EndedWith("ENOENT").result = "ENOENT"
        /\ EndedWith("ENOENT") \in Call /\ EndedWith("ENOENT").state = "settled"
    BY <1>3, CallsTyped
  <2>3. Outcome(row, Below(After(t.seen), t.depth)) = {"ENOENT"}
    BY <1>4 DEF Outcome
  <2> QED BY <2>1, <2>2, <2>3
<1>5. CASE row.type = "symlink" /\ t.depth > 0
  <2>1. Settled(t, row) = [t EXCEPT !.state = "following", !.key = row.data, !.depth = t.depth - 1]
    BY <1>5 DEF Settled
  <2>2. t.depth - 1 \in 0..MaxDepth
    BY <1>2, <1>5, ReadAssumption
  <2> QED BY <1>1, <1>5, <2>1, <2>2 DEF Call
<1>6. CASE row.type = "symlink" /\ t.depth = 0
  <2>1. Settled(t, row) = EndedWith("ELOOP")
    BY <1>6 DEF Settled
  <2>2. "ELOOP" \in Results /\ EndedWith("ELOOP").result = "ELOOP"
        /\ EndedWith("ELOOP") \in Call /\ EndedWith("ELOOP").state = "settled"
    BY <1>3, CallsTyped
  <2>3. Outcome(row, Below(After(t.seen), t.depth)) = {"ELOOP"}
    BY <1>1, <1>6 DEF Outcome, Below
  <2> QED BY <2>1, <2>2, <2>3
<1>7. CASE row.type = "directory"
  <2>1. Settled(t, row) = EndedWith("EISDIR")
    BY <1>7 DEF Settled
  <2>2. "EISDIR" \in Results /\ EndedWith("EISDIR").result = "EISDIR"
        /\ EndedWith("EISDIR") \in Call /\ EndedWith("EISDIR").state = "settled"
    BY <1>3, CallsTyped
  <2>3. Outcome(row, Below(After(t.seen), t.depth)) = {"EISDIR"}
    BY <1>7 DEF Outcome
  <2> QED BY <2>1, <2>2, <2>3
<1>8. CASE row.type = "file"
  <2>1. Settled(t, row) = EndedWith(IF row.data \in TooLarge THEN "E2BIG" ELSE row.data)
    BY <1>8 DEF Settled
  <2>2. (IF row.data \in TooLarge THEN "E2BIG" ELSE row.data) \in Results
    BY <1>1, <1>3
  <2> QED BY <1>8, <2>1, <2>2, CallsTyped DEF Outcome
<1> QED BY <1>1, <1>2, <1>4, <1>5, <1>6, <1>7, <1>8

\* A link leads on: what its target gives, with one link less to follow, is
\* among what its path gives.
LEMMA LinkLeads ==
  ASSUME NEW t \in Call, Leads(t), t.depth > 0, t.key \notin Unencodable,
         NEW row \in AllRows, row.type = "symlink", row \in t.seen[t.key],
         NEW u, u = [t EXCEPT !.state = "following", !.key = row.data, !.depth = t.depth - 1]
  PROVE  Leads(u)
<1>1. /\ u.seen = t.seen /\ u.first = t.first /\ u.key = row.data /\ u.depth = t.depth - 1
      /\ t.key \in ReadKeys /\ t.depth \in 0..MaxDepth
  BY DEF Call
<1> SUFFICES ASSUME NEW s \in SeenRows, \A k \in ReadKeys : t.seen[k] \subseteq s[k]
             PROVE  After(s)[t.depth - 1][row.data] \subseteq After(s)[MaxDepth][t.first]
  BY <1>1 DEF Leads
<1>2. row \in s[t.key]
  BY <1>1
<1>3. Outcome(row, Below(After(s), t.depth)) \subseteq After(s)[t.depth][t.key]
  BY <1>1, <1>2, RowCounts
<1>4. Outcome(row, Below(After(s), t.depth)) = After(s)[t.depth - 1][row.data]
  <2>1. t.depth # 0
    BY <1>1, ReadAssumption
  <2> QED BY <2>1 DEF Outcome, Below
<1>5. After(s)[t.depth][t.key] \subseteq After(s)[MaxDepth][t.first]
  BY DEF Leads
<1> QED BY <1>3, <1>4, <1>5

\* So what a row of its path gives is what reading alone may give.
LEMMA RowIsPossible ==
  ASSUME NEW t \in Call, Leads(t), t.key \notin Unencodable, NEW row \in t.seen[t.key]
  PROVE  Outcome(row, Below(After(t.seen), t.depth)) \subseteq Possible(t.seen, t.first)
<1>1. t.key \in ReadKeys /\ t.depth \in 0..MaxDepth /\ t.seen \in SeenRows
  BY DEF Call
<1>2. After(t.seen)[t.depth][t.key] \subseteq After(t.seen)[MaxDepth][t.first]
  BY <1>1 DEF Leads
<1> QED BY <1>1, <1>2, RowCounts, PossibleIs

LEMMA FaultIsPossible ==
  ASSUME NEW t \in Call, Leads(t), t.key \in Unencodable
  PROVE  "failed" \in Possible(t.seen, t.first)
<1>1. t.key \in ReadKeys /\ t.depth \in 0..MaxDepth /\ t.seen \in SeenRows
  BY DEF Call
<1>2. After(t.seen)[t.depth][t.key] \subseteq After(t.seen)[MaxDepth][t.first]
  BY <1>1 DEF Leads
<1> QED BY <1>1, <1>2, Faulty, PossibleIs
-----------------------------------------------------------------------------
(* Reads: the steps.                                                       *)

LEMMA ReadInitInv == ReadInit => ReadInv
<1> SUFFICES ASSUME ReadInit PROVE ReadInv
  OBVIOUS
<1>1. \A c \in Calls : call[c] = NotMade
  BY DEF ReadInit
<1>2. pending.keys = <<>> /\ \A k \in ReadKeys : pending.waiters[k] = {}
  BY DEF ReadInit, NoBatch
<1>3. ReadTypeOK
  <2>1. NoBatch \in [keys : Seq(ReadKeys), waiters : Waiters]
    BY DEF NoBatch, Waiters
  <2> QED BY <2>1, CallsTyped DEF ReadInit, ReadTypeOK, AllRows
<1>4. \A c \in Calls : ~UnderWay(call[c])
  BY <1>1, CallsTyped DEF UnderWay
<1>5. queries = {} /\ DOMAIN pending.keys = {}
  BY <1>2 DEF ReadInit
<1> QED
  BY <1>2, <1>3, <1>4, <1>5 DEF ReadInv, PendingOK, QueriesOK, OneKey, Alone, SeenOK, Chain

\* A call is made: it joins the batch.
LEMMA LoadInv ==
  ASSUME ReadInv, NEW c \in Calls, NEW k \in ReadKeys, Load(c, k)
  PROVE  ReadInv'
<1> DEFINE t == [call[c] EXCEPT !.state = "waiting", !.first = k, !.key = k, !.depth = MaxDepth,
                                !.seen = [j \in ReadKeys |-> {store[j]}]]
<1>1. /\ call[c] \in Call /\ call[c].state = "idle" /\ call' = [call EXCEPT ![c] = t]
      /\ UNCHANGED <<store, queries>>
  BY DEF Load, ReadInv, ReadTypeOK
<1>2. /\ t \in Call /\ t.state = "waiting" /\ t.key = k /\ t.first = k /\ t.depth = MaxDepth
      /\ \A j \in ReadKeys : t.seen[j] = {store[j]}
  <2>0. \A j \in ReadKeys : {store[j]} \in SUBSET AllRows
    BY DEF ReadInv, ReadTypeOK
  <2>1. [j \in ReadKeys |-> {store[j]}] \in SeenRows
    BY <2>0 DEF SeenRows
  <2> DEFINE seen == [j \in ReadKeys |-> {store[j]}]
  <2>2. \A j \in ReadKeys : seen[j] = {store[j]}
    OBVIOUS
  <2> HIDE DEF seen
  <2>3. seen \in SeenRows /\ MaxDepth \in 0..MaxDepth
    BY <2>1, ReadAssumption DEF seen
  <2>4. t = [call[c] EXCEPT !.state = "waiting", !.first = k, !.key = k, !.depth = MaxDepth, !.seen = seen]
    BY DEF seen
  <2> HIDE DEF t
  <2>5. t \in Call /\ t.state = "waiting" /\ t.key = k /\ t.first = k /\ t.depth = MaxDepth /\ t.seen = seen
    BY <1>1, <2>3, <2>4 DEF Call
  <2> QED BY <2>2, <2>5
<1> HIDE DEF t
<1>3. call'[c] = t /\ \A d \in Calls \ {c} : call'[d] = call[d]
  BY <1>1 DEF ReadInv, ReadTypeOK
<1>4. /\ pending'.keys = IF pending.waiters[k] = {} THEN Append(pending.keys, k) ELSE pending.keys
      /\ pending'.waiters = [pending.waiters EXCEPT ![k] = pending.waiters[k] \cup {c}]
      /\ pending' = [keys |-> pending'.keys, waiters |-> pending'.waiters]
  BY DEF Load
<1>5. pending.keys \in Seq(ReadKeys) /\ pending.waiters \in Waiters
  BY DEF ReadInv, ReadTypeOK
<1>6. pending'.keys \in Seq(ReadKeys) /\ pending'.waiters \in Waiters
  BY <1>4, <1>5 DEF Waiters
<1>7. \A j \in ReadKeys : pending'.waiters[j] =
        IF j = k THEN pending.waiters[k] \cup {c} ELSE pending.waiters[j]
  BY <1>4, <1>5 DEF Waiters
<1>8. ReadTypeOK'
  BY <1>1, <1>2, <1>4, <1>6 DEF ReadInv, ReadTypeOK
<1>9. \A q \in queries, j \in ReadKeys : c \notin q.waiters[j]
  BY <1>1 DEF ReadInv, QueriesOK, Waits
<1>10. PendingOK'
  <2>1. /\ \A i, j \in DOMAIN pending'.keys : pending'.keys[i] = pending'.keys[j] => i = j
        /\ \A i \in DOMAIN pending'.keys : pending'.waiters[pending'.keys[i]] # {}
    <3>1. CASE pending.waiters[k] = {}
      <4>1. /\ pending'.keys = Append(pending.keys, k) /\ DOMAIN pending.keys = 1..Len(pending.keys)
            /\ Len(pending.keys) \in Nat
        BY <1>4, <1>5, <3>1
      <4>2. /\ DOMAIN pending'.keys = 1..(Len(pending.keys) + 1)
            /\ pending'.keys[Len(pending.keys) + 1] = k
            /\ \A i \in DOMAIN pending.keys : pending'.keys[i] = pending.keys[i]
        BY <4>1, <1>5
      <4>3. \A i \in DOMAIN pending.keys : pending.keys[i] # k /\ pending.keys[i] \in ReadKeys
        BY <1>5, <3>1 DEF ReadInv, PendingOK
      <4>4. \A i \in DOMAIN pending'.keys : i \in DOMAIN pending.keys \/ i = Len(pending.keys) + 1
        BY <4>1, <4>2
      <4>5. Len(pending.keys) + 1 \notin DOMAIN pending.keys
        BY <4>1
      <4>6. ASSUME NEW i \in DOMAIN pending'.keys, NEW j \in DOMAIN pending'.keys,
                   pending'.keys[i] = pending'.keys[j]
            PROVE  i = j
        BY <4>2, <4>3, <4>4, <4>6 DEF ReadInv, PendingOK
      <4>7. ASSUME NEW i \in DOMAIN pending'.keys
            PROVE  pending'.waiters[pending'.keys[i]] # {}
        BY <1>7, <4>2, <4>3, <4>4 DEF ReadInv, PendingOK
      <4> QED BY <4>6, <4>7
    <3>2. CASE pending.waiters[k] # {}
      <4>1. pending'.keys = pending.keys /\ \A i \in DOMAIN pending.keys : pending.keys[i] \in ReadKeys
        BY <1>4, <1>5, <3>2
      <4> QED BY <1>7, <3>2, <4>1 DEF ReadInv, PendingOK
    <3> QED BY <3>1, <3>2
  <2>2. ASSUME NEW j \in ReadKeys, NEW d \in pending'.waiters[j]
        PROVE  Waits(d, j)' /\ \A q \in queries, i \in ReadKeys : d \notin q.waiters[i]
    <3>1. CASE d = c
      <4>1. j = k
        <5>1. c \notin pending.waiters[j]
          BY <1>1 DEF ReadInv, PendingOK, Waits
        <5> QED BY <1>7, <2>2, <3>1, <5>1
      <4> QED BY <1>2, <1>3, <1>9, <3>1, <4>1 DEF Waits
    <3>2. CASE d # c
      <4>1. d \in pending.waiters[j]
        BY <1>7, <2>2, <3>2
      <4>2. d \in Calls
        BY <1>5, <4>1 DEF Waiters
      <4> QED BY <1>3, <3>2, <4>1, <4>2 DEF ReadInv, PendingOK, Waits
    <3> QED BY <3>1, <3>2
  <2> QED BY <1>1, <2>1, <2>2 DEF PendingOK
<1>11. QueriesOK'
  <2> SUFFICES ASSUME NEW q \in queries, NEW j \in ReadKeys, NEW d \in q.waiters[j]
               PROVE  Waits(d, j)' /\ (q.done => Saw(q, d, j)')
    BY <1>1 DEF QueriesOK
  <2>1. d \in Calls \ {c}
    BY <1>9 DEF ReadInv, ReadTypeOK, Statement, Waiters
  <2> QED BY <1>3, <2>1 DEF ReadInv, QueriesOK, Waits, Saw
<1>12. OneKey' /\ Alone'
  BY <1>1 DEF ReadInv, OneKey, Alone, KeysOf
<1>13. SeenOK'
  BY <1>1, <1>2, <1>3 DEF ReadInv, SeenOK
<1>14. Chain'
  BY <1>2, <1>3 DEF ReadInv, Chain, Leads
<1> QED BY <1>8, <1>10, <1>11, <1>12, <1>13, <1>14 DEF ReadInv

\* The statements of the batch.
LEMMA QueryOfIs ==
  ASSUME NEW keys \in Seq(ReadKeys), NEW chunk \in Chunks(keys), NEW waiters \in Waiters
  PROVE  /\ QueryOf(chunk, waiters) \in Statement
         /\ ~QueryOf(chunk, waiters).done
         /\ \A k \in ReadKeys : QueryOf(chunk, waiters).waiters[k] =
              IF k \in Range(chunk) THEN waiters[k] ELSE {}
         /\ QueryOf(chunk, waiters).kind = "one" => \A k, j \in Range(chunk) : k = j
<1> DEFINE mine == [k \in ReadKeys |-> IF k \in Range(chunk) THEN waiters[k] ELSE {}]
           kind == IF Len(chunk) = 1 THEN "one" ELSE "many"
<1>1. mine \in Waiters /\ kind \in {"one", "many"}
  BY DEF Waiters
<1>2. \A k \in ReadKeys : mine[k] = IF k \in Range(chunk) THEN waiters[k] ELSE {}
  OBVIOUS
<1>3. [k \in ReadKeys |-> NoneThere] \in [ReadKeys -> AllRows]
  BY DEF AllRows
<1>4. kind = "one" => \A k, j \in Range(chunk) : k = j
  <2>1. chunk \in Seq(ReadKeys)
    <3>1. PICK i \in 1..Len(keys) :
            chunk = SubSeq(keys, i, IF i + MaxBatch - 1 < Len(keys) THEN i + MaxBatch - 1 ELSE Len(keys))
      BY DEF Chunks
    <3> DEFINE end == IF i + MaxBatch - 1 < Len(keys) THEN i + MaxBatch - 1 ELSE Len(keys)
    <3>2. i \in Nat /\ 1 <= i /\ end \in Nat /\ end <= Len(keys)
      BY ReadAssumption
    <3> HIDE DEF end
    <3>3. \A n \in i..end : keys[n] \in ReadKeys
      BY <3>2
    <3> QED BY <3>1, <3>2, <3>3 DEF end
  <2>2. Len(chunk) = 1 => DOMAIN chunk = {1}
    BY <2>1
  <2> QED BY <2>2 DEF Range
<1> HIDE DEF mine, kind
<1>5. QueryOf(chunk, waiters) =
        [waiters |-> mine, kind |-> kind, done |-> FALSE, rows |-> [k \in ReadKeys |-> NoneThere]]
  BY DEF QueryOf, Query, mine, kind
<1> QED BY <1>1, <1>2, <1>3, <1>4, <1>5 DEF Statement

LEMMA FlushInv == ASSUME ReadInv, Flush PROVE ReadInv'
<1>1. /\ queries' = queries \cup {QueryOf(chunk, pending.waiters) : chunk \in Chunks(pending.keys)}
      /\ pending' = NoBatch /\ UNCHANGED <<store, call>>
  BY DEF Flush
<1>2. pending.keys \in Seq(ReadKeys) /\ pending.waiters \in Waiters
  BY DEF ReadInv, ReadTypeOK
<1>3. ASSUME NEW q \in queries' \ queries
      PROVE  /\ q \in Statement /\ ~q.done
             /\ \E chunk \in Chunks(pending.keys) :
                  /\ q = QueryOf(chunk, pending.waiters)
                  /\ \A k \in ReadKeys : q.waiters[k] # {} =>
                       k \in Range(chunk) /\ q.waiters[k] = pending.waiters[k]
             /\ q.kind = "one" => \A k, j \in KeysOf(q) : k = j
  <2>1. PICK chunk \in Chunks(pending.keys) : q = QueryOf(chunk, pending.waiters)
    BY <1>1
  <2> QED BY <1>2, <2>1, QueryOfIs DEF KeysOf
<1>4. ReadTypeOK'
  <2>1. NoBatch \in [keys : Seq(ReadKeys), waiters : Waiters]
    BY DEF NoBatch, Waiters
  <2>2. queries' \subseteq Statement
    BY <1>3 DEF ReadInv, ReadTypeOK
  <2> QED BY <1>1, <2>1, <2>2 DEF ReadInv, ReadTypeOK
<1>5. PendingOK'
  <2>1. DOMAIN NoBatch.keys = {} /\ \A k \in ReadKeys : NoBatch.waiters[k] = {}
    BY DEF NoBatch
  <2> QED BY <1>1, <2>1 DEF PendingOK
<1>6. QueriesOK'
  <2> SUFFICES ASSUME NEW q \in queries', NEW j \in ReadKeys, NEW d \in q.waiters[j]
               PROVE  Waits(d, j) /\ (q.done => Saw(q, d, j))
    BY <1>1 DEF QueriesOK, Waits, Saw
  <2>1. CASE q \in queries
    BY <2>1 DEF ReadInv, QueriesOK
  <2>2. CASE q \notin queries
    <3>1. ~q.done /\ d \in pending.waiters[j]
      BY <1>3, <2>2
    <3> QED BY <3>1 DEF ReadInv, PendingOK
  <2> QED BY <2>1, <2>2
<1>7. OneKey'
  BY <1>3 DEF ReadInv, OneKey, KeysOf
<1>8. Alone'
  <2> SUFFICES ASSUME NEW q \in queries', NEW r \in queries', NEW k \in ReadKeys, NEW j \in ReadKeys,
                      NEW d, d \in q.waiters[k], d \in r.waiters[j]
               PROVE  q = r
    BY DEF Alone
  <2>1. k = j
    BY <1>1, <1>6 DEF QueriesOK, Waits
  <2>2. CASE q \in queries /\ r \in queries
    BY <2>2 DEF ReadInv, Alone
  <2>3. CASE q \notin queries /\ r \in queries
    <3>1. d \in pending.waiters[k]
      BY <1>3, <2>3
    <3> QED BY <2>3, <3>1 DEF ReadInv, PendingOK
  <2>4. CASE q \in queries /\ r \notin queries
    <3>1. d \in pending.waiters[j]
      BY <1>3, <2>4
    <3> QED BY <2>4, <3>1 DEF ReadInv, PendingOK
  <2>5. CASE q \notin queries /\ r \notin queries
    <3>1. PICK s \in Chunks(pending.keys) : q = QueryOf(s, pending.waiters) /\ k \in Range(s)
      BY <1>3, <2>5
    <3>2. PICK t \in Chunks(pending.keys) : r = QueryOf(t, pending.waiters) /\ j \in Range(t)
      BY <1>3, <2>5
    <3>3. \A m, n \in DOMAIN pending.keys : pending.keys[m] = pending.keys[n] => m = n
      BY DEF ReadInv, PendingOK
    <3>4. s = t
      BY <1>2, <2>1, <3>1, <3>2, <3>3, ChunksApart
    <3> QED BY <3>1, <3>2, <3>4
  <2> QED BY <2>2, <2>3, <2>4, <2>5
<1>9. SeenOK' /\ Chain'
  BY <1>1 DEF ReadInv, SeenOK, Chain
<1> QED BY <1>4, <1>5, <1>6, <1>7, <1>8, <1>9 DEF ReadInv

\* A statement is run: it sees the rows of its paths of that moment.
LEMMA ExecuteInv == ASSUME ReadInv, NEW q \in queries, Execute(q) PROVE ReadInv'
<1> DEFINE found == [k \in ReadKeys |-> IF k \in KeysOf(q) THEN store[k] ELSE NoneThere]
           ran == [q EXCEPT !.done = TRUE, !.rows = found]
<1>1. /\ KeysOf(q) \cap Unencodable = {} /\ q \in Statement
      /\ queries' = (queries \ {q}) \cup {ran} /\ UNCHANGED <<store, call, pending>>
  BY DEF Execute, ReadInv, ReadTypeOK
<1>2. found \in [ReadKeys -> AllRows] /\ \A k \in KeysOf(q) : found[k] = store[k]
  BY DEF ReadInv, ReadTypeOK, AllRows, KeysOf
<1> HIDE DEF found
<1>3. /\ ran \in Statement /\ ran.waiters = q.waiters /\ ran.kind = q.kind /\ ran.rows = found
  BY <1>1, <1>2 DEF Statement
<1> HIDE DEF ran
<1>4. ReadTypeOK'
  BY <1>1, <1>3 DEF ReadInv, ReadTypeOK
<1>5. PendingOK'
  BY <1>1, <1>3 DEF ReadInv, PendingOK, Waits
<1>6. QueriesOK'
  <2> SUFFICES ASSUME NEW r \in queries', NEW k \in ReadKeys, NEW c \in r.waiters[k]
               PROVE  Waits(c, k) /\ (r.done => Saw(r, c, k))
    BY <1>1 DEF QueriesOK, Waits, Saw
  <2>1. CASE r \in queries
    BY <2>1 DEF ReadInv, QueriesOK
  <2>2. CASE r = ran
    <3>1. c \in q.waiters[k] /\ k \in KeysOf(q) /\ c \in Calls
      BY <1>1, <1>3, <2>2 DEF KeysOf, Statement, Waiters
    <3>2. Waits(c, k) /\ store[k] \in call[c].seen[k]
      BY <3>1 DEF ReadInv, QueriesOK, SeenOK, UnderWay, Waits
    <3> QED BY <1>1, <1>2, <1>3, <2>2, <3>1, <3>2 DEF Saw
  <2> QED BY <1>1, <2>1, <2>2
<1>7. OneKey'
  BY <1>1, <1>3 DEF ReadInv, OneKey, KeysOf
<1>8. Alone'
  BY <1>1, <1>3 DEF ReadInv, Alone
<1>9. SeenOK' /\ Chain'
  BY <1>1 DEF ReadInv, SeenOK, Chain
<1> QED BY <1>4, <1>5, <1>6, <1>7, <1>8, <1>9 DEF ReadInv

\* An answer: what becomes of the callers, and of nobody else.
LEMMA ReplyIs ==
  ASSUME ReadInv, NEW q \in queries, Reply(q), NEW c \in Calls
  PROVE  \/ /\ call'[c] = call[c] /\ \A k \in ReadKeys : c \notin q.waiters[k]
         \/ \E k \in ReadKeys :
              /\ c \in q.waiters[k] /\ Waits(c, k) /\ Saw(q, c, k) /\ q.rows[k] \in AllRows
              /\ call'[c] = Settled(call[c], q.rows[k])
<1>1. q.done /\ call' = [d \in Calls |->
         IF \E k \in KeysOf(q) : d \in q.waiters[k]
         THEN Settled(call[d], q.rows[CHOOSE k \in KeysOf(q) : d \in q.waiters[k]])
         ELSE call[d]]
  BY DEF Reply
<1>2. CASE \E k \in KeysOf(q) : c \in q.waiters[k]
  <2> DEFINE k == CHOOSE j \in KeysOf(q) : c \in q.waiters[j]
  <2>1. k \in KeysOf(q) /\ c \in q.waiters[k]
    BY <1>2
  <2>2. call'[c] = Settled(call[c], q.rows[k])
    BY <1>1, <1>2
  <2> HIDE DEF k
  <2>3. k \in ReadKeys /\ q.rows[k] \in AllRows
    BY <2>1 DEF KeysOf, ReadInv, ReadTypeOK, Statement
  <2> QED BY <1>1, <2>1, <2>2, <2>3 DEF ReadInv, QueriesOK
<1>3. CASE ~ \E k \in KeysOf(q) : c \in q.waiters[k]
  BY <1>1, <1>3 DEF KeysOf
<1> QED BY <1>2, <1>3

LEMMA ReplyInv == ASSUME ReadInv, NEW q \in queries, Reply(q) PROVE ReadInv'
<1>1. queries' = queries \ {q} /\ pending = NoBatch /\ UNCHANGED <<store, pending>>
  BY DEF Reply
<1>2. call' = [c \in Calls |-> call'[c]]
  BY DEF Reply
<1>3. ASSUME NEW c \in Calls
      PROVE  /\ call'[c] \in Call
             /\ UnderWay(call'[c]) => UnderWay(call[c]) /\ call'[c].seen = call[c].seen /\ Leads(call'[c])
  <2>1. call[c] \in Call /\ (UnderWay(call[c]) => Leads(call[c]))
    BY DEF ReadInv, ReadTypeOK, Chain
  <2>2. CASE call'[c] = call[c]
    BY <2>1, <2>2
  <2>3. CASE call'[c] # call[c]
    <3>1. PICK k \in ReadKeys : /\ Waits(c, k) /\ Saw(q, c, k) /\ q.rows[k] \in AllRows
                                /\ call'[c] = Settled(call[c], q.rows[k])
      BY <2>3, ReplyIs
    <3>2. /\ k = call[c].key /\ UnderWay(call[c]) /\ k \notin Unencodable
          /\ q.rows[k] \in call[c].seen[call[c].key]
      BY <3>1 DEF Waits, Saw, UnderWay
    <3>3. CASE call'[c].state = "settled"
      <4>1. Settled(call[c], q.rows[k]) \in Call
        BY <2>1, <3>1, SettledIs
      <4> QED BY <3>1, <3>3, <4>1 DEF UnderWay
    <3>4. CASE call'[c].state = "following"
      <4> DEFINE t == call[c]
                 row == q.rows[k]
                 u == call'[c]
      <4>1. /\ row.type = "symlink" /\ t.depth > 0 /\ u \in Call
            /\ u = [t EXCEPT !.state = "following", !.key = row.data, !.depth = t.depth - 1]
        BY <2>1, <3>1, <3>4, SettledIs
      <4>2. t \in Call /\ Leads(t) /\ t.key \notin Unencodable /\ row \in AllRows /\ row \in t.seen[t.key]
        BY <2>1, <3>1, <3>2
      <4> HIDE DEF t, row, u
      <4>3. Leads(u)
        BY <4>1, <4>2, LinkLeads
      <4>4. u.seen = t.seen
        BY <4>1, <4>2 DEF Call
      <4> QED BY <3>2, <4>1, <4>3, <4>4 DEF t, u
    <3> QED BY <2>1, <3>1, <3>3, <3>4, SettledIs
  <2> QED BY <2>2, <2>3
<1>4. ReadTypeOK'
  BY <1>1, <1>2, <1>3 DEF ReadInv, ReadTypeOK
<1>5. PendingOK'
  <2>1. DOMAIN NoBatch.keys = {} /\ \A k \in ReadKeys : NoBatch.waiters[k] = {}
    BY DEF NoBatch
  <2> QED BY <1>1, <2>1 DEF PendingOK
<1>6. QueriesOK'
  <2> SUFFICES ASSUME NEW r \in queries', NEW k \in ReadKeys, NEW c \in r.waiters[k]
               PROVE  Waits(c, k)' /\ (r.done => Saw(r, c, k)')
    BY DEF QueriesOK
  <2>1. r \in queries /\ r # q /\ c \in Calls
    BY <1>1 DEF ReadInv, ReadTypeOK, Statement, Waiters
  <2>2. \A j \in ReadKeys : c \notin q.waiters[j]
    BY <2>1 DEF ReadInv, Alone
  <2>3. call'[c] = call[c]
    BY <2>1, <2>2, ReplyIs
  <2> QED BY <2>1, <2>3 DEF ReadInv, QueriesOK, Waits, Saw
<1>7. OneKey' /\ Alone'
  BY <1>1 DEF ReadInv, OneKey, Alone, KeysOf
<1>8. SeenOK'
  BY <1>1, <1>3 DEF ReadInv, SeenOK
<1>9. Chain'
  BY <1>3 DEF Chain
<1> QED BY <1>4, <1>5, <1>6, <1>7, <1>8, <1>9 DEF ReadInv

\* The target of a link is asked for by a statement of its own.
LEMMA OneQueryIs ==
  ASSUME NEW k \in ReadKeys, NEW callers \in SUBSET Calls
  PROVE  /\ OneQuery(k, callers) \in Statement /\ ~OneQuery(k, callers).done
         /\ \A j \in ReadKeys : OneQuery(k, callers).waiters[j] = IF j = k THEN callers ELSE {}
<1> DEFINE mine == [[j \in ReadKeys |-> {}] EXCEPT ![k] = callers]
<1>1. mine \in Waiters /\ \A j \in ReadKeys : mine[j] = IF j = k THEN callers ELSE {}
  BY DEF Waiters
<1>2. [j \in ReadKeys |-> NoneThere] \in [ReadKeys -> AllRows]
  BY DEF AllRows
<1> HIDE DEF mine
<1>3. OneQuery(k, callers) =
        [waiters |-> mine, kind |-> "one", done |-> FALSE, rows |-> [j \in ReadKeys |-> NoneThere]]
  BY DEF OneQuery, Query, mine
<1> QED BY <1>1, <1>2, <1>3 DEF Statement

LEMMA FollowLinkInv == ASSUME ReadInv, NEW c \in Calls, FollowLink(c) PROVE ReadInv'
<1> DEFINE t == [call[c] EXCEPT !.state = "waiting"]
           new == OneQuery(call[c].key, {c})
<1>1. /\ call[c] \in Call /\ call[c].state = "following" /\ call' = [call EXCEPT ![c] = t]
      /\ queries' = queries \cup {new} /\ UNCHANGED <<store, pending>>
  BY DEF FollowLink, ReadInv, ReadTypeOK
<1>2. /\ t \in Call /\ t.state = "waiting" /\ t.key = call[c].key /\ t.first = call[c].first
      /\ t.depth = call[c].depth /\ t.seen = call[c].seen
  BY <1>1 DEF Call
<1>3. /\ new \in Statement /\ ~new.done
      /\ \A j \in ReadKeys : new.waiters[j] = IF j = call[c].key THEN {c} ELSE {}
  <2>1. call[c].key \in ReadKeys
    BY <1>1 DEF Call
  <2> QED BY <2>1, OneQueryIs
<1> HIDE DEF t, new
<1>4. call'[c] = t /\ \A d \in Calls \ {c} : call'[d] = call[d]
  BY <1>1 DEF ReadInv, ReadTypeOK
<1>5. \A k \in ReadKeys : c \notin pending.waiters[k] /\ \A q \in queries : c \notin q.waiters[k]
  BY <1>1 DEF ReadInv, PendingOK, QueriesOK, Waits
<1>6. ReadTypeOK'
  BY <1>1, <1>2, <1>3 DEF ReadInv, ReadTypeOK
<1>7. PendingOK'
  <2> SUFFICES ASSUME NEW k \in ReadKeys, NEW d \in pending.waiters[k]
               PROVE  Waits(d, k)' /\ \A q \in queries', j \in ReadKeys : d \notin q.waiters[j]
    BY <1>1 DEF ReadInv, PendingOK
  <2>1. d \in Calls \ {c}
    BY <1>5 DEF ReadInv, ReadTypeOK, Waiters
  <2> QED BY <1>1, <1>3, <1>4, <2>1 DEF ReadInv, PendingOK, Waits
<1>8. QueriesOK'
  <2> SUFFICES ASSUME NEW q \in queries', NEW k \in ReadKeys, NEW d \in q.waiters[k]
               PROVE  Waits(d, k)' /\ (q.done => Saw(q, d, k)')
    BY DEF QueriesOK
  <2>1. CASE q \in queries
    <3>1. d \in Calls \ {c}
      BY <1>5, <2>1 DEF ReadInv, ReadTypeOK, Statement, Waiters
    <3> QED BY <1>4, <2>1, <3>1 DEF ReadInv, QueriesOK, Waits, Saw
  <2>2. CASE q = new
    BY <1>2, <1>3, <1>4, <2>2 DEF Waits
  <2> QED BY <1>1, <2>1, <2>2
<1>9. OneKey'
  BY <1>1, <1>3 DEF ReadInv, OneKey, KeysOf
<1>10. Alone'
  BY <1>1, <1>3, <1>5 DEF ReadInv, Alone
<1>11. SeenOK' /\ Chain'
  BY <1>1, <1>2, <1>4 DEF ReadInv, SeenOK, Chain, UnderWay, Leads
<1> QED BY <1>6, <1>7, <1>8, <1>9, <1>10, <1>11 DEF ReadInv

\* A statement for several keys fails: each is asked for on its own.
LEMMA ManyFailsInv == ASSUME ReadInv, NEW q \in queries, ManyFails(q) PROVE ReadInv'
<1> DEFINE New(k) == OneQuery(k, q.waiters[k])
<1>1. /\ queries' = (queries \ {q}) \cup {New(k) : k \in KeysOf(q)} /\ q \in Statement
      /\ UNCHANGED <<store, call, pending>>
  BY DEF ManyFails, ReadInv, ReadTypeOK
<1>2. ASSUME NEW k \in KeysOf(q)
      PROVE  /\ k \in ReadKeys /\ New(k) \in Statement /\ ~New(k).done
             /\ \A j \in ReadKeys : New(k).waiters[j] = IF j = k THEN q.waiters[k] ELSE {}
  <2>1. k \in ReadKeys /\ q.waiters[k] \in SUBSET Calls
    BY <1>1 DEF KeysOf, Statement, Waiters
  <2> QED BY <2>1, OneQueryIs
<1> HIDE DEF New
<1>3. ReadTypeOK'
  BY <1>1, <1>2 DEF ReadInv, ReadTypeOK
<1>4. PendingOK'
  BY <1>1, <1>2 DEF ReadInv, PendingOK, Waits
<1>5. QueriesOK'
  <2> SUFFICES ASSUME NEW r \in queries', NEW k \in ReadKeys, NEW c \in r.waiters[k]
               PROVE  Waits(c, k) /\ (r.done => Saw(r, c, k))
    BY <1>1 DEF QueriesOK, Waits, Saw
  <2>1. CASE r \in queries
    BY <2>1 DEF ReadInv, QueriesOK
  <2>2. CASE r \notin queries
    <3>1. PICK j \in KeysOf(q) : r = New(j)
      BY <1>1, <2>2
    <3> QED BY <1>2, <3>1 DEF ReadInv, QueriesOK
  <2> QED BY <2>1, <2>2
<1>6. OneKey'
  <2>1. ASSUME NEW j \in KeysOf(q), NEW k \in KeysOf(New(j))
        PROVE  k = j
    BY <1>2 DEF KeysOf
  <2> QED BY <1>1, <2>1 DEF ReadInv, OneKey
<1>7. Alone'
  <2> SUFFICES ASSUME NEW r \in queries', NEW s \in queries', NEW k \in ReadKeys, NEW j \in ReadKeys,
                      NEW c, c \in r.waiters[k], c \in s.waiters[j]
               PROVE  r = s
    BY DEF Alone
  <2>1. k = j
    BY <1>1, <1>5 DEF QueriesOK, Waits
  <2>2. \A u \in queries' : (u \in queries /\ u # q) \/ \E i \in KeysOf(q) : u = New(i)
    BY <1>1
  <2>3. ASSUME NEW u \in queries', c \in u.waiters[k], ~(u \in queries /\ u # q)
        PROVE  u = New(k) /\ c \in q.waiters[k]
    <3>1. PICK i \in KeysOf(q) : u = New(i)
      BY <2>2, <2>3
    <3> QED BY <1>2, <2>3, <3>1
  <2> QED BY <2>1, <2>3 DEF ReadInv, Alone
<1>8. SeenOK' /\ Chain'
  BY <1>1 DEF ReadInv, SeenOK, Chain
<1> QED BY <1>3, <1>4, <1>5, <1>6, <1>7, <1>8 DEF ReadInv

\* A statement for one key fails: its callers do.
LEMMA OneFailsIs ==
  ASSUME ReadInv, NEW q \in queries, OneFails(q), NEW c \in Calls
  PROVE  \/ call'[c] = call[c] /\ \A k \in ReadKeys : c \notin q.waiters[k]
         \/ /\ call'[c] = EndedWith("failed")
            /\ \E k \in ReadKeys : k \in Unencodable /\ c \in q.waiters[k] /\ Waits(c, k)
<1>1. call' = Rejected(UNION Range(q.waiters)) /\ KeysOf(q) \cap Unencodable # {} /\ q.kind = "one"
  BY DEF OneFails
<1>2. q.waiters \in Waiters
  BY DEF ReadInv, ReadTypeOK, Statement
<1>3. CASE \E k \in ReadKeys : c \in q.waiters[k]
  <2>1. PICK k \in ReadKeys : c \in q.waiters[k]
    BY <1>3
  <2>2. c \in UNION Range(q.waiters) /\ k \in KeysOf(q)
    BY <1>2, <2>1 DEF Range, Waiters, KeysOf
  <2>3. k \in Unencodable
    BY <1>1, <2>2 DEF ReadInv, OneKey
  <2> QED BY <1>1, <2>1, <2>2, <2>3 DEF Rejected, ReadInv, QueriesOK
<1>4. CASE ~ \E k \in ReadKeys : c \in q.waiters[k]
  <2>1. c \notin UNION Range(q.waiters)
    BY <1>2, <1>4 DEF Range, Waiters
  <2> QED BY <1>1, <1>4, <2>1 DEF Rejected
<1> QED BY <1>3, <1>4

LEMMA OneFailsInv == ASSUME ReadInv, NEW q \in queries, OneFails(q) PROVE ReadInv'
<1>1. queries' = queries \ {q} /\ pending = NoBatch /\ UNCHANGED <<store, pending>>
  BY DEF OneFails
<1>2. call' = [c \in Calls |-> call'[c]]
  BY DEF OneFails, Rejected
<1>3. \A c \in Calls : /\ call'[c] \in Call
                       /\ UnderWay(call'[c]) => call'[c] = call[c]
  <2>1. "failed" \in Results
    BY DEF Results
  <2> QED BY <2>1, OneFailsIs, CallsTyped DEF ReadInv, ReadTypeOK, UnderWay
<1>4. ReadTypeOK'
  BY <1>1, <1>2, <1>3 DEF ReadInv, ReadTypeOK
<1>5. PendingOK'
  <2>1. DOMAIN NoBatch.keys = {} /\ \A k \in ReadKeys : NoBatch.waiters[k] = {}
    BY DEF NoBatch
  <2> QED BY <1>1, <2>1 DEF PendingOK
<1>6. QueriesOK'
  <2> SUFFICES ASSUME NEW r \in queries', NEW k \in ReadKeys, NEW c \in r.waiters[k]
               PROVE  Waits(c, k)' /\ (r.done => Saw(r, c, k)')
    BY DEF QueriesOK
  <2>1. r \in queries /\ r # q /\ c \in Calls
    BY <1>1 DEF ReadInv, ReadTypeOK, Statement, Waiters
  <2>2. \A j \in ReadKeys : c \notin q.waiters[j]
    BY <2>1 DEF ReadInv, Alone
  <2>3. call'[c] = call[c]
    BY <2>1, <2>2, OneFailsIs
  <2> QED BY <2>1, <2>3 DEF ReadInv, QueriesOK, Waits, Saw
<1>7. OneKey' /\ Alone'
  BY <1>1 DEF ReadInv, OneKey, Alone, KeysOf
<1>8. SeenOK' /\ Chain'
  BY <1>1, <1>3 DEF ReadInv, SeenOK, Chain
<1> QED BY <1>4, <1>5, <1>6, <1>7, <1>8 DEF ReadInv

\* Rows change: those under way have one more row to their paths.
LEMMA ChangeInv == ASSUME ReadInv, NEW k \in ReadKeys, NEW row \in Rows, Change(k, row) PROVE ReadInv'
<1>1. /\ store' = [store EXCEPT ![k] = row] /\ UNCHANGED <<pending, queries>>
      /\ call' = [c \in Calls |-> IF UnderWay(call[c])
                                    THEN [call[c] EXCEPT !.seen[k] = call[c].seen[k] \cup {row}] ELSE call[c]]
  BY DEF Change, UnderWay
<1>2. ASSUME NEW c \in Calls
      PROVE  /\ call'[c] \in Call /\ call'[c].state = call[c].state /\ call'[c].key = call[c].key
             /\ call'[c].first = call[c].first /\ call'[c].depth = call[c].depth
             /\ \A j \in ReadKeys : call[c].seen[j] \subseteq call'[c].seen[j]
             /\ UnderWay(call[c]) => row \in call'[c].seen[k]
  <2>1. call[c] \in Call /\ call[c].seen \in SeenRows
    BY DEF ReadInv, ReadTypeOK, Call
  <2>2. CASE UnderWay(call[c])
    <3> DEFINE seen == [call[c].seen EXCEPT ![k] = call[c].seen[k] \cup {row}]
    <3>1. seen \in SeenRows /\ row \in seen[k] /\ \A j \in ReadKeys : call[c].seen[j] \subseteq seen[j]
      BY <2>1 DEF SeenRows, AllRows
    <3>2. call'[c] = [call[c] EXCEPT !.seen = seen]
      BY <1>1, <2>1, <2>2 DEF Call
    <3> HIDE DEF seen
    <3> QED BY <2>1, <3>1, <3>2 DEF Call
  <2>3. CASE ~UnderWay(call[c])
    BY <1>1, <2>1, <2>3
  <2> QED BY <2>2, <2>3
<1>3. call' = [c \in Calls |-> call'[c]]
  BY <1>1
<1>4. ReadTypeOK'
  <2>1. store' \in [ReadKeys -> AllRows]
    BY <1>1 DEF ReadInv, ReadTypeOK, AllRows
  <2> QED BY <1>1, <1>2, <1>3, <2>1 DEF ReadInv, ReadTypeOK
<1>5. \A c \in Calls, j \in ReadKeys : Waits(c, j)' <=> Waits(c, j)
  BY <1>2 DEF Waits
<1>6. PendingOK'
  BY <1>1, <1>5 DEF ReadInv, ReadTypeOK, PendingOK, Waiters
<1>7. QueriesOK'
  <2> SUFFICES ASSUME NEW q \in queries, NEW j \in ReadKeys, NEW c \in q.waiters[j]
               PROVE  Waits(c, j)' /\ (q.done => Saw(q, c, j)')
    BY <1>1 DEF QueriesOK
  <2>1. c \in Calls
    BY DEF ReadInv, ReadTypeOK, Statement, Waiters
  <2> QED BY <1>2, <1>5, <2>1 DEF ReadInv, QueriesOK, Saw
<1>8. OneKey' /\ Alone'
  BY <1>1 DEF ReadInv, OneKey, Alone, KeysOf
<1>9. SeenOK'
  <2> SUFFICES ASSUME NEW c \in Calls, UnderWay(call'[c]), NEW j \in ReadKeys
               PROVE  store'[j] \in call'[c].seen[j]
    BY DEF SeenOK
  <2>1. UnderWay(call[c])
    BY <1>2 DEF UnderWay
  <2>2. CASE j = k
    BY <1>1, <1>2, <2>1, <2>2 DEF ReadInv, ReadTypeOK
  <2>3. CASE j # k
    BY <1>1, <1>2, <2>1, <2>3 DEF ReadInv, ReadTypeOK, SeenOK
  <2> QED BY <2>2, <2>3
<1>10. Chain'
  <2> SUFFICES ASSUME NEW c \in Calls, UnderWay(call'[c]), NEW s \in SeenRows,
                      \A j \in ReadKeys : call'[c].seen[j] \subseteq s[j]
               PROVE  After(s)[call'[c].depth][call'[c].key] \subseteq After(s)[MaxDepth][call'[c].first]
    BY DEF Chain, Leads
  <2>1. UnderWay(call[c]) /\ Leads(call[c])
    BY <1>2 DEF ReadInv, UnderWay, Chain
  <2>2. \A j \in ReadKeys : call[c].seen[j] \subseteq s[j]
    BY <1>2
  <2> QED BY <1>2, <2>1, <2>2 DEF Leads
<1> QED BY <1>4, <1>6, <1>7, <1>8, <1>9, <1>10 DEF ReadInv

LEMMA ReadNextInv == ReadInv /\ [ReadNext]_readVars => ReadInv'
<1> SUFFICES ASSUME ReadInv, [ReadNext]_readVars PROVE ReadInv'
  OBVIOUS
<1>1. CASE UNCHANGED readVars
  BY <1>1 DEF readVars, ReadInv, ReadTypeOK, PendingOK, QueriesOK, OneKey, Alone, SeenOK, Chain,
              Waits, Saw, KeysOf
<1>2. CASE ReadNext
  BY <1>2, LoadInv, FlushInv, ExecuteInv, ReplyInv, FollowLinkInv, ManyFailsInv, OneFailsInv, ChangeInv
     DEF ReadNext, Progress
<1> QED BY <1>1, <1>2

\* SettlesAsUnbatched: a call ends with what reading alone might have given, at
\* some rows that its paths had since it was made.
Settling == \A c \in Calls : call[c].state = "waiting" /\ call'[c].state = "settled" =>
              call'[c].result \in Possible(call[c].seen, call[c].first)

LEMMA SettlesAsAlone == ReadInv /\ ReadNext => Settling
<1> SUFFICES ASSUME ReadInv, ReadNext, NEW c \in Calls,
                    call[c].state = "waiting", call'[c].state = "settled"
             PROVE  call'[c].result \in Possible(call[c].seen, call[c].first)
  BY DEF Settling
<1>1. call[c] \in Call /\ Leads(call[c])
  BY DEF ReadInv, ReadTypeOK, Chain, UnderWay
<1>2. ASSUME NEW q \in queries, Reply(q)
      PROVE  call'[c].result \in Possible(call[c].seen, call[c].first)
  <2>1. PICK k \in ReadKeys : /\ Waits(c, k) /\ Saw(q, c, k) /\ q.rows[k] \in AllRows
                              /\ call'[c] = Settled(call[c], q.rows[k])
    BY <1>2, ReplyIs
  <2>2. call'[c].result \in Outcome(q.rows[k], Below(After(call[c].seen), call[c].depth))
    BY <1>1, <2>1, SettledIs
  <2>3. call[c].key \notin Unencodable /\ q.rows[k] \in call[c].seen[call[c].key]
    BY <2>1 DEF Waits, Saw
  <2> QED BY <1>1, <2>2, <2>3, RowIsPossible
<1>3. ASSUME NEW q \in queries, OneFails(q)
      PROVE  call'[c].result \in Possible(call[c].seen, call[c].first)
  <2>1. call'[c] = EndedWith("failed") /\ call[c].key \in Unencodable
    BY <1>3, OneFailsIs DEF Waits
  <2>2. call'[c].result = "failed"
    <3>1. "failed" \in Results
      BY DEF Results
    <3> QED BY <2>1, <3>1, CallsTyped
  <2> QED BY <1>1, <2>1, <2>2, FaultIsPossible
<1>4. ASSUME NEW d \in Calls, NEW k \in ReadKeys, Load(d, k) PROVE FALSE
  <2>1. call[d].state = "idle"
    BY <1>4 DEF Load
  <2>2. call'[c] = call[c]
    BY <1>4, <2>1 DEF Load, ReadInv, ReadTypeOK
  <2> QED BY <2>2
<1>5. ASSUME NEW d \in Calls, FollowLink(d) PROVE FALSE
  <2>1. call'[c] = call[c]
    BY <1>5 DEF FollowLink, ReadInv, ReadTypeOK
  <2> QED BY <2>1
<1>6. ASSUME NEW k \in ReadKeys, NEW row \in Rows, Change(k, row) PROVE FALSE
  <2>1. call'[c].state = call[c].state
    BY <1>1, <1>6 DEF Change, Call
  <2> QED BY <2>1
<1>7. call' # call
  OBVIOUS
<1> QED BY <1>2, <1>3, <1>4, <1>5, <1>6, <1>7 DEF ReadNext, Progress, Flush, Execute, ManyFails

\* What a coalesced read ends with, it might have ended with alone, at rows that
\* each were there at a moment of its own.
THEOREM ReadsSettleAsUnbatched == ReadSpec => SettlesAsUnbatched
<1>1. ReadInv /\ [ReadNext]_readVars => [Settling]_readVars
  BY SettlesAsAlone
<1>2. [][Settling]_readVars => SettlesAsUnbatched
  BY DEF SettlesAsUnbatched, Settling
<1> QED BY <1>1, <1>2, ReadInitInv, ReadNextInv, PTL DEF ReadSpec

-----------------------------------------------------------------------------
(* Rules: names and their labels. A label is spelled by the codes of the   *)
(* characters, at positions of its own, and decoding goes from one to the  *)
(* next.                                                                   *)

Code(c) == IF c \in Plain THEN <<c>> ELSE Escape[c]
Symbols == UNION {Range(Code(c)) : c \in Characters}

LEMMA CodeIs ==
  ASSUME NEW c \in Characters
  PROVE  Code(c) \in Seq(Symbols) /\ Len(Code(c)) \in Nat \ {0}
<1>1. Code(c) \in Seq(Range(Code(c))) /\ Code(c) # <<>>
  <2>1. CASE c \in Plain
    BY <2>1 DEF Code, Range
  <2>2. CASE c \notin Plain
    BY <2>2, EscapeAssumption DEF Characters, Code
  <2> QED BY <2>1, <2>2
<1>2. Range(Code(c)) \subseteq Symbols
  BY DEF Symbols
<1>3. Code(c) \in Seq(Symbols)
  BY <1>1, <1>2, SeqMonotonic
<1> QED BY <1>1, <1>3

\* A sequence flattened, up to each of its parts.
Joins(g, parts, n) == g = [i \in 1..n |-> IF i = 1 THEN parts[1] ELSE g[i - 1] \o parts[i]]

LEMMA FlattenIs ==
  ASSUME NEW parts, Len(parts) \in Nat
  PROVE  FlattenSeq(parts) =
           IF Len(parts) = 0 THEN parts ELSE (CHOOSE g : Joins(g, parts, Len(parts)))[Len(parts)]
<1> DEFINE Is(g) == g = [i \in 1..Len(parts) |-> IF i = 1 THEN parts[i] ELSE g[i - 1] \o parts[i]]
<1>1. FlattenSeq(parts) = IF Len(parts) = 0 THEN parts ELSE (CHOOSE g : Is(g))[Len(parts)]
  BY DEF FlattenSeq
<1>2. ASSUME NEW g PROVE Is(g) <=> Joins(g, parts, Len(parts))
  <2>1. [i \in 1..Len(parts) |-> IF i = 1 THEN parts[i] ELSE g[i - 1] \o parts[i]]
          = [i \in 1..Len(parts) |-> IF i = 1 THEN parts[1] ELSE g[i - 1] \o parts[i]]
    OBVIOUS
  <2> QED BY <2>1 DEF Joins
<1> HIDE DEF Is
<1>3. (CHOOSE g : Is(g)) = (CHOOSE g : Joins(g, parts, Len(parts)))
  BY <1>2
<1> QED BY <1>1, <1>3

LEMMA JoinsExist ==
  ASSUME NEW parts, NEW n \in Nat
  PROVE  \E g : Joins(g, parts, n)
<1> DEFINE B == {i \in Nat : ~ \E g : Joins(g, parts, i)}
<1> SUFFICES ASSUME B # {} PROVE FALSE
  OBVIOUS
<1>1. PICK m \in B : \A i \in B : m <= i
  <2>1. B \subseteq Nat
    OBVIOUS
  <2> HIDE DEF B
  <2> QED BY <2>1, NatMinimum
<1>2. m \in Nat /\ ~ \E g : Joins(g, parts, m)
  OBVIOUS
<1>3. CASE m = 0
  <2>1. \A g, h : [i \in 1..0 |-> IF i = 1 THEN parts[1] ELSE g[i - 1] \o parts[i]]
                   = [i \in 1..0 |-> IF i = 1 THEN parts[1] ELSE h[i - 1] \o parts[i]]
    OBVIOUS
  <2>2. Joins([i \in 1..0 |-> IF i = 1 THEN parts[1] ELSE parts[i - 1] \o parts[i]], parts, 0)
    BY <2>1 DEF Joins
  <2> QED BY <1>2, <1>3, <2>2
<1>4. CASE m # 0
  <2>1. m - 1 \in Nat /\ m - 1 \notin B
    BY <1>1, <1>2, <1>4
  <2>2. PICK f : Joins(f, parts, m - 1)
    BY <2>1
  <2> DEFINE On(h, i) == IF i = 1 THEN parts[1] ELSE h[i - 1] \o parts[i]
             g == [i \in 1..m |-> IF i < m THEN f[i] ELSE On(f, m)]
  <2>3. \A i \in 1..(m - 1) : f[i] = On(f, i)
    BY <2>2 DEF Joins
  <2>4. /\ \A i \in 1..(m - 1) : g[i] = f[i]
        /\ g[m] = On(f, m) /\ g = [i \in 1..m |-> g[i]]
    <3> HIDE DEF On
    <3> QED BY <1>2, <1>4
  <2>5. \A i \in 1..m : On(f, i) = On(g, i)
    <3> TAKE i \in 1..m
    <3>1. i # 1 => i - 1 \in 1..(m - 1)
      BY <1>2
    <3> HIDE DEF g
    <3> QED BY <2>4, <3>1
  <2>6. \A i \in 1..m : g[i] = On(g, i)
    <3> TAKE i \in 1..m
    <3>1. i = m \/ i \in 1..(m - 1)
      BY <1>2
    <3> HIDE DEF g, On
    <3> QED BY <2>3, <2>4, <2>5, <3>1
  <2>7. g = [i \in 1..m |-> On(g, i)]
    <3> HIDE DEF g, On
    <3> QED BY <2>4, <2>6
  <2>8. Joins(g, parts, m)
    <3> HIDE DEF g
    <3> QED BY <2>7 DEF Joins
  <2> QED BY <1>2, <2>8
<1> QED BY <1>3, <1>4

\* Where the parts end in the whole.
Laid(parts, whole, at) ==
  /\ at \in [0..Len(parts) -> Nat]
  /\ at[0] = 0 /\ at[Len(parts)] = Len(whole)
  /\ \A i \in 1..Len(parts) :
       /\ at[i] = at[i - 1] + Len(parts[i]) /\ at[i] <= Len(whole)
       /\ \A k \in 1..Len(parts[i]) : whole[at[i - 1] + k] = parts[i][k]

LEMMA FlattenLaid ==
  ASSUME NEW S, NEW parts \in Seq(Seq(S))
  PROVE  /\ FlattenSeq(parts) \in Seq(S)
         /\ \E at : Laid(parts, FlattenSeq(parts), at)
<1>1. CASE parts = <<>>
  <2> DEFINE at == [i \in {0} |-> 0]
  <2>1. FlattenSeq(parts) = <<>>
    BY <1>1, FlattenIs
  <2>2. Laid(parts, <<>>, at)
    BY <1>1 DEF Laid
  <2> QED BY <2>1, <2>2
<1>2. CASE parts # <<>>
  <2> DEFINE n == Len(parts)
  <2>1. n \in Nat /\ n # 0
    BY <1>2
  <2> HIDE DEF n
  <2>2. PICK g : Joins(g, parts, n) /\ FlattenSeq(parts) = g[n]
    <3>1. \E g : Joins(g, parts, n)
      BY <2>1, JoinsExist DEF n
    <3> QED BY <1>2, <3>1, FlattenIs DEF n
  <2>3. /\ g[1] = parts[1]
        /\ \A i \in 2..n : g[i] = g[i - 1] \o parts[i]
    <3>1. \A i \in 1..n : g[i] = IF i = 1 THEN parts[1] ELSE g[i - 1] \o parts[i]
      BY <2>2 DEF Joins
    <3>2. 1 \in 1..n /\ \A i \in 2..n : i \in 1..n /\ i # 1
      BY <2>1
    <3> QED BY <3>1, <3>2
  <2>4. \A i \in 1..n : parts[i] \in Seq(S) /\ Len(parts[i]) \in Nat
    BY DEF n
  \* every g[i] spells the first i parts
  <2> DEFINE Good(i) ==
               /\ g[i] \in Seq(S)
               /\ \A j \in 1..i : /\ g[j] \in Seq(S) /\ Len(g[j]) <= Len(g[i])
                                  /\ \A k \in 1..Len(g[j]) : g[i][k] = g[j][k]
             B == {i \in 1..n : ~ Good(i)}
  <2>5. \A i \in 1..n : Good(i)
    <3> SUFFICES ASSUME B # {} PROVE FALSE
      OBVIOUS
    <3>1. PICK m \in B : \A i \in B : m <= i
      <4>1. B \subseteq Nat
        OBVIOUS
      <4> HIDE DEF B
      <4> QED BY <4>1, NatMinimum
    <3>2. m \in 1..n /\ ~ Good(m)
      OBVIOUS
    <3>3. CASE m = 1
      <4>1. g[1] \in Seq(S)
        BY <2>1, <2>3, <2>4
      <4>2. Good(1)
        BY <4>1
      <4> QED BY <3>2, <3>3, <4>2
    <3>4. CASE m # 1
      <4>1. m - 1 \in 1..n /\ m \in 2..n /\ m - 1 \notin B
        <5>1. m - 1 \in 1..n /\ m \in 2..n /\ ~(m <= m - 1)
          BY <2>1, <3>2, <3>4
        <5> HIDE DEF B
        <5> QED BY <3>1, <5>1
      <4>2. Good(m - 1)
        BY <4>1
      <4> DEFINE a == g[m - 1]
                 b == parts[m]
      <4>3. g[m] = a \o b /\ a \in Seq(S) /\ b \in Seq(S)
        BY <2>3, <2>4, <4>1, <4>2
      <4>4. /\ g[m] \in Seq(S) /\ Len(g[m]) = Len(a) + Len(b)
            /\ \A k \in 1..Len(a) : g[m][k] = a[k]
        <5> HIDE DEF a, b
        <5> QED BY <4>3
      <4>5. ASSUME NEW j \in 1..m
            PROVE  /\ g[j] \in Seq(S) /\ Len(g[j]) <= Len(g[m])
                   /\ \A k \in 1..Len(g[j]) : g[m][k] = g[j][k]
        <5>1. CASE j = m
          <6>1. Len(g[m]) <= Len(g[m])
            BY <4>4
          <6> HIDE DEF a, b
          <6> QED BY <4>4, <5>1, <6>1
        <5>2. CASE j # m
          <6>1. j \in 1..(m - 1)
            BY <4>1, <5>2
          <6>2. /\ g[j] \in Seq(S) /\ Len(g[j]) <= Len(a)
                /\ \A k \in 1..Len(g[j]) : a[k] = g[j][k]
            BY <4>2, <6>1
          <6>3. Len(g[j]) \in Nat /\ Len(a) \in Nat /\ Len(b) \in Nat
            <7> HIDE DEF a, b
            <7> QED BY <4>3, <6>2
          <6> HIDE DEF a, b
          <6> QED BY <4>4, <6>2, <6>3
        <5> QED BY <5>1, <5>2
      <4>6. Good(m)
        BY <4>4, <4>5
      <4> QED BY <3>2, <4>6
    <3> QED BY <3>3, <3>4
  <2> DEFINE at == [i \in 0..n |-> IF i = 0 THEN 0 ELSE Len(g[i])]
  <2>6. \A i \in 1..n : g[i] \in Seq(S) /\ Len(g[i]) \in Nat
    BY <2>5
  <2>7. /\ at \in [0..n -> Nat] /\ at[0] = 0 /\ at[n] = Len(g[n])
        /\ \A i \in 1..n : at[i] = Len(g[i]) /\ at[i] <= Len(g[n])
    BY <2>1, <2>5, <2>6
  <2> HIDE DEF at
  <2>8. ASSUME NEW i \in 1..n
        PROVE  /\ at[i] = at[i - 1] + Len(parts[i])
               /\ \A k \in 1..Len(parts[i]) : g[n][at[i - 1] + k] = parts[i][k]
    <3> DEFINE b == parts[i]
    <3>1. b \in Seq(S) /\ Len(b) \in Nat
      BY <2>4
    <3>2. /\ Len(g[i]) <= Len(g[n]) /\ \A k \in 1..Len(g[i]) : g[n][k] = g[i][k]
      <4>1. Good(n)
        BY <2>1, <2>5
      <4> QED BY <4>1
    <3>3. CASE i = 1
      BY <2>3, <2>7, <3>1, <3>2, <3>3
    <3>4. CASE i # 1
      <4> DEFINE a == g[i - 1]
      <4>1. i \in 2..n /\ i - 1 \in 1..n
        BY <2>1, <3>4
      <4>2. g[i] = a \o b /\ a \in Seq(S) /\ at[i - 1] = Len(a) /\ at[i] = Len(g[i])
        BY <2>3, <2>6, <2>7, <4>1
      <4> HIDE DEF a, b
      <4>3. /\ Len(g[i]) = Len(a) + Len(b) /\ Len(a) \in Nat
            /\ \A k \in 1..Len(b) : g[i][Len(a) + k] = b[k]
        BY <3>1, <4>2
      <4>4. \A k \in 1..Len(b) : Len(a) + k \in 1..Len(g[i])
        BY <3>1, <4>3
      <4>5. \A k \in 1..Len(b) : g[n][at[i - 1] + k] = b[k]
        BY <3>2, <4>2, <4>3, <4>4
      <4>6. at[i] = at[i - 1] + Len(b)
        BY <4>2, <4>3
      <4> QED BY <4>5, <4>6 DEF b
    <3> QED BY <3>3, <3>4
  <2> HIDE DEF Good, B
  <2>9. Laid(parts, g[n], at)
    BY <2>7, <2>8 DEF Laid, n
  <2>10. g[n] \in Seq(S)
    BY <2>1, <2>6
  <2> QED BY <2>2, <2>9, <2>10
<1> QED BY <1>1, <1>2

\* Where the characters of a name end in its label.
Spells(name, word, at) ==
  /\ word \in Seq(Symbols)
  /\ at \in [0..Len(name) -> Nat]
  /\ at[0] = 0 /\ at[Len(name)] = Len(word)
  /\ \A i \in 1..Len(name) :
       /\ at[i] = at[i - 1] + Len(Code(name[i])) /\ at[i] <= Len(word)
       /\ \A k \in 1..Len(Code(name[i])) : word[at[i - 1] + k] = Code(name[i])[k]

LEMMA EncodeSpells ==
  ASSUME NEW name \in Seq(Characters)
  PROVE  \E at : Spells(name, Encode(name), at)
<1> DEFINE parts == [i \in 1..Len(name) |-> IF name[i] \in Plain THEN <<name[i]>> ELSE Escape[name[i]]]
<1>1. Encode(name) = FlattenSeq(parts)
  BY DEF Encode
<1>2. Len(parts) = Len(name) /\ \A i \in 1..Len(name) : parts[i] = Code(name[i])
  BY DEF Code
<1>3. parts \in Seq(Seq(Symbols))
  <2>1. \A i \in 1..Len(name) : parts[i] \in Seq(Symbols)
    <3> TAKE i \in 1..Len(name)
    <3>1. parts[i] = Code(name[i]) /\ name[i] \in Characters
      BY <1>2
    <3> HIDE DEF parts
    <3> QED BY <3>1, CodeIs
  <2>2. parts = [i \in 1..Len(name) |-> parts[i]]
    OBVIOUS
  <2> HIDE DEF parts
  <2> QED BY <2>1, <2>2
<1> HIDE DEF parts
<1>4. PICK at : Laid(parts, Encode(name), at)
  BY <1>1, <1>3, FlattenLaid
<1>5. Encode(name) \in Seq(Symbols)
  BY <1>1, <1>3, FlattenLaid
<1>6. ASSUME NEW i \in 1..Len(name)
      PROVE  /\ at[i] = at[i - 1] + Len(Code(name[i])) /\ at[i] <= Len(Encode(name))
             /\ \A k \in 1..Len(Code(name[i])) : Encode(name)[at[i - 1] + k] = Code(name[i])[k]
  <2>1. i \in 1..Len(parts) /\ parts[i] = Code(name[i])
    BY <1>2
  <2> QED BY <1>4, <2>1 DEF Laid
<1>7. at \in [0..Len(name) -> Nat] /\ at[0] = 0 /\ at[Len(name)] = Len(Encode(name))
  BY <1>2, <1>4 DEF Laid
<1>8. Spells(name, Encode(name), at)
  BY <1>5, <1>6, <1>7 DEF Spells
<1> QED BY <1>8

\* decodeLabel from a position on, and what it makes of one.
Taken(word, i) == CHOOSE c \in EscapesAt(word, i) : TRUE
Goes(g, word, i) ==
  IF i > Len(word) THEN <<>>
  ELSE IF EscapesAt(word, i) = {} THEN <<word[i]>> \o g[i + 1]
  ELSE <<Taken(word, i)>> \o g[i + Len(Escape[Taken(word, i)])]
DecodesFrom(g, word, m) == g = [i \in m..Len(word) + 1 |-> Goes(g, word, i)]

LEMMA DecodeIs == \A word : Decode(word) = (CHOOSE g : DecodesFrom(g, word, 1))[1]
BY DEF Decode, DecodesFrom, Goes, Taken

\* An escape takes at least one character, and ends within the label.
LEMMA TakenIs ==
  ASSUME NEW word, Len(word) \in Nat, NEW i \in Nat, EscapesAt(word, i) # {}
  PROVE  /\ Taken(word, i) \in EscapesAt(word, i) /\ Taken(word, i) \in DOMAIN Escape
         /\ Len(Escape[Taken(word, i)]) \in Nat \ {0}
         /\ i + Len(Escape[Taken(word, i)]) <= Len(word) + 1
<1> DEFINE c == Taken(word, i)
<1>1. c \in EscapesAt(word, i)
  BY DEF Taken
<1> HIDE DEF c
<1>2. c \in DOMAIN Escape /\ i + Len(Escape[c]) - 1 <= Len(word)
  BY <1>1 DEF EscapesAt
<1>3. Escape[c] \in Seq(Range(Escape[c])) /\ Escape[c] # <<>>
  BY <1>2, EscapeAssumption
<1>4. Len(Escape[c]) \in Nat \ {0}
  BY <1>3
<1> QED BY <1>1, <1>2, <1>4 DEF c

LEMMA DecodesExist ==
  ASSUME NEW word, Len(word) \in Nat, NEW n \in 0..Len(word)
  PROVE  \E g : DecodesFrom(g, word, Len(word) + 1 - n)
<1> DEFINE N == Len(word)
           B == {i \in 0..N : ~ \E g : DecodesFrom(g, word, N + 1 - i)}
<1>0. N \in Nat /\ n \in 0..N
  OBVIOUS
<1> SUFFICES ASSUME B # {} PROVE FALSE
  BY <1>0
<1> HIDE DEF N
<1>1. PICK k \in B : \A i \in B : k <= i
  <2>1. B \subseteq Nat
    BY <1>0
  <2> HIDE DEF B
  <2> QED BY <2>1, NatMinimum
<1>2. k \in 0..N /\ ~ \E g : DecodesFrom(g, word, N + 1 - k)
  OBVIOUS
<1>3. CASE k = 0
  <2> DEFINE none == [i \in {N + 1} |-> <<>>]
  <2>1. \A g : \A i \in N + 1..N + 1 : Goes(g, word, i) = <<>>
    BY <1>0 DEF Goes, N
  <2>2. \A g : [i \in N + 1..N + 1 |-> Goes(g, word, i)] = none
    BY <1>0, <2>1
  <2>3. DecodesFrom(none, word, N + 1)
    <3> HIDE DEF none
    <3> QED BY <2>2 DEF DecodesFrom, N
  <2>4. N + 1 - k = N + 1
    BY <1>0, <1>3
  <2> HIDE DEF none
  <2> QED BY <1>2, <2>3, <2>4
<1>4. CASE k # 0
  <2>1. k - 1 \in 0..N /\ k - 1 \notin B
    <3>1. k - 1 \in 0..N /\ ~(k <= k - 1)
      BY <1>0, <1>2, <1>4
    <3> HIDE DEF B
    <3> QED BY <1>1, <3>1
  <2> DEFINE m == N + 1 - k
  <2>2. m \in Nat /\ m <= N /\ m >= 1 /\ N + 1 - (k - 1) = m + 1
    BY <1>0, <1>2, <1>4
  <2>3. PICK f : DecodesFrom(f, word, m + 1)
    <3>1. \E f : DecodesFrom(f, word, N + 1 - (k - 1))
      BY <2>1
    <3> HIDE DEF m
    <3> QED BY <2>2, <3>1
  <2> HIDE DEF m
  <2> DEFINE g == [i \in m..N + 1 |-> IF i = m THEN Goes(f, word, m) ELSE f[i]]
  <2>4. \A i \in m + 1..N + 1 : f[i] = Goes(f, word, i)
    BY <2>3 DEF DecodesFrom, N
  <2>5. /\ g[m] = Goes(f, word, m) /\ g = [i \in m..N + 1 |-> g[i]]
        /\ \A i \in m + 1..N + 1 : g[i] = f[i]
    BY <1>0, <2>2
  <2> HIDE DEF g
  <2>6. ASSUME NEW i \in m..N + 1 PROVE Goes(f, word, i) = Goes(g, word, i)
    <3>1. CASE i > N
      BY <3>1 DEF Goes, N
    <3>2. CASE i <= N /\ EscapesAt(word, i) = {}
      <4>1. i + 1 \in m + 1..N + 1
        BY <1>0, <2>2, <3>2
      <4>2. ~(i > Len(word))
        BY <1>0, <2>2, <3>2 DEF N
      <4>3. g[i + 1] = f[i + 1]
        BY <2>5, <4>1
      <4> QED BY <3>2, <4>2, <4>3 DEF Goes
    <3>3. CASE i <= N /\ EscapesAt(word, i) # {}
      <4> DEFINE j == i + Len(Escape[Taken(word, i)])
      <4>1. Len(Escape[Taken(word, i)]) \in Nat \ {0} /\ j <= Len(word) + 1
        <5>1. i \in Nat
          BY <2>2
        <5> QED BY <3>3, <5>1, TakenIs
      <4>2. j \in m + 1..N + 1
        BY <1>0, <2>2, <4>1 DEF N
      <4>3. ~(i > Len(word))
        BY <1>0, <2>2, <3>3 DEF N
      <4>4. g[j] = f[j]
        <5> HIDE DEF j
        <5> QED BY <2>5, <4>2
      <4> QED BY <3>3, <4>3, <4>4 DEF Goes
    <3> QED BY <1>0, <2>2, <3>1, <3>2, <3>3
  <2>7. \A i \in m..N + 1 : g[i] = Goes(g, word, i)
    <3> TAKE i \in m..N + 1
    <3>1. i = m \/ i \in m + 1..N + 1
      BY <1>0, <2>2
    <3> QED BY <2>4, <2>5, <2>6, <3>1
  <2>8. DecodesFrom(g, word, m)
    BY <2>5, <2>7 DEF DecodesFrom, N
  <2> QED BY <1>2, <2>8 DEF m
<1> QED BY <1>3, <1>4

\* Where an escape is, no other one is: the shorter would be the beginning of
\* the longer. Where a plain character is, none is.
LEMMA OneEscape ==
  ASSUME NEW word \in Seq(Symbols), NEW p \in Nat \ {0}, NEW c \in Characters,
         p + Len(Code(c)) - 1 <= Len(word),
         \A k \in 1..Len(Code(c)) : word[p - 1 + k] = Code(c)[k]
  PROVE  EscapesAt(word, p) = IF c \in Plain THEN {} ELSE {c}
<1>1. ASSUME NEW d \in EscapesAt(word, p)
      PROVE  /\ d \in DOMAIN Escape /\ Escape[d] \in Seq(Range(Escape[d])) /\ Len(Escape[d]) \in Nat \ {0}
             /\ Escape[d][1] \notin Plain
             /\ \A k \in 1..Len(Escape[d]) : word[p - 1 + k] = Escape[d][k]
  <2>1. d \in DOMAIN Escape /\ p + Len(Escape[d]) - 1 <= Len(word)
        /\ SubSeq(word, p, p + Len(Escape[d]) - 1) = Escape[d]
    BY DEF EscapesAt
  <2>2. Escape[d] \in Seq(Range(Escape[d])) /\ Escape[d] # <<>> /\ Escape[d][1] \notin Plain
    BY <2>1, EscapeAssumption
  <2> DEFINE e == Escape[d]
             n == Len(e)
  <2>3. n \in Nat \ {0}
    BY <2>2
  <2> HIDE DEF e, n
  <2>4. \A k \in 1..n : SubSeq(word, p, p + n - 1)[k] = word[p + k - 1]
    BY <2>1, <2>3 DEF e, n
  <2>5. \A k \in 1..n : p + k - 1 = p - 1 + k
    BY <2>3
  <2> QED BY <2>1, <2>2, <2>3, <2>4, <2>5 DEF e, n
<1>2. CASE c \in Plain
  <2>1. Code(c) = <<c>>
    BY <1>2 DEF Code
  <2>2. word[p - 1 + 1] = c
    BY <2>1
  <2>3. ASSUME NEW d \in EscapesAt(word, p) PROVE FALSE
    <3>1. 1 \in 1..Len(Escape[d])
      BY <1>1
    <3>2. word[p - 1 + 1] = Escape[d][1] /\ Escape[d][1] \notin Plain
      BY <1>1, <3>1
    <3> QED BY <1>2, <2>2, <3>2
  <2> QED BY <1>2, <2>3
<1>3. CASE c \notin Plain
  <2> DEFINE e == Escape[c]
  <2>1. c \in DOMAIN Escape /\ Code(c) = e
    BY <1>3 DEF Characters, Code
  <2>2. e \in Seq(Range(e)) /\ Len(e) \in Nat \ {0}
    <3>1. e \in Seq(Range(e)) /\ e # <<>>
      BY <2>1, EscapeAssumption
    <3> HIDE DEF e
    <3> QED BY <3>1
  <2>3. SubSeq(word, p, p + Len(e) - 1) = e
    <3>1. p + Len(e) - 1 <= Len(word) /\ \A k \in 1..Len(e) : word[p - 1 + k] = e[k]
      BY <2>1
    <3> HIDE DEF e
    <3>2. /\ SubSeq(word, p, p + Len(e) - 1) = [k \in 1..Len(e) |-> word[p + k - 1]]
      BY <2>2, <3>1
    <3>3. \A k \in 1..Len(e) : word[p + k - 1] = e[k]
      <4> TAKE k \in 1..Len(e)
      <4>1. p + k - 1 = p - 1 + k
        BY <2>2
      <4> QED BY <3>1, <4>1
    <3>4. e = [k \in 1..Len(e) |-> e[k]]
      BY <2>2
    <3>5. [k \in 1..Len(e) |-> word[p + k - 1]] = [k \in 1..Len(e) |-> e[k]]
      BY <3>3
    <3> QED BY <3>2, <3>4, <3>5
  <2>4. c \in EscapesAt(word, p)
    BY <2>1, <2>3 DEF EscapesAt
  <2>5. ASSUME NEW d \in EscapesAt(word, p) PROVE d = c
    <3> DEFINE x == Escape[d]
    <3>1. /\ d \in DOMAIN Escape /\ x \in Seq(Range(x)) /\ Len(x) \in Nat \ {0}
          /\ \A k \in 1..Len(x) : word[p - 1 + k] = x[k]
      BY <1>1
    <3>2. \A k \in 1..Len(e) : word[p - 1 + k] = e[k]
      BY <2>1
    <3>3. IsPrefix(x, e) \/ IsPrefix(e, x)
      <4> HIDE DEF x, e
      <4>1. ASSUME NEW s, NEW t, s \in Seq(Range(s)), t \in Seq(Range(t)), Len(s) <= Len(t),
                   Len(s) \in Nat \ {0}, Len(t) \in Nat \ {0},
                   \A k \in 1..Len(s) : word[p - 1 + k] = s[k],
                   \A k \in 1..Len(t) : word[p - 1 + k] = t[k]
            PROVE  IsPrefix(s, t)
        <5>1. \A k \in 1..Len(s) : k \in 1..Len(t)
          BY <4>1
        <5>2. \A k \in 1..Len(s) : s[k] = t[k]
          BY <4>1, <5>1
        <5>3. SubSeq(s, 1, Len(s)) = [k \in 1..Len(s) |-> s[k]]
          BY <4>1
        <5>4. SubSeq(t, 1, Len(s)) = [k \in 1..Len(s) |-> t[k]]
          BY <4>1
        <5>5. [k \in 1..Len(s) |-> s[k]] = [k \in 1..Len(s) |-> t[k]]
          BY <5>2
        <5> QED BY <4>1, <5>3, <5>4, <5>5 DEF IsPrefix
      <4>2. Len(x) <= Len(e) \/ Len(e) <= Len(x)
        BY <2>2, <3>1
      <4> QED BY <2>2, <3>1, <3>2, <4>1, <4>2
    <3> QED BY <2>1, <3>1, <3>3, EscapeAssumption
  <2> QED BY <1>3, <2>4, <2>5
<1> QED BY <1>2, <1>3

\* A sequence put together from its first element and the others.
LEMMA PutFirst ==
  ASSUME NEW S, NEW c \in S, NEW s \in Seq(S), NEW t \in Seq(S), Len(t) = Len(s) + 1,
         t[1] = c, \A j \in 1..Len(s) : t[j + 1] = s[j]
  PROVE  <<c>> \o s = t
<1>1. <<c>> \in Seq(S) /\ Len(<<c>>) = 1 /\ <<c>>[1] = c
  OBVIOUS
<1> DEFINE u == <<c>> \o s
<1>2. /\ u \in Seq(S) /\ Len(u) = 1 + Len(s)
      /\ \A i \in 1..1 + Len(s) : u[i] = IF i <= 1 THEN <<c>>[i] ELSE s[i - 1]
  BY <1>1, ConcatProperties
<1> HIDE DEF u
<1>3. \A i \in 1..Len(t) : u[i] = t[i]
  <2> TAKE i \in 1..Len(t)
  <2>1. i = 1 \/ (i - 1 \in 1..Len(s) /\ i - 1 + 1 = i /\ ~(i <= 1))
    OBVIOUS
  <2> QED BY <1>1, <1>2, <2>1
<1>4. Len(u) = Len(t) /\ \A i \in 1..Len(u) : u[i] = t[i]
  <2>1. Len(u) = Len(t)
    BY <1>2
  <2> QED BY <1>3, <2>1
<1>5. u = t
  BY <1>2, <1>4, SeqEqual
<1> QED BY <1>5 DEF u

\* What is decoded from where the first characters of a name end are the others.
LEMMA DecodeSpelled ==
  ASSUME NEW name \in Seq(Characters), NEW word, NEW at, Spells(name, word, at)
  PROVE  Decode(word) = name
<1> DEFINE N == Len(name)
           Rest(i) == [k \in 1..N - i |-> name[i + k]]
           g == CHOOSE h : DecodesFrom(h, word, 1)
           B == {i \in 0..N : g[at[N - i] + 1] # Rest(N - i)}
<1>0. N \in Nat /\ word \in Seq(Symbols) /\ Len(word) \in Nat
  BY DEF Spells
<1>1. DecodesFrom(g, word, 1)
  <2>1. Len(word) \in 0..Len(word) /\ Len(word) + 1 - Len(word) = 1
    BY <1>0
  <2>2. \E h : DecodesFrom(h, word, 1)
    BY <1>0, <2>1, DecodesExist
  <2> QED BY <2>2
<1> HIDE DEF g
<1>2. \A i \in 1..Len(word) + 1 : g[i] = Goes(g, word, i)
  BY <1>1 DEF DecodesFrom
<1>3. /\ at \in [0..N -> Nat] /\ at[0] = 0 /\ at[N] = Len(word)
      /\ \A i \in 1..N :
           /\ at[i] = at[i - 1] + Len(Code(name[i])) /\ at[i] <= Len(word)
           /\ \A k \in 1..Len(Code(name[i])) : word[at[i - 1] + k] = Code(name[i])[k]
  BY DEF Spells
<1>4. B = {}
  <2> SUFFICES ASSUME B # {} PROVE FALSE
    OBVIOUS
  <2>1. PICK k \in B : \A i \in B : k <= i
    <3>1. B \subseteq Nat
      BY <1>0
    <3> HIDE DEF B
    <3> QED BY <3>1, NatMinimum
  <2>2. k \in 0..N /\ g[at[N - k] + 1] # Rest(N - k)
    OBVIOUS
  <2>3. CASE k = 0
    <3>1. g[Len(word) + 1] = <<>>
      <4>1. Len(word) + 1 \in 1..Len(word) + 1 /\ Len(word) + 1 > Len(word)
        BY <1>0
      <4> QED BY <1>2, <4>1 DEF Goes
    <3>2. Rest(N) = <<>>
      BY <1>0
    <3>3. N - k = N
      BY <1>0, <2>3
    <3> HIDE DEF Rest, B
    <3> QED BY <1>3, <2>2, <3>1, <3>2, <3>3
  <2>4. CASE k # 0
    <3> DEFINE i == N - k + 1
               c == name[i]
               p == at[i - 1] + 1
    <3>1. i \in 1..N /\ i - 1 = N - k /\ N - (k - 1) = i /\ k - 1 \in 0..N
      BY <1>0, <2>2, <2>4
    <3>2. k - 1 \notin B
      <4>1. ~(k <= k - 1)
        BY <2>2
      <4> HIDE DEF B
      <4> QED BY <2>1, <4>1
    <3> HIDE DEF i
    <3>3. g[at[i] + 1] = Rest(i)
      BY <3>1, <3>2
    <3>4. g[p] # Rest(i - 1)
      BY <2>2, <3>1
    <3> HIDE DEF B
    <3>5. /\ c \in Characters /\ at[i - 1] \in Nat
          /\ Code(c) \in Seq(Symbols) /\ Len(Code(c)) \in Nat \ {0}
          /\ at[i] = at[i - 1] + Len(Code(c)) /\ at[i] <= Len(word)
          /\ \A j \in 1..Len(Code(c)) : word[at[i - 1] + j] = Code(c)[j]
      <4>1. i - 1 \in 0..N
        BY <1>0, <3>1
      <4>2. c \in Characters
        BY <3>1
      <4> HIDE DEF c
      <4>3. Code(c) \in Seq(Symbols) /\ Len(Code(c)) \in Nat \ {0}
        BY <4>2, CodeIs
      <4> QED BY <1>3, <3>1, <4>1, <4>2, <4>3 DEF c
    <3> HIDE DEF c
    <3>6. /\ p \in Nat \ {0} /\ p - 1 = at[i - 1] /\ p + Len(Code(c)) - 1 <= Len(word)
          /\ p \in 1..Len(word) + 1 /\ ~(p > Len(word)) /\ p + Len(Code(c)) = at[i] + 1
      BY <1>0, <3>5
    <3> HIDE DEF p
    <3>7. EscapesAt(word, p) = IF c \in Plain THEN {} ELSE {c}
      <4>1. \A j \in 1..Len(Code(c)) : word[p - 1 + j] = Code(c)[j]
        BY <3>5, <3>6
      <4> QED BY <1>0, <3>5, <3>6, <4>1, OneEscape
    <3>8. g[p] = <<c>> \o g[p + Len(Code(c))]
      <4>1. g[p] = Goes(g, word, p)
        BY <1>2, <3>6
      <4>2. CASE c \in Plain
        <5>1. Code(c) = <<c>> /\ Len(Code(c)) = 1
          BY <4>2 DEF Code
        <5>2. word[p] = c
          <6>1. 1 \in 1..Len(Code(c)) /\ at[i - 1] + 1 = p
            BY <3>5, <3>6, <5>1
          <6> QED BY <3>5, <5>1, <6>1
        <5> QED BY <3>6, <3>7, <4>1, <4>2, <5>1, <5>2 DEF Goes
      <4>3. CASE c \notin Plain
        <5>1. Taken(word, p) = c /\ EscapesAt(word, p) # {}
          BY <3>7, <4>3 DEF Taken
        <5>2. Code(c) = Escape[c]
          BY <4>3 DEF Code
        <5> QED BY <3>6, <4>1, <5>1, <5>2 DEF Goes
      <4> QED BY <4>2, <4>3
    <3>9. <<c>> \o Rest(i) = Rest(i - 1)
      <4>1. i \in Nat /\ i >= 1 /\ i <= N
        BY <1>0, <3>1
      <4>2. \A j \in 1..N - i : i + j \in 1..N
        BY <1>0, <4>1
      <4>3. Rest(i) \in Seq(Characters) /\ Len(Rest(i)) = N - i
        BY <1>0, <4>1, <4>2
      <4>4. Rest(i - 1) \in Seq(Characters) /\ Len(Rest(i - 1)) = N - i + 1
        <5>1. \A j \in 1..N - (i - 1) : i - 1 + j \in 1..N
          BY <1>0, <4>1
        <5>2. N - (i - 1) = N - i + 1 /\ N - i + 1 \in Nat
          BY <1>0, <4>1
        <5> QED BY <5>1, <5>2
      <4>5. Rest(i - 1)[1] = c
        <5>1. 1 \in 1..N - (i - 1) /\ i - 1 + 1 = i
          BY <1>0, <4>1
        <5> QED BY <5>1 DEF c
      <4>6. \A j \in 1..N - i : Rest(i - 1)[j + 1] = Rest(i)[j]
        <5> TAKE j \in 1..N - i
        <5>1. j + 1 \in 1..N - (i - 1) /\ i - 1 + (j + 1) = i + j
          BY <1>0, <4>1
        <5> QED BY <5>1
      <4>7. Len(Rest(i - 1)) = Len(Rest(i)) + 1
        BY <1>0, <4>1, <4>3, <4>4
      <4> HIDE DEF Rest
      <4> QED BY <3>5, <4>3, <4>4, <4>5, <4>6, <4>7, PutFirst
    <3> HIDE DEF Rest
    <3> QED BY <3>3, <3>4, <3>6, <3>8, <3>9
  <2> QED BY <2>3, <2>4
<1>5. g[1] = Rest(0)
  <2>1. N \in 0..N /\ N - N = 0
    BY <1>0
  <2>2. g[at[N - N] + 1] = Rest(N - N)
    BY <1>4, <2>1
  <2> HIDE DEF Rest
  <2> QED BY <1>3, <2>1, <2>2
<1>6. Rest(0) = name
  <2>1. N - 0 = N /\ \A k \in 1..N : 0 + k = k
    BY <1>0
  <2>2. Rest(0) = [k \in 1..N |-> name[k]]
    BY <2>1
  <2> QED BY <2>2
<1> QED BY <1>5, <1>6, DecodeIs DEF g

\* Every name comes back from its label, so that no two names share one.
THEOREM LabelsAlwaysDecode ==
  \A names \in SUBSET Seq(Characters) : NamesAgree(names)
<1>1. ASSUME NEW name \in Seq(Characters) PROVE Decode(Encode(name)) = name
  <2>1. PICK at : Spells(name, Encode(name), at)
    BY EncodeSpells
  <2> QED BY <2>1, DecodeSpelled
<1> QED BY <1>1 DEF NamesAgree

-----------------------------------------------------------------------------
(* Mounts: what is in sight, as a predicate and as a clause.               *)

Names == Seq(Characters)
Labels == {Workspace} \cup Seq(Symbols)

LEMMA NameDecodes ==
  ASSUME NEW name \in Names
  PROVE  Decode(Encode(name)) = name /\ Encode(name) \in Seq(Symbols)
<1>1. PICK at : Spells(name, Encode(name), at)
  BY EncodeSpells DEF Names
<1> QED BY <1>1, DecodeSpelled DEF Names, Spells

LEMMA LtreeIs ==
  ASSUME NEW p \in Seq(Names)
  PROVE  /\ Ltree(p) \in Seq(Labels) /\ Len(Ltree(p)) = Len(p) + 1
         /\ Ltree(p)[1] = Workspace /\ \A i \in 1..Len(p) : Ltree(p)[i + 1] = Encode(p[i])
<1> DEFINE s == [i \in 1..Len(p) |-> Encode(p[i])]
           one == <<Workspace>>
<1>1. \A i \in 1..Len(p) : Encode(p[i]) \in Labels
  <2> TAKE i \in 1..Len(p)
  <2>1. p[i] \in Names
    OBVIOUS
  <2> QED BY <2>1, NameDecodes DEF Labels
<1>2. s \in Seq(Labels) /\ Len(s) = Len(p) /\ \A i \in 1..Len(p) : s[i] = Encode(p[i])
  BY <1>1
<1>3. one \in Seq(Labels) /\ Len(one) = 1 /\ one[1] = Workspace
  BY DEF Labels
<1>4. Ltree(p) = one \o s
  BY DEF Ltree
<1> HIDE DEF s, one
<1>5. /\ Ltree(p) \in Seq(Labels) /\ Len(Ltree(p)) = 1 + Len(s)
      /\ \A i \in 1..1 + Len(s) : Ltree(p)[i] = IF i <= 1 THEN one[i] ELSE s[i - 1]
  <2>1. /\ one \o s \in Seq(Labels) /\ Len(one \o s) = Len(one) + Len(s)
        /\ \A i \in 1..Len(one) + Len(s) : (one \o s)[i] = IF i <= Len(one) THEN one[i] ELSE s[i - Len(one)]
    BY <1>2, <1>3, ConcatProperties
  <2> QED BY <1>3, <1>4, <2>1
<1>6. ASSUME NEW i \in 1..Len(p) PROVE Ltree(p)[i + 1] = Encode(p[i])
  <2>1. i + 1 \in 1..1 + Len(s) /\ ~(i + 1 <= 1) /\ i + 1 - 1 = i
    BY <1>2
  <2> QED BY <1>2, <1>5, <2>1
<1>7. Ltree(p)[1] = Workspace
  BY <1>2, <1>3, <1>5
<1> QED BY <1>2, <1>5, <1>6, <1>7

LEMMA LtreeTells ==
  ASSUME NEW p \in Seq(Names), NEW q \in Seq(Names), Ltree(p) = Ltree(q)
  PROVE  p = q
<1>1. Len(p) = Len(q)
  BY LtreeIs
<1>2. ASSUME NEW i \in 1..Len(p) PROVE p[i] = q[i]
  <2>1. Encode(p[i]) = Encode(q[i])
    BY <1>1, LtreeIs
  <2>2. p[i] \in Names /\ q[i] \in Names
    BY <1>1
  <2> QED BY <2>1, <2>2, NameDecodes
<1> QED BY <1>1, <1>2, SeqEqual

\* A path cut off, and its ltree cut one label later.
LEMMA LtreeCut ==
  ASSUME NEW p \in Seq(Names), NEW n \in 0..Len(p)
  PROVE  SubSeq(p, 1, n) \in Seq(Names) /\ SubSeq(Ltree(p), 1, n + 1) = Ltree(SubSeq(p, 1, n))
<1> DEFINE q == SubSeq(p, 1, n)
           l == Ltree(p)
           c == SubSeq(l, 1, n + 1)
<1>1. q \in Seq(Names) /\ Len(q) = n /\ \A i \in 1..n : q[i] = p[i]
  OBVIOUS
<1>2. l \in Seq(Labels) /\ Len(l) = Len(p) + 1
  BY LtreeIs
<1>3. c \in Seq(Labels) /\ Len(c) = n + 1 /\ \A i \in 1..n + 1 : c[i] = l[i]
  <2> HIDE DEF l
  <2> QED BY <1>2
<1>4. Ltree(q) \in Seq(Labels) /\ Len(Ltree(q)) = n + 1
  <2> HIDE DEF q
  <2> QED BY <1>1, LtreeIs
<1>5. ASSUME NEW i \in 1..n + 1 PROVE c[i] = Ltree(q)[i]
  <2>1. CASE i = 1
    <3>1. Ltree(q)[1] = Workspace /\ l[1] = Workspace
      <4> HIDE DEF q
      <4> QED BY <1>1, LtreeIs
    <3> HIDE DEF l, q, c
    <3> QED BY <1>3, <2>1, <3>1
  <2>2. CASE i # 1
    <3> DEFINE j == i - 1
    <3>1. j \in 1..n /\ j \in 1..Len(p) /\ i = j + 1
      BY <2>2
    <3> HIDE DEF j
    <3>2. Ltree(q)[j + 1] = Encode(q[j])
      <4> HIDE DEF q
      <4> QED BY <1>1, <3>1, LtreeIs
    <3>3. l[j + 1] = Encode(p[j])
      BY <3>1, LtreeIs
    <3> HIDE DEF l, q, c
    <3> QED BY <1>1, <1>3, <3>1, <3>2, <3>3
  <2> QED BY <2>1, <2>2
<1>6. c = Ltree(q)
  <2> HIDE DEF c, q
  <2> QED BY <1>3, <1>4, <1>5, SeqEqual
<1> QED BY <1>1, <1>6

LEMMA RootsAre ==
  ASSUME NEW mounts \in SUBSET [path : Seq(Names), readonly : BOOLEAN], NEW root \in Seq(Names)
  PROVE  Roots(mounts, root) \in SUBSET Seq(Names)
<1> SUFFICES ASSUME NEW m \in mounts PROVE ToInternal(root, m.path) \in Seq(Names)
  BY DEF Roots
<1>1. m.path \in Seq(Names)
  OBVIOUS
<1> QED BY <1>1, ConcatProperties DEF ToInternal

LEMMA PrefixesAre ==
  ASSUME NEW r \in Seq(Names), NEW p \in Seq(Names)
  PROVE  /\ IsPrefix(r, p) <=> Len(r) <= Len(p) /\ r = SubSeq(p, 1, Len(r))
         /\ p = SubSeq(p, 1, Len(p))
<1>1. SubSeq(r, 1, Len(r)) = r /\ SubSeq(p, 1, Len(p)) = p
  BY SubSeqFull
<1> QED BY <1>1 DEF IsPrefix

\* The clause cuts the path at the depth of a mount, or takes the whole of it.
LEMMA ClauseIs ==
  ASSUME NEW r \in Seq(Names), NEW p \in Seq(Names)
  PROVE  SubSeq(Ltree(p), 1, IF Len(r) < Len(p) THEN Len(r) + 1 ELSE Len(p) + 1) = Ltree(r)
           <=> IsPrefix(r, p)
<1>1. CASE Len(r) < Len(p)
  <2>1. Len(r) \in 0..Len(p)
    BY <1>1
  <2> DEFINE q == SubSeq(p, 1, Len(r))
  <2>2. q \in Seq(Names) /\ SubSeq(Ltree(p), 1, Len(r) + 1) = Ltree(q)
    BY <2>1, LtreeCut
  <2>3. IsPrefix(r, p) <=> r = q
    BY <1>1, PrefixesAre
  <2>4. Ltree(q) = Ltree(r) <=> q = r
    <3> HIDE DEF q
    <3> QED BY <2>2, LtreeTells
  <2> HIDE DEF q
  <2> QED BY <1>1, <2>2, <2>3, <2>4
<1>2. CASE ~(Len(r) < Len(p))
  <2>1. Len(p) \in 0..Len(p) /\ SubSeq(p, 1, Len(p)) = p
    BY PrefixesAre
  <2>2. SubSeq(Ltree(p), 1, Len(p) + 1) = Ltree(p)
    BY <2>1, LtreeCut
  <2>3. Ltree(p) = Ltree(r) <=> p = r
    BY LtreeTells
  <2>4. IsPrefix(r, p) <=> r = p
    <3>1. Len(r) <= Len(p) => Len(r) = Len(p)
      BY <1>2
    <3>2. r = p => IsPrefix(r, p)
      <4>1. Len(p) <= Len(p)
        OBVIOUS
      <4> QED BY <2>1, <4>1 DEF IsPrefix
    <3> QED BY <3>1, <3>2, PrefixesAre
  <2> QED BY <1>2, <2>2, <2>3, <2>4
<1> QED BY <1>1, <1>2

\* What is cut off twice is cut off once.
LEMMA CutTwice ==
  ASSUME NEW p \in Seq(Names), NEW n \in 0..Len(p), NEW m \in 0..n
  PROVE  /\ SubSeq(p, 1, n) \in Seq(Names) /\ Len(SubSeq(p, 1, n)) = n
         /\ SubSeq(SubSeq(p, 1, n), 1, m) = SubSeq(p, 1, m)
<1> DEFINE q == SubSeq(p, 1, n)
<1>1. q \in Seq(Names) /\ Len(q) = n /\ \A i \in 1..n : q[i] = p[i]
  OBVIOUS
<1> HIDE DEF q
<1>2. SubSeq(q, 1, m) = [i \in 1..m |-> q[i]]
  BY <1>1
<1>3. SubSeq(p, 1, m) = [i \in 1..m |-> p[i]]
  OBVIOUS
<1>4. [i \in 1..m |-> q[i]] = [i \in 1..m |-> p[i]]
  <2>1. \A i \in 1..m : q[i] = p[i]
    BY <1>1
  <2> QED BY <2>1
<1> QED BY <1>1, <1>2, <1>3, <1>4 DEF q

\* For any mounts, below any root: listings show what single reads see, what is
\* in sight can be walked to from "/", and nothing out of sight can be written.
THEOREM MountsAlwaysAgree ==
  ASSUME NEW mounts \in SUBSET [path : Seq(Names), readonly : BOOLEAN],
         NEW root \in Seq(Names), NEW paths \in SUBSET Seq(Names)
  PROVE  MountsAgree(mounts, root, paths)
<1> SUFFICES ASSUME NEW path \in paths
    PROVE  /\ MountSql(mounts, root, path) <=> MountVisible(mounts, root, path)
           /\ MountVisible(mounts, root, path) =>
                \A n \in 0..Len(path) : MountVisible(mounts, root, SubSeq(path, 1, n))
           /\ GuardWrite(mounts, {}, root, path) = "ok" => InBoundary(mounts, root, path)
                                                         \/ NoMounts(mounts, root)
  BY DEF MountsAgree
<1> DEFINE R == Roots(mounts, root)
           A == Ancestors(mounts, root)
<1>1. path \in Seq(Names) /\ R \in SUBSET Seq(Names)
  BY RootsAre
<1>2. A = UNION {{SubSeq(r, 1, n) : n \in 0..Len(r) - 1} : r \in R}
  BY DEF Ancestors
<1>3. A \in SUBSET Seq(Names)
  <2> SUFFICES ASSUME NEW r \in R, NEW n \in 0..Len(r) - 1 PROVE SubSeq(r, 1, n) \in Seq(Names)
    BY <1>2
  <2>1. r \in Seq(Names) /\ n \in 0..Len(r)
    BY <1>1
  <2> QED BY <2>1, LtreeCut
<1> DEFINE All == CoversAll(mounts, root)
           In(p) == All \/ p = <<>> \/ (\E r \in R : IsPrefix(r, p)) \/ p \in A
<1>4. \A p : MountVisible(mounts, root, p) <=> In(p)
  BY DEF MountVisible
<1>5. ~All => R # {} /\ <<>> \notin R
  BY DEF CoversAll, NoMounts, Roots
<1>6. ~All => <<>> \in A
  <2> SUFFICES ASSUME ~All PROVE <<>> \in A
    OBVIOUS
  <2>1. PICK r \in R : r # <<>>
    <3> HIDE DEF R, All
    <3> QED BY <1>5
  <2>2. r \in Seq(Names) /\ 0 \in 0..Len(r) - 1
    <3>1. r \in Seq(Names)
      BY <1>1
    <3> QED BY <2>1, <3>1
  <2>3. SubSeq(r, 1, 0) = <<>>
    BY <2>2
  <2>4. <<>> \in {SubSeq(r, 1, k) : k \in 0..Len(r) - 1}
    BY <2>2, <2>3
  <2> HIDE DEF R, A
  <2> QED BY <1>2, <2>1, <2>4
<1>7. MountSql(mounts, root, path) <=>
        All \/ (\E r \in R : IsPrefix(r, path)) \/ Ltree(path) \in {Ltree(a) : a \in A}
  <2>1. \A r \in R : SubSeq(Ltree(path), 1, IF Len(r) < Len(path) THEN Len(r) + 1 ELSE Len(path) + 1) = Ltree(r)
                       <=> IsPrefix(r, path)
    BY <1>1, ClauseIs
  <2> QED BY <2>1 DEF MountSql
<1> HIDE DEF R, A, All
<1>8. Ltree(path) \in {Ltree(a) : a \in A} <=> path \in A
  BY <1>1, <1>3, LtreeTells
<1>9. MountSql(mounts, root, path) <=> In(path)
  BY <1>6, <1>7, <1>8
<1>10. ASSUME In(path), NEW n \in 0..Len(path) PROVE In(SubSeq(path, 1, n))
  <2> DEFINE q == SubSeq(path, 1, n)
  <2>1. CASE All
    BY <2>1
  <2>2. CASE path = <<>>
    <3>1. n = 0 /\ 0 \in 0..n
      BY <2>2
    <3>2. q \in Seq(Names) /\ Len(q) = 0
      BY <1>1, <3>1, CutTwice
    <3> HIDE DEF q
    <3>3. q = <<>>
      BY <3>2
    <3> QED BY <3>3 DEF q
  <2>3. CASE \E r \in R : IsPrefix(r, path)
    <3>1. PICK r \in R : IsPrefix(r, path)
      BY <2>3
    <3>2. r \in Seq(Names) /\ Len(r) <= Len(path) /\ r = SubSeq(path, 1, Len(r))
      BY <1>1, <3>1, PrefixesAre
    <3>3. CASE Len(r) <= n
      <4>1. Len(r) \in 0..n
        BY <3>2, <3>3
      <4>2. q \in Seq(Names) /\ Len(q) = n /\ SubSeq(q, 1, Len(r)) = SubSeq(path, 1, Len(r))
        BY <1>1, <4>1, CutTwice
      <4> HIDE DEF q
      <4>3. IsPrefix(r, q)
        BY <3>2, <3>3, <4>2, PrefixesAre
      <4> QED BY <4>3 DEF q
    <3>4. CASE ~(Len(r) <= n)
      <4>1. Len(r) \in 0..Len(path) /\ n \in 0..Len(r) /\ n \in 0..Len(r) - 1
        BY <3>2, <3>4
      <4>2. SubSeq(SubSeq(path, 1, Len(r)), 1, n) = q
        BY <1>1, <4>1, CutTwice
      <4>3. SubSeq(r, 1, n) = q
        BY <3>2, <4>2
      <4> HIDE DEF q
      <4>4. q \in A
        BY <1>2, <4>1, <4>3
      <4> QED BY <4>4 DEF q
    <3> QED BY <3>3, <3>4
  <2>4. CASE path \in A
    <3> DEFINE Cuts(r) == {SubSeq(r, 1, k) : k \in 0..Len(r) - 1}
    <3>0. PICK r \in R : path \in Cuts(r)
      <4>1. A = UNION {Cuts(r) : r \in R}
        BY <1>2
      <4> HIDE DEF Cuts
      <4> QED BY <2>4, <4>1
    <3>1. PICK m \in 0..Len(r) - 1 : path = SubSeq(r, 1, m)
      BY <3>0
    <3>2. r \in Seq(Names) /\ m \in 0..Len(r)
      BY <1>1
    <3>3. Len(path) = m
      BY <3>1, <3>2, CutTwice
    <3>4. n \in 0..m /\ n \in 0..Len(r) - 1
      BY <3>2, <3>3
    <3>5. q = SubSeq(r, 1, n)
      BY <3>1, <3>2, <3>4, CutTwice
    <3> HIDE DEF q
    <3>6. q \in A
      BY <1>2, <3>4, <3>5
    <3> QED BY <3>6 DEF q
  <2> QED BY <1>10, <2>1, <2>2, <2>3, <2>4
<1>11. GuardWrite(mounts, {}, root, path) = "ok" =>
         InBoundary(mounts, root, path) \/ NoMounts(mounts, root)
  BY DEF GuardWrite, InBoundary
<1> HIDE DEF In
<1> QED BY <1>4, <1>9, <1>10, <1>11

-----------------------------------------------------------------------------
(* Excludes: what regular expressions match, as places in the text.        *)

\* The places up to which each token takes the text.
Through(cut, fits, n) ==
  /\ cut \in [0..Len(fits) -> 0..n]
  /\ cut[0] = 0 /\ cut[Len(fits)] = n
  /\ \A i \in 1..Len(fits) : <<cut[i - 1], cut[i]>> \in fits[i]

EndsBy(g, fits, n, i) ==
  IF i = 0 THEN {0} ELSE {k \in 0..n : \E j \in g[i - 1] : <<j, k>> \in fits[i]}
Ends(g, fits, n, m) == g = [i \in 0..m |-> EndsBy(g, fits, n, i)]

LEMMA MatchesEnds ==
  \A fits, n : Matches(fits, n) <=> n \in (CHOOSE g : Ends(g, fits, n, Len(fits)))[Len(fits)]
BY DEF Matches, Ends, EndsBy

LEMMA EndsExist == ASSUME NEW fits, NEW n, NEW m \in Nat PROVE \E g : Ends(g, fits, n, m)
<1> DEFINE B == {i \in Nat : ~ \E g : Ends(g, fits, n, i)}
<1> SUFFICES ASSUME B # {} PROVE FALSE
  OBVIOUS
<1>1. PICK l \in B : \A i \in B : l <= i
  <2>1. B \subseteq Nat
    OBVIOUS
  <2> HIDE DEF B
  <2> QED BY <2>1, NatMinimum
<1>2. l \in Nat /\ ~ \E g : Ends(g, fits, n, l)
  OBVIOUS
<1>3. ASSUME NEW f, NEW g, NEW i \in Nat, i > 0 => f[i - 1] = g[i - 1]
      PROVE  EndsBy(f, fits, n, i) = EndsBy(g, fits, n, i)
  <2>1. CASE i = 0
    BY <2>1 DEF EndsBy
  <2>2. CASE i # 0
    <3>1. f[i - 1] = g[i - 1]
      BY <1>3, <2>2
    <3> QED BY <2>2, <3>1 DEF EndsBy
  <2> QED BY <2>1, <2>2
<1>4. CASE l = 0
  <2> DEFINE g == [i \in 0..0 |-> {0}]
  <2>1. g = [i \in 0..0 |-> EndsBy(g, fits, n, i)]
    BY DEF EndsBy
  <2> QED BY <1>2, <1>4, <2>1 DEF Ends
<1>5. CASE l # 0
  <2>1. l - 1 \in Nat /\ l - 1 \notin B
    BY <1>1, <1>2, <1>5
  <2>2. PICK f : Ends(f, fits, n, l - 1)
    BY <2>1
  <2>3. \A i \in 0..(l - 1) : f[i] = EndsBy(f, fits, n, i)
    BY <2>2 DEF Ends
  <2> DEFINE g == [i \in 0..l |-> IF i < l THEN f[i] ELSE EndsBy(f, fits, n, i)]
  <2>4. \A i \in 0..(l - 1) : g[i] = f[i]
    BY <1>2
  <2>5. g[l] = EndsBy(f, fits, n, l) /\ DOMAIN g = 0..l
    BY <1>2
  <2>6. g = [i \in 0..l |-> g[i]]
    OBVIOUS
  <2> HIDE DEF g
  <2>7. \A i \in 0..l : g[i] = EndsBy(g, fits, n, i)
    <3> TAKE i \in 0..l
    <3>1. i \in Nat /\ (i > 0 => i - 1 \in 0..(l - 1))
      BY <1>2
    <3>2. EndsBy(f, fits, n, i) = EndsBy(g, fits, n, i)
      BY <1>3, <2>4, <3>1
    <3>3. CASE i = l
      BY <2>5, <3>2, <3>3
    <3>4. CASE i # l
      <4>1. i \in 0..(l - 1)
        BY <1>2, <3>4
      <4> QED BY <2>3, <2>4, <3>2, <4>1
    <3> QED BY <3>3, <3>4
  <2>8. g = [i \in 0..l |-> EndsBy(g, fits, n, i)]
    BY <2>6, <2>7
  <2> QED BY <1>2, <2>8 DEF Ends
<1> QED BY <1>4, <1>5

\* A text is matched where its tokens can be placed one after the other.
LEMMA MatchesIs ==
  ASSUME NEW fits, NEW n \in Nat, Len(fits) \in Nat
  PROVE  Matches(fits, n) <=> \E cut : Through(cut, fits, n)
<1> DEFINE m == Len(fits)
           g == CHOOSE h : Ends(h, fits, n, m)
           Placed(i, k) == \E cut \in [0..i -> 0..n] :
                             /\ cut[0] = 0 /\ cut[i] = k
                             /\ \A j \in 1..i : <<cut[j - 1], cut[j]>> \in fits[j]
<1>1. Matches(fits, n) <=> n \in g[m]
  BY MatchesEnds
<1>2. Ends(g, fits, n, m)
  BY EndsExist
<1> HIDE DEF g
<1>3. \A i \in 0..m : g[i] = EndsBy(g, fits, n, i)
  BY <1>2 DEF Ends
<1>4. \A i \in 0..m : i - 1 \in 0..m \/ i = 0
  OBVIOUS
<1>5. ASSUME NEW cut, Through(cut, fits, n), NEW i \in 0..m
      PROVE  cut[i] \in g[i]
  <2> DEFINE B == {j \in 0..m : cut[j] \notin g[j]}
  <2> SUFFICES ASSUME B # {} PROVE FALSE
    OBVIOUS
  <2>1. PICK l \in B : \A j \in B : l <= j
    <3>1. B \subseteq Nat
      OBVIOUS
    <3> HIDE DEF B
    <3> QED BY <3>1, NatMinimum
  <2>2. l \in 0..m /\ cut[l] \notin g[l] /\ cut[l] \in 0..n /\ cut[0] = 0
    BY <1>5 DEF Through
  <2>3. CASE l = 0
    BY <1>3, <2>2, <2>3 DEF EndsBy
  <2>4. CASE l # 0
    <3>1. l \in 1..m /\ l - 1 \in 0..m /\ l - 1 \notin B
      BY <2>1, <2>2, <2>4
    <3>2. cut[l - 1] \in g[l - 1] /\ <<cut[l - 1], cut[l]>> \in fits[l]
      BY <1>5, <3>1 DEF Through
    <3>3. g[l] = EndsBy(g, fits, n, l)
      BY <1>3, <2>2
    <3>4. cut[l] \in EndsBy(g, fits, n, l)
      BY <2>2, <2>4, <3>2 DEF EndsBy
    <3> QED BY <2>2, <3>3, <3>4
  <2> QED BY <2>3, <2>4
<1>6. ASSUME NEW i \in 0..m, NEW k \in g[i]
      PROVE  k \in 0..n /\ Placed(i, k)
  <2> DEFINE B == {j \in 0..m : \E e \in g[j] : ~(e \in 0..n /\ Placed(j, e))}
  <2> HIDE DEF Placed
  <2> SUFFICES ASSUME B # {} PROVE FALSE
    OBVIOUS
  <2>1. PICK l \in B : \A j \in B : l <= j
    <3>1. B \subseteq Nat
      OBVIOUS
    <3> HIDE DEF B
    <3> QED BY <3>1, NatMinimum
  <2>2. l \in 0..m /\ l \in Nat
    OBVIOUS
  <2>3. PICK e \in g[l] : ~(e \in 0..n /\ Placed(l, e))
    OBVIOUS
  <2>4. e \in EndsBy(g, fits, n, l)
    BY <1>3, <2>2, <2>3
  <2>5. CASE l = 0
    <3>1. e = 0 /\ e \in 0..n
      BY <2>4, <2>5 DEF EndsBy
    <3> DEFINE cut == [j \in 0..0 |-> 0]
    <3>2. cut \in [0..0 -> 0..n] /\ cut[0] = 0 /\ \A j \in 1..0 : <<cut[j - 1], cut[j]>> \in fits[j]
      OBVIOUS
    <3> HIDE DEF cut
    <3> QED BY <2>3, <2>5, <3>1, <3>2 DEF Placed
  <2>6. CASE l # 0
    <3>1. l - 1 \in 0..m /\ l - 1 \notin B /\ l - 1 \in Nat
      BY <2>1, <2>2, <2>6
    <3>2. e \in 0..n /\ \E j \in g[l - 1] : <<j, e>> \in fits[l]
      BY <2>4, <2>6 DEF EndsBy
    <3>3. PICK d \in g[l - 1] : <<d, e>> \in fits[l]
      BY <3>2
    <3>4. Placed(l - 1, d)
      BY <3>1, <3>3
    <3>5. PICK f \in [0..(l - 1) -> 0..n] :
               /\ f[0] = 0 /\ f[l - 1] = d
               /\ \A j \in 1..(l - 1) : <<f[j - 1], f[j]>> \in fits[j]
      BY <3>4 DEF Placed
    <3> DEFINE cut == [j \in 0..l |-> IF j < l THEN f[j] ELSE e]
    <3>6. cut \in [0..l -> 0..n]
      BY <2>2, <3>2
    <3>7. cut[0] = 0 /\ cut[l] = e
      BY <2>2, <2>6, <3>5
    <3>8. \A j \in 1..l : <<cut[j - 1], cut[j]>> \in fits[j]
      <4> TAKE j \in 1..l
      <4>1. cut[j - 1] = f[j - 1]
        BY <2>2
      <4>2. CASE j = l
        BY <3>3, <3>5, <3>7, <4>1, <4>2
      <4>3. CASE j # l
        <5>1. j \in 1..(l - 1) /\ cut[j] = f[j]
          BY <2>2, <4>3
        <5> QED BY <3>5, <4>1, <5>1
      <4> QED BY <4>2, <4>3
    <3> HIDE DEF cut
    <3>9. Placed(l, e)
      BY <3>6, <3>7, <3>8 DEF Placed
    <3> QED BY <2>3, <3>2, <3>9
  <2> QED BY <2>5, <2>6
<1>7. ASSUME n \in g[m] PROVE \E cut : Through(cut, fits, n)
  <2>1. m \in 0..m
    OBVIOUS
  <2>2. Placed(m, n)
    BY <1>6, <1>7, <2>1
  <2> QED BY <2>2 DEF Through
<1>8. ASSUME NEW cut, Through(cut, fits, n) PROVE n \in g[m]
  <2>1. m \in 0..m
    OBVIOUS
  <2>2. cut[m] \in g[m]
    BY <1>5, <1>8, <2>1
  <2> QED BY <1>8, <2>2 DEF Through
<1> QED BY <1>1, <1>7, <1>8

\* What matches a text matches another in which its tokens have their places too.
LEMMA Carried ==
  ASSUME NEW f, NEW g, Len(f) \in Nat, Len(g) = Len(f), NEW n \in Nat, NEW k \in Nat,
         NEW at \in [0..n -> 0..k], at[0] = 0, at[n] = k,
         \A i \in 1..Len(f), a, b \in 0..n : <<a, b>> \in f[i] => <<at[a], at[b]>> \in g[i],
         Matches(f, n)
  PROVE  Matches(g, k)
<1>1. PICK cut : Through(cut, f, n)
  BY MatchesIs
<1>2. cut \in [0..Len(f) -> 0..n] /\ cut[0] = 0 /\ cut[Len(f)] = n
      /\ \A i \in 1..Len(f) : <<cut[i - 1], cut[i]>> \in f[i]
  BY <1>1 DEF Through
<1> DEFINE placed == [i \in 0..Len(f) |-> at[cut[i]]]
<1>3. \A i \in 0..Len(f) : placed[i] = at[cut[i]] /\ cut[i] \in 0..n /\ placed[i] \in 0..k
  BY <1>2
<1>4. placed \in [0..Len(f) -> 0..k] /\ placed[0] = 0 /\ placed[Len(f)] = k
  BY <1>2, <1>3
<1>5. ASSUME NEW i \in 1..Len(f) PROVE <<placed[i - 1], placed[i]>> \in g[i]
  <2>1. i \in 0..Len(f) /\ i - 1 \in 0..Len(f)
    OBVIOUS
  <2>2. <<cut[i - 1], cut[i]>> \in f[i] /\ cut[i] \in 0..n /\ cut[i - 1] \in 0..n
    BY <1>2, <1>3, <2>1
  <2> HIDE DEF placed
  <2> QED BY <1>3, <2>1, <2>2
<1> HIDE DEF placed
<1>6. Through(placed, g, k)
  BY <1>4, <1>5 DEF Through
<1> QED BY <1>6, MatchesIs

Tokens == Characters \cup {"*", "?"}
Segments == {Star2} \cup Seq(Tokens)

LEMMA SpansAre ==
  ASSUME NEW text, Len(text) \in Nat, NEW i, NEW j
  PROVE  <<i, j>> \in Spans(text) <=> i \in 0..Len(text) /\ j \in 0..Len(text) /\ i <= j
BY DEF Spans

\* A code is as long as it is, so a place is at least as far from another as
\* the number of characters between them.
LEMMA PlacesSpread ==
  ASSUME NEW name \in Seq(Characters), NEW word, NEW at, Spells(name, word, at),
         NEW i \in 0..Len(name), NEW j \in i..Len(name)
  PROVE  at[j] \in Nat /\ at[i] \in Nat /\ at[j] >= at[i] + (j - i)
<1> DEFINE N == Len(name)
           B == {l \in i..N : ~(at[l] >= at[i] + (l - i))}
<1>1. N \in Nat /\ at \in [0..N -> Nat]
  BY DEF Spells
<1>2. \A l \in 1..N : at[l] >= at[l - 1] + 1
  <2> TAKE l \in 1..N
  <2>1. at[l] = at[l - 1] + Len(Code(name[l])) /\ Len(Code(name[l])) \in Nat \ {0}
    BY CodeIs DEF Spells
  <2>2. at[l - 1] \in Nat
    BY <1>1
  <2> QED BY <2>1, <2>2
<1>3. B = {}
  <2> SUFFICES ASSUME B # {} PROVE FALSE
    OBVIOUS
  <2>1. PICK l \in B : \A k \in B : l <= k
    <3>1. B \subseteq Nat
      BY <1>1
    <3> HIDE DEF B
    <3> QED BY <3>1, NatMinimum
  <2>2. l \in i..N /\ ~(at[l] >= at[i] + (l - i)) /\ at[l] \in Nat /\ at[i] \in Nat
    BY <1>1
  <2>3. l # i
    BY <2>2
  <2>4. l - 1 \in i..N /\ l \in 1..N /\ l - 1 \notin B
    BY <1>1, <2>1, <2>2, <2>3
  <2>5. at[l - 1] >= at[i] + (l - 1 - i) /\ at[l - 1] \in Nat
    BY <1>1, <2>4
  <2>6. at[l] >= at[l - 1] + 1
    BY <1>2, <2>4
  <2> HIDE DEF B
  <2>7. l \in Nat /\ i \in Nat
    BY <1>1, <2>2
  <2> QED BY <2>2, <2>5, <2>6, <2>7
<1>4. j \notin B
  BY <1>3
<1> QED BY <1>1, <1>4

\* Between the places of a character is its code.
LEMMA PartIsCode ==
  ASSUME NEW name \in Seq(Characters), NEW word, NEW at, Spells(name, word, at),
         NEW j \in 1..Len(name)
  PROVE  Part(word, <<at[j - 1], at[j]>>) = Code(name[j])
<1> DEFINE c == Code(name[j])
           a == at[j - 1]
           part == Part(word, <<a, at[j]>>)
<1>1. c \in Seq(Symbols) /\ Len(c) \in Nat \ {0}
  BY CodeIs
<1>2. word \in Seq(Symbols) /\ a \in Nat /\ at[j] = a + Len(c) /\ at[j] <= Len(word)
      /\ \A k \in 1..Len(c) : word[a + k] = c[k]
  <2>1. j - 1 \in 0..Len(name) /\ at \in [0..Len(name) -> Nat]
    BY DEF Spells
  <2> QED BY <2>1 DEF Spells
<1> HIDE DEF c, a
<1>3. part = SubSeq(word, a + 1, a + Len(c))
  BY <1>2 DEF Part
<1>4. part = [k \in 1..Len(c) |-> word[a + k]]
  <2> DEFINE n == Len(c)
  <2>1. n \in Nat
    BY <1>1
  <2> HIDE DEF n
  <2>2. SubSeq(word, a + 1, a + n) = [k \in 1..n |-> word[a + k]]
    BY <1>2, <2>1
  <2> QED BY <1>3, <2>2 DEF n
<1>5. part = [k \in 1..Len(c) |-> c[k]]
  BY <1>2, <1>4
<1>6. c = [k \in 1..Len(c) |-> c[k]]
  BY <1>1
<1> QED BY <1>5, <1>6 DEF c, a

LEMMA EncodeOne ==
  ASSUME NEW c \in Characters
  PROVE  Encode(<<c>>) = Code(c)
<1> DEFINE name == <<c>>
<1>1. name \in Seq(Characters) /\ Len(name) = 1 /\ name[1] = c
  OBVIOUS
<1>2. PICK at : Spells(name, Encode(name), at)
  BY <1>1, EncodeSpells
<1>3. Part(Encode(name), <<at[0], at[1]>>) = Code(c)
  <2>1. 1 \in 1..Len(name) /\ 1 - 1 = 0
    BY <1>1
  <2>2. Part(Encode(name), <<at[1 - 1], at[1]>>) = Code(name[1])
    BY <1>1, <1>2, <2>1, PartIsCode
  <2> QED BY <1>1, <2>1, <2>2
<1>4. at[0] = 0 /\ at[1] = Len(Encode(name)) /\ Encode(name) \in Seq(Symbols)
  BY <1>1, <1>2 DEF Spells
<1> HIDE DEF name
<1>5. Part(Encode(name), <<0, Len(Encode(name))>>) = Encode(name)
  BY <1>4, SubSeqFull DEF Part
<1> QED BY <1>3, <1>4, <1>5 DEF name

\* The part of a name that is one character is that of one place to the next.
LEMMA OnePart ==
  ASSUME NEW text \in Seq(Characters), NEW i \in Nat, i + 1 \in 1..Len(text)
  PROVE  Part(text, <<i, i + 1>>) = <<text[i + 1]>>
<1>1. Part(text, <<i, i + 1>>) = [k \in 1..1 |-> text[i + k]]
  BY DEF Part
<1>2. <<text[i + 1]>> = [k \in 1..1 |-> text[i + 1]]
  OBVIOUS
<1> QED BY <1>1, <1>2

LEMMA PartIsOne ==
  ASSUME NEW text \in Seq(Characters), NEW i \in 0..Len(text), NEW j \in i..Len(text), NEW c,
         Part(text, <<i, j>>) = <<c>>
  PROVE  j = i + 1 /\ text[j] = c
<1>1. Len(Part(text, <<i, j>>)) = j - i
  BY DEF Part
<1>2. Len(<<c>>) = 1
  OBVIOUS
<1>3. j - i = 1 /\ i \in Nat /\ j \in Nat
  <2>1. i \in Nat /\ j \in Nat
    OBVIOUS
  <2>2. Len(Part(text, <<i, j>>)) = Len(<<c>>)
    OBVIOUS
  <2>3. j - i = 1
    BY <1>1, <1>2, <2>2
  <2> QED BY <2>1, <2>3
<1>4. j = i + 1
  BY <1>3
<1>5. Part(text, <<i, i + 1>>) = <<text[i + 1]>>
  BY <1>3, <1>4, OnePart
<1> QED BY <1>4, <1>5

\* What a token stands for in a name, it stands for in the label.
LEMMA FitsLabel ==
  ASSUME NEW name \in Seq(Characters), NEW word, NEW at, Spells(name, word, at),
         NEW t \in Tokens, NEW i \in 0..Len(name), NEW j \in 0..Len(name),
         <<i, j>> \in JsFits(t, name)
  PROVE  <<at[i], at[j]>> \in SqlFits(t, word)
<1>1. Len(name) \in Nat /\ word \in Seq(Symbols) /\ Len(word) \in Nat
      /\ at[0] = 0 /\ at[Len(name)] = Len(word) /\ at \in [0..Len(name) -> Nat]
  BY DEF Spells
<1>2. <<i, j>> \in Spans(name) /\ i <= j
  BY <1>1, SpansAre DEF JsFits
<1>3. <<at[i], at[j]>> \in Spans(word)
  <2>1. at[j] >= at[i] + (j - i) /\ at[Len(name)] >= at[j] + (Len(name) - j)
    <3>1. j \in i..Len(name) /\ Len(name) \in j..Len(name)
      BY <1>1, <1>2
    <3> QED BY <3>1, PlacesSpread
  <2>2. at[i] \in 0..Len(word) /\ at[j] \in 0..Len(word) /\ at[i] <= at[j]
    BY <1>1, <1>2, <2>1
  <2> QED BY <1>1, <2>2, SpansAre
<1>4. CASE t = "*"
  BY <1>3, <1>4 DEF SqlFits
<1>5. ASSUME j = i + 1 PROVE Part(word, <<at[i], at[j]>>) = Code(name[j]) /\ name[j] \in Characters
  <2>1. j \in 1..Len(name) /\ j - 1 = i
    BY <1>1, <1>5
  <2> QED BY <2>1, PartIsCode
<1>6. CASE t = "?"
  <2>1. j = i + 1
    BY <1>6 DEF JsFits
  <2>2. Part(word, <<at[i], at[j]>>) \in {<<c>> : c \in Plain} \cup Range(Escape)
    BY <1>5, <2>1 DEF Code, Characters, Range
  <2> QED BY <1>3, <1>6, <2>2 DEF SqlFits
<1>7. CASE t # "*" /\ t # "?"
  <2>1. Part(name, <<i, j>>) = <<t>> /\ t \in Characters
    BY <1>7 DEF JsFits, Tokens
  <2>2. j = i + 1 /\ name[j] = t
    <3>1. j \in i..Len(name)
      BY <1>1, <1>2
    <3> QED BY <2>1, <3>1, PartIsOne
  <2>3. Part(word, <<at[i], at[j]>>) = Encode(<<t>>)
    BY <1>5, <2>1, <2>2, EncodeOne
  <2> QED BY <1>3, <1>7, <2>3 DEF SqlFits
<1> QED BY <1>4, <1>6, <1>7

LEMMA SegmentSql ==
  ASSUME NEW name \in Names, NEW segment \in Seq(Tokens), JsSegment(segment, name)
  PROVE  SqlSegment(segment, Encode(name))
<1> DEFINE word == Encode(name)
           f == [i \in 1..Len(segment) |-> JsFits(segment[i], name)]
           g == [i \in 1..Len(segment) |-> SqlFits(segment[i], word)]
<1>1. name \in Seq(Characters)
  BY DEF Names
<1>2. PICK at : Spells(name, word, at)
  BY <1>1, EncodeSpells
<1>3. Len(name) \in Nat /\ Len(word) \in Nat /\ at \in [0..Len(name) -> Nat]
      /\ at[0] = 0 /\ at[Len(name)] = Len(word)
  BY <1>1, <1>2 DEF Spells
<1>4. at \in [0..Len(name) -> 0..Len(word)]
  <2>1. \A i \in 0..Len(name) : at[i] <= at[Len(name)]
    <3> TAKE i \in 0..Len(name)
    <3>1. at[Len(name)] >= at[i] + (Len(name) - i) /\ at[i] \in Nat
      <4>1. Len(name) \in i..Len(name)
        BY <1>3
      <4> QED BY <1>1, <1>2, <4>1, PlacesSpread
    <3>2. at[Len(name)] \in Nat
      BY <1>3
    <3> QED BY <1>3, <3>1, <3>2
  <2> HIDE DEF word
  <2> QED BY <1>3, <2>1
<1>5. Len(f) = Len(segment) /\ Len(g) = Len(segment) /\ Len(f) \in Nat
      /\ \A i \in 1..Len(segment) : f[i] = JsFits(segment[i], name) /\ g[i] = SqlFits(segment[i], word)
  OBVIOUS
<1>6. Matches(f, Len(name))
  BY DEF JsSegment
<1>7. ASSUME NEW i \in 1..Len(f), NEW a \in 0..Len(name), NEW b \in 0..Len(name), <<a, b>> \in f[i]
      PROVE  <<at[a], at[b]>> \in g[i]
  <2>1. segment[i] \in Tokens /\ <<a, b>> \in JsFits(segment[i], name)
    BY <1>5, <1>7
  <2> HIDE DEF f, g, word
  <2> QED BY <1>1, <1>2, <1>5, <2>1, FitsLabel
<1> HIDE DEF f, g, word
<1>8. Matches(g, Len(word))
  BY <1>3, <1>4, <1>5, <1>6, <1>7, Carried
<1> QED BY <1>8 DEF SqlSegment, g, word

\* A name that is its own label has one character for each of its places.
LEMMA OwnPlaces ==
  ASSUME NEW name \in Seq(Characters), NEW at, Spells(name, name, at), NEW i \in 0..Len(name)
  PROVE  at[i] = i
<1>1. Len(name) \in Nat /\ at[0] = 0 /\ at[Len(name)] = Len(name) /\ i \in Nat
  BY DEF Spells
<1>2. at[i] \in Nat /\ at[i] >= at[0] + (i - 0)
  <2>1. 0 \in 0..Len(name) /\ i \in 0..Len(name)
    BY <1>1
  <2> QED BY <2>1, PlacesSpread
<1>3. at[Len(name)] >= at[i] + (Len(name) - i)
  <2>1. Len(name) \in i..Len(name)
    BY <1>1
  <2> QED BY <2>1, PlacesSpread
<1> QED BY <1>1, <1>2, <1>3

\* Such a name holds no escape but those of its own characters.
LEMMA FitsName ==
  ASSUME NEW name \in Seq(Characters), NEW at, Spells(name, name, at),
         NEW t \in Tokens, NEW i \in 0..Len(name), NEW j \in 0..Len(name),
         <<i, j>> \in SqlFits(t, name)
  PROVE  <<i, j>> \in JsFits(t, name)
<1> DEFINE part == Part(name, <<i, j>>)
<1>1. Len(name) \in Nat /\ name \in Seq(Symbols) /\ i \in Nat /\ j \in Nat
  BY DEF Spells
<1>2. <<i, j>> \in Spans(name) /\ i <= j /\ j \in i..Len(name)
  BY <1>1, SpansAre DEF SqlFits
<1>3. part = SubSeq(name, i + 1, j)
  BY DEF Part
<1>4. ASSUME NEW d \in DOMAIN Escape, part = Escape[d]
      PROVE  j = i + 1 /\ name[j] = d
  <2> DEFINE e == Escape[d]
             c == name[i + 1]
  <2>1. e \in Seq(Range(e)) /\ e # <<>> /\ d \notin Plain
    BY EscapeAssumption
  <2>2. Len(e) \in Nat \ {0}
    BY <2>1
  <2>3. Len(part) = j - i
    BY <1>1, <1>2, <1>3
  <2>4. i + 1 \in 1..Len(name) /\ j = i + Len(e) /\ i + 1 \in Nat \ {0}
    BY <1>1, <1>2, <1>4, <2>2, <2>3
  <2>5. d \in EscapesAt(name, i + 1)
    <3>1. (i + 1) + Len(e) - 1 = j /\ j <= Len(name)
      BY <1>1, <1>2, <2>2, <2>4
    <3>2. SubSeq(name, i + 1, (i + 1) + Len(e) - 1) = e
      BY <1>3, <1>4, <3>1
    <3> HIDE DEF part
    <3> QED BY <3>1, <3>2 DEF EscapesAt
  <2>6. c \in Characters
    BY <2>4
  <2>7. at[i + 1] = i + 1 /\ at[i] = i
    <3>1. i + 1 \in 0..Len(name)
      BY <1>1, <2>4
    <3> QED BY <3>1, OwnPlaces
  <2>8. /\ at[i + 1] = at[i] + Len(Code(c)) /\ at[i + 1] <= Len(name)
        /\ \A k \in 1..Len(Code(c)) : name[at[i] + k] = Code(c)[k]
    <3>1. (i + 1) - 1 = i
      BY <1>1
    <3> QED BY <2>4, <3>1 DEF Spells
  <2>9. Len(Code(c)) \in Nat \ {0}
    BY <2>6, CodeIs
  <2>10. Len(Code(c)) = 1
    <3> DEFINE l == Len(Code(c))
    <3>1. l \in Nat /\ i + 1 = i + l
      BY <2>7, <2>8, <2>9
    <3> HIDE DEF l
    <3>2. l = 1
      BY <1>1, <3>1
    <3> QED BY <3>2 DEF l
  <2>11. EscapesAt(name, i + 1) = IF c \in Plain THEN {} ELSE {c}
    <3>1. (i + 1) + Len(Code(c)) - 1 <= Len(name) /\ (i + 1) - 1 = i
      BY <1>1, <2>4, <2>10
    <3>2. \A k \in 1..Len(Code(c)) : name[(i + 1) - 1 + k] = Code(c)[k]
      BY <2>7, <2>8, <3>1
    <3> HIDE DEF c
    <3> QED BY <1>1, <2>4, <2>6, <3>1, <3>2, OneEscape
  <2>12. d = c /\ Code(c) = e
    BY <2>1, <2>5, <2>11 DEF Code
  <2> HIDE DEF c, e
  <2>13. j = i + 1
    BY <2>4, <2>10, <2>12
  <2> QED BY <2>12, <2>13 DEF c
<1>5. CASE t = "*"
  BY <1>2, <1>5 DEF JsFits
<1>6. CASE t = "?"
  <2>1. part \in {<<c>> : c \in Plain} \cup Range(Escape)
    BY <1>6 DEF SqlFits
  <2>2. j = i + 1
    <3>1. CASE \E c \in Plain : part = <<c>>
      BY <1>2, <3>1, PartIsOne
    <3>2. CASE part \in Range(Escape)
      <4>1. PICK d \in DOMAIN Escape : part = Escape[d]
        BY <3>2 DEF Range
      <4> HIDE DEF part
      <4> QED BY <1>4, <4>1
    <3> HIDE DEF part
    <3> QED BY <2>1, <3>1, <3>2
  <2> QED BY <1>2, <1>6, <2>2 DEF JsFits
<1>7. CASE t # "*" /\ t # "?"
  <2>1. part = Encode(<<t>>) /\ t \in Characters
    BY <1>7 DEF SqlFits, Tokens
  <2>2. part = Code(t)
    BY <2>1, EncodeOne
  <2>3. part = <<t>>
    <3>1. CASE t \in Plain
      BY <2>2, <3>1 DEF Code
    <3>2. CASE t \notin Plain
      <4>1. t \in DOMAIN Escape /\ part = Escape[t]
        BY <2>1, <2>2, <3>2 DEF Code, Characters
      <4>2. j = i + 1 /\ name[j] = t
        BY <1>4, <4>1
      <4>3. i + 1 \in 1..Len(name)
        BY <1>1, <1>2, <4>2
      <4> QED BY <4>2, <4>3, OnePart
    <3> QED BY <3>1, <3>2
  <2> QED BY <1>2, <1>7, <2>3 DEF JsFits
<1> QED BY <1>5, <1>6, <1>7

LEMMA SegmentJs ==
  ASSUME NEW name \in Names, Encode(name) = name, NEW segment \in Seq(Tokens),
         SqlSegment(segment, name)
  PROVE  JsSegment(segment, name)
<1> DEFINE f == [i \in 1..Len(segment) |-> SqlFits(segment[i], name)]
           g == [i \in 1..Len(segment) |-> JsFits(segment[i], name)]
           n == Len(name)
           at == [i \in 0..n |-> i]
<1>1. name \in Seq(Characters) /\ n \in Nat
  BY DEF Names
<1>2. PICK places : Spells(name, name, places)
  BY <1>1, EncodeSpells
<1>3. Len(f) = Len(segment) /\ Len(g) = Len(segment) /\ Len(f) \in Nat
      /\ \A i \in 1..Len(segment) : f[i] = SqlFits(segment[i], name) /\ g[i] = JsFits(segment[i], name)
  OBVIOUS
<1>4. Matches(f, n)
  BY DEF SqlSegment
<1>5. at \in [0..n -> 0..n] /\ at[0] = 0 /\ at[n] = n /\ \A i \in 0..n : at[i] = i
  BY <1>1
<1>6. ASSUME NEW i \in 1..Len(f), NEW a \in 0..n, NEW b \in 0..n, <<a, b>> \in f[i]
      PROVE  <<at[a], at[b]>> \in g[i]
  <2>1. segment[i] \in Tokens /\ <<a, b>> \in SqlFits(segment[i], name)
    BY <1>3, <1>6
  <2>2. <<a, b>> \in JsFits(segment[i], name)
    BY <1>1, <1>2, <2>1, FitsName
  <2> HIDE DEF f, g
  <2> QED BY <1>3, <1>5, <1>6, <2>2
<1> HIDE DEF f, g, at, n
<1>7. Matches(g, n)
  BY <1>1, <1>3, <1>4, <1>5, <1>6, Carried
<1> QED BY <1>7 DEF JsSegment, g, n

\* The names below a root, and their labels.
LEMMA BelowRoot ==
  ASSUME NEW root \in Seq(Names), NEW path \in Seq(Names), IsPrefix(root, path)
  PROVE  /\ ToUser(root, path) \in Seq(Names)
         /\ \A i \in 1..Len(ToUser(root, path)) : ToUser(root, path)[i] \in Range(path)
<1>1. Len(root) <= Len(path)
  BY PrefixesAre
<1> DEFINE n == Len(root)
           names == ToUser(root, path)
<1>2. names = SubSeq(path, n + 1, Len(path)) /\ n \in Nat /\ n <= Len(path)
  BY <1>1 DEF ToUser
<1> HIDE DEF n, names
<1>3. names \in Seq(Names) /\ Len(names) = Len(path) - n /\ \A i \in 1..Len(names) : names[i] = path[i + n]
  BY <1>2
<1>4. ASSUME NEW i \in 1..Len(names) PROVE names[i] \in Range(path)
  <2>1. i + n \in 1..Len(path) /\ names[i] = path[i + n]
    BY <1>2, <1>3
  <2> QED BY <2>1 DEF Range
<1> QED BY <1>3, <1>4 DEF names

LEMMA TailIs ==
  ASSUME NEW path \in Seq(Names)
  PROVE  /\ Len(Tail(Ltree(path))) = Len(path)
         /\ \A i \in 1..Len(path) : Tail(Ltree(path))[i] = Encode(path[i])
         /\ Tail(Ltree(path)) # <<>> <=> path # <<>>
<1> DEFINE l == Ltree(path)
<1>1. l \in Seq(Labels) /\ Len(l) = Len(path) + 1 /\ \A i \in 1..Len(path) : l[i + 1] = Encode(path[i])
  BY LtreeIs
<1> HIDE DEF l
<1>2. Len(Tail(l)) = Len(path) /\ \A i \in 1..Len(path) : Tail(l)[i] = l[i + 1]
  BY <1>1
<1>3. Tail(l) \in Seq(Labels)
  BY <1>1
<1>4. Tail(l) # <<>> <=> path # <<>>
  <2> DEFINE t == Tail(l)
  <2>1. (t = <<>> <=> Len(t) = 0) /\ (path = <<>> <=> Len(path) = 0)
    <3>1. t \in Seq(Labels)
      BY <1>3
    <3> HIDE DEF t
    <3> QED BY <3>1
  <2> HIDE DEF t
  <2>2. Len(t) = Len(path)
    BY <1>2 DEF t
  <2>3. t # <<>> <=> path # <<>>
    BY <2>1, <2>2
  <2> QED BY <2>3 DEF t
<1> QED BY <1>1, <1>2, <1>4 DEF l

LEMMA Concats ==
  ASSUME NEW C, NEW a \in Seq(C), NEW b \in Seq(C)
  PROVE  /\ a \o b \in Seq(C) /\ Len(a \o b) = Len(a) + Len(b)
         /\ \A k \in 1..Len(a) : (a \o b)[k] = a[k]
         /\ \A k \in 1..Len(b) : (a \o b)[Len(a) + k] = b[k]
OBVIOUS

\* A pattern of a whole path, piece by piece.
Expression(p, n, taken) == Append(Pieces(p, n, taken), AndBelow(n))
LEMMA ExpressionIs ==
  ASSUME NEW p \in [anchored : BOOLEAN, segments : Seq(Segments) \ {<<>>}], NEW n, NEW taken
  PROVE  /\ Len(Expression(p, n, taken)) = Len(p.segments) + 2
         /\ Expression(p, n, taken)[1] = IF p.anchored THEN {<<0, 0>>} ELSE Folders(n)
         /\ \A i \in 1..Len(p.segments) :
              Expression(p, n, taken)[i + 1] = Piece(p.segments, i, n, taken)
         /\ Expression(p, n, taken)[Len(p.segments) + 2] = AndBelow(n)
<1> DEFINE m == Len(p.segments)
           first == IF p.anchored THEN {<<0, 0>>} ELSE Folders(n)
           below == AndBelow(n)
           C == {first, below} \cup {Piece(p.segments, i, n, taken) : i \in 1..m}
           one == <<first>>
           rest == [i \in 1..m |-> Piece(p.segments, i, n, taken)]
           pieces == one \o rest
<1>1. m \in Nat
  OBVIOUS
<1>2. Expression(p, n, taken) = Append(pieces, below)
  BY DEF Expression, Pieces
<1>3. one \in Seq(C) /\ Len(one) = 1 /\ one[1] = first /\ below \in C
  OBVIOUS
<1>4. rest \in Seq(C) /\ Len(rest) = m /\ \A i \in 1..m : rest[i] = Piece(p.segments, i, n, taken)
  <2>1. \A i \in 1..m : Piece(p.segments, i, n, taken) \in C
    OBVIOUS
  <2> HIDE DEF C
  <2> QED BY <1>1, <2>1
<1> HIDE DEF m, first, below, C, one, rest
<1>5. /\ pieces \in Seq(C) /\ Len(pieces) = 1 + m
      /\ pieces[1] = one[1]
      /\ \A k \in 1..m : pieces[1 + k] = rest[k]
  <2>0. one \in Seq(C) /\ rest \in Seq(C)
    BY <1>3, <1>4
  <2>1. one \o rest \in Seq(C) /\ Len(one \o rest) = Len(one) + Len(rest)
    BY ONLY <2>0, Concats
  <2>2. \A k \in 1..Len(one) : (one \o rest)[k] = one[k]
    BY ONLY <2>0, Concats
  <2>3. \A k \in 1..Len(rest) : (one \o rest)[Len(one) + k] = rest[k]
    BY ONLY <2>0, Concats
  <2>4. 1 \in 1..Len(one)
    BY <1>3
  <2> QED BY <1>3, <1>4, <2>1, <2>2, <2>3, <2>4
<1>6. pieces[1] = first /\ \A i \in 1..m : pieces[i + 1] = Piece(p.segments, i, n, taken)
  <2>1. pieces[1] = first
    BY <1>3, <1>5
  <2>2. ASSUME NEW i \in 1..m PROVE pieces[i + 1] = Piece(p.segments, i, n, taken)
    <3>1. 1 + i = i + 1
      BY <1>1
    <3>2. pieces[1 + i] = Piece(p.segments, i, n, taken)
      BY <1>4, <1>5
    <3> QED BY <3>1, <3>2
  <2> QED BY <2>1, <2>2
<1> HIDE DEF pieces
<1> DEFINE all == Append(pieces, below)
<1>7. Len(all) = m + 2 /\ all[m + 2] = below /\ \A k \in 1..m + 1 : all[k] = pieces[k]
  BY <1>1, <1>3, <1>5
<1> HIDE DEF all
<1>8. all[1] = first /\ \A i \in 1..m : all[i + 1] = Piece(p.segments, i, n, taken)
  <2>1. 1 \in 1..m + 1 /\ \A i \in 1..m : i + 1 \in 1..m + 1
    BY <1>1
  <2> QED BY <1>6, <1>7, <2>1
<1> QED BY <1>2, <1>7, <1>8 DEF all, first, below, m

LEMMA PlacesAre ==
  ASSUME NEW n \in Nat
  PROVE  TextLength(n) \in Nat /\ TextLength(0) = 0
BY DEF TextLength

\* What matches goes on to match where the segments take more.
LEMMA PieceCarried ==
  ASSUME NEW segments, NEW i, NEW n, NEW js, NEW sql,
         segments[i] # Star2 => js[i] \subseteq sql[i]
  PROVE  Piece(segments, i, n, js) \subseteq Piece(segments, i, n, sql)
<1>1. CASE segments[i] = Star2
  BY <1>1 DEF Piece
<1>2. CASE segments[i] # Star2
  BY <1>2 DEF Piece
<1> QED BY <1>1, <1>2

LEMMA ExpressionCarried ==
  ASSUME NEW p \in [anchored : BOOLEAN, segments : Seq(Segments) \ {<<>>}], NEW n \in Nat,
         NEW js, NEW sql,
         \A i \in 1..Len(p.segments) : p.segments[i] # Star2 => js[i] \subseteq sql[i],
         Matches(Expression(p, n, js), TextLength(n))
  PROVE  Matches(Expression(p, n, sql), TextLength(n))
<1> DEFINE m == Len(p.segments)
           t == TextLength(n)
           f == Expression(p, n, js)
           g == Expression(p, n, sql)
           same == [i \in 0..t |-> i]
<1>1. m \in Nat /\ t \in Nat
  BY PlacesAre
<1>2. Len(f) = m + 2 /\ Len(g) = m + 2 /\ Len(f) \in Nat
  BY <1>1, ExpressionIs
<1>3. same \in [0..t -> 0..t] /\ same[0] = 0 /\ same[t] = t /\ \A i \in 0..t : same[i] = i
  BY <1>1
<1>4. ASSUME NEW i \in 1..m + 2 PROVE f[i] \subseteq g[i]
  <2>1. CASE i = 1
    BY <2>1, ExpressionIs
  <2>2. CASE i = m + 2
    BY <2>2, ExpressionIs
  <2>3. CASE i # 1 /\ i # m + 2
    <3>1. i - 1 \in 1..m /\ (i - 1) + 1 = i
      BY <1>1, <2>3
    <3> DEFINE k == i - 1
    <3>2. k \in 1..Len(p.segments) /\ k + 1 = i
      BY <3>1
    <3> HIDE DEF k
    <3>3. f[k + 1] = Piece(p.segments, k, n, js) /\ g[k + 1] = Piece(p.segments, k, n, sql)
      BY <3>2, ExpressionIs
    <3>4. Piece(p.segments, k, n, js) \subseteq Piece(p.segments, k, n, sql)
      BY <3>2, PieceCarried
    <3> QED BY <3>2, <3>3, <3>4
  <2> QED BY <2>1, <2>2, <2>3
<1>5. Matches(f, t)
  OBVIOUS
<1> HIDE DEF f, g, same, t, m
<1>6. ASSUME NEW i \in 1..Len(f), NEW a \in 0..t, NEW b \in 0..t, <<a, b>> \in f[i]
      PROVE  <<same[a], same[b]>> \in g[i]
  BY <1>2, <1>3, <1>4, <1>6
<1>7. Matches(g, t)
  BY <1>1, <1>2, <1>3, <1>5, <1>6, Carried
<1> QED BY <1>7 DEF g, t

\* No name is the empty text, and only stars take that.
LEMMA EncodeNothing == Encode(<<>>) = <<>>
<1>1. <<>> \in Seq(Characters) /\ Len(<<>>) = 0
  OBVIOUS
<1>2. PICK at : Spells(<<>>, Encode(<<>>), at)
  BY <1>1, EncodeSpells
<1> DEFINE word == Encode(<<>>)
<1>3. word \in Seq(Symbols) /\ Len(word) = 0
  BY <1>1, <1>2 DEF Spells
<1> HIDE DEF word
<1>4. word = <<>>
  BY <1>3
<1> QED BY <1>4 DEF word

LEMMA TakesNothing ==
  ASSUME NEW segment \in Seq(Tokens), JsSegment(segment, <<>>)
  PROVE  Range(segment) \subseteq {"*", "**"}
<1> DEFINE none == <<>>
           f == [i \in 1..Len(segment) |-> JsFits(segment[i], none)]
<1>1. Len(segment) \in Nat /\ Len(none) = 0
  OBVIOUS
<1>2. Len(f) = Len(segment) /\ \A i \in 1..Len(segment) : f[i] = JsFits(segment[i], none)
  OBVIOUS
<1>3. Matches(f, Len(none))
  BY DEF JsSegment
<1> HIDE DEF f
<1>4. PICK cut : Through(cut, f, 0)
  BY <1>1, <1>2, <1>3, MatchesIs
<1>5. ASSUME NEW i \in 1..Len(segment) PROVE segment[i] = "*"
  <2>1. <<cut[i - 1], cut[i]>> \in f[i] /\ cut[i - 1] \in 0..0 /\ cut[i] \in 0..0
    <3>1. i \in 1..Len(f) /\ i \in 0..Len(f) /\ i - 1 \in 0..Len(f)
      BY <1>1, <1>2
    <3> QED BY <1>4, <3>1 DEF Through
  <2>2. cut[i - 1] = 0 /\ cut[i] = 0
    BY <2>1
  <2>3. <<0, 0>> \in JsFits(segment[i], none)
    BY <1>2, <2>1, <2>2
  <2>4. Part(none, <<0, 0>>) = <<>>
    BY DEF Part
  <2> DEFINE t == segment[i]
  <2>5. <<>> # <<t>>
    OBVIOUS
  <2>6. t # "?" /\ ~(Part(none, <<0, 0>>) = <<t>> /\ t # "*")
    <3>1. <<0, 0>> \in JsFits(t, none)
      BY <2>3
    <3> HIDE DEF t, none
    <3>2. CASE t = "?"
      <4>1. 0 = 0 + 1
        BY <3>1, <3>2 DEF JsFits
      <4> QED BY <4>1
    <3> QED BY <2>4, <2>5, <3>2
  <2>7. t = "*" \/ t = "?" \/ Part(none, <<0, 0>>) = <<t>>
    <3>1. <<0, 0>> \in JsFits(t, none)
      BY <2>3
    <3> HIDE DEF t, none
    <3> QED BY <3>1 DEF JsFits
  <2> QED BY <2>6, <2>7, <2>4, <2>5
<1> QED BY <1>5 DEF Range

\* The places of a text without names, in a piece that matches it.
LEMMA PieceOfNothing ==
  ASSUME NEW segments, NEW i, NEW taken, <<0, 0>> \in Piece(segments, i, 0, taken),
         segments[i] # Star2
  PROVE  0 \in taken[i]
<1> DEFINE own == IF i = 1 \/ segments[i - 1] = Star2 THEN 0 ELSE 1
<1>1. /\ own = 1 => ~AtName(0)
      /\ (0 = 0 + own /\ 0 \in taken[i]) \/ 0 = 0 + own + 1
  BY DEF Piece
<1>2. own \in {0, 1}
  OBVIOUS
<1> HIDE DEF own
<1> QED BY <1>1, <1>2

LEMMA NothingMatches ==
  ASSUME NEW p \in [anchored : BOOLEAN, segments : Seq(Segments) \ {<<>>}], NEW names, names = <<>>,
         Matches(Expression(p, 0, JsTaken(p.segments, names)), 0)
  PROVE  \A i \in DOMAIN p.segments : Range(p.segments[i]) \subseteq {"*", "**"}
<1> DEFINE m == Len(p.segments)
           taken == JsTaken(p.segments, names)
           f == Expression(p, 0, taken)
<1>1. m \in Nat /\ DOMAIN p.segments = 1..m /\ \A i \in 1..m : p.segments[i] \in Segments
  OBVIOUS
<1>2. Len(f) = m + 2 /\ \A i \in 1..m : f[i + 1] = Piece(p.segments, i, 0, taken)
  BY ExpressionIs
<1>3. PICK cut : Through(cut, f, 0)
  <2> HIDE DEF m
  <2> QED BY <1>1, <1>2, MatchesIs
<1> HIDE DEF f
<1> SUFFICES ASSUME NEW i \in 1..m PROVE Range(p.segments[i]) \subseteq {"*", "**"}
  BY <1>1
<1>4. CASE p.segments[i] = Star2
  BY <1>4 DEF Star2, Range
<1>5. CASE p.segments[i] # Star2
  <2>1. <<cut[i], cut[i + 1]>> \in f[i + 1] /\ cut[i] \in 0..0 /\ cut[i + 1] \in 0..0
    <3>1. i + 1 \in 1..Len(f) /\ i \in 0..Len(f) /\ i + 1 \in 0..Len(f) /\ (i + 1) - 1 = i
      BY <1>1, <1>2
    <3> QED BY <1>3, <3>1 DEF Through
  <2>2. <<0, 0>> \in Piece(p.segments, i, 0, taken)
    <3>1. cut[i] = 0 /\ cut[i + 1] = 0
      BY <2>1
    <3>2. f[i + 1] = Piece(p.segments, i, 0, taken)
      BY <1>2
    <3> QED BY <2>1, <3>1, <3>2
  <2> HIDE DEF taken
  <2>3. 0 \in taken[i]
    BY <1>5, <2>2, PieceOfNothing
  <2>4. JsSegment(p.segments[i], <<>>)
    BY <2>3 DEF taken, JsTaken, NameOrNothing
  <2>5. p.segments[i] \in Seq(Tokens)
    BY <1>1, <1>5 DEF Segments
  <2> QED BY <2>4, <2>5, TakesNothing
<1> QED BY <1>4, <1>5

\* The regular expressions of a whole path take the same names, escapes aside.
LEMMA TakenAlike ==
  ASSUME NEW segments \in Seq(Segments), NEW names \in Seq(Names), NEW labels,
         Len(labels) = Len(names), \A i \in 1..Len(names) : labels[i] = Encode(names[i]),
         NEW i \in 1..Len(segments), segments[i] # Star2
  PROVE  /\ JsTaken(segments, names)[i] \subseteq SqlTaken(segments, labels)[i]
         /\ (\A k \in 1..Len(names) : Encode(names[k]) = names[k]) =>
              SqlTaken(segments, labels)[i] \subseteq JsTaken(segments, names)[i]
<1> DEFINE name(k) == NameOrNothing(names, k)
           word(k) == NameOrNothing(labels, k)
<1>1. segments[i] \in Seq(Tokens)
  BY DEF Segments
<1>2. JsTaken(segments, names)[i] = {k \in 0..Len(names) : JsSegment(segments[i], name(k))}
  BY DEF JsTaken
<1>3. SqlTaken(segments, labels)[i] = {k \in 0..Len(names) : SqlSegment(segments[i], word(k))}
  BY DEF SqlTaken
<1>4. ASSUME NEW k \in 0..Len(names)
      PROVE  /\ name(k) \in Names /\ word(k) = Encode(name(k))
             /\ (\A l \in 1..Len(names) : Encode(names[l]) = names[l]) => Encode(name(k)) = name(k)
  <2>1. CASE k = 0
    BY <2>1, EncodeNothing DEF NameOrNothing, Names
  <2>2. CASE k # 0
    BY <2>2 DEF NameOrNothing
  <2> QED BY <2>1, <2>2
<1> HIDE DEF name, word
<1>5. ASSUME NEW k \in 0..Len(names), JsSegment(segments[i], name(k)) PROVE SqlSegment(segments[i], word(k))
  BY <1>1, <1>4, <1>5, SegmentSql
<1>6. ASSUME \A l \in 1..Len(names) : Encode(names[l]) = names[l], NEW k \in 0..Len(names),
             SqlSegment(segments[i], word(k))
      PROVE  JsSegment(segments[i], name(k))
  BY <1>1, <1>4, <1>6, SegmentJs
<1> QED BY <1>2, <1>3, <1>5, <1>6

LEMMA PathsAgree ==
  ASSUME NEW p \in [anchored : BOOLEAN, segments : Seq(Segments) \ {<<>>}],
         NEW root \in Seq(Names), NEW path \in Seq(Names)
  PROVE  /\ JsFullPath(p, root, path) =>
              \/ SqlFullPath(p, root, path)
              \/ path = <<>> /\ \A i \in DOMAIN p.segments : Range(p.segments[i]) \subseteq {"*", "**"}
         /\ SqlFullPath(p, root, path) =>
              JsFullPath(p, root, path) \/ \E name \in Range(path) : Encode(name) # name
<1> DEFINE names == ToUser(root, path)
           labels == Tail(Ltree(names))
           n == Len(names)
           js == JsTaken(p.segments, names)
           sql == SqlTaken(p.segments, labels)
           Stars == \A i \in DOMAIN p.segments : Range(p.segments[i]) \subseteq {"*", "**"}
           Plainly == \A i \in 1..n : Encode(names[i]) = names[i]
<1> SUFFICES ASSUME IsPrefix(root, path)
             PROVE  /\ JsFullPath(p, root, path) => SqlFullPath(p, root, path) \/ (path = <<>> /\ Stars)
                    /\ SqlFullPath(p, root, path) =>
                         JsFullPath(p, root, path) \/ \E name \in Range(path) : Encode(name) # name
  BY DEF JsFullPath, SqlFullPath
<1>1. names \in Seq(Names) /\ \A i \in 1..n : names[i] \in Range(path)
  BY BelowRoot
<1>2. root = <<>> /\ names = <<>> => path = <<>>
  <2> SUFFICES ASSUME root = <<>>, names = <<>> PROVE path = <<>>
    OBVIOUS
  <2>1. SubSeq(path, 0 + 1, Len(path)) = <<>>
    BY DEF ToUser
  <2> QED BY <2>1, PrefixesAre
<1>3. Len(labels) = n /\ (\A i \in 1..n : labels[i] = Encode(names[i]))
      /\ (labels # <<>> <=> names # <<>>)
  <2> HIDE DEF names
  <2> QED BY <1>1, TailIs
<1>4. p.segments \in Seq(Segments) /\ n \in Nat
  BY <1>1
<1>5. JsFullPath(p, root, path) <=>
        (names # <<>> \/ root = <<>>) /\ Matches(Expression(p, n, js), TextLength(n))
  BY DEF JsFullPath, Expression
<1>6. SqlFullPath(p, root, path) <=>
        labels # <<>> /\ Matches(Expression(p, n, sql), TextLength(n))
  BY <1>3 DEF SqlFullPath, Expression
<1>7. ASSUME NEW i \in 1..Len(p.segments), p.segments[i] # Star2
      PROVE  js[i] \subseteq sql[i] /\ (Plainly => sql[i] \subseteq js[i])
  <2> HIDE DEF names, labels
  <2> QED BY <1>1, <1>3, <1>4, <1>7, TakenAlike
<1>8. names = <<>> => n = 0 /\ TextLength(n) = 0
  BY PlacesAre
<1>9. ASSUME names = <<>>, Matches(Expression(p, n, js), TextLength(n)) PROVE Stars
  <2> HIDE DEF n, js
  <2>1. Matches(Expression(p, 0, js), 0)
    BY <1>8, <1>9
  <2> HIDE DEF names
  <2> QED BY <1>9, <2>1, NothingMatches DEF js
<1>10. (\A name \in Range(path) : Encode(name) = name) => Plainly
  BY <1>1
<1> HIDE DEF names, labels, n, js, sql, Plainly, Stars
<1>11. Matches(Expression(p, n, js), TextLength(n)) => Matches(Expression(p, n, sql), TextLength(n))
  BY <1>4, <1>7, ExpressionCarried
<1>12. Plainly => (Matches(Expression(p, n, sql), TextLength(n)) => Matches(Expression(p, n, js), TextLength(n)))
  BY <1>4, <1>7, ExpressionCarried
<1> QED BY <1>2, <1>3, <1>5, <1>6, <1>9, <1>10, <1>11, <1>12

\* The labels of a path are those of its names, and that of the workspace.
LEMMA LabelsOf ==
  ASSUME NEW path \in Seq(Names)
  PROVE  Range(Ltree(path)) = {Workspace} \cup {Encode(name) : name \in Range(path)}
<1> DEFINE l == Ltree(path)
<1>1. l \in Seq(Labels) /\ Len(l) = Len(path) + 1 /\ l[1] = Workspace
      /\ \A i \in 1..Len(path) : l[i + 1] = Encode(path[i])
  BY LtreeIs
<1>2. Len(path) \in Nat
  OBVIOUS
<1> HIDE DEF l
<1>3. ASSUME NEW e \in Range(l) PROVE e \in {Workspace} \cup {Encode(name) : name \in Range(path)}
  <2>1. PICK i \in 1..Len(l) : e = l[i]
    BY <1>1 DEF Range
  <2>2. CASE i = 1
    BY <1>1, <2>1, <2>2
  <2>3. CASE i # 1
    <3>1. i - 1 \in 1..Len(path) /\ (i - 1) + 1 = i
      BY <1>1, <1>2, <2>1, <2>3
    <3>2. e = Encode(path[i - 1])
      BY <1>1, <2>1, <3>1
    <3>3. path[i - 1] \in Range(path)
      BY <3>1 DEF Range
    <3> QED BY <3>2, <3>3
  <2> QED BY <2>2, <2>3
<1>4. Workspace \in Range(l)
  <2>1. 1 \in 1..Len(l)
    BY <1>1, <1>2
  <2> QED BY <1>1, <2>1 DEF Range
<1>5. ASSUME NEW name \in Range(path) PROVE Encode(name) \in Range(l)
  <2>1. PICK i \in 1..Len(path) : name = path[i]
    BY DEF Range
  <2>2. i + 1 \in 1..Len(l) /\ l[i + 1] = Encode(name)
    BY <1>1, <1>2, <2>1
  <2> QED BY <1>1, <2>2 DEF Range
<1> QED BY <1>3, <1>4, <1>5 DEF l

LEMMA PrefixOfLtree ==
  ASSUME NEW r \in Seq(Names), NEW p \in Seq(Names)
  PROVE  IsPrefix(Ltree(r), Ltree(p)) <=> IsPrefix(r, p)
<1>1. Ltree(r) \in Seq(Labels) /\ Ltree(p) \in Seq(Labels)
      /\ Len(Ltree(r)) = Len(r) + 1 /\ Len(Ltree(p)) = Len(p) + 1
  BY LtreeIs
<1>2. SubSeq(Ltree(r), 1, Len(r) + 1) = Ltree(r)
  BY <1>1, SubSeqFull
<1>3. IsPrefix(Ltree(r), Ltree(p)) <=>
        Len(r) + 1 <= Len(p) + 1 /\ Ltree(r) = SubSeq(Ltree(p), 1, Len(r) + 1)
  BY <1>1, <1>2 DEF IsPrefix
<1>4. CASE Len(r) <= Len(p)
  <2> DEFINE q == SubSeq(p, 1, Len(r))
  <2>1. Len(r) \in 0..Len(p)
    BY <1>4
  <2>2. q \in Seq(Names) /\ SubSeq(Ltree(p), 1, Len(r) + 1) = Ltree(q)
    BY <2>1, LtreeCut
  <2>3. IsPrefix(r, p) <=> r = q
    BY <1>4, PrefixesAre
  <2> HIDE DEF q
  <2>4. Ltree(q) = Ltree(r) <=> q = r
    BY <2>2, LtreeTells
  <2>5. Len(r) + 1 <= Len(p) + 1
    BY <1>4
  <2>6. IsPrefix(Ltree(r), Ltree(p)) <=> Ltree(r) = Ltree(q)
    BY ONLY <1>3, <2>2, <2>5
  <2> QED BY ONLY <2>3, <2>4, <2>6
<1>5. CASE ~(Len(r) <= Len(p))
  BY <1>3, <1>5, PrefixesAre
<1> QED BY <1>4, <1>5

LEMMA NotTheWorkspace ==
  ASSUME NEW name \in Names
  PROVE  Encode(name) # Workspace
BY NameDecodes, WorkspaceAssumption

LEMMA PlainSegment ==
  ASSUME NEW segment \in Segments, ~IsGlob(segment)
  PROVE  segment \in Names
<1>1. segment # Star2
  BY DEF IsGlob, Star2, Range
<1>2. segment \in Seq(Tokens)
  BY <1>1 DEF Segments
<1>3. \A i \in 1..Len(segment) : segment[i] \in Characters
  <2> TAKE i \in 1..Len(segment)
  <2>1. segment[i] \in Tokens /\ segment[i] \in Range(segment)
    BY <1>2 DEF Range
  <2> QED BY <2>1 DEF IsGlob, Tokens
<1>4. segment \in [1..Len(segment) -> Characters] /\ Len(segment) \in Nat
  BY <1>2, <1>3
<1> QED BY <1>4 DEF Names

\* For any pattern, below any root: what single reads do not see listings do
\* not either, but for "/" itself, which a pattern of stars alone hides; and
\* listings hide more only by what a glob fits in an escaped name or in the
\* label of the workspace.
THEOREM ExcludesAlwaysAgree ==
  ASSUME NEW p \in [anchored : BOOLEAN, segments : Seq(Segments) \ {<<>>}],
         NEW root \in Seq(Names), NEW paths \in SUBSET Seq(Names)
  PROVE  ExcludesAgree(p, root, paths)
<1> DEFINE Js(path) == JsExcluded(p, root, path)
           Sql(path) == SqlExcluded(p, root, path)
           Whole(path) == path = <<>> /\ \A i \in DOMAIN p.segments : Range(p.segments[i]) \subseteq {"*", "**"}
           Escaped(path) == \E name \in Range(path) : Encode(name) # name
           OfWorkspace == Bucket(p) = "segment" /\ SqlSegment(p.segments[1], Workspace)
<1> SUFFICES ASSUME NEW path \in Seq(Names)
             PROVE  /\ Js(path) => (Sql(path) \/ Whole(path))
                    /\ Sql(path) /\ ~Js(path) => Escaped(path) \/ OfWorkspace
  BY DEF ExcludesAgree
<1> DEFINE n == Len(p.segments)
<1>1. p.segments \in Seq(Segments) /\ n \in Nat \ {0}
  OBVIOUS
<1>2. \A name \in Range(path) : name \in Names
  BY DEF Range
<1>3. Range(Ltree(path)) = {Workspace} \cup {Encode(name) : name \in Range(path)}
  BY LabelsOf
<1>4. Bucket(p) \in {"label", "prefix", "segment", "path"}
  BY DEF Bucket
<1>5. CASE Bucket(p) = "label"
  <2> DEFINE segment == Last(p.segments)
  <2>1. segment \in Names
    <3>1. (n = 1 /\ ~IsGlob(p.segments[1])) \/ (n = 2 /\ ~IsGlob(p.segments[2]))
      <4> SUFFICES ASSUME ~(n = 1 /\ ~IsGlob(p.segments[1])) PROVE n = 2 /\ ~IsGlob(p.segments[2])
        OBVIOUS
      <4> QED BY <1>5 DEF Bucket
    <3>2. segment = p.segments[n] /\ p.segments[n] \in Segments /\ ~IsGlob(p.segments[n])
      BY <1>1, <3>1 DEF Last
    <3> QED BY <3>2, PlainSegment
  <2>2. Js(path) <=> segment \in Range(path)
    BY <1>5 DEF JsExcluded
  <2>3. Sql(path) <=> Encode(segment) \in Range(Ltree(path))
    BY <1>5 DEF SqlExcluded
  <2> HIDE DEF segment
  <2>4. Encode(segment) \in Range(Ltree(path)) <=> segment \in Range(path)
    <3>1. Encode(segment) # Workspace
      BY <2>1, NotTheWorkspace
    <3>2. \A name \in Range(path) : Encode(segment) = Encode(name) => segment = name
      BY <1>2, <2>1, NameDecodes
    <3> QED BY <1>3, <3>1, <3>2
  <2> QED BY <2>2, <2>3, <2>4
<1>6. CASE Bucket(p) = "prefix"
  <2> DEFINE below == ToInternal(root, p.segments)
  <2>1. n = 1 /\ ~IsGlob(p.segments[1])
    BY <1>6 DEF Bucket
  <2>2. p.segments \in Seq(Names)
    <3>1. p.segments[1] \in Segments
      BY <1>1, <2>1
    <3>2. p.segments[1] \in Names
      BY <2>1, <3>1, PlainSegment
    <3>3. \A i \in 1..n : p.segments[i] \in Names
      BY <2>1, <3>2
    <3>4. p.segments \in [1..n -> Names]
      BY <1>1, <3>3
    <3> QED BY <1>1, <3>4
  <2>3. below \in Seq(Names)
    BY <2>2 DEF ToInternal
  <2>4. (Js(path) <=> IsPrefix(below, path)) /\ (Sql(path) <=> IsPrefix(Ltree(below), Ltree(path)))
    BY <1>6 DEF JsExcluded, SqlExcluded
  <2> HIDE DEF below
  <2>5. IsPrefix(Ltree(below), Ltree(path)) <=> IsPrefix(below, path)
    BY <2>3, PrefixOfLtree
  <2> QED BY <2>4, <2>5
<1>7. CASE Bucket(p) = "segment"
  <2> DEFINE segment == p.segments[1]
  <2>1. segment \in Seq(Tokens)
    <3>1. segment # Star2
      BY <1>7 DEF Bucket
    <3>2. segment \in Segments
      BY <1>1
    <3> QED BY <3>1, <3>2 DEF Segments
  <2>2. Js(path) <=> \E name \in Range(path) : JsSegment(segment, name)
    BY <1>7 DEF JsExcluded
  <2>3. Sql(path) <=> \E word \in Range(Ltree(path)) : SqlSegment(segment, word)
    BY <1>7 DEF SqlExcluded
  <2>4. OfWorkspace <=> SqlSegment(segment, Workspace)
    BY <1>7
  <2> HIDE DEF segment, OfWorkspace, Js, Sql
  <2>5. ASSUME NEW name \in Range(path), JsSegment(segment, name) PROVE Sql(path)
    BY <1>2, <1>3, <2>1, <2>3, <2>5, SegmentSql
  <2>6. ASSUME NEW name \in Range(path), SqlSegment(segment, Encode(name)), Encode(name) = name
        PROVE  Js(path)
    BY <1>2, <2>1, <2>2, <2>6, SegmentJs
  <2> QED BY <1>3, <2>2, <2>3, <2>4, <2>5, <2>6
<1>8. CASE Bucket(p) = "path"
  <2>1. (Js(path) <=> JsFullPath(p, root, path)) /\ (Sql(path) <=> SqlFullPath(p, root, path))
    BY <1>8 DEF JsExcluded, SqlExcluded
  <2> HIDE DEF Js, Sql
  <2> QED BY <2>1, PathsAgree
<1> QED BY <1>4, <1>5, <1>6, <1>7, <1>8

-----------------------------------------------------------------------------
(* glob(): the expression goes through a path name by name as long as the  *)
(* pattern has no "**".                                                    *)

\* Where the i-th name starts, if a "/" is written before those in cuts.
Start(cuts, at, i) == IF i \in cuts THEN at[i - 1] + 1 ELSE at[i - 1]
LaidOut(names, cuts, whole, at) ==
  /\ at \in [0..Len(names) -> Nat] /\ at[0] = 0 /\ at[Len(names)] = Len(whole)
  /\ \A i \in 1..Len(names) :
       /\ at[i] = Start(cuts, at, i) + Len(names[i]) /\ at[i] <= Len(whole)
       /\ \A k \in 1..Len(names[i]) : whole[Start(cuts, at, i) + k] = names[i][k]
       /\ i \in cuts => whole[at[i - 1] + 1] = "/"

LEMMA Slashed ==
  ASSUME NEW S, NEW name \in Seq(S)
  PROVE  LET whole == <<"/">> \o name
         IN /\ whole \in Seq(S \cup {"/"}) /\ Len(whole) = 1 + Len(name) /\ whole[1] = "/"
            /\ Len(name) \in Nat /\ \A k \in 1..Len(name) : whole[1 + k] = name[k]
<1> DEFINE C == S \cup {"/"}
           one == <<"/">>
<1>0. one \in Seq(C) /\ name \in Seq(C)
  OBVIOUS
<1>1. Len(one) = 1 /\ one[1] = "/" /\ Len(name) \in Nat /\ 1 \in 1..1
  OBVIOUS
<1> HIDE DEF C, one
<1>2. one \o name \in Seq(C) /\ Len(one \o name) = Len(one) + Len(name)
  BY <1>0, Concats
<1>3. \A k \in 1..Len(one) : (one \o name)[k] = one[k]
  BY <1>0, Concats
<1>4. \A k \in 1..Len(name) : (one \o name)[Len(one) + k] = name[k]
  BY <1>0, Concats
<1>5. (one \o name)[1] = "/"
  BY <1>1, <1>3
<1> QED BY <1>1, <1>2, <1>4, <1>5 DEF C, one

LEMMA PartIs ==
  ASSUME NEW S, NEW text \in Seq(S), NEW i \in 0..Len(text), NEW j \in i..Len(text)
  PROVE  /\ Part(text, <<i, j>>) \in Seq(S) /\ Len(Part(text, <<i, j>>)) = j - i
         /\ \A k \in 1..j - i : Part(text, <<i, j>>)[k] = text[i + k]
BY DEF Part

LEMMA JoinedLaid ==
  ASSUME NEW S, NEW names \in Seq(Seq(S)), NEW cuts
  PROVE  /\ Joined(names, cuts) \in Seq(S \cup {"/"})
         /\ \E at : LaidOut(names, cuts, Joined(names, cuts), at)
<1> DEFINE parts == [i \in 1..Len(names) |-> IF i \in cuts THEN <<"/">> \o names[i] ELSE names[i]]
           whole == Joined(names, cuts)
           C == S \cup {"/"}
<1>1. whole = FlattenSeq(parts)
  BY DEF Joined
<1>2. Len(parts) = Len(names) /\ Len(names) \in Nat
      /\ \A i \in 1..Len(names) : parts[i] = IF i \in cuts THEN <<"/">> \o names[i] ELSE names[i]
  OBVIOUS
<1>3. ASSUME NEW i \in 1..Len(names)
      PROVE  /\ parts[i] \in Seq(C) /\ Len(names[i]) \in Nat
             /\ i \in cuts => /\ Len(parts[i]) = 1 + Len(names[i]) /\ parts[i][1] = "/"
                              /\ \A k \in 1..Len(names[i]) : parts[i][1 + k] = names[i][k]
             /\ i \notin cuts => parts[i] = names[i]
  <2>1. names[i] \in Seq(S) /\ names[i] \in Seq(C)
    OBVIOUS
  <2> DEFINE name == names[i]
             whole1 == <<"/">> \o name
  <2>2. parts[i] = IF i \in cuts THEN whole1 ELSE name
    BY <1>2
  <2> HIDE DEF parts
  <2>3. /\ whole1 \in Seq(C) /\ Len(whole1) = 1 + Len(name) /\ whole1[1] = "/" /\ Len(name) \in Nat
        /\ \A k \in 1..Len(name) : whole1[1 + k] = name[k]
    BY <2>1, Slashed
  <2> HIDE DEF whole1, name, C
  <2>4. name \in Seq(C)
    BY <2>1 DEF name
  <2> QED BY <2>2, <2>3, <2>4 DEF name
<1>4. parts \in Seq(Seq(C))
  <2>1. parts = [i \in 1..Len(names) |-> parts[i]] /\ \A i \in 1..Len(names) : parts[i] \in Seq(C)
    BY <1>3
  <2> HIDE DEF parts
  <2> QED BY <1>2, <2>1
<1> HIDE DEF parts, whole, C
<1>5. whole \in Seq(C)
  BY <1>1, <1>4, FlattenLaid
<1>6. PICK at : Laid(parts, whole, at)
  BY <1>1, <1>4, FlattenLaid
<1>7. ASSUME NEW i \in 1..Len(names)
      PROVE  /\ at[i] = Start(cuts, at, i) + Len(names[i]) /\ at[i] <= Len(whole)
             /\ \A k \in 1..Len(names[i]) : whole[Start(cuts, at, i) + k] = names[i][k]
             /\ i \in cuts => whole[at[i - 1] + 1] = "/"
  <2>1. /\ at[i] = at[i - 1] + Len(parts[i]) /\ at[i] <= Len(whole) /\ at[i - 1] \in Nat
        /\ \A k \in 1..Len(parts[i]) : whole[at[i - 1] + k] = parts[i][k]
    BY <1>2, <1>6 DEF Laid
  <2>2. CASE i \in cuts
    <3>1. /\ Len(parts[i]) = 1 + Len(names[i]) /\ parts[i][1] = "/" /\ Len(names[i]) \in Nat
          /\ \A k \in 1..Len(names[i]) : parts[i][1 + k] = names[i][k]
      BY <1>3, <2>2
    <3>2. Start(cuts, at, i) = at[i - 1] + 1
      BY <2>2 DEF Start
    <3>3. at[i] = at[i - 1] + 1 + Len(names[i]) /\ whole[at[i - 1] + 1] = "/"
      <4>1. 1 \in 1..Len(parts[i])
        <5>1. \A n \in Nat : 1 \in 1..1 + n
          OBVIOUS
        <5> QED BY <3>1, <5>1
      <4>2. whole[at[i - 1] + 1] = "/"
        BY <2>1, <3>1, <4>1
      <4>3. at[i] = at[i - 1] + (1 + Len(names[i]))
        BY <2>1, <3>1
      <4>4. \A m, n \in Nat : m + (1 + n) = m + 1 + n
        OBVIOUS
      <4> QED BY <2>1, <3>1, <4>2, <4>3, <4>4
    <3>4. ASSUME NEW k \in 1..Len(names[i]) PROVE whole[at[i - 1] + 1 + k] = names[i][k]
      <4>1. 1 + k \in 1..Len(parts[i]) /\ at[i - 1] + (1 + k) = at[i - 1] + 1 + k
        <5>1. \A n \in Nat, s \in Nat : \A l \in 1..n : 1 + l \in 1..1 + n /\ s + (1 + l) = s + 1 + l
          OBVIOUS
        <5> QED BY <2>1, <3>1, <5>1
      <4>2. whole[at[i - 1] + (1 + k)] = parts[i][1 + k]
        BY <2>1, <4>1
      <4> QED BY <3>1, <4>1, <4>2
    <3> QED BY <2>1, <3>2, <3>3, <3>4
  <2>3. CASE i \notin cuts
    <3>1. parts[i] = names[i] /\ Start(cuts, at, i) = at[i - 1]
      BY <1>3, <2>3 DEF Start
    <3> QED BY <2>1, <2>3, <3>1
  <2> QED BY <2>2, <2>3
<1>8. LaidOut(names, cuts, whole, at)
  BY <1>2, <1>6, <1>7 DEF LaidOut, Laid
<1> QED BY <1>5, <1>8 DEF whole, C

\* What each token takes of a text.
LEMMA GlobFitsIs ==
  ASSUME NEW text \in Seq(Letters \cup {"/"}), NEW i, NEW j, NEW t, <<i, j>> \in GlobFits(t, text)
  PROVE  /\ i \in 0..Len(text) /\ j \in 0..Len(text) /\ i <= j
         /\ t \in GlobTokens => \A p \in i + 1..j : text[p] # "/"
         /\ t \notin {"*", "?", "**"} => j = i + 1 /\ text[j] = t
<1>1. Len(text) \in Nat /\ <<i, j>> \in Spans(text)
  BY DEF GlobFits
<1>2. i \in 0..Len(text) /\ j \in 0..Len(text) /\ i <= j
  BY <1>1, SpansAre
<1> DEFINE part == Part(text, <<i, j>>)
<1>3. part \in Seq(Letters \cup {"/"}) /\ Len(part) = j - i /\ \A k \in 1..j - i : part[k] = text[i + k]
  BY <1>2, PartIs
<1> HIDE DEF part
<1>4. \A p \in i + 1..j : p - i \in 1..Len(part) /\ part[p - i] = text[p]
  <2>1. \A p \in i + 1..j : p - i \in 1..j - i /\ i + (p - i) = p
    BY <1>1, <1>2
  <2> QED BY <1>3, <2>1
<1>5. ASSUME t \notin {"*", "?", "**"} PROVE j = i + 1 /\ text[j] = t
  <2>1. part = <<t>>
    BY <1>5 DEF GlobFits, part
  <2>2. Len(part) = 1 /\ part[1] = t
    BY <2>1
  <2>3. j = i + 1
    <3>1. i \in Nat /\ j \in Nat
      BY <1>1, <1>2
    <3>2. j - i = 1
      BY <1>3, <2>2
    <3> QED BY <3>1, <3>2
  <2>4. j \in i + 1..j /\ j - i = 1
    BY <1>2, <2>3
  <2>5. part[j - i] = text[j]
    BY <1>4, <2>4
  <2> QED BY <2>2, <2>3, <2>4, <2>5
<1>6. ASSUME t \in GlobTokens, NEW p \in i + 1..j PROVE text[p] # "/"
  <2>1. t # "**"
    BY <1>6 DEF GlobTokens, Letters
  <2>2. CASE t = "*"
    <3>1. "/" \notin Range(part)
      BY <2>2 DEF GlobFits, part
    <3>2. p - i \in DOMAIN part /\ part[p - i] = text[p]
      BY <1>3, <1>4
    <3> QED BY <3>1, <3>2 DEF Range
  <2>3. CASE t = "?"
    <3>1. j = i + 1 /\ text[j] # "/"
      BY <2>3 DEF GlobFits
    <3>2. p = j
      BY <1>2, <3>1
    <3> QED BY <3>1, <3>2
  <2>4. CASE t \notin {"*", "?", "**"}
    <3>1. j = i + 1 /\ text[j] = t /\ t # "/"
      BY <1>5, <1>6, <2>4 DEF GlobTokens, Letters
    <3>2. p = j
      BY <1>2, <3>1
    <3> QED BY <3>1, <3>2
  <2> QED BY <2>1, <2>2, <2>3, <2>4
<1> QED BY <1>2, <1>5, <1>6

\* A pattern and a path, each written out, and places up to which the tokens of
\* the pattern take the path.
Starred(segment) == "**" \in Range(segment)
Slashes(pattern) == {i \in 2..Len(pattern) : Last(pattern[i - 1]) # "**"}
Placed(pattern, path, glob, text, a, b, cut) ==
  /\ pattern \in Seq(GlobSegments) \ {<<>>} /\ path \in Seq(FileNames) \ {<<>>}
  /\ text \in Seq(Letters \cup {"/"}) /\ Len(glob) \in Nat
  /\ LaidOut(pattern, Slashes(pattern), glob, a)
  /\ LaidOut(path, 2..Len(path), text, b)
  /\ Through(cut, [i \in 1..Len(glob) |-> GlobFits(glob[i], text)], Len(text))

LEMMA Unstarred ==
  ASSUME NEW segment \in GlobSegments
  PROVE  /\ segment \in Seq(GlobTokens \cup {"**"}) /\ Len(segment) \in Nat \ {0}
         /\ ~Starred(segment) => segment \in Seq(GlobTokens) /\ Last(segment) # "**"
         /\ ~IsGlob(segment) => ~Starred(segment)
<1>1. segment \in Seq(GlobTokens \cup {"**"}) /\ segment # <<>>
  BY DEF GlobSegments
<1>2. Len(segment) \in Nat \ {0} /\ segment = [i \in 1..Len(segment) |-> segment[i]]
      /\ \A i \in 1..Len(segment) : segment[i] \in GlobTokens \cup {"**"} /\ segment[i] \in Range(segment)
  BY <1>1 DEF Range
<1>3. ASSUME ~Starred(segment) PROVE segment \in Seq(GlobTokens) /\ Last(segment) # "**"
  <2>1. \A i \in 1..Len(segment) : segment[i] \in GlobTokens /\ segment[i] # "**"
    BY <1>2, <1>3 DEF Starred
  <2>2. Len(segment) \in 1..Len(segment)
    BY <1>2
  <2> QED BY <1>2, <2>1, <2>2 DEF Last
<1>4. ~IsGlob(segment) => ~Starred(segment)
  BY DEF IsGlob, Starred
<1> QED BY <1>1, <1>2, <1>3, <1>4

LEMMA GlobStep ==
  ASSUME NEW pattern, NEW path, NEW glob, NEW text, NEW a, NEW b, NEW cut,
         Placed(pattern, path, glob, text, a, b, cut), NEW i \in 1..Len(glob)
  PROVE  /\ cut[i - 1] \in 0..Len(text) /\ cut[i] \in 0..Len(text) /\ cut[i - 1] <= cut[i]
         /\ glob[i] \in GlobTokens => \A p \in cut[i - 1] + 1..cut[i] : text[p] # "/"
         /\ glob[i] \notin {"*", "?", "**"} => cut[i] = cut[i - 1] + 1 /\ text[cut[i]] = glob[i]
<1> DEFINE fits == [l \in 1..Len(glob) |-> GlobFits(glob[l], text)]
<1>1. Through(cut, fits, Len(text)) /\ text \in Seq(Letters \cup {"/"}) /\ Len(glob) \in Nat
  BY DEF Placed
<1>2. Len(fits) = Len(glob) /\ fits[i] = GlobFits(glob[i], text)
  BY <1>1
<1> HIDE DEF fits
<1>3. <<cut[i - 1], cut[i]>> \in GlobFits(glob[i], text)
  BY <1>1, <1>2 DEF Through
<1> QED BY <1>1, <1>3, GlobFitsIs

\* The tokens of a segment, and where they are.
LEMMA SegmentAt ==
  ASSUME NEW pattern, NEW path, NEW glob, NEW text, NEW a, NEW b, NEW cut,
         Placed(pattern, path, glob, text, a, b, cut),
         NEW k \in 1..Len(pattern), ~Starred(pattern[k]), NEW r, r = Start(Slashes(pattern), a, k)
  PROVE  /\ Len(pattern[k]) \in Nat /\ r \in Nat /\ a[k] = r + Len(pattern[k])
         /\ a[k] <= Len(glob) /\ Len(glob) \in Nat
         /\ \A j \in 1..Len(pattern[k]) : glob[r + j] = pattern[k][j] /\ pattern[k][j] \in GlobTokens
         /\ k = Len(pattern) => a[k] = Len(glob)
<1>1. Len(pattern[k]) \in Nat /\ \A j \in 1..Len(pattern[k]) : pattern[k][j] \in GlobTokens
  <2> DEFINE segment == pattern[k]
  <2>1. segment \in GlobSegments
    BY DEF Placed
  <2>2. ~Starred(segment)
    OBVIOUS
  <2> HIDE DEF segment
  <2>3. segment \in Seq(GlobTokens)
    BY <2>1, <2>2, Unstarred
  <2>4. Len(segment) \in Nat /\ \A j \in 1..Len(segment) : segment[j] \in GlobTokens
    BY <2>3
  <2> QED BY <2>4 DEF segment
<1>2. Len(pattern) \in Nat /\ a[k - 1] \in Nat /\ Len(glob) \in Nat
  <2>1. Len(pattern) \in Nat /\ Len(glob) \in Nat /\ a \in [0..Len(pattern) -> Nat]
    BY DEF Placed, LaidOut
  <2>2. k - 1 \in 0..Len(pattern)
    BY <2>1
  <2> QED BY <2>1, <2>2
<1>3. r \in Nat
  BY <1>2 DEF Start
<1>4. /\ a[k] = r + Len(pattern[k]) /\ a[k] <= Len(glob)
      /\ \A j \in 1..Len(pattern[k]) : glob[r + j] = pattern[k][j]
      /\ k = Len(pattern) => a[k] = Len(glob)
  BY DEF Placed, LaidOut
<1> QED BY <1>1, <1>2, <1>3, <1>4

\* Where the k-th name is.
LEMMA NameAt ==
  ASSUME NEW pattern, NEW path, NEW glob, NEW text, NEW a, NEW b, NEW cut,
         Placed(pattern, path, glob, text, a, b, cut),
         NEW k \in 1..Len(path), NEW s, s = Start(2..Len(path), b, k)
  PROVE  /\ Len(path[k]) \in Nat /\ s \in Nat /\ b[k] = s + Len(path[k])
         /\ b[k] <= Len(text) /\ Len(text) \in Nat
         /\ \A j \in 1..Len(path[k]) : text[s + j] = path[k][j]
         /\ \A p \in s + 1..b[k] : text[p] # "/"
         /\ k = Len(path) => b[k] = Len(text)
         /\ k < Len(path) => /\ k + 1 \in 1..Len(path) /\ text[b[k] + 1] = "/" /\ b[k] + 1 <= Len(text)
                             /\ Start(2..Len(path), b, k + 1) = b[k] + 1
<1>1. path[k] \in FileNames /\ path[k] \in Seq(Letters)
  BY DEF Placed, FileNames
<1>2. Len(path) \in Nat /\ b[k - 1] \in Nat /\ Len(text) \in Nat /\ b \in [0..Len(path) -> Nat]
  <2>1. Len(path) \in Nat /\ Len(text) \in Nat /\ b \in [0..Len(path) -> Nat]
    BY DEF Placed, LaidOut
  <2>2. k - 1 \in 0..Len(path)
    BY <2>1
  <2> QED BY <2>1, <2>2
<1>3. s \in Nat
  BY <1>2 DEF Start
<1>4. /\ b[k] = s + Len(path[k]) /\ b[k] <= Len(text)
      /\ \A j \in 1..Len(path[k]) : text[s + j] = path[k][j]
      /\ k = Len(path) => b[k] = Len(text)
  BY DEF Placed, LaidOut
<1>5. ASSUME NEW p \in s + 1..b[k] PROVE text[p] # "/"
  <2>1. Len(path[k]) \in Nat
    BY <1>1
  <2>2. p - s \in 1..Len(path[k]) /\ s + (p - s) = p
    BY <1>3, <1>4, <2>1
  <2>3. text[p] = path[k][p - s]
    BY <1>4, <2>2
  <2>4. path[k][p - s] \in Letters
    BY <1>1, <2>2
  <2> QED BY <2>3, <2>4 DEF Letters
<1>6. ASSUME k < Len(path)
      PROVE  /\ k + 1 \in 1..Len(path) /\ text[b[k] + 1] = "/" /\ b[k] + 1 <= Len(text)
             /\ Start(2..Len(path), b, k + 1) = b[k] + 1
  <2>1. k + 1 \in 1..Len(path) /\ k + 1 \in 2..Len(path) /\ (k + 1) - 1 = k
    BY <1>2, <1>6
  <2>2. Start(2..Len(path), b, k + 1) = b[k] + 1
    BY <2>1 DEF Start
  <2>3. text[b[k] + 1] = "/" /\ b[k + 1] = b[k] + 1 + Len(path[k + 1]) /\ b[k + 1] <= Len(text)
    BY <2>1, <2>2 DEF Placed, LaidOut
  <2>4. Len(path[k + 1]) \in Nat /\ b[k] \in Nat
    <3>1. path[k + 1] \in FileNames /\ k \in 0..Len(path)
      BY <2>1 DEF Placed
    <3> QED BY <1>2, <3>1 DEF FileNames
  <2>5. b[k] + 1 <= Len(text)
    BY <1>2, <2>3, <2>4
  <2> QED BY <2>1, <2>2, <2>3, <2>5
<1> QED BY <1>1, <1>2, <1>3, <1>4, <1>5, <1>6

\* No token of a segment takes a "/".
LEMMA Within ==
  ASSUME NEW pattern, NEW path, NEW glob, NEW text, NEW a, NEW b, NEW cut,
         Placed(pattern, path, glob, text, a, b, cut),
         NEW k \in 1..Len(pattern), ~Starred(pattern[k]), NEW r, r = Start(Slashes(pattern), a, k)
  PROVE  /\ cut[r] \in 0..Len(text) /\ cut[a[k]] \in 0..Len(text) /\ cut[r] <= cut[a[k]]
         /\ \A p \in cut[r] + 1..cut[a[k]] : text[p] # "/"
<1> DEFINE n == Len(pattern[k])
           Apart(l) == /\ cut[r + l] \in 0..Len(text) /\ cut[r] <= cut[r + l]
                       /\ \A p \in cut[r] + 1..cut[r + l] : text[p] # "/"
           B == {l \in 0..n : ~ Apart(l)}
<1>1. /\ n \in Nat /\ r \in Nat /\ a[k] = r + n /\ a[k] <= Len(glob) /\ Len(glob) \in Nat
      /\ \A j \in 1..n : glob[r + j] \in GlobTokens
  BY SegmentAt
<1>2. cut \in [0..Len(glob) -> 0..Len(text)] /\ Len(text) \in Nat
  BY DEF Placed, Through
<1>3. Apart(0)
  <2>1. r \in 0..Len(glob) /\ r + 0 = r
    BY <1>1
  <2> QED BY <1>2, <2>1
<1>4. B = {}
  <2> SUFFICES ASSUME B # {} PROVE FALSE
    OBVIOUS
  <2>1. PICK l \in B : \A j \in B : l <= j
    <3>1. B \subseteq Nat
      BY <1>1
    <3> HIDE DEF B
    <3> QED BY <3>1, NatMinimum
  <2>2. l \in 0..n /\ ~ Apart(l)
    OBVIOUS
  <2>3. l # 0
    BY <1>3, <2>2
  <2>4. l - 1 \in 0..n /\ l \in 1..n /\ ~(l <= l - 1) /\ r + l \in 1..Len(glob)
        /\ r + (l - 1) = (r + l) - 1
    BY <1>1, <2>2, <2>3
  <2>5. Apart(l - 1)
    BY <2>1, <2>4
  <2>6. /\ cut[(r + l) - 1] \in 0..Len(text) /\ cut[r + l] \in 0..Len(text)
        /\ cut[(r + l) - 1] <= cut[r + l]
        /\ \A p \in cut[(r + l) - 1] + 1..cut[r + l] : text[p] # "/"
    <3>1. glob[r + l] \in GlobTokens
      BY <1>1, <2>4
    <3> DEFINE i == r + l
    <3>2. i \in 1..Len(glob) /\ glob[i] \in GlobTokens
      BY <2>4, <3>1
    <3> HIDE DEF i
    <3>3. /\ cut[i - 1] \in 0..Len(text) /\ cut[i] \in 0..Len(text) /\ cut[i - 1] <= cut[i]
          /\ \A p \in cut[i - 1] + 1..cut[i] : text[p] # "/"
      BY <3>2, GlobStep
    <3> QED BY <3>3 DEF i
  <2> DEFINE u == cut[r]
             v == cut[(r + l) - 1]
             w == cut[r + l]
  <2>7. u <= v /\ (\A p \in u + 1..v : text[p] # "/")
    BY <2>4, <2>5
  <2>8. u \in Nat /\ v \in Nat /\ w \in Nat /\ v <= w /\ w \in 0..Len(text)
        /\ \A p \in v + 1..w : text[p] # "/"
    <3>1. r \in 0..Len(glob)
      BY <1>1
    <3> QED BY <1>2, <2>6, <3>1
  <2> HIDE DEF u, v, w, B
  <2>9. u <= w /\ \A p \in u + 1..w : p \in u + 1..v \/ p \in v + 1..w
    BY <2>7, <2>8
  <2>10. \A p \in u + 1..w : text[p] # "/"
    BY <2>7, <2>8, <2>9
  <2>11. Apart(l)
    BY <2>8, <2>9, <2>10 DEF u, w
  <2> QED BY <2>2, <2>11
<1>5. Apart(n) /\ cut[r] \in 0..Len(text)
  <2>1. n \in 0..n /\ r \in 0..Len(glob)
    BY <1>1
  <2> QED BY <1>2, <1>4, <2>1
<1> HIDE DEF n
<1> QED BY <1>1, <1>5

\* A segment that starts where a name does ends where it does.
LEMMA SegmentTakesName ==
  ASSUME NEW pattern, NEW path, NEW glob, NEW text, NEW a, NEW b, NEW cut,
         Placed(pattern, path, glob, text, a, b, cut),
         NEW k \in 1..Len(pattern), ~Starred(pattern[k]), k \in 1..Len(path),
         cut[Start(Slashes(pattern), a, k)] = Start(2..Len(path), b, k)
  PROVE  /\ cut[a[k]] = b[k]
         /\ k = Len(pattern) => k = Len(path)
         /\ k < Len(pattern) => /\ k + 1 \in 1..Len(path)
                                /\ cut[Start(Slashes(pattern), a, k + 1)] = Start(2..Len(path), b, k + 1)
<1> DEFINE r == Start(Slashes(pattern), a, k)
           s == Start(2..Len(path), b, k)
           T == Len(text)
<1>1. /\ s \in Nat /\ b[k] = s + Len(path[k]) /\ Len(path[k]) \in Nat /\ b[k] <= T /\ T \in Nat
      /\ \A p \in s + 1..b[k] : text[p] # "/"
      /\ k = Len(path) => b[k] = T
      /\ k < Len(path) => /\ k + 1 \in 1..Len(path) /\ text[b[k] + 1] = "/" /\ b[k] + 1 <= T
                          /\ Start(2..Len(path), b, k + 1) = b[k] + 1
  BY NameAt
<1>2. cut[a[k]] \in 0..T /\ s <= cut[a[k]] /\ \A p \in s + 1..cut[a[k]] : text[p] # "/"
  BY Within
<1>3. a[k] \in 0..Len(glob) /\ Len(glob) \in Nat /\ (k = Len(pattern) => a[k] = Len(glob))
  BY SegmentAt
<1>4. Len(path) \in Nat /\ Len(pattern) \in Nat /\ k \in Nat
  BY DEF Placed
<1> DEFINE e == cut[a[k]]
<1>5. e \in Nat /\ b[k] \in Nat
  BY <1>1, <1>2
<1>6. k = Len(path) \/ k < Len(path)
  BY <1>4
<1>7. e <= b[k]
  <2> SUFFICES ASSUME e > b[k] PROVE FALSE
    BY <1>5
  <2>1. k < Len(path)
    <3>1. CASE k = Len(path)
      <4>1. b[k] = T
        BY <1>1, <3>1
      <4> QED BY <1>1, <1>2, <4>1
    <3> QED BY <1>6, <3>1
  <2>2. text[b[k] + 1] = "/"
    BY <1>1, <2>1
  <2>3. b[k] + 1 \in s + 1..e
    BY <1>1, <1>5
  <2> QED BY <1>2, <2>2, <2>3
<1>8. CASE k = Len(pattern)
  <2>1. e = T
    BY <1>3, <1>8 DEF Placed, Through
  <2>2. b[k] = T
    BY <1>1, <1>7, <2>1
  <2>3. ~(k < Len(path))
    BY <1>1, <2>2
  <2> QED BY <1>4, <1>6, <1>8, <2>1, <2>2, <2>3
<1>9. CASE k < Len(pattern)
  <2>1. k + 1 \in 1..Len(pattern) /\ k + 1 \in Slashes(pattern) /\ (k + 1) - 1 = k
    <3>1. k + 1 \in 2..Len(pattern) /\ (k + 1) - 1 = k
      BY <1>4, <1>9
    <3>2. pattern[k] \in GlobSegments
      BY DEF Placed
    <3>3. Last(pattern[k]) # "**"
      BY <3>2, Unstarred
    <3> QED BY <3>1, <3>3 DEF Slashes
  <2>2. Start(Slashes(pattern), a, k + 1) = a[k] + 1
    BY <2>1 DEF Start
  <2>3. glob[a[k] + 1] = "/" /\ a[k + 1] <= Len(glob) /\ a[k + 1] = a[k] + 1 + Len(pattern[k + 1])
    BY <2>1, <2>2 DEF Placed, LaidOut
  <2>4. Len(pattern[k + 1]) \in Nat
    <3>1. pattern[k + 1] \in GlobSegments
      BY <2>1 DEF Placed
    <3> QED BY <3>1, Unstarred
  <2>5. a[k] + 1 \in 1..Len(glob) /\ (a[k] + 1) - 1 = a[k]
    <3>1. \A m, n \in Nat : m \in Nat /\ (m + 1) - 1 = m /\ m + 1 <= m + 1 + n
      OBVIOUS
    <3>2. a[k] \in Nat /\ a[k] + 1 + Len(pattern[k + 1]) <= Len(glob)
      BY <1>3, <2>3
    <3>3. a[k] + 1 <= a[k] + 1 + Len(pattern[k + 1]) /\ (a[k] + 1) - 1 = a[k]
      BY <2>4, <3>1, <3>2
    <3> QED BY <1>3, <2>4, <3>2, <3>3
  <2>6. cut[a[k] + 1] = e + 1 /\ text[cut[a[k] + 1]] = "/" /\ cut[a[k] + 1] \in 0..T
    <3> DEFINE i == a[k] + 1
    <3>1. i \in 1..Len(glob) /\ glob[i] = "/" /\ cut[i - 1] = e
      BY <2>3, <2>5
    <3>3. glob[i] \notin {"*", "?", "**"}
      <4> HIDE DEF i
      <4> QED BY <3>1
    <3> HIDE DEF i, e, T
    <3>4. i \in 1..Len(glob)
      BY <3>1
    <3>2. cut[i] = cut[i - 1] + 1 /\ text[cut[i]] = glob[i]
      BY <3>3, <3>4, GlobStep
    <3>5. cut[i] \in 0..Len(text)
      BY <3>4, GlobStep
    <3> QED BY <3>1, <3>2, <3>5 DEF i, T
  <2>7. text[e + 1] = "/" /\ e + 1 <= T
    BY <1>1, <2>6
  <2>8. e = b[k]
    <3> SUFFICES ASSUME e < b[k] PROVE FALSE
      BY <1>5, <1>7
    <3>1. e + 1 \in s + 1..b[k]
      BY <1>1, <1>2, <1>5
    <3> QED BY <1>1, <2>7, <3>1
  <2>9. k < Len(path)
    <3>1. CASE k = Len(path)
      BY <1>1, <1>5, <2>7, <2>8, <3>1
    <3> QED BY <1>6, <3>1
  <2> QED BY <1>1, <1>4, <1>9, <2>2, <2>6, <2>8, <2>9
<1> QED BY <1>4, <1>8, <1>9

\* As long as there is no "**", each segment takes one name.
LEMMA SegmentsLead ==
  ASSUME NEW pattern, NEW path, NEW glob, NEW text, NEW a, NEW b, NEW cut,
         Placed(pattern, path, glob, text, a, b, cut),
         NEW k \in 1..Len(pattern), \A i \in 1..k : ~Starred(pattern[i])
  PROVE  /\ k \in 1..Len(path) /\ cut[Start(Slashes(pattern), a, k)] = Start(2..Len(path), b, k)
         /\ cut[a[k]] = b[k] /\ (k = Len(pattern) => k = Len(path))
<1> DEFINE Led(i) == i \in 1..Len(path) /\ cut[Start(Slashes(pattern), a, i)] = Start(2..Len(path), b, i)
           B == {i \in 1..k : ~ Led(i)}
<1>1. Len(pattern) \in Nat /\ Len(path) \in Nat /\ Len(path) # 0 /\ k \in Nat
  BY DEF Placed
<1>2. Led(1)
  <2>1. 1 \in 1..Len(path) /\ 1 \notin 2..Len(path) /\ 1 \notin Slashes(pattern) /\ 1 - 1 = 0
    BY <1>1 DEF Slashes
  <2>2. a[0] = 0 /\ b[0] = 0 /\ cut[0] = 0
    BY DEF Placed, LaidOut, Through
  <2> QED BY <2>1, <2>2 DEF Start
<1>3. B = {}
  <2> SUFFICES ASSUME B # {} PROVE FALSE
    OBVIOUS
  <2>1. PICK l \in B : \A i \in B : l <= i
    <3>1. B \subseteq Nat
      OBVIOUS
    <3> HIDE DEF B
    <3> QED BY <3>1, NatMinimum
  <2>2. l \in 1..k /\ ~ Led(l)
    OBVIOUS
  <2>3. l # 1
    BY <1>2, <2>2
  <2>4. l - 1 \in 1..k /\ l - 1 \in 1..Len(pattern) /\ l - 1 < Len(pattern) /\ (l - 1) + 1 = l
        /\ ~(l <= l - 1)
    BY <1>1, <2>2, <2>3
  <2>5. Led(l - 1)
    BY <2>1, <2>4
  <2> DEFINE i == l - 1
  <2>6. i \in 1..Len(pattern) /\ ~Starred(pattern[i]) /\ i < Len(pattern) /\ i \in 1..Len(path)
        /\ cut[Start(Slashes(pattern), a, i)] = Start(2..Len(path), b, i)
    BY <2>4, <2>5
  <2> HIDE DEF i
  <2>7. Led(i + 1)
    BY <2>6, SegmentTakesName
  <2> QED BY <2>2, <2>4, <2>7 DEF i
<1>4. Led(k)
  BY <1>1, <1>3
<1>5. ~Starred(pattern[k])
  BY <1>1
<1> QED BY <1>4, <1>5, SegmentTakesName

\* A segment without a glob is the name it takes.
LEMMA LiteralIsName ==
  ASSUME NEW pattern, NEW path, NEW glob, NEW text, NEW a, NEW b, NEW cut,
         Placed(pattern, path, glob, text, a, b, cut),
         NEW k \in 1..Len(pattern), ~IsGlob(pattern[k]), k \in 1..Len(path),
         cut[Start(Slashes(pattern), a, k)] = Start(2..Len(path), b, k), cut[a[k]] = b[k]
  PROVE  pattern[k] = path[k]
<1> DEFINE r == Start(Slashes(pattern), a, k)
           s == Start(2..Len(path), b, k)
           n == Len(pattern[k])
           B == {j \in 0..n : cut[r + j] # s + j}
<1>1. ~Starred(pattern[k]) /\ pattern[k] \in Seq(GlobTokens)
  <2>1. pattern[k] \in GlobSegments
    BY DEF Placed
  <2> QED BY <2>1, Unstarred
<1>2. /\ n \in Nat /\ r \in Nat /\ a[k] = r + n /\ a[k] <= Len(glob) /\ Len(glob) \in Nat
      /\ \A j \in 1..n : glob[r + j] = pattern[k][j]
  BY <1>1, SegmentAt
<1>3. /\ s \in Nat /\ b[k] = s + Len(path[k]) /\ Len(path[k]) \in Nat
      /\ \A j \in 1..Len(path[k]) : text[s + j] = path[k][j]
  BY NameAt
<1>4. pattern[k] \in Seq(GlobTokens) /\ path[k] \in Seq(Letters)
  BY <1>1 DEF Placed, FileNames
<1>5. \A j \in 1..n : pattern[k][j] \notin {"*", "?", "**"}
  <2>1. Range(pattern[k]) \cap {"*", "?", "**"} = {}
    BY DEF IsGlob
  <2>2. \A j \in 1..n : pattern[k][j] \in Range(pattern[k])
    <3> DEFINE segment == pattern[k]
    <3>1. segment \in Seq(GlobTokens)
      BY <1>4
    <3> HIDE DEF segment
    <3>2. \A j \in 1..Len(segment) : segment[j] \in Range(segment)
      BY <3>1 DEF Range
    <3> QED BY <3>2 DEF segment
  <2> QED BY <2>1, <2>2
<1>6. ASSUME NEW j \in 1..n
      PROVE  cut[r + j] = cut[(r + j) - 1] + 1 /\ text[cut[r + j]] = pattern[k][j]
  <2> DEFINE i == r + j
  <2>1. i \in 1..Len(glob)
    BY <1>2
  <2>2. glob[i] = pattern[k][j] /\ glob[i] \notin {"*", "?", "**"}
    BY <1>2, <1>5
  <2> HIDE DEF i
  <2>3. cut[i] = cut[i - 1] + 1 /\ text[cut[i]] = glob[i]
    BY <2>1, <2>2, GlobStep
  <2> QED BY <2>2, <2>3 DEF i
<1>7. cut[r] = s
  OBVIOUS
<1> HIDE DEF r, s, n
<1>8. B = {}
  <2> SUFFICES ASSUME B # {} PROVE FALSE
    OBVIOUS
  <2>1. PICK l \in B : \A j \in B : l <= j
    <3>1. B \subseteq Nat
      BY <1>2
    <3> HIDE DEF B
    <3> QED BY <3>1, NatMinimum
  <2>2. l \in 0..n /\ cut[r + l] # s + l
    OBVIOUS
  <2>3. l # 0
    BY <1>2, <1>3, <1>7, <2>2
  <2>4. l - 1 \in 0..n /\ l \in 1..n /\ ~(l <= l - 1) /\ (r + l) - 1 = r + (l - 1)
    BY <1>2, <2>2, <2>3
  <2>5. cut[r + (l - 1)] = s + (l - 1)
    BY <2>1, <2>4
  <2>6. cut[r + l] = s + (l - 1) + 1
    BY <1>6, <2>4, <2>5
  <2> HIDE DEF B
  <2>7. s + (l - 1) + 1 = s + l
    BY <1>3, <2>4
  <2> QED BY <2>2, <2>6, <2>7
<1>9. \A j \in 0..n : cut[r + j] = s + j
  BY <1>8
<1> HIDE DEF B
<1>10. Len(path[k]) = n
  <2>1. n \in 0..n
    BY <1>2
  <2>2. s + n = s + Len(path[k])
    BY <1>2, <1>3, <1>9, <2>1
  <2> QED BY <1>2, <1>3, <2>2
<1>11. \A j \in 1..n : pattern[k][j] = path[k][j]
  <2> TAKE j \in 1..n
  <2>1. j \in 0..n
    BY <1>2
  <2>2. text[s + j] = pattern[k][j]
    BY <1>6, <1>9, <2>1
  <2> QED BY <1>3, <1>10, <2>2
<1> QED
  <2>1. pattern[k] = [j \in 1..n |-> pattern[k][j]] /\ path[k] = [j \in 1..n |-> path[k][j]]
    BY <1>4, <1>10 DEF n
  <2> QED BY <1>11, <2>1

LEMMA LiteralPrefixIs ==
  ASSUME NEW pattern, Len(pattern) \in Nat
  PROVE  \E n \in 0..Len(pattern) : /\ LiteralPrefix(pattern) = SubSeq(pattern, 1, n)
                                    /\ \A i \in 1..n : ~IsGlob(pattern[i])
<1> DEFINE m == Len(pattern)
           literal == {n \in 0..m : \A i \in 1..n :
                         ~IsGlob(pattern[i]) /\ pattern[i] \notin {<<".">>, <<".", ".">>}}
           R == {m - n : n \in literal}
<1>1. 0 \in literal
  OBVIOUS
<1>2. R \subseteq Nat /\ R # {}
  BY <1>1
<1>3. PICK d \in R : \A e \in R : d <= e
  <2> HIDE DEF R
  <2> QED BY <1>2, NatMinimum
<1>4. PICK n \in literal : d = m - n
  BY <1>3
<1>5. \A e \in literal : e <= n
  <2> TAKE e \in literal
  <2>1. m - e \in R /\ e \in Nat /\ n \in Nat
    OBVIOUS
  <2>2. m - n <= m - e
    <3> HIDE DEF R
    <3> QED BY <1>3, <1>4, <2>1
  <2> QED BY <2>1, <2>2
<1> DEFINE l == CHOOSE k \in literal : \A e \in literal : e <= k
<1>6. l \in literal
  <2> HIDE DEF literal
  <2> QED BY <1>4, <1>5
<1>7. LiteralPrefix(pattern) = SubSeq(pattern, 1, l)
  BY DEF LiteralPrefix
<1> HIDE DEF l
<1> QED BY <1>6, <1>7

LEMMA SameStart ==
  ASSUME NEW S, NEW T, NEW p \in Seq(S), NEW q \in Seq(T), NEW n \in 0..Len(p), n <= Len(q),
         \A i \in 1..n : p[i] = q[i]
  PROVE  IsPrefix(SubSeq(p, 1, n), q) /\ Len(SubSeq(p, 1, n)) = n
<1> DEFINE s == SubSeq(p, 1, n)
<1>1. n \in Nat /\ s \in Seq(S) /\ Len(s) = n /\ \A i \in 1..n : s[i] = p[i]
  OBVIOUS
<1> HIDE DEF s
<1>2. SubSeq(s, 1, n) = [i \in 1..n |-> s[i]]
  BY <1>1
<1>3. SubSeq(q, 1, n) = [i \in 1..n |-> q[i]]
  BY <1>1
<1>4. SubSeq(s, 1, n) = SubSeq(q, 1, n)
  BY <1>1, <1>2, <1>3
<1> QED BY <1>1, <1>4 DEF IsPrefix, s

\* For any pattern of segments, and any paths: the query of glob() keeps every
\* path that its expression takes, but where a pattern with a "**" ends in a
\* literal name, or has each "**" within a segment.
THEOREM GlobsAlwaysAgree ==
  ASSUME NEW pattern \in Seq(GlobSegments) \ {<<>>}, NEW paths \in SUBSET Seq(FileNames)
  PROVE  GlobAgrees(pattern, paths)
<1> SUFFICES ASSUME NEW path \in paths \ {<<>>}, GlobRegex(pattern, Written(path)),
                    ~ /\ \E i \in DOMAIN pattern : Starred(pattern[i])
                      /\ ~IsGlob(Last(pattern)) \/ Star2 \notin Range(pattern)
             PROVE  GlobPlan(pattern, path)
  BY DEF GlobAgrees, Starred
<1> DEFINE m == Len(pattern)
           N == Len(path)
           text == Written(path)
           glob == Joined(pattern, Slashes(pattern))
           fits == [i \in 1..Len(glob) |-> GlobFits(glob[i], text)]
           A == GlobTokens \cup {"**"}
<1>1. path \in Seq(FileNames) \ {<<>>} /\ m \in Nat \ {0} /\ N \in Nat \ {0} /\ pattern \in Seq(GlobSegments)
  OBVIOUS
<1>2. pattern \in Seq(Seq(A))
  <2>1. GlobSegments \subseteq Seq(A)
    BY Unstarred
  <2> HIDE DEF A
  <2> QED BY <1>1, <2>1
<1>3. path \in Seq(Seq(Letters))
  BY <1>1 DEF FileNames
<1>4. Matches(fits, Len(text))
  BY DEF GlobRegex, Slashes
<1> HIDE DEF m, N, text, glob, A
<1>5. PICK a : LaidOut(pattern, Slashes(pattern), glob, a)
  BY <1>2, JoinedLaid DEF glob
<1>6. PICK b : LaidOut(path, 2..N, text, b)
  BY <1>3, JoinedLaid DEF text, Written, N
<1>7. text \in Seq(Letters \cup {"/"}) /\ Len(text) \in Nat
  <2>1. text = Joined(path, 2..Len(path))
    BY DEF text, Written
  <2>2. Joined(path, 2..Len(path)) \in Seq(Letters \cup {"/"})
    BY <1>3, JoinedLaid
  <2> QED BY <2>1, <2>2
<1>8. Len(glob) \in Nat
  BY <1>2, JoinedLaid DEF glob
<1>9. PICK cut : Through(cut, fits, Len(text))
  <2>1. Len(fits) \in Nat
    BY <1>8
  <2> HIDE DEF fits
  <2> QED BY <1>4, <1>7, <2>1, MatchesIs
<1>10. Placed(pattern, path, glob, text, a, b, cut)
  BY <1>1, <1>5, <1>6, <1>7, <1>8, <1>9 DEF Placed, N
<1> HIDE DEF fits
<1>11. ASSUME NEW k \in 1..m, \A i \in 1..k : ~Starred(pattern[i])
       PROVE  /\ k \in 1..N /\ (k = m => k = N)
              /\ ~IsGlob(pattern[k]) => pattern[k] = path[k]
  <2>1. /\ k \in 1..Len(path) /\ cut[Start(Slashes(pattern), a, k)] = Start(2..Len(path), b, k)
        /\ cut[a[k]] = b[k] /\ (k = Len(pattern) => k = Len(path))
    BY <1>10, <1>11, SegmentsLead DEF m
  <2>2. ~IsGlob(pattern[k]) => pattern[k] = path[k]
    BY <1>10, <2>1, LiteralIsName DEF m
  <2> QED BY <2>1, <2>2 DEF m, N
<1>12. IsGlob(Star2)
  <2>1. Range(Star2) = {"**"}
    BY DEF Star2, Range
  <2> QED BY <2>1 DEF IsGlob
<1>13. PICK n \in 0..m : /\ LiteralPrefix(pattern) = SubSeq(pattern, 1, n)
                         /\ \A i \in 1..n : ~IsGlob(pattern[i])
  BY <1>1, LiteralPrefixIs DEF m
<1>14. \A i \in 1..m : ~IsGlob(pattern[i]) => ~Starred(pattern[i])
  <2>1. \A i \in 1..m : pattern[i] \in GlobSegments
    BY <1>1 DEF m
  <2> QED BY <2>1, Unstarred
<1>15. \A k \in 1..n : pattern[k] = path[k] /\ k \in 1..N /\ (k = m => k = N)
  <2> TAKE k \in 1..n
  <2>1. k \in 1..m /\ (\A i \in 1..k : i \in 1..n /\ i \in 1..m) /\ k \in 1..n
    BY <1>1
  <2>2. \A i \in 1..k : ~Starred(pattern[i])
    BY <1>13, <1>14, <2>1
  <2> QED BY <1>11, <1>13, <2>1, <2>2
<1>16. n <= N /\ (n = m => N = n)
  <2>1. CASE n = 0
    BY <1>1, <2>1
  <2>2. CASE n # 0
    <3>1. n \in 1..n /\ n \in Nat
      BY <1>1, <2>2
    <3>2. n \in 1..N /\ (n = m => n = N)
      BY <1>15, <3>1
    <3> QED BY <1>1, <3>1, <3>2
  <2> QED BY <2>1, <2>2
<1>17. IsPrefix(LiteralPrefix(pattern), path) /\ Len(LiteralPrefix(pattern)) = n
  BY <1>1, <1>13, <1>15, <1>16, SameStart DEF m, N
<1> DEFINE relative == SubSeq(pattern, n + 1, m)
<1>18. /\ Len(relative) = m - n /\ \A i \in 1..m - n : relative[i] = pattern[n + i]
       /\ relative \in Seq(GlobSegments)
  BY <1>1 DEF m
<1> HIDE DEF relative
<1>19. relative = <<>> => N = n
  <2> SUFFICES ASSUME relative = <<>> PROVE N = n
    OBVIOUS
  <2>1. m - n = 0 /\ n \in Nat
    BY <1>18
  <2> QED BY <1>1, <1>16, <2>1
\* without "**", one name for each segment
<1>20. ASSUME \A i \in 1..m : ~Starred(pattern[i])
       PROVE  N = m /\ (~IsGlob(pattern[m]) => pattern[m] = path[N])
  <2>1. m \in 1..m
    BY <1>1
  <2>2. \A i \in 1..m : ~Starred(pattern[i])
    BY <1>20
  <2> QED BY <1>11, <2>1, <2>2
<1>21. Star2 \notin Range(relative) => Star2 \notin Range(pattern)
  <2> SUFFICES ASSUME Star2 \in Range(pattern) PROVE Star2 \in Range(relative)
    OBVIOUS
  <2>1. PICK i \in 1..m : pattern[i] = Star2
    BY <1>1 DEF Range, m
  <2>2. i \notin 1..n
    BY <1>12, <1>13, <2>1
  <2>3. i - n \in 1..m - n /\ n + (i - n) = i
    BY <1>1, <2>2
  <2>4. relative[i - n] = Star2 /\ i - n \in DOMAIN relative
    BY <1>18, <2>1, <2>3
  <2> QED BY <2>4 DEF Range
<1>22. relative # <<>> => Last(relative) = pattern[m] /\ Last(pattern) = pattern[m]
  <2> SUFFICES ASSUME relative # <<>> PROVE Last(relative) = pattern[m] /\ Last(pattern) = pattern[m]
    OBVIOUS
  <2>1. m - n # 0
    BY <1>18
  <2>2. m - n \in 1..m - n /\ n + (m - n) = m
    BY <1>1, <2>1
  <2> QED BY <1>18, <2>2 DEF Last, m
<1>23. relative # <<>> /\ (Star2 \notin Range(relative) \/ ~IsGlob(Last(relative))) =>
         \A i \in 1..m : ~Starred(pattern[i])
  <2>1. DOMAIN pattern = 1..m
    BY <1>1 DEF m
  <2> QED BY <1>21, <1>22, <2>1
<1>24. ASSUME relative # <<>>, ~IsGlob(Last(relative))
       PROVE  path # <<>> /\ Encode(Last(path)) = Encode(Last(relative))
  <2>1. pattern[m] = path[N]
    BY <1>20, <1>22, <1>23, <1>24
  <2> QED BY <1>1, <1>22, <1>24, <2>1 DEF Last, N
<1> QED BY <1>17, <1>19, <1>20, <1>23, <1>24 DEF GlobPlan, relative, m, N

RuleInv == question \in Questions \cup {Question("none", <<>>, <<>>)}

LEMMA AnswersAgree == RuleInv => RulesAgree
<1> SUFFICES ASSUME RuleInv PROVE RulesAgree
  OBVIOUS
<1>1. CASE question.kind \notin {"exclude", "mount", "glob", "name"}
  BY <1>1 DEF RulesAgree
<1>2. CASE question.kind \in {"exclude", "mount", "glob", "name"}
  <2>1. question \in Questions
    BY <1>2 DEF RuleInv, Question
  <2>2. Visited \in SUBSET Seq(FileNames) /\ question.root \in Seq(FileNames)
    BY <2>1, QuestionsAssumption
  <2>3. FileNames \subseteq Names /\ ExcludeSegments \subseteq Segments
    <3>1. Letters \subseteq Characters /\ GlobTokens \subseteq Tokens
      BY DEF Letters, GlobTokens, Tokens
    <3>2. Seq(Letters) \subseteq Seq(Characters) /\ Seq(GlobTokens) \subseteq Seq(Tokens)
      BY <3>1, SeqMonotonic
    <3> QED BY <3>2 DEF FileNames, Names, ExcludeSegments, Segments
  <2>4. Seq(FileNames) \subseteq Seq(Names) /\ Seq(ExcludeSegments) \subseteq Seq(Segments)
    BY <2>3, SeqMonotonic
  <2>5. Visited \in SUBSET Seq(Names) /\ question.root \in Seq(Names)
    BY <2>2, <2>4
  <2>6. CASE question.kind = "exclude"
    <3>1. question.rule \in [anchored : BOOLEAN, segments : Seq(Segments) \ {<<>>}]
      <4>1. question.rule \in [anchored : BOOLEAN, segments : Seq(ExcludeSegments) \ {<<>>}]
        BY <2>1, <2>6, QuestionsAssumption
      <4> QED BY <2>4, <4>1
    <3>2. ExcludesAgree(question.rule, question.root, Visited)
      BY <2>5, <3>1, ExcludesAlwaysAgree
    <3> QED BY <2>6, <3>2 DEF RulesAgree
  <2>7. CASE question.kind = "mount"
    <3>1. question.rule \in SUBSET [path : Seq(Names), readonly : BOOLEAN]
      <4>1. question.rule \subseteq [path : Seq(FileNames), readonly : BOOLEAN]
        BY <2>1, <2>7, QuestionsAssumption
      <4> QED BY <2>4, <4>1
    <3>2. MountsAgree(question.rule, question.root, Visited)
      BY <2>5, <3>1, MountsAlwaysAgree
    <3> QED BY <2>7, <3>2 DEF RulesAgree
  <2>8. CASE question.kind = "glob"
    <3>1. question.rule \in Seq(GlobSegments) \ {<<>>}
      BY <2>1, <2>8, QuestionsAssumption
    <3>2. GlobAgrees(question.rule, Visited)
      BY <2>2, <3>1, GlobsAlwaysAgree
    <3> QED BY <2>8, <3>2 DEF RulesAgree
  <2>9. CASE question.kind = "name"
    <3>1. question.rule \in SUBSET Names
      <4>1. question.rule \subseteq FileNames
        BY <2>1, <2>9, QuestionsAssumption
      <4> QED BY <2>3, <4>1
    <3>2. NamesAgree(question.rule)
      BY <3>1, LabelsAlwaysDecode DEF Names
    <3> QED BY <2>9, <3>2 DEF RulesAgree
  <2> QED BY <1>2, <2>6, <2>7, <2>8, <2>9
<1> QED BY <1>1, <1>2

\* For any alphabet, any names, patterns, mounts and paths: what is listed and
\* what is read agree on what an instance hides, and names on their labels.
THEOREM RulesAlwaysAgree == RuleSpec => []RulesAgree
<1>1. RuleInit => RuleInv
  BY DEF RuleInit, RuleInv
<1>2. RuleInv /\ [Ask]_question => RuleInv'
  BY DEF RuleInv, Ask
<1> QED BY <1>1, <1>2, AnswersAgree, PTL DEF RuleSpec
=============================================================================
