------------------------- MODULE VersionStoreProofs -------------------------
(***************************************************************************)
(* Proofs about VersionStore, for every set of versions, labels, paths and *)
(* contents: type correctness, the closure table, label uniqueness, blob   *)
(* references and tombstones; the trees detach must not change; what the   *)
(* history, diff and usage queries of History answer; and that             *)
(* VersionStore implements OverlayTree: initial states map to initial      *)
(* states and every operation to a step or a stutter.                      *)
(***************************************************************************)
EXTENDS History, StoreRefinement, TLAPS, WellFoundedInduction, FiniteSetTheorems

-----------------------------------------------------------------------------
(* The nearest row of a path.                                              *)

\* The well-order of Nat, in the form the ORDER BY depth LIMIT 1 needs.
LEMMA NatMinimum ==
  ASSUME NEW S, S \subseteq Nat, S # {}
  PROVE  \E n \in S : \A m \in S : n <= m
<1> DEFINE R == {ss \in Nat \X Nat : ss[1] < ss[2]}
<1>1. IsWellFoundedOn(R, Nat)
  BY NatLessThanWellFounded DEF OpToRel
<1>2. \E n \in S : \A m \in S : ~ (<<m, n>> \in R)
  <2> HIDE DEF R
  <2>. QED BY <1>1, WFMin
<1>3. \A n, m \in S : ~ (<<m, n>> \in R) => n <= m
  OBVIOUS
<1>. QED
  BY <1>2, <1>3

\* Some holder of a path is the nearest, whenever there is a holder.
LEMMA NearestExists ==
  TypeOK => \A v \in VersionIds, p \in Paths :
    Holders(v, p) # {} =>
      /\ Nearest(v, Holders(v, p)) \in Holders(v, p)
      /\ \A b \in Holders(v, p) :
           closure[v][Nearest(v, Holders(v, p))] <= closure[v][b]
<1> SUFFICES ASSUME TypeOK, NEW v \in VersionIds, NEW p \in Paths,
                    Holders(v, p) # {}
             PROVE  \E a \in Holders(v, p) : \A b \in Holders(v, p) :
                      closure[v][a] <= closure[v][b]
  BY DEF Nearest
<1> DEFINE S == {closure[v][a] : a \in Holders(v, p)}
<1>1. S \subseteq Nat /\ S # {}
  BY DEF TypeOK, Holders, IsAncestor
<1>2. PICK n \in S : \A m \in S : n <= m
  <2> HIDE DEF S
  <2>. QED BY <1>1, NatMinimum
<1>. QED
  BY <1>2

\* What a version shows at a path is Absent or a row of one of its ancestors.
LEMMA ResolveValue ==
  TypeOK => \A v \in VersionIds, p \in Paths :
    \/ Resolve(v, p) = Absent
    \/ \E a \in VersionIds :
         /\ IsAncestor(a, v)
         /\ Resolve(v, p) = entries[a][p]
         /\ Resolve(v, p) \in Shapes
<1> SUFFICES ASSUME TypeOK, NEW v \in VersionIds, NEW p \in Paths,
                    Resolve(v, p) # Absent
             PROVE  \E a \in VersionIds : /\ IsAncestor(a, v)
                                          /\ Resolve(v, p) = entries[a][p]
                                          /\ Resolve(v, p) \in Shapes
  OBVIOUS
<1> DEFINE a == Nearest(v, Holders(v, p))
<1>1. Holders(v, p) # {} /\ Resolve(v, p) = entries[a][p] /\ entries[a][p] # Tombstone
  BY DEF Resolve
<1>2. a \in Holders(v, p)
  BY <1>1, NearestExists
<1>. QED
  BY <1>1, <1>2 DEF TypeOK, Holders

\* A materialised row is a shape or no row at all: no tombstone survives.
LEMMA MaterializedValue ==
  TypeOK => \A v \in VersionIds :
    /\ Materialized(v) \in [Paths -> Shapes \cup {Absent}]
    /\ \A p \in Paths : Materialized(v)[p] \in Contents =>
         \E a \in VersionIds : Materialized(v)[p] = entries[a][p]
<1> SUFFICES ASSUME TypeOK, NEW v \in VersionIds, NEW p \in Paths
             PROVE  LET m == IF entries[v][p] = Tombstone THEN Absent
                             ELSE IF entries[v][p] # Absent THEN entries[v][p]
                             ELSE Resolve(v, p)
                    IN  /\ m \in Shapes \cup {Absent}
                        /\ m \in Contents => \E a \in VersionIds : m = entries[a][p]
  BY DEF Materialized
<1>1. entries[v][p] \in Shapes \cup {Tombstone, Absent}
  BY DEF TypeOK
<1>2. /\ Resolve(v, p) \in Shapes \cup {Absent}
      /\ Resolve(v, p) \in Contents => \E a \in VersionIds : Resolve(v, p) = entries[a][p]
  BY ResolveValue, SentinelAssumption DEF Shapes
<1>. QED
  BY <1>1, <1>2, SentinelAssumption DEF Shapes

-----------------------------------------------------------------------------
(* Type correctness.                                                       *)

\* The empty tables of a fresh setup() are well typed.
LEMMA InitTypeOK == Init => TypeOK
  BY DEF Init, TypeOK, NoEntries

\* Every operation writes values the columns of its tables admit.
LEMMA NextTypeOK == TypeOK /\ [Next]_vars => TypeOK'
<1> SUFFICES ASSUME TypeOK, [Next]_vars PROVE TypeOK'
  OBVIOUS
<1> USE DEF TypeOK, graph
<1>1. ASSUME NEW v \in VersionIds, NEW l \in UserLabels, EnsureVersion(v, l)
      PROVE  TypeOK'
  BY <1>1, RootsAssumption DEF EnsureVersion, SelfOnly, Labels
<1>2. ASSUME NEW v \in VersionIds, NEW w \in VersionIds, MkdirVersioned(v, w)
      PROVE  TypeOK'
  <2>1. View(v) \in [Paths -> Shapes \cup {Tombstone, Absent}]
    BY ResolveValue DEF View
  <2>. QED
    BY <1>2, <2>1, RootsAssumption, LabelAssumption DEF MkdirVersioned, SelfOnly, Labels
<1>3. ASSUME NEW v \in VersionIds, NEW w \in VersionIds, NEW l \in UserLabels,
             Fork(v, w, l)
      PROVE  TypeOK'
  BY <1>3 DEF Fork, Labels, IsAncestor, NoRow
<1>4. ASSUME NEW v \in VersionIds, NEW p \in Paths, NEW c \in Contents,
             WriteFile(v, p, c)
      PROVE  TypeOK'
  BY <1>4 DEF WriteFile, Shapes
<1>5. ASSUME NEW v \in VersionIds, NEW p \in Paths, Mkdir(v, p) \/ Rm(v, p)
      PROVE  TypeOK'
  <2>1. ASSUME NEW x \in Shapes \cup {Tombstone}, entries' = [entries EXCEPT ![v][p] = x]
        PROVE  entries' \in [VersionIds -> [Paths -> Shapes \cup {Tombstone, Absent}]]
    BY <2>1
  <2>2. Dir \in Shapes
    BY DEF Shapes
  <2>. QED
    BY <1>5, <2>1, <2>2 DEF Mkdir, Rm
<1>6. ASSUME NEW v \in VersionIds
      PROVE  /\ Materialized(v) \in [Paths -> Shapes \cup {Tombstone, Absent}]
             /\ WithoutOuterRows(v) \in [VersionIds -> [VersionIds -> Nat \cup {NoRow}]]
             /\ \A l \in UserLabels :
                  Relabelled(v, l) \in [VersionIds -> Labels \cup {NoLabel}]
  BY MaterializedValue DEF WithoutOuterRows, Relabelled, Labels
<1>7. ASSUME NEW v \in VersionIds, Detach(v) PROVE TypeOK'
  BY <1>6, <1>7 DEF Detach
<1>8. ASSUME NEW v \in VersionIds, NEW l \in UserLabels, NEW swap \in BOOLEAN,
             RenameVersion(v, l, swap)
      PROVE  TypeOK'
  BY <1>6, <1>8 DEF RenameVersion
<1>9. ASSUME NEW v \in VersionIds, NEW l \in UserLabels,
             PromoteRetain(v, l) \/ PromoteDetached(v, l)
      PROVE  TypeOK'
  <2>1. CASE PromoteRetain(v, l)
    BY <1>6, <2>1 DEF PromoteRetain
  <2>2. CASE PromoteDetached(v, l)
    BY <1>6, <2>2 DEF PromoteDetached
  <2>. QED
    BY <1>9, <2>1, <2>2
<1>10. ASSUME NEW v \in VersionIds, SoftDelete(v) PROVE TypeOK'
  BY <1>10 DEF SoftDelete
<1>11. ASSUME NEW S \in SUBSET VersionIds,
              NEW clo \in [VersionIds -> [VersionIds -> Nat \cup {NoRow}]],
              NEW ents \in [VersionIds -> [Paths -> Shapes \cup {Tombstone, Absent}]]
       PROVE  /\ RemovedStatus(S) \in [VersionIds -> {"unused", "active", "deleted", "gone"}]
              /\ RemovedLabel(S) \in [VersionIds -> Labels \cup {NoLabel}]
              /\ RemovedParent(S) \in [VersionIds -> VersionIds \cup {NoVersion}]
              /\ RemovedClosure(clo, S) \in [VersionIds -> [VersionIds -> Nat \cup {NoRow}]]
              /\ RemovedEntries(ents, S) \in [VersionIds -> [Paths -> Shapes \cup {Tombstone, Absent}]]
  BY DEF RemovedStatus, RemovedLabel, RemovedParent, RemovedClosure, RemovedEntries, NoEntries
<1>12. \A cand, ents : Collected(cand, ents) \in SUBSET Contents
  BY DEF Collected
<1>13. ASSUME NEW v \in VersionIds, HardDelete(v) PROVE TypeOK'
  BY <1>11, <1>12, <1>13 DEF HardDelete
<1>14. ASSUME NEW v \in VersionIds, NEW t \in VersionIds, NEW l \in UserLabels,
              PromoteDiscard(v, t, l)
       PROVE  TypeOK'
  BY <1>6, <1>11, <1>12, <1>14 DEF PromoteDiscard
<1>15. ASSUME NEW r \in VersionRoots, SweepHistory(r) PROVE TypeOK'
  <2> DEFINE active == {v \in VersionIds : RootOf[v] = r /\ status[v] = "active"}
             inactive == {v \in VersionIds : RootOf[v] = r /\ status[v] = "deleted"}
             kept == [v \in VersionIds |-> IF v \in active THEN Materialized(v) ELSE entries[v]]
  <2>1. kept \in [VersionIds -> [Paths -> Shapes \cup {Tombstone, Absent}]]
    BY <1>6
  <2>2. [v \in VersionIds |->
           IF v \in active THEN SelfOnly(v)
           ELSE RemovedClosure(closure, active \cup inactive)[v]]
         \in [VersionIds -> [VersionIds -> Nat \cup {NoRow}]]
    <3>1. RemovedClosure(closure, active \cup inactive)
            \in [VersionIds -> [VersionIds -> Nat \cup {NoRow}]]
      BY <1>11
    <3>2. \A v \in VersionIds : SelfOnly(v) \in [VersionIds -> Nat \cup {NoRow}]
      BY DEF SelfOnly
    <3>. QED
      BY <3>1, <3>2
  <2>3. active \in SUBSET VersionIds /\ inactive \in SUBSET VersionIds
    OBVIOUS
  <2> HIDE DEF active, inactive, kept
  <2>. QED
    BY <1>11, <1>12, <1>15, <2>1, <2>2, <2>3 DEF SweepHistory, active, inactive, kept
<1>16. ASSUME NEW v \in VersionIds, NEW r \in VersionRoots, RemoveVersionRoot(v, r)
       PROVE  TypeOK'
  <2> DEFINE owned == {w \in VersionIds : RootOf[w] = r /\ HasRow(w)}
             hidden == [p \in Paths |-> IF Resolve(v, p) = Absent THEN entries[v][p]
                                        ELSE Tombstone]
  <2>1. [entries EXCEPT ![v] = hidden]
          \in [VersionIds -> [Paths -> Shapes \cup {Tombstone, Absent}]]
    <3>1. hidden \in [Paths -> Shapes \cup {Tombstone, Absent}]
      OBVIOUS
    <3> HIDE DEF hidden
    <3>. QED
      BY <3>1
  <2>2. owned \in SUBSET VersionIds
    OBVIOUS
  <2>3. /\ roots' = roots \ {r}
        /\ status' = RemovedStatus(owned)
        /\ label' = RemovedLabel(owned)
        /\ parent' = RemovedParent(owned)
        /\ closure' = RemovedClosure(closure, owned)
        /\ entries' = RemovedEntries([entries EXCEPT ![v] = hidden], owned)
        /\ blobs' = Collected({entries[w][p] : w \in owned, p \in Paths}, entries')
    BY <1>16 DEF RemoveVersionRoot
  <2> HIDE DEF owned, hidden
  <2>4. /\ roots' \in SUBSET VersionRoots
        /\ blobs' \in SUBSET Contents
    BY <1>12, <2>3
  <2>. QED
    BY <1>11, <2>1, <2>2, <2>3, <2>4
<1>17. ASSUME UNCHANGED vars PROVE TypeOK'
  BY <1>17 DEF vars
<1>. QED
  BY <1>1, <1>2, <1>3, <1>4, <1>5, <1>7, <1>8, <1>9, <1>10, <1>13, <1>14, <1>15,
     <1>16, <1>17
  DEF Next, Create, Write, Relabel, Flatten, Remove

\* Every reachable state is well typed: in particular every closure depth is a
\* natural number and every row holds a shape or a tombstone.
THEOREM TypeCorrect == Spec => []TypeOK
  BY InitTypeOK, NextTypeOK, PTL DEF Spec

-----------------------------------------------------------------------------
(* Blobs.                                                                  *)

\* BlobsBackEntries, row by row.
LEMMA BackedRows ==
  \A ents, kept :
    References(ents) \subseteq kept
      <=> \A v \in VersionIds, p \in Paths :
            ents[v][p] \in Contents => ents[v][p] \in kept
  BY DEF References

\* A collection keeps every blob the surviving rows reference.
LEMMA CollectedBacks ==
  \A cand, ents :
    References(ents) \subseteq blobs => References(ents) \subseteq Collected(cand, ents)
  BY DEF Collected

\* Rows a removal leaves were there before it.
LEMMA RemovedBacked ==
  ASSUME NEW ents, NEW S, NEW kept, References(ents) \subseteq kept
  PROVE  References(RemovedEntries(ents, S)) \subseteq kept
<1>1. \A v \in VersionIds, p \in Paths :
        RemovedEntries(ents, S)[v][p] \in Contents =>
          RemovedEntries(ents, S)[v][p] = ents[v][p]
  BY SentinelAssumption DEF RemovedEntries, NoEntries, Shapes
<1>2. \A v \in VersionIds, p \in Paths :
        ents[v][p] \in Contents => ents[v][p] \in kept
  BY BackedRows
<1>3. \A v \in VersionIds, p \in Paths :
        RemovedEntries(ents, S)[v][p] \in Contents =>
          RemovedEntries(ents, S)[v][p] \in kept
  BY <1>1, <1>2
<1>. QED
  BY <1>3, BackedRows

\* Rows that copy rows, delete rows or hold no content need no new blob.
LEMMA CopiedBacked ==
  ASSUME TypeOK, BlobsBackEntries,
         NEW ents,
         \A v \in VersionIds, p \in Paths :
           ents[v][p] \in Contents =>
             \E a \in VersionIds : ents[v][p] = entries[a][p]
  PROVE  References(ents) \subseteq blobs
<1>1. \A v \in VersionIds, p \in Paths :
        entries[v][p] \in Contents => entries[v][p] \in blobs
  BY BackedRows DEF BlobsBackEntries
<1>2. \A v \in VersionIds, p \in Paths :
        ents[v][p] \in Contents => ents[v][p] \in blobs
  BY <1>1
<1>. QED
  BY <1>2, BackedRows

\* Materialising a set of versions copies rows.
LEMMA MaterializedBacked ==
  ASSUME TypeOK, BlobsBackEntries, NEW S
  PROVE  References([v \in VersionIds |-> IF v \in S THEN Materialized(v) ELSE entries[v]])
           \subseteq blobs
<1> DEFINE ents == [v \in VersionIds |-> IF v \in S THEN Materialized(v) ELSE entries[v]]
<1>1. ASSUME NEW v \in VersionIds, NEW p \in Paths, ents[v][p] \in Contents
      PROVE  \E a \in VersionIds : ents[v][p] = entries[a][p]
  <2>1. CASE v \in S
    BY <1>1, <2>1, MaterializedValue
  <2>2. CASE v \notin S
    BY <2>2
  <2>. QED
    BY <2>1, <2>2
<1> HIDE DEF ents
<1>2. References(ents) \subseteq blobs
  BY <1>1, CopiedBacked
<1>. QED
  BY <1>2 DEF ents

\* Without entries there is nothing a blob would have to back.
LEMMA InitBlobs == Init => BlobsBackEntries
  BY SentinelAssumption DEF Init, BlobsBackEntries, References, NoEntries, Shapes

\* Every operation that writes an entry writes its blob or copies an entry,
\* and every collection spares what an entry references.
LEMMA NextBlobs ==
  TypeOK /\ BlobsBackEntries /\ [Next]_vars => BlobsBackEntries'
<1> SUFFICES ASSUME TypeOK, BlobsBackEntries, [Next]_vars
             PROVE  References(entries') \subseteq blobs'
  BY DEF BlobsBackEntries, References
<1>0. ASSUME NEW v \in VersionIds
      PROVE  References([entries EXCEPT ![v] = Materialized(v)]) \subseteq blobs
  <2>1. [entries EXCEPT ![v] = Materialized(v)]
          = [w \in VersionIds |-> IF w \in {v} THEN Materialized(w) ELSE entries[w]]
    BY DEF TypeOK
  <2>. QED
    BY <2>1, MaterializedBacked
<1>1. CASE UNCHANGED <<entries, blobs>>
  BY <1>1 DEF BlobsBackEntries
<1>2. ASSUME NEW v \in VersionIds, NEW w \in VersionIds, MkdirVersioned(v, w)
      PROVE  References(entries') \subseteq blobs'
  <2>1. ASSUME NEW u \in VersionIds, NEW p \in Paths, entries'[u][p] \in Contents
        PROVE  \E a \in VersionIds : entries'[u][p] = entries[a][p]
    <3>1. View(v)[p] = Absent \/ \E a \in VersionIds : View(v)[p] = entries[a][p]
      BY ResolveValue DEF View
    <3>2. entries'[u] = entries[u] \/ entries'[u] = View(v)
      BY <1>2 DEF MkdirVersioned, TypeOK
    <3>. QED
      BY <2>1, <3>1, <3>2, SentinelAssumption DEF Shapes
  <2>. QED
    BY <1>2, <2>1, CopiedBacked DEF MkdirVersioned
<1>3. ASSUME NEW v \in VersionIds, NEW p \in Paths, NEW c \in Contents,
             WriteFile(v, p, c)
      PROVE  References(entries') \subseteq blobs'
  <2>1. \A u \in VersionIds, q \in Paths : entries'[u][q] = entries[u][q] \/ entries'[u][q] = c
    BY <1>3 DEF WriteFile, TypeOK
  <2>2. \A u \in VersionIds, q \in Paths :
          entries[u][q] \in Contents => entries[u][q] \in blobs
    BY BackedRows DEF BlobsBackEntries
  <2>3. \A u \in VersionIds, q \in Paths :
          entries'[u][q] \in Contents => entries'[u][q] \in blobs'
    BY <1>3, <2>1, <2>2 DEF WriteFile
  <2>. QED
    BY <2>3, BackedRows
<1>4. ASSUME NEW v \in VersionIds, NEW p \in Paths, Mkdir(v, p) \/ Rm(v, p)
      PROVE  References(entries') \subseteq blobs'
  <2>1. \A u \in VersionIds, q \in Paths :
          entries'[u][q] = entries[u][q] \/ entries'[u][q] \notin Contents
    <3>1. ASSUME NEW x, x \notin Contents, entries' = [entries EXCEPT ![v][p] = x]
          PROVE  \A u \in VersionIds, q \in Paths :
                   entries'[u][q] = entries[u][q] \/ entries'[u][q] \notin Contents
      BY <3>1 DEF TypeOK
    <3>. QED
      BY <1>4, <3>1, SentinelAssumption DEF Mkdir, Rm, Shapes
  <2>. QED
    BY <1>4, <2>1, CopiedBacked DEF Mkdir, Rm
<1>5. ASSUME NEW v \in VersionIds, NEW l \in UserLabels,
             Detach(v) \/ PromoteDetached(v, l)
      PROVE  References(entries') \subseteq blobs'
  BY <1>0, <1>5 DEF Detach, PromoteDetached
<1>6. ASSUME NEW v \in VersionIds, HardDelete(v)
      PROVE  References(entries') \subseteq blobs'
  BY <1>6, RemovedBacked, CollectedBacks DEF HardDelete, BlobsBackEntries
<1>7. ASSUME NEW v \in VersionIds, NEW t \in VersionIds, NEW l \in UserLabels,
             PromoteDiscard(v, t, l)
      PROVE  References(entries') \subseteq blobs'
  BY <1>0, <1>7, RemovedBacked, CollectedBacks DEF PromoteDiscard
<1>8. ASSUME NEW r \in VersionRoots, SweepHistory(r)
      PROVE  References(entries') \subseteq blobs'
  BY <1>8, MaterializedBacked, RemovedBacked, CollectedBacks DEF SweepHistory
<1>9. ASSUME NEW v \in VersionIds, NEW r \in VersionRoots, RemoveVersionRoot(v, r)
      PROVE  References(entries') \subseteq blobs'
  <2> DEFINE hidden == [p \in Paths |-> IF Resolve(v, p) = Absent THEN entries[v][p]
                                        ELSE Tombstone]
             owned == {w \in VersionIds : RootOf[w] = r /\ HasRow(w)}
             cand == {entries[w][p] : w \in owned, p \in Paths}
  <2>1. /\ entries' = RemovedEntries([entries EXCEPT ![v] = hidden], owned)
        /\ blobs' = Collected(cand, entries')
    BY <1>9 DEF RemoveVersionRoot
  <2> HIDE DEF owned, cand
  <2>2. ASSUME NEW u \in VersionIds, NEW p \in Paths,
               [entries EXCEPT ![v] = hidden][u][p] \in Contents
        PROVE  \E a \in VersionIds : [entries EXCEPT ![v] = hidden][u][p] = entries[a][p]
    <3>1. hidden[p] \in Contents => hidden[p] = entries[v][p]
      BY SentinelAssumption DEF Shapes
    <3>2. [entries EXCEPT ![v] = hidden][u] = IF u = v THEN hidden ELSE entries[u]
      BY DEF TypeOK
    <3>. QED
      BY <2>2, <3>1, <3>2
  <2> HIDE DEF hidden
  <2>3. References([entries EXCEPT ![v] = hidden]) \subseteq blobs
    BY <2>2, CopiedBacked
  <2>. QED
    BY <2>1, <2>3, RemovedBacked, CollectedBacks
<1>10. ASSUME NEW v \in VersionIds, NEW w \in VersionIds, NEW l \in UserLabels,
              \/ EnsureVersion(v, l) \/ Fork(v, w, l) \/ PromoteRetain(v, l)
              \/ \E swap \in BOOLEAN : RenameVersion(v, l, swap)
       PROVE  UNCHANGED <<entries, blobs>>
  BY <1>10 DEF EnsureVersion, Fork, RenameVersion, PromoteRetain
<1>11. UNCHANGED vars => UNCHANGED <<entries, blobs>>
  BY DEF vars
<1>12. ASSUME NEW v \in VersionIds, SoftDelete(v)
       PROVE  UNCHANGED <<entries, blobs>>
  BY <1>12 DEF SoftDelete
<1>13. CASE Create
  BY <1>1, <1>2, <1>10, <1>13 DEF Create
<1>14. CASE Relabel
  BY <1>1, <1>10, <1>14 DEF Relabel
<1>15. CASE Write
  BY <1>3, <1>4, <1>15 DEF Write
<1>16. CASE Flatten
  BY <1>5, <1>16, LabelAssumption DEF Flatten
<1>17. CASE Remove
  BY <1>1, <1>6, <1>7, <1>8, <1>9, <1>12, <1>17 DEF Remove
<1>. QED
  BY <1>1, <1>11, <1>13, <1>14, <1>15, <1>16, <1>17 DEF Next

\* No collection ever removes a blob under an entry, whatever shares it: forks,
\* materialised copies, other version roots and the rows of dead ids.
THEOREM BlobsKept == Spec => []BlobsBackEntries
  BY TypeCorrect, InitBlobs, NextBlobs, PTL DEF Spec

-----------------------------------------------------------------------------
(* Labels.                                                                 *)

\* A row carries a label some user chose or the one generated for its own id:
\* what a swap writes can therefore collide with no other row.
OwnLabels ==
  \A v \in VersionIds : HasRow(v) => label[v] \in UserLabels \cup {PrevLabel[v]}

LabelInv == OwnLabels /\ LiveLabelsUnique

\* Both facts for statuses st and labels lab, and how a step preserves them
\* that writes no label and activates nothing.
OwnIn(st, lab) ==
  \A v \in VersionIds :
    st[v] \in {"active", "deleted"} => lab[v] \in UserLabels \cup {PrevLabel[v]}
UniqueIn(st, lab) ==
  \A v, w \in VersionIds :
    /\ st[v] = "active" /\ st[w] = "active"
    /\ RootOf[v] = RootOf[w] /\ lab[v] = lab[w]
    => v = w

\* Removing or hiding versions, their labels unchanged, keeps labels unique.
LEMMA FewerRows ==
  ASSUME NEW st, NEW lab, OwnIn(st, lab), UniqueIn(st, lab),
         NEW st2, NEW lab2,
         \A v \in VersionIds :
           st2[v] \in {"active", "deleted"} =>
             /\ lab2[v] = lab[v]
             /\ st[v] \in {"active", "deleted"}
             /\ st2[v] = "active" => st[v] = "active"
  PROVE  OwnIn(st2, lab2) /\ UniqueIn(st2, lab2)
  BY DEF OwnIn, UniqueIn

\* Moving a label to v and giving its holder the generated one keeps both.
LEMMA RelabelledUnique ==
  ASSUME TypeOK, LabelInv, NEW v \in VersionIds, NEW l \in UserLabels
  PROVE  OwnIn(status, Relabelled(v, l)) /\ UniqueIn(status, Relabelled(v, l))
<1> DEFINE lab == Relabelled(v, l)
           displaced == LiveHolders(RootOf[v], l) \ {v}
<1>1. \A w \in VersionIds :
        lab[w] = IF w \in displaced THEN PrevLabel[w]
                 ELSE IF w = v /\ HasRow(v) THEN l
                 ELSE label[w]
  BY DEF Relabelled
<1>2. \A w \in VersionIds :
        w \in displaced <=> /\ status[w] = "active" /\ RootOf[w] = RootOf[v]
                            /\ label[w] = l /\ w # v
  BY DEF LiveHolders
<1> HIDE DEF lab, displaced
<1>3. OwnIn(status, lab)
  BY <1>1, <1>2 DEF OwnIn, LabelInv, OwnLabels, HasRow
<1>4. ASSUME NEW w \in VersionIds, NEW x \in VersionIds,
             status[w] = "active", status[x] = "active",
             RootOf[w] = RootOf[x], lab[w] = lab[x]
      PROVE  w = x
  <2>1. label[w] \in UserLabels \cup {PrevLabel[w]} /\ label[x] \in UserLabels \cup {PrevLabel[x]}
    BY <1>4 DEF LabelInv, OwnLabels, HasRow
  <2>2. label[w] = label[x] => w = x
    BY <1>4 DEF LabelInv, LiveLabelsUnique
  <2>3. CASE w \in displaced \/ x \in displaced
    BY <1>1, <1>2, <1>4, <2>1, <2>3, LabelAssumption
  <2>4. CASE w \notin displaced /\ x \notin displaced
    BY <1>1, <1>2, <1>4, <2>1, <2>2, <2>4, LabelAssumption DEF HasRow
  <2>. QED
    BY <2>3, <2>4
<1>. QED
  BY <1>3, <1>4 DEF UniqueIn, lab

\* A new row whose label no live version of its root has keeps both.
LEMMA NewLabelUnique ==
  ASSUME TypeOK, LabelInv, NEW w \in VersionIds, NEW l \in UserLabels,
         LiveHolders(RootOf[w], l) = {},
         status' = [status EXCEPT ![w] = "active"],
         label' = [label EXCEPT ![w] = l]
  PROVE  LabelInv'
<1>1. \A v \in VersionIds : v # w => status'[v] = status[v] /\ label'[v] = label[v]
  BY DEF TypeOK
<1>2. status'[w] = "active" /\ label'[w] = l
  BY DEF TypeOK
<1>3. \A v \in VersionIds :
        ~ (status[v] = "active" /\ RootOf[v] = RootOf[w] /\ label[v] = l)
  BY DEF LiveHolders
<1>. QED
  BY <1>1, <1>2, <1>3 DEF LabelInv, OwnLabels, LiveLabelsUnique, HasRow

\* No version, no label.
LEMMA InitLabels == Init => LabelInv
  BY DEF Init, LabelInv, OwnLabels, LiveLabelsUnique, HasRow

\* Every operation that gives out a label checks for, or renames, its holder.
LEMMA NextLabels == TypeOK /\ LabelInv /\ [Next]_vars => LabelInv'
<1> SUFFICES ASSUME TypeOK, LabelInv, [Next]_vars PROVE LabelInv'
  OBVIOUS
<1>1. OwnIn(status, label) /\ UniqueIn(status, label)
  BY DEF LabelInv, OwnLabels, LiveLabelsUnique, OwnIn, UniqueIn, HasRow
<1>2. OwnIn(status', label') /\ UniqueIn(status', label') => LabelInv'
  BY DEF LabelInv, OwnLabels, LiveLabelsUnique, OwnIn, UniqueIn, HasRow
<1>3. CASE UNCHANGED <<status, label>>
  BY <1>1, <1>2, <1>3
<1>4. ASSUME NEW v \in VersionIds, NEW w \in VersionIds, NEW l \in UserLabels,
             EnsureVersion(v, l) \/ Fork(v, w, l) \/ MkdirVersioned(v, w)
      PROVE  LabelInv'
  BY <1>4, NewLabelUnique, LabelAssumption DEF EnsureVersion, Fork, MkdirVersioned
<1>5. ASSUME NEW v \in VersionIds, NEW l \in UserLabels,
             PromoteDetached(v, l) \/ \E swap \in BOOLEAN : RenameVersion(v, l, swap)
      PROVE  LabelInv'
  BY <1>2, <1>5, RelabelledUnique DEF PromoteDetached, RenameVersion
<1>6. ASSUME NEW v \in VersionIds, NEW l \in UserLabels, PromoteRetain(v, l)
      PROVE  LabelInv'
  <2>1. \A w \in VersionIds :
          status'[w] = IF w \in LiveHolders(RootOf[v], l) \ {v} THEN "deleted"
                       ELSE status[w]
    BY <1>6 DEF PromoteRetain
  <2>2. \A w \in VersionIds : status'[w] \in {"active", "deleted"} =>
          /\ label'[w] = Relabelled(v, l)[w]
          /\ status[w] \in {"active", "deleted"}
          /\ status'[w] = "active" => status[w] = "active"
    BY <1>6, <2>1 DEF PromoteRetain, LiveHolders
  <2>. QED
    BY <1>2, <2>2, RelabelledUnique, FewerRows
<1>7. ASSUME NEW v \in VersionIds, SoftDelete(v) PROVE LabelInv'
  <2>1. \A w \in VersionIds : status'[w] \in {"active", "deleted"} =>
          /\ label'[w] = label[w]
          /\ status[w] \in {"active", "deleted"}
          /\ status'[w] = "active" => status[w] = "active"
    BY <1>7 DEF SoftDelete, TypeOK
  <2>. QED
    BY <1>1, <1>2, <2>1, FewerRows
<1>8. ASSUME NEW S, status' = RemovedStatus(S), label' = RemovedLabel(S)
      PROVE  LabelInv'
  <2>1. \A w \in VersionIds : status'[w] \in {"active", "deleted"} =>
          /\ label'[w] = label[w]
          /\ status[w] \in {"active", "deleted"}
          /\ status'[w] = "active" => status[w] = "active"
    BY <1>8 DEF RemovedStatus, RemovedLabel
  <2>. QED
    BY <1>1, <1>2, <2>1, FewerRows
<1>9. ASSUME NEW v \in VersionIds, NEW t \in VersionIds, NEW l \in UserLabels,
             PromoteDiscard(v, t, l)
      PROVE  LabelInv'
  <2>1. \A w \in VersionIds : status'[w] \in {"active", "deleted"} =>
          /\ label'[w] = Relabelled(v, l)[w]
          /\ status[w] \in {"active", "deleted"}
          /\ status'[w] = "active" => status[w] = "active"
    BY <1>9 DEF PromoteDiscard, RemovedStatus, Relabelled
  <2>. QED
    BY <1>2, <2>1, RelabelledUnique, FewerRows
<1>10. CASE Create
  BY <1>4, <1>10, LabelAssumption DEF Create
<1>11. CASE Write
  BY <1>3, <1>11 DEF Write, WriteFile, Mkdir, Rm, graph
<1>12. CASE Relabel
  BY <1>5, <1>6, <1>12 DEF Relabel
<1>13. CASE Flatten
  BY <1>3, <1>5, <1>13 DEF Flatten, Detach
<1>14. CASE Remove
  <2>1. ASSUME NEW v \in VersionIds, HardDelete(v) PROVE LabelInv'
    BY <1>8, <2>1 DEF HardDelete
  <2>2. ASSUME NEW r \in VersionRoots, SweepHistory(r) PROVE LabelInv'
    BY <1>8, <2>2 DEF SweepHistory
  <2>3. ASSUME NEW v \in VersionIds, NEW r \in VersionRoots, RemoveVersionRoot(v, r)
        PROVE  LabelInv'
    BY <1>8, <2>3 DEF RemoveVersionRoot
  <2>. QED
    BY <1>7, <1>9, <1>14, <2>1, <2>2, <2>3 DEF Remove
<1>. QED
  BY <1>3, <1>10, <1>11, <1>12, <1>13, <1>14 DEF Next, vars

\* The application-level checks alone keep a label from naming two live
\* versions of a root, generated labels included.
THEOREM LabelsUnique == Spec => []LiveLabelsUnique
<1>1. LabelInv => LiveLabelsUnique
  BY DEF LabelInv
<1>. QED
  BY <1>1, TypeCorrect, InitLabels, NextLabels, PTL DEF Spec

-----------------------------------------------------------------------------
(* The closure table.                                                      *)

\* Forest: the facts about statuses, parents and closure rows that the
\* operations preserve together.  ClosureFollowsParents alone is not inductive:
\* removing a row needs that no row mentions an id that has none (RowsExist),
\* and detaching v needs that no descendant of v is also its ancestor
\* (NoCycles), or v would keep ancestors its NULL parent does not have.  That
\* depths add up along the one chain of a version's ancestors (DepthsAdd,
\* OneChain) is what makes the nearest row of a path unique.
Lives(st, v) == st[v] \in {"active", "deleted"}

ParentsIn(st, par) ==
  \A v \in VersionIds : par[v] # NoVersion =>
    Lives(st, v) /\ par[v] \in VersionIds /\ Lives(st, par[v]) /\ RootOf[par[v]] = RootOf[v]

RowsExist(st, clo) ==
  \A d, a \in VersionIds : clo[d][a] # NoRow =>
    Lives(st, d) /\ Lives(st, a) /\ RootOf[a] = RootOf[d]

FollowsParents(st, par, clo) ==
  \A d, a \in VersionIds :
    clo[d][a] = IF ~Lives(st, d) THEN NoRow
                ELSE IF a = d THEN 0
                ELSE IF par[d] = NoVersion THEN NoRow
                ELSE IF clo[par[d]][a] = NoRow THEN NoRow
                ELSE clo[par[d]][a] + 1

NoCycles(clo) ==
  \A d, a \in VersionIds : clo[d][a] # NoRow /\ clo[a][d] # NoRow => d = a

DepthsAdd(clo) ==
  \A d, x, a \in VersionIds :
    clo[d][x] # NoRow /\ clo[x][a] # NoRow => clo[d][a] = clo[d][x] + clo[x][a]

OneChain(clo) ==
  \A d, a, b \in VersionIds :
    clo[d][a] # NoRow /\ clo[d][b] # NoRow => clo[a][b] # NoRow \/ clo[b][a] # NoRow

Forest(st, par, clo) ==
  /\ ParentsIn(st, par)
  /\ RowsExist(st, clo)
  /\ FollowsParents(st, par, clo)
  /\ NoCycles(clo)
  /\ DepthsAdd(clo) /\ OneChain(clo)

ForestInv == Forest(status, parent, closure)

\* What the forest conjuncts say in the words of the checked invariants.
LEMMA ForestImplies ==
  TypeOK /\ ForestInv => ClosureFollowsParents /\ ParentsExist /\ GoneShowsNothing
<1> SUFFICES ASSUME TypeOK, ForestInv
             PROVE  ClosureFollowsParents /\ ParentsExist /\ GoneShowsNothing
  OBVIOUS
<1>1. ClosureFollowsParents
  BY DEF ForestInv, Forest, FollowsParents, ClosureFollowsParents, Lives, HasRow, IsAncestor
<1>2. ParentsExist
  BY DEF ForestInv, Forest, ParentsIn, ParentsExist, Lives, HasRow
<1>3. GoneShowsNothing
  <2>1. ASSUME NEW v \in VersionIds, NEW p \in Paths, ~HasRow(v)
        PROVE  Holders(v, p) = {}
    BY <2>1 DEF ForestInv, Forest, RowsExist, Lives, HasRow, Holders, IsAncestor
  <2>. QED
    BY <2>1 DEF GoneShowsNothing, Resolve
<1>. QED
  BY <1>1, <1>2, <1>3

\* Statuses matter only as far as they say which ids have a row.
LEMMA SameForest ==
  ASSUME NEW st, NEW par, NEW clo, Forest(st, par, clo),
         NEW st2, \A v \in VersionIds : Lives(st2, v) <=> Lives(st, v)
  PROVE  Forest(st2, par, clo)
  BY DEF Forest, ParentsIn, RowsExist, FollowsParents

\* A new version w without a parent, or with a parent b that has a row.
Added(w, b) ==
  /\ status[w] = "unused"
  /\ b # NoVersion => b \in VersionIds /\ HasRow(b) /\ RootOf[b] = RootOf[w]
  /\ status' = [status EXCEPT ![w] = "active"]
  /\ \A v \in VersionIds : parent'[v] = IF v = w THEN b ELSE parent[v]
  /\ \A d, a \in VersionIds :
       closure'[d][a] = IF d # w THEN closure[d][a]
                        ELSE IF a = w THEN 0
                        ELSE IF b = NoVersion THEN NoRow
                        ELSE IF closure[b][a] = NoRow THEN NoRow
                        ELSE closure[b][a] + 1

\* A new version without children, under a parent or none, extends the forest:
\* the INSERTs of ensureVersion and fork.
LEMMA NewForest ==
  ASSUME TypeOK, ForestInv, NEW w \in VersionIds, NEW b, Added(w, b)
  PROVE  ForestInv'
<1> USE DEF Added
<1>1. /\ ~Lives(status, w)
      /\ \A v \in VersionIds : Lives(status', v) <=> v = w \/ Lives(status, v)
  BY DEF Lives, TypeOK
<1>2. \A d \in VersionIds : closure[d][w] = NoRow /\ closure[w][d] = NoRow /\ parent[d] # w
  BY <1>1, SentinelAssumption DEF ForestInv, Forest, RowsExist, ParentsIn
<1>3. b # w
  BY <1>1, SentinelAssumption DEF HasRow, Lives
<1>4. parent \in [VersionIds -> VersionIds \cup {NoVersion}]
  BY DEF TypeOK
<1>5. ParentsIn(status', parent')
  BY <1>1, <1>2, <1>3 DEF ForestInv, Forest, ParentsIn, HasRow, Lives
<1>6. RowsExist(status', closure')
  BY <1>1, <1>2, <1>3 DEF ForestInv, Forest, RowsExist, HasRow, Lives
<1>7. FollowsParents(status', parent', closure')
  <2> SUFFICES ASSUME NEW d \in VersionIds, NEW a \in VersionIds
               PROVE  closure'[d][a] = IF ~Lives(status', d) THEN NoRow
                                       ELSE IF a = d THEN 0
                                       ELSE IF parent'[d] = NoVersion THEN NoRow
                                       ELSE IF closure'[parent'[d]][a] = NoRow THEN NoRow
                                       ELSE closure'[parent'[d]][a] + 1
    BY DEF FollowsParents
  <2>1. CASE d = w
    <3>1. Lives(status', d) /\ parent'[d] = b
      BY <1>1, <2>1
    <3>2. b # NoVersion => closure'[b][a] = closure[b][a]
      BY <1>3
    <3>. QED
      BY <2>1, <3>1, <3>2
  <2>2. CASE d # w
    <3>1. parent'[d] = parent[d] /\ parent[d] # w /\ closure'[d][a] = closure[d][a]
      BY <1>2, <2>2
    <3>2. parent[d] # NoVersion => closure'[parent[d]][a] = closure[parent[d]][a]
      BY <1>2, <1>4
    <3>3. closure[d][a] = IF ~Lives(status, d) THEN NoRow
                          ELSE IF a = d THEN 0
                          ELSE IF parent[d] = NoVersion THEN NoRow
                          ELSE IF closure[parent[d]][a] = NoRow THEN NoRow
                          ELSE closure[parent[d]][a] + 1
      BY DEF ForestInv, Forest, FollowsParents
    <3>. QED
      BY <1>1, <2>2, <3>1, <3>2, <3>3
  <2>. QED
    BY <2>1, <2>2
<1>8. NoCycles(closure')
  BY <1>1, <1>2, <1>3 DEF ForestInv, Forest, NoCycles
<1>9. closure \in [VersionIds -> [VersionIds -> Nat \cup {NoRow}]]
  BY DEF TypeOK
<1>10. DepthsAdd(closure')
  <2> SUFFICES ASSUME NEW d \in VersionIds, NEW x \in VersionIds, NEW a \in VersionIds,
                      closure'[d][x] # NoRow, closure'[x][a] # NoRow
               PROVE  closure'[d][a] = closure'[d][x] + closure'[x][a]
    BY DEF DepthsAdd
  <2>1. CASE d # w
    BY <1>2, <2>1 DEF ForestInv, Forest, DepthsAdd
  <2>2. CASE d = w /\ x = w
    BY <1>9, <2>2 DEF NoRow
  <2>3. CASE d = w /\ x # w
    <3>1. /\ b \in VersionIds /\ a # w
          /\ closure[b][x] # NoRow /\ closure[x][a] # NoRow
          /\ closure'[w][x] = closure[b][x] + 1 /\ closure'[x][a] = closure[x][a]
      BY <1>2, <2>3
    <3>2. closure[b][a] = closure[b][x] + closure[x][a]
      BY <3>1 DEF ForestInv, Forest, DepthsAdd
    <3>3. closure[b][x] \in Nat /\ closure[x][a] \in Nat
      BY <1>9, <3>1
    <3>4. closure'[w][a] = closure[b][a] + 1
      BY <3>1, <3>2, <3>3 DEF NoRow
    <3>. QED
      BY <2>3, <3>1, <3>2, <3>3, <3>4
  <2>. QED
    BY <2>1, <2>2, <2>3
<1>11. OneChain(closure')
  <2> SUFFICES ASSUME NEW d \in VersionIds, NEW x \in VersionIds, NEW a \in VersionIds,
                      closure'[d][x] # NoRow, closure'[d][a] # NoRow
               PROVE  closure'[x][a] # NoRow \/ closure'[a][x] # NoRow
    BY DEF OneChain
  <2>1. CASE d # w \/ x = w \/ a = w
    BY <1>2, <2>1 DEF ForestInv, Forest, OneChain
  <2>2. CASE d = w /\ x # w /\ a # w
    BY <1>2, <2>2 DEF ForestInv, Forest, OneChain
  <2>. QED
    BY <2>1, <2>2
<1>. QED
  BY <1>5, <1>6, <1>7, <1>8, <1>10, <1>11 DEF ForestInv, Forest

\* Detaching v: the rows that leave its subtree go, its parent is NULL.
LEMMA DetachForest ==
  ASSUME TypeOK, ForestInv, NEW v \in VersionIds
  PROVE  Forest(status, [parent EXCEPT ![v] = NoVersion], WithoutOuterRows(v))
<1> DEFINE par == [parent EXCEPT ![v] = NoVersion]
           clo == WithoutOuterRows(v)
<1>1. \A d \in VersionIds : par[d] = IF d = v THEN NoVersion ELSE parent[d]
  BY DEF TypeOK
<1>2. \A d, a \in VersionIds :
        clo[d][a] = IF closure[d][v] # NoRow /\ closure[a][v] = NoRow THEN NoRow
                    ELSE closure[d][a]
  BY DEF WithoutOuterRows, IsAncestor
<1> HIDE DEF par, clo
<1>3. parent \in [VersionIds -> VersionIds \cup {NoVersion}]
  BY DEF TypeOK
<1>4. ParentsIn(status, par)
  BY <1>1 DEF ForestInv, Forest, ParentsIn
<1>5. RowsExist(status, clo)
  BY <1>2 DEF ForestInv, Forest, RowsExist
<1>6. NoCycles(clo)
  BY <1>2 DEF ForestInv, Forest, NoCycles
<1>7. FollowsParents(status, par, clo)
  <2> SUFFICES ASSUME NEW d \in VersionIds, NEW a \in VersionIds
               PROVE  clo[d][a] = IF ~Lives(status, d) THEN NoRow
                                  ELSE IF a = d THEN 0
                                  ELSE IF par[d] = NoVersion THEN NoRow
                                  ELSE IF clo[par[d]][a] = NoRow THEN NoRow
                                  ELSE clo[par[d]][a] + 1
    BY DEF FollowsParents
  <2>1. CASE ~Lives(status, d) \/ a = d
    BY <1>2, <2>1 DEF ForestInv, Forest, FollowsParents
  <2>2. CASE Lives(status, d) /\ a # d /\ d = v
    BY <1>1, <1>2, <2>2 DEF ForestInv, Forest, FollowsParents, NoCycles, NoRow
  <2>3. CASE Lives(status, d) /\ a # d /\ d # v
    <3>1. closure[d][v] = IF parent[d] = NoVersion THEN NoRow
                          ELSE IF closure[parent[d]][v] = NoRow THEN NoRow
                          ELSE closure[parent[d]][v] + 1
      BY <2>3 DEF ForestInv, Forest, FollowsParents
    <3>2. closure[d][a] = IF parent[d] = NoVersion THEN NoRow
                          ELSE IF closure[parent[d]][a] = NoRow THEN NoRow
                          ELSE closure[parent[d]][a] + 1
      BY <2>3 DEF ForestInv, Forest, FollowsParents
    <3>3. parent[d] # NoVersion => closure[parent[d]][v] \in Nat \cup {NoRow}
      BY <1>3 DEF TypeOK
    <3>. QED
      BY <1>1, <1>2, <1>3, <2>3, <3>1, <3>2, <3>3 DEF NoRow
  <2>. QED
    BY <2>1, <2>2, <2>3
<1>8. closure \in [VersionIds -> [VersionIds -> Nat \cup {NoRow}]]
  BY DEF TypeOK
<1>9. DepthsAdd(clo)
  <2> SUFFICES ASSUME NEW d \in VersionIds, NEW x \in VersionIds, NEW a \in VersionIds,
                      clo[d][x] # NoRow, clo[x][a] # NoRow
               PROVE  clo[d][a] = clo[d][x] + clo[x][a]
    BY DEF DepthsAdd
  <2>1. closure[d][a] = closure[d][x] + closure[x][a]
    BY <1>2 DEF ForestInv, Forest, DepthsAdd
  <2>. QED
    BY <1>2, <2>1
<1>10. OneChain(clo)
  <2> SUFFICES ASSUME NEW d \in VersionIds, NEW a \in VersionIds, NEW b \in VersionIds,
                      clo[d][a] # NoRow, clo[d][b] # NoRow,
                      closure[a][b] # NoRow
               PROVE  clo[a][b] # NoRow
    BY <1>2 DEF OneChain, ForestInv, Forest
  <2>1. closure[d][a] # NoRow
    BY <1>2
  <2>2. closure[a][v] # NoRow => closure[d][v] # NoRow
    BY <1>8, <2>1 DEF ForestInv, Forest, DepthsAdd, NoRow
  <2>. QED
    BY <1>2, <2>2
<1>. QED
  BY <1>4, <1>5, <1>6, <1>7, <1>9, <1>10 DEF Forest, par, clo

\* From parents par and rows clo, the versions in S go, none of which is the
\* parent of one that stays.
Removed(par, clo, S) ==
  /\ \A d \in VersionIds : d \notin S => par[d] \notin S
  /\ \A v \in VersionIds : status'[v] = IF v \in S THEN "gone" ELSE status[v]
  /\ \A v \in VersionIds : parent'[v] = IF v \in S THEN NoVersion ELSE par[v]
  /\ \A d, a \in VersionIds :
       closure'[d][a] = IF d \in S \/ a \in S THEN NoRow ELSE clo[d][a]

\* Removing childless versions, or a whole root, leaves a forest: the DELETEs
\* of hardDeleteVersionById, sweepHistory and removeVersionRoot.
LEMMA RemoveForest ==
  ASSUME NEW par \in [VersionIds -> VersionIds \cup {NoVersion}], NEW clo,
         Forest(status, par, clo), NEW S, Removed(par, clo, S)
  PROVE  ForestInv'
<1> USE DEF Removed
<1>1. \A v \in VersionIds : Lives(status', v) <=> v \notin S /\ Lives(status, v)
  BY DEF Lives
<1>2. ParentsIn(status', parent')
  BY <1>1 DEF Forest, ParentsIn
<1>3. RowsExist(status', closure')
  BY <1>1 DEF Forest, RowsExist
<1>4. FollowsParents(status', parent', closure')
  <2> SUFFICES ASSUME NEW d \in VersionIds, NEW a \in VersionIds
               PROVE  closure'[d][a] = IF ~Lives(status', d) THEN NoRow
                                   ELSE IF a = d THEN 0
                                   ELSE IF parent'[d] = NoVersion THEN NoRow
                                   ELSE IF closure'[parent'[d]][a] = NoRow THEN NoRow
                                   ELSE closure'[parent'[d]][a] + 1
    BY DEF FollowsParents
  <2>1. clo[d][a] = IF ~Lives(status, d) THEN NoRow
                    ELSE IF a = d THEN 0
                    ELSE IF par[d] = NoVersion THEN NoRow
                    ELSE IF clo[par[d]][a] = NoRow THEN NoRow
                    ELSE clo[par[d]][a] + 1
    BY DEF Forest, FollowsParents
  <2>. QED
    BY <1>1, <2>1
<1>5. NoCycles(closure')
  BY DEF Forest, NoCycles
<1>6. DepthsAdd(closure') /\ OneChain(closure')
  BY DEF Forest, DepthsAdd, OneChain
<1>. QED
  BY <1>2, <1>3, <1>4, <1>5, <1>6 DEF Forest, ForestInv

\* The sweep of root r: what is left of it are parentless live versions.
LEMMA SweepForest ==
  ASSUME TypeOK, ForestInv, NEW r \in VersionRoots, SweepHistory(r)
  PROVE  ForestInv'
<1> DEFINE active == {v \in VersionIds : RootOf[v] = r /\ status[v] = "active"}
           inactive == {v \in VersionIds : RootOf[v] = r /\ status[v] = "deleted"}
           mine == active \cup inactive
<1>1. \A v \in VersionIds : v \in mine <=> Lives(status, v) /\ RootOf[v] = r
  BY DEF Lives
<1>2. \A v \in VersionIds : /\ v \in inactive => v \in mine /\ status[v] = "deleted"
                            /\ v \in mine \ inactive => v \in active
  OBVIOUS
<1>3. \A v \in VersionIds :
        /\ status'[v] = IF v \in inactive THEN "gone" ELSE status[v]
        /\ parent'[v] = IF v \in mine THEN NoVersion ELSE parent[v]
  BY DEF SweepHistory, RemovedStatus, RemovedParent
<1>4. closure' = [v \in VersionIds |-> IF v \in active THEN SelfOnly(v)
                                       ELSE RemovedClosure(closure, mine)[v]]
  BY DEF SweepHistory
<1>5. \A v, a \in VersionIds :
        closure'[v][a] = IF v \in active THEN IF a = v THEN 0 ELSE NoRow
                         ELSE IF v \in mine \/ a \in mine THEN NoRow
                         ELSE closure[v][a]
  BY <1>4 DEF RemovedClosure, SelfOnly
<1>6. \A v \in VersionIds :
        v \in active => Lives(status, v) /\ v \notin inactive /\ v \in mine
  BY DEF Lives
<1> HIDE DEF active, inactive, mine
<1>7. \A v \in VersionIds : Lives(status', v) <=> Lives(status, v) /\ v \notin inactive
  BY <1>3 DEF Lives
<1>8. \A d, a \in VersionIds : closure[d][a] # NoRow => (d \in mine <=> a \in mine)
  BY <1>1 DEF ForestInv, Forest, RowsExist
<1>9. parent \in [VersionIds -> VersionIds \cup {NoVersion}]
  BY DEF TypeOK
<1>10. ParentsIn(status', parent')
  BY <1>1, <1>2, <1>3, <1>7 DEF ForestInv, Forest, ParentsIn
<1>11. RowsExist(status', closure')
  BY <1>1, <1>2, <1>5, <1>6, <1>7 DEF ForestInv, Forest, RowsExist
<1>12. NoCycles(closure')
  BY <1>5 DEF ForestInv, Forest, NoCycles
<1>13. FollowsParents(status', parent', closure')
  <2> SUFFICES ASSUME NEW d \in VersionIds, NEW a \in VersionIds
               PROVE  closure'[d][a] = IF ~Lives(status', d) THEN NoRow
                                       ELSE IF a = d THEN 0
                                       ELSE IF parent'[d] = NoVersion THEN NoRow
                                       ELSE IF closure'[parent'[d]][a] = NoRow THEN NoRow
                                       ELSE closure'[parent'[d]][a] + 1
    BY DEF FollowsParents
  <2>1. CASE d \in mine
    BY <1>1, <1>2, <1>3, <1>5, <1>6, <1>7, <2>1
  <2>2. CASE d \notin mine
    <3>1. closure[d][a] = IF ~Lives(status, d) THEN NoRow
                          ELSE IF a = d THEN 0
                          ELSE IF parent[d] = NoVersion THEN NoRow
                          ELSE IF closure[parent[d]][a] = NoRow THEN NoRow
                          ELSE closure[parent[d]][a] + 1
      BY DEF ForestInv, Forest, FollowsParents
    <3>2. parent[d] # NoVersion => parent[d] \in VersionIds /\ parent[d] \notin mine
      BY <1>1, <1>9, <2>2 DEF ForestInv, Forest, ParentsIn
    <3>3. closure'[d][a] = closure[d][a] /\ parent'[d] = parent[d]
      BY <1>1, <1>3, <1>5, <1>6, <1>8, <2>2
    <3>4. parent[d] # NoVersion => closure'[parent[d]][a] = closure[parent[d]][a]
      BY <1>1, <1>5, <1>6, <1>8, <3>2
    <3>5. Lives(status', d) <=> Lives(status, d)
      BY <1>2, <1>7, <2>2
    <3>. QED
      BY <3>1, <3>3, <3>4, <3>5
  <2>. QED
    BY <2>1, <2>2
<1>14. DepthsAdd(closure') /\ OneChain(closure')
  BY <1>5, <1>6 DEF ForestInv, Forest, DepthsAdd, OneChain
<1>. QED
  BY <1>10, <1>11, <1>12, <1>13, <1>14 DEF ForestInv, Forest

\* No version, no closure row.
LEMMA InitForest == Init => ForestInv
  BY DEF Init, ForestInv, Forest, ParentsIn, RowsExist, FollowsParents, NoCycles, Lives,
            DepthsAdd, OneChain

\* Every operation leaves the closure table the reachability of the parents.
LEMMA NextForest == TypeOK /\ ForestInv /\ [Next]_vars => ForestInv'
<1> SUFFICES ASSUME TypeOK, ForestInv, [Next]_vars PROVE ForestInv'
  OBVIOUS
<1>1. CASE UNCHANGED <<parent, closure>>
           /\ \A v \in VersionIds : Lives(status', v) <=> Lives(status, v)
  BY <1>1, SameForest DEF ForestInv
<1>2. ASSUME NEW v \in VersionIds, NEW w \in VersionIds, NEW l \in UserLabels,
             EnsureVersion(v, l) \/ MkdirVersioned(w, v)
      PROVE  ForestInv'
  <2>1. status[v] = "unused" /\ status' = [status EXCEPT ![v] = "active"]
        /\ parent' = parent /\ closure' = [closure EXCEPT ![v] = SelfOnly(v)]
    BY <1>2 DEF EnsureVersion, MkdirVersioned
  <2>2. parent[v] = NoVersion
    BY <2>1 DEF ForestInv, Forest, ParentsIn, Lives
  <2>3. Added(v, NoVersion)
    BY <2>1, <2>2 DEF TypeOK, SelfOnly, Added
  <2>. QED
    BY <2>3, NewForest
<1>3. ASSUME NEW v \in VersionIds, NEW w \in VersionIds, NEW l \in UserLabels,
             Fork(v, w, l)
      PROVE  ForestInv'
  <2>1. /\ HasRow(v) /\ RootOf[v] = RootOf[w] /\ status[w] = "unused"
        /\ status' = [status EXCEPT ![w] = "active"]
        /\ v # NoVersion
    BY <1>3, SentinelAssumption DEF Fork
  <2>2. \A d \in VersionIds : parent'[d] = IF d = w THEN v ELSE parent[d]
    BY <1>3 DEF Fork, TypeOK
  <2>3. \A d, a \in VersionIds :
          closure'[d][a] = IF d # w THEN closure[d][a]
                           ELSE IF a = w THEN 0
                           ELSE IF closure[v][a] = NoRow THEN NoRow
                           ELSE closure[v][a] + 1
    BY <1>3 DEF Fork, TypeOK, IsAncestor
  <2>4. Added(w, v)
    BY <2>1, <2>2, <2>3 DEF Added
  <2>. QED
    BY <2>4, NewForest
<1>4. ASSUME NEW v \in VersionIds,
             Detach(v) \/ \E l \in UserLabels : PromoteDetached(v, l)
      PROVE  ForestInv'
  BY <1>4, DetachForest DEF Detach, PromoteDetached, ForestInv
<1>5. ASSUME NEW v \in VersionIds, SoftDelete(v)
      PROVE  \A w \in VersionIds : Lives(status', w) <=> Lives(status, w)
  BY <1>5 DEF SoftDelete, Lives, TypeOK
<1>6. ASSUME NEW v \in VersionIds, NEW l \in UserLabels, PromoteRetain(v, l)
      PROVE  \A w \in VersionIds : Lives(status', w) <=> Lives(status, w)
  BY <1>6 DEF PromoteRetain, Lives, LiveHolders
<1>7. ASSUME NEW v \in VersionIds, HardDelete(v) PROVE ForestInv'
  <2>1. \A d \in VersionIds : d \notin {v} => parent[d] \notin {v}
    BY <1>7, SentinelAssumption
    DEF HardDelete, Children, ForestInv, Forest, ParentsIn, Lives, HasRow
  <2>2. Removed(parent, closure, {v})
    BY <1>7, <2>1
    DEF Removed, HardDelete, RemovedStatus, RemovedParent, RemovedClosure
  <2>. QED
    BY <2>2, RemoveForest DEF ForestInv, TypeOK
<1>8. ASSUME NEW v \in VersionIds, NEW t \in VersionIds, NEW l \in UserLabels,
             PromoteDiscard(v, t, l)
      PROVE  ForestInv'
  <2> DEFINE par == [parent EXCEPT ![v] = NoVersion]
             clo == WithoutOuterRows(v)
  <2>1. Forest(status, par, clo) /\ par \in [VersionIds -> VersionIds \cup {NoVersion}]
    BY DetachForest DEF TypeOK
  <2>2. \A d \in VersionIds : d \notin {t} => par[d] \notin {t}
    BY <1>8, SentinelAssumption
    DEF PromoteDiscard, Children, ForestInv, Forest, ParentsIn, Lives, HasRow, TypeOK
  <2>3. \A d \in VersionIds : /\ status'[d] = IF d \in {t} THEN "gone" ELSE status[d]
                              /\ parent'[d] = IF d \in {t} THEN NoVersion ELSE par[d]
    BY <1>8 DEF PromoteDiscard, RemovedStatus, RemovedParent, TypeOK
  <2>4. \A d, a \in VersionIds :
          closure'[d][a] = IF d \in {t} \/ a \in {t} THEN NoRow ELSE clo[d][a]
    BY <1>8 DEF PromoteDiscard, RemovedClosure
  <2> HIDE DEF par, clo
  <2>5. Removed(par, clo, {t})
    BY <2>2, <2>3, <2>4 DEF Removed
  <2>. QED
    BY <2>1, <2>5, RemoveForest
<1>9. ASSUME NEW v \in VersionIds, NEW r \in VersionRoots, RemoveVersionRoot(v, r)
      PROVE  ForestInv'
  <2> DEFINE owned == {w \in VersionIds : RootOf[w] = r /\ HasRow(w)}
  <2>1. \A d \in VersionIds : d \notin owned => parent[d] \notin owned
    BY SentinelAssumption DEF ForestInv, Forest, ParentsIn, Lives, HasRow
  <2>2. /\ status' = RemovedStatus(owned)
        /\ parent' = RemovedParent(owned)
        /\ closure' = RemovedClosure(closure, owned)
    BY <1>9 DEF RemoveVersionRoot
  <2> HIDE DEF owned
  <2>3. Removed(parent, closure, owned)
    BY <2>1, <2>2 DEF Removed, RemovedStatus, RemovedParent, RemovedClosure
  <2>. QED
    BY <2>3, RemoveForest DEF ForestInv, TypeOK
<1>10. CASE Create
  BY <1>2, <1>3, <1>10, LabelAssumption DEF Create
<1>11. CASE Write
  BY <1>1, <1>11 DEF Write, WriteFile, Mkdir, Rm, graph
<1>12. CASE Relabel
  BY <1>1, <1>6, <1>12 DEF Relabel, RenameVersion, PromoteRetain
<1>13. CASE Flatten
  BY <1>4, <1>13 DEF Flatten
<1>14. CASE Remove
  <2>1. ASSUME NEW v \in VersionIds, SoftDelete(v) PROVE ForestInv'
    BY <1>1, <1>5, <2>1 DEF SoftDelete
  <2>. QED
    BY <1>7, <1>8, <1>9, <1>14, <2>1, SweepForest DEF Remove
<1>. QED
  BY <1>1, <1>10, <1>11, <1>12, <1>13, <1>14 DEF Next, vars

\* The closure table is the reflexive-transitive closure of the parent
\* pointers in every reachable state, for any number of versions and roots.
THEOREM ClosureCorrect == Spec => []ClosureFollowsParents
  BY TypeCorrect, InitForest, NextForest, ForestImplies, PTL DEF Spec

\* No operation leaves a parent pointer to a version without a row.
THEOREM ParentsCorrect == Spec => []ParentsExist
  BY TypeCorrect, InitForest, NextForest, ForestImplies, PTL DEF Spec

\* Rows written for the id of a deleted version never become visible.
THEOREM GoneIsInvisible == Spec => []GoneShowsNothing
  BY TypeCorrect, InitForest, NextForest, ForestImplies, PTL DEF Spec

-----------------------------------------------------------------------------
(* What detach must not change.                                            *)

\* a is the nearest ancestor of d with a row for p; what it shows there is x.
NearestRow(clo, ents, d, p, a) ==
  /\ clo[d][a] # NoRow /\ ents[a][p] # Absent
  /\ \A b \in VersionIds :
       clo[d][b] # NoRow /\ ents[b][p] # Absent => clo[d][a] <= clo[d][b]

NoHolder(clo, ents, d, p) ==
  \A a \in VersionIds : clo[d][a] = NoRow \/ ents[a][p] = Absent

Shown(row) == IF row = Tombstone THEN Absent ELSE row

\* Two ancestors of one version are at different depths.
LEMMA DepthsDiffer ==
  TypeOK /\ ForestInv =>
    \A d, a, b \in VersionIds :
      closure[d][a] # NoRow /\ closure[d][a] = closure[d][b] => a = b
<1> SUFFICES ASSUME TypeOK, ForestInv,
                    NEW d \in VersionIds, NEW a \in VersionIds, NEW b \in VersionIds,
                    closure[d][a] # NoRow, closure[d][a] = closure[d][b]
             PROVE  a = b
  OBVIOUS
<1>1. \A x, y \in VersionIds : closure[x][y] \in Nat \cup {NoRow}
  BY DEF TypeOK
<1>2. \A x, y \in VersionIds : closure[x][y] = 0 => x = y
  BY <1>1 DEF ForestInv, Forest, FollowsParents, NoRow, ParentsIn
<1>3. closure[a][b] # NoRow \/ closure[b][a] # NoRow
  BY DEF ForestInv, Forest, OneChain
<1>4. CASE closure[a][b] # NoRow
  <2>1. closure[d][b] = closure[d][a] + closure[a][b]
    BY <1>4 DEF ForestInv, Forest, DepthsAdd
  <2>. QED
    BY <1>1, <1>2, <1>4, <2>1
<1>5. CASE closure[b][a] # NoRow
  <2>1. closure[d][a] = closure[d][b] + closure[b][a]
    BY <1>5 DEF ForestInv, Forest, DepthsAdd
  <2>. QED
    BY <1>1, <1>2, <1>5, <2>1
<1>. QED
  BY <1>3, <1>4, <1>5

\* ORDER BY depth LIMIT 1 has one answer, so Resolve is what any nearest row
\* shows, or Absent when no ancestor has one.
NearestDecides ==
  \A d \in VersionIds, p \in Paths :
    /\ NoHolder(closure, entries, d, p) => Resolve(d, p) = Absent
    /\ \A a \in VersionIds :
         NearestRow(closure, entries, d, p, a) => Resolve(d, p) = Shown(entries[a][p])
    /\ \/ NoHolder(closure, entries, d, p)
       \/ \E a \in VersionIds : NearestRow(closure, entries, d, p, a)

\* The nearest holder is unique, so resolveEntry is a function of its depth.
LEMMA ResolveIs == TypeOK /\ ForestInv => NearestDecides
<1> SUFFICES ASSUME TypeOK, ForestInv, NEW d \in VersionIds, NEW p \in Paths
             PROVE  /\ NoHolder(closure, entries, d, p) => Resolve(d, p) = Absent
                    /\ \A a \in VersionIds :
                         NearestRow(closure, entries, d, p, a) =>
                           Resolve(d, p) = Shown(entries[a][p])
                    /\ \/ NoHolder(closure, entries, d, p)
                       \/ \E a \in VersionIds : NearestRow(closure, entries, d, p, a)
  BY DEF NearestDecides
<1> DEFINE n == Nearest(d, Holders(d, p))
<1>1. NoHolder(closure, entries, d, p) <=> Holders(d, p) = {}
  BY DEF NoHolder, Holders, IsAncestor
<1>2. Holders(d, p) # {} => n \in VersionIds /\ NearestRow(closure, entries, d, p, n)
  BY NearestExists DEF NearestRow, Holders, IsAncestor
<1>3. Resolve(d, p) = IF Holders(d, p) = {} THEN Absent ELSE Shown(entries[n][p])
  BY DEF Resolve, Shown
<1> HIDE DEF n
<1>4. ASSUME NEW a \in VersionIds, NearestRow(closure, entries, d, p, a)
      PROVE  Resolve(d, p) = Shown(entries[a][p])
  <2>1. Holders(d, p) # {}
    BY <1>4 DEF NearestRow, Holders, IsAncestor
  <2>2. closure[d][a] \in Nat /\ closure[d][n] \in Nat
    BY <1>2, <1>4, <2>1 DEF NearestRow, TypeOK
  <2>3. closure[d][a] = closure[d][n]
    BY <1>2, <1>4, <2>1, <2>2 DEF NearestRow
  <2>4. a = n
    BY <1>2, <1>4, <2>1, <2>3, DepthsDiffer DEF NearestRow
  <2>. QED
    BY <1>3, <2>1, <2>4
<1>. QED
  BY <1>1, <1>2, <1>3, <1>4

\* What a version shows at p: its own row if it has one, else what its parent
\* shows.  The query looks along the whole chain and never at a parent pointer.
LEMMA ResolveInherits ==
  ASSUME TypeOK, ForestInv, NEW v \in VersionIds, HasRow(v), NEW p \in Paths
  PROVE  Resolve(v, p) = IF entries[v][p] # Absent THEN Shown(entries[v][p])
                         ELSE IF parent[v] = NoVersion THEN Absent
                         ELSE Resolve(parent[v], p)
<1>1. \A x, y \in VersionIds : closure[x][y] \in Nat \cup {NoRow}
  BY DEF TypeOK
<1>2. \A x \in VersionIds :
        /\ NoHolder(closure, entries, x, p) => Resolve(x, p) = Absent
        /\ \A a \in VersionIds :
             NearestRow(closure, entries, x, p, a) => Resolve(x, p) = Shown(entries[a][p])
        /\ \/ NoHolder(closure, entries, x, p)
           \/ \E a \in VersionIds : NearestRow(closure, entries, x, p, a)
  BY ResolveIs DEF NearestDecides
<1>3. closure[v][v] = 0
  BY DEF ForestInv, Forest, FollowsParents, Lives, HasRow
<1>4. CASE entries[v][p] # Absent
  <2>1. NearestRow(closure, entries, v, p, v)
    BY <1>1, <1>3, <1>4 DEF NearestRow, NoRow
  <2>. QED
    BY <1>2, <1>4, <2>1
<1>5. CASE entries[v][p] = Absent /\ parent[v] = NoVersion
  <2>1. \A a \in VersionIds : a # v => closure[v][a] = NoRow
    BY <1>5 DEF ForestInv, Forest, FollowsParents
  <2>2. NoHolder(closure, entries, v, p)
    BY <1>5, <2>1 DEF NoHolder
  <2>. QED
    BY <1>2, <1>5, <2>2
<1>6. CASE entries[v][p] = Absent /\ parent[v] # NoVersion
  <2>1. parent[v] \in VersionIds
    BY <1>6 DEF TypeOK
  <2>2. \A a \in VersionIds : a # v =>
          closure[v][a] = IF closure[parent[v]][a] = NoRow THEN NoRow
                          ELSE closure[parent[v]][a] + 1
    BY <1>6 DEF ForestInv, Forest, FollowsParents, Lives, HasRow
  <2>3. CASE NoHolder(closure, entries, parent[v], p)
    <3>1. NoHolder(closure, entries, v, p)
      BY <1>6, <2>2, <2>3 DEF NoHolder
    <3>. QED
      BY <1>2, <1>6, <2>1, <2>3, <3>1
  <2>4. ASSUME NEW a \in VersionIds, NearestRow(closure, entries, parent[v], p, a)
        PROVE  Resolve(v, p) = Resolve(parent[v], p)
    <3>1. a # v
      BY <1>6, <2>4 DEF NearestRow
    <3>2. closure[v][a] = closure[parent[v]][a] + 1 /\ closure[parent[v]][a] \in Nat
      BY <1>1, <2>1, <2>2, <2>4, <3>1 DEF NearestRow
    <3>3. ASSUME NEW b \in VersionIds, closure[v][b] # NoRow, entries[b][p] # Absent
          PROVE  closure[v][a] <= closure[v][b]
      <4>1. closure[parent[v]][b] # NoRow /\ closure[v][b] = closure[parent[v]][b] + 1
        BY <1>6, <2>2, <3>3
      <4>2. closure[parent[v]][a] <= closure[parent[v]][b] /\ closure[parent[v]][b] \in Nat
        BY <1>1, <2>1, <2>4, <3>3, <4>1 DEF NearestRow
      <4>. QED
        BY <3>2, <4>1, <4>2
    <3>4. NearestRow(closure, entries, v, p, a)
      BY <2>4, <3>2, <3>3 DEF NearestRow, NoRow
    <3>. QED
      BY <1>2, <2>1, <2>4, <3>4
  <2>. QED
    BY <1>2, <1>6, <2>1, <2>3, <2>4
<1>. QED
  BY <1>4, <1>5, <1>6

\* x is what the ORDER BY depth LIMIT 1 query shows for d and p over closure rows
\* clo and entries ents, which may be those between two statements.
Shows(clo, ents, d, p, x) ==
  \/ NoHolder(clo, ents, d, p) /\ x = Absent
  \/ \E a \in VersionIds : NearestRow(clo, ents, d, p, a) /\ x = Shown(ents[a][p])

\* Over the tables of a state, exactly what it resolves to.
ShowsResolve ==
  \A d \in VersionIds, p \in Paths :
    /\ Shows(closure, entries, d, p, Resolve(d, p))
    /\ \A x : Shows(closure, entries, d, p, x) => Resolve(d, p) = x

LEMMA ResolveShows == TypeOK /\ ForestInv => ShowsResolve
  BY ResolveIs DEF ShowsResolve, Shows, NearestDecides

\* And over those of the next state.
LEMMA ResolveShowsNext ==
  ASSUME TypeOK', ForestInv', NEW d \in VersionIds, NEW p \in Paths, NEW x,
         Shows(closure', entries', d, p, x)
  PROVE  Resolve(d, p)' = x
<1>1. TypeOK' /\ ForestInv' => NearestDecides'
  BY ResolveIs, PTL
<1>2. /\ NoHolder(closure', entries', d, p) => Resolve(d, p)' = Absent
      /\ \A a \in VersionIds :
           NearestRow(closure', entries', d, p, a) =>
             Resolve(d, p)' = Shown(entries'[a][p])
  BY <1>1 DEF NearestDecides, NoHolder, NearestRow, Shown
<1>. QED
  BY <1>2 DEF Shows

\* The rows detach leaves show every version what it showed before: v keeps its
\* own nearest rows as copies, and whatever its descendants inherited through
\* it from further up they now find in v.
LEMMA DetachShows ==
  ASSUME TypeOK, ForestInv, NEW v \in VersionIds,
         NEW clo, clo = WithoutOuterRows(v),
         NEW ents, ents = [entries EXCEPT ![v] = Materialized(v)]
  PROVE  \A d \in VersionIds, p \in Paths : Shows(clo, ents, d, p, Resolve(d, p))
<1> SUFFICES ASSUME NEW d \in VersionIds, NEW p \in Paths
             PROVE  Shows(clo, ents, d, p, Resolve(d, p))
  OBVIOUS
<1>1. \A x, y \in VersionIds :
        clo[x][y] = IF closure[x][v] # NoRow /\ closure[y][v] = NoRow THEN NoRow
                         ELSE closure[x][y]
  BY DEF WithoutOuterRows, IsAncestor
<1>2. \A x \in VersionIds :
        ents[x][p] = IF x = v THEN IF entries[v][p] = Tombstone THEN Absent
                                       ELSE IF entries[v][p] # Absent THEN entries[v][p]
                                       ELSE Resolve(v, p)
                         ELSE entries[x][p]
  BY DEF TypeOK, Materialized
<1>3. \A x \in VersionIds :
        /\ NoHolder(closure, entries, x, p) => Resolve(x, p) = Absent
        /\ \A a \in VersionIds :
             NearestRow(closure, entries, x, p, a) => Resolve(x, p) = Shown(entries[a][p])
        /\ \/ NoHolder(closure, entries, x, p)
           \/ \E a \in VersionIds : NearestRow(closure, entries, x, p, a)
  BY ResolveIs DEF NearestDecides
<1>4. /\ NoHolder(clo, ents, d, p) /\ Resolve(d, p) = Absent =>
           Shows(clo, ents, d, p, Resolve(d, p))
      /\ \A a \in VersionIds :
           NearestRow(clo, ents, d, p, a) /\ Resolve(d, p) = Shown(ents[a][p]) =>
             Shows(clo, ents, d, p, Resolve(d, p))
  BY DEF Shows
<1>5. \A x, y \in VersionIds : closure[x][y] \in Nat \cup {NoRow}
  BY DEF TypeOK
<1>6. \A x, y, z \in VersionIds :
        closure[x][y] # NoRow /\ closure[y][z] # NoRow =>
          closure[x][z] = closure[x][y] + closure[y][z]
  BY DEF ForestInv, Forest, DepthsAdd
<1>7. \A x \in VersionIds : x # v => closure[x][v] # 0 /\ closure[v][x] # 0
  BY <1>5 DEF ForestInv, Forest, FollowsParents, NoRow, ParentsIn
<1>8. \A x \in VersionIds, q \in Paths : Resolve(x, q) # Tombstone
  BY ResolveValue, SentinelAssumption
<1>9. CASE closure[d][v] = NoRow
  <2>1. \A x \in VersionIds : clo[d][x] = closure[d][x]
    BY <1>1, <1>9
  <2>2. \A x \in VersionIds : closure[d][x] # NoRow => ents[x][p] = entries[x][p]
    BY <1>2, <1>9
  <2>3. NoHolder(closure, entries, d, p) => NoHolder(clo, ents, d, p)
    BY <2>1, <2>2 DEF NoHolder
  <2>4. \A a \in VersionIds : NearestRow(closure, entries, d, p, a) =>
          NearestRow(clo, ents, d, p, a) /\ ents[a][p] = entries[a][p]
    BY <2>1, <2>2 DEF NearestRow
  <2>. QED
    BY <1>3, <1>4, <2>3, <2>4
<1>10. CASE closure[d][v] # NoRow
  <2>1. \A x \in VersionIds :
          clo[d][x] = IF closure[x][v] = NoRow THEN NoRow ELSE closure[d][x]
    BY <1>1, <1>10
  <2>2. closure[v][v] = 0
    BY <1>10 DEF ForestInv, Forest, FollowsParents, RowsExist
  <2>3. CASE NoHolder(closure, entries, d, p)
    <3>1. entries[v][p] = Absent
      BY <1>10, <2>3 DEF NoHolder
    <3>2. ASSUME NEW a \in VersionIds, closure[v][a] # NoRow
          PROVE  entries[a][p] = Absent
      <4>1. closure[d][a] = closure[d][v] + closure[v][a]
        BY <1>6, <1>10, <3>2
      <4>2. closure[d][v] \in Nat /\ closure[v][a] \in Nat
        BY <1>5, <1>10, <3>2
      <4>3. closure[d][a] # NoRow
        BY <4>1, <4>2 DEF NoRow
      <4>. QED
        BY <2>3, <4>3 DEF NoHolder
    <3>3. ents[v][p] = Absent
      <4>1. NoHolder(closure, entries, v, p)
        BY <3>2 DEF NoHolder
      <4>. QED
        BY <1>2, <1>3, <3>1, <4>1, SentinelAssumption
    <3>4. NoHolder(clo, ents, d, p)
      BY <1>2, <2>1, <2>3, <3>3 DEF NoHolder
    <3>. QED
      BY <1>3, <1>4, <2>3, <3>4
  <2>4. ASSUME NEW a \in VersionIds, NearestRow(closure, entries, d, p, a),
               closure[a][v] # NoRow, a # v
        PROVE  Shows(clo, ents, d, p, Resolve(d, p))
    <3>1. closure[d][v] = closure[d][a] + closure[a][v]
      BY <1>6, <2>4 DEF NearestRow
    <3>2. NearestRow(clo, ents, d, p, a) /\ ents[a][p] = entries[a][p]
      BY <1>2, <1>5, <1>10, <2>1, <2>4, <3>1 DEF NearestRow, NoRow
    <3>. QED
      BY <1>3, <1>4, <2>4, <3>2
  <2>5. ASSUME NEW a \in VersionIds, NearestRow(closure, entries, d, p, a),
               closure[a][v] = NoRow \/ a = v
        PROVE  Shows(clo, ents, d, p, Resolve(d, p))
    \* No row strictly between d and v: only v itself may show something.
    <3>1. closure[d][v] <= closure[d][a] /\ closure[d][a] \in Nat /\ closure[d][v] \in Nat
      <4>1. closure[d][a] \in Nat /\ closure[d][v] \in Nat
        BY <1>5, <1>10, <2>5 DEF NearestRow
      <4>2. a # v => closure[v][a] # NoRow
        BY <1>10, <2>5 DEF NearestRow, ForestInv, Forest, OneChain
      <4>3. a # v => closure[d][a] = closure[d][v] + closure[v][a] /\ closure[v][a] \in Nat
        BY <1>5, <1>6, <1>10, <4>2
      <4>. QED
        BY <4>1, <4>3
    <3>2. ASSUME NEW b \in VersionIds, b # v, clo[d][b] # NoRow
          PROVE  ents[b][p] = Absent
      <4>1. closure[b][v] # NoRow /\ closure[d][b] # NoRow
        BY <2>1, <3>2
      <4>2. closure[d][v] = closure[d][b] + closure[b][v]
        BY <1>6, <4>1
      <4>3. closure[b][v] \in Nat /\ closure[b][v] # 0 /\ closure[d][b] \in Nat
        BY <1>5, <1>7, <3>2, <4>1
      <4>4. ~ (closure[d][a] <= closure[d][b])
        BY <3>1, <4>2, <4>3
      <4>. QED
        BY <1>2, <2>5, <3>2, <4>1, <4>4 DEF NearestRow
    <3>3. clo[d][v] = closure[d][v]
      BY <2>1, <2>2 DEF NoRow
    <3>4. Shown(ents[v][p]) = Resolve(d, p)
      <4>1. CASE a = v
        <5>1. entries[v][p] # Absent /\ Resolve(d, p) = Shown(entries[v][p])
          BY <1>3, <2>5, <4>1 DEF NearestRow
        <5>. QED
          BY <1>2, <5>1, SentinelAssumption DEF Shown
      <4>2. CASE a # v
        <5>1. closure[v][a] # NoRow
          BY <1>10, <2>5, <4>2 DEF NearestRow, ForestInv, Forest, OneChain
        <5>2. closure[d][a] = closure[d][v] + closure[v][a]
              /\ closure[v][a] \in Nat /\ closure[v][a] # 0
          BY <1>5, <1>6, <1>7, <1>10, <4>2, <5>1
        <5>3. entries[v][p] = Absent
          BY <1>10, <2>5, <3>1, <5>2 DEF NearestRow
        <5>4. ASSUME NEW b \in VersionIds, closure[v][b] # NoRow, entries[b][p] # Absent
              PROVE  closure[v][a] <= closure[v][b]
          <6>1. closure[d][b] = closure[d][v] + closure[v][b] /\ closure[v][b] \in Nat
            BY <1>5, <1>6, <1>10, <5>4
          <6>2. closure[d][b] # NoRow
            BY <3>1, <6>1 DEF NoRow
          <6>3. closure[d][a] <= closure[d][b]
            BY <2>5, <5>4, <6>2 DEF NearestRow
          <6>. QED
            BY <3>1, <5>2, <6>1, <6>3
        <5>5. NearestRow(closure, entries, v, p, a)
          BY <2>5, <5>1, <5>4 DEF NearestRow
        <5>6. Resolve(v, p) = Resolve(d, p)
          BY <1>3, <2>5, <5>5
        <5>. QED
          BY <1>2, <1>8, <5>3, <5>6, SentinelAssumption DEF Shown
      <4>. QED
        BY <4>1, <4>2
    <3>5. CASE ents[v][p] = Absent
      <4>1. NoHolder(clo, ents, d, p)
        BY <3>2, <3>5 DEF NoHolder
      <4>. QED
        BY <1>4, <3>4, <3>5, <4>1 DEF Shown
    <3>6. CASE ents[v][p] # Absent
      <4>1. NearestRow(clo, ents, d, p, v)
        BY <1>10, <3>1, <3>2, <3>3, <3>6 DEF NearestRow
      <4>. QED
        BY <1>4, <3>4, <4>1
    <3>. QED
      BY <3>5, <3>6
  <2>. QED
    BY <1>3, <2>3, <2>4, <2>5
<1>. QED
  BY <1>9, <1>10

\* So detaching changes no view.
LEMMA DetachViews ==
  ASSUME TypeOK, ForestInv, TypeOK', ForestInv', NEW v \in VersionIds,
         closure' = WithoutOuterRows(v),
         entries' = [entries EXCEPT ![v] = Materialized(v)]
  PROVE  \A d \in VersionIds, p \in Paths : Resolve(d, p)' = Resolve(d, p)
<1> SUFFICES ASSUME NEW d \in VersionIds, NEW p \in Paths
             PROVE  Resolve(d, p)' = Resolve(d, p)
  OBVIOUS
<1>1. Shows(closure', entries', d, p, Resolve(d, p))
  BY DetachShows
<1>. QED
  BY <1>1, ResolveShowsNext

\* Detaching a version, alone or in a promotion, changes what no version shows
\* at any path, however deep the tree of forks below and above it.
THEOREM DetachCorrect == Spec => DetachKeepsViews
<1> DEFINE Kept == \A v \in VersionIds :
                     Detach(v) \/ (\E l \in UserLabels : PromoteDetached(v, l))
                       => \A d \in VersionIds, p \in Paths : Resolve(d, p)' = Resolve(d, p)
<1>1. TypeOK /\ ForestInv /\ [Next]_vars => [Kept]_vars
  <2> SUFFICES ASSUME TypeOK, ForestInv, [Next]_vars, NEW v \in VersionIds,
                      Detach(v) \/ \E l \in UserLabels : PromoteDetached(v, l)
               PROVE  \A d \in VersionIds, p \in Paths : Resolve(d, p)' = Resolve(d, p)
    OBVIOUS
  <2>1. TypeOK' /\ ForestInv'
    BY NextTypeOK, NextForest
  <2>2. /\ closure' = WithoutOuterRows(v)
        /\ entries' = [entries EXCEPT ![v] = Materialized(v)]
    BY DEF Detach, PromoteDetached
  <2>. QED
    BY <2>1, <2>2, DetachViews
<1>. QED
  BY <1>1, TypeCorrect, InitForest, NextForest, PTL DEF Spec, DetachKeepsViews

-----------------------------------------------------------------------------
(* What the sweep must leave behind.                                       *)

\* An id without a row has no tombstone: it shows nothing that rm could hide,
\* and what removed its row removed its entries.  SweepHistory deletes the
\* tombstones of live versions only, so it relies on this for the others.
NoDeadTombstones ==
  \A v \in VersionIds, p \in Paths : ~HasRow(v) => entries[v][p] # Tombstone

LEMMA InitTombstones == Init => NoDeadTombstones
  BY SentinelAssumption DEF Init, NoDeadTombstones, NoEntries

\* Removing the versions in S, and writing no tombstone to any id without a row.
LEMMA RemovedTombstones ==
  ASSUME NEW S, NEW ents, status' = RemovedStatus(S), entries' = RemovedEntries(ents, S),
         \A v \in VersionIds, p \in Paths :
           ~HasRow(v) => ents[v][p] # Tombstone
  PROVE  NoDeadTombstones'
<1>1. \A v \in VersionIds : v \notin S /\ ~HasRow(v)' => ~HasRow(v)
  BY DEF RemovedStatus, HasRow
<1>. QED
  BY <1>1, SentinelAssumption DEF NoDeadTombstones, RemovedEntries, NoEntries, HasRow

\* Every operation that writes a tombstone writes it to a version that shows
\* something, hence to one that has a row.
LEMMA NextTombstones ==
  TypeOK /\ ForestInv /\ NoDeadTombstones /\ [Next]_vars => NoDeadTombstones'
<1> SUFFICES ASSUME TypeOK, ForestInv, NoDeadTombstones, [Next]_vars
             PROVE  NoDeadTombstones'
  OBVIOUS
<1>1. GoneShowsNothing
  BY ForestImplies
<1>2. ASSUME entries' = entries, \A v \in VersionIds : HasRow(v) => HasRow(v)'
      PROVE  NoDeadTombstones'
  BY <1>2 DEF NoDeadTombstones, HasRow
<1>3. ASSUME NEW v \in VersionIds, NEW x \in [Paths -> Shapes \cup {Tombstone, Absent}],
             entries' = [entries EXCEPT ![v] = x], status' = status,
             \A p \in Paths : HasRow(v) \/ x[p] # Tombstone
      PROVE  NoDeadTombstones'
  BY <1>3 DEF NoDeadTombstones, HasRow, TypeOK
<1>4. \A v \in VersionIds :
        /\ Materialized(v) \in [Paths -> Shapes \cup {Tombstone, Absent}]
        /\ \A p \in Paths : Materialized(v)[p] # Tombstone
  BY MaterializedValue, SentinelAssumption
<1>5. ASSUME NEW v \in VersionIds, NEW w \in VersionIds, NEW l \in UserLabels,
             EnsureVersion(v, l) \/ Fork(v, w, l)
      PROVE  NoDeadTombstones'
  BY <1>2, <1>5 DEF EnsureVersion, Fork, HasRow, TypeOK
<1>6. ASSUME NEW v \in VersionIds, NEW w \in VersionIds, MkdirVersioned(v, w)
      PROVE  NoDeadTombstones'
  BY <1>6 DEF MkdirVersioned, NoDeadTombstones, HasRow, TypeOK
<1>7. ASSUME NEW v \in VersionIds, NEW p \in Paths, NEW c \in Contents, WriteFile(v, p, c)
      PROVE  NoDeadTombstones'
  BY <1>7, SentinelAssumption DEF WriteFile, graph, NoDeadTombstones, HasRow, TypeOK, Shapes
<1>8. ASSUME NEW v \in VersionIds, NEW p \in Paths, Mkdir(v, p)
      PROVE  NoDeadTombstones'
  BY <1>8, SentinelAssumption DEF Mkdir, graph, NoDeadTombstones, HasRow, TypeOK, Shapes
<1>9. ASSUME NEW v \in VersionIds, NEW p \in Paths, Rm(v, p)
      PROVE  NoDeadTombstones'
  <2>1. HasRow(v)
    BY <1>1, <1>9 DEF Rm, GoneShowsNothing
  <2>. QED
    BY <1>9, <2>1 DEF Rm, graph, NoDeadTombstones, HasRow, TypeOK
<1>10. ASSUME NEW v \in VersionIds, NEW l \in UserLabels, Detach(v) \/ PromoteDetached(v, l)
       PROVE  NoDeadTombstones'
  BY <1>3, <1>4, <1>10 DEF Detach, PromoteDetached
<1>11. ASSUME NEW v \in VersionIds, NEW l \in UserLabels,
              PromoteRetain(v, l) \/ \E swap \in BOOLEAN : RenameVersion(v, l, swap)
       PROVE  NoDeadTombstones'
  BY <1>2, <1>11 DEF PromoteRetain, RenameVersion, HasRow
<1>12. ASSUME NEW v \in VersionIds, SoftDelete(v) PROVE NoDeadTombstones'
  BY <1>2, <1>12 DEF SoftDelete, HasRow, TypeOK
<1>13. ASSUME NEW v \in VersionIds, HardDelete(v) PROVE NoDeadTombstones'
  BY <1>13, RemovedTombstones DEF HardDelete, NoDeadTombstones
<1>14. ASSUME NEW v \in VersionIds, NEW t \in VersionIds, NEW l \in UserLabels,
              PromoteDiscard(v, t, l)
       PROVE  NoDeadTombstones'
  <2> DEFINE ents == [entries EXCEPT ![v] = Materialized(v)]
  <2>1. \A w \in VersionIds, p \in Paths : ~HasRow(w) => ents[w][p] # Tombstone
    BY <1>4 DEF NoDeadTombstones, TypeOK
  <2>2. status' = RemovedStatus({t}) /\ entries' = RemovedEntries(ents, {t})
    BY <1>14 DEF PromoteDiscard
  <2> HIDE DEF ents
  <2>. QED
    BY <2>1, <2>2, RemovedTombstones
<1>15. ASSUME NEW r \in VersionRoots, SweepHistory(r) PROVE NoDeadTombstones'
  <2> DEFINE active == {v \in VersionIds : RootOf[v] = r /\ status[v] = "active"}
             inactive == {v \in VersionIds : RootOf[v] = r /\ status[v] = "deleted"}
             ents == [v \in VersionIds |-> IF v \in active THEN Materialized(v) ELSE entries[v]]
  <2>1. \A w \in VersionIds, p \in Paths : ~HasRow(w) => ents[w][p] # Tombstone
    BY <1>4 DEF NoDeadTombstones
  <2>2. status' = RemovedStatus(inactive) /\ entries' = RemovedEntries(ents, inactive)
    BY <1>15 DEF SweepHistory
  <2> HIDE DEF ents, inactive
  <2>. QED
    BY <2>1, <2>2, RemovedTombstones
<1>16. ASSUME NEW v \in VersionIds, NEW r \in VersionRoots, RemoveVersionRoot(v, r)
       PROVE  NoDeadTombstones'
  <2> DEFINE owned == {w \in VersionIds : RootOf[w] = r /\ HasRow(w)}
             hidden == [p \in Paths |-> IF Resolve(v, p) = Absent THEN entries[v][p]
                                        ELSE Tombstone]
             ents == [entries EXCEPT ![v] = hidden]
  <2>1. \A p \in Paths : ~HasRow(v) => hidden[p] = entries[v][p]
    BY <1>1 DEF GoneShowsNothing
  <2>2. \A w \in VersionIds : ents[w] = IF w = v THEN hidden ELSE entries[w]
    BY DEF TypeOK
  <2>3. status' = RemovedStatus(owned) /\ entries' = RemovedEntries(ents, owned)
    BY <1>16 DEF RemoveVersionRoot
  <2> HIDE DEF ents, owned, hidden
  <2>4. \A w \in VersionIds, p \in Paths : ~HasRow(w) => ents[w][p] # Tombstone
    BY <2>1, <2>2 DEF NoDeadTombstones
  <2>. QED
    BY <2>3, <2>4, RemovedTombstones
<1>17. CASE UNCHANGED vars
  BY <1>2, <1>17 DEF vars, HasRow
<1>. QED
  BY <1>5, <1>6, <1>7, <1>8, <1>9, <1>10, <1>11, <1>12, <1>13, <1>14, <1>15, <1>16, <1>17,
     LabelAssumption
  DEF Next, Create, Write, Relabel, Flatten, Remove

\* One sweep, in a state the invariants hold in.
LEMMA SweptClean ==
  ASSUME TypeOK, ForestInv, BlobsBackEntries, NoDeadTombstones,
         NEW r \in VersionRoots, SweepHistory(r)
  PROVE  /\ blobs' = References(entries')
         /\ \A v \in VersionIds : RootOf[v] = r /\ Allocated(v) =>
              /\ status'[v] # "deleted"
              /\ parent'[v] = NoVersion
              /\ \A p \in Paths : entries'[v][p] # Tombstone
<1> DEFINE active == {v \in VersionIds : RootOf[v] = r /\ status[v] = "active"}
           inactive == {v \in VersionIds : RootOf[v] = r /\ status[v] = "deleted"}
           ents == [v \in VersionIds |-> IF v \in active THEN Materialized(v) ELSE entries[v]]
<1>1. /\ status' = RemovedStatus(inactive)
      /\ parent' = RemovedParent(active \cup inactive)
      /\ entries' = RemovedEntries(ents, inactive)
      /\ blobs' = Collected(blobs, entries')
  BY DEF SweepHistory
<1>2. References(ents) \subseteq blobs
  BY MaterializedBacked
<1>3. \A v \in VersionIds, p \in Paths :
        v \in active \/ ~HasRow(v) => ents[v][p] # Tombstone
  BY MaterializedValue, SentinelAssumption DEF NoDeadTombstones
<1>4. \A v \in VersionIds : RootOf[v] = r =>
        /\ v \in active \/ v \in inactive \/ ~HasRow(v)
        /\ status[v] = "deleted" <=> v \in inactive
  BY DEF HasRow
<1>5. \A v \in VersionIds : ~HasRow(v) => parent[v] = NoVersion
  BY DEF ForestInv, Forest, ParentsIn, Lives, HasRow
<1> HIDE DEF active, inactive, ents
<1>6. References(entries') \subseteq blobs
  BY <1>1, <1>2, RemovedBacked
<1>7. blobs' = References(entries')
  BY <1>1, <1>6 DEF Collected
<1>8. ASSUME NEW v \in VersionIds, RootOf[v] = r
      PROVE  /\ status'[v] # "deleted"
             /\ parent'[v] = NoVersion
             /\ \A p \in Paths : entries'[v][p] # Tombstone
  <2>1. status'[v] # "deleted" /\ parent'[v] = NoVersion
    BY <1>1, <1>4, <1>5, <1>8 DEF RemovedStatus, RemovedParent
  <2>2. ASSUME NEW p \in Paths PROVE entries'[v][p] # Tombstone
    BY <1>1, <1>3, <1>4, <1>8, SentinelAssumption DEF RemovedEntries, NoEntries
  <2>. QED
    BY <2>1, <2>2
<1>. QED
  BY <1>7, <1>8

\* A sweep leaves no tombstone, parent or deleted version in its root, whatever
\* stale instances wrote before it, and in the workspace exactly the referenced
\* blobs.
THEOREM SweepCorrect == Spec => SweepLeavesNoHistory
<1> DEFINE Clean == \A r \in VersionRoots : SweepHistory(r) =>
              /\ blobs' = References(entries')
              /\ \A v \in VersionIds : RootOf[v] = r /\ Allocated(v) =>
                   /\ status'[v] # "deleted"
                   /\ parent'[v] = NoVersion
                   /\ \A p \in Paths : entries'[v][p] # Tombstone
<1>1. TypeOK /\ ForestInv /\ BlobsBackEntries /\ NoDeadTombstones /\ [Next]_vars
        => [Clean]_vars
  BY SweptClean
<1>. QED
  BY <1>1, TypeCorrect, BlobsKept, InitForest, NextForest, InitTombstones, NextTombstones,
     PTL DEF Spec, SweepLeavesNoHistory

-----------------------------------------------------------------------------
(* The base of a merge.                                                    *)

\* ORDER BY the sum of depths LIMIT 1 finds a row when there is one.
LEMMA LowestExists ==
  ASSUME TypeOK, NEW v \in VersionIds, NEW w \in VersionIds, CommonAncestors(v, w) # {}
  PROVE  /\ LowestCommonAncestor(v, w) \in CommonAncestors(v, w)
         /\ \A b \in CommonAncestors(v, w) :
              closure[v][LowestCommonAncestor(v, w)] + closure[w][LowestCommonAncestor(v, w)]
                <= closure[v][b] + closure[w][b]
<1> SUFFICES \E a \in CommonAncestors(v, w) : \A b \in CommonAncestors(v, w) :
               closure[v][a] + closure[w][a] <= closure[v][b] + closure[w][b]
  BY DEF LowestCommonAncestor
<1> DEFINE Sums == {closure[v][a] + closure[w][a] : a \in CommonAncestors(v, w)}
<1>1. \A a \in CommonAncestors(v, w) : closure[v][a] \in Nat /\ closure[w][a] \in Nat
  BY DEF TypeOK, CommonAncestors, IsAncestor
<1>2. Sums \subseteq Nat /\ Sums # {}
  BY <1>1
<1>3. PICK n \in Sums : \A m \in Sums : n <= m
  <2> HIDE DEF Sums
  <2>. QED
    BY <1>2, NatMinimum
<1>. QED
  BY <1>3

\* In a forest the common ancestors of two versions lie on one chain, and the
\* nearest of them is below all the others.
LEMMA LowestDominates == TypeOK /\ ForestInv => LowestAncestorDominates
<1> SUFFICES ASSUME TypeOK, ForestInv, NEW v \in VersionIds, NEW w \in VersionIds,
                    NEW a \in CommonAncestors(v, w)
             PROVE  IsAncestor(a, LowestCommonAncestor(v, w))
  BY DEF LowestAncestorDominates
<1> DEFINE low == LowestCommonAncestor(v, w)
<1>1. /\ low \in CommonAncestors(v, w)
      /\ closure[v][low] + closure[w][low] <= closure[v][a] + closure[w][a]
  BY LowestExists
<1> HIDE DEF low
<1>2. /\ a \in VersionIds /\ low \in VersionIds
      /\ closure[v][a] # NoRow /\ closure[w][a] # NoRow
      /\ closure[v][low] # NoRow /\ closure[w][low] # NoRow
  BY <1>1 DEF CommonAncestors, IsAncestor
<1>3. closure[a][low] # NoRow \/ closure[low][a] # NoRow
  BY <1>2 DEF ForestInv, Forest, OneChain
<1>4. ASSUME closure[a][low] # NoRow PROVE closure[low][a] # NoRow
  <2>1. closure[v][low] = closure[v][a] + closure[a][low]
        /\ closure[w][low] = closure[w][a] + closure[a][low]
    BY <1>2, <1>4 DEF ForestInv, Forest, DepthsAdd
  <2>2. closure[v][a] \in Nat /\ closure[w][a] \in Nat /\ closure[a][low] \in Nat
    BY <1>2, <1>4 DEF TypeOK
  <2>3. closure[v][a] = closure[v][low]
    BY <1>1, <2>1, <2>2
  <2>4. a = low
    BY <1>2, <2>3, DepthsDiffer
  <2>. QED
    BY <1>4, <2>4
<1>. QED
  BY <1>3, <1>4 DEF IsAncestor, low

\* The base findLCA picks for a merge is below every other common ancestor, in
\* every reachable version graph.
THEOREM LowestAncestorCorrect == Spec => []LowestAncestorDominates
  BY LowestDominates, TypeCorrect, InitForest, NextForest, PTL DEF Spec

-----------------------------------------------------------------------------
(* The change list of a version.                                           *)

\* A row of v is a change exactly where v and its parent show different things,
\* and it is a tombstone exactly where v shows nothing.
LEMMA RowsAreChanges ==
  ASSUME TypeOK, ForestInv, NEW v \in VersionIds, HasRow(v), NEW p \in Paths
  PROVE  /\ p \in Changes(v) <=> Before(v, p) # Resolve(v, p)
         /\ p \in Changes(v) => (Resolve(v, p) = Absent <=> entries[v][p] = Tombstone)
         /\ p \in Changes(v) <=> /\ entries[v][p] # Absent
                                 /\ entries[v][p] = Tombstone => Before(v, p) # Absent
                                 /\ Before(v, p) # Absent => entries[v][p] # Before(v, p)
<1>1. Resolve(v, p) = IF entries[v][p] # Absent THEN Shown(entries[v][p]) ELSE Before(v, p)
  BY ResolveInherits DEF Before
<1>2. Before(v, p) # Tombstone
  <2>1. \A u \in VersionIds : Resolve(u, p) # Tombstone
    BY ResolveValue, SentinelAssumption
  <2>. QED
    BY <2>1, SentinelAssumption DEF Before, TypeOK
<1>. QED
  BY <1>1, <1>2, SentinelAssumption DEF Changes, Shown

\* classifyDiffChange says "removed" exactly when the new tree shows nothing.
LEMMA RemovedIs ==
  ASSUME NEW before, NEW after, before # after
  PROVE  ChangeOf(before, after) = "removed" <=> after = Absent
<1>1. Absent \notin Contents
  BY SentinelAssumption DEF Shapes
<1>2. CASE before = Absent
  BY <1>1, <1>2 DEF ChangeOf
<1>3. CASE before # Absent /\ after = Absent
  BY <1>1, <1>3 DEF ChangeOf
<1>4. CASE before # Absent /\ after # Absent /\ before \in Contents /\ after \in Contents
  BY <1>4 DEF ChangeOf
<1>5. CASE /\ before # Absent /\ after # Absent
           /\ ~ (before \in Contents /\ after \in Contents)
  BY <1>5 DEF ChangeOf
<1>. QED
  BY <1>2, <1>3, <1>4, <1>5

\* The three queries of ChangesAreDiff return the same paths.
LEMMA ChangesDiff == TypeOK /\ ForestInv => ChangesAreDiff
<1> DEFINE stored == {v \in VersionIds : HasRow(v)}
<1> SUFFICES ASSUME TypeOK, ForestInv, NEW v \in VersionIds, HasRow(v)
             PROVE  /\ VersionDiff(RootOf[v], v) = PageChanges(stored)[v]
                    /\ IF parent[v] = NoVersion
                       THEN Changes(v) = {p \in Paths : Resolve(v, p) # Absent}
                       ELSE /\ Changes(v) = DiffVersions(RootOf[v], parent[v], v)
                            /\ Cardinality(Changes(v)) = DiffCount(parent[v], v, "any")
                            /\ \A p \in Changes(v) :
                                 ChangeOf(Before(v, p), Resolve(v, p)) = "removed"
                                   <=> entries[v][p] = Tombstone
  BY DEF ChangesAreDiff
<1>1. \A p \in Paths :
        /\ p \in Changes(v) <=> Before(v, p) # Resolve(v, p)
        /\ p \in Changes(v) => (Resolve(v, p) = Absent <=> entries[v][p] = Tombstone)
        /\ p \in Changes(v) <=> /\ entries[v][p] # Absent
                                /\ entries[v][p] = Tombstone => Before(v, p) # Absent
                                /\ Before(v, p) # Absent => entries[v][p] # Before(v, p)
  BY RowsAreChanges
<1>2. Changes(v) \subseteq Paths
  BY DEF Changes
<1>3. VersionDiff(RootOf[v], v) = PageChanges(stored)[v]
  <2>1. VersionDiff(RootOf[v], v) = Changes(v)
    BY DEF VersionDiff, InRoot
  <2>2. PageChanges(stored)[v] =
          {p \in Paths : /\ entries[v][p] # Absent
                         /\ entries[v][p] = Tombstone => Before(v, p) # Absent
                         /\ Before(v, p) # Absent => entries[v][p] # Before(v, p)}
    BY DEF PageChanges, PageRows
  <2>. QED
    BY <1>1, <1>2, <2>1, <2>2
<1>4. CASE parent[v] = NoVersion
  <2>1. \A p \in Paths : Before(v, p) = Absent
    BY <1>4 DEF Before
  <2>. QED
    BY <1>1, <1>2, <1>3, <1>4, <2>1
<1>5. CASE parent[v] # NoVersion
  <2>1. parent[v] \in VersionIds /\ HasRow(parent[v]) /\ RootOf[parent[v]] = RootOf[v]
    BY <1>5 DEF ForestInv, Forest, ParentsIn, Lives, HasRow
  <2>2. \A p \in Paths : Before(v, p) = Resolve(parent[v], p)
    BY <1>5 DEF Before
  <2>3. Changes(v) = Diff(parent[v], v)
    BY <1>1, <1>2, <2>2 DEF Diff
  <2>4. DiffVersions(RootOf[v], parent[v], v) = Diff(parent[v], v)
    BY <2>1 DEF DiffVersions, InRoot
  <2>5. DiffCount(parent[v], v, "any") = Cardinality(Changes(v))
    <3>1. {p \in Diff(parent[v], v) :
             "any" = "any" \/ "any" \in {Type(Resolve(parent[v], p)), Type(Resolve(v, p))}}
            = Changes(v)
      BY <2>3
    <3>. QED
      BY <3>1 DEF DiffCount
  <2>6. \A p \in Changes(v) :
          ChangeOf(Before(v, p), Resolve(v, p)) = "removed" <=> entries[v][p] = Tombstone
    BY <1>1, <1>2, RemovedIs
  <2>. QED
    BY <1>3, <1>5, <2>3, <2>4, <2>5, <2>6
<1>. QED
  BY <1>4, <1>5

\* The rows a version has of its own are exactly what changed at it: the change
\* list read off them is the difference of the two trees, in every reachable
\* state, and every query that computes it computes the same.
THEOREM ChangesCorrect == Spec => []ChangesAreDiff
  BY ChangesDiff, TypeCorrect, InitForest, NextForest, PTL DEF Spec

-----------------------------------------------------------------------------
(* The pages of the history.                                               *)

\* The elements of B less deep than a, and the first of B in order of depth.
Above(B, d, a) == {b \in B : d[b] < d[a]}
FirstOf(B, d, limit) == {a \in B : Cardinality(Above(B, d, a)) < limit}
LastOf(B, d, limit) ==
  CHOOSE m \in {d[a] : a \in FirstOf(B, d, limit)} : \A a \in FirstOf(B, d, limit) : d[a] <= m

\* Depths that tell the elements of a finite set apart.
OrderedBy(B, d) ==
  /\ IsFiniteSet(B)
  /\ \A a \in B : d[a] \in Nat
  /\ \A a, b \in B : d[a] = d[b] => a = b

\* Counting what lies above grows with the depth.
LEMMA AboveGrows ==
  ASSUME NEW B, NEW d, OrderedBy(B, d), NEW a \in B, NEW b \in B
  PROVE  /\ Cardinality(Above(B, d, a)) \in Nat
         /\ d[a] <= d[b] => Cardinality(Above(B, d, a)) <= Cardinality(Above(B, d, b))
         /\ d[a] < d[b] => Cardinality(Above(B, d, a)) < Cardinality(Above(B, d, b))
<1>1. \A c \in B : IsFiniteSet(Above(B, d, c)) /\ Cardinality(Above(B, d, c)) \in Nat
  <2>1. \A c \in B : Above(B, d, c) \in SUBSET B
    BY DEF Above
  <2>2. \A T \in SUBSET B : IsFiniteSet(T)
    BY FS_Subset DEF OrderedBy
  <2>. QED
    BY <2>1, <2>2, FS_CardinalityType
<1>2. ASSUME d[a] <= d[b] PROVE Above(B, d, a) \in SUBSET Above(B, d, b)
  BY <1>2 DEF Above, OrderedBy
<1>3. d[a] <= d[b] => Cardinality(Above(B, d, a)) <= Cardinality(Above(B, d, b))
  BY <1>1, <1>2, FS_Subset
<1>4. ASSUME d[a] < d[b]
      PROVE  Cardinality(Above(B, d, a)) < Cardinality(Above(B, d, b))
  <2>1. a \notin Above(B, d, a) /\ a \in Above(B, d, b) /\ d[a] <= d[b]
    BY <1>4 DEF Above, OrderedBy
  <2>2. Above(B, d, a) # Above(B, d, b)
    BY <2>1
  <2>3. Cardinality(Above(B, d, b)) # Cardinality(Above(B, d, a))
    BY <1>1, <1>2, <2>1, <2>2, FS_Subset
  <2>. QED
    BY <1>1, <1>3, <2>1, <2>3
<1>. QED
  BY <1>1, <1>3, <1>4

\* Something is least deep in a set that is not empty.
LEMMA LeastDeep ==
  ASSUME NEW S, NEW d, \A a \in S : d[a] \in Nat, S # {}
  PROVE  \E a \in S : \A b \in S : d[a] <= d[b]
<1> DEFINE D == {d[a] : a \in S}
<1>1. D \subseteq Nat /\ D # {}
  OBVIOUS
<1>2. PICK n \in D : \A m \in D : n <= m
  <2> HIDE DEF D
  <2>. QED
    BY <1>1, NatMinimum
<1>. QED
  BY <1>2

\* The first of a set that is not empty have a last one, with fewer than limit
\* elements above it; they are the elements down to its depth.
LEMMA FirstHaveLast ==
  ASSUME NEW B, NEW d, OrderedBy(B, d), B # {}, NEW limit \in Nat \ {0}
  PROVE  \E t \in FirstOf(B, d, limit) :
           /\ LastOf(B, d, limit) = d[t]
           /\ FirstOf(B, d, limit) = {a \in B : d[a] <= d[t]}
<1> DEFINE F == FirstOf(B, d, limit)
           Rank(a) == Cardinality(Above(B, d, a))
<1>1. \A a \in B : d[a] \in Nat /\ Rank(a) \in Nat
  BY AboveGrows DEF OrderedBy
<1>2. F # {}
  <2>1. PICK m \in B : \A b \in B : d[m] <= d[b]
    BY <1>1, LeastDeep
  <2>2. ASSUME NEW b \in B PROVE ~(d[b] < d[m])
    <3>1. d[m] <= d[b] /\ d[m] \in Nat /\ d[b] \in Nat
      BY <1>1, <2>1
    <3>. QED
      BY <3>1
  <2>3. Rank(m) = 0
    <3>1. Above(B, d, m) = {}
      BY <2>2 DEF Above
    <3>. QED
      BY <3>1, FS_EmptySet
  <2>. QED
    BY <2>3 DEF FirstOf
<1>3. PICK t \in F : \A a \in F : Rank(a) <= Rank(t)
  <2> DEFINE left == [a \in F |-> limit - Rank(a)]
  <2>1. \A a \in F : left[a] \in Nat /\ left[a] = limit - Rank(a) /\ Rank(a) \in Nat
    BY <1>1 DEF FirstOf
  <2> HIDE DEF left, F
  <2>2. PICK t \in F : \A a \in F : left[t] <= left[a]
    BY <1>2, <2>1, LeastDeep
  <2> HIDE DEF Rank
  <2>. QED
    BY <2>1, <2>2
<1>4. t \in B /\ Rank(t) < limit /\ Rank(t) \in Nat /\ d[t] \in Nat
  BY <1>1 DEF FirstOf
<1>5. ASSUME NEW a \in F PROVE a \in B /\ d[a] <= d[t] /\ d[a] \in Nat
  <2>1. a \in B /\ Rank(a) <= Rank(t)
    BY <1>3 DEF FirstOf
  <2>2. ~(d[t] < d[a])
    BY <1>1, <1>4, <2>1, AboveGrows
  <2>. QED
    BY <1>1, <1>4, <2>1, <2>2
<1>6. ASSUME NEW a \in B, d[a] <= d[t] PROVE a \in F
  <2>1. Rank(a) <= Rank(t)
    BY <1>4, <1>6, AboveGrows
  <2>. QED
    BY <1>1, <1>4, <2>1 DEF FirstOf
<1>7. F = {a \in B : d[a] <= d[t]}
  BY <1>5, <1>6
<1>8. LastOf(B, d, limit) = d[t]
  <2> DEFINE D == {d[a] : a \in F}
             Most(m) == \A a \in F : d[a] <= m
  <2>1. d[t] \in D /\ Most(d[t])
    BY <1>5
  <2>2. LastOf(B, d, limit) = CHOOSE m \in D : Most(m)
    BY DEF LastOf
  <2>3. LastOf(B, d, limit) \in D /\ Most(LastOf(B, d, limit))
    BY <2>1, <2>2
  <2>4. PICK a \in F : LastOf(B, d, limit) = d[a]
    BY <2>3
  <2>5. d[t] <= d[a] /\ d[a] <= d[t] /\ d[a] \in Nat
    BY <1>5, <2>3, <2>4
  <2>. QED
    BY <1>4, <2>4, <2>5
<1>. QED
  BY <1>7, <1>8

\* A page that one element more does not extend has all there is; otherwise
\* something lies beyond its last element.
LEMMA FirstAreAll ==
  ASSUME NEW B, NEW d, OrderedBy(B, d), NEW limit \in Nat \ {0}
  PROVE  /\ FirstOf(B, d, limit) = FirstOf(B, d, limit + 1) => FirstOf(B, d, limit) = B
         /\ FirstOf(B, d, limit) # FirstOf(B, d, limit + 1) => FirstOf(B, d, limit) # B
<1> DEFINE F == FirstOf(B, d, limit)
           Rank(a) == Cardinality(Above(B, d, a))
<1>1. \A a \in B : d[a] \in Nat /\ Rank(a) \in Nat
  BY AboveGrows DEF OrderedBy
<1>2. ASSUME F # B PROVE F # FirstOf(B, d, limit + 1)
  <2>1. F \subseteq B /\ B \ F # {}
    BY <1>2 DEF FirstOf
  <2>2. PICK m \in B \ F : \A b \in B \ F : d[m] <= d[b]
    BY <1>1, <2>1, LeastDeep
  <2>3. PICK t \in F : F = {a \in B : d[a] <= d[t]}
    <3>1. B # {}
      BY <2>1
    <3>. QED
      BY <3>1, FirstHaveLast
  <2>4. t \in B /\ Rank(t) < limit
    BY DEF FirstOf
  <2>5. Above(B, d, m) \in SUBSET (Above(B, d, t) \cup {t})
    <3> SUFFICES ASSUME NEW b \in B, d[b] < d[m], b # t PROVE d[b] < d[t]
      BY DEF Above
    <3>1. b \in F
      BY <1>1, <2>2
    <3>2. d[b] <= d[t] /\ d[b] # d[t]
      BY <2>3, <2>4, <3>1 DEF OrderedBy
    <3>. QED
      BY <1>1, <2>4, <3>2
  <2>6. IsFiniteSet(Above(B, d, t)) /\ t \notin Above(B, d, t)
    <3>1. Above(B, d, t) \in SUBSET B
      BY DEF Above
    <3>. QED
      BY <1>1, <2>4, <3>1, FS_Subset DEF OrderedBy, Above
  <2>7. /\ IsFiniteSet(Above(B, d, t) \cup {t})
        /\ Cardinality(Above(B, d, t) \cup {t}) = Rank(t) + 1
    BY <2>6, FS_AddElement
  <2>8. Rank(m) <= Rank(t) + 1
    BY <2>5, <2>7, FS_Subset
  <2>9. Rank(m) < limit + 1
    <3>1. Rank(m) \in Nat /\ Rank(t) \in Nat
      BY <1>1, <2>2, <2>4
    <3> HIDE DEF Rank
    <3>. QED
      BY <2>4, <2>8, <3>1
  <2>. QED
    BY <2>2, <2>9 DEF FirstOf
<1>3. FirstOf(B, d, limit) \subseteq FirstOf(B, d, limit + 1)
  <2> SUFFICES ASSUME NEW a \in B, Rank(a) < limit PROVE Rank(a) < limit + 1
    BY DEF FirstOf
  <2>1. Rank(a) \in Nat
    BY <1>1
  <2> HIDE DEF Rank
  <2>. QED
    BY <2>1
<1>4. FirstOf(B, d, limit + 1) \subseteq B
  BY DEF FirstOf
<1>. QED
  BY <1>2, <1>3, <1>4

\* What listHistory pages through: the ancestors beyond a depth, and all of
\* them up to one.
Ancestors(v) == {a \in VersionIds : IsAncestor(a, v)}
UpTo(v, depth) == {a \in Ancestors(v) : closure[v][a] <= depth}
Beyond(v, depth) == {a \in VersionIds : HasRow(a) /\ IsAncestor(a, v) /\ closure[v][a] > depth}

\* The versions of them that are listed.
Chosen(versions, includeRoot) == {a \in versions : includeRoot \/ parent[a] # NoVersion}

LEMMA BeyondIs ==
  ASSUME TypeOK, ForestInv, NEW v \in VersionIds, NEW depth \in Int
  PROVE  /\ Beyond(v, depth) = Ancestors(v) \ UpTo(v, depth)
         /\ \A a \in Ancestors(v) : closure[v][a] \in Nat
         /\ OrderedBy(Beyond(v, depth), closure[v])
         /\ IsFiniteSet(Ancestors(v)) /\ IsFiniteSet(UpTo(v, depth))
<1>1. \A a \in Ancestors(v) : closure[v][a] \in Nat /\ HasRow(a)
  BY DEF TypeOK, ForestInv, Forest, RowsExist, Lives, HasRow, Ancestors, IsAncestor
<1>2. Beyond(v, depth) = Ancestors(v) \ UpTo(v, depth)
  BY <1>1 DEF Beyond, Ancestors, UpTo
<1>3. Beyond(v, depth) \in SUBSET VersionIds /\ Ancestors(v) \in SUBSET VersionIds
      /\ UpTo(v, depth) \in SUBSET VersionIds
  BY DEF Beyond, Ancestors, UpTo
<1>4. IsFiniteSet(Beyond(v, depth)) /\ IsFiniteSet(Ancestors(v)) /\ IsFiniteSet(UpTo(v, depth))
  BY <1>3, FiniteAssumption, FS_Subset
<1>5. \A a, b \in Beyond(v, depth) : closure[v][a] = closure[v][b] => a = b
  BY DepthsDiffer DEF Beyond, IsAncestor
<1>. QED
  BY <1>1, <1>2, <1>4, <1>5 DEF OrderedBy

\* A page ends the list, or leads to its last version, with more beyond it.
LEMMA PageIs ==
  ASSUME TypeOK, ForestInv, NEW v \in VersionIds, NEW depth \in Int, NEW limit \in Nat \ {0},
         NEW page, NEW cursor, page = HistoryPage(v, depth, limit),
         cursor = NextCursor(v, depth, limit)
  PROVE  \/ cursor = NoRow /\ page = Ancestors(v) \ UpTo(v, depth)
         \/ /\ cursor \in Nat /\ cursor > depth
            /\ page = UpTo(v, cursor) \ UpTo(v, depth) /\ page # {}
            /\ UpTo(v, cursor) # Ancestors(v)
<1> DEFINE beyond == Beyond(v, depth)
           deep == closure[v]
<1>1. /\ page = FirstOf(beyond, deep, limit)
      /\ cursor = IF page = FirstOf(beyond, deep, limit + 1) THEN NoRow ELSE LastOf(beyond, deep, limit)
  BY DEF HistoryPage, NextCursor, FirstOf, Above, LastOf, Beyond
<1>2. beyond = Ancestors(v) \ UpTo(v, depth) /\ OrderedBy(beyond, deep)
      /\ \A a \in Ancestors(v) : deep[a] \in Nat
  BY BeyondIs
<1> HIDE DEF beyond, deep
<1>5. /\ FirstOf(beyond, deep, limit) = FirstOf(beyond, deep, limit + 1) => FirstOf(beyond, deep, limit) = beyond
      /\ FirstOf(beyond, deep, limit) # FirstOf(beyond, deep, limit + 1) => FirstOf(beyond, deep, limit) # beyond
  <2>1. OrderedBy(beyond, deep)
    BY <1>2
  <2>. QED
    BY <2>1, FirstAreAll
<1>6. beyond # {} => \E t \in FirstOf(beyond, deep, limit) :
                  /\ LastOf(beyond, deep, limit) = deep[t]
                  /\ FirstOf(beyond, deep, limit) = {a \in beyond : deep[a] <= deep[t]}
  <2>1. OrderedBy(beyond, deep)
    BY <1>2
  <2>. QED
    BY <2>1, FirstHaveLast
<1>3. CASE page = FirstOf(beyond, deep, limit + 1)
  BY <1>1, <1>2, <1>3, <1>5
<1>4. CASE page # FirstOf(beyond, deep, limit + 1)
  <2>1. page # beyond /\ page \subseteq beyond
    BY <1>1, <1>4, <1>5 DEF FirstOf
  <2>2. beyond # {}
    BY <2>1
  <2>3. PICK t \in page : cursor = deep[t] /\ page = {a \in beyond : deep[a] <= deep[t]}
    BY <1>1, <1>4, <1>6, <2>2
  <2>4. t \in Ancestors(v) /\ t \notin UpTo(v, depth) /\ deep[t] \in Nat
    BY <1>2, <2>1, <2>3
  <2>5. cursor \in Nat /\ cursor > depth
    BY <2>3, <2>4 DEF UpTo, deep
  <2>6. page = UpTo(v, cursor) \ UpTo(v, depth)
    BY <1>2, <2>3 DEF UpTo, deep
  <2>7. UpTo(v, cursor) # Ancestors(v)
    BY <1>2, <2>1, <2>6
  <2>. QED
    BY <2>3, <2>5, <2>6, <2>7
<1>. QED
  BY <1>3, <1>4

\* After n more pages: all are listed, or those up to the cursor, more than n.
Progress(v, includeRoot, n, listed) ==
  \/ listed.nextCursor = NoRow /\ listed.versions = Chosen(Ancestors(v), includeRoot)
  \/ /\ listed.nextCursor \in Nat
     /\ listed.versions = Chosen(UpTo(v, listed.nextCursor), includeRoot)
     /\ UpTo(v, listed.nextCursor) # Ancestors(v)
     /\ Cardinality(UpTo(v, listed.nextCursor)) > n

LEMMA FirstPageProgresses ==
  ASSUME TypeOK, ForestInv, NEW v \in VersionIds, NEW limit \in Nat \ {0}, NEW includeRoot
  PROVE  Progress(v, includeRoot, 0, ListHistory(v, -1, limit, includeRoot))
<1> DEFINE page == HistoryPage(v, -1, limit)
           cursor == NextCursor(v, -1, limit)
           listed == ListHistory(v, -1, limit, includeRoot)
<1>1. listed.versions = Chosen(page, includeRoot) /\ listed.nextCursor = cursor
  BY DEF ListHistory, Chosen
<1>3. -1 \in Int
  OBVIOUS
<1>2. UpTo(v, -1) = {}
  <2>1. \A a \in Ancestors(v) : closure[v][a] \in Nat
    BY <1>3, BeyondIs
  <2>. QED
    BY <2>1 DEF UpTo
<1>4. \/ cursor = NoRow /\ page = Ancestors(v) \ UpTo(v, -1)
      \/ /\ cursor \in Nat /\ cursor > -1
         /\ page = UpTo(v, cursor) \ UpTo(v, -1) /\ page # {}
         /\ UpTo(v, cursor) # Ancestors(v)
  BY <1>3, PageIs
<1> HIDE DEF page, cursor, listed
<1>5. CASE cursor = NoRow /\ page = Ancestors(v) \ UpTo(v, -1)
  BY <1>1, <1>2, <1>5 DEF Progress, listed
<1>6. CASE /\ cursor \in Nat /\ cursor > -1
           /\ page = UpTo(v, cursor) \ UpTo(v, -1) /\ page # {}
           /\ UpTo(v, cursor) # Ancestors(v)
  <2>1. page = UpTo(v, cursor)
    BY <1>2, <1>6
  <2>2. IsFiniteSet(UpTo(v, cursor))
    BY <1>6, BeyondIs
  <2>3. Cardinality(UpTo(v, cursor)) \in Nat /\ Cardinality(UpTo(v, cursor)) # 0
    BY <1>6, <2>1, <2>2, FS_CardinalityType, FS_EmptySet
  <2>4. Cardinality(UpTo(v, cursor)) > 0
    BY <2>3
  <2>. QED
    BY <1>1, <1>6, <2>1, <2>4 DEF Progress, listed
<1>. QED
  BY <1>4, <1>5, <1>6

LEMMA NextPageProgresses ==
  ASSUME TypeOK, ForestInv, NEW v \in VersionIds, NEW limit \in Nat \ {0}, NEW includeRoot,
         NEW n \in Nat, NEW before, Progress(v, includeRoot, n, before)
  PROVE  Progress(v, includeRoot, n + 1, NextPage(v, limit, includeRoot, before))
<1>1. CASE before.nextCursor = NoRow
  BY <1>1 DEF Progress, NextPage, NoRow
<1>2. CASE before.nextCursor # NoRow
  <2> DEFINE depth == before.nextCursor
             page == HistoryPage(v, depth, limit)
             cursor == NextCursor(v, depth, limit)
             listed == NextPage(v, limit, includeRoot, before)
  <2>1. /\ depth \in Nat
        /\ before.versions = Chosen(UpTo(v, depth), includeRoot)
        /\ Cardinality(UpTo(v, depth)) > n
    BY <1>2 DEF Progress
  <2>2. /\ listed.versions = before.versions \cup Chosen(page, includeRoot)
        /\ listed.nextCursor = cursor
    BY <1>2 DEF ListHistory, NextPage, Chosen
  <2>3. depth \in Int
    BY <2>1
  <2> HIDE DEF depth
  <2>4. \/ cursor = NoRow /\ page = Ancestors(v) \ UpTo(v, depth)
        \/ /\ cursor \in Nat /\ cursor > depth
           /\ page = UpTo(v, cursor) \ UpTo(v, depth) /\ page # {}
           /\ UpTo(v, cursor) # Ancestors(v)
    BY <2>3, PageIs
  <2> HIDE DEF page, cursor, listed
  <2>5. CASE cursor = NoRow /\ page = Ancestors(v) \ UpTo(v, depth)
    <3>1. listed.versions = Chosen(Ancestors(v), includeRoot)
      BY <2>1, <2>2, <2>5 DEF Chosen, UpTo
    <3>. QED
      BY <2>2, <2>5, <3>1 DEF Progress, listed
  <2>6. CASE /\ cursor \in Nat /\ cursor > depth
             /\ page = UpTo(v, cursor) \ UpTo(v, depth) /\ page # {}
             /\ UpTo(v, cursor) # Ancestors(v)
    <3>1. UpTo(v, depth) \in SUBSET UpTo(v, cursor) /\ UpTo(v, depth) # UpTo(v, cursor)
      <4>1. \A a \in Ancestors(v) : closure[v][a] \in Nat
        BY <2>3, BeyondIs
      <4>2. ASSUME NEW a \in Ancestors(v), closure[v][a] <= depth PROVE closure[v][a] <= cursor
        BY <2>1, <2>6, <4>1, <4>2
      <4>. QED
        BY <2>6, <4>2 DEF UpTo
    <3>2. IsFiniteSet(UpTo(v, cursor)) /\ IsFiniteSet(UpTo(v, depth))
      BY <2>3, <2>6, BeyondIs
    <3>3. Cardinality(UpTo(v, depth)) <= Cardinality(UpTo(v, cursor))
          /\ Cardinality(UpTo(v, depth)) # Cardinality(UpTo(v, cursor))
      BY <3>1, <3>2, FS_Subset
    <3>4. Cardinality(UpTo(v, depth)) \in Nat /\ Cardinality(UpTo(v, cursor)) \in Nat
      BY <3>2, FS_CardinalityType
    <3>5. Cardinality(UpTo(v, cursor)) > n + 1
      BY <2>1, <3>3, <3>4
    <3>6. listed.versions = Chosen(UpTo(v, cursor), includeRoot)
      BY <2>1, <2>2, <2>6, <3>1 DEF Chosen
    <3>. QED
      BY <2>2, <2>6, <3>5, <3>6 DEF Progress, listed
  <2>. QED
    BY <2>4, <2>5, <2>6 DEF listed
<1>. QED
  BY <1>1, <1>2

\* f holds what was listed after each page.
PagesFrom(f, v, limit, includeRoot, n) ==
  f = [i \in 0..n |-> IF i = 0 THEN ListHistory(v, -1, limit, includeRoot)
                      ELSE NextPage(v, limit, includeRoot, f[i - 1])]

\* Some number is the least of a set of them: the pages there are.
LEMMA PagesExist ==
  ASSUME NEW v, NEW limit, NEW includeRoot, NEW n \in Nat
  PROVE  \E f : PagesFrom(f, v, limit, includeRoot, n)
<1> DEFINE B == {k \in Nat : ~\E f : PagesFrom(f, v, limit, includeRoot, k)}
<1>1. SUFFICES ASSUME B # {} PROVE FALSE
  OBVIOUS
<1>2. PICK m \in B : \A i \in B : m <= i
  <2>1. B \subseteq Nat
    OBVIOUS
  <2> HIDE DEF B
  <2>. QED
    BY <1>1, <2>1, NatMinimum
<1>3. CASE m = 0
  <2>1. PagesFrom([i \in 0..0 |-> ListHistory(v, -1, limit, includeRoot)], v, limit, includeRoot, 0)
    BY DEF PagesFrom
  <2>. QED
    BY <1>2, <1>3, <2>1
<1>4. CASE m # 0
  <2>1. m \in Nat /\ m - 1 \in Nat /\ ~(m <= m - 1)
    BY <1>2, <1>4
  <2>2. m - 1 \notin B
    BY <1>2, <2>1
  <2>3. PICK f : PagesFrom(f, v, limit, includeRoot, m - 1)
    BY <2>1, <2>2, Zenon
  <2>4. \A i \in 0..(m - 1) : f[i] = IF i = 0 THEN ListHistory(v, -1, limit, includeRoot)
                                     ELSE NextPage(v, limit, includeRoot, f[i - 1])
    BY <2>3 DEF PagesFrom
  <2> DEFINE g == [i \in 0..m |-> IF i < m THEN f[i] ELSE NextPage(v, limit, includeRoot, f[m - 1])]
  <2>5. /\ \A i \in 0..(m - 1) : g[i] = f[i]
        /\ g[m] = NextPage(v, limit, includeRoot, f[m - 1])
        /\ g = [i \in 0..m |-> g[i]]
    BY <2>1
  <2> HIDE DEF g
  <2>6. ASSUME NEW i \in 0..m
        PROVE  g[i] = IF i = 0 THEN ListHistory(v, -1, limit, includeRoot)
                      ELSE NextPage(v, limit, includeRoot, g[i - 1])
    <3>1. /\ i # 0 => i - 1 \in 0..(m - 1)
          /\ i # m => i \in 0..(m - 1)
      BY <2>1
    <3>. QED
      BY <1>4, <2>4, <2>5, <3>1
  <2>7. PagesFrom(g, v, limit, includeRoot, m)
    BY <2>1, <2>5, <2>6 DEF PagesFrom
  <2>. QED
    BY <1>2, <2>7
<1>. QED
  BY <1>3, <1>4

\* Following the cursors lists the version and its chain of ancestors: every
\* page but the last one lists one version more, and there are no more pages
\* than versions.
LEMMA ListedIs ==
  ASSUME TypeOK, ForestInv, NEW v \in VersionIds, NEW limit \in Nat \ {0}, NEW includeRoot
  PROVE  Listed(v, limit, includeRoot) = Chosen(Ancestors(v), includeRoot)
<1> DEFINE N == Cardinality(VersionIds)
           pages == CHOOSE f : PagesFrom(f, v, limit, includeRoot, N)
<1>1. N \in Nat /\ IsFiniteSet(VersionIds)
  BY FiniteAssumption, FS_CardinalityType
<1>2. Listed(v, limit, includeRoot) = pages[N].versions
  BY DEF Listed, PagesFrom
<1>3. PagesFrom(pages, v, limit, includeRoot, N)
  BY <1>1, PagesExist
<1> HIDE DEF pages, N
<1>4. \A i \in 0..N : pages[i] = IF i = 0 THEN ListHistory(v, -1, limit, includeRoot)
                                 ELSE NextPage(v, limit, includeRoot, pages[i - 1])
  BY <1>3 DEF PagesFrom
<1> DEFINE B == {i \in 0..N : ~Progress(v, includeRoot, i, pages[i])}
<1>5. ASSUME B # {} PROVE FALSE
  <2>1. PICK m \in B : \A i \in B : m <= i
    <3>1. B \subseteq Nat
      OBVIOUS
    <3> HIDE DEF B
    <3>. QED
      BY <1>5, <3>1, NatMinimum
  <2>2. m \in 0..N /\ ~Progress(v, includeRoot, m, pages[m])
    BY <2>1
  <2>3. m # 0
    <3>1. ASSUME m = 0 PROVE FALSE
      <4>1. pages[m] = ListHistory(v, -1, limit, includeRoot)
        BY <1>4, <2>2, <3>1
      <4>. QED
        BY <2>2, <3>1, <4>1, FirstPageProgresses
    <3>. QED
      BY <3>1
  <2>4. m - 1 \in 0..N /\ ~(m <= m - 1) /\ m - 1 \in Nat
    BY <1>1, <2>2, <2>3
  <2>5. Progress(v, includeRoot, m - 1, pages[m - 1])
    BY <2>1, <2>4
  <2>6. pages[m] = NextPage(v, limit, includeRoot, pages[m - 1])
    BY <1>4, <2>2, <2>3
  <2>7. Progress(v, includeRoot, (m - 1) + 1, pages[m])
    BY <2>4, <2>5, <2>6, NextPageProgresses
  <2>8. (m - 1) + 1 = m
    BY <2>2
  <2>. QED
    BY <2>2, <2>7, <2>8
<1>6. Progress(v, includeRoot, N, pages[N])
  BY <1>1, <1>5
<1>7. ASSUME pages[N].nextCursor \in Nat PROVE Cardinality(UpTo(v, pages[N].nextCursor)) <= N
  <2>1. UpTo(v, pages[N].nextCursor) \in SUBSET VersionIds
    BY DEF UpTo, Ancestors
  <2>. QED
    BY <1>1, <2>1, FS_Subset DEF N
<1>8. ASSUME pages[N].nextCursor \in Nat PROVE Cardinality(UpTo(v, pages[N].nextCursor)) \in Nat
  BY <1>8, BeyondIs, FS_CardinalityType
<1>9. pages[N].versions = Chosen(Ancestors(v), includeRoot)
  BY <1>1, <1>6, <1>7, <1>8 DEF Progress
<1>. QED
  BY <1>2, <1>9

\* No version is its own parent. (The closure rows would not show it: depth 0
\* stands for the version itself.)
NoSelfParent == \A v \in VersionIds : parent[v] # v

LEMMA InitSelf == Init => NoSelfParent
  BY SentinelAssumption DEF Init, NoSelfParent

\* A fork points from a new id to a version that has a row; all else removes.
LEMMA NextSelf == TypeOK /\ NoSelfParent /\ [Next]_vars => NoSelfParent'
<1> SUFFICES ASSUME TypeOK, NoSelfParent, [Next]_vars PROVE NoSelfParent'
  OBVIOUS
<1>1. ASSUME NEW b, NEW w \in VersionIds, b # w, parent' = [parent EXCEPT ![w] = b]
      PROVE  NoSelfParent'
  BY <1>1 DEF TypeOK, NoSelfParent
<1>2. ASSUME NEW S, NEW w \in VersionIds,
             \/ parent' = RemovedParent(S)
             \/ parent' = [RemovedParent(S) EXCEPT ![w] = NoVersion]
      PROVE  NoSelfParent'
  <2>1. RemovedParent(S) \in [VersionIds -> VersionIds \cup {NoVersion}]
        /\ \A u \in VersionIds : RemovedParent(S)[u] \in {parent[u], NoVersion}
    BY DEF TypeOK, RemovedParent
  <2>2. \A u \in VersionIds : parent'[u] \in {parent[u], NoVersion}
    BY <1>2, <2>1
  <2>. QED
    BY <2>2, SentinelAssumption DEF NoSelfParent
<1>3. CASE parent' = parent
  BY <1>3 DEF NoSelfParent
<1>4. ASSUME NEW v \in VersionIds, NEW w \in VersionIds, NEW l \in UserLabels, Fork(v, w, l)
      PROVE  NoSelfParent'
  <2>1. HasRow(v) /\ status[w] = "unused" /\ parent' = [parent EXCEPT ![w] = v]
    BY <1>4 DEF Fork, HasRow
  <2>. QED
    BY <1>1, <2>1 DEF HasRow
<1>5. ASSUME NEW v \in VersionIds, NEW l \in UserLabels, Detach(v) \/ PromoteDetached(v, l)
      PROVE  NoSelfParent'
  BY <1>1, <1>5, SentinelAssumption DEF Detach, PromoteDetached
<1>6. ASSUME NEW v \in VersionIds, HardDelete(v) PROVE NoSelfParent'
  BY <1>2, <1>6 DEF HardDelete
<1>9. ASSUME NEW v \in VersionIds, NEW t \in VersionIds, NEW l \in UserLabels, PromoteDiscard(v, t, l)
      PROVE  NoSelfParent'
  BY <1>2, <1>9 DEF PromoteDiscard
<1>10. ASSUME NEW r \in VersionRoots, SweepHistory(r) PROVE NoSelfParent'
  <2>1. PICK S : parent' = RemovedParent(S)
    BY <1>10 DEF SweepHistory
  <2>2. CASE VersionIds = {}
    BY <2>2 DEF NoSelfParent
  <2>. QED
    BY <1>2, <2>1, <2>2
<1>11. ASSUME NEW v \in VersionIds, NEW r \in VersionRoots, RemoveVersionRoot(v, r)
       PROVE  NoSelfParent'
  <2>1. PICK S : parent' = RemovedParent(S)
    BY <1>11 DEF RemoveVersionRoot
  <2>. QED
    BY <1>2, <2>1
<1>7. ASSUME NEW v \in VersionIds, NEW w \in VersionIds, NEW l \in UserLabels,
             \/ EnsureVersion(v, l)
             \/ MkdirVersioned(w, v)
             \/ PromoteRetain(v, l)
             \/ \E swap \in BOOLEAN : RenameVersion(v, l, swap)
             \/ SoftDelete(v)
      PROVE  NoSelfParent'
  BY <1>3, <1>7 DEF EnsureVersion, MkdirVersioned, PromoteRetain, RenameVersion, SoftDelete
<1>12. ASSUME NEW v \in VersionIds, NEW p \in Paths,
              Mkdir(v, p) \/ Rm(v, p) \/ \E c \in Contents : WriteFile(v, p, c)
       PROVE  NoSelfParent'
  BY <1>3, <1>12 DEF Mkdir, Rm, WriteFile, graph
<1>8. CASE UNCHANGED vars
  BY <1>3, <1>8 DEF vars
<1>. QED
  BY <1>4, <1>5, <1>6, <1>7, <1>8, <1>9, <1>10, <1>11, <1>12, LabelAssumption
  DEF Next, Create, Write, Relabel, Flatten, Remove

\* The page after an ancestor is its parent.
LEMMA NextIsParent ==
  ASSUME TypeOK, ForestInv, NoSelfParent, NEW v \in VersionIds, NEW a \in Ancestors(v)
  PROVE  HistoryPage(v, closure[v][a], 1) = {parent[a]} \ {NoVersion}
<1> DEFINE depth == closure[v][a]
           up == parent[a]
<1>2. \A b \in Ancestors(v) : closure[v][b] \in Nat /\ b \in VersionIds /\ closure[v][b] # NoRow
  BY DEF TypeOK, Ancestors, IsAncestor
<1>1. depth \in Nat /\ a \in VersionIds /\ closure[v][a] # NoRow
  BY <1>2
<1>3. OrderedBy(Beyond(v, depth), closure[v]) /\ Beyond(v, depth) = Ancestors(v) \ UpTo(v, depth)
  <2>1. depth \in Int
    BY <1>1
  <2>. QED
    BY <2>1, BeyondIs
<1>4. ASSUME NEW b \in Beyond(v, depth)
      PROVE  up # NoVersion /\ closure[up][b] \in Nat /\ closure[v][b] = depth + 1 + closure[up][b]
  <2>1. closure[a][b] # NoRow \/ closure[b][a] # NoRow
    BY <1>1, <1>2, <1>3 DEF ForestInv, Forest, OneChain
  <2>2. closure[v][b] > depth /\ b \in VersionIds /\ closure[v][b] \in Nat /\ closure[v][b] # NoRow
    BY <1>2, <1>3 DEF Beyond
  <2>3. closure[a][b] # NoRow
    <3>1. ASSUME closure[b][a] # NoRow PROVE FALSE
      <4>1. closure[v][a] = closure[v][b] + closure[b][a] /\ closure[b][a] \in Nat
        BY <1>1, <2>2, <3>1 DEF ForestInv, Forest, DepthsAdd, TypeOK
      <4>. QED
        BY <1>1, <2>2, <4>1
    <3>. QED
      BY <2>1, <3>1
  <2>4. closure[v][b] = depth + closure[a][b] /\ closure[a][b] \in Nat
    BY <1>1, <2>2, <2>3 DEF ForestInv, Forest, DepthsAdd, TypeOK
  <2>5. a # b
    BY <2>2
  <2>6. /\ up # NoVersion /\ closure[up][b] # NoRow
        /\ closure[a][b] = closure[up][b] + 1
    BY <1>1, <2>2, <2>3, <2>5 DEF ForestInv, Forest, FollowsParents
  <2>7. closure[up][b] \in Nat
    <3>1. up \in VersionIds
      BY <1>1, <2>6 DEF ForestInv, Forest, ParentsIn
    <3>. QED
      BY <2>2, <2>6, <3>1 DEF TypeOK
  <2> HIDE DEF depth, up
  <2>. QED
    BY <1>1, <2>4, <2>6, <2>7
<1>5. CASE up = NoVersion
  <2>1. Beyond(v, depth) = {}
    BY <1>4, <1>5
  <2>2. HistoryPage(v, depth, 1) = {}
    BY <2>1 DEF HistoryPage, Beyond
  <2>. QED
    BY <1>5, <2>2
<1>6. CASE up # NoVersion
  <2>1. up \in VersionIds /\ closure[up][up] = 0
    BY <1>1, <1>6 DEF ForestInv, Forest, ParentsIn, FollowsParents
  <2>2. closure[a][up] = 1
    <3>1. closure[a][up] = IF ~Lives(status, a) THEN NoRow
                           ELSE IF up = a THEN 0
                           ELSE IF closure[up][up] = NoRow THEN NoRow
                           ELSE closure[up][up] + 1
      BY <1>1, <1>6, <2>1 DEF ForestInv, Forest, FollowsParents
    <3>2. Lives(status, a)
      BY <1>1, <1>6 DEF ForestInv, Forest, ParentsIn
    <3>3. up # a
      BY <1>1 DEF NoSelfParent
    <3>. QED
      BY <2>1, <3>1, <3>2, <3>3 DEF NoRow
  <2>3. closure[v][up] = depth + 1
    BY <1>1, <2>1, <2>2 DEF ForestInv, Forest, DepthsAdd, NoRow
  <2>4. up \in Beyond(v, depth)
    BY <1>1, <2>1, <2>3 DEF Beyond, IsAncestor, HasRow, NoRow, ForestInv, Forest, RowsExist, Lives
  <2>5. \A b \in Beyond(v, depth) : closure[v][up] <= closure[v][b]
    <3>1. ASSUME NEW b \in Beyond(v, depth) PROVE depth + 1 <= closure[v][b]
      <4>1. closure[up][b] \in Nat /\ closure[v][b] = depth + 1 + closure[up][b]
        BY <1>4
      <4> HIDE DEF depth, up
      <4>. QED
        BY <1>1, <4>1
    <3>. QED
      BY <2>3, <3>1
  <2>6. Above(Beyond(v, depth), closure[v], up) = {}
    <3>1. \A b \in Beyond(v, depth) : closure[v][b] \in Nat
      BY <1>3 DEF OrderedBy
    <3> HIDE DEF depth, up
    <3>. QED
      BY <2>4, <2>5, <3>1 DEF Above
  <2>7. ASSUME NEW b \in Beyond(v, depth), b # up
        PROVE  Cardinality(Above(Beyond(v, depth), closure[v], b)) >= 1
    <3>1. closure[v][up] # closure[v][b] /\ closure[v][up] \in Nat /\ closure[v][b] \in Nat
      BY <1>3, <2>4, <2>7 DEF OrderedBy
    <3>2. closure[v][up] < closure[v][b]
      BY <2>5, <3>1
    <3>3. Cardinality(Above(Beyond(v, depth), closure[v], up)) \in Nat
          /\ Cardinality(Above(Beyond(v, depth), closure[v], b)) \in Nat
          /\ Cardinality(Above(Beyond(v, depth), closure[v], up))
               < Cardinality(Above(Beyond(v, depth), closure[v], b))
      BY <1>3, <2>4, <3>2, AboveGrows
    <3>. QED
      BY <3>3
  <2>8. ASSUME NEW b \in Beyond(v, depth)
        PROVE  Cardinality(Above(Beyond(v, depth), closure[v], b)) \in Nat
    BY <1>3, AboveGrows
  <2>9. Cardinality(Above(Beyond(v, depth), closure[v], up)) = 0
    BY <2>6, FS_EmptySet
  <2>10. FirstOf(Beyond(v, depth), closure[v], 1) = {up}
    <3> HIDE DEF depth, up
    <3>1. ASSUME NEW b \in Beyond(v, depth)
          PROVE  Cardinality(Above(Beyond(v, depth), closure[v], b)) < 1 <=> b = up
      BY <2>7, <2>8, <2>9
    <3>. QED
      BY <2>4, <3>1 DEF FirstOf
  <2>11. HistoryPage(v, depth, 1) = {up}
    BY <2>10 DEF HistoryPage, FirstOf, Above, Beyond
  <2>. QED
    BY <1>6, <2>11
<1>. QED
  BY <1>5, <1>6

-----------------------------------------------------------------------------
(* What getUsage counts.                                                   *)

\* The paths of a version that show a node of some type.
ShownAs(v, types) == {p \in Paths : Type(Resolve(v, p)) \in types}

LEMMA RowsFinite ==
  ASSUME NEW r, NEW shapes
  PROVE  IsFiniteSet(RowsOf(r, shapes)) /\ Cardinality(RowsOf(r, shapes)) \in Nat
<1>1. IsFiniteSet(VersionIds \X Paths)
  BY FiniteAssumption, FS_Product
<1>2. RowsOf(r, shapes) \in SUBSET (VersionIds \X Paths)
  BY DEF RowsOf
<1>. QED
  BY <1>1, <1>2, FS_Subset, FS_CardinalityType

LEMMA ShownFinite ==
  ASSUME NEW v, NEW types
  PROVE  IsFiniteSet(ShownAs(v, types)) /\ Cardinality(ShownAs(v, types)) \in Nat
<1>1. ShownAs(v, types) \in SUBSET Paths
  BY DEF ShownAs
<1>. QED
  BY <1>1, FiniteAssumption, FS_Subset, FS_CardinalityType

\* Every path shown has a row of its own that shows it.
LEMMA ShownHaveRows ==
  ASSUME TypeOK, ForestInv, NEW v \in VersionIds, NEW r, r = RootOf[v]
  PROVE  Cardinality(ShownAs(v, {"file", "directory"})) <= Cardinality(RowsOf(r, Shapes))
<1> DEFINE V == ShownAs(v, {"file", "directory"})
           R == RowsOf(r, Shapes)
           row == [p \in V |-> CHOOSE x \in R : x[2] = p]
<1>1. ASSUME NEW p \in V PROVE \E x \in R : x[2] = p
  <2>1. p \in Paths /\ Resolve(v, p) # Absent
    BY SentinelAssumption DEF ShownAs, Type, Shapes
  <2>2. PICK a \in VersionIds : IsAncestor(a, v) /\ entries[a][p] \in Shapes
    BY <2>1, ResolveValue
  <2>3. HasRow(a) /\ RootOf[a] = r
    BY <2>2 DEF ForestInv, Forest, RowsExist, Lives, HasRow, IsAncestor
  <2>4. <<a, p>> \in R
    BY <2>1, <2>2, <2>3 DEF RowsOf
  <2>. QED
    BY <2>4
<1>2. \A p \in V : row[p] \in R /\ row[p][2] = p
  BY <1>1
<1> HIDE DEF V, R
<1>3. row \in [V -> R] /\ \A p, q \in V : row[p] = row[q] => p = q
  BY <1>2
<1>4. row \in Injection(V, R)
  BY <1>3 DEF Injection, IsInjective
<1>5. IsFiniteSet(R)
  BY RowsFinite DEF R
<1>. QED
  BY <1>4, <1>5, FS_Injection DEF V, R

\* Rows are tombstones or show something.
LEMMA RowsAddUp ==
  ASSUME NEW r
  PROVE  Cardinality(RowsOf(r, Shapes \cup {Tombstone}))
           = Cardinality(RowsOf(r, Shapes)) + Cardinality(RowsOf(r, {Tombstone}))
<1> DEFINE nodes == RowsOf(r, Shapes)
           tombs == RowsOf(r, {Tombstone})
<1>1. RowsOf(r, Shapes \cup {Tombstone}) = nodes \cup tombs
  BY DEF RowsOf
<1>2. nodes \cap tombs = {}
  BY SentinelAssumption DEF RowsOf
<1>3. /\ IsFiniteSet(nodes) /\ Cardinality(nodes) \in Nat
      /\ IsFiniteSet(tombs) /\ Cardinality(tombs) \in Nat
  BY RowsFinite
<1> HIDE DEF nodes, tombs
<1>4. Cardinality(nodes \cup tombs) = Cardinality(nodes) + Cardinality(tombs) - Cardinality(nodes \cap tombs)
  BY <1>3, FS_Union
<1>5. Cardinality(nodes \cap tombs) = 0
  BY <1>2, FS_EmptySet
<1>6. Cardinality(nodes \cup tombs) = Cardinality(nodes) + Cardinality(tombs)
  BY <1>3, <1>4, <1>5
<1>. QED
  BY <1>1, <1>6 DEF nodes, tombs

\* A node shown is a file or a directory.
LEMMA NodesAddUp ==
  ASSUME NEW v
  PROVE  Cardinality(ShownAs(v, {"file", "directory"}))
           = Cardinality(ShownAs(v, {"file"})) + Cardinality(ShownAs(v, {"directory"}))
<1>1. ShownAs(v, {"file", "directory"}) = ShownAs(v, {"file"}) \cup ShownAs(v, {"directory"})
  BY DEF ShownAs
<1>2. ShownAs(v, {"file"}) \cap ShownAs(v, {"directory"}) = {}
  BY DEF ShownAs
<1>3. /\ IsFiniteSet(ShownAs(v, {"file"})) /\ Cardinality(ShownAs(v, {"file"})) \in Nat
      /\ IsFiniteSet(ShownAs(v, {"directory"})) /\ Cardinality(ShownAs(v, {"directory"})) \in Nat
  BY ShownFinite
<1>. QED
  BY <1>1, <1>2, <1>3, FS_Union, FS_EmptySet

\* What a version shows is stored.
LEMMA VisibleStored ==
  ASSUME TypeOK, BlobsBackEntries, NEW v \in VersionIds
  PROVE  VisibleBlobs(v) \subseteq blobs
<1> SUFFICES ASSUME NEW p \in Paths, Resolve(v, p) \in Contents PROVE Resolve(v, p) \in blobs
  BY DEF VisibleBlobs
<1>1. Resolve(v, p) # Absent
  BY SentinelAssumption DEF Shapes
<1>2. PICK a \in VersionIds : Resolve(v, p) = entries[a][p]
  BY <1>1, ResolveValue
<1>. QED
  BY <1>2 DEF BlobsBackEntries, References

-----------------------------------------------------------------------------
(* The queries together.                                                   *)

LEMMA QueriesAgree == TypeOK /\ ForestInv /\ NoSelfParent /\ BlobsBackEntries => QueriesAddUp
<1> SUFFICES ASSUME TypeOK, ForestInv, NoSelfParent, BlobsBackEntries, NEW v \in VersionIds
             PROVE  LET usage == Usage(v)
                    IN /\ \A limit \in 1..2 :
                            /\ Listed(v, limit, TRUE) = {a \in VersionIds : IsAncestor(a, v)}
                            /\ Listed(v, limit, FALSE)
                                 = {a \in VersionIds : IsAncestor(a, v) /\ parent[a] # NoVersion}
                       /\ \A a \in VersionIds : IsAncestor(a, v) =>
                            HistoryPage(v, closure[v][a], 1) = {parent[a]} \ {NoVersion}
                       /\ usage.visibleNodes <= usage.entryRows - usage.tombstoneRows
                       /\ usage.visibleNodes = usage.visibleFiles + usage.visibleDirectories
                       /\ usage.referencedBlobs \cup usage.acrossBlobs \subseteq usage.storedBlobs
                       /\ status[v] = "active" => usage.referencedBlobs \subseteq usage.acrossBlobs
  BY DEF QueriesAddUp
<1> DEFINE r == RootOf[v]
           usage == Usage(v)
<1>1. ASSUME NEW limit \in 1..2
      PROVE  /\ Listed(v, limit, TRUE) = {a \in VersionIds : IsAncestor(a, v)}
             /\ Listed(v, limit, FALSE) = {a \in VersionIds : IsAncestor(a, v) /\ parent[a] # NoVersion}
  <2>1. limit \in Nat \ {0}
    OBVIOUS
  <2>2. \A includeRoot : Listed(v, limit, includeRoot) = Chosen(Ancestors(v), includeRoot)
    BY <2>1, ListedIs
  <2>3. Listed(v, limit, TRUE) = Chosen(Ancestors(v), TRUE)
    BY <2>2, Zenon
  <2>4. Listed(v, limit, FALSE) = Chosen(Ancestors(v), FALSE)
    BY <2>2, Zenon
  <2>5. Chosen(Ancestors(v), TRUE) = {a \in VersionIds : IsAncestor(a, v)}
    BY DEF Chosen, Ancestors
  <2>6. Chosen(Ancestors(v), FALSE) = {a \in VersionIds : IsAncestor(a, v) /\ parent[a] # NoVersion}
    BY DEF Chosen, Ancestors
  <2>. QED
    BY <2>3, <2>4, <2>5, <2>6
<1>2. ASSUME NEW a \in VersionIds, IsAncestor(a, v)
      PROVE  HistoryPage(v, closure[v][a], 1) = {parent[a]} \ {NoVersion}
  <2>1. a \in Ancestors(v)
    BY <1>2 DEF Ancestors
  <2>. QED
    BY <2>1, NextIsParent
<1>3. /\ usage.visibleNodes = Cardinality(ShownAs(v, {"file", "directory"}))
      /\ usage.visibleFiles = Cardinality(ShownAs(v, {"file"}))
      /\ usage.visibleDirectories = Cardinality(ShownAs(v, {"directory"}))
      /\ usage.entryRows = Cardinality(RowsOf(r, Shapes \cup {Tombstone}))
      /\ usage.tombstoneRows = Cardinality(RowsOf(r, {Tombstone}))
      /\ usage.referencedBlobs = VisibleBlobs(v)
      /\ usage.acrossBlobs = UNION {VisibleBlobs(w) : w \in Live(r)}
      /\ usage.storedBlobs = blobs
  BY DEF Usage, ShownAs
<1>4. usage.visibleNodes <= usage.entryRows - usage.tombstoneRows
  <2> DEFINE shown == Cardinality(ShownAs(v, {"file", "directory"}))
             rows == Cardinality(RowsOf(r, Shapes \cup {Tombstone}))
             nodes == Cardinality(RowsOf(r, Shapes))
             tombs == Cardinality(RowsOf(r, {Tombstone}))
  <2>1. shown \in Nat /\ rows \in Nat /\ nodes \in Nat /\ tombs \in Nat
    BY RowsFinite, ShownFinite
  <2>2. shown <= nodes
    BY ShownHaveRows
  <2>3. rows = nodes + tombs
    BY RowsAddUp
  <2>4. usage.visibleNodes = shown /\ usage.entryRows = rows /\ usage.tombstoneRows = tombs
    BY <1>3
  <2> HIDE DEF shown, rows, nodes, tombs, usage
  <2>. QED
    BY <2>1, <2>2, <2>3, <2>4
<1>5. usage.visibleNodes = usage.visibleFiles + usage.visibleDirectories
  BY <1>3, NodesAddUp
<1>6. usage.referencedBlobs \cup usage.acrossBlobs \subseteq usage.storedBlobs
  <2>1. \A w \in VersionIds : VisibleBlobs(w) \subseteq blobs
    BY VisibleStored
  <2>2. Live(r) \subseteq VersionIds
    BY DEF Live
  <2> HIDE DEF usage
  <2>. QED
    BY <1>3, <2>1, <2>2
<1>7. status[v] = "active" => usage.referencedBlobs \subseteq usage.acrossBlobs
  <2>1. status[v] = "active" => v \in Live(r)
    BY DEF Live
  <2> HIDE DEF usage
  <2>. QED
    BY <1>3, <2>1
<1>. QED
  BY <1>1, <1>2, <1>4, <1>5, <1>6, <1>7

\* Paging through the history misses and repeats nothing, whatever was forked,
\* detached, promoted, deleted or swept before, and the figures of getUsage are
\* within each other (QueriesAddUp).
THEOREM QueriesAlwaysAddUp == Spec => []QueriesAddUp
<1>1. Init => NoSelfParent /\ ForestInv /\ TypeOK
  BY InitSelf, InitForest, InitTypeOK
<1>. QED
  BY <1>1, NextSelf, NextForest, NextTypeOK, BlobsKept, QueriesAgree, PTL DEF Spec

-----------------------------------------------------------------------------
(* What the versions show, and who follows whom.                           *)

\* The least set that holds v and is closed under overlaying a member without
\* owning p, read along the parent pointers: a descendant of v follows it when
\* its parent does and it has no row of its own for p.
LEMMA FollowersAre ==
  ASSUME TypeOK, ForestInv, NEW v \in VersionIds, HasRow(v), NEW p \in Paths
  PROVE  /\ v \in Meaning!Followers(v, p)
         /\ \A d \in Meaning!Followers(v, p) : d \in VersionIds /\ IsAncestor(v, d)
         /\ \A d \in VersionIds : IsAncestor(v, d) /\ d # v =>
              /\ HasRow(d) /\ parent[d] \in VersionIds
              /\ closure[parent[d]][v] \in Nat
              /\ closure[d][v] = closure[parent[d]][v] + 1
              /\ d \in Meaning!Followers(v, p)
                   <=> parent[d] \in Meaning!Followers(v, p) /\ entries[d][p] = Absent
<1> DEFINE F == Meaning!Followers(v, p)
           Closed(S) == \A e \in VersionIds :
             HasRow(e) /\ parent[e] \in S /\ entries[e][p] = Absent => e \in S
<1>1. \A d : d \in F <=> d \in VersionIds /\ \A S \in SUBSET VersionIds :
                           v \in S /\ Closed(S) => d \in S
  BY DEF Meaning!Followers, Alive, Owned
<1>2. \A x, y \in VersionIds : closure[x][y] \in Nat \cup {NoRow}
  BY DEF TypeOK
<1>3. closure[v][v] = 0
  BY DEF ForestInv, Forest, FollowsParents, Lives, HasRow
<1>4. \A d, a \in VersionIds :
        closure[d][a] = IF ~HasRow(d) THEN NoRow
                        ELSE IF a = d THEN 0
                        ELSE IF parent[d] = NoVersion THEN NoRow
                        ELSE IF closure[parent[d]][a] = NoRow THEN NoRow
                        ELSE closure[parent[d]][a] + 1
  BY DEF ForestInv, Forest, FollowsParents, Lives, HasRow
<1>5. \A d \in VersionIds : parent[d] # NoVersion => parent[d] \in VersionIds
  BY DEF TypeOK
<1> HIDE DEF F
<1>6. v \in F
  BY <1>1
<1>7. ASSUME NEW d \in F PROVE d \in VersionIds /\ closure[d][v] # NoRow
  <2> DEFINE S == {x \in VersionIds : closure[x][v] # NoRow}
  <2>1. v \in S
    BY <1>3 DEF NoRow
  <2>2. Closed(S)
    <3>1. \A x, y \in VersionIds :
            parent[x] = y /\ HasRow(x) /\ closure[y][v] # NoRow => closure[x][v] # NoRow
      BY <1>2, <1>4, SentinelAssumption DEF NoRow
    <3>. QED
      BY <3>1
  <2>3. S \in SUBSET VersionIds
    OBVIOUS
  <2>4. d \in S
    BY <1>1, <2>1, <2>2, <2>3
  <2>. QED
    BY <2>4
<1>8. Closed(F)
  BY <1>1
<1>9. ASSUME NEW d \in VersionIds, closure[d][v] # NoRow, d # v
      PROVE  /\ HasRow(d) /\ parent[d] \in VersionIds
             /\ closure[parent[d]][v] \in Nat
             /\ closure[d][v] = closure[parent[d]][v] + 1
             /\ d \in F <=> parent[d] \in F /\ entries[d][p] = Absent
  <2>1. /\ HasRow(d) /\ parent[d] \in VersionIds /\ closure[parent[d]][v] # NoRow
        /\ closure[d][v] = closure[parent[d]][v] + 1
    BY <1>4, <1>5, <1>9
  <2>2. closure[parent[d]][v] \in Nat
    BY <1>2, <2>1
  <2>3. parent[d] \in F /\ entries[d][p] = Absent => d \in F
    BY <1>8, <2>1
  <2>4. ASSUME d \in F, ~ (parent[d] \in F /\ entries[d][p] = Absent)
        PROVE  FALSE
    <3> DEFINE S == F \ {d}
    <3>1. v \in S
      BY <1>6, <1>9
    <3>2. Closed(S)
      BY <1>8, <2>4
    <3>3. S \in SUBSET VersionIds
      BY <1>7
    <3>4. d \in S
      <4> HIDE DEF S
      <4>. QED
        BY <1>1, <2>4, <3>1, <3>2, <3>3
    <3>. QED
      BY <3>4
  <2>. QED
    BY <2>1, <2>2, <2>3, <2>4
<1>. QED
  BY <1>6, <1>7, <1>9 DEF IsAncestor, F

\* The parent rule of ResolveInherits, for all versions at once.
Inherits ==
  \A v \in VersionIds, p \in Paths : HasRow(v) =>
    /\ entries[v][p] # Absent => Resolve(v, p) = Shown(entries[v][p])
    /\ entries[v][p] = Absent /\ parent[v] = NoVersion => Resolve(v, p) = Absent
    /\ \A b \in VersionIds :
         entries[v][p] = Absent /\ parent[v] = b => Resolve(v, p) = Resolve(b, p)

LEMMA ResolveInheritsAll == TypeOK /\ ForestInv => Inherits
  BY ResolveInherits, SentinelAssumption DEF Inherits

\* The same about the next state.
LEMMA ResolveInheritsNext ==
  ASSUME TypeOK', ForestInv', NEW v \in VersionIds, HasRow(v)', NEW p \in Paths
  PROVE  /\ entries'[v][p] # Absent => Resolve(v, p)' = Shown(entries'[v][p])
         /\ entries'[v][p] = Absent /\ parent'[v] = NoVersion => Resolve(v, p)' = Absent
         /\ \A b \in VersionIds :
              entries'[v][p] = Absent /\ parent'[v] = b => Resolve(v, p)' = Resolve(b, p)'
<1>1. TypeOK' /\ ForestInv' => Inherits'
  BY ResolveInheritsAll, PTL
<1>. QED
  BY <1>1 DEF Inherits, Shown

\* A version keeps its view of p when its ancestors and their rows for p stay.
LEMMA SameView ==
  ASSUME TypeOK, ForestInv, TypeOK', ForestInv', NEW d \in VersionIds, NEW p \in Paths,
         \A a \in VersionIds :
           /\ closure'[d][a] = closure[d][a]
           /\ closure[d][a] # NoRow => entries'[a][p] = entries[a][p]
  PROVE  Resolve(d, p)' = Resolve(d, p)
<1>1. Shows(closure, entries, d, p, Resolve(d, p))
  BY ResolveShows DEF ShowsResolve
<1>2. Shows(closure', entries', d, p, Resolve(d, p))
  BY <1>1 DEF Shows, NoHolder, NearestRow
<1>. QED
  BY <1>2, ResolveShowsNext

\* An id without a row shows nothing.
LEMMA NoView ==
  ASSUME TypeOK', ForestInv', NEW d \in VersionIds, ~HasRow(d)', NEW p \in Paths
  PROVE  Resolve(d, p)' = Absent
<1>1. TypeOK' /\ ForestInv' => GoneShowsNothing'
  BY ForestImplies, PTL
<1>. QED
  BY <1>1 DEF GoneShowsNothing

\* A row written to v for p reaches exactly the versions that follow v at p, as
\* far as the subtree of v and its rows for p stay what they were.
LEMMA WriteViews ==
  ASSUME TypeOK, ForestInv, TypeOK', ForestInv',
         NEW v \in VersionIds, HasRow(v), NEW p \in Paths, entries'[v][p] # Absent,
         \A d \in VersionIds : IsAncestor(v, d) =>
           /\ HasRow(d)' /\ parent'[d] = parent[d]
           /\ d # v => entries'[d][p] = entries[d][p]
  PROVE  \A d \in VersionIds : IsAncestor(v, d) =>
           Resolve(d, p)' = IF d \in Meaning!Followers(v, p) THEN Shown(entries'[v][p])
                            ELSE Resolve(d, p)
<1> DEFINE F == Meaning!Followers(v, p)
           Right(d) == Resolve(d, p)' = IF d \in F THEN Shown(entries'[v][p])
                                        ELSE Resolve(d, p)
           Wrong == {n \in Nat : \E d \in VersionIds :
                       IsAncestor(v, d) /\ closure[d][v] = n /\ ~Right(d)}
<1>1. /\ v \in F
      /\ \A d \in VersionIds : IsAncestor(v, d) /\ d # v =>
           /\ HasRow(d) /\ parent[d] \in VersionIds
           /\ closure[parent[d]][v] \in Nat
           /\ closure[d][v] = closure[parent[d]][v] + 1
           /\ d \in F <=> parent[d] \in F /\ entries[d][p] = Absent
  BY FollowersAre
<1> HIDE DEF F
<1>2. ASSUME NEW n \in Wrong, \A m \in Wrong : n <= m PROVE FALSE
  <2>1. PICK d \in VersionIds : IsAncestor(v, d) /\ closure[d][v] = n /\ ~Right(d)
    BY <1>2
  <2>2. /\ entries'[d][p] # Absent => Resolve(d, p)' = Shown(entries'[d][p])
        /\ \A b \in VersionIds :
             entries'[d][p] = Absent /\ parent'[d] = b => Resolve(d, p)' = Resolve(b, p)'
    BY <2>1, ResolveInheritsNext
  <2>3. CASE d = v
    BY <1>1, <2>1, <2>2, <2>3
  <2>4. CASE d # v
    <3>1. PICK b \in VersionIds :
            /\ parent[d] = b /\ HasRow(d)
            /\ closure[b][v] \in Nat
            /\ closure[d][v] = closure[b][v] + 1
            /\ d \in F <=> b \in F /\ entries[d][p] = Absent
      BY <1>1, <2>1, <2>4
    <3>2. Right(b)
      <4>1. IsAncestor(v, b)
        BY <3>1 DEF IsAncestor, NoRow
      <4>2. ASSUME ~Right(b) PROVE closure[b][v] \in Wrong
        BY <3>1, <4>1, <4>2
      <4>3. closure[b][v] \notin Wrong
        <5>1. ~ (n <= closure[b][v])
          BY <2>1, <3>1
        <5> HIDE DEF Wrong
        <5>. QED
          BY <1>2, <5>1
      <4>. QED
        BY <4>2, <4>3
    <3>3. Resolve(d, p) = IF entries[d][p] # Absent THEN Shown(entries[d][p])
                          ELSE Resolve(b, p)
      BY <3>1, ResolveInheritsAll DEF Inherits
    <3>4. entries'[d][p] = entries[d][p] /\ parent'[d] = b
      BY <2>1, <2>4, <3>1
    <3>5. Resolve(d, p)' = IF entries[d][p] # Absent THEN Shown(entries[d][p])
                           ELSE Resolve(b, p)'
      BY <2>2, <3>4
    <3>6. Right(d)
      BY <3>1, <3>2, <3>3, <3>5
    <3>. QED
      BY <2>1, <3>6
  <2>. QED
    BY <2>3, <2>4
<1>3. Wrong = {}
  <2>1. Wrong \subseteq Nat
    OBVIOUS
  <2> HIDE DEF Wrong
  <2>. QED
    BY <1>2, <2>1, NatMinimum
<1>4. \A d \in VersionIds : IsAncestor(v, d) => closure[d][v] \in Nat
  BY DEF IsAncestor, TypeOK
<1>. QED
  BY <1>3, <1>4 DEF F

-----------------------------------------------------------------------------
(* The state of the abstract specification, value by value.                *)

\* An id nobody used has no rows: what a fork shows is its parent's tree alone.
FreshIdsBare == \A v \in VersionIds : ~Allocated(v) => entries[v] = NoEntries

\* The invariants the refinement rests on.
OverlayInv == TypeOK /\ ForestInv /\ LabelInv /\ FreshIdsBare

LEMMA InitBare == Init => FreshIdsBare
  BY DEF Init, FreshIdsBare

\* A step that keeps ids allocated and writes only to the id v, allocated now or
\* by the step, or removes rows, leaves the unused ids bare.
LEMMA BareKept ==
  ASSUME FreshIdsBare, NEW v \in VersionIds, Allocated(v)',
         \A u \in VersionIds : Allocated(u) => Allocated(u)',
         \A u \in VersionIds :
           u = v \/ entries'[u] = entries[u] \/ entries'[u] = NoEntries
  PROVE  FreshIdsBare'
  BY DEF FreshIdsBare

\* Whoever writes entries does so for an allocated id, or allocates it.
LEMMA NextBare == TypeOK /\ ForestInv /\ FreshIdsBare /\ [Next]_vars => FreshIdsBare'
<1> SUFFICES ASSUME TypeOK, ForestInv, FreshIdsBare, [Next]_vars PROVE FreshIdsBare'
  OBVIOUS
<1>1. ASSUME entries' = entries, \A u \in VersionIds : Allocated(u) => Allocated(u)'
      PROVE  FreshIdsBare'
  BY <1>1 DEF FreshIdsBare
<1>2. ASSUME NEW S, status' = RemovedStatus(S)
      PROVE  \A u \in VersionIds : Allocated(u) => Allocated(u)'
  BY <1>2 DEF RemovedStatus, Allocated
<1>3. ASSUME NEW v \in VersionIds, NEW w \in VersionIds, NEW l \in UserLabels,
             EnsureVersion(v, l) \/ Fork(v, w, l)
      PROVE  FreshIdsBare'
  BY <1>1, <1>3 DEF EnsureVersion, Fork, Allocated, TypeOK
<1>4. ASSUME NEW v \in VersionIds, NEW w \in VersionIds, MkdirVersioned(v, w)
      PROVE  FreshIdsBare'
  <2>1. /\ status' = [status EXCEPT ![w] = "active"]
        /\ entries' = [entries EXCEPT ![w] = View(v)]
    BY <1>4 DEF MkdirVersioned
  <2>. QED
    BY <2>1, BareKept DEF Allocated, TypeOK
<1>5. ASSUME NEW v \in VersionIds, NEW p \in Paths,
             Mkdir(v, p) \/ Rm(v, p) \/ \E c \in Contents : WriteFile(v, p, c)
      PROVE  FreshIdsBare'
  <2>1. Allocated(v) /\ status' = status
    <3>1. GoneShowsNothing
      BY ForestImplies
    <3>. QED
      BY <1>5, <3>1 DEF Mkdir, Rm, WriteFile, graph, GoneShowsNothing, HasRow, Allocated
  <2>2. \A u \in VersionIds : u = v \/ entries'[u] = entries[u]
    BY <1>5 DEF Mkdir, Rm, WriteFile, TypeOK
  <2>. QED
    BY <2>1, <2>2, BareKept DEF Allocated
<1>6. ASSUME NEW v \in VersionIds, NEW l \in UserLabels, Detach(v) \/ PromoteDetached(v, l)
      PROVE  FreshIdsBare'
  <2>1. /\ Allocated(v) /\ status' = status
        /\ entries' = [entries EXCEPT ![v] = Materialized(v)]
    BY <1>6 DEF Detach, PromoteDetached
  <2>. QED
    BY <2>1, BareKept DEF Allocated, TypeOK
<1>7. ASSUME NEW v \in VersionIds, NEW l \in UserLabels,
             PromoteRetain(v, l) \/ \E swap \in BOOLEAN : RenameVersion(v, l, swap)
      PROVE  FreshIdsBare'
  BY <1>1, <1>7 DEF PromoteRetain, RenameVersion, Allocated
<1>8. ASSUME NEW v \in VersionIds, SoftDelete(v) PROVE FreshIdsBare'
  BY <1>1, <1>8 DEF SoftDelete, Allocated, TypeOK
<1>9. ASSUME NEW v \in VersionIds, HardDelete(v) PROVE FreshIdsBare'
  <2>1. \A u \in VersionIds : entries'[u] = entries[u] \/ entries'[u] = NoEntries
    BY <1>9 DEF HardDelete, RemovedEntries
  <2>. QED
    BY <1>2, <1>9, <2>1, BareKept DEF HardDelete
<1>10. ASSUME NEW v \in VersionIds, NEW t \in VersionIds, NEW l \in UserLabels,
              PromoteDiscard(v, t, l)
       PROVE  FreshIdsBare'
  <2>1. \A u \in VersionIds :
          u = v \/ entries'[u] = entries[u] \/ entries'[u] = NoEntries
    BY <1>10 DEF PromoteDiscard, RemovedEntries, TypeOK
  <2>. QED
    BY <1>2, <1>10, <2>1, BareKept DEF PromoteDiscard
<1>11. ASSUME NEW r \in VersionRoots, SweepHistory(r) PROVE FreshIdsBare'
  <2>1. \A u \in VersionIds :
          status[u] = "active" \/ entries'[u] = entries[u] \/ entries'[u] = NoEntries
    BY <1>11 DEF SweepHistory, RemovedEntries
  <2>. QED
    BY <1>2, <1>11, <2>1 DEF SweepHistory, FreshIdsBare, Allocated
<1>12. ASSUME NEW v \in VersionIds, NEW r \in VersionRoots, RemoveVersionRoot(v, r)
       PROVE  FreshIdsBare'
  <2>1. \A u \in VersionIds :
          u = v \/ entries'[u] = entries[u] \/ entries'[u] = NoEntries
    BY <1>12 DEF RemoveVersionRoot, RemovedEntries, TypeOK
  <2>2. \A u \in VersionIds : Allocated(u) => Allocated(u)'
    BY <1>2, <1>12 DEF RemoveVersionRoot
  <2>. QED
    BY <1>12, <2>1, <2>2, BareKept DEF RemoveVersionRoot
<1>13. CASE UNCHANGED vars
  BY <1>1, <1>13 DEF vars, Allocated
<1>. QED
  BY <1>3, <1>4, <1>5, <1>6, <1>7, <1>8, <1>9, <1>10, <1>11, <1>12, <1>13, LabelAssumption
  DEF Next, Create, Write, Relabel, Flatten, Remove

\* The strengthened invariant holds in every reachable state.
LEMMA OverlayInvariant == Spec => []OverlayInv
<1>1. Init => OverlayInv
  BY InitTypeOK, InitForest, InitLabels, InitBare DEF OverlayInv
<1>2. OverlayInv /\ [Next]_vars => OverlayInv'
  BY NextTypeOK, NextForest, NextLabels, NextBare DEF OverlayInv
<1>. QED
  BY <1>1, <1>2, PTL DEF Spec

\* A label names the one live version that carries it.
BranchesName ==
  \A r \in VersionRoots, l \in Labels :
    /\ Branches[r][l] \in VersionIds \cup {NoVersion}
    /\ \A v \in VersionIds :
         Branches[r][l] = v <=> status[v] = "active" /\ RootOf[v] = r /\ label[v] = l

LEMMA BranchIs == LabelInv => BranchesName
<1> SUFFICES ASSUME LabelInv, NEW r \in VersionRoots, NEW l \in Labels
             PROVE  /\ Branches[r][l] \in VersionIds \cup {NoVersion}
                    /\ \A v \in VersionIds :
                         Branches[r][l] = v <=>
                           status[v] = "active" /\ RootOf[v] = r /\ label[v] = l
  BY DEF BranchesName
<1>1. \A v \in VersionIds :
        v \in LiveHolders(r, l) <=> status[v] = "active" /\ RootOf[v] = r /\ label[v] = l
  BY DEF LiveHolders
<1>2. \A v, w \in LiveHolders(r, l) : v = w
  BY DEF LiveHolders, LabelInv, LiveLabelsUnique
<1>3. LiveHolders(r, l) \subseteq VersionIds
  BY DEF LiveHolders
<1>4. Branches[r][l] = IF LiveHolders(r, l) = {} THEN NoVersion
                       ELSE CHOOSE v \in LiveHolders(r, l) : TRUE
  BY DEF Branches
<1>5. CASE LiveHolders(r, l) = {}
  BY <1>1, <1>4, <1>5, SentinelAssumption
<1>6. CASE LiveHolders(r, l) # {}
  <2>1. Branches[r][l] \in LiveHolders(r, l)
    BY <1>4, <1>6
  <2>. QED
    BY <1>1, <1>2, <1>3, <2>1
<1>. QED
  BY <1>5, <1>6

\* What the next state's labels name, given the right answer B.
LEMMA BranchesBecome ==
  ASSUME LabelInv', NEW B \in [VersionRoots -> [Labels -> VersionIds \cup {NoVersion}]],
         \A r \in VersionRoots, l \in Labels, v \in VersionIds :
           B[r][l] = v <=> status'[v] = "active" /\ RootOf[v] = r /\ label'[v] = l
  PROVE  Branches' = B
<1>1. LabelInv' => BranchesName'
  BY BranchIs, PTL
<1>2. \A r \in VersionRoots, l \in Labels :
        /\ Branches'[r][l] \in VersionIds \cup {NoVersion}
        /\ \A v \in VersionIds :
             Branches'[r][l] = v <=> status'[v] = "active" /\ RootOf[v] = r /\ label'[v] = l
  BY <1>1 DEF BranchesName, Labels
<1>3. \A r \in VersionRoots, l \in Labels : Branches'[r][l] = B[r][l]
  BY <1>2, SentinelAssumption
<1>4. Branches' = [r \in VersionRoots |-> [l \in Labels |-> Branches'[r][l]]]
  BY DEF Branches, Labels
<1>. QED
  BY <1>3, <1>4

\* The same for what the versions show and own.
LEMMA ViewsBecome ==
  ASSUME NEW W, W = [d \in VersionIds |-> [p \in Paths |-> W[d][p]]],
         \A d \in VersionIds, p \in Paths : Resolve(d, p)' = W[d][p]
  PROVE  Views' = W
<1>1. Views' = [d \in VersionIds |-> [p \in Paths |-> Resolve(d, p)']]
  BY DEF Views, View
<1>. QED
  BY <1>1

LEMMA OwnedBecome ==
  ASSUME NEW O \in [VersionIds -> SUBSET Paths],
         \A d \in VersionIds, p \in Paths :
           p \in O[d] <=> HasRow(d)' /\ entries'[d][p] # Absent
  PROVE  Owned' = O
<1>1. Owned' = [d \in VersionIds |-> {p \in Paths : HasRow(d)' /\ entries'[d][p] # Absent}]
  BY DEF Owned
<1>. QED
  BY <1>1

\* Values of the refinement mapping in a state the invariants hold in.
LEMMA MeaningIs ==
  ASSUME OverlayInv
  PROVE  /\ Branches \in [VersionRoots -> [Labels -> VersionIds \cup {NoVersion}]]
         /\ \A r \in VersionRoots, l \in Labels, v \in VersionIds :
              Branches[r][l] = v <=> status[v] = "active" /\ RootOf[v] = r /\ label[v] = l
         /\ Owned \in [VersionIds -> SUBSET Paths]
         /\ \A d \in VersionIds, p \in Paths :
              p \in Owned[d] <=> HasRow(d) /\ entries[d][p] # Absent
         /\ Views = [d \in VersionIds |-> [p \in Paths |-> Resolve(d, p)]]
         /\ Meaning!Labels = Labels
<1>1. /\ Owned \in [VersionIds -> SUBSET Paths]
      /\ \A d \in VersionIds, p \in Paths :
           p \in Owned[d] <=> HasRow(d) /\ entries[d][p] # Absent
      /\ Views = [d \in VersionIds |-> [p \in Paths |-> Resolve(d, p)]]
  BY DEF Owned, Views, View
<1>2. BranchesName
  BY BranchIs DEF OverlayInv
<1>3. Branches = [r \in VersionRoots |-> [l \in Labels |-> Branches[r][l]]]
  BY DEF Branches
<1>4. Branches \in [VersionRoots -> [Labels -> VersionIds \cup {NoVersion}]]
  <2>1. \A r \in VersionRoots, l \in Labels : Branches[r][l] \in VersionIds \cup {NoVersion}
    BY <1>2 DEF BranchesName
  <2>. QED
    BY <1>3, <2>1
<1>5. Meaning!Labels = Labels
  BY DEF Meaning!Labels, Labels
<1>6. \A r \in VersionRoots, l \in Labels, v \in VersionIds :
        Branches[r][l] = v <=> status[v] = "active" /\ RootOf[v] = r /\ label[v] = l
  BY <1>2 DEF BranchesName
<1>. QED
  BY <1>1, <1>4, <1>5, <1>6

\* Steps that leave rows, parents and entries alone leave views and owners alone.
LEMMA SameRows ==
  ASSUME OverlayInv, OverlayInv', UNCHANGED <<parent, closure, entries>>,
         \A v \in VersionIds : /\ HasRow(v)' <=> HasRow(v)
                               /\ Allocated(v)' <=> Allocated(v)
  PROVE  UNCHANGED <<UsedIds, Alive, Owned, Views>>
<1>1. \A d \in VersionIds, p \in Paths : Resolve(d, p)' = Resolve(d, p)
  BY SameView DEF OverlayInv
<1>2. Views' = Views
  BY <1>1, MeaningIs, ViewsBecome
<1>3. Owned' = Owned
  BY MeaningIs, OwnedBecome
<1>. QED
  BY <1>2, <1>3 DEF UsedIds, Alive

LEMMA SameBranches ==
  ASSUME OverlayInv, OverlayInv', UNCHANGED <<status, label>>
  PROVE  UNCHANGED Branches
<1>1. LabelInv'
  BY DEF OverlayInv
<1>. QED
  BY <1>1, MeaningIs, BranchesBecome

-----------------------------------------------------------------------------
(* Creating versions.                                                      *)

\* The row of a new version: its id, and its label.
LEMMA NewName ==
  ASSUME OverlayInv, OverlayInv', NEW v \in VersionIds, NEW l \in UserLabels,
         status[v] = "unused", LiveHolders(RootOf[v], l) = {},
         status' = [status EXCEPT ![v] = "active"],
         label' = [label EXCEPT ![v] = l]
  PROVE  /\ v \notin UsedIds /\ UsedIds' = UsedIds \cup {v} /\ Alive' = Alive \cup {v}
         /\ Branches[RootOf[v]][l] = NoVersion
         /\ Branches' = [Branches EXCEPT ![RootOf[v]][l] = v]
<1> USE DEF HasRow, Allocated
<1>1. TypeOK /\ LabelInv /\ LabelInv'
  BY DEF OverlayInv
<1>2. RootOf[v] \in VersionRoots /\ l \in Labels
  BY RootsAssumption DEF Labels
<1>3. \A u \in VersionIds :
        /\ status'[u] = IF u = v THEN "active" ELSE status[u]
        /\ label'[u] = IF u = v THEN l ELSE label[u]
  BY <1>1 DEF TypeOK
<1>4. v \notin UsedIds /\ UsedIds' = UsedIds \cup {v} /\ Alive' = Alive \cup {v}
  <2>1. v \notin UsedIds
    BY DEF UsedIds
  <2>2. \A u \in VersionIds : /\ Allocated(u)' <=> u = v \/ Allocated(u)
                              /\ HasRow(u)' <=> u = v \/ HasRow(u)
    BY <1>3
  <2>. QED
    BY <2>1, <2>2 DEF UsedIds, Alive
<1>5. Branches[RootOf[v]][l] = NoVersion
  <2>1. Branches[RootOf[v]][l] \in VersionIds \cup {NoVersion}
    BY <1>2, MeaningIs
  <2>2. \A u \in VersionIds : Branches[RootOf[v]][l] # u
    BY <1>2, MeaningIs DEF LiveHolders
  <2>. QED
    BY <2>1, <2>2
<1>6. Branches' = [Branches EXCEPT ![RootOf[v]][l] = v]
  <2> DEFINE B == [Branches EXCEPT ![RootOf[v]][l] = v]
  <2>1. B \in [VersionRoots -> [Labels -> VersionIds \cup {NoVersion}]]
    BY <1>2, MeaningIs
  <2>2. \A r \in VersionRoots, m \in Labels :
          B[r][m] = IF r = RootOf[v] /\ m = l THEN v ELSE Branches[r][m]
    BY <1>2, MeaningIs
  <2> HIDE DEF B
  <2>3. \A r \in VersionRoots, m \in Labels, u \in VersionIds :
          Branches[r][m] = u <=> status[u] = "active" /\ RootOf[u] = r /\ label[u] = m
    BY MeaningIs
  <2>4. \A u \in VersionIds :
          ~ (status[u] = "active" /\ RootOf[u] = RootOf[v] /\ label[u] = l)
    BY DEF LiveHolders
  <2>5. \A r \in VersionRoots, m \in Labels, u \in VersionIds :
          B[r][m] = u <=> status'[u] = "active" /\ RootOf[u] = r /\ label'[u] = m
    BY <1>3, <2>2, <2>3, <2>4
  <2>6. Branches' = B
    BY <1>1, <2>1, <2>5, BranchesBecome
  <2>. QED
    BY <2>6 DEF B
<1>. QED
  BY <1>4, <1>5, <1>6

\* A parentless version of an unused id that shows its own rows.
LEMMA NewStep ==
  ASSUME OverlayInv, OverlayInv', NEW v \in VersionIds, NEW l \in UserLabels,
         NEW tree \in [Paths -> Shapes \cup {Absent}],
         status[v] = "unused", LiveHolders(RootOf[v], l) = {},
         status' = [status EXCEPT ![v] = "active"],
         label' = [label EXCEPT ![v] = l],
         closure' = [closure EXCEPT ![v] = SelfOnly(v)],
         parent' = parent,
         entries' = [entries EXCEPT ![v] = tree]
  PROVE  Meaning!New(v, l, tree)
<1> USE DEF HasRow, Allocated
<1>1. TypeOK /\ ForestInv /\ LabelInv /\ TypeOK' /\ ForestInv' /\ LabelInv'
  BY DEF OverlayInv
<1>2. \A u \in VersionIds :
        /\ status'[u] = IF u = v THEN "active" ELSE status[u]
        /\ entries'[u] = IF u = v THEN tree ELSE entries[u]
  BY <1>1 DEF TypeOK
<1>3. \A d, a \in VersionIds :
        closure'[d][a] = IF d = v THEN IF a = v THEN 0 ELSE NoRow ELSE closure[d][a]
  BY <1>1 DEF TypeOK, SelfOnly
<1>4. parent[v] = NoVersion /\ \A d \in VersionIds : closure[d][v] = NoRow
  BY <1>1 DEF ForestInv, Forest, ParentsIn, RowsExist, Lives
<1>5. Owned' = [Owned EXCEPT ![v] = Meaning!Visible(tree)]
  <2> DEFINE O == [Owned EXCEPT ![v] = Meaning!Visible(tree)]
  <2>1. O \in [VersionIds -> SUBSET Paths]
    BY MeaningIs DEF Meaning!Visible
  <2>2. \A d \in VersionIds : O[d] = IF d = v THEN Meaning!Visible(tree) ELSE Owned[d]
    BY MeaningIs
  <2> HIDE DEF O
  <2>3. \A d \in VersionIds, p \in Paths :
          p \in O[d] <=> HasRow(d)' /\ entries'[d][p] # Absent
    <3>1. \A p \in Paths : p \in Meaning!Visible(tree) <=> tree[p] # Absent
      BY DEF Meaning!Visible
    <3>2. \A d \in VersionIds, p \in Paths :
            p \in Owned[d] <=> HasRow(d) /\ entries[d][p] # Absent
      BY MeaningIs
    <3>. QED
      BY <1>2, <2>2, <3>1, <3>2
  <2>4. Owned' = O
    BY <2>1, <2>3, OwnedBecome
  <2>. QED
    BY <2>4 DEF O
<1>6. Views' = [Views EXCEPT ![v] = tree]
  <2> DEFINE W == [Views EXCEPT ![v] = tree]
  <2>0. Views = [d \in VersionIds |-> [p \in Paths |-> Resolve(d, p)]]
    BY MeaningIs
  <2>1. ASSUME NEW d \in VersionIds, NEW p \in Paths
        PROVE  W[d][p] = IF d = v THEN tree[p] ELSE Resolve(d, p)
    BY <2>0
  <2>2. W = [d \in VersionIds |-> [p \in Paths |-> W[d][p]]]
    BY <2>0
  <2> HIDE DEF W
  <2>3. ASSUME NEW d \in VersionIds, NEW p \in Paths, d # v
        PROVE  Resolve(d, p)' = W[d][p]
    BY <1>1, <1>2, <1>3, <1>4, <2>1, <2>3, SameView
  <2>4. ASSUME NEW p \in Paths PROVE Resolve(v, p)' = W[v][p]
    <3>1. tree[p] \in Shapes \cup {Absent} /\ Shown(tree[p]) = tree[p]
      BY SentinelAssumption DEF Shown
    <3>2. /\ entries'[v][p] = tree[p] /\ parent'[v] = NoVersion /\ HasRow(v)'
          /\ W[v][p] = tree[p]
      BY <1>2, <1>4, <2>1
    <3>. QED
      BY <1>1, <3>1, <3>2, ResolveInheritsNext
  <2>5. Views' = W
    BY <2>2, <2>3, <2>4, ViewsBecome
  <2>. QED
    BY <2>5 DEF W
<1>. QED
  BY <1>5, <1>6, NewName DEF Meaning!New

LEMMA EnsureVersionStep ==
  ASSUME OverlayInv, OverlayInv', NEW v \in VersionIds, NEW l \in UserLabels,
         EnsureVersion(v, l)
  PROVE  Meaning!New(v, l, [p \in Paths |-> Absent])
<1>1. entries[v] = NoEntries /\ entries \in [VersionIds -> [Paths -> Shapes \cup {Tombstone, Absent}]]
  BY DEF EnsureVersion, OverlayInv, FreshIdsBare, Allocated, TypeOK
<1>2. entries' = [entries EXCEPT ![v] = NoEntries]
  BY <1>1 DEF EnsureVersion
<1>3. Meaning!New(v, l, NoEntries)
  BY <1>2, NewStep DEF EnsureVersion, NoEntries
<1>. QED
  BY <1>3 DEF NoEntries

LEMMA MkdirVersionedStep ==
  ASSUME OverlayInv, OverlayInv', NEW src \in VersionIds, NEW v \in VersionIds,
         MkdirVersioned(src, v)
  PROVE  Meaning!NewCopy(src, v)
<1>1. View(src) \in [Paths -> Shapes \cup {Absent}]
  BY ResolveValue DEF View, OverlayInv
<1>2. Meaning!New(v, DefaultLabel, View(src))
  BY <1>1, NewStep, LabelAssumption DEF MkdirVersioned
<1>3. Views[src] = View(src)
  BY DEF Views
<1>. QED
  BY <1>2, <1>3 DEF Meaning!NewCopy, MkdirVersioned

\* A fork: the new version has no rows and finds what its parent finds.
LEMMA ForkStep ==
  ASSUME OverlayInv, OverlayInv', NEW v \in VersionIds, NEW w \in VersionIds,
         NEW l \in UserLabels, Fork(v, w, l)
  PROVE  Meaning!Branch(v, w, l)
<1> USE DEF HasRow, Allocated
<1>1. TypeOK /\ ForestInv /\ TypeOK' /\ ForestInv'
  BY DEF OverlayInv
<1>2. /\ HasRow(v) /\ status[w] = "unused" /\ RootOf[w] = RootOf[v] /\ v # w
      /\ LiveHolders(RootOf[w], l) = {}
      /\ status' = [status EXCEPT ![w] = "active"]
      /\ label' = [label EXCEPT ![w] = l]
      /\ parent' = [parent EXCEPT ![w] = v]
      /\ entries' = entries
  BY DEF Fork
<1>3. \A u \in VersionIds : /\ status'[u] = IF u = w THEN "active" ELSE status[u]
                            /\ parent'[u] = IF u = w THEN v ELSE parent[u]
  BY <1>1, <1>2 DEF TypeOK
<1>4. \A d, a \in VersionIds : d # w => closure'[d][a] = closure[d][a]
  BY <1>1 DEF TypeOK, Fork
<1>5. \A p \in Paths : entries[w][p] = Absent
  BY <1>2 DEF OverlayInv, FreshIdsBare, NoEntries
<1>6. Owned' = Owned
  <2>1. \A d \in VersionIds, p \in Paths :
          p \in Owned[d] <=> HasRow(d) /\ entries[d][p] # Absent
    BY MeaningIs
  <2>2. \A d \in VersionIds, p \in Paths :
          p \in Owned[d] <=> HasRow(d)' /\ entries'[d][p] # Absent
    BY <1>2, <1>3, <1>5, <2>1
  <2>. QED
    BY <2>2, MeaningIs, OwnedBecome
<1>7. Views' = [Views EXCEPT ![w] = Views[v]]
  <2> DEFINE W == [Views EXCEPT ![w] = Views[v]]
  <2>0. Views = [d \in VersionIds |-> [p \in Paths |-> Resolve(d, p)]]
    BY MeaningIs
  <2>1. ASSUME NEW d \in VersionIds, NEW p \in Paths
        PROVE  W[d][p] = IF d = w THEN Resolve(v, p) ELSE Resolve(d, p)
    BY <2>0
  <2>2. W = [d \in VersionIds |-> [p \in Paths |-> W[d][p]]]
    BY <2>0
  <2> HIDE DEF W
  <2>3. ASSUME NEW d \in VersionIds, NEW p \in Paths, d # w
        PROVE  Resolve(d, p)' = Resolve(d, p)
    BY <1>1, <1>2, <1>4, <2>3, SameView
  <2>4. ASSUME NEW p \in Paths PROVE Resolve(w, p)' = Resolve(v, p)
    <3>1. /\ entries'[w][p] = Absent /\ parent'[w] = v /\ HasRow(w)'
      BY <1>2, <1>3, <1>5
    <3>2. Resolve(w, p)' = Resolve(v, p)'
      BY <1>1, <3>1, ResolveInheritsNext
    <3>. QED
      BY <1>2, <2>3, <3>2
  <2>5. Views' = W
    BY <2>1, <2>2, <2>3, <2>4, ViewsBecome
  <2>. QED
    BY <2>5 DEF W
<1>8. v \in Alive
  BY <1>2 DEF Alive
<1>. QED
  BY <1>2, <1>6, <1>7, <1>8, NewName DEF Meaning!Branch

-----------------------------------------------------------------------------
(* Writing entries.                                                        *)

\* A row of a version that has one: its path shows the row in the version and in
\* whoever follows it there.
LEMMA PutStep ==
  ASSUME OverlayInv, OverlayInv', NEW v \in VersionIds, NEW p \in Paths, HasRow(v),
         NEW x \in Shapes \cup {Tombstone},
         entries' = [entries EXCEPT ![v][p] = x], UNCHANGED graph
  PROVE  Meaning!Put
<1>1. TypeOK /\ ForestInv /\ TypeOK' /\ ForestInv' /\ LabelInv'
  BY DEF OverlayInv
<1>2. UNCHANGED <<roots, status, label, parent, closure>>
  BY DEF graph
<1>3. \A d \in VersionIds : HasRow(d)' <=> HasRow(d)
  BY <1>2 DEF HasRow
<1>4. \A d \in VersionIds, q \in Paths :
        entries'[d][q] = IF d = v /\ q = p THEN x ELSE entries[d][q]
  BY <1>1 DEF TypeOK
<1>5. Branches' = Branches
  BY <1>2, SameBranches
<1>6. UsedIds' = UsedIds /\ Alive' = Alive
  BY <1>2 DEF UsedIds, Alive, HasRow, Allocated
<1>7. x # Absent
  BY SentinelAssumption
<1>8. Owned' = [Owned EXCEPT ![v] = Owned[v] \cup {p}]
  <2> DEFINE O == [Owned EXCEPT ![v] = Owned[v] \cup {p}]
  <2>1. O \in [VersionIds -> SUBSET Paths]
    BY MeaningIs
  <2>2. \A d \in VersionIds : O[d] = IF d = v THEN Owned[v] \cup {p} ELSE Owned[d]
    BY MeaningIs
  <2> HIDE DEF O
  <2>3. \A d \in VersionIds, q \in Paths :
          q \in Owned[d] <=> HasRow(d) /\ entries[d][q] # Absent
    BY MeaningIs
  <2>4. \A d \in VersionIds, q \in Paths :
          q \in O[d] <=> HasRow(d)' /\ entries'[d][q] # Absent
    BY <1>3, <1>4, <1>7, <2>2, <2>3
  <2>5. Owned' = O
    BY <2>1, <2>4, OwnedBecome
  <2>. QED
    BY <2>5 DEF O
<1>9. \A d \in VersionIds, q \in Paths :
        Resolve(d, q)' = IF q = p /\ d \in Meaning!Followers(v, p) THEN Shown(x)
                         ELSE Resolve(d, q)
  <2>1. ASSUME NEW d \in VersionIds, NEW q \in Paths, q # p \/ ~IsAncestor(v, d)
        PROVE  Resolve(d, q)' = Resolve(d, q)
    BY <1>1, <1>2, <1>4, <2>1, SameView DEF IsAncestor
  <2>2. \A d \in VersionIds : IsAncestor(v, d) =>
          Resolve(d, p)' = IF d \in Meaning!Followers(v, p) THEN Shown(x)
                           ELSE Resolve(d, p)
    <3>1. \A d \in VersionIds : IsAncestor(v, d) => HasRow(d)'
      BY <1>1, <1>3 DEF IsAncestor, ForestInv, Forest, RowsExist, Lives, HasRow
    <3>2. \A d \in VersionIds : IsAncestor(v, d) =>
            /\ HasRow(d)' /\ parent'[d] = parent[d]
            /\ d # v => entries'[d][p] = entries[d][p]
      BY <1>2, <1>4, <3>1
    <3>3. entries'[v][p] = x
      BY <1>4
    <3>. QED
      BY <1>1, <1>7, <3>2, <3>3, WriteViews
  <2>3. \A d \in Meaning!Followers(v, p) : IsAncestor(v, d)
    BY <1>1, FollowersAre
  <2>. QED
    BY <2>1, <2>2, <2>3
<1>10. Meaning!Overlaid(v, {p}, [q \in Paths |-> Shown(x)])
  <2> DEFINE W == [d \in VersionIds |-> [q \in Paths |->
                     IF q \in {p} /\ d \in Meaning!Followers(v, q) THEN Shown(x)
                     ELSE Views[d][q]]]
  <2>1. \A d \in VersionIds, q \in Paths : Views[d][q] = Resolve(d, q)
    BY MeaningIs
  <2>2. \A d \in VersionIds, q \in Paths : Resolve(d, q)' = W[d][q]
    BY <1>9, <2>1
  <2>3. Views' = W
    <3>1. W = [d \in VersionIds |-> [q \in Paths |-> W[d][q]]]
      OBVIOUS
    <3> HIDE DEF W
    <3>. QED
      BY <2>2, <3>1, ViewsBecome
  <2>4. W = [d \in VersionIds |-> [q \in Paths |->
                IF q \in {p} /\ d \in [y \in {p} |-> Meaning!Followers(v, y)][q]
                THEN [y \in Paths |-> Shown(x)][q] ELSE Views[d][q]]]
    OBVIOUS
  <2> HIDE DEF W
  <2>. QED
    BY <1>8, <2>3, <2>4 DEF Meaning!Overlaid
<1>11. v \in Alive /\ Shown(x) \in Meaning!Shapes \cup {Absent}
  BY DEF Alive, Shown, Meaning!Shapes, Shapes
<1>. QED
  BY <1>2, <1>5, <1>6, <1>10, <1>11 DEF Meaning!Put

\* A row for an id without one is written to nobody's tree.
LEMMA DeadRows ==
  ASSUME OverlayInv, OverlayInv', NEW v \in VersionIds, ~HasRow(v),
         \A d \in VersionIds : d # v => entries'[d] = entries[d],
         UNCHANGED <<status, parent, closure>>
  PROVE  UNCHANGED <<UsedIds, Alive, Owned, Views>>
<1>1. TypeOK /\ ForestInv /\ TypeOK' /\ ForestInv'
  BY DEF OverlayInv
<1>2. \A d \in VersionIds : /\ HasRow(d)' <=> HasRow(d)
                            /\ Allocated(d)' <=> Allocated(d)
  BY DEF HasRow, Allocated
<1>3. Owned' = Owned
  <2>1. \A d \in VersionIds, q \in Paths :
          q \in Owned[d] <=> HasRow(d) /\ entries[d][q] # Absent
    BY MeaningIs
  <2>2. \A d \in VersionIds, q \in Paths :
          q \in Owned[d] <=> HasRow(d)' /\ entries'[d][q] # Absent
    BY <1>2, <2>1
  <2>. QED
    BY <2>2, MeaningIs, OwnedBecome
<1>4. \A d \in VersionIds : closure[d][v] = NoRow
  BY <1>1 DEF ForestInv, Forest, RowsExist, Lives, HasRow
<1>5. ASSUME NEW d \in VersionIds, NEW q \in Paths
      PROVE  Resolve(d, q)' = Resolve(d, q)
  BY <1>1, <1>4, SameView
<1>6. Views' = Views
  BY <1>5, MeaningIs, ViewsBecome
<1>7. UsedIds' = UsedIds /\ Alive' = Alive
  BY <1>2 DEF UsedIds, Alive
<1>. QED
  BY <1>3, <1>6, <1>7

\* The three operations that write one row.
LEMMA WriteStep ==
  ASSUME OverlayInv, OverlayInv', NEW v \in VersionIds, NEW p \in Paths,
         Mkdir(v, p) \/ Rm(v, p) \/ \E c \in Contents : WriteFile(v, p, c)
  PROVE  Meaning!Put \/ UNCHANGED Meaning!vars
<1>1. PICK x \in Shapes \cup {Tombstone} : entries' = [entries EXCEPT ![v][p] = x]
  BY DEF Mkdir, Rm, WriteFile, Shapes
<1>2. UNCHANGED graph
  BY DEF Mkdir, Rm, WriteFile
<1>3. CASE HasRow(v)
  BY <1>1, <1>2, <1>3, PutStep
<1>4. CASE ~HasRow(v)
  <2>1. \A d \in VersionIds : d # v => entries'[d] = entries[d]
    BY <1>1 DEF OverlayInv, TypeOK
  <2>. QED
    BY <1>2, <1>4, <2>1, DeadRows, SameBranches DEF graph, Meaning!vars
<1>. QED
  BY <1>3, <1>4

-----------------------------------------------------------------------------
(* Cutting a version off its ancestors.                                    *)

\* The rows a materialised version has are what it shows.
LEMMA MaterializedIs ==
  ASSUME TypeOK, ForestInv, NEW v \in VersionIds, HasRow(v), NEW p \in Paths
  PROVE  Materialized(v)[p] = Resolve(v, p)
<1>1. Resolve(v, p) = IF entries[v][p] # Absent THEN Shown(entries[v][p])
                      ELSE Resolve(v, p)
  BY ResolveInherits
<1>. QED
  BY <1>1, SentinelAssumption DEF Materialized, Shown

\* What detaching v does to parents, rows and trees.
LEMMA DetachedIs ==
  ASSUME OverlayInv, OverlayInv', NEW v \in VersionIds, HasRow(v),
         status' = status,
         parent' = [parent EXCEPT ![v] = NoVersion],
         closure' = WithoutOuterRows(v),
         entries' = [entries EXCEPT ![v] = Materialized(v)]
  PROVE  /\ v \in Alive
         /\ Meaning!Standalone({v})
         /\ Meaning!OwnAll({v})
         /\ UNCHANGED <<UsedIds, Alive, Views>>
<1>1. TypeOK /\ ForestInv /\ TypeOK' /\ ForestInv'
  BY DEF OverlayInv
<1>2. \A d \in VersionIds : /\ HasRow(d)' <=> HasRow(d)
                            /\ Allocated(d)' <=> Allocated(d)
  BY DEF HasRow, Allocated
<1>3. v \in Alive /\ UsedIds' = UsedIds /\ Alive' = Alive
  BY <1>2 DEF UsedIds, Alive
<1>4. Views' = Views
  <2>1. \A d \in VersionIds, p \in Paths : Resolve(d, p)' = Resolve(d, p)
    BY <1>1, DetachViews
  <2>. QED
    BY <2>1, MeaningIs, ViewsBecome
<1>5. Meaning!Standalone({v})
  BY <1>1 DEF Meaning!Standalone, TypeOK
<1>6. Meaning!OwnAll({v})
  <2> DEFINE O == [u \in VersionIds |-> IF u \in {v} THEN Meaning!Visible(Views[u])
                                        ELSE Owned[u]]
  <2>1. \A u \in VersionIds, p \in Paths :
          p \in Meaning!Visible(Views[u]) <=> Resolve(u, p) # Absent
    BY MeaningIs DEF Meaning!Visible
  <2>2. O \in [VersionIds -> SUBSET Paths]
    BY MeaningIs DEF Meaning!Visible
  <2>3. \A d \in VersionIds, p \in Paths :
          p \in Owned[d] <=> HasRow(d) /\ entries[d][p] # Absent
    BY MeaningIs
  <2>4. \A d \in VersionIds, p \in Paths :
          entries'[d][p] = IF d = v THEN Resolve(v, p) ELSE entries[d][p]
    BY <1>1, MaterializedIs DEF TypeOK
  <2>5. \A d \in VersionIds, p \in Paths :
          p \in O[d] <=> IF d = v THEN Resolve(v, p) # Absent ELSE p \in Owned[d]
    BY <2>1
  <2> HIDE DEF O
  <2>6. \A d \in VersionIds, p \in Paths :
          p \in O[d] <=> HasRow(d)' /\ entries'[d][p] # Absent
    BY <1>2, <2>3, <2>4, <2>5
  <2>7. Owned' = O
    BY <2>2, <2>6, OwnedBecome
  <2>. QED
    BY <2>7 DEF O, Meaning!OwnAll
<1>. QED
  BY <1>3, <1>4, <1>5, <1>6

\* Detaching an id without a row writes no row anyone sees.
LEMMA DetachedDead ==
  ASSUME OverlayInv, OverlayInv', NEW v \in VersionIds, ~HasRow(v),
         status' = status,
         parent' = [parent EXCEPT ![v] = NoVersion],
         closure' = WithoutOuterRows(v),
         entries' = [entries EXCEPT ![v] = Materialized(v)]
  PROVE  UNCHANGED <<UsedIds, Alive, parent, Owned, Views>>
<1>1. TypeOK /\ ForestInv
  BY DEF OverlayInv
<1>2. parent[v] = NoVersion /\ \A d \in VersionIds : closure[d][v] = NoRow
  BY <1>1 DEF ForestInv, Forest, ParentsIn, RowsExist, Lives, HasRow
<1>3. parent' = parent
  BY <1>1, <1>2 DEF TypeOK
<1>4. closure' = closure
  BY <1>1, <1>2 DEF TypeOK, WithoutOuterRows, IsAncestor
<1>5. \A d \in VersionIds : d # v => entries'[d] = entries[d]
  BY <1>1 DEF TypeOK
<1>. QED
  BY <1>3, <1>4, <1>5, DeadRows

LEMMA DetachStep ==
  ASSUME OverlayInv, OverlayInv', NEW v \in VersionIds, Detach(v)
  PROVE  Meaning!Detach(v) \/ UNCHANGED Meaning!vars
<1>1. /\ status' = status /\ label' = label
      /\ parent' = [parent EXCEPT ![v] = NoVersion]
      /\ closure' = WithoutOuterRows(v)
      /\ entries' = [entries EXCEPT ![v] = Materialized(v)]
  BY DEF Detach
<1>2. Branches' = Branches
  BY <1>1, SameBranches
<1>3. CASE HasRow(v)
  BY <1>1, <1>2, <1>3, DetachedIs DEF Meaning!Detach
<1>4. CASE ~HasRow(v)
  BY <1>1, <1>2, <1>4, DetachedDead DEF Meaning!vars
<1>. QED
  BY <1>3, <1>4

-----------------------------------------------------------------------------
(* Moving labels.                                                          *)

\* What a version's root names after a step, given the right answer N for it and
\* that other roots keep theirs.
LEMMA RootNames ==
  ASSUME OverlayInv, OverlayInv', NEW r \in VersionRoots,
         NEW N \in [Labels -> VersionIds \cup {NoVersion}],
         \A m \in Labels, u \in VersionIds :
           N[m] = u <=> status'[u] = "active" /\ RootOf[u] = r /\ label'[u] = m,
         \A u \in VersionIds : RootOf[u] # r =>
           status'[u] = status[u] /\ label'[u] = label[u]
  PROVE  Branches' = [Branches EXCEPT ![r] = N]
<1> DEFINE B == [Branches EXCEPT ![r] = N]
<1>1. B \in [VersionRoots -> [Labels -> VersionIds \cup {NoVersion}]]
  BY MeaningIs
<1>2. \A q \in VersionRoots : B[q] = IF q = r THEN N ELSE Branches[q]
  BY MeaningIs
<1> HIDE DEF B
<1>3. \A q \in VersionRoots, m \in Labels, u \in VersionIds :
        Branches[q][m] = u <=> status[u] = "active" /\ RootOf[u] = q /\ label[u] = m
  BY MeaningIs
<1>4. \A q \in VersionRoots, m \in Labels, u \in VersionIds :
        B[q][m] = u <=> status'[u] = "active" /\ RootOf[u] = q /\ label'[u] = m
  BY <1>2, <1>3
<1>5. LabelInv'
  BY DEF OverlayInv
<1>6. Branches' = B
  BY <1>1, <1>4, <1>5, BranchesBecome
<1>. QED
  BY <1>6 DEF B

\* Unnamed hides exactly the versions in S.
LEMMA UnnamedIs ==
  ASSUME NEW S \in SUBSET VersionIds, NEW N \in [Labels -> VersionIds \cup {NoVersion}]
  PROVE  /\ Meaning!Unnamed(N, S) \in [Labels -> VersionIds \cup {NoVersion}]
         /\ \A m \in Labels, u \in VersionIds :
              Meaning!Unnamed(N, S)[m] = u <=> N[m] = u /\ u \notin S
<1>1. Meaning!Unnamed(N, S) = [m \in Labels |-> IF N[m] \in S THEN NoVersion ELSE N[m]]
  BY DEF Meaning!Unnamed, Meaning!Labels, Labels
<1>. QED
  BY <1>1, SentinelAssumption

\* Moved names what the two UPDATEs of a rename leave the labels naming: v, if it
\* is live, under l, and the version displaced from l under its own label.
LEMMA MovedIs ==
  ASSUME OverlayInv, NEW v \in VersionIds, NEW l \in UserLabels
  PROVE  LET N == Meaning!Moved(Branches[RootOf[v]], v, l)
         IN  /\ N \in [Labels -> VersionIds \cup {NoVersion}]
             /\ \A m \in Labels, u \in VersionIds :
                  N[m] = u <=> /\ status[u] = "active" /\ RootOf[u] = RootOf[v]
                               /\ Relabelled(v, l)[u] = m
<1> DEFINE b == Branches[RootOf[v]]
           N == Meaning!Moved(b, v, l)
<1>1. RootOf[v] \in VersionRoots /\ l \in Labels
  BY RootsAssumption DEF Labels
<1>2. /\ b \in [Labels -> VersionIds \cup {NoVersion}]
      /\ \A m \in Labels, u \in VersionIds :
           b[m] = u <=> status[u] = "active" /\ RootOf[u] = RootOf[v] /\ label[u] = m
  BY <1>1, MeaningIs
<1>3. \A u \in VersionIds : status[u] = "active" =>
        label[u] \in UserLabels \cup {PrevLabel[u]} /\ label[u] \in Labels
  BY DEF OverlayInv, LabelInv, OwnLabels, HasRow, Labels
<1>4. v \in Alive /\ (\E k \in Labels : b[k] = v) <=> status[v] = "active"
  BY <1>2, <1>3 DEF Alive, HasRow
<1>5. \A u \in VersionIds :
        Relabelled(v, l)[u] = IF b[l] = u /\ u # v THEN PrevLabel[u]
                              ELSE IF u = v /\ HasRow(v) THEN l
                              ELSE label[u]
  BY <1>1, <1>2 DEF Relabelled, LiveHolders
<1>6. N = [m \in Labels |->
             IF m = l THEN IF status[v] = "active" THEN v ELSE NoVersion
             ELSE IF b[m] = v THEN NoVersion
             ELSE IF b[l] \notin {v, NoVersion} /\ m = PrevLabel[b[l]] THEN b[l]
             ELSE b[m]]
  <2> HIDE DEF b
  <2>. QED
    BY <1>4 DEF Meaning!Moved, Meaning!Labels, Labels
<1>7. \A u \in VersionIds : status[u] = "active" => HasRow(u)
  BY DEF HasRow
<1>8. \A u, w \in VersionIds : /\ PrevLabel[u] \notin UserLabels /\ PrevLabel[u] \in Labels
                               /\ PrevLabel[u] = PrevLabel[w] => u = w
                               /\ u # NoVersion
  BY LabelAssumption, SentinelAssumption DEF Labels
<1> HIDE DEF b, N
<1>9. N \in [Labels -> VersionIds \cup {NoVersion}]
  BY <1>1, <1>2, <1>6
<1>10. ASSUME NEW m \in Labels, NEW u \in VersionIds
       PROVE  N[m] = u <=> /\ status[u] = "active" /\ RootOf[u] = RootOf[v]
                           /\ Relabelled(v, l)[u] = m
  <2>1. CASE m = l
    <3>1. N[m] = IF status[v] = "active" THEN v ELSE NoVersion
      BY <1>6, <2>1
    <3>. QED
      BY <1>1, <1>2, <1>5, <1>7, <1>8, <2>1, <3>1
  <2>2. CASE m # l /\ b[m] = v
    <3>1. N[m] = NoVersion
      BY <1>6, <2>2
    <3>2. status[v] = "active" /\ label[v] = m
      BY <1>2, <2>2
    <3>. QED
      BY <1>1, <1>2, <1>3, <1>5, <1>7, <1>8, <2>2, <3>1, <3>2
  <2>3. CASE m # l /\ b[m] # v /\ b[l] \notin {v, NoVersion} /\ m = PrevLabel[b[l]]
    <3>1. N[m] = b[l] /\ b[l] \in VersionIds
      BY <1>1, <1>2, <1>6, <2>3
    <3>2. status[b[l]] = "active" /\ RootOf[b[l]] = RootOf[v]
      BY <1>1, <1>2, <3>1
    <3>3. ASSUME status[u] = "active", label[u] = m PROVE u = b[l]
      BY <1>3, <1>8, <2>3, <3>1, <3>3
    <3>. QED
      BY <1>5, <2>3, <3>1, <3>2, <3>3
  <2>4. CASE /\ m # l /\ b[m] # v
             /\ ~ (b[l] \notin {v, NoVersion} /\ m = PrevLabel[b[l]])
    <3>1. N[m] = b[m]
      BY <1>6, <2>4
    <3>2. CASE b[l] = u /\ u # v
      <4>1. label[u] = l /\ m # PrevLabel[u]
        BY <1>1, <1>2, <1>8, <2>4, <3>2
      <4>. QED
        BY <1>2, <1>5, <2>4, <3>1, <3>2, <4>1
    <3>3. CASE u = v
      BY <1>2, <1>5, <1>7, <2>4, <3>1, <3>3
    <3>4. CASE u # v /\ b[l] # u
      BY <1>2, <1>5, <3>1, <3>4
    <3>. QED
      BY <3>2, <3>3, <3>4
  <2>. QED
    BY <2>1, <2>2, <2>3, <2>4
<1>. QED
  BY <1>9, <1>10 DEF N, b

\* Versions whose root is another one keep their label.
LEMMA OtherRootsKeepLabels ==
  ASSUME NEW v \in VersionIds, NEW l \in UserLabels
  PROVE  \A u \in VersionIds : RootOf[u] # RootOf[v] => Relabelled(v, l)[u] = label[u]
  BY DEF Relabelled, LiveHolders

\* Moving a label, all statuses as they were.
LEMMA MoveStep ==
  ASSUME OverlayInv, OverlayInv', NEW v \in VersionIds, NEW l \in UserLabels,
         status' = status, label' = Relabelled(v, l)
  PROVE  Meaning!MoveLabel(v, l)
<1> DEFINE N == Meaning!Moved(Branches[RootOf[v]], v, l)
<1>1. /\ N \in [Labels -> VersionIds \cup {NoVersion}]
      /\ \A m \in Labels, u \in VersionIds :
           N[m] = u <=> /\ status[u] = "active" /\ RootOf[u] = RootOf[v]
                        /\ Relabelled(v, l)[u] = m
  BY MovedIs
<1>2. RootOf[v] \in VersionRoots
  BY RootsAssumption
<1> HIDE DEF N
<1>3. Branches' = [Branches EXCEPT ![RootOf[v]] = N]
  BY <1>1, <1>2, OtherRootsKeepLabels, RootNames
<1>. QED
  BY <1>3 DEF N, Meaning!MoveLabel

LEMMA RenameStep ==
  ASSUME OverlayInv, OverlayInv', NEW v \in VersionIds, NEW l \in UserLabels,
         NEW swap \in BOOLEAN, RenameVersion(v, l, swap)
  PROVE  Meaning!Names
<1>1. UNCHANGED <<UsedIds, Alive, parent, Owned, Views>>
  <2>1. \A u \in VersionIds : /\ HasRow(u)' <=> HasRow(u)
                              /\ Allocated(u)' <=> Allocated(u)
    BY DEF RenameVersion, HasRow, Allocated
  <2>. QED
    BY <2>1, SameRows DEF RenameVersion
<1>2. Meaning!MoveLabel(v, l) /\ v \in UsedIds
  BY MoveStep DEF RenameVersion, UsedIds
<1>. QED
  BY <1>1, <1>2 DEF Meaning!Names, Meaning!Rename

LEMMA PromoteRetainStep ==
  ASSUME OverlayInv, OverlayInv', NEW v \in VersionIds, NEW l \in UserLabels,
         PromoteRetain(v, l)
  PROVE  Meaning!Names
<1> DEFINE M == Meaning!Moved(Branches[RootOf[v]], v, l)
           S == Meaning!Displaced(v, l)
           N == Meaning!Unnamed(M, S)
<1>1. RootOf[v] \in VersionRoots /\ l \in Labels
  BY RootsAssumption DEF Labels
<1>2. /\ M \in [Labels -> VersionIds \cup {NoVersion}]
      /\ \A m \in Labels, u \in VersionIds :
           M[m] = u <=> /\ status[u] = "active" /\ RootOf[u] = RootOf[v]
                        /\ Relabelled(v, l)[u] = m
  BY MovedIs
<1>3. S = LiveHolders(RootOf[v], l) \ {v}
  <2>1. Branches[RootOf[v]][l] \in VersionIds \cup {NoVersion}
    BY <1>1, MeaningIs
  <2>2. \A u \in VersionIds :
          Branches[RootOf[v]][l] = u <=>
            status[u] = "active" /\ RootOf[u] = RootOf[v] /\ label[u] = l
    BY <1>1, MeaningIs
  <2>. QED
    BY <2>1, <2>2, SentinelAssumption DEF Meaning!Displaced, LiveHolders
<1>4. S \in SUBSET VersionIds
  BY <1>3 DEF LiveHolders
<1> HIDE DEF M, S
<1>5. /\ N \in [Labels -> VersionIds \cup {NoVersion}]
      /\ \A m \in Labels, u \in VersionIds : N[m] = u <=> M[m] = u /\ u \notin S
  BY <1>2, <1>4, UnnamedIs
<1> HIDE DEF N
<1>6. \A u \in VersionIds : status'[u] = IF u \in S THEN "deleted" ELSE status[u]
  BY <1>3 DEF PromoteRetain
<1>7. \A u \in VersionIds : u \in S => status[u] = "active" /\ RootOf[u] = RootOf[v]
  BY <1>3 DEF LiveHolders
<1>8. label' = Relabelled(v, l)
  BY DEF PromoteRetain
<1>9. Branches' = [Branches EXCEPT ![RootOf[v]] = N]
  <2>1. \A m \in Labels, u \in VersionIds :
          N[m] = u <=> status'[u] = "active" /\ RootOf[u] = RootOf[v] /\ label'[u] = m
    BY <1>2, <1>5, <1>6, <1>8
  <2>2. \A u \in VersionIds : RootOf[u] # RootOf[v] =>
          status'[u] = status[u] /\ label'[u] = label[u]
    BY <1>6, <1>7, <1>8, OtherRootsKeepLabels
  <2>. QED
    BY <1>1, <1>5, <2>1, <2>2, RootNames
<1>10. UNCHANGED <<UsedIds, Alive, parent, Owned, Views>>
  <2>1. \A u \in VersionIds : /\ HasRow(u)' <=> HasRow(u)
                              /\ Allocated(u)' <=> Allocated(u)
    BY <1>6, <1>7 DEF HasRow, Allocated
  <2>. QED
    BY <2>1, SameRows DEF PromoteRetain
<1>. QED
  BY <1>9, <1>10 DEF N, M, S, Meaning!Names, Meaning!PromoteRetain

LEMMA PromoteDetachedStep ==
  ASSUME OverlayInv, OverlayInv', NEW v \in VersionIds, NEW l \in UserLabels,
         PromoteDetached(v, l)
  PROVE  Meaning!PromoteDetached(v, l) \/ Meaning!Names
<1>1. /\ status' = status /\ label' = Relabelled(v, l) /\ Allocated(v)
      /\ parent' = [parent EXCEPT ![v] = NoVersion]
      /\ closure' = WithoutOuterRows(v)
      /\ entries' = [entries EXCEPT ![v] = Materialized(v)]
  BY DEF PromoteDetached
<1>2. Meaning!MoveLabel(v, l)
  BY <1>1, MoveStep
<1>3. CASE HasRow(v)
  BY <1>1, <1>2, <1>3, DetachedIs DEF Meaning!PromoteDetached
<1>4. CASE ~HasRow(v)
  BY <1>1, <1>2, <1>4, DetachedDead DEF Meaning!Names, Meaning!Rename, UsedIds
<1>. QED
  BY <1>3, <1>4

LEMMA SoftDeleteStep ==
  ASSUME OverlayInv, OverlayInv', NEW v \in VersionIds, SoftDelete(v)
  PROVE  Meaning!Names
<1> DEFINE b == Branches[RootOf[v]]
           S == {v}
           N == Meaning!Unnamed(b, S)
<1>1. RootOf[v] \in VersionRoots
  BY RootsAssumption
<1>2. /\ b \in [Labels -> VersionIds \cup {NoVersion}]
      /\ \A m \in Labels, u \in VersionIds :
           b[m] = u <=> status[u] = "active" /\ RootOf[u] = RootOf[v] /\ label[u] = m
  BY <1>1, MeaningIs
<1>0. S \in SUBSET VersionIds /\ \A u : u \in S <=> u = v
  OBVIOUS
<1> HIDE DEF b, S
<1>3. /\ N \in [Labels -> VersionIds \cup {NoVersion}]
      /\ \A m \in Labels, u \in VersionIds : N[m] = u <=> b[m] = u /\ u \notin S
  BY <1>0, <1>2, UnnamedIs
<1> HIDE DEF N
<1>4. /\ \A u \in VersionIds : status'[u] = IF u = v THEN "deleted" ELSE status[u]
      /\ label' = label /\ status[v] = "active"
  BY DEF SoftDelete, OverlayInv, TypeOK
<1>5. Branches' = [Branches EXCEPT ![RootOf[v]] = N]
  <2>1. \A m \in Labels, u \in VersionIds :
          N[m] = u <=> status'[u] = "active" /\ RootOf[u] = RootOf[v] /\ label'[u] = m
    BY <1>0, <1>2, <1>3, <1>4
  <2>. QED
    BY <1>1, <1>3, <1>4, <2>1, RootNames
<1>6. UNCHANGED <<UsedIds, Alive, parent, Owned, Views>>
  <2>1. \A u \in VersionIds : /\ HasRow(u)' <=> HasRow(u)
                              /\ Allocated(u)' <=> Allocated(u)
    BY <1>4 DEF HasRow, Allocated
  <2>. QED
    BY <2>1, SameRows DEF SoftDelete
<1>. QED
  BY <1>5, <1>6 DEF N, b, S, Meaning!Names, Meaning!Hide

-----------------------------------------------------------------------------
(* Removing versions.                                                      *)

\* A version that no parent pointer names is nobody's ancestor but its own.
LEMMA Childless ==
  ASSUME NEW par \in [VersionIds -> VersionIds \cup {NoVersion}],
         NEW clo \in [VersionIds -> [VersionIds -> Nat \cup {NoRow}]],
         Forest(status, par, clo),
         NEW t \in VersionIds, \A d \in VersionIds : par[d] # t
  PROVE  \A d \in VersionIds : d # t => clo[d][t] = NoRow
<1> DEFINE Depths == {n \in Nat : \E d \in VersionIds : d # t /\ clo[d][t] = n}
<1>1. ASSUME NEW n \in Depths, \A m \in Depths : n <= m PROVE FALSE
  <2>1. PICK d \in VersionIds : d # t /\ clo[d][t] = n
    BY <1>1
  <2>2. clo[d][t] = IF ~Lives(status, d) THEN NoRow
                    ELSE IF par[d] = NoVersion THEN NoRow
                    ELSE IF clo[par[d]][t] = NoRow THEN NoRow
                    ELSE clo[par[d]][t] + 1
    BY <2>1 DEF Forest, FollowsParents
  <2>3. n \in Nat /\ n # NoRow
    BY DEF NoRow
  <2>4. PICK e \in VersionIds : par[d] = e /\ e # t
    BY <2>1, <2>2, <2>3
  <2>5. clo[e][t] \in Nat /\ n = clo[e][t] + 1
    BY <2>1, <2>2, <2>3, <2>4
  <2>6. clo[e][t] \in Depths
    BY <2>4, <2>5
  <2>7. n <= clo[e][t]
    <3> HIDE DEF Depths
    <3>. QED
      BY <1>1, <2>6
  <2>. QED
    BY <2>5, <2>7
<1>2. Depths = {}
  <2>1. Depths \subseteq Nat
    OBVIOUS
  <2> HIDE DEF Depths
  <2>. QED
    BY <1>1, <2>1, NatMinimum
<1>. QED
  BY <1>2

\* The versions in S lose their rows, all others keep their trees.
LEMMA GoneIs ==
  ASSUME OverlayInv, OverlayInv', NEW S \in SUBSET VersionIds,
         \A u \in S : Allocated(u),
         \A u \in VersionIds : status'[u] = IF u \in S THEN "gone" ELSE status[u],
         \A u \in VersionIds \ S, p \in Paths : Resolve(u, p)' = Resolve(u, p)
  PROVE  Meaning!Gone(S) /\ UNCHANGED UsedIds
<1>1. TypeOK' /\ ForestInv'
  BY DEF OverlayInv
<1>2. \A u \in VersionIds : /\ HasRow(u)' <=> HasRow(u) /\ u \notin S
                            /\ Allocated(u)' <=> Allocated(u)
  BY DEF HasRow, Allocated
<1>3. Alive' = Alive \ S /\ UsedIds' = UsedIds
  BY <1>2 DEF Alive, UsedIds
<1>4. \A u \in VersionIds, p \in Paths :
        Resolve(u, p)' = IF u \in S THEN Absent ELSE Resolve(u, p)
  BY <1>1, <1>2, NoView
<1>5. Views' = [u \in VersionIds |->
                  IF u \in S THEN [p \in Paths |-> Absent] ELSE Views[u]]
  <2> DEFINE W == [u \in VersionIds |->
                     IF u \in S THEN [p \in Paths |-> Absent] ELSE Views[u]]
  <2>0. Views = [d \in VersionIds |-> [p \in Paths |-> Resolve(d, p)]]
    BY MeaningIs
  <2>1. W = [d \in VersionIds |-> [p \in Paths |-> W[d][p]]]
    BY <2>0
  <2>2. ASSUME NEW d \in VersionIds, NEW p \in Paths
        PROVE  W[d][p] = IF d \in S THEN Absent ELSE Resolve(d, p)
    BY <2>0
  <2> HIDE DEF W
  <2>3. Views' = W
    BY <1>4, <2>1, <2>2, ViewsBecome
  <2>. QED
    BY <2>3 DEF W
<1>. QED
  BY <1>3, <1>5 DEF Meaning!Gone

\* A childless version, or an id that has no row any more, goes.
LEMMA HardDeleteStep ==
  ASSUME OverlayInv, OverlayInv', NEW v \in VersionIds, HardDelete(v)
  PROVE  Meaning!Drop(v)
<1> DEFINE b == Branches[RootOf[v]]
           S == {v}
           N == Meaning!Unnamed(b, S)
<1>1. TypeOK /\ ForestInv /\ TypeOK' /\ ForestInv'
  BY DEF OverlayInv
<1>2. RootOf[v] \in VersionRoots
  BY RootsAssumption
<1>3. /\ \A u \in VersionIds : status'[u] = IF u = v THEN "gone" ELSE status[u]
      /\ \A u \in VersionIds : u # v => label'[u] = label[u]
      /\ \A u \in VersionIds : u # v => entries'[u] = entries[u]
      /\ \A d, a \in VersionIds :
           closure'[d][a] = IF d = v \/ a = v THEN NoRow ELSE closure[d][a]
      /\ parent' = [u \in VersionIds |-> IF u \in {v} THEN NoVersion ELSE parent[u]]
      /\ Allocated(v)
  BY DEF HardDelete, RemovedStatus, RemovedLabel, RemovedEntries, RemovedClosure, RemovedParent
<1>4. \A d \in VersionIds : parent[d] # v
  BY <1>1, SentinelAssumption
  DEF HardDelete, Children, ForestInv, Forest, ParentsIn, Lives, HasRow
<1>5. \A d \in VersionIds : d # v => closure[d][v] = NoRow
  BY <1>1, <1>4, Childless DEF ForestInv, TypeOK
<1>6. ASSUME NEW d \in VersionIds, NEW p \in Paths, d # v
      PROVE  Resolve(d, p)' = Resolve(d, p)
  <2>1. \A a \in VersionIds : /\ closure'[d][a] = closure[d][a]
                              /\ closure[d][a] # NoRow => entries'[a][p] = entries[a][p]
    BY <1>3, <1>5, <1>6
  <2>. QED
    BY <1>1, <2>1, SameView
<1>7. Meaning!Gone({v}) /\ UsedIds' = UsedIds
  <2>1. S \in SUBSET VersionIds /\ \A u : u \in S <=> u = v
    OBVIOUS
  <2> HIDE DEF S
  <2>2. \A u \in S : Allocated(u)
    BY <1>3, <2>1
  <2>3. \A u \in VersionIds : status'[u] = IF u \in S THEN "gone" ELSE status[u]
    BY <1>3, <2>1
  <2>4. \A u \in VersionIds \ S, p \in Paths : Resolve(u, p)' = Resolve(u, p)
    BY <1>6, <2>1
  <2>5. Meaning!Gone(S) /\ UsedIds' = UsedIds
    BY <2>1, <2>2, <2>3, <2>4, GoneIs
  <2>. QED
    BY <2>5 DEF S
<1>8. Branches' = [Branches EXCEPT ![RootOf[v]] = N]
  <2>1. /\ b \in [Labels -> VersionIds \cup {NoVersion}]
        /\ \A m \in Labels, u \in VersionIds :
             b[m] = u <=> status[u] = "active" /\ RootOf[u] = RootOf[v] /\ label[u] = m
    BY <1>2, MeaningIs
  <2>2. S \in SUBSET VersionIds /\ \A u : u \in S <=> u = v
    OBVIOUS
  <2> HIDE DEF b, S
  <2>3. /\ N \in [Labels -> VersionIds \cup {NoVersion}]
        /\ \A m \in Labels, u \in VersionIds : N[m] = u <=> b[m] = u /\ u \notin S
    BY <2>1, <2>2, UnnamedIs
  <2> HIDE DEF N
  <2>4. \A m \in Labels, u \in VersionIds :
          N[m] = u <=> status'[u] = "active" /\ RootOf[u] = RootOf[v] /\ label'[u] = m
    BY <1>3, <2>1, <2>2, <2>3
  <2>5. \A u \in VersionIds : RootOf[u] # RootOf[v] =>
          status'[u] = status[u] /\ label'[u] = label[u]
    BY <1>3
  <2>. QED
    BY <1>2, <2>3, <2>4, <2>5, RootNames
<1>9. Owned' = [Owned EXCEPT ![v] = {}]
  <2> DEFINE O == [Owned EXCEPT ![v] = {}]
  <2>1. O \in [VersionIds -> SUBSET Paths]
    BY MeaningIs
  <2>2. \A d \in VersionIds : O[d] = IF d = v THEN {} ELSE Owned[d]
    BY MeaningIs
  <2> HIDE DEF O
  <2>3. \A d \in VersionIds, p \in Paths :
          p \in Owned[d] <=> HasRow(d) /\ entries[d][p] # Absent
    BY MeaningIs
  <2>4. \A d \in VersionIds : HasRow(d)' <=> HasRow(d) /\ d # v
    BY <1>3 DEF HasRow
  <2>5. \A d \in VersionIds, p \in Paths :
          p \in O[d] <=> HasRow(d)' /\ entries'[d][p] # Absent
    BY <1>3, <2>2, <2>3, <2>4
  <2>6. Owned' = O
    BY <2>1, <2>5, OwnedBecome
  <2>. QED
    BY <2>6 DEF O
<1>10. \A d \in Alive : parent[d] # v
  BY <1>4 DEF Alive
<1>. QED
  BY <1>3, <1>7, <1>8, <1>9, <1>10 DEF Meaning!Drop, Meaning!Standalone

\* Promoting v and removing the version it displaces, which may be its parent.
LEMMA PromoteDiscardStep ==
  ASSUME OverlayInv, OverlayInv', NEW v \in VersionIds, NEW t \in VersionIds,
         NEW l \in UserLabels, PromoteDiscard(v, t, l)
  PROVE  Meaning!PromoteDiscard(v, l)
<1> DEFINE b == Branches[RootOf[v]]
           M == Meaning!Moved(b, v, l)
           S == {t}
           N == Meaning!Unnamed(M, S)
           par == [parent EXCEPT ![v] = NoVersion]
           clo == WithoutOuterRows(v)
           ents == [entries EXCEPT ![v] = Materialized(v)]
<1>1. TypeOK /\ ForestInv /\ TypeOK' /\ ForestInv'
  BY DEF OverlayInv
<1>2. RootOf[v] \in VersionRoots /\ l \in Labels
  BY RootsAssumption DEF Labels
<1>3. /\ status[t] = "active" /\ RootOf[t] = RootOf[v] /\ label[t] = l /\ t # v
      /\ Children(t) \subseteq {v}
  BY DEF PromoteDiscard, LiveHolders
<1>4. /\ \A u \in VersionIds : status'[u] = IF u = t THEN "gone" ELSE status[u]
      /\ \A u \in VersionIds : u # t => label'[u] = Relabelled(v, l)[u]
      /\ \A u \in VersionIds : entries'[u] = IF u = t THEN NoEntries ELSE ents[u]
      /\ \A d, a \in VersionIds :
           closure'[d][a] = IF d = t \/ a = t THEN NoRow ELSE clo[d][a]
      /\ parent' = [u \in VersionIds |-> IF u \in {v, t} THEN NoVersion ELSE parent[u]]
  <2>1. \A u \in VersionIds : status'[u] = IF u = t THEN "gone" ELSE status[u]
    BY DEF PromoteDiscard, RemovedStatus
  <2>2. \A u \in VersionIds : u # t => label'[u] = Relabelled(v, l)[u]
    <3>1. label' = [Relabelled(v, l) EXCEPT ![t] = NoLabel]
      BY DEF PromoteDiscard
    <3>. QED
      BY <3>1 DEF Relabelled
  <2>3. \A u \in VersionIds : entries'[u] = IF u = t THEN NoEntries ELSE ents[u]
    <3>1. entries' = RemovedEntries(ents, {t})
      BY DEF PromoteDiscard
    <3> HIDE DEF ents
    <3>. QED
      BY <3>1 DEF RemovedEntries
  <2>4. \A d, a \in VersionIds :
          closure'[d][a] = IF d = t \/ a = t THEN NoRow ELSE clo[d][a]
    <3>1. closure' = RemovedClosure(clo, {t})
      BY DEF PromoteDiscard
    <3> HIDE DEF clo
    <3>. QED
      BY <3>1 DEF RemovedClosure
  <2>5. parent' = [u \in VersionIds |-> IF u \in {v, t} THEN NoVersion ELSE parent[u]]
    <3>1. parent' = [RemovedParent({t}) EXCEPT ![v] = NoVersion]
      BY DEF PromoteDiscard
    <3>. QED
      BY <3>1 DEF RemovedParent
  <2>. QED
    BY <2>1, <2>2, <2>3, <2>4, <2>5
<1>5. /\ Forest(status, par, clo)
      /\ par \in [VersionIds -> VersionIds \cup {NoVersion}]
      /\ clo \in [VersionIds -> [VersionIds -> Nat \cup {NoRow}]]
  BY <1>1, DetachForest DEF TypeOK, WithoutOuterRows
<1>6. \A d \in VersionIds : parent[d] = t => d = v
  BY <1>1, <1>3, SentinelAssumption DEF Children, ForestInv, Forest, ParentsIn, Lives, HasRow
<1>7. \A d \in VersionIds : par[d] # t
  BY <1>1, <1>6, SentinelAssumption DEF TypeOK
<1>8. \A d \in VersionIds, p \in Paths : Shows(clo, ents, d, p, Resolve(d, p))
  BY <1>1, DetachShows
<1>9. \A u \in VersionIds : ents[u] = IF u = v THEN Materialized(v) ELSE entries[u]
  BY <1>1 DEF TypeOK
<1> HIDE DEF par, clo, ents
<1>10. \A d \in VersionIds : d # t => clo[d][t] = NoRow
  BY <1>5, <1>7, Childless
<1>11. ASSUME NEW d \in VersionIds, NEW p \in Paths, d # t
       PROVE  Resolve(d, p)' = Resolve(d, p)
  <2>1. \A a \in VersionIds : /\ closure'[d][a] = clo[d][a]
                              /\ clo[d][a] # NoRow => entries'[a][p] = ents[a][p]
    BY <1>4, <1>10, <1>11
  <2>2. Shows(closure', entries', d, p, Resolve(d, p))
    BY <1>8, <2>1 DEF Shows, NoHolder, NearestRow
  <2>. QED
    BY <1>1, <2>2, ResolveShowsNext
<1>12. Meaning!Gone({t}) /\ UsedIds' = UsedIds
  BY <1>3, <1>4, <1>11, GoneIs DEF Allocated
<1>13. Branches' = [Branches EXCEPT ![RootOf[v]] = N]
  <2>1. /\ M \in [Labels -> VersionIds \cup {NoVersion}]
        /\ \A m \in Labels, u \in VersionIds :
             M[m] = u <=> /\ status[u] = "active" /\ RootOf[u] = RootOf[v]
                          /\ Relabelled(v, l)[u] = m
    BY MovedIs
  <2>2. S \in SUBSET VersionIds /\ \A u : u \in S <=> u = t
    OBVIOUS
  <2> HIDE DEF M, S
  <2>3. /\ N \in [Labels -> VersionIds \cup {NoVersion}]
        /\ \A m \in Labels, u \in VersionIds : N[m] = u <=> M[m] = u /\ u \notin S
    BY <2>1, <2>2, UnnamedIs
  <2> HIDE DEF N
  <2>4. \A m \in Labels, u \in VersionIds :
          N[m] = u <=> status'[u] = "active" /\ RootOf[u] = RootOf[v] /\ label'[u] = m
    BY <1>4, <2>1, <2>2, <2>3
  <2>5. \A u \in VersionIds : RootOf[u] # RootOf[v] =>
          status'[u] = status[u] /\ label'[u] = label[u]
    BY <1>3, <1>4, OtherRootsKeepLabels
  <2>. QED
    BY <1>2, <2>3, <2>4, <2>5, RootNames
<1>14. Owned' = [[Owned EXCEPT ![v] = Meaning!Visible(Views[v])] EXCEPT ![t] = {}]
  <2> DEFINE O == [[Owned EXCEPT ![v] = Meaning!Visible(Views[v])] EXCEPT ![t] = {}]
  <2>1. \A p \in Paths : p \in Meaning!Visible(Views[v]) <=> Resolve(v, p) # Absent
    BY MeaningIs DEF Meaning!Visible
  <2>2. Meaning!Visible(Views[v]) \subseteq Paths
    BY DEF Meaning!Visible
  <2>3. O \in [VersionIds -> SUBSET Paths]
    BY <2>2, MeaningIs
  <2>4. \A d \in VersionIds :
          O[d] = IF d = t THEN {} ELSE IF d = v THEN Meaning!Visible(Views[v]) ELSE Owned[d]
    BY MeaningIs
  <2> HIDE DEF O
  <2>5. \A d \in VersionIds, p \in Paths :
          p \in Owned[d] <=> HasRow(d) /\ entries[d][p] # Absent
    BY MeaningIs
  <2>6. \A d \in VersionIds : HasRow(d)' <=> HasRow(d) /\ d # t
    BY <1>4 DEF HasRow
  <2>7. \A p \in Paths : Resolve(v, p) # Absent <=> HasRow(v) /\ Materialized(v)[p] # Absent
    <3>1. GoneShowsNothing
      BY <1>1, ForestImplies
    <3>. QED
      BY <1>1, <3>1, MaterializedIs DEF GoneShowsNothing
  <2>8. \A d \in VersionIds, p \in Paths :
          p \in O[d] <=> HasRow(d)' /\ entries'[d][p] # Absent
    BY <1>3, <1>4, <1>9, <2>1, <2>4, <2>5, <2>6, <2>7
  <2>9. Owned' = O
    BY <2>3, <2>8, OwnedBecome
  <2>. QED
    BY <2>9 DEF O
<1>15. t \in Meaning!Displaced(v, l)
  <2>1. Branches[RootOf[v]][l] = t
    BY <1>2, <1>3, MeaningIs
  <2>. QED
    BY <1>3, <2>1, SentinelAssumption DEF Meaning!Displaced
<1>16. t \in Alive /\ \A d \in Alive : parent[d] = t => d = v
  BY <1>3, <1>6 DEF Alive, HasRow
<1>17. Meaning!Standalone({v, t})
  BY <1>4 DEF Meaning!Standalone
<1>18. Branches' = [Branches EXCEPT ![RootOf[v]] =
                     Meaning!Unnamed(Meaning!Moved(@, v, l), {t})]
  BY <1>13 DEF N, M, S, b
<1>. QED
  BY <1>12, <1>14, <1>15, <1>16, <1>17, <1>18 DEF Meaning!PromoteDiscard, Meaning!Gone

\* The sweep of a root.
LEMMA SweepStep ==
  ASSUME OverlayInv, OverlayInv', NEW r \in VersionRoots, SweepHistory(r)
  PROVE  Meaning!Sweep(r)
<1> DEFINE active == {v \in VersionIds : RootOf[v] = r /\ status[v] = "active"}
           inactive == {v \in VersionIds : RootOf[v] = r /\ status[v] = "deleted"}
           mine == {v \in Alive : RootOf[v] = r}
           named == {Branches[r][l] : l \in Meaning!Labels} \ {NoVersion}
<1>1. TypeOK /\ ForestInv /\ TypeOK' /\ ForestInv' /\ LabelInv'
  BY DEF OverlayInv
<1>2. named = active
  <2>1. Meaning!Labels = Labels
    BY MeaningIs
  <2>2. \A l \in Labels : /\ Branches[r][l] \in VersionIds \cup {NoVersion}
                          /\ \A v \in VersionIds :
                               Branches[r][l] = v <=>
                                 status[v] = "active" /\ RootOf[v] = r /\ label[v] = l
    BY MeaningIs
  <2>3. \A v \in VersionIds : status[v] = "active" => label[v] \in Labels
    BY DEF OverlayInv, LabelInv, OwnLabels, HasRow, Labels
  <2>. QED
    BY <2>1, <2>2, <2>3, SentinelAssumption
<1>3. mine = active \cup inactive /\ mine \ active = inactive
  BY DEF Alive, HasRow
<1>4. /\ \A u \in VersionIds : status'[u] = IF u \in inactive THEN "gone" ELSE status[u]
      /\ \A u \in VersionIds : u \notin inactive => label'[u] = label[u]
      /\ parent' = [u \in VersionIds |->
                      IF u \in active \cup inactive THEN NoVersion ELSE parent[u]]
      /\ \A u \in VersionIds :
           entries'[u] = IF u \in inactive THEN NoEntries
                         ELSE IF u \in active THEN Materialized(u) ELSE entries[u]
  BY DEF SweepHistory, RemovedStatus, RemovedLabel, RemovedParent, RemovedEntries
<1>5. \A u, a \in VersionIds : u \notin active \cup inactive =>
        closure'[u][a] = IF a \in active \cup inactive THEN NoRow ELSE closure[u][a]
  BY DEF SweepHistory, RemovedClosure
<1>6. /\ \A u \in VersionIds : u \in active <=> RootOf[u] = r /\ status[u] = "active"
      /\ \A u \in VersionIds : u \in inactive <=> RootOf[u] = r /\ status[u] = "deleted"
      /\ active \subseteq VersionIds /\ inactive \subseteq VersionIds
  OBVIOUS
<1> HIDE DEF active, inactive, mine, named
<1>7. ASSUME NEW d \in VersionIds \ inactive, NEW p \in Paths
      PROVE  Resolve(d, p)' = Resolve(d, p)
  <2>1. CASE d \in active
    <3>1. entries'[d][p] = Resolve(d, p) /\ parent'[d] = NoVersion /\ HasRow(d)'
      BY <1>1, <1>4, <1>6, <2>1, MaterializedIs DEF HasRow
    <3>2. Resolve(d, p) # Tombstone
      BY <1>1, ResolveValue, SentinelAssumption
    <3>. QED
      BY <1>1, <3>1, <3>2, ResolveInheritsNext DEF Shown
  <2>2. CASE d \notin active
    <3>1. \A a \in VersionIds : closure[d][a] # NoRow => a \notin active \cup inactive
      BY <1>1, <1>6, <2>2 DEF ForestInv, Forest, RowsExist, Lives
    <3>2. \A a \in VersionIds : /\ closure'[d][a] = closure[d][a]
                                /\ closure[d][a] # NoRow => entries'[a][p] = entries[a][p]
      BY <1>4, <1>5, <2>2, <3>1
    <3>. QED
      BY <1>1, <3>2, SameView
  <2>. QED
    BY <2>1, <2>2
<1>8. Meaning!Gone(inactive) /\ UsedIds' = UsedIds
  <2>1. \A u \in inactive : Allocated(u)
    BY <1>6 DEF Allocated
  <2>. QED
    BY <1>4, <1>6, <1>7, <2>1, GoneIs
<1>9. Branches' = Branches
  <2>1. \A q \in VersionRoots, m \in Labels, u \in VersionIds :
          Branches[q][m] = u <=> status[u] = "active" /\ RootOf[u] = q /\ label[u] = m
    BY MeaningIs
  <2>2. \A q \in VersionRoots, m \in Labels, u \in VersionIds :
          Branches[q][m] = u <=> status'[u] = "active" /\ RootOf[u] = q /\ label'[u] = m
    BY <1>4, <1>6, <2>1
  <2>. QED
    BY <1>1, <2>2, MeaningIs, BranchesBecome
<1>10. Owned' = [u \in VersionIds |-> IF u \in active THEN Meaning!Visible(Views[u])
                                      ELSE IF u \in mine THEN {} ELSE Owned[u]]
  <2> DEFINE O == [u \in VersionIds |-> IF u \in active THEN Meaning!Visible(Views[u])
                                        ELSE IF u \in mine THEN {} ELSE Owned[u]]
  <2>1. \A u \in VersionIds, p \in Paths :
          p \in Meaning!Visible(Views[u]) <=> Resolve(u, p) # Absent
    BY MeaningIs DEF Meaning!Visible
  <2>2. O \in [VersionIds -> SUBSET Paths]
    BY MeaningIs DEF Meaning!Visible
  <2>3. \A d \in VersionIds, p \in Paths :
          p \in Owned[d] <=> HasRow(d) /\ entries[d][p] # Absent
    BY MeaningIs
  <2>4. \A d \in VersionIds :
          O[d] = IF d \in active THEN Meaning!Visible(Views[d])
                 ELSE IF d \in inactive THEN {} ELSE Owned[d]
    BY <1>3
  <2> HIDE DEF O
  <2>5. \A d \in VersionIds : HasRow(d)' <=> HasRow(d) /\ d \notin inactive
    BY <1>4 DEF HasRow
  <2>6. \A d \in active, p \in Paths : HasRow(d) /\ Materialized(d)[p] = Resolve(d, p)
    BY <1>1, <1>6, MaterializedIs DEF HasRow
  <2>7. ASSUME NEW d \in VersionIds, NEW p \in Paths
        PROVE  p \in O[d] <=> HasRow(d)' /\ entries'[d][p] # Absent
    <3>1. CASE d \in active
      <4>1. d \notin inactive
        BY <1>6, <3>1
      <4>. QED
        BY <1>4, <2>1, <2>4, <2>5, <2>6, <3>1, <4>1
    <3>2. CASE d \notin active /\ d \in inactive
      BY <2>4, <2>5, <3>2
    <3>3. CASE d \notin active /\ d \notin inactive
      BY <1>4, <2>3, <2>4, <2>5, <3>3
    <3>. QED
      BY <3>1, <3>2, <3>3
  <2>8. Owned' = O
    BY <2>2, <2>7, OwnedBecome
  <2>. QED
    BY <2>8 DEF O
<1>11. Meaning!Standalone(mine)
  BY <1>3, <1>4 DEF Meaning!Standalone
<1>12. /\ Meaning!Gone(mine \ named)
       /\ Owned' = [u \in VersionIds |-> IF u \in named THEN Meaning!Visible(Views[u])
                                         ELSE IF u \in mine THEN {} ELSE Owned[u]]
  BY <1>2, <1>3, <1>8, <1>10
<1>. QED
  BY <1>8, <1>9, <1>11, <1>12 DEF Meaning!Sweep, mine, named

\* Removing a root: its versions go, and in "/" the path is hidden in v and in
\* whoever follows v there.
LEMMA RemoveRootStep ==
  ASSUME OverlayInv, OverlayInv', NEW v \in VersionIds, NEW r \in VersionRoots,
         RemoveVersionRoot(v, r)
  PROVE  Meaning!RemoveRoot(v, r)
<1> DEFINE mine == {w \in Alive : RootOf[w] = r}
           P == IF v \in Alive THEN Meaning!Visible(Views[v]) ELSE {}
           N == [l \in Labels |-> NoVersion]
<1>1. TypeOK /\ ForestInv /\ TypeOK' /\ ForestInv'
  BY DEF OverlayInv
<1>2. /\ r # WorkspaceRoot /\ RootOf[v] = WorkspaceRoot /\ Allocated(v)
  BY DEF RemoveVersionRoot
<1>3. \A w : w \in mine <=> w \in VersionIds /\ RootOf[w] = r /\ HasRow(w)
  BY DEF Alive
<1>4. \A p : p \in P <=> p \in Paths /\ Resolve(v, p) # Absent
  <2>1. \A p \in Paths : Views[v][p] = Resolve(v, p)
    BY MeaningIs
  <2>2. \A p \in Paths : ~HasRow(v) => Resolve(v, p) = Absent
    BY <1>1, ForestImplies DEF GoneShowsNothing
  <2>. QED
    BY <2>1, <2>2 DEF Meaning!Visible, Alive
<1>5. mine = {w \in VersionIds : RootOf[w] = r /\ HasRow(w)}
  BY <1>3
<1>6. v \notin mine
  BY <1>2, <1>3
<1> HIDE DEF mine, P
<1>7. \A w \in VersionIds : status'[w] = IF w \in mine THEN "gone" ELSE status[w]
  BY <1>5 DEF RemoveVersionRoot, RemovedStatus
<1>8. \A w \in VersionIds : w \notin mine => label'[w] = label[w]
  BY <1>5 DEF RemoveVersionRoot, RemovedLabel
<1>9. parent' = [w \in VersionIds |-> IF w \in mine THEN NoVersion ELSE parent[w]]
  BY <1>5 DEF RemoveVersionRoot, RemovedParent
<1>10. \A d, a \in VersionIds :
         closure'[d][a] = IF d \in mine \/ a \in mine THEN NoRow ELSE closure[d][a]
  BY <1>5 DEF RemoveVersionRoot, RemovedClosure
<1>11. \A w \in VersionIds, p \in Paths :
         w \notin mine => entries'[w][p] = IF w = v /\ p \in P THEN Tombstone
                                           ELSE entries[w][p]
  <2> DEFINE hidden == [p \in Paths |-> IF Resolve(v, p) = Absent THEN entries[v][p]
                                        ELSE Tombstone]
             ents == [entries EXCEPT ![v] = hidden]
  <2>1. entries' = RemovedEntries(ents, mine)
    BY <1>5 DEF RemoveVersionRoot
  <2>2. \A w \in VersionIds : ents[w] = IF w = v THEN hidden ELSE entries[w]
    BY <1>1 DEF TypeOK
  <2>3. \A p \in Paths : hidden[p] = IF p \in P THEN Tombstone ELSE entries[v][p]
    BY <1>4
  <2> HIDE DEF ents, hidden
  <2>4. \A w \in VersionIds : w \notin mine => entries'[w] = ents[w]
    BY <2>1 DEF RemovedEntries
  <2>. QED
    BY <2>2, <2>3, <2>4
<1>12. \A w \in VersionIds : /\ HasRow(w)' <=> HasRow(w) /\ w \notin mine
                             /\ Allocated(w)' <=> Allocated(w)
  BY <1>3, <1>7 DEF HasRow, Allocated
<1>13. Alive' = Alive \ mine /\ UsedIds' = UsedIds
  BY <1>12 DEF Alive, UsedIds
<1>14. Branches' = [Branches EXCEPT ![r] = N]
  <2>1. N \in [Labels -> VersionIds \cup {NoVersion}]
    OBVIOUS
  <2>2. \A m \in Labels, u \in VersionIds : N[m] # u
    BY SentinelAssumption
  <2> HIDE DEF N
  <2>3. \A m \in Labels, u \in VersionIds :
          N[m] = u <=> status'[u] = "active" /\ RootOf[u] = r /\ label'[u] = m
    BY <1>3, <1>7, <2>2 DEF HasRow
  <2>4. \A u \in VersionIds : RootOf[u] # r =>
          status'[u] = status[u] /\ label'[u] = label[u]
    BY <1>3, <1>7, <1>8
  <2>. QED
    BY <2>1, <2>3, <2>4, RootNames
<1>15. Owned' = [w \in VersionIds |-> IF w \in mine THEN {}
                                      ELSE IF w = v THEN Owned[w] \cup P ELSE Owned[w]]
  <2> DEFINE O == [w \in VersionIds |-> IF w \in mine THEN {}
                                        ELSE IF w = v THEN Owned[w] \cup P ELSE Owned[w]]
  <2>1. P \subseteq Paths
    BY <1>4
  <2>2. O \in [VersionIds -> SUBSET Paths]
    BY <2>1, MeaningIs
  <2>3. \A d \in VersionIds, p \in Paths :
          p \in Owned[d] <=> HasRow(d) /\ entries[d][p] # Absent
    BY MeaningIs
  <2>4. \A d \in VersionIds, p \in Paths :
          p \in O[d] <=> d \notin mine /\ (p \in Owned[d] \/ (d = v /\ p \in P))
    OBVIOUS
  <2> HIDE DEF O
  <2>5. \A p \in P : HasRow(v)
    BY <1>1, <1>4, ForestImplies DEF GoneShowsNothing
  <2>6. \A d \in VersionIds, p \in Paths :
          p \in O[d] <=> HasRow(d)' /\ entries'[d][p] # Absent
    BY <1>11, <1>12, <2>3, <2>4, <2>5, SentinelAssumption
  <2>7. Owned' = O
    BY <2>2, <2>6, OwnedBecome
  <2>. QED
    BY <2>7 DEF O
<1>16. \A d, a \in VersionIds : closure[d][a] # NoRow =>
         HasRow(d) /\ HasRow(a) /\ RootOf[d] = RootOf[a]
  BY <1>1 DEF ForestInv, Forest, RowsExist, Lives, HasRow
<1>17. \A d \in VersionIds, p \in Paths :
         Resolve(d, p)' = IF d \in mine \/ (p \in P /\ d \in Meaning!Followers(v, p))
                          THEN Absent ELSE Resolve(d, p)
  <2>1. ASSUME NEW d \in VersionIds, NEW p \in Paths, d \in mine
        PROVE  Resolve(d, p)' = Absent
    BY <1>1, <1>12, <2>1, NoView
  <2>2. ASSUME NEW d \in VersionIds, NEW p \in Paths, d \notin mine,
               p \notin P \/ ~IsAncestor(v, d)
        PROVE  Resolve(d, p)' = Resolve(d, p)
    <3>1. \A a \in VersionIds : closure[d][a] # NoRow => a \notin mine
      BY <1>3, <1>16, <2>2
    <3>2. \A a \in VersionIds :
            /\ closure'[d][a] = closure[d][a]
            /\ closure[d][a] # NoRow => entries'[a][p] = entries[a][p]
      BY <1>10, <1>11, <2>2, <3>1 DEF IsAncestor
    <3>. QED
      BY <1>1, <3>2, SameView
  <2>3. ASSUME NEW p \in P
        PROVE  \A d \in VersionIds : IsAncestor(v, d) =>
                 Resolve(d, p)' = IF d \in Meaning!Followers(v, p) THEN Absent
                                  ELSE Resolve(d, p)
    <3>1. p \in Paths /\ HasRow(v)
      BY <1>1, <1>4, ForestImplies DEF GoneShowsNothing
    <3>2. entries'[v][p] = Tombstone /\ Tombstone # Absent /\ Shown(Tombstone) = Absent
      BY <1>6, <1>11, <3>1, SentinelAssumption DEF Shown
    <3>3. \A d \in VersionIds : IsAncestor(v, d) => HasRow(d) /\ d \notin mine
      BY <1>2, <1>3, <1>16 DEF IsAncestor
    <3>4. \A d \in VersionIds : IsAncestor(v, d) =>
            /\ HasRow(d)' /\ parent'[d] = parent[d]
            /\ d # v => entries'[d][p] = entries[d][p]
      BY <1>9, <1>11, <1>12, <3>1, <3>3
    <3>. QED
      BY <1>1, <3>1, <3>2, <3>4, WriteViews
  <2>4. \A p \in P : \A d \in Meaning!Followers(v, p) : IsAncestor(v, d)
    <3>1. \A p \in P : p \in Paths /\ HasRow(v)
      BY <1>1, <1>4, ForestImplies DEF GoneShowsNothing
    <3>. QED
      BY <1>1, <3>1, FollowersAre
  <2>. QED
    BY <2>1, <2>2, <2>3, <2>4
<1>18. Views' = [d \in VersionIds |-> [p \in Paths |->
                   IF d \in mine \/ (p \in P /\ d \in Meaning!Followers(v, p))
                   THEN Absent ELSE Views[d][p]]]
  <2> DEFINE W == [d \in VersionIds |-> [p \in Paths |->
                     IF d \in mine \/ (p \in P /\ d \in Meaning!Followers(v, p))
                     THEN Absent ELSE Views[d][p]]]
  <2>1. \A d \in VersionIds, p \in Paths : Views[d][p] = Resolve(d, p)
    BY MeaningIs
  <2>2. \A d \in VersionIds, p \in Paths : Resolve(d, p)' = W[d][p]
    BY <1>17, <2>1
  <2>3. W = [d \in VersionIds |-> [p \in Paths |-> W[d][p]]]
    OBVIOUS
  <2> HIDE DEF W
  <2>4. Views' = W
    BY <2>2, <2>3, ViewsBecome
  <2>. QED
    BY <2>4 DEF W
<1>19. Meaning!Standalone(mine)
  BY <1>9 DEF Meaning!Standalone
<1>20. Branches' = [Branches EXCEPT ![r] = [l \in Meaning!Labels |-> NoVersion]]
  BY <1>14, MeaningIs
<1>. QED
  BY <1>2, <1>13, <1>15, <1>18, <1>19, <1>20 DEF Meaning!RemoveRoot, mine, P

-----------------------------------------------------------------------------
(* The refinement.                                                         *)

LEMMA InitStep == Init => Meaning!Init
<1> SUFFICES ASSUME Init PROVE Meaning!Init
  OBVIOUS
<1>1. UsedIds = {} /\ Alive = {}
  BY DEF Init, UsedIds, Alive, Allocated, HasRow
<1>2. Branches = [r \in VersionRoots |-> [l \in Meaning!Labels |-> NoVersion]]
  <2>1. \A r \in VersionRoots, l \in Labels : LiveHolders(r, l) = {}
    BY DEF Init, LiveHolders
  <2>. QED
    BY <2>1 DEF Branches, Meaning!Labels, Labels
<1>3. Owned = [v \in VersionIds |-> {}]
  BY DEF Init, Owned, HasRow
<1>4. Views = [v \in VersionIds |-> [p \in Paths |-> Absent]]
  <2>1. \A v \in VersionIds, p \in Paths : Holders(v, p) = {}
    BY DEF Init, Holders, IsAncestor
  <2>. QED
    BY <2>1 DEF Views, View, Resolve
<1>5. parent = [v \in VersionIds |-> NoVersion]
  BY DEF Init
<1>. QED
  BY <1>1, <1>2, <1>3, <1>4, <1>5 DEF Meaning!Init

\* Every operation is a step of the overlay, or changes nothing it shows.
LEMMA NextStep ==
  ASSUME OverlayInv, OverlayInv', [Next]_vars
  PROVE  [Meaning!Next]_(Meaning!vars)
<1>1. ASSUME NEW v \in VersionIds, NEW w \in VersionIds, NEW l \in UserLabels,
             EnsureVersion(v, l) \/ MkdirVersioned(v, w) \/ Fork(v, w, l)
      PROVE  Meaning!Next
  BY <1>1, EnsureVersionStep, MkdirVersionedStep, ForkStep DEF Meaning!Next
<1>2. ASSUME NEW v \in VersionIds, NEW p \in Paths,
             Mkdir(v, p) \/ Rm(v, p) \/ \E c \in Contents : WriteFile(v, p, c)
      PROVE  Meaning!Next \/ UNCHANGED Meaning!vars
  BY <1>2, WriteStep DEF Meaning!Next
<1>3. ASSUME NEW v \in VersionIds, NEW l \in UserLabels,
             PromoteRetain(v, l) \/ \E swap \in BOOLEAN : RenameVersion(v, l, swap)
      PROVE  Meaning!Next
  BY <1>3, PromoteRetainStep, RenameStep DEF Meaning!Next
<1>4. ASSUME NEW v \in VersionIds, Detach(v)
      PROVE  Meaning!Next \/ UNCHANGED Meaning!vars
  BY <1>4, DetachStep DEF Meaning!Next
<1>5. ASSUME NEW v \in VersionIds, NEW l \in UserLabels, PromoteDetached(v, l)
      PROVE  Meaning!Next
  BY <1>5, PromoteDetachedStep DEF Meaning!Next
<1>6. ASSUME NEW v \in VersionIds, SoftDelete(v) \/ HardDelete(v)
      PROVE  Meaning!Next
  BY <1>6, SoftDeleteStep, HardDeleteStep DEF Meaning!Next
<1>7. ASSUME NEW v \in VersionIds, NEW t \in VersionIds, NEW l \in UserLabels,
             PromoteDiscard(v, t, l)
      PROVE  Meaning!Next
  BY <1>7, PromoteDiscardStep DEF Meaning!Next
<1>8. ASSUME NEW r \in VersionRoots, SweepHistory(r) PROVE Meaning!Next
  BY <1>8, SweepStep DEF Meaning!Next
<1>9. ASSUME NEW r \in VersionRoots, NEW v \in VersionIds, RemoveVersionRoot(v, r)
      PROVE  Meaning!Next
  BY <1>9, RemoveRootStep DEF Meaning!Next
<1>10. CASE UNCHANGED vars
  <2>1. \A u \in VersionIds : /\ HasRow(u)' <=> HasRow(u)
                              /\ Allocated(u)' <=> Allocated(u)
    BY <1>10 DEF vars, HasRow, Allocated
  <2>. QED
    BY <1>10, <2>1, SameRows, SameBranches DEF vars, Meaning!vars
<1>. QED
  BY <1>1, <1>2, <1>3, <1>4, <1>5, <1>6, <1>7, <1>8, <1>9, <1>10, LabelAssumption
  DEF Next, Create, Write, Relabel, Flatten, Remove

\* VersionStore implements the overlay: the nearest row over the hand-maintained
\* closure table shows every version the tree it was promised, through every
\* interleaving of forks, writes, detaches, promotions, deletes and sweeps.
THEOREM OverlayImplemented == Spec => ImplementsOverlay
<1>1. Init => Meaning!Init
  BY InitStep
<1>2. OverlayInv /\ OverlayInv' /\ [Next]_vars => [Meaning!Next]_(Meaning!vars)
  BY NextStep
<1>. QED
  BY <1>1, <1>2, OverlayInvariant, PTL DEF Spec, ImplementsOverlay, Meaning!Spec

=============================================================================
