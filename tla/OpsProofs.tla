----------------------------- MODULE OpsProofs -----------------------------
(***************************************************************************)
(* What the operations of TreeOps do, for every set of names, every depth, *)
(* every tree, every limit and every sequence of operations: what mv takes *)
(* along, what cp adds call by call, which operations leave a tree, how    *)
(* far a write goes past maxFiles, and what listings find. All of it rests *)
(* on the rows being rows and the cached count a count (OpsTyped).         *)
(***************************************************************************)
EXTENDS TreeProofs

-----------------------------------------------------------------------------
(* Paths, and where a copy of one goes.                                    *)

\* A prefix, name by name.
LEMMA PrefixIs ==
  ASSUME NEW p \in Seq(Names), NEW q \in Seq(Names)
  PROVE  IsPrefix(p, q) <=> Len(p) <= Len(q) /\ \A i \in 1..Len(p) : p[i] = q[i]
<1>1. Len(p) \in Nat /\ Len(q) \in Nat
  BY LenProperties
<1>2. SubSeq(p, 1, Len(p)) = p
  BY SubSeqFull
<1>3. ASSUME Len(p) <= Len(q)
      PROVE  /\ SubSeq(q, 1, Len(p)) \in Seq(Names) /\ Len(SubSeq(q, 1, Len(p))) = Len(p)
             /\ \A i \in 1..Len(p) : SubSeq(q, 1, Len(p))[i] = q[i]
  BY <1>1, <1>3
<1>4. ASSUME Len(p) <= Len(q), \A i \in 1..Len(p) : p[i] = q[i]
      PROVE  SubSeq(q, 1, Len(p)) = p
  <2> DEFINE s == SubSeq(q, 1, Len(p))
  <2>1. s \in Seq(Names) /\ Len(s) = Len(p) /\ \A i \in 1..Len(s) : s[i] = p[i]
    BY <1>3, <1>4
  <2> HIDE DEF s
  <2>. QED
    BY <2>1, SeqEqual DEF s
<1>5. ASSUME Len(p) <= Len(q), SubSeq(q, 1, Len(p)) = p
      PROVE  \A i \in 1..Len(p) : p[i] = q[i]
  BY <1>3, <1>5
<1>. QED
  BY <1>1, <1>2, <1>4, <1>5 DEF IsPrefix

\* A path of as many names as another one it starts with is that one.
LEMMA PrefixOrder ==
  ASSUME NEW p \in Paths, NEW q \in Paths
  PROVE  /\ IsPrefix(p, q) /\ Len(p) = Len(q) => p = q
         /\ IsPrefix(p, q) => Len(p) <= Len(q)
         /\ IsPrefix(p, p)
         /\ \A r \in Paths : /\ IsPrefix(p, r) /\ IsPrefix(q, r) => IsPrefix(p, q) \/ IsPrefix(q, p)
                             /\ IsPrefix(p, q) /\ IsPrefix(q, r) => IsPrefix(p, r)
<1>1. p \in Seq(Names) /\ q \in Seq(Names) /\ Len(p) \in Nat /\ Len(q) \in Nat
  BY PathIsSeq
<1>2. IsPrefix(p, q) /\ Len(p) = Len(q) => p = q
  BY <1>1, PrefixIs, SeqEqual
<1>3. IsPrefix(p, p) /\ (IsPrefix(p, q) => Len(p) <= Len(q))
  BY <1>1, PrefixIs
<1>4. ASSUME NEW r \in Paths
      PROVE  /\ IsPrefix(p, r) /\ IsPrefix(q, r) => IsPrefix(p, q) \/ IsPrefix(q, p)
             /\ IsPrefix(p, q) /\ IsPrefix(q, r) => IsPrefix(p, r)
  <2>1. r \in Seq(Names) /\ Len(r) \in Nat
    BY PathIsSeq
  <2>2. /\ IsPrefix(p, r) <=> Len(p) <= Len(r) /\ \A i \in 1..Len(p) : p[i] = r[i]
        /\ IsPrefix(q, r) <=> Len(q) <= Len(r) /\ \A i \in 1..Len(q) : q[i] = r[i]
        /\ IsPrefix(p, q) <=> Len(p) <= Len(q) /\ \A i \in 1..Len(p) : p[i] = q[i]
        /\ IsPrefix(q, p) <=> Len(q) <= Len(p) /\ \A i \in 1..Len(q) : q[i] = p[i]
    BY <1>1, <2>1, PrefixIs
  <2>. QED
    BY <1>1, <2>1, <2>2
<1>. QED
  BY <1>2, <1>3, <1>4

\* The strict prefixes of a path are the paths above it.
LEMMA AboveAreStrict ==
  ASSUME NEW p \in Paths, NEW q \in Paths, IsPrefix(p, q), p # q
  PROVE  p \in Above(q) /\ q # Root /\ Len(p) < Len(q)
<1>1. /\ p \in Seq(Names) /\ q \in Seq(Names) /\ Len(p) \in Nat /\ Len(q) \in Nat
      /\ SubSeq(p, 1, Len(p)) = p
  BY PathIsSeq
<1>2. Len(p) <= Len(q) /\ p = SubSeq(q, 1, Len(p)) /\ Len(p) # Len(q)
  BY <1>1, PrefixOrder DEF IsPrefix
<1>3. Len(p) \in 0..Len(q) /\ Len(p) < Len(q)
  BY <1>1, <1>2
<1>4. p \in Prefixes(q)
  BY <1>2, <1>3 DEF Prefixes
<1>5. q # Root
  BY <1>1, <1>3 DEF Root
<1>. QED
  BY <1>3, <1>4, <1>5 DEF Above

\* In a tree, what is shown below a path makes it a directory with children.
LEMMA BelowIsShown ==
  ASSUME NEW rows, TreeShaped(rows), NEW p \in Paths, NEW q \in Under(p), q # p, Shows(rows, q)
  PROVE  ShowsDirectory(rows, p) /\ Children(rows, p) # {}
<1>1. q \in Paths /\ IsPrefix(p, q) /\ p \in Above(q) /\ q # Root /\ Len(p) < Len(q)
  BY AboveAreStrict DEF Under
<1>2. IsTree(View(rows)) /\ View(rows)[q] # Absent
  <2>1. \A r \in Paths : View(rows)[r] = Entry(rows, r)
    BY DEF View
  <2>. QED
    BY <1>1, <2>1, ParentInPaths DEF IsTree, IsDirectory, TreeShaped, Shows, ShowsDirectory
<1>3. \A r \in Above(q) : r \in Paths /\ ShowsDirectory(rows, r)
  <2>1. \A r \in Above(q) : r \in Paths /\ IsDirectory(View(rows), r)
    BY <1>1, <1>2, TreeAbove, AboveIs
  <2>. QED
    BY <2>1 DEF View, IsDirectory, ShowsDirectory, Shows
<1>4. /\ p \in Seq(Names) /\ q \in Seq(Names) /\ Len(p) \in Nat /\ Len(q) \in Nat
  BY <1>1, PathIsSeq
<1> DEFINE r == SubSeq(q, 1, Len(p) + 1)
<1>5. Len(p) + 1 \in 0..Len(q)
  BY <1>1, <1>4
<1>6. r \in Seq(Names) /\ Len(r) = Len(p) + 1 /\ \A i \in 1..(Len(p) + 1) : r[i] = q[i]
  BY <1>4, <1>5
<1>7. r \in Prefixes(q)
  BY <1>5 DEF Prefixes
<1>8. r \in Paths /\ Shows(rows, r)
  <2>1. CASE r = q
    BY <1>1, <2>1
  <2>2. CASE r # q
    BY <1>3, <1>7, <2>2 DEF Above, ShowsDirectory
  <2>. QED
    BY <2>1, <2>2
<1> HIDE DEF r
<1>9. IsPrefix(p, r)
  <2>1. Len(p) <= Len(q) /\ \A i \in 1..Len(p) : p[i] = q[i]
    BY <1>1, <1>4, PrefixIs
  <2>2. Len(p) <= Len(r) /\ \A i \in 1..Len(p) : p[i] = r[i]
    BY <1>4, <1>6, <2>1
  <2>. QED
    BY <1>4, <1>6, <2>2, PrefixIs
<1>10. r \in Children(rows, p)
  BY <1>6, <1>8, <1>9 DEF Children, Under
<1>. QED
  BY <1>1, <1>3, <1>10

\* Where an entry under src goes: under dest, with the same names below it.
LEMMA ImageAt ==
  ASSUME NEW src \in Paths, NEW dest \in Paths, NEW q \in Under(src)
  PROVE  /\ Image(q, src, dest) \in Seq(Names)
         /\ Len(Image(q, src, dest)) = Len(dest) + (Len(q) - Len(src))
         /\ \A i \in 1..Len(dest) : Image(q, src, dest)[i] = dest[i]
         /\ \A i \in 1..(Len(q) - Len(src)) : Image(q, src, dest)[Len(dest) + i] = q[Len(src) + i]
<1>1. /\ q \in Paths /\ IsPrefix(src, q)
      /\ src \in Seq(Names) /\ dest \in Seq(Names) /\ q \in Seq(Names)
      /\ Len(src) \in Nat /\ Len(dest) \in Nat /\ Len(q) \in Nat /\ Len(src) <= Len(q)
  BY PathIsSeq, PrefixOrder DEF Under
<1> DEFINE tail == SubSeq(q, Len(src) + 1, Len(q))
<1>2. \A i \in (Len(src) + 1)..Len(q) : q[i] \in Names
  <2>1. \A i \in 1..Len(q) : q[i] \in Names
    BY <1>1, ElementOfSeq
  <2>. QED
    BY <1>1, <2>1
<1>3. /\ tail \in Seq(Names) /\ Len(tail) = Len(q) - Len(src)
      /\ \A i \in 1..(Len(q) - Len(src)) : tail[i] = q[Len(src) + i]
  <2>1. /\ tail \in Seq(Names)
        /\ Len(tail) = IF Len(src) + 1 <= Len(q) THEN Len(q) - (Len(src) + 1) + 1 ELSE 0
        /\ \A i \in 1..(Len(q) - (Len(src) + 1) + 1) : tail[i] = q[Len(src) + 1 + i - 1]
    BY <1>1, <1>2, SubSeqProperties
  <2> HIDE DEF tail
  <2>2. Len(tail) = Len(q) - Len(src)
    BY <1>1, <2>1
  <2>3. ASSUME NEW i \in 1..(Len(q) - Len(src)) PROVE tail[i] = q[Len(src) + i]
    <3>1. i \in 1..(Len(q) - (Len(src) + 1) + 1) /\ Len(src) + 1 + i - 1 = Len(src) + i
      BY <1>1
    <3>. QED
      BY <2>1, <3>1
  <2>. QED
    BY <2>1, <2>2, <2>3
<1> DEFINE image == Image(q, src, dest)
<1>4. image = dest \o tail
  BY DEF Image
<1> HIDE DEF tail, image
<1>5. /\ image \in Seq(Names) /\ Len(image) = Len(dest) + Len(tail)
      /\ \A i \in 1..(Len(dest) + Len(tail)) :
           image[i] = IF i <= Len(dest) THEN dest[i] ELSE tail[i - Len(dest)]
  <2>1. /\ dest \o tail \in Seq(Names) /\ Len(dest \o tail) = Len(dest) + Len(tail)
        /\ \A i \in 1..(Len(dest) + Len(tail)) :
             (dest \o tail)[i] = IF i <= Len(dest) THEN dest[i] ELSE tail[i - Len(dest)]
    BY <1>1, <1>3, ConcatProperties
  <2>. QED
    BY <1>4, <2>1
<1>6. ASSUME NEW i \in 1..Len(dest) PROVE image[i] = dest[i]
  <2>1. i \in 1..(Len(dest) + Len(tail)) /\ i <= Len(dest)
    BY <1>1, <1>3
  <2>. QED
    BY <1>5, <2>1
<1>7. ASSUME NEW i \in 1..(Len(q) - Len(src)) PROVE image[Len(dest) + i] = q[Len(src) + i]
  <2>1. /\ Len(dest) + i \in 1..(Len(dest) + Len(tail)) /\ ~(Len(dest) + i <= Len(dest))
        /\ Len(dest) + i - Len(dest) = i
    BY <1>1, <1>3
  <2>2. image[Len(dest) + i] = tail[i]
    BY <1>5, <2>1
  <2>. QED
    BY <1>3, <2>2
<1>. QED
  BY <1>3, <1>5, <1>6, <1>7 DEF image

LEMMA ImageIs ==
  ASSUME NEW src \in Paths, NEW dest \in Paths, NEW q \in Under(src)
  PROVE  /\ Image(q, src, dest) \in Seq(Names)
         /\ IsPrefix(dest, Image(q, src, dest))
         /\ Image(q, src, dest) = dest <=> q = src
<1>1. /\ q \in Paths /\ IsPrefix(src, q)
      /\ src \in Seq(Names) /\ dest \in Seq(Names) /\ q \in Seq(Names)
      /\ Len(src) \in Nat /\ Len(dest) \in Nat /\ Len(q) \in Nat /\ Len(src) <= Len(q)
  BY PathIsSeq, PrefixOrder DEF Under
<1> DEFINE image == Image(q, src, dest)
<1>2. /\ image \in Seq(Names) /\ Len(image) = Len(dest) + (Len(q) - Len(src))
      /\ \A i \in 1..Len(dest) : image[i] = dest[i]
  BY ImageAt
<1> HIDE DEF image
<1>3. IsPrefix(dest, image)
  <2>1. Len(dest) <= Len(image)
    BY <1>1, <1>2
  <2>. QED
    BY <1>1, <1>2, <2>1, PrefixIs
<1>4. ASSUME q = src PROVE image = dest
  <2>1. Len(image) = Len(dest) /\ \A i \in 1..Len(image) : image[i] = dest[i]
    BY <1>1, <1>2, <1>4
  <2>. QED
    BY <1>1, <1>2, <2>1, SeqEqual
<1>5. ASSUME image = dest PROVE q = src
  <2>1. Len(q) = Len(src)
    BY <1>1, <1>2, <1>5
  <2>. QED
    BY <1>1, <2>1, PrefixOrder
<1>. QED
  BY <1>2, <1>3, <1>4, <1>5 DEF image

\* The image of a path leads back to it.
LEMMA ImageBack ==
  ASSUME NEW src \in Paths, NEW dest \in Paths, NEW q \in Under(src),
         NEW image \in Paths, image = Image(q, src, dest)
  PROVE  image \in Under(dest) /\ Image(image, dest, src) = q
<1>1. /\ q \in Paths /\ IsPrefix(src, q)
      /\ src \in Seq(Names) /\ dest \in Seq(Names) /\ q \in Seq(Names)
      /\ Len(src) \in Nat /\ Len(dest) \in Nat /\ Len(q) \in Nat /\ Len(src) <= Len(q)
  BY PathIsSeq, PrefixOrder DEF Under
<1>2. image \in Under(dest)
  BY ImageIs DEF Under
<1>3. /\ Len(image) = Len(dest) + (Len(q) - Len(src))
      /\ \A i \in 1..(Len(q) - Len(src)) : image[Len(dest) + i] = q[Len(src) + i]
  <2>1. /\ Len(Image(q, src, dest)) = Len(dest) + (Len(q) - Len(src))
        /\ \A i \in 1..(Len(q) - Len(src)) : Image(q, src, dest)[Len(dest) + i] = q[Len(src) + i]
    BY ImageAt
  <2>. QED
    BY <2>1
<1> DEFINE back == Image(image, dest, src)
<1>4. /\ back \in Seq(Names) /\ Len(back) = Len(src) + (Len(image) - Len(dest))
      /\ \A i \in 1..Len(src) : back[i] = src[i]
      /\ \A i \in 1..(Len(image) - Len(dest)) : back[Len(src) + i] = image[Len(dest) + i]
  BY <1>2, ImageAt
<1> HIDE DEF back
<1>5. Len(image) - Len(dest) = Len(q) - Len(src) /\ Len(back) = Len(q)
  BY <1>1, <1>3, <1>4
<1>6. \A i \in 1..Len(src) : src[i] = q[i]
  BY <1>1, PrefixIs
<1>7. ASSUME NEW i \in 1..Len(back) PROVE back[i] = q[i]
  <2>1. CASE i <= Len(src)
    BY <1>1, <1>4, <1>5, <1>6, <1>7, <2>1
  <2>2. CASE ~(i <= Len(src))
    <3>1. i - Len(src) \in 1..(Len(q) - Len(src)) /\ Len(src) + (i - Len(src)) = i
      BY <1>1, <1>5, <2>2
    <3>2. back[Len(src) + (i - Len(src))] = q[Len(src) + (i - Len(src))]
      BY <1>3, <1>4, <1>5, <3>1
    <3>. QED
      BY <3>1, <3>2
  <2>. QED
    BY <2>1, <2>2
<1>. QED
  BY <1>1, <1>2, <1>4, <1>5, <1>7, SeqEqual DEF back

\* The image of what lies in a directory lies in the image of the directory.
LEMMA ImageOfParent ==
  ASSUME NEW src \in Paths, NEW dest \in Paths, NEW q \in Under(src), q # src
  PROVE  /\ q # Root /\ Parent(q) \in Under(src) /\ Image(q, src, dest) # Root
         /\ Image(Parent(q), src, dest) = Parent(Image(q, src, dest))
<1>1. /\ q \in Paths /\ IsPrefix(src, q)
      /\ src \in Seq(Names) /\ dest \in Seq(Names) /\ q \in Seq(Names)
      /\ Len(src) \in Nat /\ Len(dest) \in Nat /\ Len(q) \in Nat /\ Len(src) <= Len(q)
  BY PathIsSeq, PrefixOrder DEF Under
<1>2. q # Root /\ Len(src) < Len(q)
  BY <1>1, AboveAreStrict
<1> DEFINE p == Parent(q)
<1>3. p \in Paths /\ p \in Seq(Names) /\ p = SubSeq(q, 1, Len(q) - 1) /\ Len(p) = Len(q) - 1
  BY <1>1, <1>2, ParentIsAbove, ParentInPaths, PathIsSeq DEF Parent, Front
<1>4. \A i \in 1..(Len(q) - 1) : p[i] = q[i]
  <2>1. \A i \in 1..(Len(q) - 1) : SubSeq(q, 1, Len(q) - 1)[i] = q[i]
    BY <1>1, <1>2
  <2>. QED
    BY <1>3, <2>1
<1> HIDE DEF p
<1>5. IsPrefix(src, p)
  <2>1. \A i \in 1..Len(src) : src[i] = q[i]
    BY <1>1, PrefixIs
  <2>2. Len(src) <= Len(p) /\ \A i \in 1..Len(src) : src[i] = p[i]
    BY <1>1, <1>2, <1>3, <1>4, <2>1
  <2>. QED
    BY <1>1, <1>3, <2>2, PrefixIs
<1>6. p \in Under(src)
  BY <1>3, <1>5 DEF Under
<1> DEFINE image == Image(q, src, dest)
<1>7. /\ image \in Seq(Names) /\ Len(image) = Len(dest) + (Len(q) - Len(src))
      /\ \A i \in 1..Len(dest) : image[i] = dest[i]
      /\ \A i \in 1..(Len(q) - Len(src)) : image[Len(dest) + i] = q[Len(src) + i]
  BY ImageAt
<1> DEFINE above == Image(p, src, dest)
<1>8. /\ above \in Seq(Names) /\ Len(above) = Len(dest) + (Len(p) - Len(src))
      /\ \A i \in 1..Len(dest) : above[i] = dest[i]
      /\ \A i \in 1..(Len(p) - Len(src)) : above[Len(dest) + i] = p[Len(src) + i]
  BY <1>6, ImageAt
<1> HIDE DEF above, image
<1>9. Len(image) > 0 /\ Len(above) = Len(image) - 1 /\ Len(image) \in Nat /\ image # Root
  BY <1>1, <1>2, <1>3, <1>7, <1>8 DEF Root
<1>10. /\ Parent(image) \in Seq(Names) /\ Len(Parent(image)) = Len(image) - 1
       /\ \A i \in 1..(Len(image) - 1) : Parent(image)[i] = image[i]
  <2>1. Parent(image) = SubSeq(image, 1, Len(image) - 1)
    BY <1>9 DEF Parent, Front
  <2>2. /\ SubSeq(image, 1, Len(image) - 1) \in Seq(Names)
        /\ Len(SubSeq(image, 1, Len(image) - 1)) = Len(image) - 1
        /\ \A i \in 1..(Len(image) - 1) : SubSeq(image, 1, Len(image) - 1)[i] = image[i]
    BY <1>7, <1>9
  <2>. QED
    BY <2>1, <2>2
<1>11. ASSUME NEW i \in 1..Len(above) PROVE above[i] = Parent(image)[i]
  <2>1. CASE i <= Len(dest)
    <3>1. i \in 1..Len(dest) /\ i \in 1..(Len(image) - 1)
      BY <1>1, <1>9, <2>1
    <3>. QED
      BY <1>7, <1>8, <1>10, <3>1
  <2>2. CASE ~(i <= Len(dest))
    <3>1. /\ i - Len(dest) \in 1..(Len(p) - Len(src)) /\ Len(dest) + (i - Len(dest)) = i
          /\ i - Len(dest) \in 1..(Len(q) - Len(src))
          /\ Len(src) + (i - Len(dest)) \in 1..(Len(q) - 1)
      BY <1>1, <1>2, <1>3, <1>8, <2>2
    <3>2. above[Len(dest) + (i - Len(dest))] = image[Len(dest) + (i - Len(dest))]
      BY <1>4, <1>7, <1>8, <3>1
    <3>3. i \in 1..(Len(image) - 1)
      BY <1>9
    <3>. QED
      BY <1>10, <3>1, <3>2, <3>3
  <2>. QED
    BY <2>1, <2>2
<1>12. above = Parent(image)
  BY <1>8, <1>9, <1>10, <1>11, SeqEqual
<1>. QED
  BY <1>2, <1>6, <1>9, <1>12 DEF above, image, p

-----------------------------------------------------------------------------
(* What mv takes along.                                                    *)

\* What a copy leaves to be seen.
LEMMA CopyShows ==
  ASSUME NEW rows, NEW src, NEW dest
  PROVE  /\ IsRows(CopiedSubtree(rows, src, dest, TRUE))
         /\ \A q \in Paths : Entry(CopiedSubtree(rows, src, dest, TRUE), q)
              = LET from == Image(q, dest, src)
                IN IF q \in Under(dest) /\ from \in Paths /\ Shows(rows, from)
                   THEN Entry(rows, from) ELSE Entry(rows, q)
<1> DEFINE after == CopiedSubtree(rows, src, dest, TRUE)
<1>1. \A q \in Paths : after[q]
        = LET from == Image(q, dest, src)
          IN IF q \in Under(dest) /\ from \in Paths /\ Shows(rows, from)
             THEN Entry(rows, from) ELSE rows[q]
  BY DEF CopiedSubtree
<1>2. IsRows(after)
  BY DEF CopiedSubtree, IsRows
<1>3. Tombstone # Absent
  BY NotATombstone
<1>4. \A q \in Paths : Entry(rows, q) # Tombstone
  BY <1>3 DEF Entry
<1> HIDE DEF after
<1>5. ASSUME NEW q \in Paths
      PROVE  Entry(after, q) = LET from == Image(q, dest, src)
                               IN IF q \in Under(dest) /\ from \in Paths /\ Shows(rows, from)
                                  THEN Entry(rows, from) ELSE Entry(rows, q)
  <2> DEFINE from == Image(q, dest, src)
             copied == q \in Under(dest) /\ from \in Paths /\ Shows(rows, from)
  <2>1. after[q] = IF copied THEN Entry(rows, from) ELSE rows[q]
    BY <1>1
  <2>2. copied => Entry(rows, from) # Absent /\ Entry(rows, from) # Tombstone
    BY <1>4 DEF Shows
  <2> HIDE DEF copied, from
  <2>3. Entry(after, q) = IF copied THEN Entry(rows, from) ELSE Entry(rows, q)
    BY <2>1, <2>2 DEF Entry
  <2>. QED
    BY <2>3 DEF copied, from
<1>. QED
  BY <1>2, <1>5 DEF after

\* Where mv may go: neither path lies under the other, and nothing is below
\* the destination.
LEMMA MoveApart ==
  ASSUME TreeShaped(own), NEW src \in Paths, src # Root, NEW dest \in Paths, CanMove(src, dest)
  PROVE  /\ Under(src) \cap Under(dest) = {}
         /\ \A q \in Under(dest) : q # dest => ~Shows(own, q)
<1>1. ~IsPrefix(src, dest)
  BY DEF CanMove, Inside, IsStrictPrefix
<1>2. ASSUME NEW q \in Under(dest), q # dest, Shows(own, q) PROVE FALSE
  BY <1>2, BelowIsShown DEF CanMove
<1>3. ASSUME IsPrefix(dest, src) PROVE FALSE
  <2>1. src \in Under(dest) /\ src # dest /\ Shows(own, src)
    BY <1>3, PrefixOrder DEF Under, CanMove, Inside
  <2>. QED
    BY <1>2, <2>1
<1>4. ASSUME NEW q \in Under(src), q \in Under(dest) PROVE FALSE
  <2>1. q \in Paths /\ IsPrefix(src, q) /\ IsPrefix(dest, q)
    BY <1>4 DEF Under
  <2>. QED
    BY <1>1, <1>3, <2>1, PrefixOrder
<1>. QED
  BY <1>2, <1>4

LEMMA MovesAll ==
  ASSUME IsRows(own), TreeShaped(own), NEW src \in Paths, src # Root, NEW dest \in Paths,
         CanMove(src, dest)
  PROVE  \A p \in Paths :
           Entry(Moved(src, dest), p)
             = CASE p \in Under(dest) -> IF Image(p, dest, src) \in Paths
                                         THEN Entry(own, Image(p, dest, src)) ELSE Absent
                 [] p \in Under(src) -> Absent
                 [] OTHER -> Entry(own, p)
<1>1. Tombstone # Absent /\ \A p \in Paths : Entry(own, p) # Tombstone
  BY NotATombstone DEF Entry
<1>2. /\ \A p \in Under(src) : p \notin Under(dest)
      /\ \A q \in Under(dest) : q # dest => Entry(own, q) = Absent
  BY MoveApart DEF Shows
<1>3. src \in Under(src) /\ dest \in Under(dest) /\ Entry(own, src) # Absent
  BY PrefixOrder DEF Under, CanMove, Shows
<1> DEFINE cleared == IF Shows(own, dest) THEN Upserted(own, dest, Tombstone) ELSE own
<1>4. /\ IsRows(cleared)
      /\ \A q \in Paths : Entry(cleared, q) = IF q = dest THEN Absent ELSE Entry(own, q)
  <2>1. CASE Shows(own, dest)
    BY <1>1, <2>1, PutShows
  <2>2. CASE ~Shows(own, dest)
    BY <2>2 DEF Shows
  <2>. QED
    BY <2>1, <2>2
<1>5. Moved(src, dest) = IF ShowsDirectory(own, src)
                         THEN TombstonedSubtree(CopiedSubtree(cleared, src, dest, TRUE), src)
                         ELSE Upserted(Upserted(cleared, dest, Entry(own, src)), src, Tombstone)
  BY DEF Moved
<1> HIDE DEF cleared
<1>6. ASSUME NEW p \in Under(dest), Image(p, dest, src) \in Paths
      PROVE  Image(p, dest, src) \in Under(src) /\ (Image(p, dest, src) = src <=> p = dest)
  BY <1>6, ImageIs DEF Under
<1> SUFFICES ASSUME NEW p \in Paths
             PROVE  Entry(Moved(src, dest), p)
                      = IF p \in Under(dest) THEN IF Image(p, dest, src) \in Paths
                                                  THEN Entry(own, Image(p, dest, src)) ELSE Absent
                        ELSE IF p \in Under(src) THEN Absent ELSE Entry(own, p)
  BY <1>2
<1>7. CASE ShowsDirectory(own, src)
  <2> DEFINE copied == CopiedSubtree(cleared, src, dest, TRUE)
             from == Image(p, dest, src)
  <2>1. Entry(Moved(src, dest), p) = IF p \in Under(src) THEN Absent ELSE Entry(copied, p)
    <3>1. Moved(src, dest) = TombstonedSubtree(copied, src)
      BY <1>5, <1>7
    <3> HIDE DEF copied
    <3>. QED
      BY <3>1, RemovalShows
  <2>2. Entry(copied, p) = IF p \in Under(dest) /\ from \in Paths /\ Shows(cleared, from)
                           THEN Entry(cleared, from) ELSE Entry(cleared, p)
    BY CopyShows
  <2> HIDE DEF copied
  <2>3. CASE p \in Under(dest) /\ from \in Paths
    <3>1. from \in Under(src) /\ from # dest
      BY <1>2, <1>3, <1>6, <2>3
    <3>2. Entry(cleared, from) = Entry(own, from)
      BY <1>4, <2>3, <3>1
    <3>3. Entry(copied, p) = Entry(own, from)
      <4>1. CASE Entry(own, from) # Absent
        BY <2>2, <2>3, <3>2, <4>1 DEF Shows
      <4>2. CASE Entry(own, from) = Absent
        BY <1>2, <1>4, <2>2, <2>3, <3>2, <4>2 DEF Shows
      <4>. QED
        BY <4>1, <4>2
    <3>. QED
      BY <1>2, <2>1, <2>3, <3>3
  <2>4. CASE p \in Under(dest) /\ from \notin Paths
    BY <1>2, <1>4, <2>1, <2>2, <2>4
  <2>5. CASE p \notin Under(dest)
    BY <1>3, <1>4, <2>1, <2>2, <2>5
  <2>. QED
    BY <2>3, <2>4, <2>5
<1>8. CASE ~ShowsDirectory(own, src)
  <2>1. \A q \in Under(src) : q # src => Entry(own, q) = Absent
    BY <1>8, BelowIsShown DEF Shows
  <2> DEFINE put == Upserted(cleared, dest, Entry(own, src))
  <2>2. /\ IsRows(put)
        /\ \A q \in Paths : Entry(put, q) = IF q # dest THEN Entry(cleared, q) ELSE Entry(own, src)
    BY <1>1, <1>3, <1>4, PutShows
  <2> HIDE DEF put
  <2>3. Entry(Upserted(put, src, Tombstone), p) = IF p # src THEN Entry(put, p) ELSE Absent
    BY <1>1, <2>2, PutShows
  <2>4. Entry(Moved(src, dest), p)
          = IF p = src THEN Absent ELSE IF p = dest THEN Entry(own, src) ELSE Entry(own, p)
    BY <1>4, <1>5, <1>8, <2>2, <2>3 DEF put
  <2>5. CASE p = dest
    BY <1>2, <1>3, <1>6, <2>4, <2>5, ImageIs DEF Under
  <2>6. CASE p \in Under(dest) /\ p # dest
    BY <1>2, <1>3, <1>6, <2>1, <2>4, <2>6
  <2>7. CASE p \notin Under(dest)
    BY <1>3, <2>1, <2>4, <2>7
  <2>. QED
    BY <1>3, <2>5, <2>6, <2>7
<1>. QED
  BY <1>7, <1>8

-----------------------------------------------------------------------------
(* Finitely many paths, and so a count of those shown.                     *)

LEMMA PathsOfLength == ASSUME NEW n \in Nat PROVE IsFiniteSet([1..n -> Names])
<1> DEFINE Bad == {k \in Nat : ~IsFiniteSet([1..k -> Names])}
<1> SUFFICES ASSUME Bad # {} PROVE FALSE
  OBVIOUS
<1>1. PICK k \in Bad : \A m \in Bad : k <= m
  <2>1. Bad \subseteq Nat
    OBVIOUS
  <2> HIDE DEF Bad
  <2>. QED
    BY <2>1, LeastNumber
<1>2. k \in Nat /\ ~IsFiniteSet([1..k -> Names])
  OBVIOUS
<1>3. CASE k = 0
  <2>1. \A f \in [1..0 -> Names] : f = [i \in {} |-> {}]
    OBVIOUS
  <2> DEFINE e == [i \in {} |-> {}]
  <2> HIDE DEF e
  <2>2. [1..0 -> Names] \in SUBSET {e}
    BY <2>1 DEF e
  <2>3. IsFiniteSet({e})
    BY FS_Singleton
  <2>. QED
    BY <1>2, <1>3, <2>2, <2>3, FS_Subset
<1>4. CASE k # 0
  <2>1. k - 1 \in Nat /\ k - 1 \notin Bad
    BY <1>1, <1>2, <1>4
  <2> DEFINE S == [1..(k - 1) -> Names]
             T == [1..k -> Names]
             P == S \X Names
             f == [x \in P |-> [i \in 1..k |-> IF i = k THEN x[2] ELSE x[1][i]]]
  <2>2. IsFiniteSet(P)
    <3>1. IsFiniteSet(S)
      BY <2>1
    <3> HIDE DEF S
    <3>. QED
      BY <3>1, NamesAssumption, FS_Product
  <2>3. ASSUME NEW x \in P PROVE f[x] \in T
    <3>1. x[1] \in S /\ x[2] \in Names /\ f[x] = [i \in 1..k |-> IF i = k THEN x[2] ELSE x[1][i]]
      OBVIOUS
    <3>2. \A i \in 1..k : i # k => i \in 1..(k - 1)
      BY <1>2
    <3>. QED
      BY <3>1, <3>2
  <2>4. ASSUME NEW t \in T PROVE \E x \in P : f[x] = t
    <3> DEFINE s == [i \in 1..(k - 1) |-> t[i]]
    <3>1. s \in S /\ t[k] \in Names
      BY <1>2, <1>4
    <3>2. \A i \in 1..k : i # k => i \in 1..(k - 1)
      BY <1>2
    <3>3. \A i \in 1..k : t[i] = IF i = k THEN t[k] ELSE s[i]
      BY <3>2
    <3>4. t = [i \in 1..k |-> IF i = k THEN t[k] ELSE s[i]]
      BY <3>3
    <3>5. <<s, t[k]>> \in P /\ <<s, t[k]>>[1] = s /\ <<s, t[k]>>[2] = t[k]
      BY <3>1
    <3> HIDE DEF s, S, T
    <3>6. f[<<s, t[k]>>] = [i \in 1..k |-> IF i = k THEN t[k] ELSE s[i]]
      BY <3>5
    <3>. QED
      BY <3>4, <3>5, <3>6
  <2>5. f \in Surjection(P, T)
    <3>1. f = [x \in P |-> f[x]]
      OBVIOUS
    <3> HIDE DEF f, P, T
    <3>2. f \in [P -> T]
      BY <2>3, <3>1
    <3>. QED
      BY <2>4, <3>2 DEF Surjection
  <2> HIDE DEF f, P, S
  <2>. QED
    BY <1>2, <2>2, <2>5, FS_Surjection
<1>. QED
  BY <1>3, <1>4

LEMMA FinitePaths == IsFiniteSet(Paths)
<1> DEFINE U(n) == UNION {[1..k -> Names] : k \in 0..n}
           Bad == {n \in Nat : ~IsFiniteSet(U(n))}
<1> SUFFICES ASSUME Bad # {} PROVE FALSE
  BY PathBoundAssumption DEF Paths
<1>1. PICK n \in Bad : \A m \in Bad : n <= m
  <2>1. Bad \subseteq Nat
    OBVIOUS
  <2> HIDE DEF Bad
  <2>. QED
    BY <2>1, LeastNumber
<1>2. n \in Nat /\ ~IsFiniteSet(U(n)) /\ IsFiniteSet([1..n -> Names])
  BY PathsOfLength
<1>3. CASE n = 0
  <2>1. U(n) = [1..n -> Names]
    BY <1>3
  <2>. QED
    BY <1>2, <2>1
<1>4. CASE n # 0
  <2>0. n - 1 \in Nat /\ ~(n <= n - 1)
    BY <1>2, <1>4
  <2>1. n - 1 \in Nat /\ IsFiniteSet(U(n - 1))
    <3>1. n - 1 \notin Bad
      BY <1>1, <2>0
    <3>. QED
      BY <2>0, <3>1, Zenon
  <2>2. 0..n = 0..(n - 1) \cup {n}
    BY <1>2
  <2>3. U(n) = U(n - 1) \cup [1..n -> Names]
    BY <2>2
  <2> HIDE DEF U
  <2>. QED
    BY <1>2, <2>1, <2>3, FS_Union
<1>. QED
  BY <1>3, <1>4

LEMMA NodesCounted ==
  ASSUME NEW rows
  PROVE  /\ IsFiniteSet({p \in Paths : Shows(rows, p)})
         /\ NodeCount(rows) \in Nat
<1> DEFINE S == {p \in Paths : Shows(rows, p)}
<1>1. S \in SUBSET Paths
  OBVIOUS
<1> HIDE DEF S
<1>2. IsFiniteSet(S) /\ Cardinality(S) \in Nat
  BY <1>1, FinitePaths, FS_Subset, FS_CardinalityType
<1>. QED
  BY <1>2 DEF NodeCount, S

-----------------------------------------------------------------------------
(* What an operation makes of the rows are rows.                           *)

LEMMA RowIs ==
  \A row : row \in Row <=>
    \/ \E c \in Contents, m \in AllModes : row = [type |-> "file", data |-> c, mode |-> m]
    \/ \E m \in AllModes : row = [type |-> "directory", data |-> <<>>, mode |-> m]
    \/ \E t \in Paths, m \in AllModes : row = [type |-> "symlink", data |-> t, mode |-> m]
    \/ row = Tombstone
<1>1. \A t, m : [Symlink(t) EXCEPT !.mode = m] = [type |-> "symlink", data |-> t, mode |-> m]
  BY DEF Symlink
<1>2. \A c, m : File(c, m) = [type |-> "file", data |-> c, mode |-> m]
                /\ Directory(m) = [type |-> "directory", data |-> <<>>, mode |-> m]
  BY DEF File, Directory
<1>3. \A row : row \in Row <=>
        \/ \E c \in Contents, m \in AllModes : row = File(c, m)
        \/ \E m \in AllModes : row = Directory(m)
        \/ \E t \in Paths, m \in AllModes : row = [Symlink(t) EXCEPT !.mode = m]
        \/ row = Tombstone
  BY DEF Row
<1>4. \A row :
        /\ (\E c \in Contents, m \in AllModes : row = File(c, m)) <=>
             \E c \in Contents, m \in AllModes : row = [type |-> "file", data |-> c, mode |-> m]
        /\ (\E m \in AllModes : row = Directory(m)) <=>
             \E m \in AllModes : row = [type |-> "directory", data |-> <<>>, mode |-> m]
  BY <1>2
<1> DEFINE Relinked(t, m) == [Symlink(t) EXCEPT !.mode = m]
<1>5. \A row : (\E t \in Paths, m \in AllModes : row = Relinked(t, m)) <=>
        \E t \in Paths, m \in AllModes : row = [type |-> "symlink", data |-> t, mode |-> m]
  <2>1. \A t, m : Relinked(t, m) = [type |-> "symlink", data |-> t, mode |-> m]
    BY <1>1
  <2> HIDE DEF Relinked
  <2>. QED
    BY <2>1
<1>. QED
  BY <1>3, <1>4, <1>5

LEMMA KindsOfLinks ==
  /\ \A t \in Paths : Symlink(t) \in Row \ {Tombstone} /\ Symlink(t).type = "symlink" /\ Symlink(t).data = t
  /\ \A row \in Row : /\ row.type = "symlink" => row.data \in Paths
                      /\ row.type = "directory" => row.data = <<>>
                      /\ row # Tombstone => row.type \in {"file", "directory", "symlink"}
  /\ \A row \in Row \ {Tombstone} : \A m \in AllModes :
       /\ WithMode(row, m) \in Row \ {Tombstone}
       /\ WithMode(row, m).type = row.type /\ WithMode(row, m).data = row.data
<1>1. Tombstone = [type |-> "tombstone", data |-> <<>>, mode |-> "0"] /\ "0777" \in AllModes
  BY KindsOfRows DEF Tombstone
<1>2. ASSUME NEW t \in Paths
      PROVE  Symlink(t) \in Row \ {Tombstone} /\ Symlink(t).type = "symlink" /\ Symlink(t).data = t
  <2>1. Symlink(t) = [type |-> "symlink", data |-> t, mode |-> "0777"]
    BY DEF Symlink
  <2>2. Symlink(t) \in Row
    BY <1>1, <2>1, RowIs
  <2>. QED
    BY <1>1, <2>1, <2>2
<1>3. ASSUME NEW row \in Row, row # Tombstone
      PROVE  /\ row.type = "symlink" => row.data \in Paths
             /\ row.type = "directory" => row.data = <<>>
             /\ row.type \in {"file", "directory", "symlink"}
             /\ \A m \in AllModes :
                  /\ WithMode(row, m) \in Row \ {Tombstone}
                  /\ WithMode(row, m).type = row.type /\ WithMode(row, m).data = row.data
  <2>0. \A m : WithMode(row, m) = [type |-> row.type, data |-> row.data, mode |-> m]
    BY DEF WithMode
  <2>1. CASE \E c \in Contents, m \in AllModes : row = [type |-> "file", data |-> c, mode |-> m]
    <3>1. PICK c \in Contents : row.type = "file" /\ row.data = c
      BY <2>1
    <3>2. \A m \in AllModes : WithMode(row, m) \in Row
      BY <2>0, <3>1, RowIs
    <3>. QED
      BY <1>1, <2>0, <3>1, <3>2
  <2>2. CASE \E m \in AllModes : row = [type |-> "directory", data |-> <<>>, mode |-> m]
    <3>1. row.type = "directory" /\ row.data = <<>>
      BY <2>2
    <3>2. \A m \in AllModes : WithMode(row, m) \in Row
      BY <2>0, <3>1, RowIs
    <3>. QED
      BY <1>1, <2>0, <3>1, <3>2
  <2>3. CASE \E t \in Paths, m \in AllModes : row = [type |-> "symlink", data |-> t, mode |-> m]
    <3>1. PICK t \in Paths : row.type = "symlink" /\ row.data = t
      BY <2>3
    <3>2. \A m \in AllModes : WithMode(row, m) \in Row
      BY <2>0, <3>1, RowIs
    <3>. QED
      BY <1>1, <2>0, <3>1, <3>2
  <2>. QED
    BY <1>3, <2>1, <2>2, <2>3, RowIs
<1>4. Tombstone.type = "tombstone"
  BY <1>1
<1>. QED
  BY <1>2, <1>3, <1>4

LEMMA StatementsTyped ==
  ASSUME NEW rows \in RowMaps
  PROVE  /\ \A p \in Paths, row \in Row : Upserted(rows, p, row) \in RowMaps
         /\ \A p \in Paths : /\ WithDirectories(rows, p) \in RowMaps
                             /\ TombstonedSubtree(rows, p) \in RowMaps
         /\ \A src, dest \in Paths : \A includeRoot :
              CopiedSubtree(rows, src, dest, includeRoot) \in RowMaps
         /\ \A result : (\A p \in DOMAIN result.writes : result.writes[p] \in Row) =>
              Merged(rows, result) \in RowMaps
<1>1. Directory("0755") \in Row /\ Tombstone \in Row
  BY KindsOfRows
<1>2. \A p \in Paths : Entry(rows, p) \in Row \cup {Absent}
  BY EntryIsRow
<1>3. \A p \in Paths, row \in Row : Upserted(rows, p, row) \in RowMaps
  BY PutOne
<1>4. \A p \in Paths : WithDirectories(rows, p) \in RowMaps /\ TombstonedSubtree(rows, p) \in RowMaps
  BY <1>1 DEF WithDirectories, TombstonedSubtree, RowMaps
<1>5. ASSUME NEW src \in Paths, NEW dest \in Paths, NEW includeRoot
      PROVE  CopiedSubtree(rows, src, dest, includeRoot) \in RowMaps
  <2>1. \A q \in Paths : (LET from == Image(q, dest, src)
                          IN IF /\ q \in Under(dest) /\ from \in Paths /\ Shows(rows, from)
                                /\ includeRoot \/ from # src
                             THEN Entry(rows, from) ELSE rows[q]) \in Row \cup {Absent}
    BY <1>2 DEF RowMaps
  <2>. QED
    BY <2>1 DEF CopiedSubtree, RowMaps
<1>6. ASSUME NEW result, \A p \in DOMAIN result.writes : result.writes[p] \in Row
      PROVE  Merged(rows, result) \in RowMaps
  BY <1>6 DEF Merged, RowMaps
<1>. QED
  BY <1>3, <1>4, <1>5, <1>6

-----------------------------------------------------------------------------
(* Where links lead.                                                       *)

\* The rows links lead to, at most n of them.
Onward(g, rows, hidden, n) ==
  [q \in Paths |->
     IF ~Visible(rows, hidden, q) THEN Failed("ENOENT")
     ELSE IF ~IsLink(rows, q) THEN Found(q)
     ELSE IF n = 0 THEN Failed("ELOOP")
     ELSE IF hidden.mounts /\ Entry(rows, q).data \in hidden.paths THEN Failed("EACCES")
     ELSE g[n - 1][Entry(rows, q).data]]
LeadsTo(g, rows, hidden, n) == g = [k \in 0..n |-> Onward(g, rows, hidden, k)]
Reaches(rows, hidden) == CHOOSE g : LeadsTo(g, rows, hidden, MaxLinks)

LEMMA FollowedIs ==
  \A rows, hidden, p : Followed(rows, hidden, p) = Reaches(rows, hidden)[MaxLinks][p]
BY DEF Followed, Reaches, LeadsTo, Onward

LEMMA ReachesExists ==
  ASSUME NEW rows, NEW hidden, NEW n \in Nat
  PROVE  \E g : LeadsTo(g, rows, hidden, n)
<1> DEFINE B == {i \in Nat : ~ \E g : LeadsTo(g, rows, hidden, i)}
<1> SUFFICES ASSUME B # {} PROVE FALSE
  OBVIOUS
<1>1. PICK m \in B : \A i \in B : m <= i
  <2>1. B \subseteq Nat
    OBVIOUS
  <2> HIDE DEF B
  <2>. QED
    BY <2>1, LeastNumber
<1>2. m \in Nat /\ ~ \E g : LeadsTo(g, rows, hidden, m)
  OBVIOUS
<1>3. ASSUME NEW f, NEW g, NEW k \in Nat, k > 0 => f[k - 1] = g[k - 1]
      PROVE  Onward(f, rows, hidden, k) = Onward(g, rows, hidden, k)
  BY <1>3 DEF Onward
<1>4. ASSUME NEW f, \A k \in 0..(m - 1) : f[k] = Onward(f, rows, hidden, k) PROVE FALSE
  <2> DEFINE g == [k \in 0..m |-> IF k < m THEN f[k] ELSE Onward(f, rows, hidden, k)]
  <2>1. \A k \in 0..(m - 1) : g[k] = f[k]
    BY <1>2
  <2>2. g[m] = Onward(f, rows, hidden, m) /\ g = [k \in 0..m |-> g[k]]
    BY <1>2
  <2> HIDE DEF g
  <2>3. ASSUME NEW k \in 0..m
        PROVE  g[k] = Onward(g, rows, hidden, k)
    <3>1. k \in Nat /\ (k > 0 => k - 1 \in 0..(m - 1)) /\ (k # m => k \in 0..(m - 1))
      BY <1>2
    <3>2. Onward(f, rows, hidden, k) = Onward(g, rows, hidden, k)
      BY <1>3, <2>1, <3>1
    <3>3. g[k] = Onward(f, rows, hidden, k)
      BY <1>4, <2>1, <2>2, <3>1
    <3>. QED
      BY <3>2, <3>3
  <2>. QED
    BY <1>2, <2>2, <2>3 DEF LeadsTo
<1>5. CASE m = 0
  <2>1. 0..(m - 1) = {}
    BY <1>5
  <2>. QED
    BY <1>4, <2>1
<1>6. CASE m # 0
  <2>0. m - 1 \in Nat /\ ~(m <= m - 1)
    BY <1>2, <1>6
  <2>1. m - 1 \notin B
    BY <1>1, <2>0
  <2>2. PICK f : LeadsTo(f, rows, hidden, m - 1)
    BY <2>0, <2>1, Zenon
  <2>3. \A k \in 0..(m - 1) : f[k] = Onward(f, rows, hidden, k)
    BY <2>2 DEF LeadsTo
  <2>. QED
    BY <1>4, <2>3
<1>. QED
  BY <1>5, <1>6

LEMMA ReachedAt ==
  ASSUME NEW rows, NEW hidden, NEW n \in 0..MaxLinks
  PROVE  Reaches(rows, hidden)[n] = Onward(Reaches(rows, hidden), rows, hidden, n)
<1>1. LeadsTo(Reaches(rows, hidden), rows, hidden, MaxLinks)
  BY ReachesExists, LinksAssumption DEF Reaches
<1>. QED
  BY <1>1 DEF LeadsTo

\* Links lead to something else that is there, or fail.
LEMMA FollowedLeads ==
  ASSUME NEW rows \in RowMaps, NEW hidden, NEW p \in Paths
  PROVE  LET real == Followed(rows, hidden, p)
         IN \/ real \in {Failed("ENOENT"), Failed("ELOOP"), Failed("EACCES")}
            \/ \E q \in Paths : real = Found(q) /\ Visible(rows, hidden, q) /\ ~IsLink(rows, q)
<1> DEFINE Leads(n) == \A q \in Paths :
             LET real == Reaches(rows, hidden)[n][q]
             IN \/ real \in {Failed("ENOENT"), Failed("ELOOP"), Failed("EACCES")}
                \/ \E r \in Paths : real = Found(r) /\ Visible(rows, hidden, r) /\ ~IsLink(rows, r)
           B == {i \in 0..MaxLinks : ~Leads(i)}
<1> SUFFICES ASSUME B # {} PROVE FALSE
  BY FollowedIs, LinksAssumption
<1>1. PICK m \in B : \A i \in B : m <= i
  <2>1. B \subseteq Nat
    OBVIOUS
  <2> HIDE DEF B
  <2>. QED
    BY <2>1, LeastNumber
<1>2. m \in 0..MaxLinks /\ m \in Nat /\ ~Leads(m)
  BY LinksAssumption
<1>3. m # 0 => m - 1 \in 0..MaxLinks /\ ~(m <= m - 1)
  BY <1>2, LinksAssumption
<1>4. m # 0 => Leads(m - 1)
  BY <1>1, <1>3
<1>5. PICK q \in Paths :
        LET real == Reaches(rows, hidden)[m][q]
        IN /\ real \notin {Failed("ENOENT"), Failed("ELOOP"), Failed("EACCES")}
           /\ ~ \E r \in Paths : real = Found(r) /\ Visible(rows, hidden, r) /\ ~IsLink(rows, r)
  BY <1>2
<1> HIDE DEF Leads, B
<1>6. Reaches(rows, hidden)[m][q] =
        IF ~Visible(rows, hidden, q) THEN Failed("ENOENT")
        ELSE IF ~IsLink(rows, q) THEN Found(q)
        ELSE IF m = 0 THEN Failed("ELOOP")
        ELSE IF hidden.mounts /\ Entry(rows, q).data \in hidden.paths THEN Failed("EACCES")
        ELSE Reaches(rows, hidden)[m - 1][Entry(rows, q).data]
  <2>1. Reaches(rows, hidden)[m] = Onward(Reaches(rows, hidden), rows, hidden, m)
    BY <1>2, ReachedAt
  <2>2. \A g : Onward(g, rows, hidden, m)[q] =
          IF ~Visible(rows, hidden, q) THEN Failed("ENOENT")
          ELSE IF ~IsLink(rows, q) THEN Found(q)
          ELSE IF m = 0 THEN Failed("ELOOP")
          ELSE IF hidden.mounts /\ Entry(rows, q).data \in hidden.paths THEN Failed("EACCES")
          ELSE g[m - 1][Entry(rows, q).data]
    BY DEF Onward
  <2>. QED
    BY <2>1, <2>2
<1>7. Visible(rows, hidden, q) /\ IsLink(rows, q) => Entry(rows, q).data \in Paths
  BY EntryIsRow, KindsOfLinks DEF Visible, Shows, IsLink
<1>. QED
  BY <1>4, <1>5, <1>6, <1>7 DEF Leads

\* What a merge, a cherry-pick and a revert write are rows.
LEMMA MergeTyped ==
  ASSUME NEW rows \in RowMaps, NEW source \in Sources, NEW strategy, NEW selection,
         NEW result, result = MergeFrom(rows, source, strategy, selection)
  PROVE  Merged(rows, result) \in RowMaps
<1> DEFINE ours == Ours(rows, selection)
           theirs == Theirs(source, selection)
           parents == Parents(rows, source, selection)
           taken == Taken(rows, source, strategy, selection)
<1>1. \/ result.writes = NoWrites
      \/ /\ result.writes = WritesOf(ours, theirs, taken, parents)
         /\ ~RefusesOf(ours, theirs, taken, parents)
  BY MergeWrites
<1>2. \A p \in Paths : theirs[p] \in Row \cup {Absent} /\ parents[p] \in Row \cup {Absent}
  <2>1. source.view \in [Paths -> Row \cup {Absent}] /\ source.base \in [Paths -> Row \cup {Absent}]
    BY SourcesAssumption DEF ViewRow
  <2>2. \A p \in Paths : Entry(rows, p) \in Row \cup {Absent}
    BY EntryIsRow
  <2>. QED
    BY <2>1, <2>2, FetchedViews
<1>3. taken \subseteq Paths
  BY TakenIs
<1> HIDE DEF ours, theirs, parents, taken
<1>4. \A p \in DOMAIN result.writes : result.writes[p] \in Row
  <2>1. CASE result.writes = NoWrites
    BY <2>1, NoWritesIs
  <2>2. CASE result.writes # NoWrites
    BY <1>1, <1>2, <1>3, <2>2, WritesAreRows
  <2>. QED
    BY <2>1, <2>2
<1>. QED
  BY <1>4, StatementsTyped

LEMMA SourceWinsTyped ==
  ASSUME NEW rows \in RowMaps, NEW source \in Sources, NEW filters, NEW scope,
         NEW result, result = SourceWins(View(rows), source.view, filters, scope, MaxFiles),
         result.status = "ok"
  PROVE  Merged(rows, result) \in RowMaps
<1> DEFINE ours == Fetched(View(rows), scope)
           theirs == Fetched(source.view, scope)
           parents == SourceParents(ours, theirs)
           candidates == Selected(filters, scope) \cap ShownIn({ours, theirs})
           taken == candidates \cap Disagree(ours, theirs)
<1>1. result = Apply(ours, Plan(theirs, taken), parents, Cardinality(ShownIn({View(rows)})),
                     MaxFiles, {}, candidates \ taken)
  BY DEF SourceWins
<1>2. taken \subseteq Paths
  BY DEF Disagree
<1>3. \A p \in Paths : theirs[p] \in Row \cup {Absent} /\ parents[p] \in Row \cup {Absent}
  <2>1. source.view \in [Paths -> Row \cup {Absent}]
    BY SourcesAssumption DEF ViewRow
  <2>2. \A p \in Paths : View(rows)[p] \in Row \cup {Absent}
    BY EntryIsRow DEF View
  <2>3. \A p \in Paths : theirs[p] \in Row \cup {Absent} /\ ours[p] \in Row \cup {Absent}
    BY <2>1, <2>2 DEF Fetched
  <2> HIDE DEF ours, theirs
  <2>. QED
    BY <2>3 DEF SourceParents
<1> HIDE DEF ours, theirs, parents, candidates, taken
<1>4. result = Refusal
      \/ /\ result = Result("ok", WritesOf(ours, theirs, taken, parents), {}, candidates \ taken)
         /\ ~RefusesOf(ours, theirs, taken, parents)
  BY <1>1 DEF Apply, PostOf, WritesOf, RefusesOf
<1>5. \A s, w, c, k : Result(s, w, c, k).status = s /\ Result(s, w, c, k).writes = w
  BY DEF Result
<1>6. result # Refusal
  BY <1>5 DEF Refusal
<1>7. /\ result.writes = WritesOf(ours, theirs, taken, parents)
      /\ ~RefusesOf(ours, theirs, taken, parents)
  BY <1>4, <1>5, <1>6
<1>8. \A p \in DOMAIN result.writes : result.writes[p] \in Row
  BY <1>2, <1>3, <1>7, WritesAreRows
<1>. QED
  BY <1>8, StatementsTyped

-----------------------------------------------------------------------------
(* The counted statements.                                                 *)

Counts == Nat \cup {NoCount}

LEMMA OutcomeIs ==
  \A status, rows, count : /\ Outcome(status, rows, count).status = status
                           /\ Outcome(status, rows, count).own = rows
                           /\ Outcome(status, rows, count).count = count
BY DEF Outcome

\* The count the instance goes by.
Trusted(rows, count) == IF HasHeadroom(count) THEN count ELSE NodeCount(rows)

LEMMA CountIs ==
  ASSUME NEW rows, NEW count \in Counts
  PROVE  /\ Counted(rows, count) \in Nat \ {0}
         /\ Counted(rows, count) = Trusted(rows, count) + 1
         /\ Decremented(Counted(rows, count)) = Trusted(rows, count)
         /\ Trusted(rows, count) \in Nat
<1>1. NodeCount(rows) \in Nat /\ (HasHeadroom(count) => count \in Nat)
  BY NodesCounted DEF HasHeadroom, Counts
<1>2. Counted(rows, count) = Trusted(rows, count) + 1
  BY DEF Counted, Trusted
<1>3. Trusted(rows, count) \in Nat
  BY <1>1 DEF Trusted
<1>. QED
  BY <1>2, <1>3 DEF Decremented

\* One attempt of a write.
LEMMA AttemptIs ==
  ASSUME NEW rows, NEW count \in Counts, NEW p, NEW content,
         NEW first, first = AttemptWrite(rows, count, p, content)
  PROVE  /\ first.count \in Nat
         /\ first.status # "ok" => first.own = rows
         /\ first.status = "ok" => /\ WriteStatus(rows, p) = "ok" /\ ValidNodeCount(rows, count)
                                   /\ first.own = Upserted(rows, p, File(content, "0644"))
         /\ first.status = "enoent" =>
              /\ WriteStatus(rows, p) = "enoent"
              /\ first.count = Trusted(rows, count)
<1> DEFINE counted == Counted(rows, count)
           status == WriteStatus(rows, p)
<1>1. counted \in Nat /\ Decremented(counted) \in Nat
      /\ Decremented(counted) = Trusted(rows, count)
  BY CountIs
<1>2. first = IF ~ValidNodeCount(rows, count) THEN Outcome("limit", rows, counted)
              ELSE IF status # "ok" THEN Outcome(status, rows, Decremented(counted))
              ELSE Outcome("ok", Upserted(rows, p, File(content, "0644")),
                           IF rows[p] = Absent THEN counted ELSE Decremented(counted))
  BY DEF AttemptWrite
<1> HIDE DEF counted, status
<1>3. CASE ~ValidNodeCount(rows, count)
  BY <1>1, <1>2, <1>3, OutcomeIs
<1>4. CASE ValidNodeCount(rows, count) /\ status # "ok"
  <2>1. first.status = status /\ first.own = rows /\ first.count = Decremented(counted)
    BY <1>2, <1>4, OutcomeIs
  <2>. QED
    BY <1>1, <1>4, <2>1 DEF status
<1>5. CASE ValidNodeCount(rows, count) /\ status = "ok"
  <2>1. first.count \in {counted, Decremented(counted)} /\ first.status = "ok"
        /\ first.own = Upserted(rows, p, File(content, "0644"))
    BY <1>2, <1>5, OutcomeIs
  <2>. QED
    BY <1>1, <1>5, <2>1 DEF status
<1>. QED
  BY <1>3, <1>4, <1>5

\* A write changes the row at its path alone, or does so on top of the
\* directories it made for it when the parent was missing.
WritesAtOnce(rows, count, p, content, after) ==
  /\ WriteStatus(rows, p) = "ok" /\ ValidNodeCount(rows, count)
  /\ after = Upserted(rows, p, File(content, "0644"))
WritesBelow(rows, count, p, content, after) ==
  LET made == WithDirectories(rows, Parent(p))
  IN /\ WriteStatus(rows, p) = "enoent" /\ Parent(p) # Root
     /\ WriteStatus(made, p) = "ok" /\ MkdirPossible(rows, Parent(p))
     /\ ValidNodeCount(made, Trusted(rows, count))
     /\ after = Upserted(made, p, File(content, "0644"))

LEMMA WriteIs ==
  ASSUME NEW rows, NEW count \in Counts, NEW p, NEW content,
         NEW outcome, outcome = WriteOutcome(rows, count, p, content)
  PROVE  /\ outcome.count \in Nat
         /\ outcome.status = "ok" => \/ WritesAtOnce(rows, count, p, content, outcome.own)
                                     \/ WritesBelow(rows, count, p, content, outcome.own)
<1> DEFINE first == AttemptWrite(rows, count, p, content)
           trusted == Trusted(rows, count)
           made == WithDirectories(rows, Parent(p))
           second == AttemptWrite(made, first.count, p, content)
<1>1. /\ first.count \in Nat
      /\ first.status = "ok" => /\ WriteStatus(rows, p) = "ok" /\ ValidNodeCount(rows, count)
                                /\ first.own = Upserted(rows, p, File(content, "0644"))
      /\ first.status = "enoent" => WriteStatus(rows, p) = "enoent" /\ first.count = trusted
  BY AttemptIs
<1>2. /\ second.count \in Nat
      /\ second.status = "ok" => /\ WriteStatus(made, p) = "ok" /\ ValidNodeCount(made, first.count)
                                 /\ second.own = Upserted(made, p, File(content, "0644"))
  BY <1>1, AttemptIs DEF Counts
<1>3. outcome = IF first.status # "enoent" \/ Parent(p) = Root THEN first
                ELSE IF ~MkdirPossible(rows, Parent(p)) THEN Outcome("enotdir", rows, first.count)
                ELSE second
  BY DEF WriteOutcome
<1> HIDE DEF first, trusted, second, made
<1>4. CASE first.status # "enoent" \/ Parent(p) = Root
  <2>1. outcome = first
    BY <1>3, <1>4
  <2>. QED
    BY <1>1, <2>1 DEF WritesAtOnce
<1>5. CASE first.status = "enoent" /\ Parent(p) # Root /\ ~MkdirPossible(rows, Parent(p))
  BY <1>1, <1>3, <1>5, OutcomeIs
<1>6. CASE first.status = "enoent" /\ Parent(p) # Root /\ MkdirPossible(rows, Parent(p))
  <2>1. outcome = second /\ first.count = trusted
    BY <1>1, <1>3, <1>6
  <2>2. outcome.status = "ok" => WritesBelow(rows, count, p, content, outcome.own)
    BY <1>1, <1>2, <1>6, <2>1 DEF WritesBelow, trusted, made
  <2>. QED
    BY <1>2, <2>1, <2>2
<1>. QED
  BY <1>4, <1>5, <1>6

-----------------------------------------------------------------------------
(* cp, call by call.                                                       *)

Copies == [src : Paths, dest : Paths, own : RowMaps, count : Counts, nodes : Nat,
           todo : SUBSET Paths, status : {"ok", "limit", "refused"}]
Copying(rows, count, src, dest) ==
  [src |-> src, dest |-> dest, own |-> rows, count |-> count,
   nodes |-> 0, todo |-> {src}, status |-> "ok"]

\* The deepest of the entries to be copied.
Deepest(todo) == CHOOSE q \in todo : \A r \in todo : Len(r) <= Len(q)

LEMMA DeepestIs ==
  ASSUME NEW todo, todo \in SUBSET Paths, todo # {}
  PROVE  Deepest(todo) \in todo /\ \A r \in todo : Len(r) <= Len(Deepest(todo))
<1>1. \A p \in Paths : Len(p) \in Nat /\ Len(p) <= PathBound
  <2>1. ASSUME NEW p \in Paths PROVE Len(p) \in Nat /\ Len(p) <= PathBound
    <3>1. PICK n \in 0..PathBound : p \in [1..n -> Names]
      BY DEF Paths
    <3>2. Len(p) = n /\ n \in Nat /\ n <= PathBound
      BY <3>1, PathBoundAssumption
    <3>. QED
      BY <3>2
  <2>. QED
    BY <2>1
<1> DEFINE S == {PathBound - Len(p) : p \in todo}
<1>2. S \subseteq Nat /\ S # {}
  BY <1>1, PathBoundAssumption
<1>3. PICK n \in S : \A m \in S : n <= m
  <2> HIDE DEF S
  <2>. QED
    BY <1>2, LeastNumber
<1>4. PICK p \in todo : n = PathBound - Len(p)
  OBVIOUS
<1>5. \A r \in todo : Len(r) <= Len(p)
  <2>1. \A r \in todo : n <= PathBound - Len(r)
    BY <1>3
  <2>. QED
    BY <1>1, <1>4, <2>1, PathBoundAssumption
<1>. QED
  BY <1>5 DEF Deepest

LEMMA CopyTreeIs ==
  ASSUME NEW cp \in Copies, NEW from \in Paths, NEW to \in Paths, NEW rows \in RowMaps,
         NEW includeRoot, cp.status = "ok",
         NEW out, out = CopyTree(cp, from, to, rows, includeRoot)
  PROVE  /\ out \in Copies /\ out.src = cp.src /\ out.dest = cp.dest /\ out.nodes = cp.nodes
         /\ out.todo = cp.todo /\ out.status \in {"ok", "limit"}
         /\ out.status = "ok" => out.own = CopiedSubtree(rows, from, to, includeRoot)
<1> DEFINE copied == CopiedSubtree(rows, from, to, includeRoot)
<1>1. copied \in RowMaps
  BY StatementsTyped
<1> HIDE DEF copied
<1>2. \/ out = [cp EXCEPT !.own = copied, !.status = "ok"]
      \/ out = [cp EXCEPT !.own = rows, !.status = "limit"]
  BY DEF CopyTree, copied
<1>3. CASE out = [cp EXCEPT !.own = copied, !.status = "ok"]
  BY <1>1, <1>3 DEF Copies, copied
<1>4. CASE out = [cp EXCEPT !.own = rows, !.status = "limit"]
  BY <1>4 DEF Copies
<1>. QED
  BY <1>2, <1>3, <1>4

LEMMA CopyFileIs ==
  ASSUME NEW cp \in Copies, NEW from \in Paths, NEW to \in Paths, cp.status = "ok",
         Shows(cp.own, from),
         NEW out, out = CopyFile(cp, from, to)
  PROVE  /\ out \in Copies /\ out.src = cp.src /\ out.dest = cp.dest /\ out.nodes = cp.nodes
         /\ out.todo = cp.todo /\ out.status \in {"ok", "limit"}
         /\ out.status = "ok" => out.own = Upserted(cp.own, to, Entry(cp.own, from))
<1> DEFINE put == Upserted(cp.own, to, Entry(cp.own, from))
           count == IF Shows(cp.own, to) THEN cp.count ELSE Counted(cp.own, cp.count)
<1>1. put \in RowMaps /\ cp.own \in RowMaps
  BY EntryIsRow, StatementsTyped DEF Shows, Copies
<1>2. count \in Counts
  BY CountIs DEF Copies, Counts
<1> HIDE DEF put, count
<1>3. \/ out = [cp EXCEPT !.own = put, !.count = count, !.status = "ok"]
      \/ out = [cp EXCEPT !.own = cp.own, !.count = count, !.status = "limit"]
  BY DEF CopyFile, put, count
<1>4. CASE out = [cp EXCEPT !.own = put, !.count = count, !.status = "ok"]
  BY <1>1, <1>2, <1>4 DEF Copies, put
<1>5. CASE out = [cp EXCEPT !.own = cp.own, !.count = count, !.status = "limit"]
  BY <1>1, <1>2, <1>5 DEF Copies
<1>. QED
  BY <1>3, <1>4, <1>5

\* What a call that does not fail does.
CopiesEmpty(rows, from, to, after) ==
  /\ ShowsDirectory(rows, from) /\ ShowsDirectory(rows, to) /\ Children(rows, to) = {}
  /\ after = CopiedSubtree(rows, from, to, FALSE)
CopiesNew(rows, from, to, after) ==
  /\ ShowsDirectory(rows, from) /\ MkdirPossible(rows, to) /\ ~Shows(rows, to)
  /\ after = CopiedSubtree(WithDirectories(rows, to), from, to, TRUE)
CopiesInto(rows, from, to, after) ==
  /\ ShowsDirectory(rows, from) /\ MkdirPossible(rows, to) /\ Shows(rows, to)
  /\ after = WithDirectories(rows, to)
CopiesLink(rows, from, to, after) ==
  /\ ShowsOther(rows, from) /\ Entry(rows, from).type = "symlink"
  /\ after = Upserted(rows, to, Symlink(Entry(rows, from).data))
CopiesFile(rows, from, to, after) ==
  /\ ShowsOther(rows, from) /\ Entry(rows, from).type # "symlink"
  /\ ShowsDirectory(rows, Parent(to)) /\ ~ShowsDirectory(rows, to)
  /\ after = Upserted(rows, to, Entry(rows, from))

LEMMA CopyOneIs ==
  ASSUME NEW cp \in Copies, cp.status = "ok", cp.todo # {},
         NEW out, out = CopyOne(cp),
         NEW from, from = Deepest(cp.todo),
         NEW to, to = Image(from, cp.src, cp.dest)
  PROVE  /\ out \in Copies /\ out.src = cp.src /\ out.dest = cp.dest
         /\ from \in cp.todo /\ from \in Paths /\ \A r \in cp.todo : Len(r) <= Len(from)
         /\ out.status = "ok" =>
              /\ to \in Paths /\ ~Inside(from, to) /\ Shows(cp.own, from)
              /\ out.nodes = cp.nodes + 1 /\ out.nodes <= MaxCpNodes
              /\ \/ /\ CopiesInto(cp.own, from, to, out.own)
                    /\ out.todo = (cp.todo \ {from}) \cup Children(out.own, from)
                 \/ /\ \/ CopiesEmpty(cp.own, from, to, out.own)
                       \/ CopiesNew(cp.own, from, to, out.own)
                       \/ CopiesLink(cp.own, from, to, out.own)
                       \/ CopiesFile(cp.own, from, to, out.own)
                    /\ out.todo = cp.todo \ {from}
<1> DEFINE rows == cp.own
           made == WithDirectories(rows, to)
           next == [cp EXCEPT !.nodes = cp.nodes + 1, !.todo = cp.todo \ {from}]
           refused == [cp EXCEPT !.status = "refused"]
           linked == Upserted(rows, to, Symlink(Entry(rows, from).data))
           into == [next EXCEPT !.own = made, !.todo = next.todo \cup Children(made, from)]
           link == [next EXCEPT !.own = linked]
<1>1. from \in cp.todo /\ from \in Paths /\ \A r \in cp.todo : Len(r) <= Len(from)
  BY DeepestIs DEF Copies
<1>2. rows \in RowMaps
  BY DEF Copies
<1>3. /\ next \in Copies /\ next.src = cp.src /\ next.dest = cp.dest /\ next.own = rows
      /\ next.status = "ok" /\ next.nodes = cp.nodes + 1 /\ next.todo = cp.todo \ {from}
  <2> DEFINE n == cp.nodes + 1
             t == cp.todo \ {from}
  <2>1. n \in Nat /\ t \in SUBSET Paths
    BY DEF Copies
  <2>2. next = [cp EXCEPT !.nodes = n, !.todo = t]
    OBVIOUS
  <2> HIDE DEF n, t, next
  <2>3. /\ next \in Copies /\ next.src = cp.src /\ next.dest = cp.dest /\ next.own = cp.own
        /\ next.status = "ok" /\ next.nodes = n /\ next.todo = t
    BY <2>1, <2>2 DEF Copies
  <2>. QED
    BY <2>3 DEF n, t
<1>4. refused \in Copies /\ refused.src = cp.src /\ refused.dest = cp.dest /\ refused.status = "refused"
  BY DEF Copies
<1> DEFINE stops == \/ to \notin Paths \/ Inside(from, to)
                    \/ ~Shows(rows, from) \/ next.nodes > MaxCpNodes
           goes == /\ to \in Paths /\ ~Inside(from, to) /\ Shows(rows, from)
                   /\ next.nodes <= MaxCpNodes
<1>5. out = IF stops THEN refused
            ELSE IF ShowsDirectory(rows, from) THEN
              IF ShowsDirectory(rows, to) /\ Children(rows, to) = {}
              THEN CopyTree(next, from, to, rows, FALSE)
              ELSE IF ~MkdirPossible(rows, to) THEN refused
              ELSE IF ~Shows(rows, to) THEN CopyTree(next, from, to, made, TRUE)
              ELSE into
            ELSE IF Entry(rows, from).type = "symlink" THEN link
            ELSE IF ~ShowsDirectory(rows, Parent(to)) \/ ShowsDirectory(rows, to) THEN refused
            ELSE CopyFile(next, from, to)
  BY DEF CopyOne, Deepest
<1>6. ASSUME to \in Paths PROVE made \in RowMaps
  BY <1>2, <1>6, StatementsTyped
<1>7. ASSUME to \in Paths, Shows(rows, from), Entry(rows, from).type = "symlink"
      PROVE  linked \in RowMaps
  <2>1. Entry(rows, from) \in Row /\ Entry(rows, from).data \in Paths
    BY <1>1, <1>2, <1>7, EntryIsRow, KindsOfLinks DEF Shows
  <2>. QED
    BY <1>2, <1>7, <2>1, KindsOfLinks, StatementsTyped
<1>8. Children(made, from) \subseteq Paths
  BY DEF Children, Under
<1>9. stops <=> ~goes
  BY <1>3, LimitsAssumption DEF Copies
<1> HIDE DEF rows, made, next, refused, linked, stops
<1>10. ASSUME made \in RowMaps
       PROVE  /\ into \in Copies /\ into.src = cp.src /\ into.dest = cp.dest /\ into.status = "ok"
              /\ into.own = made /\ into.todo = (cp.todo \ {from}) \cup Children(made, from)
              /\ into.nodes = cp.nodes + 1
  BY <1>3, <1>8, <1>10 DEF Copies
<1>11. ASSUME linked \in RowMaps
       PROVE  /\ link \in Copies /\ link.src = cp.src /\ link.dest = cp.dest /\ link.status = "ok"
              /\ link.own = linked /\ link.todo = cp.todo \ {from} /\ link.nodes = cp.nodes + 1
  BY <1>3, <1>11 DEF Copies
<1> HIDE DEF into, link
<1>12. CASE out = refused
  BY <1>1, <1>4, <1>12
<1>13. CASE goes /\ ShowsDirectory(rows, from) /\ ShowsDirectory(rows, to) /\ Children(rows, to) = {}
  <2>1. out = CopyTree(next, from, to, rows, FALSE)
    BY <1>5, <1>9, <1>13
  <2>2. /\ out \in Copies /\ out.src = cp.src /\ out.dest = cp.dest /\ out.nodes = cp.nodes + 1
        /\ out.todo = cp.todo \ {from}
        /\ out.status = "ok" => out.own = CopiedSubtree(rows, from, to, FALSE)
    <3>1. rows \in RowMaps /\ to \in Paths
      BY <1>1, <1>2, <1>3, <1>13 DEF goes
    <3>2. \A includeRoot :
            LET copy == CopyTree(next, from, to, rows, includeRoot)
            IN /\ copy \in Copies /\ copy.src = next.src /\ copy.dest = next.dest
               /\ copy.nodes = next.nodes /\ copy.todo = next.todo
               /\ copy.status = "ok" => copy.own = CopiedSubtree(rows, from, to, includeRoot)
      BY <1>1, <1>3, <3>1, CopyTreeIs
    <3>3. /\ out \in Copies /\ out.src = next.src /\ out.dest = next.dest
          /\ out.nodes = next.nodes /\ out.todo = next.todo
          /\ out.status = "ok" => out.own = CopiedSubtree(rows, from, to, FALSE)
      BY <2>1, <3>2, Zenon
    <3>. QED
      BY <1>3, <3>3
  <2>. QED
    BY <1>1, <1>3, <1>13, <2>2 DEF CopiesEmpty, rows
<1>14. CASE /\ goes /\ ShowsDirectory(rows, from) /\ ~(ShowsDirectory(rows, to) /\ Children(rows, to) = {})
            /\ MkdirPossible(rows, to) /\ ~Shows(rows, to)
  <2>1. out = CopyTree(next, from, to, made, TRUE)
    BY <1>5, <1>9, <1>14
  <2>2. /\ out \in Copies /\ out.src = cp.src /\ out.dest = cp.dest /\ out.nodes = cp.nodes + 1
        /\ out.todo = cp.todo \ {from}
        /\ out.status = "ok" => out.own = CopiedSubtree(made, from, to, TRUE)
    <3>1. made \in RowMaps /\ to \in Paths
      BY <1>1, <1>3, <1>6, <1>14 DEF goes
    <3>2. \A includeRoot :
            LET copy == CopyTree(next, from, to, made, includeRoot)
            IN /\ copy \in Copies /\ copy.src = next.src /\ copy.dest = next.dest
               /\ copy.nodes = next.nodes /\ copy.todo = next.todo
               /\ copy.status = "ok" => copy.own = CopiedSubtree(made, from, to, includeRoot)
      BY <1>1, <1>3, <3>1, CopyTreeIs
    <3>3. /\ out \in Copies /\ out.src = next.src /\ out.dest = next.dest
          /\ out.nodes = next.nodes /\ out.todo = next.todo
          /\ out.status = "ok" => out.own = CopiedSubtree(made, from, to, TRUE)
      BY <2>1, <3>2, Zenon
    <3>. QED
      BY <1>3, <3>3
  <2>. QED
    BY <1>1, <1>3, <1>14, <2>2 DEF CopiesNew, rows, made
<1>15. CASE /\ goes /\ ShowsDirectory(rows, from) /\ ~(ShowsDirectory(rows, to) /\ Children(rows, to) = {})
            /\ MkdirPossible(rows, to) /\ Shows(rows, to)
  <2>1. out = into
    BY <1>5, <1>9, <1>15
  <2>2. made \in RowMaps
    BY <1>6, <1>15
  <2>. QED
    BY <1>1, <1>3, <1>10, <1>15, <2>1, <2>2 DEF CopiesInto, rows, made
<1>16. CASE goes /\ ~ShowsDirectory(rows, from) /\ Entry(rows, from).type = "symlink"
  <2>1. out = link
    BY <1>5, <1>9, <1>16
  <2>2. linked \in RowMaps
    BY <1>7, <1>16
  <2>. QED
    BY <1>1, <1>3, <1>11, <1>16, <2>1, <2>2 DEF CopiesLink, ShowsOther, ShowsDirectory, rows, linked
<1>17. CASE /\ goes /\ ~ShowsDirectory(rows, from) /\ Entry(rows, from).type # "symlink"
            /\ ShowsDirectory(rows, Parent(to)) /\ ~ShowsDirectory(rows, to)
  <2>1. out = CopyFile(next, from, to)
    BY <1>5, <1>9, <1>17
  <2>2. /\ out \in Copies /\ out.src = cp.src /\ out.dest = cp.dest /\ out.nodes = cp.nodes + 1
        /\ out.todo = cp.todo \ {from}
        /\ out.status = "ok" => out.own = Upserted(rows, to, Entry(rows, from))
    BY <1>1, <1>3, <1>17, <2>1, CopyFileIs
  <2>. QED
    BY <1>1, <1>3, <1>17, <2>2 DEF CopiesFile, ShowsOther, ShowsDirectory, rows
<1>18. \/ out = refused
       \/ /\ goes /\ ShowsDirectory(rows, from) /\ ShowsDirectory(rows, to) /\ Children(rows, to) = {}
       \/ /\ goes /\ ShowsDirectory(rows, from) /\ ~(ShowsDirectory(rows, to) /\ Children(rows, to) = {})
          /\ MkdirPossible(rows, to)
       \/ /\ goes /\ ~ShowsDirectory(rows, from) /\ Entry(rows, from).type = "symlink"
       \/ /\ goes /\ ~ShowsDirectory(rows, from) /\ Entry(rows, from).type # "symlink"
          /\ ShowsDirectory(rows, Parent(to)) /\ ~ShowsDirectory(rows, to)
  BY <1>5, <1>9
<1> HIDE DEF goes
<1>. QED
  BY <1>12, <1>13, <1>14, <1>15, <1>16, <1>17, <1>18

\* The calls one after the other.
CallsFrom(g, start, n) == g = [i \in 0..n |-> IF i = 0 THEN start ELSE CopyNext(g[i - 1])]

LEMMA CallsExist ==
  ASSUME NEW start, NEW n \in Nat
  PROVE  \E g : CallsFrom(g, start, n)
<1> DEFINE B == {i \in Nat : ~ \E g : CallsFrom(g, start, i)}
<1> SUFFICES ASSUME B # {} PROVE FALSE
  OBVIOUS
<1>1. PICK m \in B : \A i \in B : m <= i
  <2>1. B \subseteq Nat
    OBVIOUS
  <2> HIDE DEF B
  <2>. QED
    BY <2>1, LeastNumber
<1>2. m \in Nat /\ ~ \E g : CallsFrom(g, start, m)
  OBVIOUS
<1>3. CASE m = 0
  <2>1. CallsFrom([i \in 0..0 |-> start], start, 0)
    BY DEF CallsFrom
  <2>. QED
    BY <1>2, <1>3, <2>1
<1>4. CASE m # 0
  <2>1. m - 1 \in Nat /\ ~(m <= m - 1)
    BY <1>2, <1>4
  <2>2. m - 1 \notin B
    BY <1>1, <2>1
  <2>3. PICK f : CallsFrom(f, start, m - 1)
    BY <2>1, <2>2, Zenon
  <2>4. \A i \in 0..(m - 1) : f[i] = IF i = 0 THEN start ELSE CopyNext(f[i - 1])
    BY <2>3 DEF CallsFrom
  <2> DEFINE g == [i \in 0..m |-> IF i < m THEN f[i] ELSE CopyNext(f[m - 1])]
  <2>5. (\A i \in 0..(m - 1) : g[i] = f[i]) /\ g[m] = CopyNext(f[m - 1]) /\ g = [i \in 0..m |-> g[i]]
    BY <1>2
  <2> HIDE DEF g
  <2>6. ASSUME NEW i \in 0..m
        PROVE  g[i] = IF i = 0 THEN start ELSE CopyNext(g[i - 1])
    <3>1. /\ i # 0 => i - 1 \in 0..(m - 1)
          /\ i # m => i \in 0..(m - 1)
      BY <1>2
    <3>. QED
      BY <1>4, <2>4, <2>5, <3>1
  <2>. QED
    BY <1>2, <2>5, <2>6 DEF CallsFrom
<1>. QED
  BY <1>3, <1>4

\* What holds before the first call and that calls preserve holds after cp.
LEMMA CpInduction ==
  ASSUME NEW src, NEW dest, NEW S, Copying(own, cachedNodeCount, src, dest) \in S,
         \A cp \in S : cp.status = "ok" /\ cp.todo # {} => CopyOne(cp) \in S
  PROVE  CpOutcome(src, dest) \in S
<1> DEFINE start == Copying(own, cachedNodeCount, src, dest)
           calls == CHOOSE g : CallsFrom(g, start, MaxCpNodes + 1)
<1>1. MaxCpNodes + 1 \in Nat
  BY LimitsAssumption
<1>2. CallsFrom(calls, start, MaxCpNodes + 1)
  <2> HIDE DEF start
  <2>. QED
    BY <1>1, CallsExist
<1>3. CpOutcome(src, dest) = calls[MaxCpNodes + 1]
  BY DEF CpOutcome, CallsFrom, Copying
<1> HIDE DEF calls, start
<1>4. \A i \in 0..(MaxCpNodes + 1) : calls[i] = IF i = 0 THEN start ELSE CopyNext(calls[i - 1])
  BY <1>2 DEF CallsFrom
<1> DEFINE B == {i \in 0..(MaxCpNodes + 1) : calls[i] \notin S}
<1>5. ASSUME B # {} PROVE FALSE
  <2>1. PICK m \in B : \A i \in B : m <= i
    <3>1. B \subseteq Nat
      OBVIOUS
    <3> HIDE DEF B
    <3>. QED
      BY <1>5, <3>1, LeastNumber
  <2>2. m \in 0..(MaxCpNodes + 1) /\ calls[m] \notin S
    OBVIOUS
  <2>3. m # 0
    BY <1>4, <2>2 DEF start
  <2>4. m - 1 \in 0..(MaxCpNodes + 1) /\ ~(m <= m - 1)
    BY <1>1, <2>2, <2>3
  <2>5. calls[m - 1] \in S
    BY <2>1, <2>4
  <2>6. calls[m] = CopyNext(calls[m - 1])
    BY <1>4, <2>2, <2>3
  <2>. QED
    BY <2>2, <2>5, <2>6 DEF CopyNext
<1>. QED
  BY <1>1, <1>3, <1>5

\* A copy that succeeds has nothing left to do: every call that succeeds
\* counts a node.
LEMMA CpEnds ==
  ASSUME own \in RowMaps, cachedNodeCount \in Counts, NEW src \in Paths, NEW dest \in Paths,
         NEW copy, copy = CpOutcome(src, dest)
  PROVE  copy \in Copies /\ (copy.status = "ok" => copy.todo = {})
<1> DEFINE start == Copying(own, cachedNodeCount, src, dest)
           calls == CHOOSE g : CallsFrom(g, start, MaxCpNodes + 1)
<1>1. MaxCpNodes + 1 \in Nat /\ MaxCpNodes \in Nat
  BY LimitsAssumption
<1>2. CallsFrom(calls, start, MaxCpNodes + 1)
  <2> HIDE DEF start
  <2>. QED
    BY <1>1, CallsExist
<1>3. copy = calls[MaxCpNodes + 1]
  BY DEF CpOutcome, CallsFrom, Copying
<1>4. start \in Copies /\ start.nodes = 0
  BY DEF Copying, Copies
<1> HIDE DEF calls, start
<1>5. \A i \in 0..(MaxCpNodes + 1) : calls[i] = IF i = 0 THEN start ELSE CopyNext(calls[i - 1])
  BY <1>2 DEF CallsFrom
<1> DEFINE Good(i) == /\ calls[i] \in Copies
                      /\ calls[i].status = "ok" /\ calls[i].todo # {} =>
                           calls[i].nodes = i /\ calls[i].nodes <= MaxCpNodes
           B == {i \in 0..(MaxCpNodes + 1) : ~Good(i)}
<1>6. ASSUME B # {} PROVE FALSE
  <2>1. PICK m \in B : \A i \in B : m <= i
    <3>1. B \subseteq Nat
      OBVIOUS
    <3> HIDE DEF B
    <3>. QED
      BY <1>6, <3>1, LeastNumber
  <2>2. m \in 0..(MaxCpNodes + 1) /\ m \in Nat /\ ~Good(m)
    BY <1>1
  <2>3. m # 0
    BY <1>1, <1>4, <1>5, <2>2
  <2>4. m - 1 \in 0..(MaxCpNodes + 1) /\ ~(m <= m - 1)
    BY <1>1, <2>2, <2>3
  <2>5. Good(m - 1)
    BY <2>1, <2>4
  <2> DEFINE cp == calls[m - 1]
  <2>6. calls[m] = CopyNext(cp)
    BY <1>5, <2>2, <2>3
  <2>7. cp.status = "ok" /\ cp.todo # {} /\ calls[m] = CopyOne(cp)
    BY <2>2, <2>5, <2>6 DEF CopyNext
  <2>8. cp \in Copies /\ cp.nodes = m - 1
    BY <2>5, <2>7
  <2> HIDE DEF cp, Good
  <2>9. /\ calls[m] \in Copies
        /\ calls[m].status = "ok" => calls[m].nodes = cp.nodes + 1 /\ calls[m].nodes <= MaxCpNodes
    BY <2>7, <2>8, CopyOneIs
  <2>. QED
    BY <2>2, <2>8, <2>9 DEF Good
<1>7. Good(MaxCpNodes + 1)
  BY <1>1, <1>6
<1>. QED
  BY <1>1, <1>3, <1>7

-----------------------------------------------------------------------------
(* The rows of the version are rows, and the count a count.                *)

OpsTyped == own \in RowMaps /\ cachedNodeCount \in Counts

LEMMA EndsTyped ==
  ASSUME OpsTyped, NEW outcome, outcome.status = "ok" => outcome.own \in RowMaps,
         outcome.count \in Counts, Ends(outcome)
  PROVE  OpsTyped'
<1>1. own' \in RowMaps
  BY DEF Ends, OpsTyped, RowMaps
<1>. QED
  BY <1>1 DEF Ends, OpsTyped

LEMMA CommitsTyped ==
  ASSUME OpsTyped, NEW rows \in RowMaps, Commits(rows)
  PROVE  OpsTyped'
BY DEF Commits, OpsTyped

LEMMA WritesTyped ==
  ASSUME OpsTyped, NEW rows \in RowMaps, NEW p \in Paths, NEW content \in Contents,
         Ends(WriteOutcome(rows, cachedNodeCount, p, content))
  PROVE  OpsTyped'
<1> DEFINE outcome == WriteOutcome(rows, cachedNodeCount, p, content)
           made == WithDirectories(rows, Parent(p))
<1>1. cachedNodeCount \in Counts /\ made \in RowMaps /\ File(content, "0644") \in Row
  BY ParentInPaths, StatementsTyped, KindsOfRows DEF OpsTyped
<1>2. /\ outcome.count \in Nat
      /\ outcome.status = "ok" => \/ WritesAtOnce(rows, cachedNodeCount, p, content, outcome.own)
                                  \/ WritesBelow(rows, cachedNodeCount, p, content, outcome.own)
  <2>1. outcome = WriteOutcome(rows, cachedNodeCount, p, content)
    OBVIOUS
  <2> HIDE DEF outcome
  <2>. QED
    BY <1>1, <2>1, WriteIs
<1> HIDE DEF outcome
<1>3. outcome.status = "ok" => \/ outcome.own = Upserted(rows, p, File(content, "0644"))
                               \/ outcome.own = Upserted(made, p, File(content, "0644"))
  BY <1>2 DEF WritesAtOnce, WritesBelow
<1> HIDE DEF made
<1>4. outcome.status = "ok" => outcome.own \in RowMaps
  BY <1>1, <1>3, StatementsTyped
<1>. QED
  BY <1>2, <1>4, EndsTyped DEF Counts, outcome

\* What appendFile writes back is content that fits.
LEMMA AppendedFits ==
  ASSUME NEW rows \in RowMaps, NEW p \in Paths, NEW piece \in Tokens, AppendFits(rows, p),
         NEW old, old = IF ShowsOther(rows, p) /\ Entry(rows, p).type = "file"
                        THEN Entry(rows, p).data ELSE <<>>
  PROVE  Append(old, piece) \in Contents
<1>1. old \in Contents /\ <<>> \in Contents
  <2>1. Shows(rows, p) => Entry(rows, p) \in Row
    BY EntryIsRow DEF Shows
  <2>2. Shows(rows, p) /\ Entry(rows, p).type = "file" => Entry(rows, p).data \in Contents
    BY <2>1, KindsOfRows
  <2>4. <<>> \in Contents
    <3>1. <<>> \in [1..0 -> Tokens] /\ 0 \in 0..MaxFileSize
      BY SizeAssumption
    <3>. QED
      BY <3>1 DEF Contents
  <2>. QED
    BY <2>2, <2>4 DEF ShowsOther
<1>2. old \in Seq(Tokens) /\ Len(old) \in Nat /\ Len(old) + 1 <= MaxFileSize
  <2>1. PICK n \in 0..MaxFileSize : old \in [1..n -> Tokens]
    BY <1>1 DEF Contents
  <2>2. old \in Seq(Tokens) /\ Len(old) = n /\ n \in Nat
    BY <2>1, SizeAssumption
  <2>3. CASE ShowsOther(rows, p) /\ Entry(rows, p).type = "file"
    BY <2>2, <2>3 DEF AppendFits
  <2>4. CASE ~(ShowsOther(rows, p) /\ Entry(rows, p).type = "file")
    <3>1. old = <<>> /\ Len(<<>>) = 0
      BY <2>4
    <3>. QED
      BY <2>2, <3>1, SizeAssumption
  <2>. QED
    BY <2>3, <2>4
<1>3. Append(old, piece) \in Seq(Tokens) /\ Len(Append(old, piece)) = Len(old) + 1
  BY <1>2
<1>4. /\ Append(old, piece) \in [1..(Len(old) + 1) -> Tokens]
      /\ Len(old) + 1 \in 0..MaxFileSize
  <2> DEFINE q == Append(old, piece)
  <2>1. q \in Seq(Tokens) /\ Len(q) = Len(old) + 1
    BY <1>3
  <2> HIDE DEF q
  <2>2. q \in [1..Len(q) -> Tokens]
    BY <2>1, LenProperties
  <2>3. Len(old) + 1 \in 0..MaxFileSize
    BY <1>2, SizeAssumption
  <2>. QED
    BY <2>1, <2>2, <2>3 DEF q
<1>. QED
  BY <1>4 DEF Contents

LEMMA InitTyped == Init => OpsTyped
<1>1. Directory("0755") \in Row
  BY KindsOfRows
<1>. QED
  BY <1>1 DEF Init, OpsTyped, RowMaps, Counts

LEMMA NextTyped == OpsTyped /\ [Next]_vars => OpsTyped'
<1> SUFFICES ASSUME OpsTyped, [Next]_vars PROVE OpsTyped'
  OBVIOUS
<1>0. own \in RowMaps /\ cachedNodeCount \in Counts
  BY DEF OpsTyped
<1>1. ASSUME NEW p \in Paths, NEW t \in Tokens, WriteFile(p, <<t>>) PROVE OpsTyped'
  <2>1. <<>> \in Contents /\ <<t>> \in Contents
    <3>1. <<>> \in [1..0 -> Tokens] /\ 0 \in 0..MaxFileSize
      BY SizeAssumption
    <3>2. <<>> \in Contents
      BY <3>1 DEF Contents
    <3>. QED
      BY <3>2, Joined
  <2>. QED
    BY <1>0, <1>1, <2>1, WritesTyped DEF WriteFile
<1>2. ASSUME NEW p \in Paths, NEW t \in Tokens, AppendFile(p, t) PROVE OpsTyped'
  <2> DEFINE rows == WithDirectories(own, Parent(p))
             old == IF ShowsOther(rows, p) /\ Entry(rows, p).type = "file"
                    THEN Entry(rows, p).data ELSE <<>>
  <2>1. rows \in RowMaps
    BY <1>0, ParentInPaths, StatementsTyped
  <2>2. AppendFits(rows, p) /\ Ends(WriteOutcome(rows, cachedNodeCount, p, Append(old, t)))
    BY <1>2 DEF AppendFile
  <2> HIDE DEF rows
  <2>3. Append(old, t) \in Contents
    BY <2>1, <2>2, AppendedFits
  <2> HIDE DEF old
  <2>. QED
    BY <2>1, <2>2, <2>3, WritesTyped
<1>3. ASSUME NEW p \in Paths, NEW recursive \in BOOLEAN, Mkdir(p, recursive) PROVE OpsTyped'
  <2>1. Commits(WithDirectories(own, p)) \/ Commits(Upserted(own, p, Directory("0755")))
    BY <1>3 DEF Mkdir
  <2>2. WithDirectories(own, p) \in RowMaps /\ Upserted(own, p, Directory("0755")) \in RowMaps
    BY <1>0, StatementsTyped, KindsOfRows
  <2>. QED
    BY <2>1, <2>2, CommitsTyped
<1>4. ASSUME NEW p \in Paths, RmRecursive(p) \/ RmOne(p) PROVE OpsTyped'
  <2>1. Commits(TombstonedSubtree(own, p)) \/ Commits(Upserted(own, p, Tombstone))
    BY <1>4 DEF RmRecursive, RmOne
  <2>2. TombstonedSubtree(own, p) \in RowMaps /\ Upserted(own, p, Tombstone) \in RowMaps
    BY <1>0, StatementsTyped, KindsOfRows
  <2>. QED
    BY <2>1, <2>2, CommitsTyped
<1>5. ASSUME NEW src \in Paths, NEW dest \in Paths, Mv(src, dest) PROVE OpsTyped'
  <2> DEFINE cleared == IF Shows(own, dest) THEN Upserted(own, dest, Tombstone) ELSE own
  <2>1. cleared \in RowMaps
    BY <1>0, StatementsTyped, KindsOfRows
  <2>2. Entry(own, src) \in Row
    BY <1>0, <1>5, EntryIsRow DEF Mv, CanMove, Shows
  <2>3. Moved(src, dest) = IF ShowsDirectory(own, src)
                           THEN TombstonedSubtree(CopiedSubtree(cleared, src, dest, TRUE), src)
                           ELSE Upserted(Upserted(cleared, dest, Entry(own, src)), src, Tombstone)
    BY DEF Moved
  <2> HIDE DEF cleared
  <2> DEFINE copied == CopiedSubtree(cleared, src, dest, TRUE)
             put == Upserted(cleared, dest, Entry(own, src))
  <2>4. copied \in RowMaps /\ put \in RowMaps
    BY <2>1, <2>2, StatementsTyped
  <2>5. Moved(src, dest) = TombstonedSubtree(copied, src) \/ Moved(src, dest) = Upserted(put, src, Tombstone)
    BY <2>3
  <2> HIDE DEF copied, put
  <2>6. Moved(src, dest) \in RowMaps
    BY <2>4, <2>5, StatementsTyped, KindsOfRows
  <2>. QED
    BY <1>5, <2>6, CommitsTyped DEF Mv
<1>6. ASSUME NEW src \in Paths, NEW dest \in Paths, NEW recursive \in BOOLEAN, Cp(src, dest, recursive)
      PROVE  OpsTyped'
  <2> DEFINE copy == CpOutcome(src, dest)
  <2>1. copy \in Copies /\ Ends(copy)
    BY <1>0, <1>6, CpEnds DEF Cp
  <2>2. copy.own \in RowMaps /\ copy.count \in Counts
    BY <2>1 DEF Copies
  <2> HIDE DEF copy
  <2>. QED
    BY <2>1, <2>2, EndsTyped
<1>7. ASSUME NEW target \in Targets, NEW p \in Paths, MakeSymlink(target, p) PROVE OpsTyped'
  <2>1. Symlink(target) \in Row
    BY TargetsAssumption, KindsOfLinks
  <2>2. Upserted(own, p, Symlink(target)) \in RowMaps
    BY <1>0, <2>1, StatementsTyped
  <2>. QED
    BY <1>7, <2>2, CommitsTyped DEF MakeSymlink
<1>8. ASSUME NEW src \in Paths, NEW dest \in Paths, Link(src, dest) PROVE OpsTyped'
  <2> DEFINE linked == Upserted(own, dest, Entry(own, src))
  <2>1. linked \in RowMaps
    <3>1. Entry(own, src) \in Row
      BY <1>0, <1>8, EntryIsRow DEF Link, ShowsOther, Shows
    <3>. QED
      BY <1>0, <3>1, StatementsTyped
  <2>2. Counted(own, cachedNodeCount) \in Counts
    BY <1>0, CountIs DEF Counts
  <2>3. \/ Ends(Outcome("ok", linked, cachedNodeCount))
        \/ Ends(Outcome("limit", own, Counted(own, cachedNodeCount)))
        \/ Ends(Outcome("ok", linked, Counted(own, cachedNodeCount)))
    BY <1>8 DEF Link
  <2> HIDE DEF linked
  <2>. QED
    BY <1>0, <2>1, <2>2, <2>3, EndsTyped, OutcomeIs
<1>9. ASSUME NEW p \in Paths, NEW m \in Modes, Chmod(p, m) PROVE OpsTyped'
  <2> DEFINE reached == Followed(own, NothingHidden, p)
  <2>1. reached.error = "none" /\ Commits(Upserted(own, reached.at, WithMode(Entry(own, reached.at), m)))
    BY <1>9 DEF Chmod
  <2>2. \/ reached \in {Failed("ENOENT"), Failed("ELOOP"), Failed("EACCES")}
        \/ \E q \in Paths : reached = Found(q) /\ Visible(own, NothingHidden, q)
    BY <1>0, FollowedLeads
  <2> HIDE DEF reached
  <2>3. reached.at \in Paths /\ Shows(own, reached.at)
    BY <2>1, <2>2 DEF Failed, Found, Visible
  <2>4. Entry(own, reached.at) \in Row \ {Tombstone} /\ m \in AllModes
    BY <1>0, <2>3, EntryIsRow DEF Shows, AllModes
  <2>5. WithMode(Entry(own, reached.at), m) \in Row
    BY <2>4, KindsOfLinks
  <2>6. Upserted(own, reached.at, WithMode(Entry(own, reached.at), m)) \in RowMaps
    BY <1>0, <2>3, <2>5, StatementsTyped
  <2>. QED
    BY <2>1, <2>6, CommitsTyped
<1>10. ASSUME NEW source \in Sources, NEW selection,
              \/ \E strategy \in Strategies : MergeVersion(source, strategy, selection)
              \/ CherryPick(source, selection)
              \/ Revert(source, selection)
       PROVE  OpsTyped'
  <2>1. ASSUME NEW strategy, MergeVersion(source, strategy, selection) PROVE OpsTyped'
    <3>1. Merged(own, MergeFrom(own, source, strategy, selection)) \in RowMaps
      BY <1>0, MergeTyped
    <3>. QED
      BY <2>1, <3>1, CommitsTyped DEF MergeVersion, Applies
  <2>2. ASSUME CherryPick(source, selection) PROVE OpsTyped'
    <3> DEFINE result == CherryPickFrom(own, source, selection)
    <3>1. result.status = "ok" /\ Commits(Merged(own, result))
      BY <2>2 DEF CherryPick, Applies
    <3>2. result = SourceWins(View(own), source.view, selection.filters, Root, MaxFiles)
      BY DEF CherryPickFrom, CherryPickOf
    <3> HIDE DEF result
    <3>. QED
      BY <1>0, <3>1, <3>2, SourceWinsTyped, CommitsTyped
  <2>3. ASSUME Revert(source, selection) PROVE OpsTyped'
    <3> DEFINE result == RevertFrom(own, source, selection)
    <3>1. result.status = "ok" /\ Commits(Merged(own, result))
      BY <2>3 DEF Revert, Applies
    <3>2. result = SourceWins(View(own), source.view, selection.filters, selection.scope, MaxFiles)
      BY DEF RevertFrom, RevertOf
    <3> HIDE DEF result
    <3>. QED
      BY <1>0, <3>1, <3>2, SourceWinsTyped, CommitsTyped
  <2>. QED
    BY <1>10, <2>1, <2>2, <2>3
<1>11. CASE UNCHANGED vars
  BY <1>11 DEF vars, OpsTyped
<1>. QED
  BY <1>1, <1>2, <1>3, <1>4, <1>5, <1>6, <1>7, <1>8, <1>9, <1>10, <1>11 DEF Next

LEMMA OpsInvariant == Spec => []OpsTyped
BY InitTyped, NextTyped, PTL DEF Spec

\* mv takes everything shown under the source to the destination and leaves
\* the rest alone (MvTakesSubtree): neither path lies under the other in a
\* tree, so that what is copied is not what is removed.
LEMMA MovesTakeSubtree == Spec => []MvTakesSubtree
<1>1. OpsTyped => MvTakesSubtree
  <2> SUFFICES ASSUME OpsTyped, TreeShaped(own), NEW src \in Paths \ {Root}, NEW dest \in Paths,
                      CanMove(src, dest), NEW p \in Paths
               PROVE  Entry(Moved(src, dest), p)
                        = CASE p \in Under(dest) -> IF Image(p, dest, src) \in Paths
                                                    THEN Entry(own, Image(p, dest, src)) ELSE Absent
                            [] p \in Under(src) -> Absent
                            [] OTHER -> Entry(own, p)
    BY Zenon DEF MvTakesSubtree
  <2>1. IsRows(own)
    BY DEF OpsTyped, RowMaps, IsRows
  <2>. QED
    BY <2>1, MovesAll
<1>. QED
  BY <1>1, OpsInvariant, PTL

-----------------------------------------------------------------------------
(* What keeps the tree a tree.                                             *)

\* What lies in something under a path lies under that path.
LEMMA ParentUnder ==
  ASSUME NEW p \in Paths, NEW q \in Paths, Parent(q) \in Under(p)
  PROVE  q \in Under(p)
<1>1. CASE q = Root
  BY <1>1 DEF Parent
<1>2. CASE q # Root
  <2>1. Parent(q) \in Above(q) /\ Parent(q) \in Paths
    BY <1>2, ParentIsAbove, ParentInPaths
  <2>2. IsPrefix(Parent(q), q)
    BY <2>1, AboveIs DEF IsStrictPrefix
  <2>3. IsPrefix(p, q)
    BY <2>1, <2>2, PrefixOrder DEF Under
  <2>. QED
    BY <2>3 DEF Under
<1>. QED
  BY <1>1, <1>2

\* A path does not lie in itself, nor its directory under it.
LEMMA ParentOutside ==
  ASSUME NEW p \in Paths, p # Root
  PROVE  Parent(p) \in Paths /\ Parent(p) # p /\ Parent(p) \notin Under(p)
<1>1. Parent(p) \in Above(p) /\ Parent(p) \in Paths /\ Len(p) \in Nat /\ Len(Parent(p)) = Len(p) - 1
  BY ParentIsAbove, ParentInPaths, PathIsSeq
<1>2. ~(Len(p) <= Len(Parent(p)))
  BY <1>1
<1>3. Parent(p) \notin Under(p)
  BY <1>1, <1>2, PrefixOrder DEF Under
<1>. QED
  BY <1>1, <1>2, <1>3

\* What is shown in a tree has "/" above it.
LEMMA RootShown ==
  ASSUME NEW rows, TreeShaped(rows), NEW p \in Paths, Shows(rows, p)
  PROVE  ShowsDirectory(rows, Root)
<1>1. CASE p = Root
  BY <1>1 DEF TreeShaped, Parent
<1>2. CASE p # Root
  BY <1>2, RootIsAbove, BelowIsShown
<1>. QED
  BY <1>1, <1>2

\* A row put where nothing is shown below keeps the tree.
LEMMA BareKeeps ==
  ASSUME NEW rows \in RowMaps, NEW p \in Paths, NEW row \in Row, TreeShaped(rows),
         \A q \in Under(p) : q # p => ~Shows(rows, q),
         row = Tombstone \/ (p # Root /\ ShowsDirectory(rows, Parent(p)))
  PROVE  TreeShaped(Upserted(rows, p, row))
<1> DEFINE after == Upserted(rows, p, row)
<1>1. \A q \in Paths : Entry(after, q)
                         = IF q # p THEN Entry(rows, q) ELSE IF row = Tombstone THEN Absent ELSE row
  BY EntryAfterUpsert
<1> HIDE DEF after
<1>2. ASSUME NEW q \in Paths, Shows(after, q) PROVE ShowsDirectory(after, Parent(q))
  <2>0. Parent(q) \in Paths
    BY ParentInPaths
  <2>1. CASE q = p
    <3>1. p # Root /\ ShowsDirectory(rows, Parent(p)) /\ Parent(p) # p
      BY <1>1, <1>2, <2>1, ParentOutside DEF Shows
    <3>. QED
      BY <1>1, <2>0, <2>1, <3>1 DEF ShowsDirectory, Shows
  <2>2. CASE q # p
    <3>1. Shows(rows, q) /\ ShowsDirectory(rows, Parent(q))
      BY <1>1, <1>2, <2>2 DEF Shows, TreeShaped
    <3>2. Parent(q) # p
      <4>1. p \in Under(p)
        BY PrefixOrder DEF Under
      <4>2. Parent(q) = p => q \in Under(p)
        BY <4>1, ParentUnder
      <4>. QED
        BY <2>2, <3>1, <4>2
    <3>. QED
      BY <1>1, <2>0, <3>1, <3>2 DEF ShowsDirectory, Shows
  <2>. QED
    BY <2>1, <2>2
<1>. QED
  BY <1>2 DEF TreeShaped, after

\* Neither do the rows of a write, on top of a tree with a "/".
LEMMA WrittenKeeps ==
  ASSUME NEW rows \in RowMaps, TreeShaped(rows), NEW count \in Counts, NEW p \in Paths,
         NEW content \in Contents,
         WriteOutcome(rows, count, p, content).status = "ok",
         Shows(WriteOutcome(rows, count, p, content).own, Root)
  PROVE  TreeShaped(WriteOutcome(rows, count, p, content).own)
<1> DEFINE made == WithDirectories(rows, Parent(p))
           outcome == WriteOutcome(rows, count, p, content)
<1>0. made = WithDirectories(rows, Parent(p)) /\ outcome = WriteOutcome(rows, count, p, content)
  OBVIOUS
<1>1. outcome.status = "ok" /\ Shows(outcome.own, Root)
  OBVIOUS
<1> HIDE DEF made, outcome
<1>2. \/ /\ WriteStatus(rows, p) = "ok"
         /\ outcome.own = Upserted(rows, p, File(content, "0644"))
      \/ /\ Parent(p) # Root /\ WriteStatus(made, p) = "ok"
         /\ outcome.own = Upserted(made, p, File(content, "0644"))
  <2>1. \/ WritesAtOnce(rows, count, p, content, outcome.own)
        \/ WritesBelow(rows, count, p, content, outcome.own)
    BY <1>0, <1>1, WriteIs
  <2>. QED
    BY <2>1 DEF WritesAtOnce, WritesBelow, made
<1>3. Parent(p) \in Paths /\ Root \in Paths /\ Root \notin Segments(Parent(p))
  BY ParentInPaths, RootIsAbove, SegmentsAre
<1>4. made \in RowMaps /\ Entry(made, Root) = Entry(rows, Root) /\ File(content, "0644") \in Row
  BY <1>0, <1>3, StatementsTyped, DirectoriesShown, KindsOfRows
<1>5. Shows(rows, Root) => TreeShaped(made)
  BY <1>0, <1>3, DirectoriesKeep
<1>6. CASE /\ WriteStatus(rows, p) = "ok"
           /\ outcome.own = Upserted(rows, p, File(content, "0644"))
  BY <1>0, <1>6, WriteKeeps
<1>7. CASE /\ Parent(p) # Root /\ WriteStatus(made, p) = "ok"
           /\ outcome.own = Upserted(made, p, File(content, "0644"))
  <2>1. p # Root
    BY <1>7 DEF Parent
  <2>2. Entry(outcome.own, Root) = Entry(made, Root)
    BY <1>3, <1>4, <1>7, <2>1, EntryAfterUpsert
  <2>3. Shows(rows, Root)
    BY <1>1, <1>4, <2>2 DEF Shows
  <2>. QED
    BY <1>0, <1>4, <1>5, <1>7, <2>3, WriteKeeps
<1>. QED
  BY <1>2, <1>6, <1>7

\* A move within a tree that has a "/" after it.
LEMMA MoveKeeps ==
  ASSUME own \in RowMaps, TreeShaped(own), NEW src \in Paths, NEW dest \in Paths,
         CanMove(src, dest), NEW after, after = Moved(src, dest), Shows(after, Root)
  PROVE  TreeShaped(after)
<1>1. src # Root
  <2> SUFFICES ASSUME src = Root PROVE FALSE
    OBVIOUS
  <2>1. ShowsDirectory(own, src)
    BY RootShown DEF CanMove
  <2> DEFINE cleared == IF Shows(own, dest) THEN Upserted(own, dest, Tombstone) ELSE own
             copied == CopiedSubtree(cleared, src, dest, TRUE)
  <2>2. after = TombstonedSubtree(copied, src)
    BY <2>1 DEF Moved
  <2> HIDE DEF copied
  <2>3. Entry(after, Root) = Absent
    BY <2>2, RemovalShows, RootIsAbove
  <2>. QED
    BY <2>3 DEF Shows
<1>2. IsRows(own)
  BY DEF RowMaps, IsRows
<1>3. \A p \in Paths :
        Entry(after, p)
          = IF p \in Under(dest) THEN IF Image(p, dest, src) \in Paths
                                      THEN Entry(own, Image(p, dest, src)) ELSE Absent
            ELSE IF p \in Under(src) THEN Absent ELSE Entry(own, p)
  <2>1. \A p \in Paths :
          Entry(after, p)
            = CASE p \in Under(dest) -> IF Image(p, dest, src) \in Paths
                                        THEN Entry(own, Image(p, dest, src)) ELSE Absent
                [] p \in Under(src) -> Absent
                [] OTHER -> Entry(own, p)
    BY <1>1, <1>2, MovesAll
  <2>2. \A p \in Under(src) : p \notin Under(dest)
    BY <1>1, MoveApart
  <2>. QED
    BY <2>1, <2>2
<1>4. \A p \in Under(src) : p \notin Under(dest)
  BY <1>1, MoveApart
<1>5. src \in Under(src) /\ dest \in Under(dest)
  BY PrefixOrder DEF Under
<1>6. dest # Root
  BY <1>4, <1>5, RootIsAbove
<1>7. ASSUME NEW p \in Paths, Shows(after, p) PROVE ShowsDirectory(after, Parent(p))
  <2>0. Parent(p) \in Paths
    BY ParentInPaths
  <2>1. CASE p = dest
    <3>1. ShowsDirectory(own, Parent(dest)) /\ Parent(dest) \notin Under(dest)
      BY <1>6, ParentOutside DEF CanMove
    <3>2. Parent(dest) \notin Under(src)
      BY <1>4, <1>5, ParentUnder
    <3>. QED
      BY <1>3, <2>0, <2>1, <3>1, <3>2 DEF ShowsDirectory, Shows
  <2>2. CASE p \in Under(dest) /\ p # dest
    <3> DEFINE from == Image(p, dest, src)
    <3>1. from \in Paths /\ Shows(own, from)
      BY <1>3, <1>7, <2>2 DEF Shows
    <3>2. Parent(p) \in Under(dest) /\ Image(Parent(p), dest, src) = Parent(from)
      BY <2>2, ImageOfParent
    <3> HIDE DEF from
    <3>3. Parent(from) \in Paths /\ ShowsDirectory(own, Parent(from))
      BY <3>1, ParentInPaths DEF TreeShaped
    <3>. QED
      BY <1>3, <2>0, <3>2, <3>3 DEF ShowsDirectory, Shows
  <2>3. CASE p \notin Under(dest)
    <3>1. p \notin Under(src) /\ Shows(own, p)
      BY <1>3, <1>7, <2>3 DEF Shows
    <3>2. Parent(p) \notin Under(src) /\ Parent(p) \notin Under(dest)
      BY <2>3, <3>1, ParentUnder
    <3>3. ShowsDirectory(own, Parent(p))
      BY <3>1 DEF TreeShaped
    <3>. QED
      BY <1>3, <2>0, <3>2, <3>3 DEF ShowsDirectory, Shows
  <2>. QED
    BY <2>1, <2>2, <2>3
<1>. QED
  BY <1>7 DEF TreeShaped

\* What one statement of cp leaves to be seen, with the entry at its root or
\* without.
LEMMA CopySees ==
  ASSUME NEW rows, NEW src, NEW dest, NEW includeRoot
  PROVE  LET after == CopiedSubtree(rows, src, dest, includeRoot)
             from(q) == Image(q, dest, src)
         IN \A q \in Paths :
              /\ (q \in Under(dest) /\ from(q) \in Paths /\ Shows(rows, from(q))
                    /\ (includeRoot \/ from(q) # src)) => Entry(after, q) = Entry(rows, from(q))
              /\ ~(q \in Under(dest) /\ from(q) \in Paths /\ Shows(rows, from(q))
                    /\ (includeRoot \/ from(q) # src)) => Entry(after, q) = Entry(rows, q)
<1> DEFINE after == CopiedSubtree(rows, src, dest, includeRoot)
           from(q) == Image(q, dest, src)
           copied(q) == /\ q \in Under(dest) /\ from(q) \in Paths /\ Shows(rows, from(q))
                        /\ includeRoot \/ from(q) # src
<1>1. \A q \in Paths : after[q] = IF copied(q) THEN Entry(rows, from(q)) ELSE rows[q]
  BY DEF CopiedSubtree
<1>2. Tombstone # Absent /\ \A q \in Paths : Entry(rows, q) # Tombstone
  BY NotATombstone DEF Entry
<1>3. \A q \in Paths : copied(q) => Entry(rows, from(q)) # Absent /\ Entry(rows, from(q)) # Tombstone
  BY <1>2 DEF Shows
<1> HIDE DEF after, copied, from
<1>4. \A q \in Paths : Entry(after, q) = IF copied(q) THEN Entry(rows, from(q)) ELSE Entry(rows, q)
  BY <1>1, <1>3 DEF Entry
<1>5. \A q \in Paths : /\ copied(q) => Entry(after, q) = Entry(rows, from(q))
                       /\ ~copied(q) => Entry(after, q) = Entry(rows, q)
  BY <1>4
<1>. QED
  BY <1>5 DEF after, copied, from

\* A directory copied where nothing is shown below leaves a tree, whose
\* entries are what there was and what was under the source.
LEMMA CopyKeeps ==
  ASSUME NEW rows, TreeShaped(rows), NEW from \in Paths, NEW to \in Paths,
         ShowsDirectory(rows, from), ShowsDirectory(rows, to),
         \A q \in Under(to) : q # to => ~Shows(rows, q),
         NEW includeRoot
  PROVE  LET after == CopiedSubtree(rows, from, to, includeRoot)
         IN /\ TreeShaped(after)
            /\ \A q \in Paths : \/ Entry(after, q) = Entry(rows, q)
                                \/ \E r \in Under(from) : Entry(after, q) = Entry(rows, r)
<1> DEFINE after == CopiedSubtree(rows, from, to, includeRoot)
           back(q) == Image(q, to, from)
           copied(q) == /\ q \in Under(to) /\ back(q) \in Paths /\ Shows(rows, back(q))
                        /\ (includeRoot \/ back(q) # from)
<1>1. \A q \in Paths : /\ copied(q) => Entry(after, q) = Entry(rows, back(q))
                       /\ ~copied(q) => Entry(after, q) = Entry(rows, q)
  BY CopySees
<1>2. \A q \in Paths : copied(q) => /\ q \in Under(to) /\ back(q) \in Paths /\ Shows(rows, back(q))
                                    /\ back(q) \in Under(from)
  BY ImageIs DEF Under
<1>3. \A q \in Paths : q \in Under(to) /\ back(q) \in Paths /\ Shows(rows, back(q)) /\ back(q) # from
                         => copied(q)
  OBVIOUS
<1>4. \A q \in Under(to) : back(q) = from <=> q = to
  BY ImageIs
<1>5. \A q \in Under(to) : q # to => Parent(q) \in Under(to) /\ back(Parent(q)) = Parent(back(q))
  BY ImageOfParent
<1> HIDE DEF after, copied, back
<1>6. to \in Under(to)
  BY PrefixOrder DEF Under
<1>7. ShowsDirectory(after, to)
  BY <1>1, <1>4, <1>6 DEF ShowsDirectory, Shows
<1>8. ASSUME NEW q \in Paths, Shows(after, q) PROVE ShowsDirectory(after, Parent(q))
  <2>0. Parent(q) \in Paths
    BY ParentInPaths
  <2>1. CASE Parent(q) = to
    BY <1>7, <2>1
  <2>2. CASE Parent(q) # to /\ copied(q) /\ q # to
    <3> DEFINE r == back(q)
    <3>1. /\ r \in Paths /\ Shows(rows, r) /\ q \in Under(to)
          /\ Parent(q) \in Under(to) /\ back(Parent(q)) = Parent(r)
      BY <1>2, <1>5, <2>2
    <3>2. Parent(r) \in Paths /\ ShowsDirectory(rows, Parent(r)) /\ Parent(r) # from
      BY <1>4, <2>2, <3>1, ParentInPaths DEF TreeShaped
    <3> HIDE DEF r
    <3>3. copied(Parent(q))
      BY <1>3, <2>0, <3>1, <3>2 DEF ShowsDirectory
    <3>. QED
      BY <1>1, <2>0, <3>1, <3>2, <3>3 DEF ShowsDirectory, Shows
  <2>3. CASE Parent(q) # to /\ (~copied(q) \/ q = to)
    <3>1. Shows(rows, q) /\ (q \in Under(to) => q = to)
      <4>1. CASE q = to
        BY <4>1 DEF ShowsDirectory
      <4>2. CASE q # to
        <5>1. Shows(rows, q)
          BY <1>1, <1>8, <2>3, <4>2 DEF Shows
        <5>. QED
          BY <4>2, <5>1
      <4>. QED
        BY <4>1, <4>2
    <3>2. ShowsDirectory(rows, Parent(q))
      BY <3>1 DEF TreeShaped
    <3>3. Parent(q) \notin Under(to)
      BY <2>0, <2>3, <3>2 DEF ShowsDirectory
    <3>4. ~copied(Parent(q))
      BY <1>2, <2>0, <3>3
    <3>. QED
      BY <1>1, <2>0, <3>2, <3>4 DEF ShowsDirectory, Shows
  <2>. QED
    BY <2>1, <2>2, <2>3
<1>9. ASSUME NEW q \in Paths
      PROVE  \/ Entry(after, q) = Entry(rows, q)
             \/ \E r \in Under(from) : Entry(after, q) = Entry(rows, r)
  BY <1>1, <1>2
<1>. QED
  BY <1>8, <1>9 DEF TreeShaped, after

\* No call of cp puts something else in the place of a directory, unless it
\* finds a link under the source.
NoLinkUnder(rows, src) ==
  \A q \in Under(src) : Shows(rows, q) => Entry(rows, q).type # "symlink"
CopiesKeep(cp) ==
  /\ cp \in Copies
  /\ cp.status = "ok" => /\ cp.todo \subseteq Under(cp.src)
                         /\ TreeShaped(cp.own) /\ NoLinkUnder(cp.own, cp.src)

LEMMA DirectoriesAreNoLinks ==
  ASSUME NEW rows, NEW src, NoLinkUnder(rows, src), NEW p \in Paths
  PROVE  NoLinkUnder(WithDirectories(rows, p), src)
<1>1. \A q \in Under(src) : q \in Paths
  BY DEF Under
<1>2. \A q \in Paths : \/ Entry(WithDirectories(rows, p), q) = Entry(rows, q)
                       \/ Entry(WithDirectories(rows, p), q) = Directory("0755")
  BY EntryAfterDirectories
<1>3. Directory("0755").type = "directory"
  BY DEF Directory
<1>. QED
  BY <1>1, <1>2, <1>3 DEF NoLinkUnder, Shows

LEMMA CopyOneKeeps ==
  ASSUME NEW cp, CopiesKeep(cp), cp.status = "ok", cp.todo # {}
  PROVE  CopiesKeep(CopyOne(cp))
<1> DEFINE out == CopyOne(cp)
           from == Deepest(cp.todo)
           to == Image(from, cp.src, cp.dest)
           rows == cp.own
<1>0. cp \in Copies /\ out = CopyOne(cp) /\ from = Deepest(cp.todo) /\ to = Image(from, cp.src, cp.dest)
  BY DEF CopiesKeep
<1> HIDE DEF out, from, to
<1>1. /\ out \in Copies /\ out.src = cp.src /\ out.dest = cp.dest
      /\ from \in cp.todo /\ from \in Paths
      /\ out.status = "ok" =>
           /\ to \in Paths /\ Shows(cp.own, from)
           /\ \/ /\ CopiesInto(cp.own, from, to, out.own)
                 /\ out.todo = (cp.todo \ {from}) \cup Children(out.own, from)
              \/ /\ \/ CopiesEmpty(cp.own, from, to, out.own)
                    \/ CopiesNew(cp.own, from, to, out.own)
                    \/ CopiesLink(cp.own, from, to, out.own)
                    \/ CopiesFile(cp.own, from, to, out.own)
                 /\ out.todo = cp.todo \ {from}
  BY <1>0, CopyOneIs
<1>2. /\ rows \in RowMaps /\ cp.src \in Paths /\ from \in Under(cp.src)
      /\ TreeShaped(rows) /\ NoLinkUnder(rows, cp.src) /\ cp.todo \subseteq Under(cp.src)
  BY <1>1 DEF CopiesKeep, Copies
<1> HIDE DEF rows
<1>3. SUFFICES ASSUME out.status = "ok"
               PROVE  out.todo \subseteq Under(cp.src) /\ TreeShaped(out.own) /\ NoLinkUnder(out.own, cp.src)
  BY <1>0, <1>1 DEF CopiesKeep
<1>4. to \in Paths /\ Shows(rows, from) /\ Shows(rows, Root)
  <2>1. to \in Paths /\ Shows(rows, from)
    BY <1>1, <1>3 DEF rows
  <2>. QED
    BY <1>1, <1>2, <2>1, RootShown DEF ShowsDirectory
<1>5. /\ Under(from) \subseteq Under(cp.src)
      /\ \A after : Children(after, from) \subseteq Under(from)
  BY <1>1, <1>2, PrefixOrder DEF Under, Children
<1>6. out.todo \subseteq Under(cp.src)
  BY <1>1, <1>2, <1>3, <1>5
<1>7. TreeShaped(WithDirectories(rows, to)) /\ NoLinkUnder(WithDirectories(rows, to), cp.src)
  BY <1>2, <1>4, DirectoriesKeep, DirectoriesAreNoLinks
<1>8. ASSUME NEW at, NoLinkUnder(at, cp.src), NEW after,
             \A q \in Paths : \/ Entry(after, q) = Entry(at, q)
                              \/ \E r \in Under(from) : Entry(after, q) = Entry(at, r)
      PROVE  NoLinkUnder(after, cp.src)
  BY <1>5, <1>8 DEF NoLinkUnder, Shows, Under
<1>9. CASE CopiesInto(rows, from, to, out.own)
  BY <1>6, <1>7, <1>9 DEF CopiesInto
<1>10. CASE CopiesEmpty(rows, from, to, out.own)
  <2>1. \A q \in Under(to) : q # to => ~Shows(rows, q)
    BY <1>2, <1>4, <1>10, BelowIsShown DEF CopiesEmpty
  <2>2. \A includeRoot :
          LET after == CopiedSubtree(rows, from, to, includeRoot)
          IN /\ TreeShaped(after)
             /\ \A q \in Paths : \/ Entry(after, q) = Entry(rows, q)
                                 \/ \E r \in Under(from) : Entry(after, q) = Entry(rows, r)
    BY <1>1, <1>2, <1>4, <1>10, <2>1, CopyKeeps DEF CopiesEmpty
  <2>3. out.own = CopiedSubtree(rows, from, to, FALSE)
    BY <1>10 DEF CopiesEmpty
  <2>4. /\ TreeShaped(out.own)
        /\ \A q \in Paths : \/ Entry(out.own, q) = Entry(rows, q)
                            \/ \E r \in Under(from) : Entry(out.own, q) = Entry(rows, r)
    BY <2>2, <2>3, Zenon
  <2>5. NoLinkUnder(out.own, cp.src)
    BY <1>2, <1>8, <2>4
  <2>. QED
    BY <1>6, <2>4, <2>5
<1>11. CASE CopiesNew(rows, from, to, out.own)
  <2> DEFINE made == WithDirectories(rows, to)
  <2>1. ShowsDirectory(rows, from) /\ ~Shows(rows, to) /\ to # Root
    BY <1>4, <1>11 DEF CopiesNew
  <2>2. ShowsDirectory(made, from) /\ ShowsDirectory(made, to)
    BY <1>1, <1>4, <2>1, DirectoriesShown, SegmentsAre
  <2>3. ASSUME NEW q \in Under(to), q # to PROVE ~Shows(made, q)
    <3>1. q \in Paths /\ ~Shows(rows, q)
      BY <1>2, <1>4, <2>1, <2>3, BelowIsShown DEF Under, ShowsDirectory
    <3>2. q \notin Segments(to)
      <4>1. IsPrefix(to, q) /\ Len(to) < Len(q) /\ Len(q) \in Nat /\ Len(to) \in Nat
        BY <1>4, <2>3, <3>1, AboveAreStrict, PathIsSeq DEF Under
      <4>2. q \in Segments(to) => q = to \/ q \in Above(to)
        BY DEF Segments, Above
      <4>3. q \in Above(to) => Len(q) < Len(to)
        BY <1>4, AboveIs
      <4>. QED
        BY <2>3, <4>1, <4>2, <4>3
    <3>3. Entry(made, q) = Entry(rows, q)
      BY <1>4, <3>1, <3>2, DirectoriesShown
    <3>. QED
      BY <3>1, <3>3 DEF Shows
  <2>4. out.own = CopiedSubtree(made, from, to, TRUE)
    BY <1>11 DEF CopiesNew
  <2>5. TreeShaped(made) /\ NoLinkUnder(made, cp.src)
    BY <1>7
  <2> HIDE DEF made
  <2>6. \A includeRoot :
          LET after == CopiedSubtree(made, from, to, includeRoot)
          IN /\ TreeShaped(after)
             /\ \A q \in Paths : \/ Entry(after, q) = Entry(made, q)
                                 \/ \E r \in Under(from) : Entry(after, q) = Entry(made, r)
    BY <1>1, <1>4, <2>2, <2>3, <2>5, CopyKeeps
  <2>7. /\ TreeShaped(out.own)
        /\ \A q \in Paths : \/ Entry(out.own, q) = Entry(made, q)
                            \/ \E r \in Under(from) : Entry(out.own, q) = Entry(made, r)
    BY <2>4, <2>6, Zenon
  <2>8. NoLinkUnder(out.own, cp.src)
    BY <1>8, <2>5, <2>7
  <2>. QED
    BY <1>6, <2>7, <2>8
<1>12. CASE CopiesLink(rows, from, to, out.own)
  BY <1>2, <1>4, <1>12 DEF CopiesLink, NoLinkUnder
<1>13. CASE CopiesFile(rows, from, to, out.own)
  <2> DEFINE row == Entry(rows, from)
  <2>1. row \in Row /\ row # Absent
    BY <1>1, <1>2, <1>4, EntryIsRow DEF Shows
  <2>2. /\ out.own = Upserted(rows, to, row) /\ row.type # "symlink"
        /\ ShowsDirectory(rows, Parent(to)) /\ ~ShowsDirectory(rows, to)
    BY <1>13 DEF CopiesFile
  <2>3. row # Tombstone /\ from \in Under(from)
    BY <1>1, <1>2, <1>4, EntryIsRow, PrefixOrder DEF Shows, Under
  <2>4. \A q \in Paths : Entry(out.own, q) = IF q # to THEN Entry(rows, q) ELSE row
    <3> HIDE DEF row
    <3>. QED
      BY <1>2, <1>4, <2>1, <2>2, <2>3, EntryAfterUpsert
  <2>5. NoLinkUnder(out.own, cp.src)
    BY <1>2, <1>8, <2>3, <2>4
  <2>6. TreeShaped(out.own)
    <3> HIDE DEF row
    <3>. QED
      BY <1>2, <1>4, <2>1, <2>2, UpsertKeeps
  <2>. QED
    BY <1>6, <2>5, <2>6
<1>. QED
  BY <1>1, <1>3, <1>9, <1>10, <1>11, <1>12, <1>13 DEF rows

\* A copy without links keeps the tree.
LEMMA CpKeeps ==
  ASSUME OpsTyped, TreeShaped(own), NEW src \in Paths, NEW dest \in Paths, NoLinkUnder(own, src),
         CpOutcome(src, dest).status = "ok"
  PROVE  TreeShaped(CpOutcome(src, dest).own)
<1> DEFINE S == {cp \in Copies : CopiesKeep(cp)}
           start == Copying(own, cachedNodeCount, src, dest)
<1>1. start \in S
  <2>1. /\ start.src = src /\ start.dest = dest /\ start.own = own /\ start.todo = {src}
        /\ start \in Copies
    BY DEF Copying, Copies, OpsTyped
  <2>2. src \in Under(src)
    BY PrefixOrder DEF Under
  <2> HIDE DEF start
  <2>. QED
    BY <2>1, <2>2 DEF CopiesKeep
<1>2. \A cp \in S : cp.status = "ok" /\ cp.todo # {} => CopyOne(cp) \in S
  BY CopyOneKeeps DEF CopiesKeep
<1> HIDE DEF S
<1>3. CpOutcome(src, dest) \in S
  BY <1>1, <1>2, CpInduction
<1>. QED
  BY <1>3 DEF S, CopiesKeep

-----------------------------------------------------------------------------
(* Which operations keep the tree a tree.                                  *)

\* The steps KeepsTreeShape excuses.
BreaksTree ==
  \/ \E target \in Targets, p \in Paths : ShowsDirectory(own, p) /\ MakeSymlink(target, p)
  \/ \E src, dest \in Paths : /\ \E q \in Under(src) : Shows(own, q) /\ Entry(own, q).type = "symlink"
                              /\ Cp(src, dest, TRUE)
  \/ \E source \in Sources, selection \in Selections :
       \/ \E strategy \in Strategies : MergeVersion(source, strategy, selection)
       \/ CherryPick(source, selection)
       \/ /\ selection # Everything \/ ~IsTree(source.view)
          /\ Revert(source, selection)
  \/ ~Shows(own', Root)

\* A transaction that fails leaves the tree it found.
LEMMA EndsKeep ==
  ASSUME OpsTyped, TreeShaped(own), NEW outcome, Ends(outcome),
         outcome.status = "ok" => outcome.own \in RowMaps,
         outcome.status = "ok" /\ Shows(outcome.own, Root) => TreeShaped(outcome.own),
         Shows(own', Root)
  PROVE  TreeShaped(own')
<1>1. CASE outcome.status = "ok"
  <2>1. own' = outcome.own
    BY <1>1 DEF Ends, RowMaps
  <2>. QED
    BY <1>1, <2>1
<1>2. CASE outcome.status # "ok"
  <2>1. own' = own
    BY <1>2 DEF Ends, OpsTyped, RowMaps
  <2>. QED
    BY <2>1
<1>. QED
  BY <1>1, <1>2

\* A write leaves "/" alone.
LEMMA WrittenRows ==
  ASSUME NEW rows \in RowMaps, NEW count \in Counts, NEW p \in Paths, NEW content \in Contents,
         WriteOutcome(rows, count, p, content).status = "ok"
  PROVE  /\ WriteOutcome(rows, count, p, content).own \in RowMaps
         /\ Entry(WriteOutcome(rows, count, p, content).own, Root) = Entry(rows, Root)
<1> DEFINE outcome == WriteOutcome(rows, count, p, content)
           made == WithDirectories(rows, Parent(p))
<1>1. \/ WritesAtOnce(rows, count, p, content, outcome.own)
      \/ WritesBelow(rows, count, p, content, outcome.own)
  <2>1. outcome = WriteOutcome(rows, count, p, content) /\ outcome.status = "ok"
    OBVIOUS
  <2> HIDE DEF outcome
  <2>. QED
    BY <2>1, WriteIs
<1>2. made \in RowMaps /\ File(content, "0644") \in Row
  BY ParentInPaths, StatementsTyped, KindsOfRows
<1>3. Entry(made, Root) = Entry(rows, Root)
  BY ParentInPaths, RootIsAbove, SegmentsAre, DirectoriesShown
<1> HIDE DEF outcome
<1>4. \/ WriteStatus(rows, p) = "ok" /\ outcome.own = Upserted(rows, p, File(content, "0644"))
      \/ Parent(p) # Root /\ outcome.own = Upserted(made, p, File(content, "0644"))
  BY <1>1 DEF WritesAtOnce, WritesBelow
<1> HIDE DEF made
<1>5. p # Root
  <2>1. WriteStatus(rows, Root) # "ok"
    BY DEF WriteStatus, Parent, ShowsOther, ShowsDirectory
  <2>2. Parent(Root) = Root
    BY DEF Parent
  <2>. QED
    BY <1>4, <2>1, <2>2
<1>6. /\ outcome.own \in RowMaps
      /\ Entry(outcome.own, Root) = Entry(rows, Root)
  BY <1>2, <1>3, <1>4, <1>5, RootIsAbove, StatementsTyped, EntryAfterUpsert
<1>. QED
  BY <1>6 DEF outcome

LEMMA WriteStepKeeps ==
  ASSUME OpsTyped, TreeShaped(own), NEW rows \in RowMaps, Shows(own, Root) => TreeShaped(rows),
         NEW p \in Paths, NEW content \in Contents,
         Ends(WriteOutcome(rows, cachedNodeCount, p, content)), Shows(own', Root),
         Entry(rows, Root) = Entry(own, Root)
  PROVE  TreeShaped(own')
<1> DEFINE outcome == WriteOutcome(rows, cachedNodeCount, p, content)
<1>1. cachedNodeCount \in Counts
  BY DEF OpsTyped
<1>2. outcome.status = "ok" => /\ outcome.own \in RowMaps
                               /\ Entry(outcome.own, Root) = Entry(own, Root)
  BY <1>1, WrittenRows
<1>3. outcome.status = "ok" /\ Shows(outcome.own, Root) => TreeShaped(outcome.own)
  <2>1. outcome.status = "ok" /\ Shows(outcome.own, Root) => TreeShaped(rows)
    BY <1>2 DEF Shows
  <2>. QED
    BY <1>1, <2>1, WrittenKeeps
<1>4. Ends(outcome)
  OBVIOUS
<1> HIDE DEF outcome
<1>. QED
  BY <1>2, <1>3, <1>4, EndsKeep

LEMMA ChmodKeeps ==
  ASSUME OpsTyped, TreeShaped(own), NEW p \in Paths, NEW m \in Modes, Chmod(p, m)
  PROVE  TreeShaped(own')
<1> DEFINE reached == Followed(own, NothingHidden, p)
<1>0. own \in RowMaps
  BY DEF OpsTyped
<1>1. reached.error = "none" /\ own' = Upserted(own, reached.at, WithMode(Entry(own, reached.at), m))
  BY DEF Chmod, Commits
<1>2. \/ reached \in {Failed("ENOENT"), Failed("ELOOP"), Failed("EACCES")}
      \/ \E q \in Paths : reached = Found(q) /\ Visible(own, NothingHidden, q)
  BY <1>0, FollowedLeads
<1> HIDE DEF reached
<1>3. reached.at \in Paths /\ Shows(own, reached.at)
  BY <1>1, <1>2 DEF Failed, Found, Visible
<1> DEFINE at == reached.at
           old == Entry(own, at)
           row == WithMode(old, m)
<1>4. old \in Row \ {Tombstone} /\ m \in AllModes
  BY <1>0, <1>3, EntryIsRow DEF Shows, AllModes
<1>5. row \in Row \ {Tombstone} /\ row # Absent /\ row.type = old.type
  BY <1>4, KindsOfLinks, AbsentAssumption
<1>6. \A q \in Paths : Entry(own', q) = IF q # at THEN Entry(own, q) ELSE row
  <2> HIDE DEF row
  <2>. QED
    BY <1>0, <1>1, <1>3, <1>5, EntryAfterUpsert DEF row
<1>7. \A q \in Paths : /\ Shows(own', q) <=> Shows(own, q)
                       /\ ShowsDirectory(own', q) <=> ShowsDirectory(own, q)
  <2> HIDE DEF row
  <2>. QED
    BY <1>3, <1>5, <1>6 DEF Shows, ShowsDirectory
<1>. QED
  BY <1>7, ParentInPaths DEF TreeShaped

LEMMA RevertKeeps ==
  ASSUME NEW source \in Sources, IsTree(source.view), Revert(source, Everything)
  PROVE  TreeShaped(own')
<1>1. IsView(source.view)
  BY SourcesAssumption DEF IsView
<1>2. /\ RevertFrom(own, source, Everything).status = "ok"
      /\ own' = Merged(own, RevertFrom(own, source, Everything))
  BY DEF Revert, Applies, Commits
<1>3. View(own') = source.view
  BY <1>1, <1>2, RevertShowsSource
<1>4. \A q \in Paths : Entry(own', q) = source.view[q]
  <2>1. \A q \in Paths : View(own')[q] = Entry(own', q)
    BY DEF View
  <2>. QED
    BY <1>3, <2>1
<1>. QED
  BY <1>4, ParentInPaths DEF TreeShaped, IsTree, IsDirectory, Shows, ShowsDirectory

LEMMA NextKeepsTree ==
  ASSUME OpsTyped, TreeShaped(own), Next, ~BreaksTree
  PROVE  TreeShaped(own')
<1>0. own \in RowMaps /\ cachedNodeCount \in Counts /\ Shows(own', Root) /\ Root \in Paths
  BY RootIsAbove DEF OpsTyped, BreaksTree
<1>1. ASSUME NEW p \in Paths, NEW t \in Tokens, WriteFile(p, <<t>>) PROVE TreeShaped(own')
  <2>1. <<t>> \in Contents
    <3>1. <<>> \in [1..0 -> Tokens] /\ 0 \in 0..MaxFileSize
      BY SizeAssumption
    <3>2. <<>> \in Contents
      BY <3>1 DEF Contents
    <3>. QED
      BY <3>2, Joined
  <2>. QED
    BY <1>0, <1>1, <2>1, WriteStepKeeps DEF WriteFile
<1>2. ASSUME NEW p \in Paths, NEW t \in Tokens, AppendFile(p, t) PROVE TreeShaped(own')
  <2> DEFINE rows == WithDirectories(own, Parent(p))
             old == IF ShowsOther(rows, p) /\ Entry(rows, p).type = "file"
                    THEN Entry(rows, p).data ELSE <<>>
  <2>1. /\ rows \in RowMaps /\ Entry(rows, Root) = Entry(own, Root)
        /\ Shows(own, Root) => TreeShaped(rows)
    BY <1>0, ParentInPaths, StatementsTyped, SegmentsAre, DirectoriesShown, DirectoriesKeep
  <2>2. AppendFits(rows, p) /\ Ends(WriteOutcome(rows, cachedNodeCount, p, Append(old, t)))
    BY <1>2 DEF AppendFile
  <2> HIDE DEF rows
  <2>3. Append(old, t) \in Contents
    BY <2>1, <2>2, AppendedFits
  <2> HIDE DEF old
  <2>. QED
    BY <1>0, <2>1, <2>2, <2>3, WriteStepKeeps
<1>3. ASSUME NEW p \in Paths, NEW recursive \in BOOLEAN, Mkdir(p, recursive) PROVE TreeShaped(own')
  <2>1. CASE own' = WithDirectories(own, p)
    <3>1. Shows(own, Root)
      BY <1>0, <2>1, SegmentsAre, DirectoriesShown DEF Shows
    <3>. QED
      BY <2>1, <3>1, DirectoriesKeep
  <2>2. CASE /\ ~Shows(own, p) /\ ShowsDirectory(own, Parent(p))
             /\ own' = Upserted(own, p, Directory("0755"))
    <3>1. Directory("0755") \in Row /\ ~ShowsDirectory(own, p)
      BY <2>2, KindsOfRows DEF ShowsDirectory
    <3>. QED
      BY <1>0, <2>2, <3>1, UpsertKeeps
  <2>. QED
    BY <1>3, <2>1, <2>2 DEF Mkdir, Commits
<1>4. ASSUME NEW p \in Paths, RmRecursive(p) \/ RmOne(p) PROVE TreeShaped(own')
  <2>1. CASE RmRecursive(p)
    BY <2>1, RemovalKeeps DEF RmRecursive, Commits
  <2>2. CASE RmOne(p)
    <3>1. \A q \in Under(p) : q # p => ~Shows(own, q)
      BY <2>2, BelowIsShown DEF RmOne
    <3>2. own' = Upserted(own, p, Tombstone) /\ Tombstone \in Row
      BY <2>2, KindsOfRows DEF RmOne, Commits
    <3>. QED
      BY <1>0, <3>1, <3>2, BareKeeps
  <2>. QED
    BY <1>4, <2>1, <2>2
<1>5. ASSUME NEW src \in Paths, NEW dest \in Paths, Mv(src, dest) PROVE TreeShaped(own')
  <2>1. CanMove(src, dest) /\ own' = Moved(src, dest)
    BY <1>5 DEF Mv, Commits
  <2>. QED
    BY <1>0, <2>1, MoveKeeps
<1>6. ASSUME NEW src \in Paths, NEW dest \in Paths, NEW recursive \in BOOLEAN, Cp(src, dest, recursive)
      PROVE  TreeShaped(own')
  <2> DEFINE copy == CpOutcome(src, dest)
  <2>1. Cp(src, dest, TRUE) /\ Ends(copy)
    BY <1>6 DEF Cp
  <2>2. NoLinkUnder(own, src)
    BY <2>1 DEF BreaksTree, NoLinkUnder
  <2>3. copy \in Copies /\ copy.own \in RowMaps
    <3>1. copy \in Copies
      BY <1>0, CpEnds
    <3>. QED
      BY <3>1 DEF Copies
  <2>4. copy.status = "ok" => TreeShaped(copy.own)
    BY <2>2, CpKeeps
  <2> HIDE DEF copy
  <2>. QED
    BY <1>0, <2>1, <2>3, <2>4, EndsKeep
<1>7. ASSUME NEW target \in Targets, NEW p \in Paths, MakeSymlink(target, p) PROVE TreeShaped(own')
  <2>1. ~ShowsDirectory(own, p)
    BY <1>7 DEF BreaksTree
  <2>2. /\ Symlink(target) \in Row /\ ShowsDirectory(own, Parent(p))
        /\ own' = Upserted(own, p, Symlink(target))
    BY <1>7, TargetsAssumption, KindsOfLinks DEF MakeSymlink, Commits
  <2>. QED
    BY <1>0, <2>1, <2>2, UpsertKeeps
<1>8. ASSUME NEW src \in Paths, NEW dest \in Paths, Link(src, dest) PROVE TreeShaped(own')
  <2> DEFINE linked == Upserted(own, dest, Entry(own, src))
  <2>1. Entry(own, src) \in Row /\ ShowsDirectory(own, Parent(dest)) /\ ~ShowsDirectory(own, dest)
    BY <1>0, <1>8, EntryIsRow DEF Link, ShowsOther, Shows
  <2>2. linked \in RowMaps /\ TreeShaped(linked)
    BY <1>0, <2>1, StatementsTyped, UpsertKeeps
  <2>3. \/ Ends(Outcome("ok", linked, cachedNodeCount))
        \/ Ends(Outcome("limit", own, Counted(own, cachedNodeCount)))
        \/ Ends(Outcome("ok", linked, Counted(own, cachedNodeCount)))
    BY <1>8 DEF Link
  <2> HIDE DEF linked
  <2>. QED
    BY <1>0, <2>2, <2>3, EndsKeep, OutcomeIs
<1>9. ASSUME NEW p \in Paths, NEW m \in Modes, Chmod(p, m) PROVE TreeShaped(own')
  BY <1>9, ChmodKeeps
<1>10. ASSUME NEW source \in Sources, NEW selection \in Selections,
              \/ \E strategy \in Strategies : MergeVersion(source, strategy, selection)
              \/ CherryPick(source, selection)
              \/ Revert(source, selection)
       PROVE  TreeShaped(own')
  <2>1. Revert(source, selection) /\ selection = Everything /\ IsTree(source.view)
    BY <1>10 DEF BreaksTree
  <2>. QED
    BY <2>1, RevertKeeps
<1>. QED
  BY <1>1, <1>2, <1>3, <1>4, <1>5, <1>6, <1>7, <1>8, <1>9, <1>10 DEF Next

\* Operations leave a tree where they find one, but for those that may put
\* something else in the place of a directory, and merges (KeepsTreeShape).
THEOREM OperationsKeepTree == Spec => KeepsTreeShape
<1>1. OpsTyped /\ [Next]_vars => [TreeShaped(own) /\ ~TreeShaped(own') => BreaksTree]_vars
  BY NextKeepsTree
<1>. QED
  BY <1>1, OpsInvariant, PTL DEF Spec, KeepsTreeShape, BreaksTree

-----------------------------------------------------------------------------
(* How far a write goes past maxFiles.                                     *)

\* A path of n names has n directories above and at it.
LEMMA SegmentsCounted ==
  ASSUME NEW q \in Paths
  PROVE  IsFiniteSet(Segments(q)) /\ Cardinality(Segments(q)) <= Len(q)
<1> DEFINE f == [r \in Segments(q) |-> Len(r)]
<1>1. /\ q \in Seq(Names) /\ Len(q) \in Nat /\ SubSeq(q, 1, Len(q)) = q
  BY PathIsSeq, SubSeqFull
<1>2. ASSUME NEW r \in Segments(q)
      PROVE  r = SubSeq(q, 1, Len(r)) /\ Len(r) \in 1..Len(q)
  <2>1. r \in Paths /\ r # Root /\ (r = q \/ r \in Above(q))
    BY SegmentsAre DEF Segments, Above
  <2>2. r = SubSeq(q, 1, Len(r)) /\ Len(r) \in Nat /\ Len(r) <= Len(q)
    <3>1. CASE r = q
      BY <1>1, <3>1
    <3>2. CASE r \in Above(q)
      BY <1>1, <3>2, AboveIs
    <3>. QED
      BY <2>1, <3>1, <3>2
  <2>3. Len(r) # 0
    BY <2>1, PathIsSeq DEF Root
  <2>. QED
    BY <1>1, <2>2, <2>3
<1>3. f \in Injection(Segments(q), 1..Len(q))
  <2>1. f \in [Segments(q) -> 1..Len(q)] /\ \A r \in Segments(q) : f[r] = Len(r)
    BY <1>2
  <2> HIDE DEF f
  <2>2. \A r, s \in Segments(q) : f[r] = f[s] => r = s
    BY <1>2, <2>1
  <2>. QED
    BY <2>1, <2>2 DEF Injection, IsInjective
<1>4. IsFiniteSet(1..Len(q)) /\ Cardinality(1..Len(q)) = Len(q)
  <2>1. Cardinality(1..Len(q)) = IF 1 > Len(q) THEN 0 ELSE Len(q) - 1 + 1
    BY <1>1, FS_Interval
  <2>. QED
    BY <1>1, <2>1, FS_Interval
<1> HIDE DEF f
<1>. QED
  BY <1>3, <1>4, FS_Injection

\* Nodes of one version and of another that shows no more than it and a set.
LEMMA NodesGrow ==
  ASSUME NEW rows, NEW after, NEW added, IsFiniteSet(added),
         \A q \in Paths : Shows(after, q) => Shows(rows, q) \/ q \in added
  PROVE  /\ NodeCount(after) <= NodeCount(rows) + Cardinality(added)
         /\ NodeCount(after) \in Nat /\ NodeCount(rows) \in Nat /\ Cardinality(added) \in Nat
<1> DEFINE old == {q \in Paths : Shows(rows, q)}
           new == {q \in Paths : Shows(after, q)}
<1>1. IsFiniteSet(old) /\ IsFiniteSet(new)
  BY NodesCounted
<1>2. NodeCount(rows) = Cardinality(old) /\ NodeCount(after) = Cardinality(new)
  BY DEF NodeCount
<1>3. new \subseteq old \cup added
  OBVIOUS
<1> HIDE DEF old, new
<1>4. /\ IsFiniteSet(old \cup added)
      /\ Cardinality(old \cup added)
           = Cardinality(old) + Cardinality(added) - Cardinality(old \cap added)
  BY <1>1, FS_Union
<1>5. Cardinality(new) <= Cardinality(old \cup added)
  BY <1>3, <1>4, FS_Subset
<1>6. /\ Cardinality(old) \in Nat /\ Cardinality(new) \in Nat /\ Cardinality(added) \in Nat
      /\ Cardinality(old \cap added) \in Nat /\ Cardinality(old \cup added) \in Nat
  BY <1>1, <1>4, FS_CardinalityType, FS_Intersection
<1>. QED
  BY <1>2, <1>4, <1>5, <1>6

LEMMA OneMore ==
  ASSUME NEW rows \in RowMaps, NEW p \in Paths, NEW row \in Row
  PROVE  /\ NodeCount(Upserted(rows, p, row)) <= NodeCount(rows) + 1
         /\ NodeCount(Upserted(rows, p, row)) \in Nat /\ NodeCount(rows) \in Nat
         /\ Shows(rows, p) => NodeCount(Upserted(rows, p, row)) <= NodeCount(rows)
<1> DEFINE after == Upserted(rows, p, row)
<1>1. \A q \in Paths : q # p => Entry(after, q) = Entry(rows, q)
  BY EntryAfterUpsert
<1>2. IsFiniteSet({p}) /\ Cardinality({p}) = 1 /\ IsFiniteSet({}) /\ Cardinality({}) = 0
  BY FS_Singleton, FS_EmptySet
<1> HIDE DEF after
<1>3. \A q \in Paths : Shows(after, q) => Shows(rows, q) \/ q \in {p}
  BY <1>1 DEF Shows
<1>4. /\ NodeCount(after) <= NodeCount(rows) + Cardinality({p})
      /\ NodeCount(after) \in Nat /\ NodeCount(rows) \in Nat
  BY <1>2, <1>3, NodesGrow
<1>5. ASSUME Shows(rows, p) PROVE NodeCount(after) <= NodeCount(rows)
  <2>1. \A q \in Paths : Shows(after, q) => Shows(rows, q) \/ q \in {}
    BY <1>3, <1>5
  <2>2. NodeCount(after) <= NodeCount(rows) + Cardinality({})
    BY <1>2, <2>1, NodesGrow
  <2>. QED
    BY <1>2, <1>4, <2>2
<1>. QED
  BY <1>2, <1>4, <1>5 DEF after

LEMMA ManyMore ==
  ASSUME NEW rows, NEW q \in Paths
  PROVE  /\ NodeCount(WithDirectories(rows, q)) <= NodeCount(rows) + Len(q)
         /\ NodeCount(WithDirectories(rows, q)) \in Nat /\ NodeCount(rows) \in Nat
<1> DEFINE after == WithDirectories(rows, q)
           added == Segments(q)
<1>1. IsFiniteSet(added) /\ Cardinality(added) <= Len(q) /\ Len(q) \in Nat
  BY SegmentsCounted, PathIsSeq
<1>2. \A r \in Paths : r \notin added => Entry(after, r) = Entry(rows, r)
  BY DirectoriesShown
<1> HIDE DEF after, added
<1>3. \A r \in Paths : Shows(after, r) => Shows(rows, r) \/ r \in added
  BY <1>2 DEF Shows
<1>4. /\ NodeCount(after) <= NodeCount(rows) + Cardinality(added)
      /\ NodeCount(after) \in Nat /\ NodeCount(rows) \in Nat /\ Cardinality(added) \in Nat
  BY <1>1, <1>3, NodesGrow
<1>. QED
  BY <1>1, <1>4 DEF after

\* What a write that counted leaves.
LEMMA WriteWithin ==
  ASSUME NEW rows \in RowMaps, NEW count \in Counts, ~HasHeadroom(count), NEW p \in Paths,
         NEW content \in Contents,
         Shows(rows, Parent(p)) \/ Len(p) <= Headroom + 1,
         WriteOutcome(rows, count, p, content).status = "ok"
  PROVE  NodeCount(WriteOutcome(rows, count, p, content).own) <= MaxFiles
<1> DEFINE outcome == WriteOutcome(rows, count, p, content)
           made == WithDirectories(rows, Parent(p))
           row == File(content, "0644")
<1>1. \/ WritesAtOnce(rows, count, p, content, outcome.own)
      \/ WritesBelow(rows, count, p, content, outcome.own)
  <2>1. outcome = WriteOutcome(rows, count, p, content) /\ outcome.status = "ok"
    OBVIOUS
  <2> HIDE DEF outcome
  <2>. QED
    BY <2>1, WriteIs
<1>2. /\ made \in RowMaps /\ row \in Row /\ Parent(p) \in Paths
      /\ MaxFiles \in Nat /\ Headroom \in Nat
  BY ParentInPaths, StatementsTyped, KindsOfRows, LimitsAssumption
<1>3. /\ NodeCount(made) <= NodeCount(rows) + Len(Parent(p))
      /\ NodeCount(made) \in Nat /\ NodeCount(rows) \in Nat
  BY <1>2, ManyMore
<1> HIDE DEF outcome, row
<1>4. CASE WritesAtOnce(rows, count, p, content, outcome.own)
  <2>1. NodeCount(rows) < MaxFiles /\ outcome.own = Upserted(rows, p, row)
    BY <1>4 DEF WritesAtOnce, ValidNodeCount, row
  <2>2. NodeCount(outcome.own) <= NodeCount(rows) + 1 /\ NodeCount(outcome.own) \in Nat
    BY <1>2, <2>1, OneMore
  <2>3. NodeCount(outcome.own) <= MaxFiles
    BY <1>2, <1>3, <2>1, <2>2
  <2>. QED
    BY <2>3 DEF outcome
<1>5. CASE WritesBelow(rows, count, p, content, outcome.own)
  <2>1. /\ WriteStatus(rows, p) = "enoent" /\ Parent(p) # Root
        /\ ValidNodeCount(made, Trusted(rows, count))
        /\ outcome.own = Upserted(made, p, row)
    BY <1>5 DEF WritesBelow, row
  <2> HIDE DEF made
  <2>2. NodeCount(outcome.own) <= NodeCount(made) + 1 /\ NodeCount(outcome.own) \in Nat
    BY <1>2, <2>1, OneMore
  <2>3. p # Root /\ Len(Parent(p)) = Len(p) - 1 /\ Len(p) \in Nat
    <3>1. p # Root
      BY <2>1 DEF Parent
    <3>. QED
      BY <3>1, ParentIsAbove, PathIsSeq
  <2>4. Len(p) <= Headroom + 1
    <3>1. ~Shows(rows, Parent(p))
      BY <2>1 DEF WriteStatus, ShowsOther, ShowsDirectory
    <3>. QED
      BY <3>1
  <2>5. NodeCount(rows) + Headroom < MaxFiles \/ NodeCount(made) < MaxFiles
    <3>1. Trusted(rows, count) = NodeCount(rows)
      BY DEF Trusted
    <3>. QED
      BY <2>1, <3>1 DEF ValidNodeCount, HasHeadroom
  <2>6. NodeCount(outcome.own) <= MaxFiles
    <3>1. CASE NodeCount(rows) + Headroom < MaxFiles
      BY <1>2, <1>3, <2>2, <2>3, <2>4, <3>1
    <3>2. CASE NodeCount(made) < MaxFiles
      BY <1>2, <1>3, <2>2, <3>2
    <3>. QED
      BY <2>5, <3>1, <3>2
  <2>. QED
    BY <2>6 DEF outcome
<1>. QED
  BY <1>1, <1>4, <1>5

LEMMA SameWithin ==
  ASSUME OpsTyped, NEW outcome, Ends(outcome), outcome.status = "ok" => outcome.own \in RowMaps
  PROVE  /\ outcome.status = "ok" => own' = outcome.own
         /\ outcome.status # "ok" => own' = own
BY DEF Ends, OpsTyped, RowMaps

\* What a write, an append or a link of an instance that counts leaves.
Within == NodeCount(own') <= MaxFiles \/ NodeCount(own') <= NodeCount(own)

LEMMA StaysWithin ==
  ASSUME own' = own
  PROVE  Within
<1>1. NodeCount(own) \in Nat
  BY NodesCounted
<1>. QED
  BY <1>1 DEF Within

LEMMA WriteStepWithin ==
  ASSUME OpsTyped, ~HasHeadroom(cachedNodeCount), NEW rows \in RowMaps,
         NEW p \in Paths, NEW content \in Contents,
         Shows(rows, Parent(p)) \/ Len(p) <= Headroom + 1,
         Ends(WriteOutcome(rows, cachedNodeCount, p, content))
  PROVE  Within
<1> DEFINE outcome == WriteOutcome(rows, cachedNodeCount, p, content)
<1>1. cachedNodeCount \in Counts /\ Ends(outcome)
  BY DEF OpsTyped
<1>2. outcome.status = "ok" => outcome.own \in RowMaps /\ NodeCount(outcome.own) <= MaxFiles
  BY <1>1, WrittenRows, WriteWithin
<1> HIDE DEF outcome
<1>3. outcome.status = "ok" => own' = outcome.own
  BY <1>1, <1>2, SameWithin
<1>4. outcome.status # "ok" => own' = own
  BY <1>1, <1>2, SameWithin
<1>. QED
  BY <1>2, <1>3, <1>4, StaysWithin DEF Within

LEMMA LinkWithin ==
  ASSUME OpsTyped, ~HasHeadroom(cachedNodeCount), NEW src \in Paths, NEW dest \in Paths, Link(src, dest)
  PROVE  Within
<1> DEFINE linked == Upserted(own, dest, Entry(own, src))
<1>1. own \in RowMaps /\ Entry(own, src) \in Row
  BY EntryIsRow DEF OpsTyped, Link, ShowsOther, Shows
<1>2. /\ linked \in RowMaps
      /\ NodeCount(linked) <= NodeCount(own) + 1
      /\ NodeCount(linked) \in Nat /\ NodeCount(own) \in Nat
      /\ Shows(own, dest) => NodeCount(linked) <= NodeCount(own)
  BY <1>1, StatementsTyped, OneMore
<1>3. \/ Shows(own, dest) /\ Ends(Outcome("ok", linked, cachedNodeCount))
      \/ Ends(Outcome("limit", own, Counted(own, cachedNodeCount)))
      \/ /\ ValidNodeCount(own, cachedNodeCount)
         /\ Ends(Outcome("ok", linked, Counted(own, cachedNodeCount)))
  BY DEF Link
<1> HIDE DEF linked
<1>4. \A count : Ends(Outcome("ok", linked, count)) => own' = linked
  BY <1>2, SameWithin, OutcomeIs
<1>5. \A count : Ends(Outcome("limit", own, count)) => own' = own
  BY <1>1, SameWithin, OutcomeIs
<1>6. ValidNodeCount(own, cachedNodeCount) => NodeCount(own) < MaxFiles /\ MaxFiles \in Nat
  BY LimitsAssumption DEF ValidNodeCount
<1>7. CASE Shows(own, dest) /\ own' = linked
  BY <1>2, <1>7 DEF Within
<1>8. CASE NodeCount(own) < MaxFiles /\ MaxFiles \in Nat /\ own' = linked
  <2>1. NodeCount(linked) <= MaxFiles
    BY <1>2, <1>8
  <2>. QED
    BY <1>8, <2>1 DEF Within
<1>9. CASE own' = own
  BY <1>9, StaysWithin
<1>. QED
  BY <1>3, <1>4, <1>5, <1>6, <1>7, <1>8, <1>9

LEMMA NextWithin ==
  ASSUME OpsTyped, ~HasHeadroom(cachedNodeCount), NEW p \in Paths,
         \/ Len(p) <= Headroom + 1 /\ \E t \in Tokens : WriteFile(p, <<t>>)
         \/ \E t \in Tokens : AppendFile(p, t)
         \/ \E src \in Paths : Link(src, p)
  PROVE  Within
<1>0. own \in RowMaps
  BY DEF OpsTyped
<1>1. ASSUME NEW t \in Tokens, WriteFile(p, <<t>>), Len(p) <= Headroom + 1 PROVE Within
  <2>1. <<t>> \in Contents
    <3>1. <<>> \in [1..0 -> Tokens] /\ 0 \in 0..MaxFileSize
      BY SizeAssumption
    <3>2. <<>> \in Contents
      BY <3>1 DEF Contents
    <3>. QED
      BY <3>2, Joined
  <2>. QED
    BY <1>0, <1>1, <2>1, WriteStepWithin DEF WriteFile
<1>2. ASSUME NEW t \in Tokens, AppendFile(p, t) PROVE Within
  <2> DEFINE rows == WithDirectories(own, Parent(p))
             old == IF ShowsOther(rows, p) /\ Entry(rows, p).type = "file"
                    THEN Entry(rows, p).data ELSE <<>>
  <2>1. rows \in RowMaps
    BY <1>0, ParentInPaths, StatementsTyped
  <2>2. Shows(rows, Parent(p)) \/ Parent(p) = Root
    BY ParentInPaths, SegmentsAre, DirectoriesShown DEF ShowsDirectory
  <2>3. AppendFits(rows, p) /\ Ends(WriteOutcome(rows, cachedNodeCount, p, Append(old, t)))
    BY <1>2 DEF AppendFile
  <2> HIDE DEF rows
  <2>4. Append(old, t) \in Contents
    BY <2>1, <2>3, AppendedFits
  <2>5. Parent(p) = Root => Len(p) <= Headroom + 1
    <3>1. CASE p = Root
      BY <3>1, LimitsAssumption DEF Root
    <3>2. CASE p # Root /\ Parent(p) = Root
      <4>1. Len(Parent(p)) = Len(p) - 1 /\ Len(Parent(p)) = 0 /\ Len(p) \in Nat /\ Headroom \in Nat
        BY <3>2, ParentIsAbove, PathIsSeq, LimitsAssumption DEF Root
      <4>2. Len(p) = 1
        BY <4>1
      <4>. QED
        BY <4>1, <4>2
    <3>. QED
      BY <3>1, <3>2
  <2> HIDE DEF old
  <2>. QED
    BY <2>1, <2>2, <2>3, <2>4, <2>5, WriteStepWithin
<1>3. ASSUME NEW src \in Paths, Link(src, p) PROVE Within
  BY <1>3, LinkWithin
<1>. QED
  BY <1>1, <1>2, <1>3

\* A write, an append or a link goes past maxFiles only on a count the
\* instance trusted, or by the directories of a deep path (WritesKeepLimit).
THEOREM WritesKeepNodeLimit == Spec => WritesKeepLimit
<1> DEFINE Writes == \E p \in Paths : \/ Len(p) <= Headroom + 1 /\ \E t \in Tokens : WriteFile(p, <<t>>)
                                      \/ \E t \in Tokens : AppendFile(p, t)
                                      \/ \E src \in Paths : Link(src, p)
           Holds == \/ NodeCount(own') <= MaxFiles
                    \/ NodeCount(own') <= NodeCount(own)
                    \/ HasHeadroom(cachedNodeCount)
                    \/ ~Writes
<1>1. OpsTyped => Holds
  BY NextWithin DEF Within
<1>2. Spec => [][Holds]_vars
  <2> HIDE DEF Holds
  <2>. QED
    BY <1>1, OpsInvariant, PTL DEF Spec
<1>. QED
  BY <1>2 DEF WritesKeepLimit

-----------------------------------------------------------------------------
(* What cp adds.                                                           *)

\* What lies under a path between the two.
LEMMA ChildTowards ==
  ASSUME NEW rows, TreeShaped(rows), NEW p \in Paths, NEW q \in Under(p), q # p, Shows(rows, q)
  PROVE  \E r \in Children(rows, p) : q \in Under(r)
<1>1. q \in Paths /\ IsPrefix(p, q) /\ Len(p) < Len(q)
  BY AboveAreStrict DEF Under
<1>2. /\ p \in Seq(Names) /\ q \in Seq(Names) /\ Len(p) \in Nat /\ Len(q) \in Nat
  BY <1>1, PathIsSeq
<1> DEFINE r == SubSeq(q, 1, Len(p) + 1)
<1>3. Len(p) + 1 \in 0..Len(q)
  BY <1>1, <1>2
<1>4. r \in Seq(Names) /\ Len(r) = Len(p) + 1 /\ \A i \in 1..(Len(p) + 1) : r[i] = q[i]
  BY <1>2, <1>3
<1>5. r \in Prefixes(q)
  BY <1>3 DEF Prefixes
<1> HIDE DEF r
<1>6. r \in Paths /\ IsPrefix(r, q)
  <2>1. CASE r = q
    BY <1>1, <2>1, PrefixOrder
  <2>2. CASE r # q
    <3>1. r \in Above(q)
      BY <1>5, <2>2 DEF Above
    <3>. QED
      BY <1>1, <3>1, AboveIs DEF IsStrictPrefix
  <2>. QED
    BY <2>1, <2>2
<1>7. q \in Under(r)
  BY <1>1, <1>6 DEF Under
<1>8. Shows(rows, r)
  <2>1. CASE r = q
    BY <2>1
  <2>2. CASE r # q
    BY <1>6, <1>7, <2>2, BelowIsShown DEF ShowsDirectory
  <2>. QED
    BY <2>1, <2>2
<1>9. IsPrefix(p, r)
  <2>1. Len(p) <= Len(q) /\ \A i \in 1..Len(p) : p[i] = q[i]
    BY <1>1, <1>2, PrefixIs
  <2>2. Len(p) <= Len(r) /\ \A i \in 1..Len(p) : p[i] = r[i]
    BY <1>2, <1>4, <2>1
  <2>. QED
    BY <1>2, <1>4, <2>2, PrefixIs
<1>10. r \in Children(rows, p)
  BY <1>4, <1>6, <1>8, <1>9 DEF Children, Under
<1>. QED
  BY <1>7, <1>10

\* The prefixes of a path are paths.
LEMMA PrefixInPaths ==
  ASSUME NEW p \in Paths, NEW q \in Seq(Names), IsPrefix(q, p)
  PROVE  q \in Paths /\ p \in Under(q) /\ (q = p \/ q \in Above(p)) /\ (q # Root => q \in Segments(p))
<1>1. /\ p \in Seq(Names) /\ Len(p) \in Nat /\ Len(q) \in Nat
  BY PathIsSeq
<1>2. Len(q) <= Len(p) /\ q = SubSeq(p, 1, Len(q))
  BY <1>1, PrefixIs DEF IsPrefix
<1>3. Len(q) \in 0..Len(p)
  BY <1>1, <1>2
<1>4. q \in Prefixes(p)
  BY <1>2, <1>3 DEF Prefixes
<1>5. q = p \/ q \in Above(p)
  BY <1>4 DEF Above
<1>6. q \in Paths
  BY <1>5, AboveIs
<1>. QED
  BY <1>4, <1>5, <1>6 DEF Under, Segments

\* Images keep the order of paths.
LEMMA ImageOrder ==
  ASSUME NEW src \in Paths, NEW dest \in Paths, NEW p \in Under(src), NEW q \in Under(src), IsPrefix(p, q)
  PROVE  IsPrefix(Image(p, src, dest), Image(q, src, dest))
<1> DEFINE a == Image(p, src, dest)
           b == Image(q, src, dest)
<1>1. /\ p \in Paths /\ q \in Paths /\ p \in Seq(Names) /\ q \in Seq(Names)
      /\ Len(src) \in Nat /\ Len(dest) \in Nat /\ Len(p) \in Nat /\ Len(q) \in Nat
      /\ Len(src) <= Len(p) /\ Len(p) <= Len(q) /\ \A i \in 1..Len(p) : p[i] = q[i]
  BY PathIsSeq, PrefixOrder, PrefixIs DEF Under
<1>2. /\ a \in Seq(Names) /\ Len(a) = Len(dest) + (Len(p) - Len(src))
      /\ \A i \in 1..Len(dest) : a[i] = dest[i]
      /\ \A i \in 1..(Len(p) - Len(src)) : a[Len(dest) + i] = p[Len(src) + i]
  BY ImageAt
<1>3. /\ b \in Seq(Names) /\ Len(b) = Len(dest) + (Len(q) - Len(src))
      /\ \A i \in 1..Len(dest) : b[i] = dest[i]
      /\ \A i \in 1..(Len(q) - Len(src)) : b[Len(dest) + i] = q[Len(src) + i]
  BY ImageAt
<1> HIDE DEF a, b
<1>4. ASSUME NEW i \in 1..Len(a) PROVE a[i] = b[i]
  <2>1. CASE i <= Len(dest)
    <3>1. i \in 1..Len(dest)
      BY <1>1, <1>2, <2>1
    <3>. QED
      BY <1>2, <1>3, <3>1
  <2>2. CASE ~(i <= Len(dest))
    <3>1. /\ i - Len(dest) \in 1..(Len(p) - Len(src)) /\ Len(dest) + (i - Len(dest)) = i
          /\ i - Len(dest) \in 1..(Len(q) - Len(src))
          /\ Len(src) + (i - Len(dest)) \in 1..Len(p)
      BY <1>1, <1>2, <2>2
    <3>2. a[Len(dest) + (i - Len(dest))] = b[Len(dest) + (i - Len(dest))]
      BY <1>1, <1>2, <1>3, <3>1
    <3>. QED
      BY <3>1, <3>2
  <2>. QED
    BY <2>1, <2>2
<1>5. Len(a) <= Len(b)
  BY <1>1, <1>2, <1>3
<1>6. IsPrefix(a, b)
  BY <1>2, <1>3, <1>4, <1>5, PrefixIs
<1>. QED
  BY <1>6 DEF a, b

\* The image of what lies under a path is under the image of the path.
LEMMA ImageThrough ==
  ASSUME NEW src \in Paths, NEW dest \in Paths, NEW from \in Under(src),
         NEW to \in Paths, to = Image(from, src, dest), NEW q \in Under(from)
  PROVE  q \in Under(src) /\ Image(q, src, dest) = Image(q, from, to)
<1> DEFINE a == Image(q, src, dest)
           b == Image(q, from, to)
<1>1. /\ from \in Paths /\ q \in Paths /\ IsPrefix(src, from) /\ IsPrefix(from, q)
      /\ q \in Under(src)
  BY PrefixOrder DEF Under
<1>2. /\ Len(src) \in Nat /\ Len(dest) \in Nat /\ Len(from) \in Nat /\ Len(q) \in Nat /\ Len(to) \in Nat
      /\ Len(src) <= Len(from) /\ Len(from) <= Len(q)
      /\ from \in Seq(Names) /\ q \in Seq(Names) /\ to \in Seq(Names)
  BY <1>1, PathIsSeq, PrefixOrder
<1>3. \A i \in 1..Len(from) : from[i] = q[i]
  BY <1>1, <1>2, PrefixIs
<1>4. /\ a \in Seq(Names) /\ Len(a) = Len(dest) + (Len(q) - Len(src))
      /\ \A i \in 1..Len(dest) : a[i] = dest[i]
      /\ \A i \in 1..(Len(q) - Len(src)) : a[Len(dest) + i] = q[Len(src) + i]
  BY <1>1, ImageAt
<1>5. /\ b \in Seq(Names) /\ Len(b) = Len(to) + (Len(q) - Len(from))
      /\ \A i \in 1..Len(to) : b[i] = to[i]
      /\ \A i \in 1..(Len(q) - Len(from)) : b[Len(to) + i] = q[Len(from) + i]
  BY <1>1, ImageAt
<1>6. /\ Len(to) = Len(dest) + (Len(from) - Len(src))
      /\ \A i \in 1..Len(dest) : to[i] = dest[i]
      /\ \A i \in 1..(Len(from) - Len(src)) : to[Len(dest) + i] = from[Len(src) + i]
  <2>1. /\ Len(Image(from, src, dest)) = Len(dest) + (Len(from) - Len(src))
        /\ \A i \in 1..Len(dest) : Image(from, src, dest)[i] = dest[i]
        /\ \A i \in 1..(Len(from) - Len(src)) :
             Image(from, src, dest)[Len(dest) + i] = from[Len(src) + i]
    BY ImageAt
  <2>. QED
    BY <2>1
<1> HIDE DEF a, b
<1>7. Len(a) = Len(b)
  BY <1>2, <1>4, <1>5, <1>6
<1>8. ASSUME NEW i \in 1..Len(a) PROVE a[i] = b[i]
  <2>1. CASE i <= Len(dest)
    <3>1. i \in 1..Len(dest) /\ i \in 1..Len(to)
      BY <1>2, <1>6, <2>1
    <3>. QED
      BY <1>4, <1>5, <1>6, <3>1
  <2>2. CASE ~(i <= Len(dest)) /\ i <= Len(to)
    <3>1. /\ i - Len(dest) \in 1..(Len(from) - Len(src)) /\ Len(dest) + (i - Len(dest)) = i
          /\ i - Len(dest) \in 1..(Len(q) - Len(src))
          /\ Len(src) + (i - Len(dest)) \in 1..Len(from) /\ i \in 1..Len(to)
      BY <1>2, <1>6, <2>2
    <3>2. a[Len(dest) + (i - Len(dest))] = to[Len(dest) + (i - Len(dest))]
      BY <1>3, <1>4, <1>6, <3>1
    <3>. QED
      BY <1>5, <3>1, <3>2
  <2>3. CASE ~(i <= Len(to))
    <3>1. /\ i - Len(to) \in 1..(Len(q) - Len(from)) /\ Len(to) + (i - Len(to)) = i
          /\ i - Len(dest) \in 1..(Len(q) - Len(src)) /\ Len(dest) + (i - Len(dest)) = i
          /\ Len(src) + (i - Len(dest)) = Len(from) + (i - Len(to))
      BY <1>2, <1>4, <1>6, <2>3
    <3>2. b[Len(to) + (i - Len(to))] = q[Len(from) + (i - Len(to))]
      BY <1>5, <3>1
    <3>3. a[Len(dest) + (i - Len(dest))] = q[Len(src) + (i - Len(dest))]
      BY <1>4, <3>1
    <3>. QED
      BY <3>1, <3>2, <3>3
  <2>. QED
    BY <1>2, <1>6, <2>1, <2>2, <2>3
<1>9. a = b
  BY <1>4, <1>5, <1>7, <1>8, SeqEqual
<1>. QED
  BY <1>1, <1>9 DEF a, b

\* Where a copy of src belongs, and one that has arrived.
InImage(src, dest, p) ==
  p \in Under(dest) /\ Image(p, dest, src) \in Paths /\ Shows(own, Image(p, dest, src))
Arrived(rows, src, dest, p) ==
  /\ Shows(rows, p)
  /\ Entry(rows, p).type = Entry(own, Image(p, dest, src)).type
  /\ Entry(rows, p).data = Entry(own, Image(p, dest, src)).data

\* A call of cp leaves the source as it is and, but for the directories above
\* the destination, changes only what becomes a copy.
Adds(rows, after, src, dest) ==
  /\ \A q \in Under(src) : Entry(after, q) = Entry(rows, q)
  /\ \A p \in Paths : \/ Entry(after, p) = Entry(rows, p)
                      \/ InImage(src, dest, p) /\ Arrived(after, src, dest, p)
                      \/ ~InImage(src, dest, p) /\ p \in Segments(dest)

\* What is not copied yet is under an entry still to be copied.
CopiesAdd(cp) ==
  /\ cp \in Copies
  /\ cp.status = "ok" =>
       /\ cp.todo \subseteq Under(cp.src)
       /\ Adds(own, cp.own, cp.src, cp.dest)
       /\ \A p \in Paths : InImage(cp.src, cp.dest, p) =>
            \/ Arrived(cp.own, cp.src, cp.dest, p)
            \/ \E t \in cp.todo : Image(p, cp.dest, cp.src) \in Under(t)
       /\ cp.src \in cp.todo => cp.own = own /\ cp.todo = {cp.src}

LEMMA AddsTwice ==
  ASSUME NEW rows, NEW at, NEW after, NEW src, NEW dest,
         Adds(rows, at, src, dest), Adds(at, after, src, dest)
  PROVE  Adds(rows, after, src, dest)
<1>1. \A q \in Under(src) : Entry(after, q) = Entry(rows, q)
  BY DEF Adds
<1>2. ASSUME NEW p \in Paths
      PROVE  \/ Entry(after, p) = Entry(rows, p)
             \/ InImage(src, dest, p) /\ Arrived(after, src, dest, p)
             \/ ~InImage(src, dest, p) /\ p \in Segments(dest)
  <2>1. CASE Entry(after, p) # Entry(at, p)
    BY <2>1 DEF Adds
  <2>2. CASE Entry(after, p) = Entry(at, p)
    BY <2>2 DEF Adds, Arrived, Shows
  <2>. QED
    BY <2>1, <2>2
<1>. QED
  BY <1>1, <1>2 DEF Adds

\* Of an entry under src, where it goes and where that comes from.
LEMMA ImagePlace ==
  ASSUME NEW src \in Paths, NEW dest \in Paths, NEW from \in Under(src), NEW to \in Paths,
         to = Image(from, src, dest), Shows(own, from)
  PROVE  /\ from \in Paths /\ to \in Under(dest) /\ Image(to, dest, src) = from
         /\ InImage(src, dest, to) /\ Under(from) \subseteq Under(src)
         /\ \A p \in Under(to) : p \in Under(dest) /\ Image(p, dest, src) = Image(p, to, from)
         /\ \A p \in Paths : InImage(src, dest, p) /\ Image(p, dest, src) \in Under(from) =>
              p \in Under(to) /\ (Image(p, dest, src) = from <=> p = to)
<1>1. from \in Paths /\ to \in Under(dest) /\ Image(to, dest, src) = from
  BY ImageBack DEF Under
<1>2. InImage(src, dest, to)
  BY <1>1 DEF InImage
<1>3. Under(from) \subseteq Under(src)
  BY <1>1, PrefixOrder DEF Under
<1>4. \A p \in Under(to) : p \in Under(dest) /\ Image(p, dest, src) = Image(p, to, from)
  BY <1>1, ImageThrough
<1>5. ASSUME NEW p \in Paths, InImage(src, dest, p), Image(p, dest, src) \in Under(from)
      PROVE  p \in Under(to) /\ (Image(p, dest, src) = from <=> p = to)
  <2> DEFINE r == Image(p, dest, src)
  <2>1. r \in Paths /\ r = Image(p, dest, src) /\ p \in Under(dest) /\ r \in Under(from)
    BY <1>5 DEF InImage
  <2> HIDE DEF r
  <2>2. Image(r, src, dest) = p
    BY <2>1, ImageBack
  <2>3. Image(r, from, to) = p
    BY <2>1, <2>2, ImageThrough
  <2>4. p \in Under(to) /\ (p = to <=> r = from)
    <3>1. \A q \in Under(from) : IsPrefix(to, Image(q, from, to)) /\ (Image(q, from, to) = to <=> q = from)
      BY <1>1, ImageIs
    <3>. QED
      BY <2>1, <2>3, <3>1 DEF Under
  <2>. QED
    BY <2>1, <2>4
<1>. QED
  BY <1>1, <1>2, <1>3, <1>4, <1>5

\* Neither the copies nor the directories above them are in the source.
LEMMA CopiesOutside ==
  ASSUME NEW src \in Paths, NEW dest \in Paths, Apart(src, dest)
  PROVE  /\ \A p \in Paths : InImage(src, dest, p) =>
              p \notin Under(src) /\ Segments(p) \cap Under(src) = {}
<1> SUFFICES ASSUME NEW p \in Paths, InImage(src, dest, p)
             PROVE  p \notin Under(src) /\ Segments(p) \cap Under(src) = {}
  OBVIOUS
<1> DEFINE r == Image(p, dest, src)
<1>1. r \in Paths /\ r = Image(p, dest, src) /\ p \in Under(dest) /\ Shows(own, r)
  BY DEF InImage
<1> HIDE DEF r
<1>2. r \in Under(src) /\ Image(r, src, dest) = p
  BY <1>1, ImageBack
<1>3. p \notin Under(src)
  BY <1>1, <1>2 DEF Apart
<1>4. ASSUME NEW s \in Segments(p), s \in Under(src) PROVE FALSE
  <2>1. s \in Paths /\ IsPrefix(s, p)
    BY <1>4, SegmentsAre, AboveIs, PrefixOrder DEF Segments, Above, IsStrictPrefix
  <2>2. p \in Under(src)
    BY <1>4, <2>1, PrefixOrder DEF Under
  <2>. QED
    BY <1>3, <2>2
<1>. QED
  BY <1>3, <1>4

\* A directory is like another one, but for its mode.
LEMMA DirectoriesAlike ==
  ASSUME NEW a \in RowMaps, NEW p \in Paths, ShowsDirectory(a, p)
  PROVE  Entry(a, p).type = "directory" /\ Entry(a, p).data = <<>>
<1>1. Entry(a, p) \in Row
  BY EntryIsRow DEF ShowsDirectory, Shows
<1>. QED
  BY <1>1, KindsOfLinks DEF ShowsDirectory

\* The directories made on the way are copies of those in the source, or
\* above the destination.
LEMMA DirectoriesAdd ==
  ASSUME OpsTyped, TreeShaped(own), NEW src \in Paths, NEW dest \in Paths, Apart(src, dest),
         NEW rows \in RowMaps, NEW from \in Under(src), NEW to \in Paths,
         to = Image(from, src, dest), ShowsDirectory(own, from)
  PROVE  Adds(rows, WithDirectories(rows, to), src, dest)
<1> DEFINE made == WithDirectories(rows, to)
<1>1. /\ from \in Paths /\ to \in Under(dest) /\ Image(to, dest, src) = from
      /\ InImage(src, dest, to)
  BY ImagePlace DEF ShowsDirectory
<1>2. made \in RowMaps
  BY StatementsTyped
<1>3. /\ \A q \in Paths : q \in Segments(to) => ShowsDirectory(made, q)
      /\ \A q \in Paths : q \notin Segments(to) => Entry(made, q) = Entry(rows, q)
  BY DirectoriesShown
<1> HIDE DEF made
<1>4. \A q \in Under(src) : Entry(made, q) = Entry(rows, q)
  BY <1>1, <1>3, CopiesOutside DEF Under
<1>5. ASSUME NEW p \in Segments(to)
      PROVE  \/ InImage(src, dest, p) /\ Arrived(made, src, dest, p)
             \/ ~InImage(src, dest, p) /\ p \in Segments(dest)
  <2>1. p \in Paths /\ p # Root /\ IsPrefix(p, to) /\ p \in Seq(Names) /\ IsPrefix(dest, to)
    <3>1. p \in Paths /\ p # Root
      BY SegmentsAre
    <3>2. p = to \/ p \in Above(to)
      BY DEF Segments, Above
    <3>3. IsPrefix(p, to)
      BY <3>2, AboveIs, PrefixOrder DEF IsStrictPrefix
    <3>. QED
      BY <1>1, <3>1, <3>3, PathIsSeq DEF Under
  <2>2. CASE IsPrefix(dest, p)
    <3> DEFINE r == Image(p, dest, src)
    <3>0. r = Image(p, dest, src)
      OBVIOUS
    <3> HIDE DEF r
    <3>1. p \in Under(dest)
      BY <2>1, <2>2 DEF Under
    <3>2. IsPrefix(r, from) /\ r \in Seq(Names)
      BY <1>1, <2>1, <3>0, <3>1, ImageOrder, ImageIs
    <3>3. r \in Paths /\ from \in Under(r)
      BY <1>1, <3>2, PrefixInPaths
    <3>4. ShowsDirectory(own, r)
      <4>1. CASE r = from
        BY <4>1
      <4>2. CASE r # from
        BY <3>3, <4>2, BelowIsShown DEF ShowsDirectory
      <4>. QED
        BY <4>1, <4>2
    <3>5. /\ Entry(own, r).type = "directory" /\ Entry(own, r).data = <<>>
          /\ Entry(made, p).type = "directory" /\ Entry(made, p).data = <<>>
          /\ Shows(made, p) /\ Shows(own, r)
      <4>1. own \in RowMaps /\ ShowsDirectory(made, p)
        BY <1>3, <2>1 DEF OpsTyped
      <4>. QED
        BY <1>2, <2>1, <3>3, <3>4, <4>1, DirectoriesAlike DEF ShowsDirectory
    <3>. QED
      BY <3>0, <3>1, <3>3, <3>5 DEF InImage, Arrived
  <2>3. CASE ~IsPrefix(dest, p)
    <3>1. IsPrefix(p, dest)
      BY <2>1, <2>3, PrefixOrder
    <3>2. p \in Segments(dest)
      BY <2>1, <3>1, PrefixInPaths
    <3>. QED
      BY <2>3, <3>2 DEF InImage, Under
  <2>. QED
    BY <2>2, <2>3
<1>6. ASSUME NEW p \in Paths
      PROVE  \/ Entry(made, p) = Entry(rows, p)
             \/ InImage(src, dest, p) /\ Arrived(made, src, dest, p)
             \/ ~InImage(src, dest, p) /\ p \in Segments(dest)
  BY <1>3, <1>5
<1>. QED
  BY <1>4, <1>6 DEF Adds, made

\* One statement copies all that is left under its source: the entry at the
\* root too, or all but that.
LEMMA TreesAdd ==
  ASSUME TreeShaped(own), NEW src \in Paths, NEW dest \in Paths, Apart(src, dest),
         NEW rows, \A q \in Under(src) : Entry(rows, q) = Entry(own, q),
         NEW from \in Under(src), NEW to \in Paths, to = Image(from, src, dest), Shows(own, from),
         NEW includeRoot
  PROVE  LET after == CopiedSubtree(rows, from, to, includeRoot)
         IN /\ Adds(rows, after, src, dest)
            /\ \A p \in Paths : InImage(src, dest, p) /\ Image(p, dest, src) \in Under(from) =>
                 \/ Arrived(after, src, dest, p)
                 \/ ~includeRoot /\ p = to /\ Entry(after, p) = Entry(rows, p)
<1> DEFINE after == CopiedSubtree(rows, from, to, includeRoot)
           back(q) == Image(q, to, from)
           copied(q) == /\ q \in Under(to) /\ back(q) \in Paths /\ Shows(rows, back(q))
                        /\ (includeRoot \/ back(q) # from)
<1>1. \A q \in Paths : /\ copied(q) => Entry(after, q) = Entry(rows, back(q))
                       /\ ~copied(q) => Entry(after, q) = Entry(rows, q)
  BY CopySees
<1>2. /\ from \in Paths /\ Under(from) \subseteq Under(src)
      /\ \A p \in Under(to) : p \in Under(dest) /\ Image(p, dest, src) = back(p)
      /\ \A p \in Paths : InImage(src, dest, p) /\ Image(p, dest, src) \in Under(from) =>
              p \in Under(to) /\ (Image(p, dest, src) = from <=> p = to)
  BY ImagePlace
<1>3. \A q \in Paths : copied(q) =>
        /\ q \in Under(to) /\ back(q) \in Paths /\ Shows(rows, back(q))
        /\ back(q) \in Under(from)
  BY <1>2, ImageIs DEF Under
<1>4. \A q \in Paths : q \in Under(to) /\ back(q) \in Paths /\ Shows(rows, back(q))
                         /\ (includeRoot \/ back(q) # from) => copied(q)
  OBVIOUS
<1> HIDE DEF after, copied, back
<1>5. ASSUME NEW q \in Paths, copied(q)
      PROVE  InImage(src, dest, q) /\ Arrived(after, src, dest, q)
  <2>1. /\ q \in Under(dest) /\ back(q) \in Paths /\ Shows(rows, back(q))
        /\ Image(q, dest, src) = back(q) /\ Entry(rows, back(q)) = Entry(own, back(q))
    BY <1>2, <1>3, <1>5
  <2>2. Shows(own, back(q)) /\ Entry(after, q) = Entry(own, back(q))
    BY <1>1, <1>5, <2>1 DEF Shows
  <2>. QED
    BY <2>1, <2>2 DEF InImage, Arrived, Shows
<1>6. Adds(rows, after, src, dest)
  <2>1. ASSUME NEW q \in Under(src) PROVE Entry(after, q) = Entry(rows, q)
    <3>1. q \in Paths
      BY DEF Under
    <3>2. ~copied(q)
      BY <1>5, <3>1, CopiesOutside
    <3>. QED
      BY <1>1, <3>1, <3>2
  <2>2. \A p \in Paths : \/ Entry(after, p) = Entry(rows, p)
                         \/ InImage(src, dest, p) /\ Arrived(after, src, dest, p)
    BY <1>1, <1>5
  <2>. QED
    BY <2>1, <2>2 DEF Adds
<1>7. ASSUME NEW p \in Paths, InImage(src, dest, p), Image(p, dest, src) \in Under(from)
      PROVE  \/ Arrived(after, src, dest, p)
             \/ ~includeRoot /\ p = to /\ Entry(after, p) = Entry(rows, p)
  <2>1. /\ p \in Under(to) /\ Image(p, dest, src) = back(p) /\ (back(p) = from <=> p = to)
        /\ back(p) \in Paths /\ Shows(own, back(p)) /\ back(p) \in Under(src)
    BY <1>2, <1>7 DEF InImage
  <2>2. Shows(rows, back(p))
    BY <2>1 DEF Shows
  <2>3. CASE includeRoot \/ back(p) # from
    <3>1. copied(p)
      BY <1>4, <2>1, <2>2, <2>3
    <3>. QED
      BY <1>5, <3>1
  <2>4. CASE ~(includeRoot \/ back(p) # from)
    <3>1. ~copied(p)
      BY <2>4 DEF copied
    <3>. QED
      BY <1>1, <2>1, <2>4, <3>1
  <2>. QED
    BY <2>3, <2>4
<1>. QED
  BY <1>6, <1>7 DEF after

\* What is no directory has nothing below it, so that its copy is one entry.
LEMMA OneAdds ==
  ASSUME TreeShaped(own), NEW src \in Paths, NEW dest \in Paths, Apart(src, dest),
         NEW rows \in RowMaps, NEW from \in Under(src), NEW to \in Paths,
         to = Image(from, src, dest), ShowsOther(own, from),
         NEW row \in Row \ {Tombstone},
         row.type = Entry(own, from).type, row.data = Entry(own, from).data
  PROVE  /\ Adds(rows, Upserted(rows, to, row), src, dest)
         /\ \A p \in Paths : InImage(src, dest, p) /\ Image(p, dest, src) \in Under(from) =>
              Arrived(Upserted(rows, to, row), src, dest, p)
<1> DEFINE after == Upserted(rows, to, row)
<1>1. \A q \in Paths : Entry(after, q) = IF q # to THEN Entry(rows, q) ELSE row
  BY EntryAfterUpsert
<1> HIDE DEF after
<1>2. /\ from \in Paths /\ Image(to, dest, src) = from /\ InImage(src, dest, to)
      /\ \A p \in Paths : InImage(src, dest, p) /\ Image(p, dest, src) \in Under(from) =>
              p \in Under(to) /\ (Image(p, dest, src) = from <=> p = to)
  BY ImagePlace DEF ShowsOther
<1>3. Arrived(after, src, dest, to)
  BY <1>1, <1>2, AbsentAssumption DEF Arrived, Shows
<1>4. to \notin Under(src) /\ \A q \in Under(src) : q \in Paths
  BY <1>2, CopiesOutside DEF Under
<1>5. Adds(rows, after, src, dest)
  BY <1>1, <1>2, <1>3, <1>4 DEF Adds
<1>6. ASSUME NEW p \in Paths, InImage(src, dest, p), Image(p, dest, src) \in Under(from)
      PROVE  Arrived(after, src, dest, p)
  <2>1. Image(p, dest, src) = from
    <3>1. Shows(own, Image(p, dest, src))
      BY <1>6 DEF InImage
    <3>. QED
      BY <1>2, <1>6, <3>1, BelowIsShown DEF ShowsOther, ShowsDirectory
  <2>. QED
    BY <1>2, <1>3, <1>6, <2>1
<1>. QED
  BY <1>5, <1>6 DEF after

\* What a call that succeeds makes of the rows, and what it leaves to do.
LEMMA CallAdds ==
  ASSUME NEW cp, CopiesAdd(cp), cp.status = "ok",
         NEW out \in Copies, out.src = cp.src, out.dest = cp.dest,
         NEW from \in cp.todo, NEW children \in SUBSET (Under(from) \ {from}),
         out.todo = (cp.todo \ {from}) \cup children,
         Adds(cp.own, out.own, cp.src, cp.dest),
         \A p \in Paths : InImage(cp.src, cp.dest, p) /\ Image(p, cp.dest, cp.src) \in Under(from) =>
           \/ Arrived(out.own, cp.src, cp.dest, p)
           \/ \E t \in children : Image(p, cp.dest, cp.src) \in Under(t)
  PROVE  CopiesAdd(out)
<1>1. /\ cp \in Copies /\ cp.todo \subseteq Under(cp.src) /\ Adds(own, cp.own, cp.src, cp.dest)
      /\ \A p \in Paths : InImage(cp.src, cp.dest, p) =>
            \/ Arrived(cp.own, cp.src, cp.dest, p)
            \/ \E t \in cp.todo : Image(p, cp.dest, cp.src) \in Under(t)
      /\ cp.src \in cp.todo => cp.own = own /\ cp.todo = {cp.src}
  BY DEF CopiesAdd
<1>2. cp.src \in Paths /\ from \in Under(cp.src) /\ from \in Paths
  BY <1>1 DEF Copies, Under
<1>3. Under(from) \subseteq Under(cp.src) /\ (cp.src \in Under(from) => cp.src = from)
  <2>1. Under(from) \subseteq Under(cp.src)
    BY <1>2, PrefixOrder DEF Under
  <2>2. ASSUME cp.src \in Under(from) PROVE cp.src = from
    <3>1. Len(from) <= Len(cp.src) /\ Len(cp.src) <= Len(from) /\ IsPrefix(from, cp.src)
      BY <1>2, <2>2, PrefixOrder DEF Under
    <3>2. Len(from) = Len(cp.src)
      BY <1>2, <3>1, PathIsSeq
    <3>. QED
      BY <1>2, <3>1, <3>2, PrefixOrder
  <2>. QED
    BY <2>1, <2>2
<1>4. out.todo \subseteq Under(cp.src)
  BY <1>1, <1>3
<1>5. Adds(own, out.own, cp.src, cp.dest)
  BY <1>1, AddsTwice
<1>6. cp.src \notin out.todo
  BY <1>1, <1>3
<1>7. ASSUME NEW p \in Paths, InImage(cp.src, cp.dest, p), ~Arrived(out.own, cp.src, cp.dest, p)
      PROVE  \E t \in out.todo : Image(p, cp.dest, cp.src) \in Under(t)
  <2>1. ~Arrived(cp.own, cp.src, cp.dest, p)
    <3>1. Entry(out.own, p) = Entry(cp.own, p)
      BY <1>7 DEF Adds
    <3>. QED
      BY <1>7, <3>1 DEF Arrived, Shows
  <2>2. PICK t \in cp.todo : Image(p, cp.dest, cp.src) \in Under(t)
    BY <1>1, <1>7, <2>1
  <2>3. CASE t = from
    BY <1>7, <2>2, <2>3
  <2>4. CASE t # from
    BY <2>2, <2>4
  <2>. QED
    BY <2>3, <2>4
<1>. QED
  BY <1>4, <1>5, <1>6, <1>7 DEF CopiesAdd

LEMMA CopyOneAdds ==
  ASSUME OpsTyped, TreeShaped(own), NEW cp, CopiesAdd(cp), cp.status = "ok", cp.todo # {},
         Apart(cp.src, cp.dest)
  PROVE  CopiesAdd(CopyOne(cp))
<1> DEFINE out == CopyOne(cp)
           from == Deepest(cp.todo)
           to == Image(from, cp.src, cp.dest)
           rows == cp.own
           src == cp.src
           dest == cp.dest
<1>0. cp \in Copies /\ out = CopyOne(cp) /\ from = Deepest(cp.todo) /\ to = Image(from, src, dest)
  BY DEF CopiesAdd
<1> HIDE DEF out, from, to
<1>1. /\ out \in Copies /\ out.src = src /\ out.dest = dest
      /\ from \in cp.todo /\ from \in Paths
      /\ out.status = "ok" =>
           /\ to \in Paths /\ Shows(rows, from)
           /\ \/ /\ CopiesInto(rows, from, to, out.own)
                 /\ out.todo = (cp.todo \ {from}) \cup Children(out.own, from)
              \/ /\ \/ CopiesEmpty(rows, from, to, out.own)
                    \/ CopiesNew(rows, from, to, out.own)
                    \/ CopiesLink(rows, from, to, out.own)
                    \/ CopiesFile(rows, from, to, out.own)
                 /\ out.todo = cp.todo \ {from}
  BY <1>0, CopyOneIs
<1>2. /\ rows \in RowMaps /\ src \in Paths /\ dest \in Paths /\ from \in Under(src)
      /\ Apart(src, dest) /\ own \in RowMaps
      /\ Adds(own, rows, src, dest)
      /\ src \in cp.todo => rows = own /\ cp.todo = {src}
  BY <1>1 DEF CopiesAdd, Copies, OpsTyped
<1>3. SUFFICES ASSUME out.status = "ok"
               PROVE  CopiesAdd(out)
  BY <1>1 DEF CopiesAdd, out
<1> HIDE DEF rows, src, dest
<1>4. to \in Paths /\ to = Image(from, src, dest) /\ Shows(rows, from)
  BY <1>0, <1>1, <1>3
<1>5. \A q \in Under(src) : Entry(rows, q) = Entry(own, q)
  BY <1>2 DEF Adds
<1>6. Entry(rows, from) = Entry(own, from) /\ Shows(own, from)
  BY <1>2, <1>4, <1>5 DEF Shows
<1>7. /\ from \in Paths /\ to \in Under(dest) /\ Image(to, dest, src) = from
      /\ InImage(src, dest, to) /\ Under(from) \subseteq Under(src)
      /\ \A p \in Paths : InImage(src, dest, p) /\ Image(p, dest, src) \in Under(from) =>
              p \in Under(to) /\ (Image(p, dest, src) = from <=> p = to)
  BY <1>2, <1>4, <1>6, ImagePlace
<1>8. ASSUME out.todo = cp.todo \ {from}, Adds(rows, out.own, src, dest),
             \A p \in Paths : InImage(src, dest, p) /\ Image(p, dest, src) \in Under(from) =>
               Arrived(out.own, src, dest, p)
      PROVE  CopiesAdd(out)
  <2> DEFINE children == {}
  <2>1. children \in SUBSET (Under(from) \ {from}) /\ out.todo = (cp.todo \ {from}) \cup children
    BY <1>8
  <2> HIDE DEF children
  <2>2. \A p \in Paths : InImage(src, dest, p) /\ Image(p, dest, src) \in Under(from) =>
          \/ Arrived(out.own, src, dest, p)
          \/ \E t \in children : Image(p, dest, src) \in Under(t)
    BY <1>8
  <2>. QED
    BY <1>1, <1>3, <1>8, <2>1, <2>2, CallAdds DEF rows, src, dest
<1>9. ASSUME ShowsDirectory(rows, from)
      PROVE  ShowsDirectory(own, from) /\ Adds(rows, WithDirectories(rows, to), src, dest)
  <2>1. ShowsDirectory(own, from)
    BY <1>6, <1>9 DEF ShowsDirectory
  <2>. QED
    BY <1>2, <1>4, <2>1, DirectoriesAdd
<1>10. CASE /\ CopiesInto(rows, from, to, out.own)
            /\ out.todo = (cp.todo \ {from}) \cup Children(out.own, from)
  <2> DEFINE children == Children(out.own, from)
  <2>1. /\ out.own = WithDirectories(rows, to) /\ ShowsDirectory(own, from)
        /\ Adds(rows, out.own, src, dest) /\ MkdirPossible(rows, to) /\ Shows(rows, to)
    BY <1>9, <1>10 DEF CopiesInto
  <2>2. out.own \in RowMaps
    BY <1>1 DEF Copies
  <2>3. Children(out.own, from) = Children(own, from)
    <3>1. \A q \in Under(from) : Entry(out.own, q) = Entry(own, q)
      BY <1>5, <1>7, <2>1 DEF Adds
    <3>. QED
      BY <3>1 DEF Children, Shows
  <2>4. children \in SUBSET (Under(from) \ {from})
    <3>1. Len(from) # Len(from) + 1
      BY <1>7, PathIsSeq
    <3>. QED
      BY <3>1 DEF Children
  <2>5. ShowsDirectory(out.own, to)
    <3>1. CASE to # Root
      BY <1>4, <2>1, <3>1, SegmentsAre, DirectoriesShown
    <3>2. CASE to = Root
      <4>1. Segments(to) = {}
        BY <1>4, <3>2, SegmentsAre
      <4>2. to = dest
        <5>1. IsPrefix(dest, to) /\ Len(to) = 0 /\ Len(dest) <= Len(to) /\ Len(dest) \in Nat
          BY <1>2, <1>4, <1>7, <3>2, PrefixOrder, PathIsSeq DEF Under, Root
        <5>2. Len(dest) = Len(to)
          BY <5>1
        <5>. QED
          BY <1>2, <1>4, <5>1, <5>2, PrefixOrder
      <4>3. from = src
        <5>1. \A q \in Under(src) : Image(q, src, dest) = dest <=> q = src
          BY <1>2, ImageIs
        <5>. QED
          BY <1>2, <1>4, <4>2, <5>1
      <4>4. rows = own
        BY <1>1, <1>2, <4>3
      <4>5. ShowsDirectory(own, Root)
        BY <1>6, <1>7, RootShown
      <4>. QED
        BY <1>4, <2>1, <3>2, <4>4, <4>5, DirectoriesShown
    <3>. QED
      BY <3>1, <3>2
  <2>6. Arrived(out.own, src, dest, to)
    <3>1. /\ Entry(out.own, to).type = "directory" /\ Entry(out.own, to).data = <<>>
          /\ Entry(own, from).type = "directory" /\ Entry(own, from).data = <<>>
      BY <1>2, <1>4, <1>7, <2>1, <2>2, <2>5, DirectoriesAlike
    <3>. QED
      BY <1>7, <2>5, <3>1 DEF Arrived, ShowsDirectory
  <2>7. ASSUME NEW p \in Paths, InImage(src, dest, p), Image(p, dest, src) \in Under(from)
        PROVE  \/ Arrived(out.own, src, dest, p)
               \/ \E t \in children : Image(p, dest, src) \in Under(t)
    <3>1. CASE p = to
      BY <2>6, <3>1
    <3>2. CASE p # to
      <4>1. Image(p, dest, src) # from /\ Shows(own, Image(p, dest, src))
        BY <1>7, <2>7, <3>2 DEF InImage
      <4>2. \E t \in Children(own, from) : Image(p, dest, src) \in Under(t)
        BY <1>7, <2>7, <4>1, ChildTowards
      <4>. QED
        BY <2>3, <4>2
    <3>. QED
      BY <3>1, <3>2
  <2>8. out.todo = (cp.todo \ {from}) \cup children
    BY <1>10
  <2> HIDE DEF children
  <2>. QED
    BY <1>1, <1>3, <2>1, <2>4, <2>7, <2>8, CallAdds DEF rows, src, dest
<1>11. CASE CopiesEmpty(rows, from, to, out.own) /\ out.todo = cp.todo \ {from}
  <2>1. /\ out.own = CopiedSubtree(rows, from, to, FALSE)
        /\ ShowsDirectory(rows, from) /\ ShowsDirectory(rows, to)
    BY <1>11 DEF CopiesEmpty
  <2>2. \A includeRoot :
          LET after == CopiedSubtree(rows, from, to, includeRoot)
          IN /\ Adds(rows, after, src, dest)
             /\ \A p \in Paths : InImage(src, dest, p) /\ Image(p, dest, src) \in Under(from) =>
                  \/ Arrived(after, src, dest, p)
                  \/ ~includeRoot /\ p = to /\ Entry(after, p) = Entry(rows, p)
    BY <1>2, <1>4, <1>5, <1>6, TreesAdd
  <2>3. /\ Adds(rows, out.own, src, dest)
        /\ \A p \in Paths : InImage(src, dest, p) /\ Image(p, dest, src) \in Under(from) =>
             \/ Arrived(out.own, src, dest, p)
             \/ p = to /\ Entry(out.own, p) = Entry(rows, p)
    BY <2>1, <2>2, Zenon
  <2>4. Entry(out.own, to) = Entry(rows, to) => Arrived(out.own, src, dest, to)
    <3>1. /\ Entry(rows, to).type = "directory" /\ Entry(rows, to).data = <<>>
          /\ Entry(own, from).type = "directory" /\ Entry(own, from).data = <<>>
      BY <1>2, <1>4, <1>6, <1>7, <2>1, DirectoriesAlike DEF ShowsDirectory, Shows
    <3>. QED
      BY <1>7, <2>1, <3>1 DEF Arrived, ShowsDirectory, Shows
  <2>. QED
    BY <1>8, <1>11, <2>3, <2>4
<1>12. CASE CopiesNew(rows, from, to, out.own) /\ out.todo = cp.todo \ {from}
  <2> DEFINE made == WithDirectories(rows, to)
  <2>1. out.own = CopiedSubtree(made, from, to, TRUE) /\ Adds(rows, made, src, dest)
    BY <1>9, <1>12 DEF CopiesNew
  <2> HIDE DEF made
  <2>2. \A q \in Under(src) : Entry(made, q) = Entry(own, q)
    BY <1>5, <2>1 DEF Adds
  <2>3. \A includeRoot :
          LET after == CopiedSubtree(made, from, to, includeRoot)
          IN /\ Adds(made, after, src, dest)
             /\ \A p \in Paths : InImage(src, dest, p) /\ Image(p, dest, src) \in Under(from) =>
                  \/ Arrived(after, src, dest, p)
                  \/ ~includeRoot /\ p = to /\ Entry(after, p) = Entry(made, p)
    BY <1>2, <1>4, <1>6, <2>2, TreesAdd
  <2>4. /\ Adds(made, out.own, src, dest)
        /\ \A p \in Paths : InImage(src, dest, p) /\ Image(p, dest, src) \in Under(from) =>
             Arrived(out.own, src, dest, p)
    BY <2>1, <2>3, Zenon
  <2>5. Adds(rows, out.own, src, dest)
    BY <2>1, <2>4, AddsTwice
  <2>. QED
    BY <1>8, <1>12, <2>4, <2>5
<1>13. ASSUME ShowsOther(rows, from), NEW row, row \in Row \ {Tombstone},
              row.type = Entry(rows, from).type, row.data = Entry(rows, from).data,
              out.own = Upserted(rows, to, row), out.todo = cp.todo \ {from}
       PROVE  CopiesAdd(out)
  <2>1. /\ ShowsOther(own, from) /\ row.type = Entry(own, from).type
        /\ row.data = Entry(own, from).data
    BY <1>6, <1>13 DEF ShowsOther, Shows
  <2>2. /\ Adds(rows, Upserted(rows, to, row), src, dest)
        /\ \A p \in Paths : InImage(src, dest, p) /\ Image(p, dest, src) \in Under(from) =>
             Arrived(Upserted(rows, to, row), src, dest, p)
    BY <1>2, <1>4, <1>13, <2>1, OneAdds
  <2>. QED
    BY <1>8, <1>13, <2>2
<1>14. CASE CopiesLink(rows, from, to, out.own) /\ out.todo = cp.todo \ {from}
  <2> DEFINE row == Symlink(Entry(rows, from).data)
  <2>1. /\ ShowsOther(rows, from) /\ Entry(rows, from).type = "symlink"
        /\ out.own = Upserted(rows, to, row)
    BY <1>14 DEF CopiesLink
  <2>2. Entry(rows, from) \in Row /\ Entry(rows, from).data \in Paths
    BY <1>2, <1>4, <1>7, <2>1, EntryIsRow, KindsOfLinks DEF Shows
  <2>3. /\ row \in Row \ {Tombstone} /\ row.type = Entry(rows, from).type
        /\ row.data = Entry(rows, from).data
    BY <2>1, <2>2, KindsOfLinks
  <2> HIDE DEF row
  <2>. QED
    BY <1>13, <1>14, <2>1, <2>3
<1>15. CASE CopiesFile(rows, from, to, out.own) /\ out.todo = cp.todo \ {from}
  <2> DEFINE row == Entry(rows, from)
  <2>1. ShowsOther(rows, from) /\ out.own = Upserted(rows, to, row)
    BY <1>15 DEF CopiesFile
  <2>2. row \in Row \ {Tombstone}
    BY <1>2, <1>4, <1>7, EntryIsRow DEF Shows
  <2>3. row.type = Entry(rows, from).type /\ row.data = Entry(rows, from).data
    OBVIOUS
  <2> HIDE DEF row
  <2>. QED
    BY <1>13, <1>15, <2>1, <2>2, <2>3
<1>. QED
  BY <1>1, <1>3, <1>10, <1>11, <1>12, <1>14, <1>15

\* cp -r adds the image of the source to the destination, leaves the source as
\* it was and changes nothing else (CpAddsImage): until the last call, what is
\* not copied yet is under an entry still to be copied, and nothing written so
\* far is read again, as no copy goes into the source.
LEMMA CopiesAddTheImage == Spec => []CpAddsImage
<1>1. OpsTyped => CpAddsImage
  <2> SUFFICES ASSUME OpsTyped, TreeShaped(own), NEW src \in Paths \ {Root}, NEW dest \in Paths,
                      Apart(src, dest), CpOutcome(src, dest).status = "ok", NEW p \in Paths
               PROVE  LET from == Image(p, dest, src)
                          copy == CpOutcome(src, dest)
                      IN IF p \in Under(dest) /\ from \in Paths /\ Shows(own, from)
                         THEN /\ Shows(copy.own, p)
                              /\ Entry(copy.own, p).type = Entry(own, from).type
                              /\ Entry(copy.own, p).data = Entry(own, from).data
                         ELSE p \in Segments(dest) \/ Entry(copy.own, p) = Entry(own, p)
    BY Zenon DEF CpAddsImage
  <2> DEFINE copy == CpOutcome(src, dest)
             start == Copying(own, cachedNodeCount, src, dest)
             S == {cp \in Copies : CopiesAdd(cp) /\ cp.src = src /\ cp.dest = dest}
  <2>1. start \in S
    <3>1. /\ start.src = src /\ start.dest = dest /\ start.own = own /\ start.todo = {src}
          /\ start \in Copies
      BY DEF Copying, Copies, OpsTyped
    <3>2. src \in Under(src)
      BY PrefixOrder DEF Under
    <3> HIDE DEF start
    <3>3. Adds(own, own, src, dest)
      BY DEF Adds
    <3>4. \A q \in Paths : InImage(src, dest, q) => Image(q, dest, src) \in Under(src)
      BY ImageIs DEF InImage, Under
    <3>. QED
      BY <3>1, <3>2, <3>3, <3>4 DEF CopiesAdd
  <2>2. ASSUME NEW cp \in S, cp.status = "ok", cp.todo # {} PROVE CopyOne(cp) \in S
    <3>1. CopiesAdd(cp) /\ cp \in Copies /\ cp.src = src /\ cp.dest = dest
      OBVIOUS
    <3>2. CopiesAdd(CopyOne(cp))
      BY <2>2, <3>1, CopyOneAdds
    <3>3. CopyOne(cp).src = src /\ CopyOne(cp).dest = dest
      BY <2>2, <3>1, CopyOneIs
    <3>. QED
      BY <3>2, <3>3 DEF CopiesAdd
  <2> HIDE DEF S, start
  <2>3. copy \in S
    BY <2>1, <2>2, CpInduction DEF start
  <2>4. copy.status = "ok" /\ copy.todo = {}
    <3>1. copy = CpOutcome(src, dest)
      OBVIOUS
    <3> HIDE DEF copy
    <3>. QED
      BY <3>1, CpEnds DEF OpsTyped
  <2> HIDE DEF copy
  <2>5. /\ Adds(own, copy.own, src, dest)
        /\ \A q \in Paths : InImage(src, dest, q) => Arrived(copy.own, src, dest, q)
    BY <2>3, <2>4 DEF S, CopiesAdd
  <2>6. IF InImage(src, dest, p) THEN Arrived(copy.own, src, dest, p)
        ELSE p \in Segments(dest) \/ Entry(copy.own, p) = Entry(own, p)
    BY <2>5 DEF Adds
  <2>. QED
    BY <2>6 DEF InImage, Arrived, copy
<1>. QED
  BY <1>1, OpsInvariant, PTL

\* Every subtree that mv or cp takes along arrives whole (SubtreesArrive).
THEOREM SubtreesAlwaysArrive == Spec => []SubtreesArrive
  BY MovesTakeSubtree, CopiesAddTheImage, PTL DEF SubtreesArrive

-----------------------------------------------------------------------------
(* Listings and lookups.                                                   *)

\* Links are followed from what is shown, and only from links.
LEMMA FollowedStarts ==
  ASSUME NEW rows, NEW hidden, NEW p \in Paths
  PROVE  /\ ~Visible(rows, hidden, p) => Followed(rows, hidden, p) = Failed("ENOENT")
         /\ Visible(rows, hidden, p) /\ ~IsLink(rows, p) => Followed(rows, hidden, p) = Found(p)
<1>1. MaxLinks \in 0..MaxLinks
  BY LinksAssumption
<1>2. Followed(rows, hidden, p) = Onward(Reaches(rows, hidden), rows, hidden, MaxLinks)[p]
  BY <1>1, FollowedIs, ReachedAt
<1>3. \A g : /\ ~Visible(rows, hidden, p) => Onward(g, rows, hidden, MaxLinks)[p] = Failed("ENOENT")
             /\ Visible(rows, hidden, p) /\ ~IsLink(rows, p) =>
                  Onward(g, rows, hidden, MaxLinks)[p] = Found(p)
  BY DEF Onward
<1>. QED
  BY <1>2, <1>3

\* A listing is that of the directory the path leads to.
LEMMA ListingIs ==
  ASSUME NEW rows \in RowMaps, NEW hidden, NEW p \in Paths, NEW scope
  PROVE  LET real == Followed(rows, hidden, p)
             listing == ListDirectory(rows, hidden, p, scope)
         IN /\ real.error # "none" => listing.error = real.error
            /\ real.error = "none" =>
                 /\ real.at \in Paths /\ Visible(rows, hidden, real.at) /\ ~IsLink(rows, real.at)
                 /\ real = Found(real.at)
                 /\ Visible(rows, hidden, p)
                 /\ ShowsDirectory(rows, real.at) => listing.at = Listed(rows, hidden, real.at, scope)
                 /\ ~ShowsDirectory(rows, real.at) => listing.error = "ENOTDIR"
<1> DEFINE real == Followed(rows, hidden, p)
           listing == ListDirectory(rows, hidden, p, scope)
<1>1. \/ real \in {Failed("ENOENT"), Failed("ELOOP"), Failed("EACCES")}
      \/ \E q \in Paths : real = Found(q) /\ Visible(rows, hidden, q) /\ ~IsLink(rows, q)
  BY FollowedLeads
<1>2. /\ ~Visible(rows, hidden, p) => real = Failed("ENOENT")
      /\ Visible(rows, hidden, p) /\ ~IsLink(rows, p) => real = Found(p)
  BY FollowedStarts
<1>3. /\ \A q : Found(q).error = "none" /\ Found(q).at = q
      /\ Failed("ENOENT").error = "ENOENT" /\ Failed("ELOOP").error = "ELOOP"
      /\ Failed("EACCES").error = "EACCES" /\ Failed("ENOTDIR").error = "ENOTDIR"
  BY DEF Found, Failed
<1>4. Visible(rows, hidden, p) => Entry(rows, p).type \in {"file", "directory", "symlink"}
  BY EntryIsRow, KindsOfLinks DEF Visible, Shows
<1>5. listing =
        IF ~Visible(rows, hidden, p) THEN Failed("ENOENT")
        ELSE CASE Entry(rows, p).type = "directory" -> Found(Listed(rows, hidden, p, scope))
               [] Entry(rows, p).type = "file" -> Failed("ENOTDIR")
               [] OTHER -> IF real.error # "none" THEN real
                           ELSE IF ~ShowsDirectory(rows, real.at) THEN Failed("ENOTDIR")
                           ELSE Found(Listed(rows, hidden, real.at, scope))
  BY DEF ListDirectory
<1> HIDE DEF real, listing
<1>6. real.error = "none" =>
        /\ real.at \in Paths /\ Visible(rows, hidden, real.at) /\ ~IsLink(rows, real.at)
        /\ real = Found(real.at)
        /\ Visible(rows, hidden, p)
  BY <1>1, <1>2, <1>3
<1>7. CASE ~Visible(rows, hidden, p)
  <2>1. real = Failed("ENOENT") /\ listing = Failed("ENOENT") /\ Failed("ENOENT").error = "ENOENT"
    BY <1>2, <1>3, <1>5, <1>7
  <2>. QED
    BY <2>1 DEF real, listing
<1>8. CASE Visible(rows, hidden, p) /\ Entry(rows, p).type = "directory"
  <2>1. real = Found(p) /\ real.error = "none" /\ real.at = p /\ ShowsDirectory(rows, p)
    BY <1>2, <1>3, <1>8 DEF IsLink, ShowsDirectory, Visible
  <2>2. listing = Found(Listed(rows, hidden, p, scope))
    BY <1>5, <1>8
  <2>3. listing.at = Listed(rows, hidden, p, scope)
    BY <1>3, <2>2
  <2>. QED
    BY <1>6, <2>1, <2>3 DEF real, listing
<1>9. CASE Visible(rows, hidden, p) /\ Entry(rows, p).type = "file"
  <2>1. real = Found(p) /\ real.error = "none" /\ real.at = p /\ ~ShowsDirectory(rows, p)
    BY <1>2, <1>3, <1>9 DEF IsLink, ShowsDirectory, Visible
  <2>2. listing = Failed("ENOTDIR") /\ listing.error = "ENOTDIR"
    BY <1>3, <1>5, <1>9
  <2>. QED
    BY <1>6, <2>1, <2>2 DEF real, listing
<1>10. CASE Visible(rows, hidden, p) /\ Entry(rows, p).type = "symlink"
  <2>1. listing = IF real.error # "none" THEN real
                  ELSE IF ~ShowsDirectory(rows, real.at) THEN Failed("ENOTDIR")
                  ELSE Found(Listed(rows, hidden, real.at, scope))
    BY <1>5, <1>10
  <2>2. CASE real.error # "none"
    BY <2>1, <2>2 DEF real, listing
  <2>3. CASE real.error = "none" /\ ~ShowsDirectory(rows, real.at)
    <3>1. listing.error = "ENOTDIR"
      BY <1>3, <2>1, <2>3
    <3>. QED
      BY <1>6, <2>3, <3>1 DEF real, listing
  <2>4. CASE real.error = "none" /\ ShowsDirectory(rows, real.at)
    <3>1. listing.at = Listed(rows, hidden, real.at, scope)
      BY <1>3, <2>1, <2>4
    <3>. QED
      BY <1>6, <2>4, <3>1 DEF real, listing
  <2>. QED
    BY <2>2, <2>3, <2>4
<1>. QED
  BY <1>4, <1>7, <1>8, <1>9, <1>10

\* What lies right under a path.
LEMMA ChildIs ==
  ASSUME NEW p \in Paths, NEW q \in Paths
  PROVE  /\ q \in Under(p) /\ Len(q) = Len(p) + 1 <=> q # Root /\ Front(q) = p
         /\ q # Root => Parent(q) = Front(q)
<1>1. /\ p \in Seq(Names) /\ q \in Seq(Names) /\ Len(p) \in Nat /\ Len(q) \in Nat
  BY PathIsSeq
<1>2. q # Root => Parent(q) = Front(q)
  BY DEF Parent
<1>3. ASSUME q \in Under(p), Len(q) = Len(p) + 1 PROVE q # Root /\ Front(q) = p
  <2>1. p # q /\ IsPrefix(p, q)
    BY <1>1, <1>3 DEF Under
  <2>2. q # Root
    BY <2>1, AboveAreStrict
  <2>3. Front(q) = SubSeq(q, 1, Len(p))
    <3>1. Len(q) - 1 = Len(p)
      BY <1>1, <1>3
    <3>. QED
      BY <3>1 DEF Front
  <2>4. SubSeq(q, 1, Len(p)) = p
    <3>1. SubSeq(p, 1, Len(p)) = p
      BY <1>1
    <3>. QED
      BY <2>1, <3>1 DEF IsPrefix
  <2>. QED
    BY <2>2, <2>3, <2>4
<1>4. ASSUME q # Root, Front(q) = p PROVE q \in Under(p) /\ Len(q) = Len(p) + 1
  <2>1. p = Parent(q) /\ p \in Above(q) /\ Len(p) = Len(q) - 1
    BY <1>2, <1>4, ParentIsAbove
  <2>2. IsPrefix(p, q)
    BY <2>1, AboveIs DEF IsStrictPrefix
  <2>. QED
    BY <1>1, <2>1, <2>2 DEF Under
<1>. QED
  BY <1>2, <1>3, <1>4

LEMMA ListsAre ==
  ASSUME NEW rows, NEW hidden, NEW p \in Paths
  PROVE  /\ Listed(rows, hidden, p, "children")
              = {q \in Paths : /\ q # Root /\ Front(q) = p /\ Lstat(rows, hidden, q).error = "none"}
         /\ Listed(rows, hidden, p, "children")
              = {q \in Under(p) : Len(q) = Len(p) + 1 /\ Visible(rows, hidden, q)}
         /\ Listed(rows, hidden, p, "subtree") = {q \in Under(p) : q # p /\ Visible(rows, hidden, q)}
<1>1. Listed(rows, hidden, p, "children")
        = {q \in Under(p) : Len(q) = Len(p) + 1 /\ Visible(rows, hidden, q)}
  BY DEF Listed, ChildrenOf, Children, Visible
<1>2. Listed(rows, hidden, p, "subtree") = {q \in Under(p) : q # p /\ Visible(rows, hidden, q)}
  BY DEF Listed, SubtreeOf, Walk, Visible
<1>3. \A q : Lstat(rows, hidden, q).error = "none" <=> Visible(rows, hidden, q)
  BY DEF Lstat, Found, Failed
<1>4. \A q \in Paths : q \in Under(p) /\ Len(q) = Len(p) + 1 <=> q # Root /\ Front(q) = p
  BY ChildIs
<1>5. \A q : q \in Under(p) => q \in Paths
  BY DEF Under
<1>. QED
  BY <1>1, <1>2, <1>3, <1>4, <1>5

\* Listing every directory of a set, and what is at most n levels below a path.
ListAll(rows, hidden, paths) ==
  paths \cup UNION {Readdir(rows, hidden, q).at : q \in {q \in paths : ShowsDirectory(rows, q)}}
ListsOn(g, rows, hidden, p) ==
  g = [n \in 0..PathBound |-> IF n = 0 THEN {p} ELSE ListAll(rows, hidden, g[n - 1])]
Near(rows, hidden, p, n) == {q \in Under(p) : Visible(rows, hidden, q) /\ Len(q) <= Len(p) + n}

LEMMA OneLevel ==
  ASSUME NEW rows \in RowMaps, TreeShaped(rows), NEW hidden \in Hidings, NEW p \in Paths,
         Visible(rows, hidden, p), NEW n \in Nat
  PROVE  ListAll(rows, hidden, Near(rows, hidden, p, n)) = Near(rows, hidden, p, n + 1)
<1> DEFINE S == Near(rows, hidden, p, n)
           T == Near(rows, hidden, p, n + 1)
<1>0. Len(p) \in Nat /\ \A q \in Under(p) : q \in Paths /\ Len(q) \in Nat /\ IsPrefix(p, q)
  BY PathIsSeq DEF Under
<1>1. /\ \A q : q \in S <=> q \in Under(p) /\ Visible(rows, hidden, q) /\ Len(q) <= Len(p) + n
      /\ \A q : q \in T <=> q \in Under(p) /\ Visible(rows, hidden, q) /\ Len(q) <= Len(p) + (n + 1)
  BY DEF Near
<1>2. ASSUME NEW q \in Under(p), Visible(rows, hidden, q), ShowsDirectory(rows, q)
      PROVE  Readdir(rows, hidden, q).at
               = {r \in Under(q) : Len(r) = Len(q) + 1 /\ Visible(rows, hidden, r)}
  <2>1. q \in Paths /\ ~IsLink(rows, q)
    BY <1>0, <1>2 DEF IsLink, ShowsDirectory
  <2>2. Followed(rows, hidden, q) = Found(q)
    BY <1>2, <2>1, FollowedStarts
  <2>3. Found(q).error = "none" /\ Found(q).at = q
    BY DEF Found
  <2>4. ListDirectory(rows, hidden, q, "children").at = Listed(rows, hidden, q, "children")
    BY <1>2, <2>1, <2>2, <2>3, ListingIs
  <2>5. Listed(rows, hidden, q, "children")
          = {r \in Under(q) : Len(r) = Len(q) + 1 /\ Visible(rows, hidden, r)}
    BY <2>1, ListsAre
  <2>. QED
    BY <2>4, <2>5 DEF Readdir
<1> DEFINE down == UNION {Readdir(rows, hidden, q).at : q \in {q \in S : ShowsDirectory(rows, q)}}
<1>3. ListAll(rows, hidden, S) = S \cup down
  BY DEF ListAll
<1>4. \A r : r \in down <=> \E q \in S : ShowsDirectory(rows, q) /\ r \in Readdir(rows, hidden, q).at
  OBVIOUS
<1> HIDE DEF S, T, down
<1>5. ASSUME NEW r \in S PROVE r \in T
  BY <1>0, <1>1
<1>6. ASSUME NEW r \in down PROVE r \in T
  <2>1. PICK q \in S : ShowsDirectory(rows, q) /\ r \in Readdir(rows, hidden, q).at
    BY <1>4
  <2>2. /\ q \in Under(p) /\ q \in Paths /\ Len(q) \in Nat /\ Len(q) <= Len(p) + n /\ IsPrefix(p, q)
        /\ r \in Under(q) /\ Len(r) = Len(q) + 1 /\ Visible(rows, hidden, r)
    BY <1>0, <1>1, <1>2, <2>1
  <2>3. r \in Under(p)
    BY <2>2, PrefixOrder DEF Under
  <2>4. Len(r) <= Len(p) + (n + 1)
    BY <1>0, <2>2
  <2>. QED
    BY <1>1, <2>2, <2>3, <2>4
<1>7. ASSUME NEW r \in T, r \notin S PROVE r \in down
  <2>1. /\ r \in Under(p) /\ r \in Paths /\ IsPrefix(p, r) /\ Visible(rows, hidden, r)
        /\ Len(r) \in Nat /\ Len(r) <= Len(p) + (n + 1) /\ ~(Len(r) <= Len(p) + n)
    BY <1>0, <1>1, <1>7
  <2>2. r # p /\ Len(r) = Len(p) + (n + 1)
    BY <1>0, <2>1
  <2> DEFINE q == Parent(r)
  <2>3. r # Root /\ q \in Under(p)
    BY <2>1, <2>2, ImageOfParent
  <2>4. q \in Paths /\ q \in Above(r) /\ Len(q) = Len(r) - 1 /\ r \in Under(q)
    <3>1. q \in Above(r) /\ Len(q) = Len(r) - 1
      BY <2>1, <2>3, ParentIsAbove
    <3>. QED
      BY <2>1, <3>1, AboveIs DEF Under, IsStrictPrefix
  <2>5. ShowsDirectory(rows, q)
    BY <2>1 DEF Visible, TreeShaped
  <2> HIDE DEF q
  <2>6. Visible(rows, hidden, q)
    <3>1. q \in hidden.paths => r \in hidden.paths
      BY <2>4, HidingsAssumption
    <3>. QED
      BY <2>1, <2>5, <3>1 DEF Visible, ShowsDirectory
  <2>7. q \in S /\ Len(r) = Len(q) + 1
    <3>1. Len(q) <= Len(p) + n /\ Len(r) = Len(q) + 1
      BY <1>0, <2>1, <2>2, <2>4
    <3>. QED
      BY <1>1, <2>3, <2>6, <3>1
  <2>8. r \in Readdir(rows, hidden, q).at
    BY <1>2, <2>1, <2>3, <2>4, <2>5, <2>6, <2>7
  <2>. QED
    BY <1>4, <2>5, <2>7, <2>8
<1>8. S \cup down = T
  BY <1>5, <1>6, <1>7
<1>. QED
  BY <1>3, <1>8 DEF S, T

\* Listing directory by directory finds what is below.
LEMMA ListedFromIs ==
  ASSUME NEW rows \in RowMaps, TreeShaped(rows), NEW hidden \in Hidings, NEW p \in Paths,
         Visible(rows, hidden, p)
  PROVE  ListedFrom(rows, hidden, p) = {q \in Under(p) : q # p /\ Visible(rows, hidden, q)}
<1> DEFINE reach == CHOOSE g : ListsOn(g, rows, hidden, p)
           near(n) == Near(rows, hidden, p, n)
<1>0. PathBound \in Nat /\ Len(p) \in Nat
  BY PathBoundAssumption, PathIsSeq
<1>1. ListedFrom(rows, hidden, p) = reach[PathBound] \ {p}
  BY DEF ListedFrom, ListsOn, ListAll
<1>2. near(0) = {p}
  <2>1. p \in near(0)
    BY <1>0, PrefixOrder DEF Near, Under
  <2>2. ASSUME NEW q \in near(0) PROVE q = p
    <3>1. q \in Paths /\ IsPrefix(p, q) /\ Len(q) <= Len(p) + 0 /\ Len(q) \in Nat
      BY PathIsSeq DEF Near, Under
    <3>2. Len(p) <= Len(q)
      BY <3>1, PrefixOrder
    <3>3. Len(q) = Len(p)
      BY <1>0, <3>1, <3>2
    <3>. QED
      BY <3>1, <3>3, PrefixOrder
  <2>. QED
    BY <2>1, <2>2
<1>3. \A n \in Nat : ListAll(rows, hidden, near(n)) = near(n + 1)
  BY OneLevel
<1>4. \A n \in Nat : n # 0 => ListAll(rows, hidden, near(n - 1)) = near(n)
  <2>1. ASSUME NEW n \in Nat, n # 0 PROVE ListAll(rows, hidden, near(n - 1)) = near(n)
    <3>1. n - 1 \in Nat /\ (n - 1) + 1 = n
      BY <2>1
    <3> HIDE DEF near
    <3>2. ListAll(rows, hidden, near(n - 1)) = near((n - 1) + 1)
      BY <1>3, <3>1
    <3>. QED
      BY <3>1, <3>2
  <2>. QED
    BY <2>1
<1> HIDE DEF near
<1>5. \E g : ListsOn(g, rows, hidden, p)
  <2> DEFINE g == [n \in 0..PathBound |-> near(n)]
  <2>1. g = [n \in 0..PathBound |-> g[n]] /\ \A n \in 0..PathBound : g[n] = near(n)
    OBVIOUS
  <2> HIDE DEF g
  <2>2. ASSUME NEW n \in 0..PathBound
        PROVE  g[n] = IF n = 0 THEN {p} ELSE ListAll(rows, hidden, g[n - 1])
    <3>1. n \in Nat /\ (n # 0 => n - 1 \in 0..PathBound)
      BY <1>0
    <3>. QED
      BY <1>2, <1>4, <2>1, <3>1
  <2>3. ListsOn(g, rows, hidden, p)
    BY <2>1, <2>2 DEF ListsOn
  <2>. QED
    BY <2>3
<1>6. ListsOn(reach, rows, hidden, p)
  BY <1>5
<1> HIDE DEF reach
<1>7. \A n \in 0..PathBound : reach[n] = IF n = 0 THEN {p} ELSE ListAll(rows, hidden, reach[n - 1])
  BY <1>6 DEF ListsOn
<1> DEFINE B == {n \in 0..PathBound : reach[n] # near(n)}
<1>8. ASSUME B # {} PROVE FALSE
  <2>1. PICK m \in B : \A i \in B : m <= i
    <3>1. B \subseteq Nat
      OBVIOUS
    <3> HIDE DEF B
    <3>. QED
      BY <1>8, <3>1, LeastNumber
  <2>2. m \in 0..PathBound /\ m \in Nat /\ reach[m] # near(m)
    BY <1>0
  <2>3. m # 0
    BY <1>2, <1>7, <2>2
  <2>4. m - 1 \in 0..PathBound /\ ~(m <= m - 1)
    BY <1>0, <2>2, <2>3
  <2>5. reach[m - 1] = near(m - 1)
    BY <2>1, <2>4
  <2>. QED
    BY <1>4, <1>7, <2>2, <2>3, <2>5
<1>9. reach[PathBound] = near(PathBound)
  BY <1>0, <1>8
<1>10. \A q \in Under(p) : Len(q) <= Len(p) + PathBound
  <2>1. ASSUME NEW q \in Under(p) PROVE Len(q) <= Len(p) + PathBound
    <3>1. q \in Paths
      BY DEF Under
    <3>2. PICK n \in 0..PathBound : q \in [1..n -> Names]
      BY <3>1 DEF Paths
    <3>3. Len(q) = n
      BY <1>0, <3>2
    <3>. QED
      BY <1>0, <3>3
  <2>. QED
    BY <2>1
<1>. QED
  BY <1>1, <1>9, <1>10 DEF near, Near

\* glob, for the three patterns.
LEMMA GlobIs ==
  ASSUME NEW rows, NEW hidden, NEW p \in Paths, ~IsLink(rows, p), ShowsDirectory(rows, p)
  PROVE  /\ Glob(rows, hidden, p, Pattern(<<>>, 0, TRUE))
              = Files(rows, {q \in Under(p) : q # p /\ Visible(rows, hidden, q)})
         /\ Glob(rows, hidden, p, Pattern(<<>>, 1, FALSE))
              = Files(rows, {q \in Under(p) : Len(q) = Len(p) + 1 /\ Visible(rows, hidden, q)})
         /\ \A q \in Under(p) : Len(q) = Len(p) + 1 /\ Visible(rows, hidden, q) =>
              Glob(rows, hidden, p, Pattern(<<Last(q)>>, 0, FALSE)) = Files(rows, {q})
<1>0. p \in Seq(Names) /\ Len(p) \in Nat /\ Entry(rows, p).type # "file"
  BY PathIsSeq DEF ShowsDirectory
<1>1. p \o <<>> = p
  BY <1>0
<1>2. /\ \A names, stars, deep : /\ Pattern(names, stars, deep).names = names
                                 /\ Pattern(names, stars, deep).stars = stars
                                 /\ Pattern(names, stars, deep).deep = deep
  BY DEF Pattern
<1>3. Glob(rows, hidden, p, Pattern(<<>>, 0, TRUE))
        = {q \in Paths : /\ IsPrefix(p, q) /\ Visible(rows, hidden, q)
                         /\ Entry(rows, q).type = "file"}
  BY <1>1 DEF Glob, Pattern
<1>4. Glob(rows, hidden, p, Pattern(<<>>, 1, FALSE))
        = {q \in Paths : /\ IsPrefix(p, q) /\ Visible(rows, hidden, q)
                         /\ Entry(rows, q).type = "file" /\ Len(q) = Len(p) + 1}
  BY <1>1 DEF Glob, Pattern
<1>5. ASSUME NEW q \in Under(p), Len(q) = Len(p) + 1, Visible(rows, hidden, q)
      PROVE  Glob(rows, hidden, p, Pattern(<<Last(q)>>, 0, FALSE)) = Files(rows, {q})
  <2>1. q \in Paths /\ q # Root /\ Front(q) = p /\ q \in Seq(Names) /\ Len(q) \in Nat
    BY <1>5, ChildIs, PathIsSeq DEF Under
  <2>2. p \o <<Last(q)>> = q
    <3>1. p = SubSeq(q, 1, Len(q) - 1) /\ Last(q) = q[Len(q)] /\ Len(q) > 0
      BY <1>0, <1>5, <2>1 DEF Front, Last
    <3> DEFINE s == p \o <<Last(q)>>
    <3>2. Last(q) \in Names
      BY <2>1, <3>1, ElementOfSeq
    <3>3. /\ s \in Seq(Names) /\ Len(s) = Len(p) + 1
          /\ \A i \in 1..(Len(p) + 1) : s[i] = IF i <= Len(p) THEN p[i] ELSE <<Last(q)>>[i - Len(p)]
      <4>1. <<Last(q)>> \in Seq(Names) /\ Len(<<Last(q)>>) = 1
        BY <3>2
      <4> DEFINE one == <<Last(q)>>
      <4> HIDE DEF one
      <4>2. /\ p \o one \in Seq(Names) /\ Len(p \o one) = Len(p) + Len(one)
            /\ \A i \in 1..(Len(p) + Len(one)) :
                 (p \o one)[i] = IF i <= Len(p) THEN p[i] ELSE one[i - Len(p)]
        BY <1>0, <4>1, ConcatProperties DEF one
      <4>. QED
        BY <4>1, <4>2 DEF one
    <3> HIDE DEF s
    <3>4. \A i \in 1..Len(p) : p[i] = q[i]
      <4>1. IsPrefix(p, q)
        BY DEF Under
      <4>. QED
        BY <1>0, <2>1, <4>1, PrefixIs
    <3>5. ASSUME NEW i \in 1..Len(q) PROVE s[i] = q[i]
      <4>1. CASE i <= Len(p)
        <5>1. i \in 1..Len(p) /\ i \in 1..(Len(p) + 1)
          BY <1>0, <1>5, <4>1
        <5>. QED
          BY <3>3, <3>4, <4>1, <5>1
      <4>2. CASE ~(i <= Len(p))
        <5>1. i = Len(q) /\ i - Len(p) = 1 /\ i \in 1..(Len(p) + 1)
          BY <1>0, <1>5, <2>1, <4>2
        <5>2. s[i] = <<Last(q)>>[1]
          BY <3>3, <4>2, <5>1
        <5>. QED
          BY <3>1, <5>1, <5>2
      <4>. QED
        BY <4>1, <4>2
    <3>6. s = q
      BY <1>5, <2>1, <3>3, <3>5, SeqEqual
    <3>. QED
      BY <3>6 DEF s
  <2>3. Glob(rows, hidden, p, Pattern(<<Last(q)>>, 0, FALSE))
          = {r \in Paths : /\ IsPrefix(q, r) /\ Visible(rows, hidden, r)
                           /\ Entry(rows, r).type = "file" /\ Len(r) = Len(q) + 0}
    BY <2>2 DEF Glob, Pattern
  <2>4. \A r \in Paths : IsPrefix(q, r) /\ Len(r) = Len(q) + 0 <=> r = q
    <3>1. \A r \in Paths : Len(r) = Len(q) + 0 <=> Len(q) = Len(r)
      BY <2>1, PathIsSeq
    <3>. QED
      BY <2>1, <3>1, PrefixOrder
  <2>5. ASSUME NEW r
        PROVE  r \in Glob(rows, hidden, p, Pattern(<<Last(q)>>, 0, FALSE)) <=> r \in Files(rows, {q})
    BY <1>5, <2>1, <2>3, <2>4 DEF Files
  <2>. QED
    BY <2>5
<1>6. \A q \in Paths : IsPrefix(p, q) <=> q \in Under(p)
  BY DEF Under
<1>7. \A q \in Under(p) : q \in Paths /\ Len(p) # Len(p) + 1
  BY <1>0 DEF Under
<1>8. Glob(rows, hidden, p, Pattern(<<>>, 0, TRUE))
        = Files(rows, {q \in Under(p) : q # p /\ Visible(rows, hidden, q)})
  BY <1>0, <1>3, <1>6, <1>7 DEF Files
<1>9. Glob(rows, hidden, p, Pattern(<<>>, 1, FALSE))
        = Files(rows, {q \in Under(p) : Len(q) = Len(p) + 1 /\ Visible(rows, hidden, q)})
  BY <1>4, <1>6, <1>7 DEF Files
<1>. QED
  BY <1>5, <1>8, <1>9

\* The one-statement listing answers what following the path and listing the
\* directory it leads to answers; walk and glob find what listing directory by
\* directory finds (ListingsAgree): an entry below a directory that is not
\* hidden has only directories above it that are not hidden either.
THEOREM ListingsAgreeWithLookups == Spec => []ListingsAgree
<1>1. OpsTyped => ListingsAgree
  <2> SUFFICES ASSUME OpsTyped, NEW hidden \in Hidings, NEW p \in Paths
               PROVE  LET real == Realpath(own, hidden, p)
                          names == Readdir(own, hidden, p)
                          walk == WalkOf(own, hidden, p)
                      IN /\ Exists(own, hidden, p) <=>
                              real.error = "none" \/ Readlink(own, hidden, p).error = "none"
                         /\ IF real.error = "none"
                            THEN IF ShowsDirectory(own, real.at)
                                 THEN /\ names.at = {q \in Paths : /\ q # Root /\ Front(q) = real.at
                                                                   /\ Lstat(own, hidden, q).error = "none"}
                                      /\ TreeShaped(own) => walk.at = ListedFrom(own, hidden, real.at)
                                 ELSE names.error = "ENOTDIR" /\ walk.error = "ENOTDIR"
                            ELSE names.error = real.error /\ walk.error = real.error
                         /\ real = Found(p) /\ ShowsDirectory(own, p) =>
                              /\ Glob(own, hidden, p, Pattern(<<>>, 0, TRUE)) = Files(own, walk.at)
                              /\ Glob(own, hidden, p, Pattern(<<>>, 1, FALSE)) = Files(own, names.at)
                              /\ \A q \in names.at :
                                   Glob(own, hidden, p, Pattern(<<Last(q)>>, 0, FALSE)) = Files(own, {q})
    BY DEF ListingsAgree, LookupsAgree
  <2> DEFINE real == Realpath(own, hidden, p)
             names == Readdir(own, hidden, p)
             walk == WalkOf(own, hidden, p)
  <2>1. own \in RowMaps /\ real = Followed(own, hidden, p)
    BY DEF OpsTyped, Realpath
  <2>2. /\ real.error # "none" => names.error = real.error /\ walk.error = real.error
        /\ real.error = "none" =>
             /\ real.at \in Paths /\ Visible(own, hidden, real.at) /\ ~IsLink(own, real.at)
             /\ real = Found(real.at) /\ Visible(own, hidden, p)
             /\ ShowsDirectory(own, real.at) =>
                  /\ names.at = Listed(own, hidden, real.at, "children")
                  /\ walk.at = Listed(own, hidden, real.at, "subtree")
             /\ ~ShowsDirectory(own, real.at) => names.error = "ENOTDIR" /\ walk.error = "ENOTDIR"
    BY <2>1, ListingIs DEF Readdir, WalkOf
  <2>3. Exists(own, hidden, p) <=>
          real.error = "none" \/ Readlink(own, hidden, p).error = "none"
    <3>1. Found(p).error = "none" /\ \A q : Found(q).error = "none" /\ Found(q).at = q
      BY DEF Found
    <3>2. Failed("ENOENT").error = "ENOENT"
      BY DEF Failed
    <3>3. CASE ~Visible(own, hidden, p)
      <4>1. real.error = "ENOENT" /\ Readlink(own, hidden, p).error = "ENOENT"
        BY <2>1, <3>2, <3>3, FollowedStarts DEF Readlink
      <4>. QED
        BY <3>3, <4>1 DEF Exists
    <3>4. CASE Visible(own, hidden, p) /\ ~IsLink(own, p)
      BY <2>1, <3>1, <3>4, FollowedStarts DEF Exists
    <3>5. CASE Visible(own, hidden, p) /\ IsLink(own, p)
      <4>1. Readlink(own, hidden, p) = Found(Entry(own, p).data)
        BY <3>5 DEF Readlink
      <4>. QED
        BY <3>1, <3>5, <4>1 DEF Exists
    <3>. QED
      BY <3>3, <3>4, <3>5
  <2>4. ASSUME NEW at \in Paths
        PROVE  /\ Listed(own, hidden, at, "children")
                    = {q \in Paths : /\ q # Root /\ Front(q) = at
                                     /\ Lstat(own, hidden, q).error = "none"}
               /\ Listed(own, hidden, at, "children")
                    = {q \in Under(at) : Len(q) = Len(at) + 1 /\ Visible(own, hidden, q)}
               /\ Listed(own, hidden, at, "subtree")
                    = {q \in Under(at) : q # at /\ Visible(own, hidden, q)}
    BY ListsAre
  <2> HIDE DEF real, names, walk
  <2>5. IF real.error = "none"
        THEN IF ShowsDirectory(own, real.at)
             THEN /\ names.at = {q \in Paths : /\ q # Root /\ Front(q) = real.at
                                               /\ Lstat(own, hidden, q).error = "none"}
                  /\ TreeShaped(own) => walk.at = ListedFrom(own, hidden, real.at)
             ELSE names.error = "ENOTDIR" /\ walk.error = "ENOTDIR"
        ELSE names.error = real.error /\ walk.error = real.error
    <3>1. ASSUME real.error = "none", ShowsDirectory(own, real.at)
          PROVE  /\ names.at = {q \in Paths : /\ q # Root /\ Front(q) = real.at
                                              /\ Lstat(own, hidden, q).error = "none"}
                 /\ TreeShaped(own) => walk.at = ListedFrom(own, hidden, real.at)
      <4> DEFINE at == real.at
      <4>1. /\ at \in Paths /\ Visible(own, hidden, at)
            /\ names.at = Listed(own, hidden, at, "children")
            /\ walk.at = Listed(own, hidden, at, "subtree")
        BY <2>2, <3>1
      <4> HIDE DEF at
      <4>2. names.at = {q \in Paths : /\ q # Root /\ Front(q) = at
                                      /\ Lstat(own, hidden, q).error = "none"}
        BY <2>4, <4>1
      <4>3. TreeShaped(own) => walk.at = ListedFrom(own, hidden, at)
        <5>1. own \in RowMaps /\ walk.at = {q \in Under(at) : q # at /\ Visible(own, hidden, q)}
          BY <2>1, <2>4, <4>1
        <5>2. TreeShaped(own) =>
                ListedFrom(own, hidden, at) = {q \in Under(at) : q # at /\ Visible(own, hidden, q)}
          BY <4>1, <5>1, ListedFromIs
        <5>. QED
          BY <5>1, <5>2
      <4>. QED
        BY <4>2, <4>3 DEF at
    <3>2. real.error = "none" /\ ~ShowsDirectory(own, real.at) =>
            names.error = "ENOTDIR" /\ walk.error = "ENOTDIR"
      BY <2>2
    <3>3. real.error # "none" => names.error = real.error /\ walk.error = real.error
      BY <2>2
    <3>. QED
      BY <3>1, <3>2, <3>3, Zenon
  <2>6. ASSUME real = Found(p), ShowsDirectory(own, p)
        PROVE  /\ Glob(own, hidden, p, Pattern(<<>>, 0, TRUE)) = Files(own, walk.at)
               /\ Glob(own, hidden, p, Pattern(<<>>, 1, FALSE)) = Files(own, names.at)
               /\ \A q \in names.at :
                    Glob(own, hidden, p, Pattern(<<Last(q)>>, 0, FALSE)) = Files(own, {q})
    <3>1. real.error = "none" /\ real.at = p
      BY <2>6 DEF Found
    <3>2. /\ ~IsLink(own, p)
          /\ names.at = {q \in Under(p) : Len(q) = Len(p) + 1 /\ Visible(own, hidden, q)}
          /\ walk.at = {q \in Under(p) : q # p /\ Visible(own, hidden, q)}
      BY <2>2, <2>4, <2>6, <3>1
    <3>3. /\ Glob(own, hidden, p, Pattern(<<>>, 0, TRUE))
                = Files(own, {q \in Under(p) : q # p /\ Visible(own, hidden, q)})
          /\ Glob(own, hidden, p, Pattern(<<>>, 1, FALSE))
                = Files(own, {q \in Under(p) : Len(q) = Len(p) + 1 /\ Visible(own, hidden, q)})
          /\ \A q \in Under(p) : Len(q) = Len(p) + 1 /\ Visible(own, hidden, q) =>
                Glob(own, hidden, p, Pattern(<<Last(q)>>, 0, FALSE)) = Files(own, {q})
      BY <2>6, <3>2, GlobIs
    <3>4. \A q \in names.at : q \in Under(p) /\ Len(q) = Len(p) + 1 /\ Visible(own, hidden, q)
      BY <3>2
    <3>. QED
      BY <3>2, <3>3, <3>4
  <2>. QED
    BY <2>3, <2>5, <2>6 DEF real, names, walk
<1>. QED
  BY <1>1, OpsInvariant, PTL
=============================================================================
