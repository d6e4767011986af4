----------------------------- MODULE TreeProofs -----------------------------
(***************************************************************************)
(* What merge, cherryPick and revert do to a version, for every set of     *)
(* names, every depth, every tree of the version and every source. None of *)
(* it depends on how the version came by its rows. Then the transactions   *)
(* of TreeRace, for any number of connections: what one commits that no    *)
(* other overlapped, and whose commits leave a tree.                       *)
(***************************************************************************)
EXTENDS TreeOps, TreeRace, SequenceTheorems, FiniteSetTheorems, WellFoundedInduction, TLAPS

-----------------------------------------------------------------------------
(* Paths.                                                                  *)

\* A path is a sequence of names.
LEMMA PathIsSeq == ASSUME NEW p \in Paths PROVE p \in Seq(Names) /\ Len(p) \in Nat
<1>1. PICK n \in 0..PathBound : p \in [1..n -> Names]
  BY DEF Paths
<1>. QED
  BY <1>1

\* The directories above a path are the paths of its first names.
LEMMA AboveIs ==
  ASSUME NEW p \in Paths, NEW q \in Above(p)
  PROVE  /\ q \in Paths /\ Len(q) \in Nat /\ Len(q) < Len(p)
         /\ q = SubSeq(p, 1, Len(q)) /\ IsStrictPrefix(q, p)
<1>1. PICK n \in 0..PathBound : p \in [1..n -> Names]
  BY DEF Paths
<1>2. p \in Seq(Names) /\ Len(p) = n
  BY <1>1
<1>3. PICK l \in 0..Len(p) : q = SubSeq(p, 1, l)
  BY DEF Above, Prefixes
<1>4. /\ q \in Seq(Names) /\ Len(q) = l
  BY <1>2, <1>3
<1>5. l # n
  BY <1>2, <1>3 DEF Above
<1>6. q \in [1..l -> Names] /\ l \in 0..PathBound
  <2>1. q \in [1..Len(q) -> Names]
    BY <1>4, LenProperties
  <2>2. n \in Nat /\ n <= PathBound /\ l <= n /\ l \in Nat
    BY <1>2, <1>3, PathBoundAssumption
  <2>. QED
    BY <1>4, <2>1, <2>2, PathBoundAssumption
<1>7. SubSeq(q, 1, Len(q)) = q
  BY <1>4
<1>. QED
  BY <1>2, <1>3, <1>4, <1>5, <1>6, <1>7 DEF Paths, Above, IsStrictPrefix, IsPrefix

LEMMA AboveOrdered ==
  ASSUME NEW p \in Paths, NEW q \in Above(p), NEW r \in Above(p)
  PROVE  /\ Len(q) <= Len(r) => IsPrefix(q, r)
         /\ Len(q) = Len(r) => q = r
         /\ IsPrefix(q, r) => Len(q) <= Len(r)
         /\ IsStrictPrefix(q, r) => Len(q) < Len(r)
<1>1. p \in Seq(Names)
  BY PathIsSeq
<1>2. /\ Len(q) \in Nat /\ Len(q) < Len(p) /\ q = SubSeq(p, 1, Len(q))
      /\ Len(r) \in Nat /\ Len(r) < Len(p) /\ r = SubSeq(p, 1, Len(r))
  BY AboveIs
<1>3. ASSUME Len(q) <= Len(r) PROVE IsPrefix(q, r)
  <2>1. q \in Seq(Names) /\ r \in Seq(Names)
    BY AboveIs, PathIsSeq
  <2>2. SubSeq(q, 1, Len(q)) = q
    BY <2>1
  <2>3. SubSeq(r, 1, Len(q)) = SubSeq(p, 1, Len(q))
    BY <1>1, <1>2, <1>3, <2>1
  <2>. QED
    BY <1>2, <1>3, <2>2, <2>3 DEF IsPrefix
<1>4. Len(q) = Len(r) => q = r
  BY <1>2
<1>5. IsPrefix(q, r) => Len(q) <= Len(r)
  BY DEF IsPrefix
<1>6. IsStrictPrefix(q, r) => Len(q) < Len(r)
  <2>1. Len(q) \in Nat /\ Len(r) \in Nat
    BY <1>2
  <2>2. IsStrictPrefix(q, r) => q # r /\ IsPrefix(q, r)
    BY DEF IsStrictPrefix
  <2>. QED
    BY <1>4, <1>5, <2>1, <2>2
<1>. QED
  BY <1>3, <1>4, <1>5, <1>6

\* The parent of a path is the lowest directory above it.
LEMMA ParentIsAbove ==
  ASSUME NEW p \in Paths, p # Root
  PROVE  Parent(p) \in Above(p) /\ Len(p) > 0 /\ Len(Parent(p)) = Len(p) - 1
<1>1. p \in Seq(Names) /\ Len(p) \in Nat
  BY PathIsSeq
<1>2. Len(p) > 0
  BY <1>1 DEF Root
<1>3. Parent(p) = SubSeq(p, 1, Len(p) - 1)
  BY DEF Parent, Front
<1>4. Len(Parent(p)) = Len(p) - 1
  <2>1. \A i \in 1..Len(p) : p[i] \in Names
    BY <1>1, LenProperties
  <2>2. /\ Len(p) - 1 \in Int /\ 1 \in Int
        /\ \A i \in 1..(Len(p) - 1) : p[i] \in Names
    BY <1>1, <2>1
  <2>3. Len(SubSeq(p, 1, Len(p) - 1))
          = IF 1 <= Len(p) - 1 THEN (Len(p) - 1) - 1 + 1 ELSE 0
    BY <2>2, SubSeqProperties
  <2> DEFINE n == Len(p)
             m == Len(Parent(p))
  <2>4. n \in Nat /\ n > 0 /\ m = IF 1 <= n - 1 THEN (n - 1) - 1 + 1 ELSE 0
    BY <1>1, <1>2, <1>3, <2>3
  <2>5. m = n - 1
    <3> HIDE DEF n, m
    <3>. QED
      BY <2>4
  <2>. QED
    BY <2>5
<1>. QED
  BY <1>1, <1>2, <1>3, <1>4 DEF Above, Prefixes

LEMMA ParentOfAbove ==
  ASSUME NEW p \in Paths, NEW q \in Above(p), q # Root
  PROVE  Parent(q) \in Above(p) /\ Len(Parent(q)) = Len(q) - 1
<1>1. /\ q \in Paths /\ q = SubSeq(p, 1, Len(q)) /\ Len(q) < Len(p)
  BY AboveIs
<1>2. Len(q) > 0 /\ Len(q) \in Nat /\ Len(Parent(q)) = Len(q) - 1
  BY <1>1, ParentIsAbove, PathIsSeq
<1>3. Parent(q) = SubSeq(q, 1, Len(q) - 1)
  BY <1>1, <1>2, PathIsSeq DEF Parent, Front
<1>4. Parent(q) = SubSeq(p, 1, Len(q) - 1)
  BY <1>1, <1>2, <1>3, PathIsSeq
<1>5. Len(p) \in Nat
  BY PathIsSeq
<1>6. Parent(q) # p /\ Len(q) - 1 \in 0..Len(p)
  BY <1>1, <1>2, <1>5
<1>. QED
  BY <1>2, <1>4, <1>6 DEF Above, Prefixes

-----------------------------------------------------------------------------
(* Trees.                                                                  *)

LEMMA LeastNumber ==
  ASSUME NEW S, S \subseteq Nat, S # {}
  PROVE  \E n \in S : \A m \in S : n <= m
<1> DEFINE R == {p \in Nat \X Nat : p[1] < p[2]}
<1>1. IsWellFoundedOn(R, Nat)
  BY NatLessThanWellFounded DEF OpToRel
<1>2. \E n \in S : \A m \in S : ~(<<m, n>> \in R)
  <2> HIDE DEF R
  <2>. QED
    BY <1>1, WFMin
<1>3. \A n, m \in S : ~(<<m, n>> \in R) => n <= m
  OBVIOUS
<1>. QED
  BY <1>2, <1>3

\* In a tree whatever is shown has directories all the way up.
LEMMA TreeAbove ==
  ASSUME NEW view, IsTree(view), NEW p \in Paths, view[p] # Absent
  PROVE  \A q \in Above(p) : IsDirectory(view, q)
<1> DEFINE Bad == {q \in Above(p) : ~IsDirectory(view, q)}
           Heights == {Len(p) - Len(q) : q \in Bad}
<1> SUFFICES ASSUME Bad # {} PROVE FALSE
  OBVIOUS
<1>1. p \in Seq(Names) /\ Len(p) \in Nat
  BY PathIsSeq
<1>2. \A q \in Above(p) : Len(q) \in Nat /\ Len(q) < Len(p)
  BY AboveIs
<1>3. Heights \subseteq Nat /\ Heights # {}
  BY <1>1, <1>2
<1>4. PICK h \in Heights : \A k \in Heights : h <= k
  <2> HIDE DEF Heights
  <2>. QED
    BY <1>3, LeastNumber
<1>5. PICK q \in Bad : h = Len(p) - Len(q)
  OBVIOUS
<1>6. \A r \in Above(p) : Len(r) > Len(q) => IsDirectory(view, r)
  <2> SUFFICES ASSUME NEW r \in Above(p), Len(r) > Len(q), ~IsDirectory(view, r) PROVE FALSE
    OBVIOUS
  <2>1. h <= Len(p) - Len(r)
    BY <1>4
  <2>. QED
    BY <1>1, <1>2, <1>5, <2>1
<1>7. q \in Above(p) /\ ~IsDirectory(view, q) /\ Len(q) \in Nat /\ Len(q) < Len(p)
  BY <1>2
<1> HIDE DEF Bad, Heights
<1>8. p # Root
  BY <1>7 DEF Root
<1>9. Parent(p) \in Above(p) /\ Len(Parent(p)) = Len(p) - 1
  BY <1>8, ParentIsAbove
<1>10. CASE Len(q) = Len(p) - 1
  <2>1. q = Parent(p)
    BY <1>7, <1>9, <1>10, AboveOrdered
  <2>. QED
    BY <1>7, <2>1 DEF IsTree
<1>11. CASE Len(q) < Len(p) - 1
  <2> DEFINE r == SubSeq(p, 1, Len(q) + 1)
  <2>1. Len(q) + 1 \in 0..Len(p) /\ Len(q) + 1 < Len(p)
    BY <1>1, <1>7, <1>11
  <2>2. Len(r) = Len(q) + 1
    BY <1>1, <2>1
  <2>3. r \in Above(p)
    BY <2>1, <2>2 DEF Above, Prefixes
  <2> HIDE DEF r
  <2>4. IsDirectory(view, r)
    BY <1>6, <1>7, <2>2, <2>3
  <2>5. r \in Paths /\ r # Root
    BY <1>7, <2>2, <2>3, AboveIs DEF Root
  <2>6. Parent(r) \in Above(p) /\ Len(Parent(r)) = Len(q)
    BY <1>7, <2>2, <2>3, <2>5, ParentOfAbove
  <2>7. Parent(r) = q
    BY <1>7, <2>6, AboveOrdered
  <2>. QED
    BY <1>7, <2>4, <2>5, <2>7 DEF IsTree, IsDirectory
<1>. QED
  BY <1>1, <1>7, <1>10, <1>11

-----------------------------------------------------------------------------
(* What a merge writes.                                                    *)

Rows(theirs, p) == IF theirs[p] = Absent THEN Tombstone ELSE theirs[p]

\* A directory to be made lies above a landing, and nothing will be shown there.
LEMMA MissingIs ==
  ASSUME NEW post, NEW plan, DOMAIN plan \subseteq Paths, NEW q \in Missing(post, plan)
  PROVE  \E l \in Landing(plan) : /\ q \in MissingAbove(post, l) /\ q \in Above(l) /\ l \in Paths
                                  /\ q \in Paths /\ post[q] = Absent
<1>1. PICK l \in Landing(plan) : q \in MissingAbove(post, l)
  BY DEF Missing
<1>2. l \in Paths /\ q \in Above(l)
  BY <1>1 DEF Landing, MissingAbove
<1>3. q \in Paths /\ Len(q) <= Len(q)
  BY <1>2, AboveIs
<1>4. IsPrefix(q, q)
  BY <1>2, <1>3, AboveOrdered
<1>. QED
  BY <1>1, <1>2, <1>3, <1>4 DEF MissingAbove

\* What applying taken paths of the source will show, write, and refuse.
PostOf(ours, theirs, taken) == Post(ours, Plan(theirs, taken))
WritesOf(ours, theirs, taken, parents) ==
  WithParents(PostOf(ours, theirs, taken), Plan(theirs, taken), parents)
RefusesOf(ours, theirs, taken, parents) ==
  Refuses(PostOf(ours, theirs, taken), Plan(theirs, taken), parents)

\* What is written is what the source shows, or a directory above a landing.
Addressed(ours, theirs, taken) ==
  taken \cup Missing(PostOf(ours, theirs, taken), Plan(theirs, taken))

LEMMA PlanDomain ==
  ASSUME NEW ours, NEW theirs, NEW parents, NEW taken
  PROVE  DOMAIN WritesOf(ours, theirs, taken, parents) = Addressed(ours, theirs, taken)
BY DEF Plan, WritesOf, WithParents, Addressed

LEMMA PlanInPaths ==
  ASSUME NEW ours, NEW theirs, NEW taken, taken \subseteq Paths
  PROVE  taken \subseteq Addressed(ours, theirs, taken) /\ Addressed(ours, theirs, taken) \subseteq Paths
<1>1. DOMAIN Plan(theirs, taken) = taken
  BY DEF Plan
<1>. QED
  BY <1>1, MissingIs DEF Addressed

LEMMA PlanTaken ==
  ASSUME NEW ours, NEW theirs, NEW parents, NEW taken, NEW p \in taken
  PROVE  WritesOf(ours, theirs, taken, parents)[p] = Rows(theirs, p)
BY DEF Plan, Rows, WritesOf, WithParents

LEMMA PlanAdds ==
  ASSUME NEW ours, NEW theirs, NEW parents, NEW taken, taken \subseteq Paths,
         ~RefusesOf(ours, theirs, taken, parents),
         NEW p \in DOMAIN WritesOf(ours, theirs, taken, parents), p \notin taken
  PROVE  /\ ours[p] = Absent
         /\ IsDirectory(parents, p)
         /\ WritesOf(ours, theirs, taken, parents)[p] = parents[p]
         /\ \E l \in taken \cap Landing(WritesOf(ours, theirs, taken, parents)) :
              /\ p \in MissingAbove(PostOf(ours, theirs, taken), l) /\ p \in Above(l)
              /\ theirs[l] # Absent
<1> DEFINE plan == Plan(theirs, taken)
           post == PostOf(ours, theirs, taken)
           writes == WritesOf(ours, theirs, taken, parents)
<1>1. DOMAIN plan = taken /\ \A q \in taken : plan[q] = Rows(theirs, q)
  BY DEF Plan, Rows
<1>2. post = Post(ours, plan) /\ ~Refuses(post, plan, parents)
  BY DEF PostOf, RefusesOf
<1>3. /\ DOMAIN writes = taken \cup Missing(post, plan)
      /\ \A q \in taken : writes[q] = plan[q]
      /\ \A q \in Missing(post, plan) \ taken : writes[q] = parents[q]
  BY <1>1 DEF WritesOf, WithParents
<1> HIDE DEF plan, post, writes
<1>4. p \in Missing(post, plan)
  BY <1>3 DEF writes
<1>5. PICK l \in Landing(plan) : /\ p \in MissingAbove(post, l) /\ p \in Above(l)
                                 /\ p \in Paths /\ post[p] = Absent
  BY <1>1, <1>4, MissingIs
<1>6. ours[p] = Absent
  BY <1>1, <1>2, <1>5 DEF Post
<1>7. IsDirectory(parents, p)
  BY <1>2, <1>4 DEF Refuses
<1>8. l \in taken /\ plan[l].type \in {"file", "symlink"}
  BY <1>1 DEF Landing
<1>9. theirs[l] # Absent
  BY <1>1, <1>8 DEF Rows, Tombstone
<1>10. l \in Landing(writes)
  BY <1>3, <1>8 DEF Landing
<1>. QED
  BY <1>3, <1>4, <1>5, <1>6, <1>7, <1>8, <1>9, <1>10 DEF writes, post

-----------------------------------------------------------------------------
(* What merge reads, takes and would put above a landing.                  *)

Ours(rows, selection) == Fetched(View(rows), selection.scope)
Theirs(source, selection) == Fetched(source.view, selection.scope)
Base(source, selection) == Fetched(source.base, selection.scope)

Considered(rows, source, selection) ==
  Selected(selection.filters, selection.scope)
    \cap ShownIn({Ours(rows, selection), Theirs(source, selection), Base(source, selection)})
Taken(rows, source, strategy, selection) ==
  Considered(rows, source, selection)
    \cap (OnlyTheirs(Ours(rows, selection), Theirs(source, selection), Base(source, selection))
          \cup IF strategy = "theirs"
               THEN Conflicting(Ours(rows, selection), Theirs(source, selection),
                                Base(source, selection))
               ELSE {})
Parents(rows, source, selection) ==
  MergeParents(Ours(rows, selection), Theirs(source, selection), Base(source, selection))

\* The three fetched views.
LEMMA FetchedViews ==
  ASSUME NEW rows, NEW source, NEW selection, NEW p \in Paths
  PROVE  /\ p \in Under(selection.scope) =>
              /\ Ours(rows, selection)[p] = Entry(rows, p)
              /\ Theirs(source, selection)[p] = source.view[p]
              /\ Base(source, selection)[p] = source.base[p]
         /\ p \notin Under(selection.scope) =>
              /\ Ours(rows, selection)[p] = Absent
              /\ Theirs(source, selection)[p] = Absent
              /\ Base(source, selection)[p] = Absent
              /\ Parents(rows, source, selection)[p] = Absent
         /\ Parents(rows, source, selection)[p]
              = IF Theirs(source, selection)[p] # Absent THEN Theirs(source, selection)[p]
                ELSE IF Ours(rows, selection)[p] # Absent THEN Ours(rows, selection)[p]
                ELSE Base(source, selection)[p]
BY DEF Ours, Theirs, Base, Parents, Fetched, View, MergeParents

\* What it takes differs, and is unchanged here or to be overwritten.
LEMMA TakenIs ==
  ASSUME NEW rows, NEW source, NEW strategy, NEW selection
  PROVE  /\ Taken(rows, source, strategy, selection) \in SUBSET Paths
         /\ Taken(rows, source, strategy, selection) \subseteq Under(selection.scope)
         /\ \A p \in Taken(rows, source, strategy, selection) :
              /\ Ours(rows, selection)[p] # Theirs(source, selection)[p]
              /\ strategy # "theirs" => Base(source, selection)[p] = Ours(rows, selection)[p]
         /\ \A p \in Paths : p \in Taken(rows, source, strategy, selection) <=>
              /\ p \in Considered(rows, source, selection)
              /\ Ours(rows, selection)[p] # Theirs(source, selection)[p]
              /\ \/ Base(source, selection)[p] = Ours(rows, selection)[p]
                 \/ strategy = "theirs" /\ Base(source, selection)[p] # Theirs(source, selection)[p]
BY DEF Taken, Considered, Selected, ShownIn, OnlyTheirs, Conflicting, Disagree

\* Directories a merge makes are those of the source, if that shows a tree.
LEMMA ParentsOfTheirs ==
  ASSUME NEW rows, NEW source, NEW selection, IsTree(source.view),
         NEW l \in Paths, NEW p \in Above(l), Theirs(source, selection)[l] # Absent,
         IsDirectory(Parents(rows, source, selection), p)
  PROVE  /\ p \in Under(selection.scope) /\ IsDirectory(Theirs(source, selection), p)
         /\ Parents(rows, source, selection)[p] = Theirs(source, selection)[p]
<1>1. p \in Paths
  BY AboveIs
<1>2. p \in Under(selection.scope)
  BY <1>1, FetchedViews DEF IsDirectory
<1>3. source.view[l] # Absent
  BY DEF Theirs, Fetched
<1>4. IsDirectory(source.view, p)
  BY <1>3, TreeAbove
<1>. QED
  BY <1>1, <1>2, <1>4, FetchedViews DEF IsDirectory

\* A merge that writes has written its plan, with the directories it needs.
LEMMA MergeWrites ==
  ASSUME NEW rows, NEW source, NEW strategy, NEW selection,
         NEW result, result = MergeFrom(rows, source, strategy, selection)
  PROVE  /\ result.applied = DOMAIN result.writes
         /\ \/ /\ result.writes = NoWrites
               /\ \/ source.ancestor
                  \/ selection.scope # Root /\ ~IsDirectory(Ours(rows, selection), selection.scope)
                  \/ result = Refusal
                  \/ /\ strategy = "fail"
                     /\ Considered(rows, source, selection)
                          \cap Conflicting(Ours(rows, selection), Theirs(source, selection),
                                           Base(source, selection)) # {}
            \/ /\ ~source.ancestor
               /\ result.status = "ok"
               /\ result.writes = WritesOf(Ours(rows, selection), Theirs(source, selection),
                                           Taken(rows, source, strategy, selection),
                                           Parents(rows, source, selection))
               /\ ~RefusesOf(Ours(rows, selection), Theirs(source, selection),
                             Taken(rows, source, strategy, selection),
                             Parents(rows, source, selection))
<1> DEFINE ours == Ours(rows, selection)
           theirs == Theirs(source, selection)
           base == Base(source, selection)
           scope == selection.scope
           parents == Parents(rows, source, selection)
           candidates == Considered(rows, source, selection)
           conflicts == candidates \cap Conflicting(ours, theirs, base)
           got == candidates \cap (OnlyTheirs(ours, theirs, base)
                                   \cup IF strategy = "theirs" THEN conflicts ELSE {})
           applied == Apply(ours, Plan(theirs, got), parents, Cardinality(ShownIn({View(rows)})),
                            MaxFiles, conflicts, candidates \ got)
<1>1. result = IF source.ancestor THEN Result("ok", NoWrites, {}, {})
               ELSE IF scope # Root /\ ~IsDirectory(ours, scope) THEN Refusal
               ELSE IF strategy = "fail" /\ conflicts # {} THEN Result("ok", NoWrites, conflicts, {})
               ELSE applied
  BY DEF MergeFrom, MergeOf, Ours, Theirs, Base, Considered, Parents
<1>2. got = Taken(rows, source, strategy, selection)
  BY DEF Taken
<1>4. applied = Refusal \/ /\ applied = Result("ok", WritesOf(ours, theirs, got, parents),
                                               conflicts, candidates \ got)
                           /\ ~RefusesOf(ours, theirs, got, parents)
  <2> HIDE DEF candidates, conflicts, got
  <2>. QED
    BY DEF Apply, PostOf, WritesOf, RefusesOf
<1>5. conflicts = Considered(rows, source, selection)
                    \cap Conflicting(Ours(rows, selection), Theirs(source, selection),
                                     Base(source, selection))
  OBVIOUS
<1> HIDE DEF candidates, conflicts, got, applied
<1>6. \A s, w, c, k : LET r == Result(s, w, c, k)
                      IN r.status = s /\ r.writes = w /\ r.applied = DOMAIN w
  BY DEF Result
<1>7. Refusal.writes = NoWrites /\ Refusal.applied = DOMAIN NoWrites
  BY <1>6 DEF Refusal
<1>8. CASE ~source.ancestor /\ ~(scope # Root /\ ~IsDirectory(ours, scope))
           /\ ~(strategy = "fail" /\ conflicts # {})
  <2>1. result = applied
    BY <1>1, <1>8
  <2>. QED
    BY <1>2, <1>4, <1>6, <1>7, <1>8, <2>1
<1>9. CASE source.ancestor \/ (scope # Root /\ ~IsDirectory(ours, scope))
           \/ (strategy = "fail" /\ conflicts # {})
  <2>1. result.writes = NoWrites /\ result.applied = DOMAIN NoWrites
    BY <1>1, <1>6, <1>7, <1>9
  <2>. QED
    BY <1>5, <1>9, <2>1
<1>. QED
  BY <1>8, <1>9

\* What a version shows after the rows of a result are written.
LEMMA ShownAfter ==
  ASSUME NEW rows, NEW result, NEW p \in Paths
  PROVE  /\ p \notin DOMAIN result.writes => View(Merged(rows, result))[p] = Entry(rows, p)
         /\ p \in DOMAIN result.writes /\ result.writes[p] # Absent =>
              View(Merged(rows, result))[p]
                = IF result.writes[p] = Tombstone THEN Absent ELSE result.writes[p]
BY DEF View, Merged, Entry

-----------------------------------------------------------------------------
(* What the destination changed.                                           *)

\* What this side changed since the common ancestor survives a merge that may
\* not take the source's word for it.
LEMMA OursKept ==
  ASSUME NEW rows, NEW source, NEW selection, NEW strategy \in {"fail", "ours"},
         NEW result, result = MergeFrom(rows, source, strategy, selection),
         NEW after, after = View(Merged(rows, result)),
         NEW p \in Paths, Entry(rows, p) # source.base[p], after[p] # Entry(rows, p)
  PROVE  /\ ~Shows(rows, p) /\ IsDirectory(after, p)
         /\ \E q \in Landing(result.writes) : IsStrictPrefix(p, q)
<1> DEFINE taken == Taken(rows, source, strategy, selection)
           ours == Ours(rows, selection)
           theirs == Theirs(source, selection)
           parents == Parents(rows, source, selection)
<1>1. p \in DOMAIN result.writes
  BY ShownAfter
<1>2. result.writes # NoWrites
  BY <1>1 DEF NoWrites
<1>3. /\ result.writes = WritesOf(ours, theirs, taken, parents)
      /\ ~RefusesOf(ours, theirs, taken, parents)
  BY <1>2, MergeWrites
<1>4. p \notin taken
  <2>1. p \in taken => p \in Under(selection.scope) /\ Base(source, selection)[p] = ours[p]
    BY TakenIs
  <2>2. p \in Under(selection.scope) => ours[p] = Entry(rows, p)
                                         /\ Base(source, selection)[p] = source.base[p]
    BY FetchedViews
  <2>. QED
    BY <2>1, <2>2
<1>5. /\ ours[p] = Absent
      /\ IsDirectory(parents, p) /\ result.writes[p] = parents[p]
      /\ \E l \in taken \cap Landing(result.writes) : p \in Above(l)
  <2>1. taken \subseteq Paths
    BY TakenIs
  <2> HIDE DEF taken, ours, theirs, parents
  <2>. QED
    BY <1>1, <1>3, <1>4, <2>1, PlanAdds
<1>6. p \in Under(selection.scope)
  BY <1>5, FetchedViews DEF IsDirectory
<1>7. ~Shows(rows, p)
  BY <1>5, <1>6, FetchedViews DEF Shows
<1> HIDE DEF taken, ours, theirs, parents
<1>8. after[p] = parents[p]
  BY <1>1, <1>5, ShownAfter DEF IsDirectory, Tombstone
<1>9. IsDirectory(after, p)
  BY <1>5, <1>8 DEF IsDirectory
<1>10. \E q \in Landing(result.writes) : IsStrictPrefix(p, q)
  BY <1>5, AboveIs, TakenIs DEF taken
<1>. QED
  BY <1>7, <1>9, <1>10

\* What a version changed since the common ancestor stays as it is in every
\* merge with the strategy "fail" or "ours", but for a directory it removed
\* that the merge has to put back above something new.
THEOREM MergesKeepOurs == Spec => []MergeKeepsOurs
<1>1. MergeKeepsOurs
  BY OursKept DEF MergeKeepsOurs
<1>. QED
  BY <1>1, PTL

-----------------------------------------------------------------------------
(* What the source brings.                                                 *)

IsView(view) == view \in [Paths -> ViewRow]

LEMMA NotATombstone ==
  /\ Absent # Tombstone
  /\ \A view : IsView(view) => \A p \in Paths : view[p] # Tombstone
<1>1. Tombstone \in Row
  BY DEF Row
<1>2. Absent # Tombstone
  BY <1>1, AbsentAssumption
<1>. QED
  BY <1>2 DEF IsView, ViewRow

\* Wherever a merge writes, the version then shows what the source shows.
LEMMA WritesTheirs ==
  ASSUME NEW rows, NEW source, NEW strategy, NEW selection,
         IsTree(source.view), IsView(source.view),
         NEW result, result = MergeFrom(rows, source, strategy, selection),
         NEW p \in DOMAIN result.writes
  PROVE  /\ p \in Paths /\ p \in Under(selection.scope)
         /\ View(Merged(rows, result))[p] = Theirs(source, selection)[p]
<1> DEFINE taken == Taken(rows, source, strategy, selection)
           ours == Ours(rows, selection)
           theirs == Theirs(source, selection)
           parents == Parents(rows, source, selection)
<1>1. result.writes # NoWrites
  BY DEF NoWrites
<1>2. /\ result.writes = WritesOf(ours, theirs, taken, parents)
      /\ ~RefusesOf(ours, theirs, taken, parents)
  BY <1>1, MergeWrites
<1>3. taken \subseteq Paths /\ taken \subseteq Under(selection.scope)
  BY TakenIs
<1>4. p \in Paths
  <2> HIDE DEF taken, ours, theirs, parents
  <2>. QED
    BY <1>2, <1>3, PlanDomain, PlanInPaths
<1>5. theirs[p] # Tombstone /\ Absent # Tombstone
  BY <1>4, NotATombstone DEF Theirs, Fetched
<1>6. CASE p \in taken
  <2>1. result.writes[p] = Rows(theirs, p)
    <3> HIDE DEF taken, ours, theirs, parents
    <3>. QED
      BY <1>2, <1>6, PlanTaken
  <2> HIDE DEF taken, ours, theirs, parents
  <2>2. result.writes[p] # Absent
    BY <1>5, <2>1 DEF Rows
  <2>3. View(Merged(rows, result))[p]
          = IF result.writes[p] = Tombstone THEN Absent ELSE result.writes[p]
    BY <1>4, <2>2, ShownAfter
  <2>. QED
    BY <1>3, <1>4, <1>5, <1>6, <2>1, <2>3 DEF Rows, theirs
<1>7. CASE p \notin taken
  <2>1. /\ IsDirectory(parents, p) /\ result.writes[p] = parents[p]
        /\ \E l \in taken : p \in Above(l) /\ theirs[l] # Absent
    <3> HIDE DEF taken, ours, theirs, parents
    <3>. QED
      BY <1>2, <1>3, <1>7, PlanAdds
  <2>2. p \in Under(selection.scope) /\ IsDirectory(theirs, p) /\ parents[p] = theirs[p]
    BY <1>3, <2>1, ParentsOfTheirs
  <2> HIDE DEF taken, ours, theirs, parents
  <2>3. View(Merged(rows, result))[p] = theirs[p]
    BY <1>4, <1>5, <2>1, <2>2, ShownAfter DEF IsDirectory
  <2>. QED
    BY <1>4, <2>2, <2>3 DEF theirs
<1>. QED
  BY <1>6, <1>7

\* Elsewhere it shows what it showed.
LEMMA WritesNothingElse ==
  ASSUME NEW rows, NEW result, NEW selection, NEW p \in Paths, p \notin DOMAIN result.writes
  PROVE  /\ View(Merged(rows, result))[p] = Entry(rows, p)
         /\ Ours(Merged(rows, result), selection)[p] = Ours(rows, selection)[p]
BY ShownAfter DEF Ours, Fetched, View

\* So a second merge finds nothing to take.
LEMMA NothingLeft ==
  ASSUME NEW rows, NEW source, NEW strategy, NEW selection,
         IsTree(source.view), IsView(source.view),
         NEW result, result = MergeFrom(rows, source, strategy, selection),
         result.writes # NoWrites,
         NEW p \in Taken(Merged(rows, result), source, strategy, selection)
  PROVE  FALSE
<1> DEFINE later == Merged(rows, result)
<1>1. p \in Paths /\ p \in Considered(later, source, selection)
      /\ Ours(later, selection)[p] # Theirs(source, selection)[p]
      /\ \/ Base(source, selection)[p] = Ours(later, selection)[p]
         \/ strategy = "theirs" /\ Base(source, selection)[p] # Theirs(source, selection)[p]
  BY TakenIs
<1>2. p \in Under(selection.scope)
  BY TakenIs
<1>3. p \notin DOMAIN result.writes
  <2> SUFFICES ASSUME p \in DOMAIN result.writes PROVE FALSE
    OBVIOUS
  <2>1. View(later)[p] = Theirs(source, selection)[p]
    BY WritesTheirs
  <2>2. Ours(later, selection)[p] = View(later)[p]
    BY <1>1, <1>2 DEF Ours, Fetched
  <2>. QED
    BY <1>1, <2>1, <2>2
<1>4. Ours(later, selection)[p] = Ours(rows, selection)[p]
  BY <1>1, <1>3, WritesNothingElse
<1>5. p \in Considered(rows, source, selection)
  BY <1>1, <1>4 DEF Considered, ShownIn
<1>6. p \in Taken(rows, source, strategy, selection)
  BY <1>1, <1>4, <1>5, TakenIs
<1>7. Taken(rows, source, strategy, selection) \subseteq DOMAIN result.writes
  <2> DEFINE taken == Taken(rows, source, strategy, selection)
             ours == Ours(rows, selection)
             theirs == Theirs(source, selection)
             parents == Parents(rows, source, selection)
  <2>1. result.writes = WritesOf(ours, theirs, taken, parents)
    BY MergeWrites
  <2>2. taken \subseteq Paths
    BY TakenIs
  <2> HIDE DEF taken, ours, theirs, parents
  <2>3. /\ DOMAIN WritesOf(ours, theirs, taken, parents) = Addressed(ours, theirs, taken)
        /\ taken \subseteq Addressed(ours, theirs, taken)
    BY <2>2, PlanDomain, PlanInPaths
  <2>4. taken \subseteq DOMAIN result.writes
    BY <2>1, <2>3
  <2>. QED
    BY <2>4 DEF taken
<1>. QED
  BY <1>3, <1>6, <1>7

LEMMA NoWritesIs == DOMAIN NoWrites = {}
BY DEF NoWrites

LEMMA SecondMergeIsEmpty ==
  ASSUME NEW rows, NEW source, NEW strategy, NEW selection,
         IsTree(source.view), IsView(source.view),
         NEW result, result = MergeFrom(rows, source, strategy, selection)
  PROVE  MergeFrom(Merged(rows, result), source, strategy, selection).applied = {}
<1> DEFINE later == Merged(rows, result)
           second == MergeFrom(later, source, strategy, selection)
<1>1. CASE result.writes = NoWrites
  <2>1. View(later) = View(rows)
    BY <1>1, NoWritesIs DEF View, Merged, Entry
  <2>2. second = result
    BY <2>1 DEF MergeFrom
  <2>. QED
    BY <1>1, <2>2, MergeWrites, NoWritesIs
<1>2. CASE result.writes # NoWrites /\ second.writes # NoWrites
  <2> DEFINE taken == Taken(later, source, strategy, selection)
             ours == Ours(later, selection)
             theirs == Theirs(source, selection)
             parents == Parents(later, source, selection)
  <2>1. second.writes = WritesOf(ours, theirs, taken, parents) /\ second.applied = DOMAIN second.writes
    BY <1>2, MergeWrites
  <2>2. taken = {}
    BY <1>2, NothingLeft
  <2>3. Missing(PostOf(ours, theirs, {}), Plan(theirs, {})) = {}
    BY DEF Missing, Landing, Plan
  <2> HIDE DEF later, second, taken, ours, theirs, parents
  <2>4. DOMAIN WritesOf(ours, theirs, {}, parents) = Addressed(ours, theirs, {})
    BY PlanDomain
  <2>. QED
    BY <2>1, <2>2, <2>3, <2>4 DEF second, later, Addressed
<1>3. CASE second.writes = NoWrites
  BY <1>3, MergeWrites, NoWritesIs
<1>. QED
  BY <1>1, <1>2, <1>3

\* The same merge a second time applies nothing, whatever the strategy and the
\* selection, unless the source itself shows entries without a directory.
THEOREM MergesAreDone == Spec => []MergeIsIdempotent
<1>1. MergeIsIdempotent
  BY SecondMergeIsEmpty, SourcesAssumption DEF MergeIsIdempotent, IsView
<1>. QED
  BY <1>1, PTL

-----------------------------------------------------------------------------
(* Entries without a directory.                                            *)

LEMMA RootIsAbove == Root \in Paths /\ \A p \in Paths : p \in Under(Root)
<1>1. Root \in [1..0 -> Names] /\ 0 \in 0..PathBound
  BY PathBoundAssumption DEF Root
<1>2. ASSUME NEW p \in Paths PROVE IsPrefix(Root, p)
  <2>1. p \in Seq(Names) /\ Len(p) \in Nat
    BY PathIsSeq
  <2>2. Len(Root) = 0 /\ SubSeq(Root, 1, 0) = <<>> /\ SubSeq(p, 1, 0) = <<>>
    BY <2>1 DEF Root
  <2>. QED
    BY <2>1, <2>2 DEF IsPrefix
<1>. QED
  BY <1>1, <1>2 DEF Paths, Under

LEMMA ParentInPaths == ASSUME NEW p \in Paths PROVE Parent(p) \in Paths
<1>1. CASE p = Root
  BY <1>1 DEF Parent
<1>2. CASE p # Root
  BY <1>2, ParentIsAbove, AboveIs
<1>. QED
  BY <1>1, <1>2

\* A row is a directory or lands.
LEMMA RowKinds ==
  ASSUME NEW view, IsView(view), NEW p \in Paths, view[p] # Absent, ~IsDirectory(view, p)
  PROVE  view[p].type \in {"file", "symlink"}
<1>1. view[p] \in Row \ {Tombstone}
  BY DEF IsView, ViewRow
<1>2. view[p] # Tombstone /\ view[p].type # "directory"
  BY <1>1 DEF IsDirectory
<1>3. \/ \E c \in Contents, m \in AllModes : view[p] = File(c, m)
      \/ \E m \in AllModes : view[p] = Directory(m)
      \/ \E t \in Paths, m \in AllModes : view[p] = [Symlink(t) EXCEPT !.mode = m]
  BY <1>1 DEF Row
<1>4. \A c, m : File(c, m).type = "file" /\ Directory(m).type = "directory"
  BY DEF File, Directory
<1>5. \A t, m : [Symlink(t) EXCEPT !.mode = m].type = "symlink"
  BY DEF Symlink
<1>6. CASE \E c \in Contents, m \in AllModes : view[p] = File(c, m)
  BY <1>4, <1>6
<1>7. CASE \E m \in AllModes : view[p] = Directory(m)
  BY <1>2, <1>4, <1>7
<1>8. CASE \E t \in Paths, m \in AllModes : view[p] = [Symlink(t) EXCEPT !.mode = m]
  <2>1. PICK t \in Paths, m \in AllModes : view[p] = [Symlink(t) EXCEPT !.mode = m]
    BY <1>8
  <2>2. view[p].type = "symlink"
    BY <1>5, <2>1, Zenon
  <2>. QED
    BY <2>2
<1>. QED
  BY <1>3, <1>6, <1>7, <1>8

\* Without a selection the whole views are fetched, and all that is shown is considered.
LEMMA EverythingIs ==
  ASSUME NEW rows, NEW source, NEW p \in Paths
  PROVE  /\ Ours(rows, Everything)[p] = Entry(rows, p)
         /\ Theirs(source, Everything)[p] = source.view[p]
         /\ Base(source, Everything)[p] = source.base[p]
         /\ (Entry(rows, p) # Absent \/ source.view[p] # Absent) =>
              p \in Considered(rows, source, Everything)
<1>1. Everything.scope = Root /\ Everything.filters = {}
  BY DEF Everything
<1>2. p \in Under(Root)
  BY RootIsAbove
<1>3. /\ Ours(rows, Everything)[p] = Entry(rows, p)
      /\ Theirs(source, Everything)[p] = source.view[p]
      /\ Base(source, Everything)[p] = source.base[p]
  BY <1>1, <1>2, FetchedViews
<1>4. p \in Selected(Everything.filters, Everything.scope)
  BY <1>1, <1>2 DEF Selected
<1>. QED
  BY <1>3, <1>4 DEF Considered, ShownIn

\* Where a merge leaves what the source shows differently, this side had changed it.
LEMMA LeftWasChanged ==
  ASSUME NEW rows, NEW source, NEW strategy,
         NEW result, result = MergeFrom(rows, source, strategy, Everything),
         result.writes # NoWrites
           \/ (~source.ancestor /\ strategy = "theirs" /\ result.status = "ok"),
         NEW p \in Paths, p \notin DOMAIN result.writes,
         Entry(rows, p) # source.view[p]
  PROVE  Entry(rows, p) # source.base[p]
<1> DEFINE taken == Taken(rows, source, strategy, Everything)
           ours == Ours(rows, Everything)
           theirs == Theirs(source, Everything)
           parents == Parents(rows, source, Everything)
<1>1. result.writes = WritesOf(ours, theirs, taken, parents)
  <2>1. Everything.scope = Root /\ (result.status = "ok" => result # Refusal)
    BY DEF Everything, Refusal, Result
  <2>. QED
    BY <2>1, MergeWrites
<1>2. taken \subseteq Paths
  BY TakenIs
<1>3. taken \subseteq DOMAIN result.writes
  <2> HIDE DEF taken, ours, theirs, parents
  <2>. QED
    BY <1>1, <1>2, PlanDomain, PlanInPaths
<1>4. p \in Considered(rows, source, Everything)
  BY EverythingIs
<1>5. p \notin taken
  BY <1>3
<1>. QED
  BY <1>4, <1>5, EverythingIs, TakenIs

\* A file or link that is written has its directory when the merge is done.
LEMMA LandingsHaveParents ==
  ASSUME NEW ours, NEW theirs, NEW parents, NEW taken, taken \subseteq Paths,
         ~RefusesOf(ours, theirs, taken, parents),
         NEW p \in taken, p # Root, theirs[p] # Absent, theirs[p].type \in {"file", "symlink"},
         Parent(p) \notin DOMAIN WritesOf(ours, theirs, taken, parents)
  PROVE  IsDirectory(ours, Parent(p))
<1> DEFINE q == Parent(p)
           plan == Plan(theirs, taken)
           post == PostOf(ours, theirs, taken)
<1>0. p \in Paths /\ p \in Seq(Names) /\ Len(p) \in Nat
  BY PathIsSeq
<1>1. q \in Above(p) /\ Len(q) = Len(p) - 1 /\ q \in Paths
  BY <1>0, ParentIsAbove, AboveIs
<1>2. DOMAIN plan = taken /\ plan[p] = theirs[p]
  BY DEF Plan
<1>3. p \in Landing(plan)
  BY <1>2 DEF Landing
<1>4. q \notin taken /\ q \notin Missing(post, plan)
  <2>1. q \notin Addressed(ours, theirs, taken)
    BY PlanDomain
  <2>. QED
    BY <2>1 DEF Addressed
<1>5. post[q] = ours[q]
  BY <1>1, <1>2, <1>4 DEF PostOf, Post
<1>6. ~Refuses(post, plan, parents)
  BY DEF RefusesOf
<1> HIDE DEF q, plan, post
<1>7. \A r \in Above(p) : Len(r) \in Nat /\ Len(r) <= Len(q)
  BY <1>0, <1>1, AboveIs
<1>8. \A r \in Above(p) : IsPrefix(q, r) => r = q
  BY <1>1, <1>7, AboveOrdered
<1>9. \A r \in Above(p) : ~IsStrictPrefix(q, r)
  BY <1>8 DEF IsStrictPrefix
<1>10. q \notin MissingAbove(post, p)
  BY <1>3, <1>4 DEF Missing
<1>11. post[q] # Absent
  BY <1>1, <1>8, <1>10 DEF MissingAbove
<1>12. post[q].type = "directory"
  BY <1>1, <1>3, <1>6, <1>9, <1>10, <1>11 DEF Refuses
<1>. QED
  BY <1>5, <1>11, <1>12 DEF IsDirectory, q

\* The two ways in which a merge can leave an entry without a directory.
LEMMA OrphansOnlyOurs ==
  ASSUME NEW rows, TreeShaped(rows), NEW source, NEW strategy,
         IsTree(source.view), IsView(source.view),
         NEW result, result = MergeFrom(rows, source, strategy, Everything),
         NEW after, after = View(Merged(rows, result)),
         NEW p \in Paths, after[p] # Absent, ~IsDirectory(after, Parent(p))
  PROVE  \/ /\ ~IsDirectory(source.view, Parent(p))
            /\ Entry(rows, p) # source.base[p]
         \/ /\ IsDirectory(source.view, p) /\ ~Shows(rows, p)
            /\ ~ShowsDirectory(rows, Parent(p))
            /\ Entry(rows, Parent(p)) # source.base[Parent(p)]
<1> DEFINE q == Parent(p)
<1>1. q \in Paths
  BY ParentInPaths
<1>2. \A x \in Paths : /\ x \in DOMAIN result.writes => after[x] = source.view[x]
                       /\ x \notin DOMAIN result.writes => after[x] = Entry(rows, x)
  <2> TAKE x \in Paths
  <2>1. Theirs(source, Everything)[x] = source.view[x]
    BY EverythingIs
  <2>2. x \in DOMAIN result.writes => after[x] = Theirs(source, Everything)[x]
    BY WritesTheirs
  <2>3. x \notin DOMAIN result.writes => after[x] = Entry(rows, x)
    BY ShownAfter
  <2>. QED
    BY <2>1, <2>2, <2>3
<1>3. Shows(rows, p) => ShowsDirectory(rows, q)
  BY DEF TreeShaped
<1>4. source.view[p] # Absent => IsDirectory(source.view, q)
  BY DEF IsTree
<1> HIDE DEF q
<1>5. result.writes # NoWrites
  <2> SUFFICES ASSUME result.writes = NoWrites PROVE FALSE
    OBVIOUS
  <2>1. after[p] = Entry(rows, p) /\ after[q] = Entry(rows, q)
    BY <1>1, <1>2, NoWritesIs
  <2>. QED
    BY <1>3, <2>1 DEF Shows, ShowsDirectory, IsDirectory, q
<1>6. CASE p \notin DOMAIN result.writes
  <2>1. after[p] = Entry(rows, p) /\ ShowsDirectory(rows, q)
    BY <1>2, <1>3, <1>6 DEF Shows
  <2>2. q \in DOMAIN result.writes
    BY <1>1, <1>2, <2>1 DEF ShowsDirectory, Shows, IsDirectory, q
  <2>3. ~IsDirectory(source.view, q)
    BY <1>1, <1>2, <2>2 DEF IsDirectory, q
  <2>4. Entry(rows, p) # source.view[p]
    BY <1>4, <2>1, <2>3
  <2>. QED
    BY <1>5, <1>6, <2>3, <2>4, LeftWasChanged DEF q
<1>7. CASE p \in DOMAIN result.writes
  <2>1. source.view[p] # Absent /\ IsDirectory(source.view, q)
    BY <1>2, <1>4, <1>7
  <2>2. q \notin DOMAIN result.writes
    BY <1>1, <1>2, <2>1 DEF IsDirectory, q
  <2>3. ~ShowsDirectory(rows, q) /\ ~Shows(rows, p)
    BY <1>1, <1>2, <1>3, <2>2 DEF ShowsDirectory, Shows, IsDirectory, q
  <2>4. Entry(rows, q) # source.base[q]
    <3>1. Entry(rows, q) # source.view[q]
      BY <2>1, <2>3 DEF IsDirectory, ShowsDirectory, Shows
    <3>. QED
      BY <1>1, <1>5, <2>2, <3>1, LeftWasChanged
  <2>5. IsDirectory(source.view, p)
    <3> SUFFICES ASSUME ~IsDirectory(source.view, p) PROVE FALSE
      OBVIOUS
    <3> DEFINE taken == Taken(rows, source, strategy, Everything)
               ours == Ours(rows, Everything)
               theirs == Theirs(source, Everything)
               parents == Parents(rows, source, Everything)
    <3>1. /\ result.writes = WritesOf(ours, theirs, taken, parents)
          /\ ~RefusesOf(ours, theirs, taken, parents)
      BY <1>5, MergeWrites
    <3>2. taken \subseteq Paths
      BY TakenIs
    <3>3. p \in taken
      <4> SUFFICES ASSUME p \notin taken PROVE FALSE
        OBVIOUS
      <4>1. /\ IsDirectory(parents, p)
            /\ \E l \in taken : p \in Above(l) /\ theirs[l] # Absent
        <5> HIDE DEF taken, ours, theirs, parents
        <5>. QED
          BY <1>7, <3>1, <3>2, PlanAdds
      <4>2. IsDirectory(theirs, p)
        BY <3>2, <4>1, ParentsOfTheirs
      <4>. QED
        BY <4>2, EverythingIs DEF IsDirectory
    <3>4. theirs[p] = source.view[p] /\ theirs[p].type \in {"file", "symlink"}
      BY <2>1, EverythingIs, RowKinds
    <3>5. p # Root
      BY <2>1 DEF q, Parent
    <3>6. ours[q] = Entry(rows, q)
      BY <1>1, EverythingIs
    <3> HIDE DEF taken, ours, theirs, parents
    <3>7. IsDirectory(ours, Parent(p))
      BY <2>1, <2>2, <3>1, <3>2, <3>3, <3>4, <3>5, LandingsHaveParents DEF q
    <3>. QED
      BY <2>3, <3>6, <3>7 DEF IsDirectory, ShowsDirectory, Shows, q
  <2>. QED
    BY <2>3, <2>4, <2>5 DEF q
<1>. QED
  BY <1>6, <1>7

\* A merge of everything from a tree into a tree leaves an entry without its
\* directory only where the two sides disagree about the directory.
THEOREM MergesOrphanOnlyOurs == Spec => []MergeOrphansOnlyOurs
<1>1. MergeOrphansOnlyOurs
  BY OrphansOnlyOurs, SourcesAssumption DEF MergeOrphansOnlyOurs, IsView
<1>. QED
  BY <1>1, PTL

-----------------------------------------------------------------------------
(* Copies of everything.                                                   *)

\* A revert writes whatever differs, and the directories it needs.
LEMMA RevertWrites ==
  ASSUME NEW rows, NEW source,
         NEW result, result = RevertFrom(rows, source, Everything), result.status = "ok",
         NEW ours, ours = Ours(rows, Everything),
         NEW theirs, theirs = Theirs(source, Everything)
  PROVE  LET taken == {p \in Paths : ours[p] # theirs[p]}
         IN /\ result.writes = WritesOf(ours, theirs, taken, SourceParents(ours, theirs))
            /\ ~RefusesOf(ours, theirs, taken, SourceParents(ours, theirs))
<1> DEFINE taken == {p \in Paths : ours[p] # theirs[p]}
           parents == SourceParents(ours, theirs)
           candidates == Selected({}, Root) \cap ShownIn({ours, theirs})
<1>1. candidates \cap Disagree(ours, theirs) = taken
  <2>1. \A p \in Paths : p \in Selected({}, Root)
    BY RootIsAbove DEF Selected
  <2>2. \A p \in taken : p \in ShownIn({ours, theirs})
    BY DEF ShownIn
  <2>. QED
    BY <2>1, <2>2 DEF Disagree
<1>2. result = Apply(ours, Plan(theirs, taken), parents, Cardinality(ShownIn({View(rows)})),
                     MaxFiles, {}, candidates \ taken)
  BY <1>1 DEF RevertFrom, RevertOf, SourceWins, Everything, Ours, Theirs
<1>3. result = Refusal
      \/ /\ result = Result("ok", WritesOf(ours, theirs, taken, parents), {}, candidates \ taken)
         /\ ~RefusesOf(ours, theirs, taken, parents)
  <2> HIDE DEF taken, parents, candidates
  <2>. QED
    BY <1>2 DEF Apply, PostOf, WritesOf, RefusesOf
<1>4. result # Refusal
  BY DEF Refusal, Result
<1>. QED
  BY <1>3, <1>4 DEF Result

\* After it the version shows the source's view.
LEMMA RevertShowsSource ==
  ASSUME NEW rows, NEW source, IsTree(source.view), IsView(source.view),
         NEW result, result = RevertFrom(rows, source, Everything), result.status = "ok"
  PROVE  View(Merged(rows, result)) = source.view
<1> DEFINE ours == Ours(rows, Everything)
           theirs == Theirs(source, Everything)
           taken == {p \in Paths : ours[p] # theirs[p]}
           parents == SourceParents(ours, theirs)
           after == View(Merged(rows, result))
<1>1. /\ result.writes = WritesOf(ours, theirs, taken, parents)
      /\ ~RefusesOf(ours, theirs, taken, parents)
  BY RevertWrites
<1>2. taken \subseteq Paths
  OBVIOUS
<1>3. ASSUME NEW p \in Paths PROVE after[p] = source.view[p]
  <2>1. theirs[p] = source.view[p] /\ ours[p] = Entry(rows, p)
    BY EverythingIs
  <2>2. theirs[p] # Tombstone /\ Absent # Tombstone
    BY <2>1, NotATombstone
  <2>3. p \in taken <=> ours[p] # theirs[p]
    OBVIOUS
  <2>4. CASE p \in taken
    <3> HIDE DEF taken, ours, theirs, parents
    <3>1. result.writes[p] = Rows(theirs, p)
      BY <1>1, <2>4, PlanTaken
    <3>2. p \in DOMAIN result.writes
      BY <1>1, <1>2, <2>4, PlanDomain, PlanInPaths
    <3>3. result.writes[p] # Absent
      BY <2>2, <3>1 DEF Rows
    <3>4. after[p] = IF result.writes[p] = Tombstone THEN Absent ELSE result.writes[p]
      BY <3>2, <3>3, ShownAfter
    <3>. QED
      BY <2>1, <2>2, <3>1, <3>4 DEF Rows
  <2>5. CASE p \notin taken /\ p \notin DOMAIN result.writes
    <3>1. after[p] = Entry(rows, p)
      BY <2>5, ShownAfter
    <3>. QED
      BY <2>1, <2>3, <2>5, <3>1
  <2>6. CASE p \notin taken /\ p \in DOMAIN result.writes
    <3>1. /\ IsDirectory(parents, p) /\ result.writes[p] = parents[p]
          /\ \E l \in taken : p \in Above(l) /\ theirs[l] # Absent
      <4> HIDE DEF taken, ours, theirs, parents
      <4>. QED
        BY <1>1, <1>2, <2>6, PlanAdds
    <3>2. PICK l \in taken : p \in Above(l) /\ theirs[l] # Absent
      BY <3>1
    <3>3. source.view[l] # Absent
      BY <3>2, EverythingIs
    <3>4. IsDirectory(source.view, p)
      BY <3>2, <3>3, TreeAbove
    <3>5. IsDirectory(theirs, p)
      BY <2>1, <3>4 DEF IsDirectory
    <3>6. parents[p] = theirs[p]
      <4> HIDE DEF ours, theirs
      <4>. QED
        BY <3>5 DEF SourceParents
    <3> HIDE DEF taken, ours, theirs, parents
    <3>7. after[p] = IF result.writes[p] = Tombstone THEN Absent ELSE result.writes[p]
      BY <2>6, <3>1, <3>5, <3>6, ShownAfter DEF IsDirectory
    <3>. QED
      BY <2>1, <2>2, <3>1, <3>6, <3>7
  <2>. QED
    BY <2>4, <2>5, <2>6
<1>4. after = [p \in Paths |-> after[p]]
  BY DEF View
<1>5. source.view = [p \in Paths |-> source.view[p]]
  BY DEF IsView
<1> HIDE DEF after
<1>6. after = source.view
  BY <1>3, <1>4, <1>5
<1>. QED
  BY <1>6 DEF after

\* A version without changes has no conflicts, so "theirs" does what "fail" does.
LEMMA NoConflicts ==
  ASSUME NEW rows, NEW source, View(rows) = source.base
  PROVE  MergeFrom(rows, source, "theirs", Everything) = MergeFrom(rows, source, "fail", Everything)
<1> DEFINE ours == Fetched(View(rows), Root)
           theirs == Fetched(source.view, Root)
           candidates == Selected({}, Root) \cap ShownIn({ours, theirs, ours})
<1>1. Conflicting(ours, theirs, ours) = {}
  BY DEF Conflicting
<1>2. "theirs" # "fail"
  OBVIOUS
<1> HIDE DEF ours, theirs
<1>3. ASSUME NEW strategy
      PROVE  MergeFrom(rows, source, strategy, Everything)
               = IF source.ancestor THEN Result("ok", NoWrites, {}, {})
                 ELSE LET taken == candidates \cap OnlyTheirs(ours, theirs, ours)
                      IN Apply(ours, Plan(theirs, taken), MergeParents(ours, theirs, ours),
                               Cardinality(ShownIn({View(rows)})), MaxFiles, {}, candidates \ taken)
  <2>1. /\ candidates \cap {} = {}
        /\ OnlyTheirs(ours, theirs, ours) \cup (IF strategy = "theirs" THEN {} ELSE {})
             = OnlyTheirs(ours, theirs, ours)
    OBVIOUS
  <2>. QED
    BY <1>1, <2>1 DEF MergeFrom, MergeOf, Everything, ours, theirs
<1>. QED
  BY <1>3

\* A merge into such a version shows the source's view.
LEMMA MergeShowsSource ==
  ASSUME NEW rows, NEW source, IsTree(source.view), IsView(source.view),
         View(rows) = source.base, source.ancestor => source.base = source.view,
         MergeFrom(rows, source, "fail", Everything).status = "ok",
         NEW result, result = MergeFrom(rows, source, "theirs", Everything)
  PROVE  View(Merged(rows, result)) = source.view
<1> DEFINE after == View(Merged(rows, result))
<1>1. result.status = "ok"
  BY NoConflicts
<1>2. \A p \in Paths : Entry(rows, p) = source.base[p]
  BY DEF View
<1>3. ASSUME NEW p \in Paths PROVE after[p] = source.view[p]
  <2>1. CASE p \in DOMAIN result.writes
    BY <2>1, WritesTheirs, EverythingIs
  <2>2. CASE p \notin DOMAIN result.writes
    <3>1. after[p] = Entry(rows, p)
      BY <2>2, ShownAfter
    <3>2. Entry(rows, p) = source.view[p]
      <4>1. CASE source.ancestor
        BY <1>2, <4>1
      <4>2. CASE ~source.ancestor
        BY <1>1, <1>2, <2>2, <4>2, LeftWasChanged
      <4>. QED
        BY <4>1, <4>2
    <3>. QED
      BY <3>1, <3>2
  <2>. QED
    BY <2>1, <2>2
<1>4. after = [p \in Paths |-> after[p]]
  BY DEF View
<1>5. source.view = [p \in Paths |-> source.view[p]]
  BY DEF IsView
<1> HIDE DEF after
<1>6. after = source.view
  BY <1>3, <1>4, <1>5
<1>. QED
  BY <1>6 DEF after

\* A revert of everything shows the tree it reverts to, and a merge of everything
\* into a version without changes of its own shows the tree of the source.
THEOREM CopiesReachSource == Spec => []WholeCopyReachesSource
<1>1. WholeCopyReachesSource
  BY RevertShowsSource, MergeShowsSource, SourcesAssumption
     DEF WholeCopyReachesSource, WithTheirs, IsView
<1>. QED
  BY <1>1, PTL

-----------------------------------------------------------------------------
(* Rows of a version, and what the statements make of them.                *)

RowMaps == [Paths -> Row \cup {Absent}]

LEMMA KindsOfRows ==
  /\ \A c \in Contents, m \in AllModes : File(c, m) \in Row /\ File(c, m).type = "file"
  /\ \A m \in AllModes : Directory(m) \in Row /\ Directory(m).type = "directory"
  /\ {"0", "0644", "0755", "0777"} \subseteq AllModes
  /\ Tombstone \in Row /\ Tombstone.type = "tombstone"
  /\ \A row \in Row : row.type = "file" => row.data \in Contents
<1>1. {"0", "0644", "0755", "0777"} \subseteq AllModes
  BY DEF AllModes
<1>2. \A c, m : File(c, m).type = "file" /\ Directory(m).type = "directory" /\ File(c, m).data = c
  BY DEF File, Directory
<1>3. \A t, m : [Symlink(t) EXCEPT !.mode = m].type = "symlink"
  BY DEF Symlink
<1>4. Tombstone.type = "tombstone"
  BY DEF Tombstone
<1>5. ASSUME NEW row \in Row, row.type = "file" PROVE row.data \in Contents
  <2>1. \/ \E c \in Contents, m \in AllModes : row = File(c, m)
        \/ \E m \in AllModes : row = Directory(m)
        \/ \E t \in Paths, m \in AllModes : row = [Symlink(t) EXCEPT !.mode = m]
        \/ row = Tombstone
    BY DEF Row
  <2>2. CASE \E c \in Contents, m \in AllModes : row = File(c, m)
    BY <1>2, <2>2
  <2>3. CASE \E m \in AllModes : row = Directory(m)
    BY <1>2, <1>5, <2>3
  <2>4. CASE \E t \in Paths, m \in AllModes : row = [Symlink(t) EXCEPT !.mode = m]
    <3>1. PICK t \in Paths, m \in AllModes : row = [Symlink(t) EXCEPT !.mode = m]
      BY <2>4
    <3>2. row.type = "symlink"
      BY <1>3, <3>1, Zenon
    <3>. QED
      BY <1>5, <3>2
  <2>5. CASE row = Tombstone
    BY <1>4, <1>5, <2>5
  <2>. QED
    BY <2>1, <2>2, <2>3, <2>4, <2>5
<1>6. /\ \A c \in Contents, m \in AllModes : File(c, m) \in Row
      /\ \A m \in AllModes : Directory(m) \in Row
      /\ Tombstone \in Row
  BY DEF Row
<1>. QED
  BY <1>1, <1>2, <1>4, <1>5, <1>6

\* What a version shows is a row that is no tombstone.
LEMMA EntryIsRow ==
  ASSUME NEW rows \in RowMaps, NEW p \in Paths
  PROVE  Entry(rows, p) \in (Row \ {Tombstone}) \cup {Absent}
BY AbsentAssumption, InheritedAssumption DEF Entry, RowMaps

LEMMA NoRowsTyped == NoRows \in RowMaps /\ \A p \in Paths : NoRows[p] = Absent
BY DEF NoRows, RowMaps

LEMMA PutOverTyped ==
  ASSUME NEW rows \in RowMaps, NEW puts \in RowMaps
  PROVE  PutOver(rows, puts) \in RowMaps
BY DEF PutOver, RowMaps

LEMMA PutNothing ==
  ASSUME NEW rows \in RowMaps
  PROVE  PutOver(rows, NoRows) = rows
<1>1. \A p \in Paths : NoRows[p] = Absent
  BY NoRowsTyped
<1>. QED
  BY <1>1 DEF PutOver, RowMaps

\* A statement on top of what the transaction has written.
LEMMA PutTwice ==
  ASSUME NEW rows \in RowMaps, NEW mine \in RowMaps, NEW puts \in RowMaps
  PROVE  PutOver(rows, PutOver(mine, puts)) = PutOver(PutOver(rows, mine), puts)
<1>1. \A p \in Paths : PutOver(mine, puts)[p] = IF puts[p] # Absent THEN puts[p] ELSE mine[p]
  BY DEF PutOver
<1>2. \A p \in Paths : PutOver(rows, mine)[p] = IF mine[p] # Absent THEN mine[p] ELSE rows[p]
  BY DEF PutOver
<1>3. \A p \in Paths :
        (IF PutOver(mine, puts)[p] # Absent THEN PutOver(mine, puts)[p] ELSE rows[p])
          = (IF puts[p] # Absent THEN puts[p] ELSE PutOver(rows, mine)[p])
  BY <1>1, <1>2
<1> DEFINE over == PutOver(mine, puts)
           under == PutOver(rows, mine)
<1> HIDE DEF over, under
<1>4. \A p \in Paths : (IF over[p] # Absent THEN over[p] ELSE rows[p])
                        = (IF puts[p] # Absent THEN puts[p] ELSE under[p])
  BY <1>3 DEF over, under
<1>5. PutOver(rows, over) = PutOver(under, puts)
  BY <1>4 DEF PutOver
<1>. QED
  BY <1>5 DEF over, under

LEMMA PutOne ==
  ASSUME NEW rows \in RowMaps, NEW p \in Paths, NEW row \in Row
  PROVE  /\ [NoRows EXCEPT ![p] = row] \in RowMaps
         /\ PutOver(rows, [NoRows EXCEPT ![p] = row]) = Upserted(rows, p, row)
         /\ Upserted(rows, p, row) \in RowMaps
<1> DEFINE puts == [NoRows EXCEPT ![p] = row]
<1>1. puts \in RowMaps /\ \A q \in Paths : puts[q] = IF q = p THEN row ELSE Absent
  BY NoRowsTyped DEF RowMaps
<1>2. row # Absent
  BY AbsentAssumption
<1>3. Upserted(rows, p, row) \in RowMaps
      /\ \A q \in Paths : Upserted(rows, p, row)[q] = IF q = p THEN row ELSE rows[q]
  BY DEF Upserted, RowMaps
<1> HIDE DEF puts
<1>4. PutOver(rows, puts) \in RowMaps
      /\ \A q \in Paths : PutOver(rows, puts)[q] = IF puts[q] # Absent THEN puts[q] ELSE rows[q]
  BY <1>1, PutOverTyped DEF PutOver
<1>5. \A q \in Paths : PutOver(rows, puts)[q] = Upserted(rows, p, row)[q]
  BY <1>1, <1>2, <1>3, <1>4
<1>6. PutOver(rows, puts) = Upserted(rows, p, row)
  BY <1>3, <1>4, <1>5 DEF RowMaps
<1>. QED
  BY <1>1, <1>3, <1>6 DEF puts

LEMMA PutDirectories ==
  ASSUME NEW rows \in RowMaps, NEW p \in Paths,
         NEW statement, statement = MkdirOf(p)
  PROVE  /\ PutsOf(statement, rows) \in RowMaps
         /\ PutOver(rows, PutsOf(statement, rows)) = WithDirectories(rows, p)
         /\ WithDirectories(rows, p) \in RowMaps
<1>1. Directory("0755") \in Row /\ Directory("0755") # Absent
  BY KindsOfRows, AbsentAssumption
<1>2. PutsOf(statement, rows)
        = [q \in Paths |-> IF q \in Segments(p) /\ ~ShowsDirectory(rows, q)
                           THEN Directory("0755") ELSE Absent]
  BY DEF PutsOf, MkdirOf, Do
<1>3. PutsOf(statement, rows) \in RowMaps
  BY <1>1, <1>2 DEF RowMaps
<1>4. WithDirectories(rows, p) \in RowMaps
  BY <1>1 DEF RowMaps, WithDirectories
<1>5. PutOver(rows, PutsOf(statement, rows)) = WithDirectories(rows, p)
  BY <1>1, <1>2 DEF PutOver, WithDirectories
<1>. QED
  BY <1>3, <1>4, <1>5

LEMMA PutTombstones ==
  ASSUME NEW rows \in RowMaps, NEW p \in Paths, NEW statement, statement = RemoveOf(p)
  PROVE  /\ PutsOf(statement, rows) \in RowMaps
         /\ PutOver(rows, PutsOf(statement, rows)) = TombstonedSubtree(rows, p)
         /\ TombstonedSubtree(rows, p) \in RowMaps
<1>1. Tombstone \in Row /\ Tombstone # Absent
  BY KindsOfRows, AbsentAssumption
<1>2. PutsOf(statement, rows)
        = [q \in Paths |-> IF q \in Under(p) /\ Shows(rows, q) THEN Tombstone ELSE Absent]
  BY DEF PutsOf, RemoveOf, Do
<1>3. PutsOf(statement, rows) \in RowMaps
  BY <1>1, <1>2 DEF RowMaps
<1>4. TombstonedSubtree(rows, p) \in RowMaps
  BY <1>1 DEF RowMaps, TombstonedSubtree
<1>5. PutOver(rows, PutsOf(statement, rows)) = TombstonedSubtree(rows, p)
  BY <1>1, <1>2 DEF PutOver, TombstonedSubtree
<1>. QED
  BY <1>3, <1>4, <1>5
-----------------------------------------------------------------------------
(* Statements that keep the tree.                                          *)

IsRows(rows) == rows = [p \in Paths |-> rows[p]]

\* What the statements leave to be seen, whatever the rows are.
LEMMA PutShows ==
  ASSUME NEW rows, IsRows(rows), NEW p \in Paths, NEW row, row # Absent
  PROVE  /\ IsRows(Upserted(rows, p, row))
         /\ \A q \in Paths : Entry(Upserted(rows, p, row), q)
              = IF q # p THEN Entry(rows, q) ELSE IF row = Tombstone THEN Absent ELSE row
<1>1. Upserted(rows, p, row) = [q \in Paths |-> IF q = p THEN row ELSE rows[q]]
  BY DEF Upserted, IsRows
<1>2. \A q \in Paths : Upserted(rows, p, row)[q] = IF q = p THEN row ELSE rows[q]
  BY <1>1
<1>. QED
  BY <1>1, <1>2 DEF Entry, IsRows

LEMMA RemovalShows ==
  ASSUME NEW rows, NEW p
  PROVE  /\ IsRows(TombstonedSubtree(rows, p))
         /\ \A q \in Paths : Entry(TombstonedSubtree(rows, p), q)
                               = IF q \in Under(p) THEN Absent ELSE Entry(rows, q)
<1>1. Tombstone # Absent
  BY NotATombstone
<1>2. \A q \in Paths : TombstonedSubtree(rows, p)[q]
                         = IF q \in Under(p) /\ Shows(rows, q) THEN Tombstone ELSE rows[q]
  BY DEF TombstonedSubtree
<1>3. IsRows(TombstonedSubtree(rows, p))
  BY DEF TombstonedSubtree, IsRows
<1>. QED
  BY <1>1, <1>2, <1>3 DEF Entry, Shows

LEMMA EntryAfterUpsert ==
  ASSUME NEW rows \in RowMaps, NEW p \in Paths, NEW row \in Row, NEW q \in Paths
  PROVE  Entry(Upserted(rows, p, row), q)
           = IF q # p THEN Entry(rows, q) ELSE IF row = Tombstone THEN Absent ELSE row
<1>1. IsRows(rows) /\ row # Absent
  BY AbsentAssumption DEF IsRows, RowMaps
<1>. QED
  BY <1>1, PutShows

\* Anything may replace what is no directory, or nothing in a directory.
LEMMA PutKeeps ==
  ASSUME NEW rows, IsRows(rows), NEW p \in Paths, NEW row, row # Absent, TreeShaped(rows),
         ~ShowsDirectory(rows, p), row = Tombstone \/ ShowsDirectory(rows, Parent(p))
  PROVE  TreeShaped(Upserted(rows, p, row))
<1> DEFINE after == Upserted(rows, p, row)
<1>1. \A q \in Paths : Entry(after, q)
                         = IF q # p THEN Entry(rows, q) ELSE IF row = Tombstone THEN Absent ELSE row
  BY PutShows
<1> HIDE DEF after
<1>2. SUFFICES ASSUME NEW q \in Paths, Shows(after, q)
               PROVE  ShowsDirectory(after, Parent(q))
  BY DEF TreeShaped, after
<1>3. Parent(q) \in Paths
  BY ParentInPaths
<1>4. ShowsDirectory(rows, Parent(q))
  <2>1. CASE q = p
    BY <1>1, <1>2, <2>1 DEF Shows
  <2>2. CASE q # p
    BY <1>1, <1>2, <2>2 DEF Shows, TreeShaped
  <2>. QED
    BY <2>1, <2>2
<1>5. Parent(q) # p
  BY <1>4
<1>. QED
  BY <1>1, <1>3, <1>4, <1>5 DEF ShowsDirectory, Shows

LEMMA UpsertKeeps ==
  ASSUME NEW rows \in RowMaps, NEW p \in Paths, NEW row \in Row, TreeShaped(rows),
         ~ShowsDirectory(rows, p), row = Tombstone \/ ShowsDirectory(rows, Parent(p))
  PROVE  TreeShaped(Upserted(rows, p, row))
<1>1. IsRows(rows) /\ row # Absent
  BY AbsentAssumption DEF IsRows, RowMaps
<1>. QED
  BY <1>1, PutKeeps

LEMMA RemovalKeeps ==
  ASSUME NEW rows, NEW p \in Paths, TreeShaped(rows)
  PROVE  TreeShaped(TombstonedSubtree(rows, p))
<1> DEFINE after == TombstonedSubtree(rows, p)
<1>2. \A q \in Paths : Entry(after, q) = IF q \in Under(p) THEN Absent ELSE Entry(rows, q)
  BY RemovalShows
<1> HIDE DEF after
<1>3. SUFFICES ASSUME NEW q \in Paths, Shows(after, q)
               PROVE  ShowsDirectory(after, Parent(q))
  BY DEF TreeShaped, after
<1>4. q \notin Under(p) /\ Shows(rows, q)
  BY <1>2, <1>3 DEF Shows
<1>5. ShowsDirectory(rows, Parent(q)) /\ Parent(q) \in Paths
  BY <1>4, ParentInPaths DEF TreeShaped
<1>6. Parent(q) \notin Under(p)
  <2>1. CASE q = Root
    BY <1>4, <2>1 DEF Parent
  <2>2. CASE q # Root
    <3> SUFFICES ASSUME Parent(q) \in Under(p) PROVE q \in Under(p)
      BY <1>4
    <3>1. /\ q \in Seq(Names) /\ Len(q) \in Nat /\ Parent(q) \in Above(q)
          /\ Parent(q) = SubSeq(q, 1, Len(Parent(q))) /\ Len(Parent(q)) < Len(q)
          /\ Parent(q) \in Paths /\ Len(Parent(q)) \in Nat
      BY <2>2, PathIsSeq, ParentIsAbove, AboveIs
    <3>2. IsPrefix(p, Parent(q)) /\ p \in Seq(Names) /\ Len(p) \in Nat
      BY PathIsSeq DEF Under
    <3> DEFINE up == Parent(q)
               n == Len(Parent(q))
    <3>3. up \in Seq(Names) /\ n = Len(up)
      BY <3>1, PathIsSeq
    <3> HIDE DEF up, n
    <3>4. Len(p) <= n /\ SubSeq(up, 1, Len(p)) = SubSeq(p, 1, Len(p))
      BY <3>2, <3>3 DEF IsPrefix, up
    <3>5. SubSeq(SubSeq(q, 1, n), 1, Len(p)) = SubSeq(q, 1, Len(p))
      BY <3>1, <3>2, <3>4 DEF up, n
    <3>6. SubSeq(q, 1, Len(p)) = SubSeq(p, 1, Len(p)) /\ Len(p) <= Len(q)
      BY <3>1, <3>2, <3>4, <3>5 DEF up, n
    <3>. QED
      BY <3>6 DEF Under, IsPrefix
  <2>. QED
    BY <2>1, <2>2
<1>. QED
  BY <1>2, <1>5, <1>6 DEF ShowsDirectory, Shows

\* The directories of a path, and the root.
LEMMA SegmentsAre ==
  ASSUME NEW p \in Paths
  PROVE  /\ Segments(p) \subseteq Paths \ {Root}
         /\ \A q \in Segments(p) : Parent(q) = Root \/ Parent(q) \in Segments(p)
         /\ p # Root => p \in Segments(p)
         /\ Segments(Root) = {}
<1>1. p \in Seq(Names) /\ Len(p) \in Nat /\ SubSeq(p, 1, Len(p)) = p
  BY PathIsSeq
<1>2. p \in Prefixes(p)
  <2>1. Len(p) \in 0..Len(p)
    BY <1>1
  <2>. QED
    BY <1>1, <2>1 DEF Prefixes
<1>3. Prefixes(p) = Above(p) \cup {p}
  BY <1>2 DEF Above
<1>4. Segments(p) \subseteq Paths \ {Root}
  BY <1>3, AboveIs DEF Segments
<1>5. ASSUME NEW q \in Segments(p) PROVE Parent(q) \in Prefixes(p)
  <2>1. CASE q = p
    BY <1>3, <1>4, <1>5, <2>1, ParentIsAbove
  <2>2. CASE q \in Above(p)
    BY <1>3, <1>4, <1>5, <2>2, ParentOfAbove
  <2>. QED
    BY <1>3, <1>5, <2>1, <2>2 DEF Segments
<1>6. Segments(Root) = {}
  <2>1. ASSUME NEW q \in Prefixes(Root) PROVE q = Root
    <3>1. PICK l \in 0..Len(Root) : q = SubSeq(Root, 1, l)
      BY DEF Prefixes
    <3>2. l = 0
      BY <3>1 DEF Root
    <3>. QED
      BY <3>1, <3>2 DEF Root
  <2>. QED
    BY <2>1 DEF Segments
<1>. QED
  BY <1>2, <1>4, <1>5, <1>6 DEF Segments

LEMMA EntryAfterDirectories ==
  ASSUME NEW rows, NEW p \in Paths, NEW q \in Paths
  PROVE  Entry(WithDirectories(rows, p), q)
           = IF q \in Segments(p) /\ ~ShowsDirectory(rows, q) THEN Directory("0755")
             ELSE Entry(rows, q)
<1>1. WithDirectories(rows, p)[q]
        = IF q \in Segments(p) /\ ~ShowsDirectory(rows, q) THEN Directory("0755") ELSE rows[q]
  BY DEF WithDirectories
<1>2. Directory("0755") \in Row /\ Directory("0755") # Absent /\ Directory("0755") # Tombstone
  BY KindsOfRows, AbsentAssumption
<1>. QED
  BY <1>1, <1>2 DEF Entry

LEMMA DirectoriesShown ==
  ASSUME NEW rows, NEW p \in Paths, NEW q \in Paths
  PROVE  /\ q \in Segments(p) => ShowsDirectory(WithDirectories(rows, p), q)
         /\ ShowsDirectory(rows, q) => ShowsDirectory(WithDirectories(rows, p), q)
         /\ q \notin Segments(p) => Entry(WithDirectories(rows, p), q) = Entry(rows, q)
<1>1. Directory("0755") # Absent /\ Directory("0755").type = "directory"
  BY KindsOfRows, AbsentAssumption
<1>. QED
  BY <1>1, EntryAfterDirectories DEF ShowsDirectory, Shows

LEMMA DirectoriesKeep ==
  ASSUME NEW rows, NEW p \in Paths, TreeShaped(rows), Shows(rows, Root)
  PROVE  TreeShaped(WithDirectories(rows, p))
<1> DEFINE after == WithDirectories(rows, p)
<1> SUFFICES ASSUME NEW q \in Paths, Shows(after, q)
             PROVE  ShowsDirectory(after, Parent(q))
  BY DEF TreeShaped
<1>1. Parent(q) \in Paths /\ Parent(Root) = Root /\ Root \in Paths
  BY ParentInPaths, RootIsAbove DEF Parent
<1>2. ShowsDirectory(rows, Root)
  BY <1>1 DEF TreeShaped
<1>3. CASE q \in Segments(p)
  <2>1. Parent(q) = Root \/ Parent(q) \in Segments(p)
    BY <1>3, SegmentsAre
  <2>. QED
    BY <1>1, <1>2, <2>1, DirectoriesShown
<1>4. CASE q \notin Segments(p)
  <2>1. Shows(rows, q)
    BY <1>4, DirectoriesShown DEF Shows
  <2>. QED
    BY <1>1, <2>1, DirectoriesShown DEF TreeShaped
<1>. QED
  BY <1>3, <1>4

-----------------------------------------------------------------------------
(* One directory after the other.                                          *)

Up(p, n) == SubSeq(p, 1, n)

LEMMA UpIs ==
  ASSUME NEW p \in Paths, NEW n \in 1..Len(Parent(p))
  PROVE  /\ Up(p, n) \in Paths /\ Len(Up(p, n)) = n /\ Up(p, n) # Root
         /\ Segments(Up(p, n)) = Segments(Up(p, n - 1)) \cup {Up(p, n)}
         /\ Up(p, n) \notin Segments(Up(p, n - 1))
         /\ Up(p, n - 1) \in Paths
<1>0. p # Root
  BY DEF Parent, Root
<1>1. /\ p \in Seq(Names) /\ Len(p) \in Nat /\ Len(Parent(p)) = Len(p) - 1
      /\ n \in Nat /\ n > 0 /\ n < Len(p) /\ n - 1 \in Nat
  BY <1>0, PathIsSeq, ParentIsAbove
<1>2. ASSUME NEW m \in Nat, m < Len(p)
      PROVE  Up(p, m) \in Paths /\ Up(p, m) \in Seq(Names) /\ Len(Up(p, m)) = m
  <2>1. Up(p, m) \in Seq(Names) /\ Len(Up(p, m)) = m
    BY <1>1, <1>2 DEF Up
  <2>2. Up(p, m) # p /\ m \in 0..Len(p)
    BY <1>1, <1>2, <2>1
  <2>3. Up(p, m) \in Above(p)
    BY <2>2 DEF Above, Prefixes, Up
  <2>. QED
    BY <2>1, <2>3, AboveIs
<1>3. /\ Up(p, n) \in Paths /\ Up(p, n) \in Seq(Names) /\ Len(Up(p, n)) = n
      /\ Up(p, n - 1) \in Paths /\ Up(p, n - 1) \in Seq(Names) /\ Len(Up(p, n - 1)) = n - 1
  BY <1>1, <1>2
<1>4. Up(p, n) # Root
  BY <1>1, <1>3 DEF Root
<1>5. ASSUME NEW m \in Nat, m < Len(p), NEW l \in 0..m
      PROVE  SubSeq(Up(p, m), 1, l) = Up(p, l)
  BY <1>1, <1>5 DEF Up
<1>6. ASSUME NEW m \in Nat, m < Len(p)
      PROVE  Prefixes(Up(p, m)) = {Up(p, l) : l \in 0..m}
  <2>1. Len(Up(p, m)) = m
    BY <1>2, <1>6
  <2>. QED
    BY <1>5, <1>6, <2>1 DEF Prefixes
<1>7. /\ Prefixes(Up(p, n)) = {Up(p, l) : l \in 0..n}
      /\ Prefixes(Up(p, n - 1)) = {Up(p, l) : l \in 0..(n - 1)}
  BY <1>1, <1>6
<1>8. 0..n = 0..(n - 1) \cup {n}
  BY <1>1
<1>9. Prefixes(Up(p, n)) = Prefixes(Up(p, n - 1)) \cup {Up(p, n)}
  BY <1>7, <1>8
<1>10. Up(p, n) \notin Prefixes(Up(p, n - 1))
  <2>1. ASSUME NEW l \in 0..(n - 1), Up(p, l) = Up(p, n) PROVE FALSE
    <3>1. l \in Nat /\ l < n /\ l < Len(p)
      BY <1>1
    <3>2. Len(Up(p, l)) = l
      BY <1>2, <3>1
    <3>. QED
      BY <1>3, <2>1, <3>1, <3>2
  <2>. QED
    BY <1>7, <2>1
<1>. QED
  BY <1>3, <1>4, <1>9, <1>10 DEF Segments

LEMMA UpEnds ==
  ASSUME NEW p \in Paths
  PROVE  Up(p, 0) = Root /\ Up(p, Len(Parent(p))) = Parent(p) /\ Len(Parent(p)) \in Nat
<1>1. p \in Seq(Names) /\ Len(p) \in Nat
  BY PathIsSeq
<1>2. Up(p, 0) = Root
  BY <1>1 DEF Up, Root
<1>3. CASE p = Root
  BY <1>2, <1>3 DEF Parent, Root, Up
<1>4. CASE p # Root
  <2>1. Parent(p) \in Above(p)
    BY <1>4, ParentIsAbove
  <2>. QED
    BY <1>2, <2>1, AboveIs DEF Up
<1>. QED
  BY <1>3, <1>4

LEMMA NoDirectories ==
  ASSUME NEW rows \in RowMaps
  PROVE  WithDirectories(rows, Root) = rows
<1>1. Segments(Root) = {}
  BY SegmentsAre, RootIsAbove
<1>. QED
  BY <1>1 DEF WithDirectories, RowMaps

\* The next directory shows what it showed, and is made unless it is one.
LEMMA NextDirectory ==
  ASSUME NEW rows \in RowMaps, NEW p \in Paths, NEW n \in 1..Len(Parent(p)),
         NEW made, made = WithDirectories(rows, Up(p, n - 1))
  PROVE  /\ Entry(made, Up(p, n)) = Entry(rows, Up(p, n))
         /\ ShowsDirectory(rows, Up(p, n)) => WithDirectories(rows, Up(p, n)) = made
         /\ ~ShowsDirectory(rows, Up(p, n)) =>
              WithDirectories(rows, Up(p, n)) = Upserted(made, Up(p, n), Directory("0755"))
         /\ made \in RowMaps
<1> DEFINE q == Up(p, n)
           before == Segments(Up(p, n - 1))
<1>1. /\ q \in Paths /\ Segments(q) = before \cup {q} /\ q \notin before /\ Up(p, n - 1) \in Paths
  BY UpIs
<1>2. made \in RowMaps
  BY <1>1, PutDirectories
<1>3. Entry(made, q) = Entry(rows, q)
  BY <1>1, DirectoriesShown
<1>4. made = [r \in Paths |-> IF r \in before /\ ~ShowsDirectory(rows, r)
                              THEN Directory("0755") ELSE rows[r]]
  BY DEF WithDirectories
<1> HIDE DEF before
<1>5. WithDirectories(rows, q) = [r \in Paths |-> IF r \in before \cup {q} /\ ~ShowsDirectory(rows, r)
                                                  THEN Directory("0755") ELSE rows[r]]
  BY <1>1 DEF WithDirectories
<1> HIDE DEF q
<1>6. ShowsDirectory(rows, q) => WithDirectories(rows, q) = made
  <2> SUFFICES ASSUME ShowsDirectory(rows, q)
               PROVE  \A r \in Paths : (r \in before \cup {q} /\ ~ShowsDirectory(rows, r))
                                         <=> (r \in before /\ ~ShowsDirectory(rows, r))
    BY <1>4, <1>5
  <2>. QED
    OBVIOUS
<1>7. ~ShowsDirectory(rows, q) => WithDirectories(rows, q) = Upserted(made, q, Directory("0755"))
  <2> SUFFICES ASSUME ~ShowsDirectory(rows, q)
               PROVE  WithDirectories(rows, q) = Upserted(made, q, Directory("0755"))
    OBVIOUS
  <2> DEFINE end == Upserted(made, q, Directory("0755"))
  <2>1. DOMAIN end = Paths /\ \A r \in Paths : end[r] = IF r = q THEN Directory("0755") ELSE made[r]
    BY <1>1, <1>2 DEF Upserted, RowMaps
  <2>2. end = [r \in Paths |-> end[r]]
    BY <1>1, <1>2 DEF Upserted, RowMaps
  <2> HIDE DEF end
  <2>3. \A r \in Paths : end[r] = IF r \in before \cup {q} /\ ~ShowsDirectory(rows, r)
                                  THEN Directory("0755") ELSE rows[r]
    BY <1>1, <1>4, <2>1
  <2>4. WithDirectories(rows, q) = end
    BY <1>5, <2>2, <2>3
  <2>. QED
    BY <2>4 DEF end
<1>. QED
  BY <1>2, <1>3, <1>6, <1>7 DEF q
-----------------------------------------------------------------------------
(* What a merge of the transaction writes.                                 *)

\* What is applied of rows are rows.
LEMMA WritesAreRows ==
  ASSUME NEW ours, NEW theirs, NEW parents, NEW taken, taken \subseteq Paths,
         \A p \in Paths : theirs[p] \in Row \cup {Absent} /\ parents[p] \in Row \cup {Absent},
         ~RefusesOf(ours, theirs, taken, parents),
         NEW writes, writes = WritesOf(ours, theirs, taken, parents)
  PROVE  DOMAIN writes \subseteq Paths /\ \A p \in DOMAIN writes : writes[p] \in Row
<1>1. DOMAIN writes \subseteq Paths
  BY PlanDomain, PlanInPaths
<1>2. ASSUME NEW p \in DOMAIN writes PROVE writes[p] \in Row
  <2>1. CASE p \in taken
    BY <2>1, PlanTaken, KindsOfRows DEF Rows
  <2>2. CASE p \notin taken
    <3>1. IsDirectory(parents, p) /\ writes[p] = parents[p]
      BY <1>2, <2>2, PlanAdds
    <3>. QED
      BY <1>1, <1>2, <3>1 DEF IsDirectory
  <2>. QED
    BY <2>1, <2>2
<1>. QED
  BY <1>1, <1>2

LEMMA MergeSeenWrites ==
  ASSUME NEW seen \in RowMaps, NEW result, result = MergeSeen(seen), result.status = "ok"
  PROVE  DOMAIN result.writes \subseteq Paths /\ \A p \in DOMAIN result.writes : result.writes[p] \in Row
<1> DEFINE ours == Fetched(seen, Root)
           theirs == Fetched(Source.view, Root)
           base == Fetched(Source.base, Root)
           candidates == Selected({}, Root) \cap ShownIn({ours, theirs, base})
           conflicts == candidates \cap Conflicting(ours, theirs, base)
           got == candidates \cap (OnlyTheirs(ours, theirs, base) \cup conflicts)
           parents == MergeParents(ours, theirs, base)
           applied == Apply(ours, Plan(theirs, got), parents, Cardinality(ShownIn({seen})),
                            Cardinality(Paths), conflicts, candidates \ got)
<1>1. \/ result = Result("ok", NoWrites, {}, {})
      \/ result = Refusal
      \/ result = applied
  BY DEF MergeSeen, MergeOf
<1>2. applied = Refusal \/ /\ applied = Result("ok", WritesOf(ours, theirs, got, parents),
                                               conflicts, candidates \ got)
                           /\ ~RefusesOf(ours, theirs, got, parents)
  <2> HIDE DEF candidates, conflicts, got, ours, theirs, parents
  <2>. QED
    BY DEF Apply, PostOf, WritesOf, RefusesOf
<1>3. got \subseteq Paths
  BY DEF Selected, Under
<1>4. /\ \A p \in Paths : ours[p] \in Row \cup {Absent} /\ theirs[p] \in Row \cup {Absent}
                          /\ base[p] \in Row \cup {Absent}
      /\ Tombstone \in Row
  <2>1. Source.view \in [Paths -> (Row \ {Tombstone}) \cup {Absent}]
        /\ Source.base \in [Paths -> (Row \ {Tombstone}) \cup {Absent}]
    BY RaceAssumption
  <2>2. Tombstone \in Row
    BY KindsOfRows
  <2>. QED
    BY <2>1, <2>2 DEF Fetched, RowMaps
<1>5. \A p \in Paths : parents[p] \in Row \cup {Absent}
  BY <1>4 DEF MergeParents
<1>6. \A s, w, c, k : Result(s, w, c, k).status = s /\ Result(s, w, c, k).writes = w
  BY DEF Result
<1>7. result # Refusal
  BY <1>6 DEF Refusal
<1> DEFINE writes == WritesOf(ours, theirs, got, parents)
<1>8. ASSUME ~RefusesOf(ours, theirs, got, parents)
      PROVE  DOMAIN writes \subseteq Paths /\ \A p \in DOMAIN writes : writes[p] \in Row
  <2> HIDE DEF candidates, conflicts, got, ours, theirs, parents
  <2>. QED
    BY <1>3, <1>4, <1>5, <1>8, WritesAreRows
<1> HIDE DEF candidates, conflicts, got, ours, theirs, parents, applied, writes
<1>9. CASE result = Result("ok", NoWrites, {}, {})
  BY <1>6, <1>9, NoWritesIs
<1>10. CASE result = applied
  <2>1. result.writes = writes /\ ~RefusesOf(ours, theirs, got, parents)
    BY <1>2, <1>6, <1>7, <1>10 DEF writes
  <2>. QED
    BY <1>8, <2>1
<1>. QED
  BY <1>1, <1>7, <1>9, <1>10

PutsOfWrites(writes) == [p \in Paths |-> IF p \in DOMAIN writes THEN writes[p] ELSE Absent]

LEMMA PutMerged ==
  ASSUME NEW rows \in RowMaps, NEW seen \in RowMaps, NEW result, result = MergeSeen(seen),
         result.status = "ok"
  PROVE  /\ PutsOfWrites(result.writes) \in RowMaps
         /\ PutOver(rows, PutsOfWrites(result.writes)) = Merged(rows, result)
         /\ result.writes = NoWrites => Merged(rows, result) = rows
<1>1. DOMAIN result.writes \subseteq Paths /\ \A p \in DOMAIN result.writes : result.writes[p] \in Row
  BY MergeSeenWrites
<1>2. Absent \notin Row
  BY AbsentAssumption
<1> DEFINE puts == PutsOfWrites(result.writes)
<1>3. puts \in RowMaps /\ \A p \in Paths : puts[p] = IF p \in DOMAIN result.writes THEN result.writes[p]
                                                     ELSE Absent
  BY <1>1 DEF RowMaps, PutsOfWrites
<1> HIDE DEF puts
<1>4. \A p \in Paths : (IF puts[p] # Absent THEN puts[p] ELSE rows[p])
                         = IF p \in DOMAIN result.writes THEN result.writes[p] ELSE rows[p]
  BY <1>1, <1>2, <1>3
<1>5. PutOver(rows, puts) = Merged(rows, result)
  BY <1>4 DEF PutOver, Merged
<1>6. result.writes = NoWrites => Merged(rows, result) = rows
  BY NoWritesIs DEF Merged, RowMaps
<1>. QED
  BY <1>3, <1>5, <1>6 DEF puts
-----------------------------------------------------------------------------
(* The steps of a transaction.                                             *)

RaceKinds == {"read", "decide", "ensure", "lock", "rows", "write", "rewrite", "subtree", "mkdir"}
RaceSteps == [kind : RaceKinds, path : Paths, paths : SUBSET Paths, rows : RowMaps]
Races == [op : {"none", "write", "append", "rm", "mv", "merge"}, path : Paths, dest : Paths,
          piece : Contents, todo : Seq(RaceSteps), seen : RowMaps, puts : RowMaps,
          tolock : SUBSET Paths, running : BOOLEAN, mine : RowMaps, stale : BOOLEAN]

RewriteOf(p, content) == [WriteOf(p, content) EXCEPT !.kind = "rewrite"]

LEMMA StepsAre ==
  /\ \A S : ReadOf(S).kind = "read" /\ ReadOf(S).paths = S
  /\ \A p : EnsureOf(p).kind = "ensure" /\ EnsureOf(p).path = p
  /\ DecideOf.kind = "decide" /\ LockVersionOf.kind = "lock"
  /\ \A p, row : /\ PutOf(p, row).kind = "rows"
                 /\ PutOf(p, row).rows = [NoRows EXCEPT ![p] = row]
  /\ \A rows : PutAllOf(rows).kind = "rows" /\ PutAllOf(rows).rows = rows
  /\ \A p, content : /\ WriteOf(p, content).kind = "write" /\ WriteOf(p, content).path = p
                     /\ WriteOf(p, content).rows = [NoRows EXCEPT ![p] = File(content, "0644")]
  /\ \A p : RemoveOf(p).kind = "subtree" /\ RemoveOf(p).path = p
  /\ \A p : MkdirOf(p).kind = "mkdir" /\ MkdirOf(p).path = p
BY DEF ReadOf, EnsureOf, DecideOf, LockVersionOf, PutOf, PutAllOf, WriteOf, RemoveOf, MkdirOf, Do

LEMMA RewriteIs ==
  \A p, content :
     /\ RewriteOf(p, content).kind = "rewrite" /\ RewriteOf(p, content).path = p
     /\ RewriteOf(p, content).rows = [NoRows EXCEPT ![p] = File(content, "0644")]
<1> SUFFICES ASSUME NEW p, NEW content
             PROVE  /\ RewriteOf(p, content).kind = "rewrite" /\ RewriteOf(p, content).path = p
                    /\ RewriteOf(p, content).rows = [NoRows EXCEPT ![p] = File(content, "0644")]
  OBVIOUS
<1> DEFINE puts == [NoRows EXCEPT ![p] = File(content, "0644")]
<1>1. WriteOf(p, content) = [kind |-> "write", path |-> p, paths |-> {}, rows |-> puts]
  BY DEF WriteOf, Do
<1> HIDE DEF puts
<1>2. RewriteOf(p, content) = [kind |-> "rewrite", path |-> p, paths |-> {}, rows |-> puts]
  BY <1>1 DEF RewriteOf
<1>. QED
  BY <1>2 DEF puts

LEMMA StepsTyped ==
  /\ \A S \in SUBSET Paths : ReadOf(S) \in RaceSteps
  /\ \A p \in Paths : EnsureOf(p) \in RaceSteps /\ RemoveOf(p) \in RaceSteps /\ MkdirOf(p) \in RaceSteps
  /\ DecideOf \in RaceSteps /\ LockVersionOf \in RaceSteps
  /\ \A p \in Paths, row \in Row \cup {Absent} : PutOf(p, row) \in RaceSteps
  /\ \A rows \in RowMaps : PutAllOf(rows) \in RaceSteps
  /\ \A p \in Paths, content \in Contents :
       WriteOf(p, content) \in RaceSteps /\ RewriteOf(p, content) \in RaceSteps
<1>1. NoRows \in RowMaps /\ Root \in Paths /\ {} \in SUBSET Paths
  BY NoRowsTyped, RootIsAbove
<1>2. \A p \in Paths, row \in Row \cup {Absent} : [NoRows EXCEPT ![p] = row] \in RowMaps
  BY <1>1 DEF RowMaps
<1>3. \A content \in Contents : File(content, "0644") \in Row
  BY KindsOfRows
<1>5. ASSUME NEW p \in Paths, NEW content \in Contents
      PROVE  WriteOf(p, content) \in RaceSteps /\ RewriteOf(p, content) \in RaceSteps
  <2> DEFINE puts == [NoRows EXCEPT ![p] = File(content, "0644")]
  <2>1. puts \in RowMaps
    BY <1>2, <1>3
  <2>2. WriteOf(p, content) = [kind |-> "write", path |-> p, paths |-> {}, rows |-> puts]
    BY DEF WriteOf, Do
  <2> HIDE DEF puts
  <2>3. RewriteOf(p, content) = [kind |-> "rewrite", path |-> p, paths |-> {}, rows |-> puts]
    BY <2>2 DEF RewriteOf
  <2>. QED
    BY <2>1, <2>2, <2>3 DEF RaceSteps, RaceKinds
<1>7. ASSUME NEW p \in Paths, NEW row \in Row \cup {Absent} PROVE PutOf(p, row) \in RaceSteps
  <2> DEFINE puts == [NoRows EXCEPT ![p] = row]
  <2>1. puts \in RowMaps
    BY <1>2
  <2>2. PutOf(p, row) = [kind |-> "rows", path |-> p, paths |-> {}, rows |-> puts]
    BY DEF PutOf, Do
  <2> HIDE DEF puts
  <2>. QED
    BY <2>1, <2>2 DEF RaceSteps, RaceKinds
<1>8. /\ \A S \in SUBSET Paths : ReadOf(S) \in RaceSteps
      /\ DecideOf \in RaceSteps /\ LockVersionOf \in RaceSteps
      /\ \A rows \in RowMaps : PutAllOf(rows) \in RaceSteps
  BY <1>1 DEF ReadOf, DecideOf, LockVersionOf, PutAllOf, Do, RaceSteps, RaceKinds
<1>9. \A p \in Paths : EnsureOf(p) \in RaceSteps /\ RemoveOf(p) \in RaceSteps /\ MkdirOf(p) \in RaceSteps
  BY <1>1 DEF EnsureOf, RemoveOf, MkdirOf, Do, RaceSteps, RaceKinds
<1>. QED
  BY <1>5, <1>7, <1>8, <1>9

LEMMA Prepended ==
  ASSUME NEW S, NEW s \in Seq(S), NEW a \in S
  PROVE  Head(<<a>> \o s) = a /\ Tail(<<a>> \o s) = s /\ <<a>> \o s # <<>> /\ <<a>> \o s \in Seq(S)
         /\ <<>> \o s = s
OBVIOUS

LEMMA LookFromIs ==
  ASSUME NEW p \in Paths, NEW n \in 1..(Len(Parent(p)) + 1)
  PROVE  /\ LookFrom(p, n) = IF n <= Len(Parent(p)) THEN <<ReadOf({Up(p, n)}), EnsureOf(Up(p, n))>>
                             ELSE <<ReadOf({p}), DecideOf>>
         /\ LookFrom(p, n) \in Seq(RaceSteps)
         /\ Head(LookFrom(p, n)).kind = "read" /\ LookFrom(p, n) # <<>>
<1>1. LookFrom(p, n) = IF n <= Len(Parent(p)) THEN <<ReadOf({Up(p, n)}), EnsureOf(Up(p, n))>>
                       ELSE <<ReadOf({p}), DecideOf>>
  BY DEF LookFrom, Up
<1>2. Len(Parent(p)) \in Nat
  BY UpEnds
<1>3. CASE n <= Len(Parent(p))
  <2>1. Up(p, n) \in Paths
    BY <1>2, <1>3, UpIs
  <2>2. ReadOf({Up(p, n)}) \in RaceSteps /\ EnsureOf(Up(p, n)) \in RaceSteps
        /\ ReadOf({Up(p, n)}).kind = "read"
    BY <2>1, StepsTyped, StepsAre
  <2>. QED
    BY <1>1, <1>3, <2>2
<1>4. CASE ~(n <= Len(Parent(p)))
  <2>1. ReadOf({p}) \in RaceSteps /\ DecideOf \in RaceSteps /\ ReadOf({p}).kind = "read"
    BY StepsTyped, StepsAre
  <2>. QED
    BY <1>1, <1>4, <2>1
<1>. QED
  BY <1>1, <1>3, <1>4

LEMMA PutsTyped ==
  ASSUME NEW step \in RaceSteps, NEW rows \in RowMaps
  PROVE  /\ PutsOf(step, rows) \in RowMaps
         /\ step.kind \notin {"subtree", "mkdir"} => PutsOf(step, rows) = step.rows
<1>1. Tombstone \in Row /\ Directory("0755") \in Row /\ step.rows \in RowMaps
  BY KindsOfRows DEF RaceSteps
<1>2. CASE step.kind = "subtree"
  BY <1>1, <1>2 DEF PutsOf, RowMaps
<1>3. CASE step.kind = "mkdir"
  BY <1>1, <1>3 DEF PutsOf, RowMaps
<1>4. CASE step.kind \notin {"subtree", "mkdir"}
  BY <1>1, <1>4 DEF PutsOf
<1>. QED
  BY <1>2, <1>3, <1>4

-----------------------------------------------------------------------------
(* How far a transaction has come that no other commit has overlapped: what *)
(* it has still to do, and what the version shows it of what it has done.  *)

\* A tree stays one; what a transaction shows of the version; the one that is
\* about to commit, and the stages of each operation before that.
Kept(rows, after) == TreeShaped(rows) /\ Shows(rows, Root) => TreeShaped(after)
NowOn(t, rows) == PutOver(rows, t.mine)

Finished(t, rows) ==
  /\ t.todo = <<>>
  /\ NowOn(t, rows) = AloneOn(t, rows)
  /\ t.op # "merge" => Kept(rows, NowOn(t, rows))

WriteGoes(t, rows) ==
  LET p == t.path
      up == Parent(t.path)
  IN \/ t.todo = <<WriteOf(p, t.piece)>> /\ NowOn(t, rows) = rows
     \/ /\ ~Shows(rows, up) /\ up # Root
        /\ \/ t.todo = <<MkdirOf(up), RewriteOf(p, t.piece)>> /\ NowOn(t, rows) = rows
           \/ t.todo = <<RewriteOf(p, t.piece)>> /\ NowOn(t, rows) = WithDirectories(rows, up)

\* The content an append writes when the version shows made.
Appended(t, made) ==
  (IF ShowsOther(made, t.path) /\ Entry(made, t.path).type = "file"
   THEN Entry(made, t.path).data ELSE <<>>) \o t.piece

MadeUpTo(p, n, rows) == WithDirectories(rows, Up(p, n))
AppendLooks(t, rows, n) ==
  LET q == Up(t.path, n)
  IN /\ NowOn(t, rows) = MadeUpTo(t.path, n - 1, rows)
     /\ \/ t.todo = <<EnsureOf(q)>> /\ t.seen[q] = Entry(rows, q)
        \/ /\ t.todo = <<PutOf(q, Directory("0755"))>> \o LookFrom(t.path, n + 1)
           /\ ~Shows(rows, q)
AppendGoes(t, rows) ==
  LET p == t.path
      made == WithDirectories(rows, Parent(t.path))
  IN \/ \E n \in 1..(Len(Parent(p)) + 1) :
          NowOn(t, rows) = MadeUpTo(p, n - 1, rows) /\ t.todo = LookFrom(p, n)
     \/ \E n \in 1..Len(Parent(p)) : AppendLooks(t, rows, n)
     \/ /\ NowOn(t, rows) = made
        /\ \/ t.todo = <<DecideOf>> /\ t.seen[p] = Entry(made, p)
           \/ Appended(t, made) \in Contents /\ t.todo = <<WriteOf(p, Appended(t, made))>>

RmGoes(t, rows) ==
  LET p == t.path
  IN /\ NowOn(t, rows) = rows
     /\ \/ t.todo = <<ReadOf({p}), DecideOf>>
        \/ t.todo = <<DecideOf>> /\ t.seen[p] = Entry(rows, p)
        \/ t.todo = <<RemoveOf(p)>> /\ ShowsDirectory(rows, p)
        \/ t.todo = <<PutOf(p, Tombstone)>> /\ ShowsOther(rows, p)

MvReads(t, rows) ==
  LET p == t.path
      dest == t.dest
      found(q) == t.seen[q] = Entry(rows, q)
  IN /\ NowOn(t, rows) = rows
     /\ \/ t.todo = <<ReadOf({p}), ReadOf({Parent(dest)}), ReadOf({dest}), DecideOf>>
        \/ found(p) /\ t.todo = <<ReadOf({Parent(dest)}), ReadOf({dest}), DecideOf>>
        \/ found(p) /\ found(Parent(dest)) /\ t.todo = <<ReadOf({dest}), DecideOf>>
        \/ found(p) /\ found(Parent(dest)) /\ found(dest) /\ t.todo = <<DecideOf>>

MvWrites(t, rows) ==
  LET dest == t.dest
      row == Entry(rows, t.path)
      away == PutOf(t.path, Tombstone)
  IN /\ ShowsOther(rows, t.path) /\ ShowsDirectory(rows, Parent(dest)) /\ ~ShowsDirectory(rows, dest)
     /\ \/ /\ t.todo = <<PutOf(dest, Tombstone), PutOf(dest, row), away>>
           /\ NowOn(t, rows) = rows
        \/ /\ t.todo = <<PutOf(dest, row), away>>
           /\ NowOn(t, rows) \in {rows, Upserted(rows, dest, Tombstone)}
        \/ /\ t.todo = <<away>>
           /\ NowOn(t, rows) = Upserted(rows, dest, row)
MvGoes(t, rows) == t.path # t.dest /\ (MvReads(t, rows) \/ MvWrites(t, rows))

MergeGoes(t, rows) ==
  LET merged == MergeSeen(View(rows))
      put == PutAllOf(PutsOfWrites(merged.writes))
  IN /\ NowOn(t, rows) = rows
     /\ \/ t.todo = <<ReadOf(Paths), DecideOf>>
        \/ t.todo = <<DecideOf>> /\ t.seen = View(rows)
        \/ merged.status = "ok" /\ t.todo = <<LockVersionOf, put>>
        \/ merged.status = "ok" /\ t.todo = <<put>>

Stage(t, rows) ==
  \/ t.op = "write" /\ WriteGoes(t, rows)
  \/ t.op = "append" /\ AppendGoes(t, rows)
  \/ t.op = "rm" /\ RmGoes(t, rows)
  \/ t.op = "mv" /\ MvGoes(t, rows)
  \/ t.op = "merge" /\ MergeGoes(t, rows)

\* What a running statement will write follows from what its transaction sees.
Runs(t, rows) ==
  /\ t.todo # <<>> /\ IsStatement(Head(t.todo))
  /\ t.puts = PutsOf(Head(t.todo), NowOn(t, rows))
  /\ Head(t.todo).kind \in {"write", "rewrite"} =>
       WriteStatus(NowOn(t, rows), Head(t.todo).path) = "ok"

GoesAlone(t, rows) ==
  \/ Finished(t, rows) /\ ~t.running
  \/ Stage(t, rows) /\ (t.running => Runs(t, rows))

SameCall(t, u) == u.op = t.op /\ u.path = t.path /\ u.dest = t.dest /\ u.piece = t.piece

LEMMA NowTyped ==
  ASSUME NEW t \in Races, NEW rows \in RowMaps
  PROVE  NowOn(t, rows) \in RowMaps
BY PutOverTyped DEF NowOn, Races

\* A stage depends on the call, what is to be done, what was seen and written.
LEMMA StageSame ==
  ASSUME NEW t, NEW u, NEW rows, SameCall(t, u), Stage(t, rows), u.todo = t.todo,
         u.seen = t.seen, u.mine = t.mine
  PROVE  Stage(u, rows)
<1>1. NowOn(u, rows) = NowOn(t, rows)
  BY DEF NowOn
<1>2. CASE t.op = "write" /\ WriteGoes(t, rows)
  BY <1>1, <1>2 DEF Stage, WriteGoes, SameCall
<1>3. CASE t.op = "append" /\ AppendGoes(t, rows)
  <2>1. \A made : Appended(u, made) = Appended(t, made)
    BY DEF Appended, SameCall
  <2>. QED
    BY <1>1, <1>3, <2>1 DEF Stage, AppendGoes, AppendLooks, SameCall
<1>4. CASE t.op = "rm" /\ RmGoes(t, rows)
  BY <1>1, <1>4 DEF Stage, RmGoes, SameCall
<1>5. CASE t.op = "mv" /\ MvGoes(t, rows)
  BY <1>1, <1>5 DEF Stage, MvGoes, MvReads, MvWrites, SameCall
<1>6. CASE t.op = "merge" /\ MergeGoes(t, rows)
  BY <1>1, <1>6 DEF Stage, MergeGoes, SameCall
<1>. QED
  BY <1>2, <1>3, <1>4, <1>5, <1>6 DEF Stage

LEMMA AloneSame ==
  ASSUME NEW t, NEW u, NEW rows, SameCall(t, u)
  PROVE  AloneOn(u, rows) = AloneOn(t, rows)
BY DEF AloneOn, SameCall

\* The kinds of step an operation has to do.
LEMMA StageKinds ==
  ASSUME NEW t \in Races, NEW rows \in RowMaps, Stage(t, rows)
  PROVE  /\ t.todo # <<>>
         /\ t.op = "write" => Head(t.todo).kind \in {"write", "mkdir", "rewrite"}
         /\ t.op = "append" => Head(t.todo).kind \in {"read", "ensure", "rows", "decide", "write"}
         /\ t.op = "rm" => Head(t.todo).kind \in {"read", "decide", "subtree", "rows"}
         /\ t.op = "mv" => Head(t.todo).kind \in {"read", "decide", "rows"}
         /\ t.op = "merge" => Head(t.todo).kind \in {"read", "decide", "lock", "rows"}
<1>0. t.path \in Paths /\ t.piece \in Contents
  BY DEF Races
<1>1. CASE t.op = "write" /\ WriteGoes(t, rows)
  <2> DEFINE p == t.path
             up == Parent(t.path)
  <2>1. CASE t.todo = <<WriteOf(p, t.piece)>>
    BY <1>1, <2>1, StepsAre
  <2>2. CASE t.todo = <<MkdirOf(up), RewriteOf(p, t.piece)>>
    <3>1. Head(t.todo) = MkdirOf(up) /\ t.todo # <<>>
      BY <2>2
    <3>. QED
      BY <1>1, <3>1, StepsAre
  <2>3. CASE t.todo = <<RewriteOf(p, t.piece)>>
    <3>1. Head(t.todo) = RewriteOf(p, t.piece) /\ t.todo # <<>>
      BY <2>3
    <3>. QED
      BY <1>1, <3>1, RewriteIs
  <2>. QED
    BY <1>1, <2>1, <2>2, <2>3 DEF WriteGoes
<1>2. CASE t.op = "append" /\ AppendGoes(t, rows)
  <2>1. CASE \E n \in 1..(Len(Parent(t.path)) + 1) : t.todo = LookFrom(t.path, n)
    BY <1>0, <1>2, <2>1, LookFromIs
  <2>2. CASE \E n \in 1..Len(Parent(t.path)) : AppendLooks(t, rows, n)
    <3>1. PICK n \in 1..Len(Parent(t.path)) : AppendLooks(t, rows, n)
      BY <2>2
    <3>2. CASE t.todo = <<EnsureOf(Up(t.path, n))>>
      BY <1>2, <3>2, StepsAre
    <3>3. CASE t.todo = <<PutOf(Up(t.path, n), Directory("0755"))>> \o LookFrom(t.path, n + 1)
      <4>1. n + 1 \in 1..(Len(Parent(t.path)) + 1)
        BY <1>0, UpEnds
      <4>2. PutOf(Up(t.path, n), Directory("0755")) \in RaceSteps /\ Directory("0755") \in Row
        BY <1>0, UpIs, StepsTyped, KindsOfRows
      <4>3. LookFrom(t.path, n + 1) \in Seq(RaceSteps)
        BY <1>0, <4>1, LookFromIs
      <4>. QED
        BY <1>2, <3>3, <4>2, <4>3, Prepended, StepsAre
    <3>. QED
      BY <3>1, <3>2, <3>3 DEF AppendLooks
  <2>3. CASE t.todo = <<DecideOf>> \/ \E made : t.todo = <<WriteOf(t.path, Appended(t, made))>>
    BY <1>2, <2>3, StepsAre
  <2>. QED
    BY <1>2, <2>1, <2>2, <2>3 DEF AppendGoes
<1>3. CASE t.op = "rm" /\ RmGoes(t, rows)
  <2> DEFINE p == t.path
  <2>0. /\ ReadOf({p}).kind = "read" /\ DecideOf.kind = "decide"
        /\ RemoveOf(p).kind = "subtree" /\ PutOf(p, Tombstone).kind = "rows"
    BY StepsAre
  <2>1. CASE t.todo = <<ReadOf({p}), DecideOf>>
    <3>1. Head(t.todo) = ReadOf({p}) /\ t.todo # <<>>
      BY <2>1
    <3>. QED
      BY <1>3, <2>0, <3>1
  <2>2. CASE t.todo = <<DecideOf>>
    BY <1>3, <2>0, <2>2
  <2>3. CASE t.todo = <<RemoveOf(p)>>
    BY <1>3, <2>0, <2>3
  <2>4. CASE t.todo = <<PutOf(p, Tombstone)>>
    BY <1>3, <2>0, <2>4
  <2>. QED
    BY <1>3, <2>1, <2>2, <2>3, <2>4 DEF RmGoes
<1>4. CASE t.op = "mv" /\ MvGoes(t, rows)
  <2> DEFINE p == t.path
             dest == t.dest
             up == Parent(t.dest)
             row == Entry(rows, t.path)
             away == PutOf(t.path, Tombstone)
  <2>0. /\ \A q : ReadOf({q}).kind = "read" /\ \A r : PutOf(q, r).kind = "rows"
        /\ DecideOf.kind = "decide"
    BY StepsAre
  <2>1. ASSUME t.todo # <<>>, Head(t.todo).kind \in {"read", "decide", "rows"}
        PROVE  /\ t.todo # <<>>
               /\ t.op = "write" => Head(t.todo).kind \in {"write", "mkdir", "rewrite"}
               /\ t.op = "append" => Head(t.todo).kind \in {"read", "ensure", "rows", "decide", "write"}
               /\ t.op = "rm" => Head(t.todo).kind \in {"read", "decide", "subtree", "rows"}
               /\ t.op = "mv" => Head(t.todo).kind \in {"read", "decide", "rows"}
               /\ t.op = "merge" => Head(t.todo).kind \in {"read", "decide", "lock", "rows"}
    BY <1>4, <2>1
  <2>2. t.todo # <<>> /\ Head(t.todo).kind \in {"read", "decide", "rows"}
    <3>1. CASE t.todo = <<ReadOf({p}), ReadOf({up}), ReadOf({dest}), DecideOf>>
      <4>1. Head(t.todo) = ReadOf({p}) /\ t.todo # <<>>
        BY <3>1
      <4>. QED
        BY <2>0, <4>1
    <3>2. CASE t.todo = <<ReadOf({up}), ReadOf({dest}), DecideOf>>
      <4>1. Head(t.todo) = ReadOf({up}) /\ t.todo # <<>>
        BY <3>2
      <4>. QED
        BY <2>0, <4>1
    <3>3. CASE t.todo = <<ReadOf({dest}), DecideOf>>
      <4>1. Head(t.todo) = ReadOf({dest}) /\ t.todo # <<>>
        BY <3>3
      <4>. QED
        BY <2>0, <4>1
    <3>4. CASE t.todo = <<DecideOf>>
      BY <2>0, <3>4
    <3>5. CASE t.todo = <<PutOf(dest, Tombstone), PutOf(dest, row), away>>
      <4>1. Head(t.todo) = PutOf(dest, Tombstone) /\ t.todo # <<>>
        BY <3>5
      <4>. QED
        BY <2>0, <4>1
    <3>6. CASE t.todo = <<PutOf(dest, row), away>>
      <4>1. Head(t.todo) = PutOf(dest, row) /\ t.todo # <<>>
        BY <3>6
      <4>. QED
        BY <2>0, <4>1
    <3>7. CASE t.todo = <<away>>
      BY <2>0, <3>7
    <3>. QED
      BY <1>4, <3>1, <3>2, <3>3, <3>4, <3>5, <3>6, <3>7 DEF MvGoes, MvReads, MvWrites
  <2>. QED
    BY <2>1, <2>2
<1>5. CASE t.op = "merge" /\ MergeGoes(t, rows)
  BY <1>5, StepsAre DEF MergeGoes
<1>. QED
  BY <1>1, <1>2, <1>3, <1>4, <1>5 DEF Stage

\* A read.
SeenAfter(t, rows) ==
  [p \in Paths |-> IF p \in Head(t.todo).paths THEN Entry(NowOn(t, rows), p) ELSE t.seen[p]]

LEMMA ReadGoes ==
  ASSUME NEW t \in Races, NEW u, NEW rows \in RowMaps, SameCall(t, u), Stage(t, rows),
         Head(t.todo).kind = "read",
         u.todo = Tail(t.todo), u.mine = t.mine, u.seen = SeenAfter(t, rows)
  PROVE  Stage(u, rows)
<1>0. /\ t.path \in Paths /\ t.dest \in Paths /\ Parent(t.dest) \in Paths /\ Parent(t.path) \in Paths
      /\ t.op \in {"append", "rm", "mv", "merge"}
  BY StageKinds, ParentInPaths DEF Races, Stage
<1>1. NowOn(u, rows) = NowOn(t, rows) /\ NowOn(t, rows) \in RowMaps
  BY NowTyped DEF NowOn
<1>2. \A S : Head(t.todo) = ReadOf(S) => \A p \in Paths :
        u.seen[p] = IF p \in S THEN Entry(NowOn(t, rows), p) ELSE t.seen[p]
  BY StepsAre DEF SeenAfter
<1>3. CASE t.op = "append" /\ AppendGoes(t, rows)
  <2> DEFINE p == t.path
             depth == Len(Parent(t.path))
  <2>0. depth \in Nat /\ Up(p, depth) = Parent(p) /\ u.path = p /\ u.op = "append"
    BY <1>0, <1>3, UpEnds DEF SameCall
  <2>1. PICK n \in 1..(depth + 1) : /\ NowOn(t, rows) = MadeUpTo(p, n - 1, rows)
                                    /\ t.todo = LookFrom(p, n)
    <3>1. ~\E n \in 1..depth : AppendLooks(t, rows, n)
      <4> SUFFICES ASSUME NEW n \in 1..depth, AppendLooks(t, rows, n) PROVE FALSE
        OBVIOUS
      <4>1. CASE t.todo = <<EnsureOf(Up(p, n))>>
        BY <4>1, StepsAre
      <4>2. CASE t.todo = <<PutOf(Up(p, n), Directory("0755"))>> \o LookFrom(p, n + 1)
        <5>1. n + 1 \in 1..(depth + 1)
          BY <2>0
        <5>2. PutOf(Up(p, n), Directory("0755")) \in RaceSteps
          BY <1>0, UpIs, StepsTyped, KindsOfRows
        <5>3. LookFrom(p, n + 1) \in Seq(RaceSteps)
          BY <1>0, <5>1, LookFromIs
        <5>. QED
          BY <4>2, <5>2, <5>3, Prepended, StepsAre
      <4>. QED
        BY <4>1, <4>2 DEF AppendLooks
    <3>. QED
      BY <1>3, <3>1, StepsAre DEF AppendGoes
  <2>2. CASE n <= depth
    <3>1. n \in 1..depth /\ Up(p, n) \in Paths
      BY <1>0, <2>0, <2>2, UpIs
    <3>2. t.todo = <<ReadOf({Up(p, n)}), EnsureOf(Up(p, n))>>
      BY <1>0, <2>1, <2>2, LookFromIs
    <3>3. Head(t.todo) = ReadOf({Up(p, n)}) /\ u.todo = <<EnsureOf(Up(p, n))>>
      BY <3>2
    <3>4. u.seen[Up(p, n)] = Entry(MadeUpTo(p, n - 1, rows), Up(p, n))
      BY <1>2, <2>1, <3>1, <3>3
    <3>5. Entry(MadeUpTo(p, n - 1, rows), Up(p, n)) = Entry(rows, Up(p, n))
      BY <1>0, <3>1, NextDirectory DEF MadeUpTo
    <3>6. AppendLooks(u, rows, n)
      BY <1>1, <2>0, <2>1, <3>3, <3>4, <3>5 DEF AppendLooks
    <3>. QED
      BY <2>0, <3>1, <3>6 DEF Stage, AppendGoes
  <2>3. CASE ~(n <= depth)
    <3>1. n = depth + 1 /\ n - 1 = depth
      BY <2>0, <2>3
    <3>2. t.todo = <<ReadOf({p}), DecideOf>>
      BY <1>0, <2>1, <2>3, LookFromIs
    <3>3. Head(t.todo) = ReadOf({p}) /\ u.todo = <<DecideOf>>
      BY <3>2
    <3>4. NowOn(t, rows) = WithDirectories(rows, Parent(p))
      BY <2>0, <2>1, <3>1 DEF MadeUpTo
    <3>5. u.seen[p] = Entry(WithDirectories(rows, Parent(p)), p)
      BY <1>0, <1>2, <3>3, <3>4
    <3>. QED
      BY <1>1, <2>0, <3>3, <3>4, <3>5 DEF Stage, AppendGoes
  <2>. QED
    BY <2>2, <2>3
<1>4. CASE t.op = "rm" /\ RmGoes(t, rows)
  <2>1. t.todo = <<ReadOf({t.path}), DecideOf>> /\ NowOn(t, rows) = rows
    BY <1>4, StepsAre DEF RmGoes
  <2>2. Head(t.todo) = ReadOf({t.path}) /\ u.todo = <<DecideOf>>
    BY <2>1
  <2>3. u.seen[t.path] = Entry(rows, t.path)
    BY <1>0, <1>2, <2>1, <2>2
  <2>. QED
    BY <1>1, <1>4, <2>1, <2>2, <2>3 DEF Stage, RmGoes, SameCall
<1>5. CASE t.op = "mv" /\ MvGoes(t, rows)
  <2>1. MvReads(t, rows) /\ NowOn(t, rows) = rows /\ t.path # t.dest
    BY <1>5, StepsAre DEF MvGoes, MvReads, MvWrites
  <2>2. \A q \in Paths : t.seen[q] = Entry(rows, q) => u.seen[q] = Entry(rows, q)
    BY <2>1 DEF SeenAfter
  <2> DEFINE p == t.path
             dest == t.dest
             up == Parent(t.dest)
             Knows(q) == u.seen[q] = Entry(rows, q)
  <2>3. CASE t.todo = <<ReadOf({p}), ReadOf({up}), ReadOf({dest}), DecideOf>>
    <3>1. Head(t.todo) = ReadOf({p}) /\ u.todo = <<ReadOf({up}), ReadOf({dest}), DecideOf>>
      BY <2>3
    <3>2. Knows(p)
      BY <1>0, <1>2, <2>1, <3>1
    <3>. QED
      BY <1>1, <1>5, <2>1, <3>1, <3>2 DEF Stage, MvGoes, MvReads, SameCall
  <2>4. CASE t.seen[p] = Entry(rows, p) /\ t.todo = <<ReadOf({up}), ReadOf({dest}), DecideOf>>
    <3>1. Head(t.todo) = ReadOf({up}) /\ u.todo = <<ReadOf({dest}), DecideOf>>
      BY <2>4
    <3>2. Knows(p) /\ Knows(up)
      BY <1>0, <1>2, <2>1, <2>2, <2>4, <3>1
    <3>. QED
      BY <1>1, <1>5, <2>1, <3>1, <3>2 DEF Stage, MvGoes, MvReads, SameCall
  <2>5. CASE t.seen[p] = Entry(rows, p) /\ t.seen[up] = Entry(rows, up)
             /\ t.todo = <<ReadOf({dest}), DecideOf>>
    <3>1. Head(t.todo) = ReadOf({dest}) /\ u.todo = <<DecideOf>>
      BY <2>5
    <3>2. Knows(p) /\ Knows(up) /\ Knows(dest)
      BY <1>0, <1>2, <2>1, <2>2, <2>5, <3>1
    <3>. QED
      BY <1>1, <1>5, <2>1, <3>1, <3>2 DEF Stage, MvGoes, MvReads, SameCall
  <2>6. t.todo # <<DecideOf>>
    BY StepsAre
  <2>. QED
    BY <2>1, <2>3, <2>4, <2>5, <2>6 DEF MvReads
<1>6. CASE t.op = "merge" /\ MergeGoes(t, rows)
  <2>1. t.todo = <<ReadOf(Paths), DecideOf>> /\ NowOn(t, rows) = rows
    BY <1>6, StepsAre DEF MergeGoes
  <2>2. Head(t.todo) = ReadOf(Paths) /\ u.todo = <<DecideOf>>
    BY <2>1
  <2>3. u.seen = View(rows)
    BY <2>1, <2>2, StepsAre DEF View, SeenAfter
  <2>. QED
    BY <1>1, <1>6, <2>1, <2>2, <2>3 DEF Stage, MergeGoes, SameCall
<1>. QED
  BY <1>0, <1>3, <1>4, <1>5, <1>6 DEF Stage

\* What the next step tells of a stage.
LEMMA AppendStages ==
  ASSUME NEW t \in Races, NEW rows \in RowMaps, AppendGoes(t, rows), t.op = "append"
  PROVE  /\ Head(t.todo).kind = "read" =>
              \E n \in 1..(Len(Parent(t.path)) + 1) :
                 NowOn(t, rows) = MadeUpTo(t.path, n - 1, rows) /\ t.todo = LookFrom(t.path, n)
         /\ Head(t.todo).kind = "ensure" =>
              \E n \in 1..Len(Parent(t.path)) :
                 /\ NowOn(t, rows) = MadeUpTo(t.path, n - 1, rows)
                 /\ t.todo = <<EnsureOf(Up(t.path, n))>>
                 /\ t.seen[Up(t.path, n)] = Entry(rows, Up(t.path, n))
         /\ Head(t.todo).kind = "rows" =>
              \E n \in 1..Len(Parent(t.path)) :
                 /\ NowOn(t, rows) = MadeUpTo(t.path, n - 1, rows)
                 /\ Head(t.todo) = PutOf(Up(t.path, n), Directory("0755"))
                 /\ Tail(t.todo) = LookFrom(t.path, n + 1)
                 /\ ~Shows(rows, Up(t.path, n))
         /\ Head(t.todo).kind = "decide" =>
              LET made == WithDirectories(rows, Parent(t.path))
              IN /\ t.todo = <<DecideOf>> /\ NowOn(t, rows) = made
                 /\ t.seen[t.path] = Entry(made, t.path)
         /\ Head(t.todo).kind = "write" =>
              LET made == WithDirectories(rows, Parent(t.path))
              IN /\ NowOn(t, rows) = made
                 /\ Appended(t, made) \in Contents
                 /\ t.todo = <<WriteOf(t.path, Appended(t, made))>>
<1> DEFINE p == t.path
           depth == Len(Parent(p))
           kind == Head(t.todo).kind
<1>0. p \in Paths /\ depth \in Nat
  BY UpEnds DEF Races
<1> DEFINE made == WithDirectories(rows, Parent(p))
<1>1. ASSUME NEW n \in 1..(depth + 1), t.todo = LookFrom(p, n)
      PROVE  kind = "read"
  BY <1>0, <1>1, LookFromIs
<1>2. ASSUME NEW n \in 1..depth, t.todo = <<EnsureOf(Up(p, n))>>
      PROVE  kind = "ensure"
  BY <1>2, StepsAre
<1>3. ASSUME NEW n \in 1..depth, t.todo = <<PutOf(Up(p, n), Directory("0755"))>> \o LookFrom(p, n + 1)
      PROVE  /\ kind = "rows" /\ Head(t.todo) = PutOf(Up(p, n), Directory("0755"))
             /\ Tail(t.todo) = LookFrom(p, n + 1)
  <2>1. n + 1 \in 1..(depth + 1)
    BY <1>0
  <2>2. PutOf(Up(p, n), Directory("0755")) \in RaceSteps
    BY <1>0, UpIs, StepsTyped, KindsOfRows
  <2>3. LookFrom(p, n + 1) \in Seq(RaceSteps)
    BY <1>0, <2>1, LookFromIs
  <2>. QED
    BY <1>3, <2>2, <2>3, Prepended, StepsAre
<1>4. t.todo = <<DecideOf>> => kind = "decide"
  BY StepsAre
<1>5. t.todo = <<WriteOf(p, Appended(t, made))>> => kind = "write"
  BY StepsAre
<1>6. CASE \E n \in 1..(depth + 1) : NowOn(t, rows) = MadeUpTo(p, n - 1, rows) /\ t.todo = LookFrom(p, n)
  BY <1>1, <1>6
<1>7. CASE \E n \in 1..depth : AppendLooks(t, rows, n)
  <2>1. PICK n \in 1..depth : AppendLooks(t, rows, n)
    BY <1>7
  <2>2. CASE t.todo = <<EnsureOf(Up(p, n))>> /\ t.seen[Up(p, n)] = Entry(rows, Up(p, n))
    BY <1>2, <2>1, <2>2 DEF AppendLooks
  <2>3. CASE /\ t.todo = <<PutOf(Up(p, n), Directory("0755"))>> \o LookFrom(p, n + 1)
             /\ ~Shows(rows, Up(p, n))
    BY <1>3, <2>1, <2>3 DEF AppendLooks
  <2>. QED
    BY <2>1, <2>2, <2>3 DEF AppendLooks
<1>8. CASE NowOn(t, rows) = made /\ t.todo = <<DecideOf>> /\ t.seen[p] = Entry(made, p)
  BY <1>4, <1>8
<1>9. CASE /\ NowOn(t, rows) = made /\ Appended(t, made) \in Contents
           /\ t.todo = <<WriteOf(p, Appended(t, made))>>
  BY <1>5, <1>9
<1>. QED
  BY <1>6, <1>7, <1>8, <1>9 DEF AppendGoes

LEMMA RmStages ==
  ASSUME NEW t \in Races, NEW rows \in RowMaps, RmGoes(t, rows),
         NEW p, p = t.path, NEW kind, kind = Head(t.todo).kind
  PROVE  /\ NowOn(t, rows) = rows
         /\ kind = "read" => t.todo = <<ReadOf({p}), DecideOf>>
         /\ kind = "decide" => t.todo = <<DecideOf>> /\ t.seen[p] = Entry(rows, p)
         /\ kind = "subtree" => t.todo = <<RemoveOf(p)>> /\ ShowsDirectory(rows, p)
         /\ kind = "rows" => t.todo = <<PutOf(p, Tombstone)>> /\ ShowsOther(rows, p)
<1>1. NowOn(t, rows) = rows
  BY DEF RmGoes
<1>2. t.todo = <<ReadOf({p}), DecideOf>> => kind = "read"
  BY StepsAre
<1>3. t.todo = <<DecideOf>> => kind = "decide"
  BY StepsAre
<1>4. t.todo = <<RemoveOf(p)>> => kind = "subtree"
  BY StepsAre
<1>5. t.todo = <<PutOf(p, Tombstone)>> => kind = "rows"
  BY StepsAre
<1>6. CASE t.todo = <<ReadOf({p}), DecideOf>>
  BY <1>1, <1>2, <1>6
<1>7. CASE t.todo = <<DecideOf>> /\ t.seen[p] = Entry(rows, p)
  BY <1>1, <1>3, <1>7
<1>8. CASE t.todo = <<RemoveOf(p)>> /\ ShowsDirectory(rows, p)
  BY <1>1, <1>4, <1>8
<1>9. CASE t.todo = <<PutOf(p, Tombstone)>> /\ ShowsOther(rows, p)
  BY <1>1, <1>5, <1>9
<1>. QED
  BY <1>6, <1>7, <1>8, <1>9 DEF RmGoes

LEMMA MvStages ==
  ASSUME NEW t \in Races, NEW rows \in RowMaps, MvGoes(t, rows),
         NEW kind, kind = Head(t.todo).kind
  PROVE  /\ kind = "read" => MvReads(t, rows)
         /\ kind = "decide" => /\ t.todo = <<DecideOf>> /\ NowOn(t, rows) = rows
                               /\ \A q \in {t.path, Parent(t.dest), t.dest} : t.seen[q] = Entry(rows, q)
         /\ kind = "rows" => MvWrites(t, rows)
<1> DEFINE p == t.path
           dest == t.dest
           up == Parent(t.dest)
           row == Entry(rows, t.path)
           away == PutOf(t.path, Tombstone)
<1>0. /\ \A q : ReadOf({q}).kind = "read" /\ \A r : PutOf(q, r).kind = "rows"
      /\ DecideOf.kind = "decide"
  BY StepsAre
<1>1. t.todo = <<ReadOf({p}), ReadOf({up}), ReadOf({dest}), DecideOf>> => kind = "read"
  <2>1. t.todo = <<ReadOf({p}), ReadOf({up}), ReadOf({dest}), DecideOf>> => Head(t.todo) = ReadOf({p})
    OBVIOUS
  <2>. QED
    BY <1>0, <2>1
<1>2. t.todo = <<ReadOf({up}), ReadOf({dest}), DecideOf>> => kind = "read"
  <2>1. t.todo = <<ReadOf({up}), ReadOf({dest}), DecideOf>> => Head(t.todo) = ReadOf({up})
    OBVIOUS
  <2>. QED
    BY <1>0, <2>1
<1>3. t.todo = <<ReadOf({dest}), DecideOf>> => kind = "read"
  <2>1. t.todo = <<ReadOf({dest}), DecideOf>> => Head(t.todo) = ReadOf({dest})
    OBVIOUS
  <2>. QED
    BY <1>0, <2>1
<1>4. t.todo = <<DecideOf>> => kind = "decide"
  BY <1>0
<1>5. MvWrites(t, rows) => kind = "rows"
  <2>1. t.todo = <<PutOf(dest, Tombstone), PutOf(dest, row), away>> => kind = "rows"
    <3>1. t.todo = <<PutOf(dest, Tombstone), PutOf(dest, row), away>> => Head(t.todo) = PutOf(dest, Tombstone)
      OBVIOUS
    <3>. QED
      BY <1>0, <3>1
  <2>2. t.todo = <<PutOf(dest, row), away>> => kind = "rows"
    <3>1. t.todo = <<PutOf(dest, row), away>> => Head(t.todo) = PutOf(dest, row)
      OBVIOUS
    <3>. QED
      BY <1>0, <3>1
  <2>3. t.todo = <<away>> => kind = "rows"
    <3>1. t.todo = <<away>> => Head(t.todo) = away
      OBVIOUS
    <3>. QED
      BY <1>0, <3>1
  <2>. QED
    BY <2>1, <2>2, <2>3 DEF MvWrites
<1>6. MvReads(t, rows) =>
        \/ kind = "read"
        \/ /\ kind = "decide" /\ t.todo = <<DecideOf>> /\ NowOn(t, rows) = rows
           /\ \A q \in {p, up, dest} : t.seen[q] = Entry(rows, q)
  BY <1>1, <1>2, <1>3, <1>4 DEF MvReads
<1>. QED
  BY <1>5, <1>6 DEF MvGoes

LEMMA MergeStages ==
  ASSUME NEW t \in Races, NEW rows \in RowMaps, MergeGoes(t, rows),
         NEW kind, kind = Head(t.todo).kind,
         NEW merged, merged = MergeSeen(View(rows)),
         NEW put, put = PutAllOf(PutsOfWrites(merged.writes))
  PROVE  /\ NowOn(t, rows) = rows
         /\ kind = "read" => t.todo = <<ReadOf(Paths), DecideOf>>
         /\ kind = "decide" => t.todo = <<DecideOf>> /\ t.seen = View(rows)
         /\ kind = "lock" => merged.status = "ok" /\ t.todo = <<LockVersionOf, put>>
         /\ kind = "rows" => merged.status = "ok" /\ t.todo = <<put>>
<1>1. NowOn(t, rows) = rows
  BY DEF MergeGoes
<1>2. t.todo = <<ReadOf(Paths), DecideOf>> => kind = "read"
  BY StepsAre
<1>3. t.todo = <<DecideOf>> => kind = "decide"
  BY StepsAre
<1>4. t.todo = <<LockVersionOf, put>> => kind = "lock"
  BY StepsAre
<1>5. t.todo = <<put>> => kind = "rows"
  BY StepsAre
<1>6. CASE t.todo = <<ReadOf(Paths), DecideOf>>
  BY <1>1, <1>2, <1>6
<1>7. CASE t.todo = <<DecideOf>> /\ t.seen = View(rows)
  BY <1>1, <1>3, <1>7
<1>8. CASE merged.status = "ok" /\ t.todo = <<LockVersionOf, put>>
  BY <1>1, <1>4, <1>8
<1>9. CASE merged.status = "ok" /\ t.todo = <<put>>
  BY <1>1, <1>5, <1>9
<1>. QED
  BY <1>6, <1>7, <1>8, <1>9 DEF MergeGoes

\* Content followed by a piece that still fits.
LEMMA Joined ==
  ASSUME NEW s \in Contents, NEW r \in Contents
  PROVE  /\ ~(Len(s \o r) > MaxFileSize) => s \o r \in Contents
         /\ <<>> \in Contents /\ <<>> \o r = r
         /\ \A x \in Tokens : <<x>> \in Contents
<1>0. MaxFileSize \in Nat \ {0}
  BY SizeAssumption
<1>1. ASSUME NEW q \in Contents PROVE q \in Seq(Tokens)
  <2>1. PICK n \in 0..MaxFileSize : q \in [1..n -> Tokens]
    BY <1>1 DEF Contents
  <2>. QED
    BY <1>0, <2>1
<1>2. ASSUME NEW q \in Seq(Tokens), Len(q) <= MaxFileSize PROVE q \in Contents
  <2>1. Len(q) \in 0..MaxFileSize /\ q \in [1..Len(q) -> Tokens]
    BY <1>0, <1>2
  <2>. QED
    BY <2>1 DEF Contents
<1>3. s \o r \in Seq(Tokens)
  BY <1>1
<1>4. <<>> \o r = r
  BY <1>1, ConcatEmptySeq
<1>5. <<>> \in Seq(Tokens) /\ Len(<<>>) <= MaxFileSize
  BY <1>0
<1>6. ASSUME NEW x \in Tokens PROVE <<x>> \in Seq(Tokens) /\ Len(<<x>>) <= MaxFileSize
  BY <1>0
<1>7. ~(Len(s \o r) > MaxFileSize) => Len(s \o r) <= MaxFileSize
  BY <1>0, <1>3
<1>. QED
  BY <1>2, <1>3, <1>4, <1>5, <1>6, <1>7

\* Steps in sequence.
LEMMA Concats ==
  ASSUME NEW S, NEW a \in S, NEW b \in S, NEW d \in S
  PROVE  <<a>> \o <<b, d>> = <<a, b, d>> /\ <<>> \o <<b, d>> = <<b, d>>
<1>5. <<a>> \o <<b, d>> = <<a, b, d>>
  <2> DEFINE whole == <<a>> \o <<b, d>>
  <2>1. <<a>> \in Seq(S) /\ <<b, d>> \in Seq(S) /\ <<a, b, d>> \in Seq(S)
    OBVIOUS
  <2>2. /\ whole \in Seq(S) /\ Len(whole) = Len(<<a>>) + Len(<<b, d>>)
        /\ \A i \in 1 .. Len(<<a>>) + Len(<<b, d>>) :
             whole[i] = IF i <= Len(<<a>>) THEN <<a>>[i] ELSE <<b, d>>[i - Len(<<a>>)]
    BY <2>1, ConcatProperties
  <2> HIDE DEF whole
  <2>3. Len(whole) = 3 /\ whole[1] = a /\ whole[2] = b /\ whole[3] = d
    BY <2>2
  <2>4. whole = <<a, b, d>>
    BY <2>1, <2>2, <2>3, SeqEqual
  <2>. QED
    BY <2>4 DEF whole
<1>6. <<>> \o <<b, d>> = <<b, d>>
  OBVIOUS
<1>. QED
  BY <1>5, <1>6

\* What is decided on what was read.
LEMMA DecideGoes ==
  ASSUME NEW t \in Races, NEW u, NEW rows \in RowMaps, SameCall(t, u), Stage(t, rows),
         Head(t.todo).kind = "decide", ~Refused(t),
         u.todo = Decisions(t), u.mine = t.mine
  PROVE  Stage(u, rows) \/ Finished(u, rows)
<1>0. /\ t.path \in Paths /\ t.dest \in Paths /\ t.piece \in Contents
      /\ Parent(t.dest) \in Paths /\ Parent(t.path) \in Paths
      /\ t.op \in {"append", "rm", "mv", "merge"}
  BY StageKinds, ParentInPaths DEF Races, Stage
<1>1. NowOn(u, rows) = NowOn(t, rows)
  BY DEF NowOn
<1> DEFINE p == t.path
           found == t.seen[p]
<1>3. CASE t.op = "append" /\ AppendGoes(t, rows)
  <2> DEFINE made == WithDirectories(rows, Parent(p))
  <2>1. NowOn(t, rows) = made /\ found = Entry(made, p)
    BY <1>3, AppendStages
  <2>2. made \in RowMaps
    BY <1>0, PutDirectories
  <2> HIDE DEF made
  <2>3. found \in Row \cup {Absent}
    BY <1>0, <2>1, <2>2, EntryIsRow
  <2>4. found = Absent \/ (found.type # "directory" /\ ~(Len(found.data \o t.piece) > MaxFileSize))
    BY <1>3 DEF Refused
  <2> DEFINE isFile == found # Absent /\ found.type = "file"
  <2>5. Decisions(t) = <<WriteOf(p, IF isFile THEN found.data \o t.piece ELSE t.piece)>>
    BY <1>3 DEF Decisions
  <2>6. isFile <=> ShowsOther(made, p) /\ Entry(made, p).type = "file"
    BY <2>1, <2>4 DEF ShowsOther, Shows
  <2>7. Appended(u, made) = (IF isFile THEN found.data ELSE <<>>) \o t.piece
    BY <2>1, <2>6 DEF Appended, SameCall
  <2>8. isFile => found.data \in Contents
    BY <2>3, KindsOfRows
  <2>9. Appended(u, made) = (IF isFile THEN found.data \o t.piece ELSE t.piece)
        /\ Appended(u, made) \in Contents
    <3>1. CASE isFile
      BY <1>0, <2>4, <2>7, <2>8, <3>1, Joined
    <3>2. CASE ~isFile
      BY <1>0, <2>7, <3>2, Joined
    <3>. QED
      BY <3>1, <3>2
  <2>10. u.todo = <<WriteOf(p, Appended(u, made))>>
    BY <2>5, <2>9
  <2>11. u.path = p /\ u.op = "append"
    BY <1>3 DEF SameCall
  <2>. QED
    BY <1>1, <2>1, <2>9, <2>10, <2>11 DEF Stage, AppendGoes, made
<1>4. CASE t.op = "rm" /\ RmGoes(t, rows)
  <2>1. NowOn(t, rows) = rows /\ found = Entry(rows, p)
    BY <1>4, RmStages
  <2>2. found # Absent
    BY <1>4 DEF Refused
  <2>3. u.path = p /\ u.op = "rm"
    BY <1>4 DEF SameCall
  <2>4. CASE found.type = "directory"
    <3>1. u.todo = <<RemoveOf(p)>> /\ ShowsDirectory(rows, p)
      BY <1>4, <2>1, <2>2, <2>4 DEF Decisions, ShowsDirectory, Shows
    <3>. QED
      BY <1>1, <2>1, <2>3, <3>1 DEF Stage, RmGoes
  <2>5. CASE found.type # "directory"
    <3>1. u.todo = <<PutOf(p, Tombstone)>> /\ ShowsOther(rows, p)
      BY <1>4, <2>1, <2>2, <2>5 DEF Decisions, ShowsOther, Shows
    <3>. QED
      BY <1>1, <2>1, <2>3, <3>1 DEF Stage, RmGoes
  <2>. QED
    BY <2>4, <2>5
<1>5. CASE t.op = "mv" /\ MvGoes(t, rows)
  <2> DEFINE dest == t.dest
             row == Entry(rows, p)
             away == PutOf(p, Tombstone)
  <2>1. /\ NowOn(t, rows) = rows /\ p # dest
        /\ t.seen[p] = Entry(rows, p) /\ t.seen[dest] = Entry(rows, dest)
        /\ t.seen[Parent(dest)] = Entry(rows, Parent(dest))
    BY <1>5, MvStages DEF MvGoes
  <2>2. ~MvRefused(t)
    BY <1>5 DEF Refused
  <2>3. ShowsOther(rows, p) /\ ShowsDirectory(rows, Parent(dest)) /\ ~ShowsDirectory(rows, dest)
    BY <2>1, <2>2 DEF MvRefused, IsDirectory, ShowsOther, ShowsDirectory, Shows
  <2>4. Decisions(t) = MvStatements(t)
    BY <1>5 DEF Decisions
  <2>6. MvStatements(t) = (IF t.seen[dest] # Absent THEN <<PutOf(dest, Tombstone)>> ELSE <<>>)
                          \o <<PutOf(dest, row), away>>
    BY <2>1 DEF MvStatements
  <2> DEFINE one == PutOf(dest, Tombstone)
             two == PutOf(dest, row)
             three == PutOf(p, Tombstone)
  <2>5. one \in RaceSteps /\ two \in RaceSteps /\ three \in RaceSteps
    BY <1>0, StepsTyped, EntryIsRow, KindsOfRows
  <2> HIDE DEF one, two, three
  <2>7. u.todo \in {<<one, two, three>>, <<two, three>>}
    <3>1. <<one>> \o <<two, three>> = <<one, two, three>> /\ <<>> \o <<two, three>> = <<two, three>>
      BY <2>5, Concats, Zenon
    <3>. QED
      BY <2>4, <2>6, <3>1 DEF one, two, three
  <2>8. u.op = "mv" /\ u.path = p /\ u.dest = dest
    BY <1>5 DEF SameCall
  <2>9. MvWrites(u, rows)
    <3>1. CASE u.todo = <<one, two, three>>
      BY <1>1, <2>1, <2>3, <2>8, <3>1 DEF MvWrites, one, two, three
    <3>2. CASE u.todo = <<two, three>>
      BY <1>1, <2>1, <2>3, <2>8, <3>2 DEF MvWrites, two, three
    <3>. QED
      BY <2>7, <3>1, <3>2
  <2>. QED
    BY <2>1, <2>8, <2>9 DEF Stage, MvGoes
<1>6. CASE t.op = "merge" /\ MergeGoes(t, rows)
  <2> DEFINE merged == MergeSeen(View(rows))
  <2>1. NowOn(t, rows) = rows /\ t.seen = View(rows)
    BY <1>6, MergeStages
  <2>2. merged.status = "ok"
    BY <1>6, <2>1 DEF Refused
  <2>3. u.todo = (IF merged.writes = NoWrites THEN <<>>
                  ELSE <<LockVersionOf, PutAllOf(PutsOfWrites(merged.writes))>>)
    BY <1>6, <2>1 DEF Decisions, PutsOfWrites
  <2>4. View(rows) \in RowMaps
    BY EntryIsRow DEF View, RowMaps
  <2>5. u.op = "merge"
    BY <1>6 DEF SameCall
  <2>6. CASE merged.writes = NoWrites
    <3>1. Merged(rows, merged) = rows
      BY <2>2, <2>4, <2>6, PutMerged
    <3>2. AloneOn(u, rows) = Merged(rows, merged)
      BY <2>5 DEF AloneOn
    <3>. QED
      BY <1>1, <2>1, <2>3, <2>5, <2>6, <3>1, <3>2 DEF Finished
  <2>7. CASE merged.writes # NoWrites
    <3>1. u.todo = <<LockVersionOf, PutAllOf(PutsOfWrites(merged.writes))>>
      BY <2>3, <2>7
    <3>. QED
      BY <1>1, <2>1, <2>2, <2>5, <3>1 DEF Stage, MergeGoes
  <2>. QED
    BY <2>6, <2>7
<1>. QED
  BY <1>0, <1>3, <1>4, <1>5, <1>6 DEF Stage

\* internalMkdir keeps the directory it looked at, or makes it.
LEMMA EnsureGoes ==
  ASSUME NEW t \in Races, NEW u, NEW rows \in RowMaps, SameCall(t, u), Stage(t, rows),
         NEW q, Head(t.todo).kind = "ensure", q = Head(t.todo).path,
         t.seen[q] = Absent \/ IsDirectory(t.seen, q),
         u.todo = (IF t.seen[q] = Absent THEN <<PutOf(q, Directory("0755"))>> ELSE <<>>)
                  \o LookFrom(t.path, Len(q) + 1),
         u.mine = t.mine
  PROVE  Stage(u, rows)
<1> DEFINE p == t.path
           depth == Len(Parent(p))
<1>1. t.op = "append" /\ AppendGoes(t, rows) /\ p \in Paths
  BY StageKinds DEF Races, Stage
<1>2. PICK n \in 1..depth : /\ NowOn(t, rows) = MadeUpTo(p, n - 1, rows)
                            /\ t.todo = <<EnsureOf(Up(p, n))>>
                            /\ t.seen[Up(p, n)] = Entry(rows, Up(p, n))
  BY <1>1, AppendStages
<1>3. q = Up(p, n)
  BY <1>2, StepsAre
<1>4. /\ q \in Paths /\ Len(q) = n /\ n + 1 \in 1..(depth + 1) /\ (n + 1) - 1 = n
  BY <1>1, <1>3, UpIs, UpEnds
<1>5. t.seen[q] = Entry(rows, q)
  BY <1>2, <1>3
<1>6. NowOn(u, rows) = NowOn(t, rows) /\ u.op = "append" /\ u.path = p
  BY <1>1 DEF NowOn, SameCall
<1>7. CASE t.seen[q] = Absent
  <2>1. u.todo = <<PutOf(Up(p, n), Directory("0755"))>> \o LookFrom(p, n + 1)
    BY <1>3, <1>4, <1>7
  <2>2. ~Shows(rows, Up(p, n))
    BY <1>3, <1>5, <1>7 DEF Shows
  <2>3. AppendLooks(u, rows, n)
    BY <1>2, <1>6, <2>1, <2>2 DEF AppendLooks
  <2>. QED
    BY <1>6, <2>3 DEF Stage, AppendGoes
<1>8. CASE t.seen[q] # Absent
  <2>1. ShowsDirectory(rows, q)
    BY <1>5, <1>8 DEF IsDirectory, ShowsDirectory, Shows
  <2>2. MadeUpTo(p, n, rows) = MadeUpTo(p, n - 1, rows)
    BY <1>1, <1>3, <2>1, NextDirectory DEF MadeUpTo
  <2>3. LookFrom(p, n + 1) \in Seq(RaceSteps)
    BY <1>1, <1>4, LookFromIs
  <2>4. DecideOf \in RaceSteps
    BY StepsTyped
  <2>5. u.todo = LookFrom(p, n + 1)
    BY <1>4, <1>8, <2>3, <2>4, Prepended
  <2>6. NowOn(u, rows) = MadeUpTo(p, (n + 1) - 1, rows)
    BY <1>2, <1>4, <1>6, <2>2
  <2>. QED
    BY <1>4, <1>6, <2>5, <2>6 DEF Stage, AppendGoes
<1>. QED
  BY <1>7, <1>8

LEMMA StatusIs ==
  ASSUME NEW rows, NEW p
  PROVE  /\ WriteStatus(rows, p) = "enoent" => ~Shows(rows, Parent(p))
         /\ WriteStatus(rows, p) = "ok" => ShowsDirectory(rows, Parent(p)) /\ ~ShowsDirectory(rows, p)
<1>1. Shows(rows, Parent(p)) <=> ShowsDirectory(rows, Parent(p)) \/ ShowsOther(rows, Parent(p))
  BY DEF ShowsDirectory, ShowsOther
<1>2. ~(ShowsDirectory(rows, Parent(p)) /\ ShowsOther(rows, Parent(p)))
  BY DEF ShowsDirectory, ShowsOther
<1> DEFINE shown == Shows(rows, Parent(p))
           other == ShowsOther(rows, Parent(p))
           directory == ShowsDirectory(rows, Parent(p))
           here == ShowsDirectory(rows, p)
<1>3. WriteStatus(rows, p) = CASE ~shown -> "enoent" [] other -> "enotdir"
                               [] directory /\ here -> "eisdir" [] OTHER -> "ok"
  BY DEF WriteStatus
<1> HIDE DEF shown, other, directory, here
<1>4. (shown <=> directory \/ other) /\ ~(directory /\ other)
  BY <1>1, <1>2 DEF shown, other, directory
<1>5. /\ WriteStatus(rows, p) = "enoent" => ~shown
      /\ WriteStatus(rows, p) = "ok" => directory /\ ~here
  <2>1. CASE ~shown
    BY <1>3, <1>4, <2>1
  <2>2. CASE other
    BY <1>3, <1>4, <2>2
  <2>3. CASE directory /\ here
    BY <1>3, <1>4, <2>3
  <2>4. CASE directory /\ ~here
    BY <1>3, <1>4, <2>4
  <2>. QED
    BY <1>4, <2>1, <2>2, <2>3, <2>4
<1>. QED
  BY <1>5 DEF shown, other, directory, here

\* A write that finds no directory makes it first.
LEMMA StartAgain ==
  ASSUME NEW t \in Races, NEW u, NEW rows \in RowMaps, SameCall(t, u), Stage(t, rows),
         NEW step, step = Head(t.todo), step.kind = "write",
         WriteStatus(NowOn(t, rows), step.path) = "enoent", Parent(step.path) # Root,
         u.todo = <<MkdirOf(Parent(step.path)), [step EXCEPT !.kind = "rewrite"]>> \o Tail(t.todo),
         u.mine = t.mine
  PROVE  Stage(u, rows)
<1> DEFINE p == t.path
           up == Parent(p)
<1>1. t.op \in {"write", "append"} /\ p \in Paths /\ up \in Paths /\ t.piece \in Contents
  BY StageKinds, ParentInPaths DEF Races, Stage
<1>2. ~Shows(NowOn(t, rows), Parent(step.path))
  BY StatusIs
<1>3. CASE t.op = "write" /\ WriteGoes(t, rows)
  <2>1. t.todo # <<MkdirOf(up), RewriteOf(p, t.piece)>>
    <3>1. t.todo = <<MkdirOf(up), RewriteOf(p, t.piece)>> => step = MkdirOf(up)
      OBVIOUS
    <3>. QED
      BY <3>1, StepsAre
  <2>2. t.todo # <<RewriteOf(p, t.piece)>>
    <3>1. t.todo = <<RewriteOf(p, t.piece)>> => step = RewriteOf(p, t.piece)
      OBVIOUS
    <3>. QED
      BY <3>1, RewriteIs
  <2>3. t.todo = <<WriteOf(p, t.piece)>> /\ NowOn(t, rows) = rows
    BY <1>3, <2>1, <2>2 DEF WriteGoes
  <2>4. step = WriteOf(p, t.piece) /\ Tail(t.todo) = <<>>
    BY <2>3
  <2>5. step.path = p /\ [step EXCEPT !.kind = "rewrite"] = RewriteOf(p, t.piece)
    BY <2>4, StepsAre DEF RewriteOf
  <2>6. MkdirOf(up) \in RaceSteps /\ RewriteOf(p, t.piece) \in RaceSteps
    BY <1>1, StepsTyped
  <2>7. <<MkdirOf(up), RewriteOf(p, t.piece)>> \in Seq(RaceSteps)
    BY <2>6
  <2>8. u.todo = <<MkdirOf(up), RewriteOf(p, t.piece)>>
    BY <2>4, <2>5, <2>7, ConcatEmptySeq
  <2>9. ~Shows(rows, up) /\ up # Root /\ NowOn(u, rows) = rows
    BY <1>2, <2>3, <2>5 DEF NowOn
  <2>10. u.op = "write" /\ u.path = p /\ u.piece = t.piece
    BY <1>3 DEF SameCall
  <2>. QED
    BY <2>8, <2>9, <2>10 DEF Stage, WriteGoes
<1>4. CASE t.op = "append" /\ AppendGoes(t, rows)
  <2> DEFINE made == WithDirectories(rows, up)
  <2>1. NowOn(t, rows) = made /\ t.todo = <<WriteOf(p, Appended(t, made))>>
    BY <1>4, AppendStages
  <2>2. step.path = p
    BY <2>1, StepsAre
  <2>3. up \in Segments(up)
    BY <1>1, <2>2, SegmentsAre
  <2>4. ShowsDirectory(made, up)
    BY <1>1, <2>3, DirectoriesShown
  <2>. QED
    BY <1>2, <2>1, <2>2, <2>4 DEF ShowsDirectory
<1>. QED
  BY <1>1, <1>3, <1>4 DEF Stage

\* A merge takes the lock of its version.
LEMMA LockGoes ==
  ASSUME NEW t \in Races, NEW u, NEW rows \in RowMaps, SameCall(t, u), Stage(t, rows),
         Head(t.todo).kind = "lock", u.todo = Tail(t.todo), u.mine = t.mine
  PROVE  Stage(u, rows)
<1>1. t.op = "merge" /\ MergeGoes(t, rows)
  BY StageKinds DEF Races, Stage
<1> DEFINE merged == MergeSeen(View(rows))
           put == PutAllOf(PutsOfWrites(merged.writes))
<1>2. NowOn(t, rows) = rows /\ merged.status = "ok" /\ t.todo = <<LockVersionOf, put>>
  BY <1>1, MergeStages
<1> HIDE DEF put
<1>3. u.todo = <<put>> /\ NowOn(u, rows) = rows /\ u.op = "merge"
  BY <1>1, <1>2 DEF NowOn, SameCall
<1>. QED
  BY <1>2, <1>3 DEF Stage, MergeGoes, put

-----------------------------------------------------------------------------
(* A statement ends: its rows are those of the transaction.                *)

LEMMA StatementLeaves ==
  ASSUME NEW rows \in RowMaps, NEW p \in Paths
  PROVE  /\ \A row \in Row : PutOver(rows, PutsOf(PutOf(p, row), rows)) = Upserted(rows, p, row)
         /\ \A content \in Contents :
              /\ PutOver(rows, PutsOf(WriteOf(p, content), rows)) = Upserted(rows, p, File(content, "0644"))
              /\ PutOver(rows, PutsOf(RewriteOf(p, content), rows)) = Upserted(rows, p, File(content, "0644"))
<1>1. ASSUME NEW row \in Row
      PROVE  PutOver(rows, PutsOf(PutOf(p, row), rows)) = Upserted(rows, p, row)
  <2> DEFINE put == [NoRows EXCEPT ![p] = row]
  <2>0. PutOf(p, row) \in RaceSteps
    BY StepsTyped
  <2>1. PutOf(p, row).kind = "rows" /\ PutOf(p, row).rows = put
    BY DEF PutOf, Do
  <2> HIDE DEF put
  <2>2. PutsOf(PutOf(p, row), rows) = put
    BY <2>0, <2>1, PutsTyped
  <2>3. PutOver(rows, put) = Upserted(rows, p, row)
    BY PutOne DEF put
  <2>. QED
    BY <2>2, <2>3
<1>2. ASSUME NEW content \in Contents
      PROVE  /\ PutOver(rows, PutsOf(WriteOf(p, content), rows)) = Upserted(rows, p, File(content, "0644"))
             /\ PutOver(rows, PutsOf(RewriteOf(p, content), rows)) = Upserted(rows, p, File(content, "0644"))
  <2> DEFINE row == File(content, "0644")
             put == [NoRows EXCEPT ![p] = row]
  <2>0. row \in Row
    BY KindsOfRows
  <2>1. WriteOf(p, content) \in RaceSteps /\ RewriteOf(p, content) \in RaceSteps
    BY StepsTyped
  <2>4. WriteOf(p, content).kind = "write" /\ WriteOf(p, content).rows = put
    BY DEF WriteOf, Do
  <2>5. RewriteOf(p, content).kind = "rewrite" /\ RewriteOf(p, content).rows = put
    BY RewriteIs
  <2>3. PutOver(rows, put) = Upserted(rows, p, row)
    BY <2>0, PutOne
  <2> HIDE DEF put
  <2>2. PutsOf(WriteOf(p, content), rows) = put /\ PutsOf(RewriteOf(p, content), rows) = put
    BY <2>1, <2>4, <2>5, PutsTyped
  <2>. QED
    BY <2>2, <2>3
<1>. QED
  BY <1>1, <1>2

\* Content written where the tree has room for it.
LEMMA WriteKeeps ==
  ASSUME NEW rows \in RowMaps, NEW p \in Paths, NEW content \in Contents,
         WriteStatus(rows, p) = "ok", TreeShaped(rows)
  PROVE  TreeShaped(Upserted(rows, p, File(content, "0644")))
<1>1. ShowsDirectory(rows, Parent(p)) /\ ~ShowsDirectory(rows, p)
  BY StatusIs
<1>. QED
  BY <1>1, UpsertKeeps, KindsOfRows

LEMMA BumpWrite ==
  ASSUME NEW t \in Races, NEW u, NEW rows \in RowMaps, SameCall(t, u),
         t.op = "write", WriteGoes(t, rows), t.running, Runs(t, rows),
         u.todo = Tail(t.todo), NowOn(u, rows) = PutOver(NowOn(t, rows), t.puts)
  PROVE  Stage(u, rows) \/ Finished(u, rows)
<1> DEFINE p == t.path
           up == Parent(p)
           made == WithDirectories(rows, up)
           row == File(t.piece, "0644")
<1>1. p \in Paths /\ up \in Paths /\ t.piece \in Contents
  BY ParentInPaths DEF Races
<1>2. u.op = "write" /\ u.path = p /\ u.piece = t.piece
  BY DEF SameCall
<1>3. made \in RowMaps
  BY <1>1, PutDirectories
<1>4. CASE t.todo = <<WriteOf(p, t.piece)>> /\ NowOn(t, rows) = rows
  <2>1. Head(t.todo) = WriteOf(p, t.piece) /\ Tail(t.todo) = <<>>
    BY <1>4
  <2>2. WriteStatus(rows, p) = "ok" /\ t.puts = PutsOf(WriteOf(p, t.piece), rows)
    BY <1>4, <2>1, StepsAre DEF Runs
  <2>3. NowOn(u, rows) = Upserted(rows, p, row)
    BY <1>1, <1>4, <2>2, StatementLeaves
  <2>4. Shows(rows, up)
    BY <2>2, StatusIs DEF ShowsDirectory
  <2>5. AloneOn(u, rows) = Upserted(rows, p, row)
    BY <1>2, <2>4 DEF AloneOn
  <2>6. Kept(rows, NowOn(u, rows))
    BY <1>1, <2>2, <2>3, WriteKeeps DEF Kept
  <2>. QED
    BY <2>1, <2>3, <2>5, <2>6 DEF Finished
<1>5. CASE /\ ~Shows(rows, up) /\ up # Root
           /\ t.todo = <<MkdirOf(up), RewriteOf(p, t.piece)>> /\ NowOn(t, rows) = rows
  <2>1. Head(t.todo) = MkdirOf(up) /\ Tail(t.todo) = <<RewriteOf(p, t.piece)>>
    BY <1>5
  <2>2. t.puts = PutsOf(MkdirOf(up), rows)
    BY <1>5, <2>1 DEF Runs
  <2>3. NowOn(u, rows) = made
    BY <1>1, <1>5, <2>2, PutDirectories
  <2>. QED
    BY <1>2, <1>5, <2>1, <2>3 DEF Stage, WriteGoes
<1>6. CASE /\ ~Shows(rows, up) /\ up # Root
           /\ t.todo = <<RewriteOf(p, t.piece)>> /\ NowOn(t, rows) = made
  <2> HIDE DEF made
  <2>1. Head(t.todo) = RewriteOf(p, t.piece) /\ Tail(t.todo) = <<>>
    BY <1>6
  <2>2. WriteStatus(made, p) = "ok" /\ t.puts = PutsOf(RewriteOf(p, t.piece), made)
    BY <1>6, <2>1, RewriteIs DEF Runs
  <2>3. NowOn(u, rows) = Upserted(made, p, row)
    BY <1>1, <1>3, <1>6, <2>2, StatementLeaves
  <2>4. AloneOn(u, rows) = Upserted(made, p, row)
    BY <1>2, <1>6 DEF AloneOn, made
  <2>5. Kept(rows, made)
    BY <1>1, DirectoriesKeep DEF Kept, made
  <2>6. Kept(rows, NowOn(u, rows))
    BY <1>1, <1>3, <2>2, <2>3, <2>5, WriteKeeps DEF Kept
  <2>. QED
    BY <2>1, <2>3, <2>4, <2>6 DEF Finished
<1>. QED
  BY <1>4, <1>5, <1>6 DEF WriteGoes

LEMMA BumpAppend ==
  ASSUME NEW t \in Races, NEW u, NEW rows \in RowMaps, SameCall(t, u),
         t.op = "append", AppendGoes(t, rows), t.running, Runs(t, rows),
         u.todo = Tail(t.todo), NowOn(u, rows) = PutOver(NowOn(t, rows), t.puts)
  PROVE  Stage(u, rows) \/ Finished(u, rows)
<1> DEFINE p == t.path
           up == Parent(p)
           depth == Len(up)
           made == WithDirectories(rows, up)
<1>1. p \in Paths /\ up \in Paths /\ t.piece \in Contents /\ depth \in Nat
  BY ParentInPaths, UpEnds DEF Races
<1>2. u.op = "append" /\ u.path = p /\ u.piece = t.piece
  BY DEF SameCall
<1>3. Head(t.todo).kind \in {"rows", "write"}
  <2>1. Stage(t, rows) /\ IsStatement(Head(t.todo))
    BY DEF Stage, Runs
  <2>2. Head(t.todo).kind \in {"read", "ensure", "rows", "decide", "write"}
    BY <2>1, StageKinds
  <2>. QED
    BY <2>1, <2>2 DEF IsStatement
<1>4. CASE Head(t.todo).kind = "rows"
  <2>1. PICK n \in 1..depth : /\ NowOn(t, rows) = MadeUpTo(p, n - 1, rows)
                              /\ Head(t.todo) = PutOf(Up(p, n), Directory("0755"))
                              /\ Tail(t.todo) = LookFrom(p, n + 1)
                              /\ ~Shows(rows, Up(p, n))
    BY <1>4, AppendStages
  <2> DEFINE before == MadeUpTo(p, n - 1, rows)
  <2>2. before \in RowMaps /\ Up(p, n) \in Paths /\ Directory("0755") \in Row
        /\ MadeUpTo(p, n, rows) = Upserted(before, Up(p, n), Directory("0755"))
    BY <1>1, <2>1, NextDirectory, UpIs, KindsOfRows DEF MadeUpTo, ShowsDirectory
  <2>3. NowOn(u, rows) = MadeUpTo(p, n, rows)
    BY <2>1, <2>2, StatementLeaves DEF Runs
  <2>4. n + 1 \in 1..(depth + 1) /\ (n + 1) - 1 = n
    BY <1>1
  <2>. QED
    BY <1>2, <2>1, <2>3, <2>4 DEF Stage, AppendGoes
<1>5. CASE Head(t.todo).kind = "write"
  <2> DEFINE content == Appended(t, made)
  <2>1. NowOn(t, rows) = made /\ content \in Contents /\ t.todo = <<WriteOf(p, content)>>
    BY <1>5, AppendStages
  <2>2. made \in RowMaps
    BY <1>1, PutDirectories
  <2> HIDE DEF made, content
  <2>3. Head(t.todo) = WriteOf(p, content) /\ Tail(t.todo) = <<>>
    BY <2>1
  <2>4. WriteStatus(made, p) = "ok" /\ t.puts = PutsOf(WriteOf(p, content), made)
    BY <2>1, <2>3, StepsAre DEF Runs
  <2>5. NowOn(u, rows) = Upserted(made, p, File(content, "0644"))
    BY <1>1, <2>1, <2>2, <2>4, StatementLeaves
  <2>6. AloneOn(u, rows) = Upserted(made, p, File(content, "0644"))
    BY <1>2 DEF AloneOn, made, content, Appended
  <2>7. Kept(rows, made)
    BY <1>1, DirectoriesKeep DEF Kept, made
  <2>8. Kept(rows, NowOn(u, rows))
    BY <1>1, <2>1, <2>2, <2>4, <2>5, <2>7, WriteKeeps DEF Kept
  <2>. QED
    BY <2>3, <2>5, <2>6, <2>8 DEF Finished
<1>. QED
  BY <1>3, <1>4, <1>5

LEMMA BumpRm ==
  ASSUME NEW t \in Races, NEW u, NEW rows \in RowMaps, SameCall(t, u),
         t.op = "rm", RmGoes(t, rows), t.running, Runs(t, rows),
         u.todo = Tail(t.todo), NowOn(u, rows) = PutOver(NowOn(t, rows), t.puts)
  PROVE  Finished(u, rows)
<1> DEFINE p == t.path
<1>1. p \in Paths /\ NowOn(t, rows) = rows
  BY RmStages DEF Races
<1>2. u.op = "rm" /\ u.path = p
  BY DEF SameCall
<1>3. Head(t.todo).kind \in {"rows", "subtree"}
  <2>1. Stage(t, rows) /\ IsStatement(Head(t.todo))
    BY DEF Stage, Runs
  <2>2. Head(t.todo).kind \in {"read", "decide", "subtree", "rows"}
    BY <2>1, StageKinds
  <2>. QED
    BY <2>1, <2>2 DEF IsStatement
<1>4. CASE Head(t.todo).kind = "subtree"
  <2>1. t.todo = <<RemoveOf(p)>> /\ ShowsDirectory(rows, p)
    BY <1>4, RmStages
  <2>2. Head(t.todo) = RemoveOf(p) /\ Tail(t.todo) = <<>>
    BY <2>1
  <2>3. NowOn(u, rows) = TombstonedSubtree(rows, p)
    BY <1>1, <2>2, PutTombstones DEF Runs
  <2>4. AloneOn(u, rows) = TombstonedSubtree(rows, p)
    BY <1>2, <2>1 DEF AloneOn
  <2>5. Kept(rows, NowOn(u, rows))
    BY <1>1, <2>3, RemovalKeeps DEF Kept
  <2>. QED
    BY <2>2, <2>3, <2>4, <2>5 DEF Finished
<1>5. CASE Head(t.todo).kind = "rows"
  <2>1. t.todo = <<PutOf(p, Tombstone)>> /\ ~ShowsDirectory(rows, p)
    BY <1>5, RmStages DEF ShowsOther, ShowsDirectory
  <2>2. Head(t.todo) = PutOf(p, Tombstone) /\ Tail(t.todo) = <<>>
    BY <2>1
  <2>3. NowOn(u, rows) = Upserted(rows, p, Tombstone)
    BY <1>1, <2>2, StatementLeaves, KindsOfRows DEF Runs
  <2>4. AloneOn(u, rows) = Upserted(rows, p, Tombstone)
    BY <1>2, <2>1 DEF AloneOn
  <2>5. Kept(rows, NowOn(u, rows))
    BY <1>1, <2>1, <2>3, UpsertKeeps, KindsOfRows DEF Kept
  <2>. QED
    BY <2>2, <2>3, <2>4, <2>5 DEF Finished
<1>. QED
  BY <1>3, <1>4, <1>5

LEMMA BumpMv ==
  ASSUME NEW t \in Races, NEW u, NEW rows \in RowMaps, SameCall(t, u),
         t.op = "mv", MvGoes(t, rows), t.running, Runs(t, rows),
         u.todo = Tail(t.todo), NowOn(u, rows) = PutOver(NowOn(t, rows), t.puts)
  PROVE  Stage(u, rows) \/ Finished(u, rows)
<1> DEFINE p == t.path
           dest == t.dest
           row == Entry(rows, p)
           one == PutOf(dest, Tombstone)
           two == PutOf(dest, row)
           three == PutOf(p, Tombstone)
<1>1. p \in Paths /\ dest \in Paths /\ p # dest /\ Parent(dest) \in Paths
  BY ParentInPaths DEF Races, MvGoes
<1>2. u.op = "mv" /\ u.path = p /\ u.dest = dest
  BY DEF SameCall
<1>3. MvWrites(t, rows)
  <2>1. Stage(t, rows) /\ IsStatement(Head(t.todo))
    BY DEF Stage, Runs
  <2>2. Head(t.todo).kind \in {"read", "decide", "rows"}
    BY <2>1, StageKinds
  <2>3. Head(t.todo).kind = "rows"
    BY <2>1, <2>2 DEF IsStatement
  <2>. QED
    BY <2>3, MvStages
<1>4. /\ ShowsOther(rows, p) /\ ShowsDirectory(rows, Parent(dest)) /\ ~ShowsDirectory(rows, dest)
      /\ \/ t.todo = <<one, two, three>> /\ NowOn(t, rows) = rows
         \/ t.todo = <<two, three>> /\ NowOn(t, rows) \in {rows, Upserted(rows, dest, Tombstone)}
         \/ t.todo = <<three>> /\ NowOn(t, rows) = Upserted(rows, dest, row)
  BY <1>3 DEF MvWrites
<1>5. row \in Row /\ Tombstone \in Row
  BY <1>1, <1>4, EntryIsRow, KindsOfRows DEF ShowsOther, Shows
<1>6. ASSUME NEW now \in RowMaps, NEW q \in Paths, NEW put \in Row,
             NowOn(t, rows) = now, Head(t.todo) = PutOf(q, put)
      PROVE  NowOn(u, rows) = Upserted(now, q, put)
  BY <1>6, StatementLeaves DEF Runs
<1>7. /\ Upserted(rows, dest, Tombstone) \in RowMaps /\ Upserted(rows, dest, row) \in RowMaps
      /\ Upserted(Upserted(rows, dest, Tombstone), dest, row) = Upserted(rows, dest, row)
  <2>1. Upserted(rows, dest, Tombstone) \in RowMaps /\ Upserted(rows, dest, row) \in RowMaps
    BY <1>1, <1>5, PutOne
  <2> HIDE DEF row
  <2>2. Upserted(Upserted(rows, dest, Tombstone), dest, row) = Upserted(rows, dest, row)
    BY <1>1 DEF Upserted, RowMaps
  <2>. QED
    BY <2>1, <2>2 DEF row
<1> HIDE DEF one, two, three
<1>8. CASE t.todo = <<one, two, three>> /\ NowOn(t, rows) = rows
  <2>1. Head(t.todo) = one /\ u.todo = <<two, three>>
    BY <1>8
  <2>2. NowOn(u, rows) = Upserted(rows, dest, Tombstone)
    BY <1>1, <1>5, <1>6, <1>8, <2>1 DEF one
  <2>. QED
    BY <1>1, <1>2, <1>4, <2>1, <2>2 DEF Stage, MvGoes, MvWrites, two, three
<1>9. CASE t.todo = <<two, three>> /\ NowOn(t, rows) \in {rows, Upserted(rows, dest, Tombstone)}
  <2>1. Head(t.todo) = two /\ u.todo = <<three>>
    BY <1>9
  <2>2. NowOn(u, rows) = Upserted(rows, dest, row)
    <3>1. CASE NowOn(t, rows) = rows
      BY <1>1, <1>5, <1>6, <2>1, <3>1 DEF two
    <3>2. CASE NowOn(t, rows) = Upserted(rows, dest, Tombstone)
      BY <1>1, <1>5, <1>6, <1>7, <2>1, <3>2 DEF two
    <3>. QED
      BY <1>9, <3>1, <3>2
  <2>. QED
    BY <1>1, <1>2, <1>4, <2>1, <2>2 DEF Stage, MvGoes, MvWrites, three
<1>10. CASE t.todo = <<three>> /\ NowOn(t, rows) = Upserted(rows, dest, row)
  <2> DEFINE mid == Upserted(rows, dest, row)
  <2>1. Head(t.todo) = three /\ u.todo = <<>>
    BY <1>10
  <2>2. NowOn(u, rows) = Upserted(mid, p, Tombstone) /\ mid \in RowMaps
    BY <1>1, <1>5, <1>6, <1>7, <1>10, <2>1 DEF three
  <2>3. AloneOn(u, rows) = Upserted(mid, p, Tombstone)
    BY <1>2 DEF AloneOn, Upserted
  <2>4. ~ShowsDirectory(mid, p)
    <3>1. Entry(mid, p) = Entry(rows, p)
      BY <1>1, <1>5, EntryAfterUpsert
    <3>. QED
      BY <1>4, <3>1 DEF ShowsDirectory, ShowsOther, Shows
  <2>5. Kept(rows, mid)
    BY <1>1, <1>4, <1>5, UpsertKeeps DEF Kept
  <2> HIDE DEF mid
  <2>6. Kept(rows, NowOn(u, rows))
    BY <1>1, <1>5, <2>2, <2>4, <2>5, UpsertKeeps DEF Kept
  <2>. QED
    BY <2>1, <2>2, <2>3, <2>6 DEF Finished
<1>. QED
  BY <1>4, <1>8, <1>9, <1>10

LEMMA BumpMerge ==
  ASSUME NEW t \in Races, NEW u, NEW rows \in RowMaps, SameCall(t, u),
         t.op = "merge", MergeGoes(t, rows), t.running, Runs(t, rows),
         u.todo = Tail(t.todo), NowOn(u, rows) = PutOver(NowOn(t, rows), t.puts)
  PROVE  Finished(u, rows)
<1> DEFINE merged == MergeSeen(View(rows))
           puts == PutsOfWrites(merged.writes)
<1>1. Head(t.todo).kind = "rows"
  <2>1. Stage(t, rows) /\ IsStatement(Head(t.todo))
    BY DEF Stage, Runs
  <2>2. Head(t.todo).kind \in {"read", "decide", "lock", "rows"}
    BY <2>1, StageKinds
  <2>. QED
    BY <2>1, <2>2 DEF IsStatement
<1>2. NowOn(t, rows) = rows /\ merged.status = "ok" /\ t.todo = <<PutAllOf(puts)>>
  BY <1>1, MergeStages
<1>3. View(rows) \in RowMaps
  BY EntryIsRow DEF View, RowMaps
<1>4. puts \in RowMaps /\ PutOver(rows, puts) = Merged(rows, merged)
  BY <1>2, <1>3, PutMerged
<1>5. u.op = "merge" /\ AloneOn(u, rows) = Merged(rows, merged)
  BY DEF AloneOn, SameCall
<1> HIDE DEF puts, merged
<1>6. Head(t.todo) = PutAllOf(puts) /\ u.todo = <<>>
  BY <1>2
<1>7. PutAllOf(puts) \in RaceSteps /\ PutAllOf(puts).kind = "rows" /\ PutAllOf(puts).rows = puts
  BY <1>4, StepsTyped, StepsAre
<1>8. t.puts = puts
  BY <1>2, <1>6, <1>7, PutsTyped DEF Runs
<1>. QED
  BY <1>2, <1>4, <1>5, <1>6, <1>8 DEF Finished

-----------------------------------------------------------------------------
(* The invariant, step by step.                                            *)

\* A transaction is typed, whatever others commit; a running one has its
\* statement still to do.
IsRace(t) ==
  /\ t \in Races
  /\ t.op = "none" => t = NoRace
  /\ t.op = "write" =>
       \A i \in 1..Len(t.todo) : t.todo[i].kind \in {"write", "mkdir", "rewrite"}
  /\ t.running => t.todo # <<>> /\ IsStatement(Head(t.todo))

RaceOK(t, rows) == IsRace(t) /\ (t.op # "none" /\ ~t.stale => GoesAlone(t, rows))

RaceInv ==
  /\ committed \in RowMaps
  /\ race \in [Racers -> Races]
  /\ \A c \in Racers : RaceOK(race[c], committed)

LEMMA NoRaceTyped == NoRace \in Races /\ \A rows : RaceOK(NoRace, rows)
<1>1. Root \in Paths /\ NoRows \in RowMaps /\ <<>> \in Contents
  <2>1. MaxFileSize \in Nat
    BY SizeAssumption
  <2>2. <<>> \in [1..0 -> Tokens] /\ 0 \in 0..MaxFileSize
    BY <2>1
  <2>. QED
    BY <2>2, RootIsAbove, NoRowsTyped DEF Contents
<1>2. NoRace \in Races
  BY <1>1 DEF NoRace, Races
<1>. QED
  BY <1>2 DEF RaceOK, IsRace, NoRace

\* The step to do, and what follows it.
LEMMA NextStep ==
  ASSUME NEW t, IsRace(t), t.todo # <<>>
  PROVE  /\ Head(t.todo) \in RaceSteps /\ Tail(t.todo) \in Seq(RaceSteps)
         /\ t.op # "none"
         /\ t.op = "write" =>
              /\ Head(t.todo).kind \in {"write", "mkdir", "rewrite"}
              /\ \A i \in 1..Len(Tail(t.todo)) : Tail(t.todo)[i].kind \in {"write", "mkdir", "rewrite"}
<1>1. t.todo \in Seq(RaceSteps)
  BY DEF IsRace, Races
<1>2. Head(t.todo) = t.todo[1] /\ 1 \in 1..Len(t.todo)
  BY <1>1
<1>3. \A i \in 1..Len(Tail(t.todo)) : Tail(t.todo)[i] = t.todo[i + 1] /\ i + 1 \in 1..Len(t.todo)
  BY <1>1
<1>4. t.op # "none"
  BY DEF IsRace, NoRace
<1>. QED
  BY <1>1, <1>2, <1>3, <1>4 DEF IsRace

\* A transaction goes on and no row is committed.
LEMMA OneGoes ==
  ASSUME RaceInv, NEW c \in Racers, NEW u, RaceOK(u, committed), Becomes(c, u),
         committed' = committed
  PROVE  RaceInv'
<1>1. race' = [race EXCEPT ![c] = u] /\ u \in Races
  BY DEF Becomes, RaceOK, IsRace
<1>2. race' \in [Racers -> Races] /\ \A d \in Racers : race'[d] = IF d = c THEN u ELSE race[d]
  BY <1>1 DEF RaceInv
<1>3. \A d \in Racers : RaceOK(race'[d], committed)
  BY <1>2 DEF RaceInv
<1>. QED
  BY <1>2, <1>3 DEF RaceInv

LEMMA AbortOK ==
  ASSUME RaceInv, NEW c \in Racers, Abort(c)
  PROVE  RaceInv'
<1>1. Becomes(c, NoRace) /\ committed' = committed
  BY DEF Abort
<1>. QED
  BY <1>1, NoRaceTyped, OneGoes

\* A stage is not over, and one that is over has nothing to do.
LEMMA StageOrEnd ==
  ASSUME NEW t, NEW rows \in RowMaps, RaceOK(t, rows), t.op # "none", ~t.stale
  PROVE  /\ t.todo # <<>> => Stage(t, rows) /\ (t.running => Runs(t, rows))
         /\ t.todo = <<>> => Finished(t, rows)
<1>1. t \in Races /\ GoesAlone(t, rows)
  BY DEF RaceOK, IsRace
<1>. QED
  BY <1>1, StageKinds DEF GoesAlone, Finished

LEMMA OpenOK ==
  ASSUME RaceInv, NEW c \in Racers, NEW op, NEW p \in Paths, NEW dest \in Paths,
         NEW piece \in Contents, NEW todo \in Seq(RaceSteps),
         op \in {"write", "append", "rm", "mv", "merge"}, Open(c, op, p, dest, piece, todo),
         op = "write" => \A i \in 1..Len(todo) : todo[i].kind \in {"write", "mkdir", "rewrite"},
         \A t \in Races : /\ t.op = op /\ t.path = p /\ t.dest = dest /\ t.piece = piece
                          /\ t.todo = todo /\ NowOn(t, committed) = committed
                          => Stage(t, committed)
  PROVE  RaceInv'
<1> DEFINE u == [NoRace EXCEPT !.op = op, !.path = p, !.dest = dest, !.piece = piece, !.todo = todo]
<1>1. race' = [race EXCEPT ![c] = u] /\ committed' = committed
  BY DEF Open
<1>2. /\ u.op = op /\ u.path = p /\ u.dest = dest /\ u.piece = piece /\ u.todo = todo
      /\ u.running = FALSE /\ u.mine = NoRows
  BY DEF NoRace
<1>3. u \in Races
  BY NoRaceTyped DEF Races
<1> HIDE DEF u
<1>4. NowOn(u, committed) = committed
  BY <1>2, PutNothing DEF NowOn, RaceInv
<1>5. Stage(u, committed)
  BY <1>2, <1>3, <1>4
<1>6. IsRace(u)
  BY <1>2, <1>3 DEF IsRace
<1>7. RaceOK(u, committed)
  BY <1>2, <1>5, <1>6 DEF RaceOK, GoesAlone
<1>8. Becomes(c, u)
  BY <1>1 DEF Becomes
<1>. QED
  BY <1>1, <1>7, <1>8, OneGoes

LEMMA OpensOK ==
  ASSUME RaceInv, NEW c \in Racers, Opens(c)
  PROVE  RaceInv'
<1>0. /\ Touched \subseteq Paths /\ Root \in Paths /\ <<>> \in Contents
      /\ \A x \in Tokens : <<x>> \in Contents
  BY RaceAssumption, SizeAssumption, RootIsAbove, NoRaceTyped, Joined DEF Races, NoRace
<1>1. ASSUME NEW p \in Touched, NEW x \in Tokens, BeginWrite(c, p, x) PROVE RaceInv'
  <2> DEFINE todo == <<WriteOf(p, <<x>>)>>
  <2>1. p \in Paths /\ <<x>> \in Contents /\ WriteOf(p, <<x>>) \in RaceSteps
        /\ WriteOf(p, <<x>>).kind = "write"
    BY <1>0, StepsTyped, StepsAre
  <2>2. todo \in Seq(RaceSteps) /\ \A i \in 1..Len(todo) : todo[i].kind \in {"write", "mkdir", "rewrite"}
    BY <2>1
  <2> HIDE DEF todo
  <2>3. Open(c, "write", p, Root, <<x>>, todo)
    BY <1>1 DEF BeginWrite, todo
  <2>4. ASSUME NEW t \in Races, t.op = "write", t.path = p, t.piece = <<x>>,
               t.todo = todo, NowOn(t, committed) = committed
        PROVE  Stage(t, committed)
    BY <2>4 DEF Stage, WriteGoes, todo
  <2>. QED
    BY <1>0, <2>1, <2>2, <2>3, <2>4, OpenOK
<1>2. ASSUME NEW p \in Touched, NEW x \in Tokens, BeginAppend(c, p, x) PROVE RaceInv'
  <2> DEFINE todo == LookFrom(p, 1)
  <2>1. p \in Paths /\ <<x>> \in Contents
    BY <1>0
  <2>2. 1 \in 1..(Len(Parent(p)) + 1)
    BY <2>1, UpEnds
  <2>3. todo \in Seq(RaceSteps)
    BY <2>1, <2>2, LookFromIs
  <2>4. MadeUpTo(p, 1 - 1, committed) = committed
    BY <2>1, UpEnds, NoDirectories DEF MadeUpTo, RaceInv
  <2> HIDE DEF todo
  <2>5. Open(c, "append", p, Root, <<x>>, todo)
    BY <1>2 DEF BeginAppend, todo
  <2>6. ASSUME NEW t \in Races, t.op = "append", t.path = p, t.todo = todo,
               NowOn(t, committed) = committed
        PROVE  Stage(t, committed)
    BY <2>2, <2>4, <2>6 DEF Stage, AppendGoes, todo
  <2>. QED
    BY <1>0, <2>1, <2>3, <2>5, <2>6, OpenOK
<1>3. ASSUME NEW p \in Touched, BeginRm(c, p) PROVE RaceInv'
  <2> DEFINE todo == <<ReadOf({p}), DecideOf>>
  <2>1. p \in Paths /\ ReadOf({p}) \in RaceSteps /\ DecideOf \in RaceSteps
    BY <1>0, StepsTyped
  <2>2. todo \in Seq(RaceSteps)
    BY <2>1
  <2> HIDE DEF todo
  <2>3. Open(c, "rm", p, Root, <<>>, todo)
    BY <1>3 DEF BeginRm, todo
  <2>4. ASSUME NEW t \in Races, t.op = "rm", t.path = p, t.todo = todo,
               NowOn(t, committed) = committed
        PROVE  Stage(t, committed)
    BY <2>4 DEF Stage, RmGoes, todo
  <2>. QED
    BY <1>0, <2>1, <2>2, <2>3, <2>4, OpenOK
<1>4. ASSUME NEW p \in Touched, NEW dest \in Touched, p # dest, BeginMv(c, p, dest) PROVE RaceInv'
  <2> DEFINE todo == <<ReadOf({p}), ReadOf({Parent(dest)}), ReadOf({dest}), DecideOf>>
  <2>1. p \in Paths /\ dest \in Paths /\ Parent(dest) \in Paths
    BY <1>0, ParentInPaths
  <2>2. ReadOf({p}) \in RaceSteps /\ ReadOf({dest}) \in RaceSteps /\ ReadOf({Parent(dest)}) \in RaceSteps
        /\ DecideOf \in RaceSteps
    BY <2>1, StepsTyped
  <2>3. todo \in Seq(RaceSteps)
    BY <2>2
  <2> HIDE DEF todo
  <2>4. Open(c, "mv", p, dest, <<>>, todo)
    BY <1>4 DEF BeginMv, todo
  <2>5. ASSUME NEW t \in Races, t.op = "mv", t.path = p, t.dest = dest, t.todo = todo,
               NowOn(t, committed) = committed
        PROVE  Stage(t, committed)
    BY <1>4, <2>5 DEF Stage, MvGoes, MvReads, todo
  <2>. QED
    BY <1>0, <2>1, <2>3, <2>4, <2>5, OpenOK
<1>5. ASSUME BeginMerge(c) PROVE RaceInv'
  <2> DEFINE todo == <<ReadOf(Paths), DecideOf>>
  <2>1. ReadOf(Paths) \in RaceSteps /\ DecideOf \in RaceSteps
    BY StepsTyped
  <2>2. todo \in Seq(RaceSteps)
    BY <2>1
  <2> HIDE DEF todo
  <2>3. Open(c, "merge", Root, Root, <<>>, todo)
    BY <1>5 DEF BeginMerge, todo
  <2>4. ASSUME NEW t \in Races, t.op = "merge", t.todo = todo, NowOn(t, committed) = committed
        PROVE  Stage(t, committed)
    BY <2>4 DEF Stage, MergeGoes, todo
  <2>. QED
    BY <1>0, <2>2, <2>3, <2>4, OpenOK
<1>. QED
  BY <1>1, <1>2, <1>3, <1>4, <1>5 DEF Opens

\* What a transaction sees.
LEMMA CurrentIs ==
  ASSUME RaceInv, NEW c \in Racers
  PROVE  /\ Current(c) = NowOn(race[c], committed) /\ Current(c) \in RowMaps
         /\ race[c] \in Races /\ IsRace(race[c]) /\ RaceOK(race[c], committed)
<1>1. race[c] \in Races /\ RaceOK(race[c], committed) /\ committed \in RowMaps
  BY DEF RaceInv
<1>2. Current(c) = NowOn(race[c], committed)
  BY DEF Current, NowOn
<1>. QED
  BY <1>1, <1>2, NowTyped DEF RaceOK

LEMMA ReadOK ==
  ASSUME RaceInv, NEW c \in Racers, Read(c)
  PROVE  RaceInv'
<1> DEFINE t == race[c]
           seen == [p \in Paths |-> IF p \in StepOf(c).paths THEN Entry(Current(c), p)
                                    ELSE t.seen[p]]
           u == [t EXCEPT !.todo = Tail(t.todo), !.seen = seen]
<1>1. Becomes(c, u) /\ committed' = committed /\ t.todo # <<>> /\ Head(t.todo).kind = "read"
  BY DEF Read, GoesOn, StepOf
<1>2. t \in Races /\ IsRace(t) /\ RaceOK(t, committed) /\ committed \in RowMaps
      /\ Current(c) = NowOn(t, committed) /\ Current(c) \in RowMaps
  BY CurrentIs DEF RaceInv
<1>3. seen \in RowMaps /\ seen = SeenAfter(t, committed)
  <2>1. \A p \in Paths : Entry(Current(c), p) \in Row \cup {Absent}
    BY <1>2, EntryIsRow
  <2>2. t.seen \in RowMaps
    BY <1>2 DEF Races
  <2>. QED
    BY <1>2, <2>1, <2>2 DEF RowMaps, SeenAfter, StepOf
<1>4. Tail(t.todo) \in Seq(RaceSteps) /\ t.op \notin {"none", "write"}
  BY <1>1, <1>2, NextStep
<1> HIDE DEF seen
<1>5. /\ u.op = t.op /\ u.path = t.path /\ u.dest = t.dest /\ u.piece = t.piece
      /\ u.todo = Tail(t.todo) /\ u.seen = seen /\ u.mine = t.mine
      /\ u.running = t.running /\ u.stale = t.stale /\ u \in Races
  BY <1>2, <1>3, <1>4 DEF Races
<1> HIDE DEF u
<1>6. ~t.running
  BY <1>1, <1>2 DEF IsRace, IsStatement
<1>7. IsRace(u)
  BY <1>4, <1>5, <1>6 DEF IsRace
<1>8. ASSUME ~t.stale PROVE GoesAlone(u, committed)
  <2>1. Stage(t, committed)
    BY <1>1, <1>2, <1>4, <1>8, StageOrEnd
  <2>2. Stage(u, committed)
    BY <1>1, <1>2, <1>3, <1>5, <2>1, ReadGoes DEF SameCall
  <2>. QED
    BY <1>5, <1>6, <2>2 DEF GoesAlone
<1>9. RaceOK(u, committed)
  BY <1>5, <1>7, <1>8 DEF RaceOK
<1>. QED
  BY <1>1, <1>9, OneGoes

LEMMA DecisionsTyped ==
  ASSUME NEW t \in Races, ~Refused(t), t.op \in {"append", "rm", "mv", "merge"}
  PROVE  Decisions(t) \in Seq(RaceSteps)
<1>0. /\ t.path \in Paths /\ t.dest \in Paths /\ t.piece \in Contents /\ t.seen \in RowMaps
      /\ \A p \in Paths : t.seen[p] \in Row \cup {Absent}
  BY DEF Races, RowMaps
<1> DEFINE found == t.seen[t.path]
<1>1. CASE t.op = "append"
  <2> DEFINE content == IF found # Absent /\ found.type = "file" THEN found.data \o t.piece
                        ELSE t.piece
  <2>1. found # Absent => ~(Len(found.data \o t.piece) > MaxFileSize)
    BY <1>1 DEF Refused
  <2>2. content \in Contents
    <3>1. CASE found # Absent /\ found.type = "file"
      <4>1. found.data \in Contents
        BY <1>0, <3>1, KindsOfRows
      <4>. QED
        BY <1>0, <2>1, <3>1, <4>1, Joined
    <3>2. CASE ~(found # Absent /\ found.type = "file")
      BY <1>0, <3>2
    <3>. QED
      BY <3>1, <3>2
  <2> HIDE DEF content
  <2>3. WriteOf(t.path, content) \in RaceSteps
    BY <1>0, <2>2, StepsTyped
  <2>4. Decisions(t) = <<WriteOf(t.path, content)>>
    BY <1>1 DEF Decisions, content
  <2>. QED
    BY <2>3, <2>4
<1>2. CASE t.op = "rm"
  <2>1. RemoveOf(t.path) \in RaceSteps /\ PutOf(t.path, Tombstone) \in RaceSteps
    BY <1>0, StepsTyped, KindsOfRows
  <2>2. Decisions(t) = IF found.type = "directory" THEN <<RemoveOf(t.path)>>
                       ELSE <<PutOf(t.path, Tombstone)>>
    BY <1>2 DEF Decisions
  <2>. QED
    BY <2>1, <2>2
<1>3. CASE t.op = "mv"
  <2> DEFINE one == PutOf(t.dest, Tombstone)
             two == PutOf(t.dest, found)
             three == PutOf(t.path, Tombstone)
  <2>1. one \in RaceSteps /\ two \in RaceSteps /\ three \in RaceSteps
    BY <1>0, StepsTyped, KindsOfRows
  <2>2. Decisions(t) = (IF t.seen[t.dest] # Absent THEN <<one>> ELSE <<>>) \o <<two, three>>
    BY <1>3 DEF Decisions, MvStatements
  <2> HIDE DEF one, two, three
  <2>3. <<one>> \o <<two, three>> = <<one, two, three>> /\ <<>> \o <<two, three>> = <<two, three>>
    BY <2>1, Concats, Zenon
  <2>4. Decisions(t) \in {<<one, two, three>>, <<two, three>>}
    BY <2>2, <2>3
  <2>5. <<one, two, three>> \in Seq(RaceSteps) /\ <<two, three>> \in Seq(RaceSteps)
    BY <2>1
  <2>. QED
    BY <2>4, <2>5
<1>4. CASE t.op = "merge"
  <2> DEFINE merged == MergeSeen(t.seen)
  <2>1. merged.status = "ok"
    BY <1>4 DEF Refused
  <2>2. PutsOfWrites(merged.writes) \in RowMaps
    BY <1>0, <2>1, PutMerged
  <2>3. LockVersionOf \in RaceSteps /\ PutAllOf(PutsOfWrites(merged.writes)) \in RaceSteps
    BY <2>2, StepsTyped
  <2>4. Decisions(t) = IF merged.writes = NoWrites THEN <<>>
                       ELSE <<LockVersionOf, PutAllOf(PutsOfWrites(merged.writes))>>
    BY <1>4 DEF Decisions, PutsOfWrites
  <2> HIDE DEF merged
  <2>. QED
    BY <2>3, <2>4
<1>. QED
  BY <1>1, <1>2, <1>3, <1>4

LEMMA DecideOK ==
  ASSUME RaceInv, NEW c \in Racers, Decide(c)
  PROVE  RaceInv'
<1> DEFINE t == race[c]
           u == [t EXCEPT !.todo = Decisions(t)]
<1>1. CASE Refused(t)
  BY <1>1, AbortOK DEF Decide
<1>2. CASE ~Refused(t)
  <2>1. Becomes(c, u) /\ committed' = committed /\ t.todo # <<>> /\ Head(t.todo).kind = "decide"
    BY <1>2 DEF Decide, GoesOn, StepOf
  <2>2. t \in Races /\ IsRace(t) /\ RaceOK(t, committed) /\ committed \in RowMaps
    BY CurrentIs DEF RaceInv
  <2>3. t.op \in {"append", "rm", "mv", "merge"}
    BY <2>1, <2>2, NextStep DEF Races
  <2>4. Decisions(t) \in Seq(RaceSteps)
    BY <1>2, <2>2, <2>3, DecisionsTyped
  <2>5. /\ u.op = t.op /\ u.path = t.path /\ u.dest = t.dest /\ u.piece = t.piece
        /\ u.todo = Decisions(t) /\ u.seen = t.seen /\ u.mine = t.mine
        /\ u.running = t.running /\ u.stale = t.stale /\ u \in Races
    BY <2>2, <2>4 DEF Races
  <2> HIDE DEF u
  <2>6. ~t.running
    BY <2>1, <2>2 DEF IsRace, IsStatement
  <2>7. IsRace(u)
    BY <2>3, <2>5, <2>6 DEF IsRace
  <2>8. ASSUME ~t.stale PROVE GoesAlone(u, committed)
    <3>1. Stage(t, committed)
      BY <2>1, <2>2, <2>3, <2>8, StageOrEnd
    <3>2. Stage(u, committed) \/ Finished(u, committed)
      BY <1>2, <2>1, <2>2, <2>5, <3>1, DecideGoes DEF SameCall
    <3>. QED
      BY <2>5, <2>6, <3>2 DEF GoesAlone
  <2>9. RaceOK(u, committed)
    BY <2>5, <2>7, <2>8 DEF RaceOK
  <2>. QED
    BY <2>1, <2>9, OneGoes
<1>. QED
  BY <1>1, <1>2

LEMMA LookFromTyped ==
  ASSUME NEW p \in Paths, NEW n \in Nat, n > 0
  PROVE  LookFrom(p, n) \in Seq(RaceSteps)
<1>1. Len(Parent(p)) \in Nat
  BY UpEnds
<1>2. CASE n <= Len(Parent(p))
  <2>1. n \in 1..(Len(Parent(p)) + 1)
    BY <1>1, <1>2
  <2>. QED
    BY <2>1, LookFromIs
<1>3. CASE ~(n <= Len(Parent(p)))
  <2>1. LookFrom(p, n) = <<ReadOf({p}), DecideOf>>
    BY <1>3 DEF LookFrom
  <2>2. ReadOf({p}) \in RaceSteps /\ DecideOf \in RaceSteps
    BY StepsTyped
  <2>. QED
    BY <2>1, <2>2
<1>. QED
  BY <1>2, <1>3

LEMMA EnsureOK ==
  ASSUME RaceInv, NEW c \in Racers, Ensure(c)
  PROVE  RaceInv'
<1> DEFINE t == race[c]
           q == StepOf(c).path
           todo == (IF t.seen[q] = Absent THEN <<PutOf(q, Directory("0755"))>> ELSE <<>>)
                   \o LookFrom(t.path, Len(q) + 1)
           u == [t EXCEPT !.todo = todo]
<1>1. CASE t.seen[q] # Absent /\ ~IsDirectory(t.seen, q)
  BY <1>1, AbortOK DEF Ensure
<1>2. CASE ~(t.seen[q] # Absent /\ ~IsDirectory(t.seen, q))
  <2>1. Becomes(c, u) /\ committed' = committed /\ t.todo # <<>> /\ Head(t.todo).kind = "ensure"
    BY <1>2 DEF Ensure, GoesOn, StepOf
  <2>2. t \in Races /\ IsRace(t) /\ RaceOK(t, committed) /\ committed \in RowMaps
    BY CurrentIs DEF RaceInv
  <2>3. t.op \notin {"none", "write"} /\ Head(t.todo) \in RaceSteps
    BY <2>1, <2>2, NextStep
  <2>4. q \in Paths /\ t.path \in Paths /\ q = Head(t.todo).path
    BY <2>2, <2>3 DEF RaceSteps, Races, StepOf
  <2>5. Len(q) + 1 \in Nat /\ Len(q) + 1 > 0
    BY <2>4, PathIsSeq
  <2>6. LookFrom(t.path, Len(q) + 1) \in Seq(RaceSteps)
        /\ PutOf(q, Directory("0755")) \in RaceSteps
    BY <2>4, <2>5, LookFromTyped, StepsTyped, KindsOfRows
  <2>7. todo \in Seq(RaceSteps)
    BY <2>6, Prepended
  <2> HIDE DEF todo
  <2>8. /\ u.op = t.op /\ u.path = t.path /\ u.dest = t.dest /\ u.piece = t.piece
        /\ u.todo = todo /\ u.seen = t.seen /\ u.mine = t.mine
        /\ u.running = t.running /\ u.stale = t.stale /\ u \in Races
    BY <2>2, <2>7 DEF Races
  <2> HIDE DEF u
  <2>9. ~t.running
    BY <2>1, <2>2 DEF IsRace, IsStatement
  <2>10. IsRace(u)
    BY <2>3, <2>8, <2>9 DEF IsRace
  <2>11. ASSUME ~t.stale PROVE GoesAlone(u, committed)
    <3>1. Stage(t, committed)
      BY <2>1, <2>2, <2>3, <2>11, StageOrEnd
    <3>2. u.todo = (IF t.seen[q] = Absent THEN <<PutOf(q, Directory("0755"))>> ELSE <<>>)
                   \o LookFrom(t.path, Len(q) + 1)
      BY <2>8 DEF todo
    <3>3. Stage(u, committed)
      BY <1>2, <2>1, <2>2, <2>4, <2>8, <3>1, <3>2, EnsureGoes DEF SameCall
    <3>. QED
      BY <2>8, <2>9, <3>3 DEF GoesAlone
  <2>12. RaceOK(u, committed)
    BY <2>8, <2>10, <2>11 DEF RaceOK
  <2>. QED
    BY <2>1, <2>12, OneGoes
<1>. QED
  BY <1>1, <1>2

LEMMA StartOK ==
  ASSUME RaceInv, NEW c \in Racers, Start(c)
  PROVE  RaceInv'
<1> DEFINE t == race[c]
           step == Head(t.todo)
           p == step.path
           now == Current(c)
           status == WriteStatus(now, p)
           again == <<MkdirOf(Parent(p)), [step EXCEPT !.kind = "rewrite"]>>
           puts == PutsOf(step, now)
<1>1. t \in Races /\ IsRace(t) /\ RaceOK(t, committed) /\ committed \in RowMaps
      /\ now = NowOn(t, committed) /\ now \in RowMaps
  BY CurrentIs DEF RaceInv
<1>2. t.todo # <<>> /\ ~t.running /\ IsStatement(step)
  BY DEF Start, StepOf
<1>3. /\ step \in RaceSteps /\ Tail(t.todo) \in Seq(RaceSteps) /\ t.op # "none"
      /\ p \in Paths /\ Parent(p) \in Paths
  BY <1>1, <1>2, NextStep, ParentInPaths DEF RaceSteps
<1>4. CASE step.kind = "write" /\ status = "enoent" /\ Parent(p) # Root
  <2> DEFINE todo == again \o Tail(t.todo)
             u == [t EXCEPT !.todo = todo]
             rewrite == [step EXCEPT !.kind = "rewrite"]
  <2>1. Becomes(c, u) /\ committed' = committed
    BY <1>4 DEF Start, GoesOn, StepOf
  <2>2. /\ MkdirOf(Parent(p)) \in RaceSteps /\ MkdirOf(Parent(p)).kind = "mkdir"
        /\ rewrite \in RaceSteps /\ rewrite.kind = "rewrite"
    BY <1>3, StepsTyped, StepsAre DEF RaceSteps, RaceKinds
  <2> HIDE DEF rewrite
  <2>3. again = <<MkdirOf(Parent(p)), rewrite>>
    BY DEF rewrite
  <2>4. again \in Seq(RaceSteps) /\ Len(again) = 2
        /\ again[1].kind = "mkdir" /\ again[2].kind = "rewrite"
    BY <2>2, <2>3
  <2> HIDE DEF again
  <2>5. /\ todo \in Seq(RaceSteps) /\ Len(todo) = Len(again) + Len(Tail(t.todo))
        /\ \A i \in 1 .. Len(again) + Len(Tail(t.todo)) :
             todo[i] = IF i <= Len(again) THEN again[i] ELSE Tail(t.todo)[i - Len(again)]
    BY <1>3, <2>4, ConcatProperties
  <2> HIDE DEF todo
  <2>6. t.op = "write" => \A i \in 1..Len(todo) : todo[i].kind \in {"write", "mkdir", "rewrite"}
    <3> SUFFICES ASSUME t.op = "write", NEW i \in 1..Len(todo)
                 PROVE  todo[i].kind \in {"write", "mkdir", "rewrite"}
      OBVIOUS
    <3>1. \A k \in 1..Len(Tail(t.todo)) : Tail(t.todo)[k].kind \in {"write", "mkdir", "rewrite"}
      BY <1>1, <1>2, NextStep
    <3>2. Len(Tail(t.todo)) \in Nat
      BY <1>3
    <3>3. CASE i <= 2
      BY <2>4, <2>5, <3>2, <3>3
    <3>4. CASE ~(i <= 2)
      <4>1. i - 2 \in 1..Len(Tail(t.todo)) /\ todo[i] = Tail(t.todo)[i - 2]
        BY <2>4, <2>5, <3>2, <3>4
      <4>. QED
        BY <3>1, <4>1
    <3>. QED
      BY <3>3, <3>4
  <2>7. /\ u.op = t.op /\ u.path = t.path /\ u.dest = t.dest /\ u.piece = t.piece
        /\ u.todo = todo /\ u.seen = t.seen /\ u.mine = t.mine
        /\ u.running = t.running /\ u.stale = t.stale /\ u \in Races
    BY <1>1, <2>5 DEF Races
  <2> HIDE DEF u
  <2>8. IsRace(u)
    BY <1>2, <1>3, <2>6, <2>7 DEF IsRace
  <2>9. ASSUME ~t.stale PROVE GoesAlone(u, committed)
    <3>1. Stage(t, committed)
      BY <1>1, <1>2, <1>3, <2>9, StageOrEnd
    <3>2. u.todo = <<MkdirOf(Parent(step.path)), [step EXCEPT !.kind = "rewrite"]>> \o Tail(t.todo)
      BY <2>7 DEF todo, again
    <3>3. Stage(u, committed)
      BY <1>1, <1>4, <2>7, <3>1, <3>2, StartAgain DEF SameCall
    <3>. QED
      BY <1>2, <2>7, <3>3 DEF GoesAlone
  <2>10. RaceOK(u, committed)
    BY <2>7, <2>8, <2>9 DEF RaceOK
  <2>. QED
    BY <2>1, <2>10, OneGoes
<1>5. CASE /\ ~(step.kind = "write" /\ status = "enoent" /\ Parent(p) # Root)
           /\ \/ step.kind \in {"write", "rewrite"} /\ status # "ok"
              \/ step.kind = "mkdir" /\ ~MkdirPossible(now, p)
  <2>1. Abort(c)
    BY <1>5 DEF Start, StepOf
  <2>. QED
    BY <2>1, AbortOK
<1>6. CASE /\ ~(step.kind = "write" /\ status = "enoent" /\ Parent(p) # Root)
           /\ ~(step.kind \in {"write", "rewrite"} /\ status # "ok")
           /\ ~(step.kind = "mkdir" /\ ~MkdirPossible(now, p))
  <2> DEFINE u == [t EXCEPT !.running = TRUE, !.puts = puts, !.tolock = PathsPut(puts)]
  <2>1. Becomes(c, u) /\ committed' = committed
    BY <1>6 DEF Start, GoesOn, StepOf
  <2>2. puts \in RowMaps /\ PathsPut(puts) \in SUBSET Paths
    BY <1>1, <1>3, PutsTyped DEF PathsPut
  <2> HIDE DEF puts
  <2>3. /\ u.op = t.op /\ u.path = t.path /\ u.dest = t.dest /\ u.piece = t.piece
        /\ u.todo = t.todo /\ u.seen = t.seen /\ u.mine = t.mine /\ u.puts = puts
        /\ u.running = TRUE /\ u.stale = t.stale /\ u \in Races
    BY <1>1, <2>2 DEF Races
  <2> HIDE DEF u
  <2>4. IsRace(u)
    BY <1>1, <1>2, <1>3, <2>3 DEF IsRace
  <2>5. ASSUME ~t.stale PROVE GoesAlone(u, committed)
    <3>1. Stage(t, committed)
      BY <1>1, <1>2, <1>3, <2>5, StageOrEnd
    <3>2. Stage(u, committed)
      BY <1>1, <2>3, <3>1, StageSame DEF SameCall
    <3>3. NowOn(u, committed) = now
      BY <1>1, <2>3 DEF NowOn
    <3>4. Runs(u, committed)
      BY <1>2, <1>6, <2>3, <3>3 DEF Runs, puts
    <3>. QED
      BY <3>2, <3>4 DEF GoesAlone
  <2>6. RaceOK(u, committed)
    BY <2>3, <2>4, <2>5 DEF RaceOK
  <2>. QED
    BY <2>1, <2>6, OneGoes
<1>. QED
  BY <1>4, <1>5, <1>6

LEMMA LockRowOK ==
  ASSUME RaceInv, NEW c \in Racers, LockRow(c)
  PROVE  RaceInv'
<1> DEFINE t == race[c]
           left == t.tolock \ {NextRow(c)}
           u == [t EXCEPT !.tolock = left]
<1>1. Becomes(c, u) /\ committed' = committed /\ t.running
  BY DEF LockRow
<1>2. t \in Races /\ IsRace(t) /\ RaceOK(t, committed) /\ committed \in RowMaps
  BY CurrentIs DEF RaceInv
<1>3. left \in SUBSET Paths
  BY <1>2 DEF Races
<1> HIDE DEF left
<1>4. /\ u.op = t.op /\ u.path = t.path /\ u.dest = t.dest /\ u.piece = t.piece
      /\ u.todo = t.todo /\ u.seen = t.seen /\ u.mine = t.mine /\ u.puts = t.puts
      /\ u.running = t.running /\ u.stale = t.stale /\ u \in Races
  BY <1>2, <1>3 DEF Races
<1> HIDE DEF u
<1>5. t.todo # <<>> /\ t.op # "none"
  BY <1>1, <1>2 DEF IsRace, NoRace
<1>6. IsRace(u)
  BY <1>2, <1>4, <1>5 DEF IsRace
<1>7. ASSUME ~t.stale PROVE GoesAlone(u, committed)
  <2>1. Stage(t, committed) /\ Runs(t, committed)
    BY <1>1, <1>2, <1>5, <1>7, StageOrEnd
  <2>2. Stage(u, committed)
    BY <1>2, <1>4, <2>1, StageSame DEF SameCall
  <2>3. Runs(u, committed)
    BY <1>4, <2>1 DEF Runs, NowOn
  <2>. QED
    BY <2>2, <2>3 DEF GoesAlone
<1>8. RaceOK(u, committed)
  BY <1>4, <1>6, <1>7 DEF RaceOK
<1>. QED
  BY <1>1, <1>8, OneGoes

LEMMA LockVersionOK ==
  ASSUME RaceInv, NEW c \in Racers, LockVersion(c)
  PROVE  RaceInv'
<1> DEFINE t == race[c]
           u == [t EXCEPT !.todo = Tail(t.todo)]
<1>1. Becomes(c, u) /\ committed' = committed /\ t.todo # <<>> /\ Head(t.todo).kind = "lock"
  BY DEF LockVersion, StepOf
<1>2. t \in Races /\ IsRace(t) /\ RaceOK(t, committed) /\ committed \in RowMaps
  BY CurrentIs DEF RaceInv
<1>3. Tail(t.todo) \in Seq(RaceSteps) /\ t.op \notin {"none", "write"}
  BY <1>1, <1>2, NextStep
<1>4. /\ u.op = t.op /\ u.path = t.path /\ u.dest = t.dest /\ u.piece = t.piece
      /\ u.todo = Tail(t.todo) /\ u.seen = t.seen /\ u.mine = t.mine
      /\ u.running = t.running /\ u.stale = t.stale /\ u \in Races
  BY <1>2, <1>3 DEF Races
<1> HIDE DEF u
<1>5. ~t.running
  BY <1>1, <1>2 DEF IsRace, IsStatement
<1>6. IsRace(u)
  BY <1>3, <1>4, <1>5 DEF IsRace
<1>7. ASSUME ~t.stale PROVE GoesAlone(u, committed)
  <2>1. Stage(t, committed)
    BY <1>1, <1>2, <1>3, <1>7, StageOrEnd
  <2>2. Stage(u, committed)
    BY <1>1, <1>2, <1>4, <2>1, LockGoes DEF SameCall
  <2>. QED
    BY <1>4, <1>5, <2>2 DEF GoesAlone
<1>8. RaceOK(u, committed)
  BY <1>4, <1>6, <1>7 DEF RaceOK
<1>. QED
  BY <1>1, <1>8, OneGoes

LEMMA BumpOK ==
  ASSUME RaceInv, NEW c \in Racers, Bump(c)
  PROVE  RaceInv'
<1> DEFINE t == race[c]
           mine == PutOver(t.mine, t.puts)
           u == [t EXCEPT !.mine = mine, !.puts = NoRows, !.running = FALSE, !.todo = Tail(t.todo)]
<1>1. Becomes(c, u) /\ committed' = committed /\ t.running
  BY DEF Bump
<1>2. t \in Races /\ IsRace(t) /\ RaceOK(t, committed) /\ committed \in RowMaps
  BY CurrentIs DEF RaceInv
<1>3. t.todo # <<>>
  BY <1>1, <1>2 DEF IsRace
<1>4. /\ Tail(t.todo) \in Seq(RaceSteps) /\ t.op # "none"
      /\ t.op = "write" =>
           \A i \in 1..Len(Tail(t.todo)) : Tail(t.todo)[i].kind \in {"write", "mkdir", "rewrite"}
  BY <1>2, <1>3, NextStep
<1>5. t.mine \in RowMaps /\ t.puts \in RowMaps
  BY <1>2 DEF Races
<1>6. mine \in RowMaps /\ PutOver(committed, mine) = PutOver(PutOver(committed, t.mine), t.puts)
  BY <1>2, <1>5, PutOverTyped, PutTwice
<1> HIDE DEF mine
<1>7. /\ u.op = t.op /\ u.path = t.path /\ u.dest = t.dest /\ u.piece = t.piece
      /\ u.todo = Tail(t.todo) /\ u.seen = t.seen /\ u.mine = mine
      /\ u.running = FALSE /\ u.stale = t.stale /\ u \in Races
  BY <1>2, <1>4, <1>6, NoRowsTyped DEF Races
<1> HIDE DEF u
<1>8. IsRace(u)
  BY <1>4, <1>7 DEF IsRace
<1>9. ASSUME ~t.stale PROVE GoesAlone(u, committed)
  <2>1. Stage(t, committed) /\ Runs(t, committed)
    BY <1>1, <1>2, <1>3, <1>4, <1>9, StageOrEnd
  <2>2. NowOn(u, committed) = PutOver(NowOn(t, committed), t.puts)
    BY <1>6, <1>7 DEF NowOn
  <2>3. SameCall(t, u)
    BY <1>7 DEF SameCall
  <2>4. Stage(u, committed) \/ Finished(u, committed)
    <3>1. CASE t.op = "write" /\ WriteGoes(t, committed)
      BY <1>1, <1>2, <1>7, <2>1, <2>2, <2>3, <3>1, BumpWrite
    <3>2. CASE t.op = "append" /\ AppendGoes(t, committed)
      BY <1>1, <1>2, <1>7, <2>1, <2>2, <2>3, <3>2, BumpAppend
    <3>3. CASE t.op = "rm" /\ RmGoes(t, committed)
      BY <1>1, <1>2, <1>7, <2>1, <2>2, <2>3, <3>3, BumpRm
    <3>4. CASE t.op = "mv" /\ MvGoes(t, committed)
      BY <1>1, <1>2, <1>7, <2>1, <2>2, <2>3, <3>4, BumpMv
    <3>5. CASE t.op = "merge" /\ MergeGoes(t, committed)
      BY <1>1, <1>2, <1>7, <2>1, <2>2, <2>3, <3>5, BumpMerge
    <3>. QED
      BY <2>1, <3>1, <3>2, <3>3, <3>4, <3>5 DEF Stage
  <2>. QED
    BY <1>7, <2>4 DEF GoesAlone
<1>10. RaceOK(u, committed)
  BY <1>7, <1>8, <1>9 DEF RaceOK
<1>. QED
  BY <1>1, <1>10, OneGoes

LEMMA CommitOK ==
  ASSUME RaceInv, NEW c \in Racers, CommitRows(c)
  PROVE  RaceInv'
<1> DEFINE after == PutOver(committed, race[c].mine)
<1>1. committed' = after /\ after \in RowMaps
  <2>1. race[c].mine \in RowMaps /\ committed \in RowMaps
    BY CurrentIs DEF RaceInv, Races
  <2>. QED
    BY <2>1, PutOverTyped DEF CommitRows
<1> HIDE DEF after
<1>2. race' = [d \in Racers |-> IF d = c THEN NoRace
                                ELSE IF Begun(d) THEN [race[d] EXCEPT !.stale = TRUE] ELSE race[d]]
  BY DEF CommitRows
<1>3. ASSUME NEW d \in Racers
      PROVE  race'[d] \in Races /\ RaceOK(race'[d], after)
  <2>1. race[d] \in Races /\ IsRace(race[d])
    BY CurrentIs
  <2>2. CASE d = c
    BY <1>2, <2>2, NoRaceTyped
  <2>3. CASE d # c /\ Begun(d)
    <3> DEFINE t == race[d]
               u == [t EXCEPT !.stale = TRUE]
    <3>1. race'[d] = u
      BY <1>2, <2>3
    <3>2. /\ u.op = t.op /\ u.todo = t.todo /\ u.running = t.running /\ u.stale = TRUE
          /\ u \in Races
      BY <2>1 DEF Races
    <3> HIDE DEF u
    <3>3. IsRace(u)
      BY <2>1, <2>3, <3>2 DEF IsRace, Begun
    <3>. QED
      BY <3>1, <3>2, <3>3 DEF RaceOK
  <2>4. CASE d # c /\ ~Begun(d)
    BY <1>2, <2>1, <2>4 DEF RaceOK, Begun
  <2>. QED
    BY <2>2, <2>3, <2>4
<1>4. race' \in [Racers -> Races]
  BY <1>2, <1>3
<1>. QED
  BY <1>1, <1>3, <1>4 DEF RaceInv

\* What a transaction commits that no other commit overlapped.
LEMMA CommitsFinished ==
  ASSUME RaceInv, NEW c \in Racers, CommitRows(c), ~race[c].stale
  PROVE  /\ committed' = AloneOn(race[c], committed)
         /\ race[c].op # "merge" => Kept(committed, committed')
<1>1. RaceOK(race[c], committed) /\ committed \in RowMaps
  BY CurrentIs DEF RaceInv
<1>2. race[c].op # "none" /\ race[c].todo = <<>> /\ committed' = NowOn(race[c], committed)
  BY DEF CommitRows, Begun, NowOn
<1>3. Finished(race[c], committed)
  BY <1>1, <1>2, StageOrEnd
<1>. QED
  BY <1>2, <1>3 DEF Finished

LEMMA RaceStep ==
  ASSUME RaceInv, NEW c \in Racers, Opens(c) \/ Steps(c)
  PROVE  RaceInv'
<1>1. ASSUME Deadlock(c) PROVE RaceInv'
  BY <1>1, AbortOK DEF Deadlock
<1>. QED
  BY <1>1, OpensOK, ReadOK, DecideOK, EnsureOK, StartOK, LockRowOK, LockVersionOK, BumpOK,
     CommitOK DEF Steps

LEMMA RaceInvariant == RaceSpec => []RaceInv
<1>1. RaceInit => RaceInv
  <2> SUFFICES ASSUME RaceInit PROVE RaceInv
    OBVIOUS
  <2>1. committed \in RowMaps
    BY KindsOfRows DEF RaceInit, RowMaps
  <2>. QED
    BY <2>1, NoRaceTyped DEF RaceInit, RaceInv
<1>2. RaceInv /\ [RaceNext]_raceVars => RaceInv'
  <2> SUFFICES ASSUME RaceInv, [RaceNext]_raceVars PROVE RaceInv'
    OBVIOUS
  <2>1. CASE RaceNext
    BY <2>1, RaceStep DEF RaceNext
  <2>2. CASE UNCHANGED raceVars
    BY <2>2 DEF raceVars, RaceInv
  <2>. QED
    BY <2>1, <2>2
<1>. QED
  BY <1>1, <1>2, PTL DEF RaceSpec

\* A transaction of writeFile, appendFile, rm, mv or merge that no other commit
\* overlapped leaves what the operation does alone: the statements, the reads
\* and decisions between them, the retry of a write without a directory and
\* the locks put it together again.
THEOREM RacesAreAtomic == RaceSpec => UnoverlappedCommitsAreAtomic
<1>1. RaceInv /\ [RaceNext]_raceVars =>
        [\A c \in Racers : CommitRows(c) /\ ~race[c].stale =>
           committed' = AloneOn(race[c], committed)]_raceVars
  BY CommitsFinished
<1>. QED
  BY <1>1, RaceInvariant, PTL DEF RaceSpec, UnoverlappedCommitsAreAtomic

\* An entry is left without a directory only by a transaction that another
\* commit overlapped, or by a merge.
THEOREM RacesKeepTree == RaceSpec => OrphansNeedOverlap
<1> DEFINE A == TreeShaped(committed) /\ Shows(committed, Root) /\ ~TreeShaped(committed') =>
                  \E c \in Racers : CommitRows(c) /\ (race[c].stale \/ race[c].op = "merge")
<1>1. RaceInv /\ [RaceNext]_raceVars => [A]_raceVars
  <2> SUFFICES ASSUME RaceInv, RaceNext,
                      TreeShaped(committed), Shows(committed, Root), ~TreeShaped(committed')
               PROVE  \E c \in Racers : CommitRows(c) /\ (race[c].stale \/ race[c].op = "merge")
    OBVIOUS
  <2>1. PICK c \in Racers : Opens(c) \/ Steps(c)
    BY DEF RaceNext
  <2>2. committed' # committed
    OBVIOUS
  <2>3. CommitRows(c)
    BY <2>1, <2>2 DEF Opens, BeginWrite, BeginAppend, BeginRm, BeginMv, BeginMerge, Open,
       Steps, Read, Decide, Ensure, Start, GoesOn, Abort, LockRow, LockVersion, Bump, Deadlock
  <2>4. race[c].stale \/ race[c].op = "merge"
    BY <2>3, CommitsFinished DEF Kept
  <2>. QED
    BY <2>3, <2>4
<1>. QED
  BY <1>1, RaceInvariant, PTL DEF RaceSpec, OrphansNeedOverlap
=============================================================================
