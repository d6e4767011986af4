------------------------------ MODULE History ------------------------------
(***************************************************************************)
(* What the history, diff and usage queries compute from the tables of     *)
(* VersionStore. They read only; what they answer is stated in terms of    *)
(* the trees the versions show.                                            *)
(***************************************************************************)
EXTENDS VersionStore

\* fetchDiff, diffCount: both visible trees, joined by path, equal rows left out.
Diff(ours, theirs) == {p \in Paths : Resolve(ours, p) # Resolve(theirs, p)}

\* What the parent of v shows at p; nothing for a version without one.
Before(v, p) == IF parent[v] = NoVersion THEN Absent ELSE Resolve(parent[v], p)

\* Mutant: a tombstone counts as a change whatever the parent shows.
ChangesWithTombstones(v) ==
  {p \in Paths : entries[v][p] # Absent /\ entries[v][p] # Before(v, p)}

\* fetchVersionChanges and fetchPageChanges: the rows v has of its own, compared
\* with what its parent shows at the same paths.
Changes(v) ==
  {p \in Paths : /\ entries[v][p] # Absent
                 /\ IF entries[v][p] = Tombstone THEN Before(v, p) # Absent
                    ELSE entries[v][p] # Before(v, p)}

\* fetchPageChanges: the rows of all versions of a page, joined with what their
\* parents show; a version without parent has no row to join with.
PageRows(vs) == {row \in vs \X Paths : entries[row[1]][row[2]] # Absent}
PageChanges(vs) ==
  [v \in vs |-> {p \in Paths :
     /\ <<v, p>> \in PageRows(vs)
     /\ entries[v][p] = Tombstone => Before(v, p) # Absent
     /\ Before(v, p) # Absent => entries[v][p] # Before(v, p)}]

\* versionDiff, by id, also of a deleted version; diffVersions, between any two
\* versions of the root.
InRoot(r, vs) == \A v \in vs : HasRow(v) /\ RootOf[v] = r
VersionDiff(r, v) == IF InRoot(r, {v}) THEN Changes(v) ELSE {}
DiffVersions(r, from, to) == IF InRoot(r, {from, to}) THEN Diff(from, to) ELSE {}

\* diffCount, with the type that one of both sides must have.
Type(shape) == IF shape \in Contents THEN "file" ELSE IF shape = Dir THEN "directory" ELSE "none"
DiffCount(ours, theirs, type) ==
  Cardinality({p \in Diff(ours, theirs) :
                 type = "any" \/ type \in {Type(Resolve(ours, p)), Type(Resolve(theirs, p))}})

\* classifyDiffChange
ChangeOf(before, after) ==
  CASE before = Absent -> "added"
    [] after = Absent -> "removed"
    [] before \in Contents /\ after \in Contents -> "modified"
    [] OTHER -> "type-changed"

CommonAncestors(v, w) == {a \in VersionIds : IsAncestor(a, v) /\ IsAncestor(a, w)}

\* Mutant: ORDER BY depth DESC.
FarthestCommonAncestor(v, w) ==
  CHOOSE a \in CommonAncestors(v, w) :
    \A b \in CommonAncestors(v, w) : closure[v][a] + closure[w][a] >= closure[v][b] + closure[w][b]

\* findLCA: least sum of depths.
LowestCommonAncestor(v, w) ==
  CHOOSE a \in CommonAncestors(v, w) :
    \A b \in CommonAncestors(v, w) : closure[v][a] + closure[w][a] <= closure[v][b] + closure[w][b]

\* Mutant: the page starts with the version the cursor names.
HistoryFrom(v, depth, limit) ==
  LET beyond == {a \in VersionIds : HasRow(a) /\ IsAncestor(a, v) /\ closure[v][a] >= depth}
  IN {a \in beyond : Cardinality({b \in beyond : closure[v][b] < closure[v][a]}) < limit}

\* One page of listHistory: the next versions of the chain beyond a depth.
HistoryPage(v, depth, limit) ==
  LET beyond == {a \in VersionIds : HasRow(a) /\ IsAncestor(a, v) /\ closure[v][a] > depth}
  IN {a \in beyond : Cardinality({b \in beyond : closure[v][b] < closure[v][a]}) < limit}

\* The cursor is the depth of the last version of the page, if there are more.
NextCursor(v, depth, limit) ==
  LET page == HistoryPage(v, depth, limit)
  IN IF page = HistoryPage(v, depth, limit + 1) THEN NoRow
     ELSE CHOOSE d \in {closure[v][a] : a \in page} : \A a \in page : closure[v][a] <= d

\* listHistory leaves out the version without parent unless includeRoot, but
\* counts it in the page.
ListHistory(v, depth, limit, includeRoot) ==
  [versions |-> {a \in HistoryPage(v, depth, limit) : includeRoot \/ parent[a] # NoVersion},
   nextCursor |-> NextCursor(v, depth, limit)]

\* What a caller has listed that follows the cursor to one page more.
NextPage(v, limit, includeRoot, listed) ==
  LET page == ListHistory(v, listed.nextCursor, limit, includeRoot)
  IN IF listed.nextCursor = NoRow THEN listed
     ELSE [versions |-> listed.versions \cup page.versions, nextCursor |-> page.nextCursor]

\* What a caller lists that follows the cursors, from the first page on.
Listed(v, limit, includeRoot) ==
  LET after[n \in 0..Cardinality(VersionIds)] ==
        IF n = 0 THEN ListHistory(v, -1, limit, includeRoot)
        ELSE NextPage(v, limit, includeRoot, after[n - 1])
  IN after[Cardinality(VersionIds)].versions

-----------------------------------------------------------------------------
\* getUsage of version v: rows of its root, nodes that it shows, and the blobs that
\* it, all live versions of the root, and the workspace have.
Live(r) == {v \in VersionIds : status[v] = "active" /\ RootOf[v] = r}
RowsOf(r, shapes) ==
  {row \in VersionIds \X Paths :
     HasRow(row[1]) /\ RootOf[row[1]] = r /\ entries[row[1]][row[2]] \in shapes}
VisibleBlobs(v) == {Resolve(v, p) : p \in Paths} \cap Contents
Usage(v) ==
  LET r == RootOf[v]
      visible(types) == Cardinality({p \in Paths : Type(Resolve(v, p)) \in types})
  IN [versions |-> Cardinality(Live(r)),
      entryRows |-> Cardinality(RowsOf(r, Shapes \cup {Tombstone})),
      tombstoneRows |-> Cardinality(RowsOf(r, {Tombstone})),
      visibleNodes |-> visible({"file", "directory"}),
      visibleFiles |-> visible({"file"}), visibleDirectories |-> visible({"directory"}),
      referencedBlobs |-> VisibleBlobs(v),
      acrossBlobs |-> UNION {VisibleBlobs(w) : w \in Live(r)},
      storedBlobs |-> blobs]

-----------------------------------------------------------------------------
\* "Under COW the rows physically written at V are exactly what changed at V":
\* the change list of a version, read off its rows alone, is the difference
\* between the tree its parent shows today and its own, and names each change
\* the way diff does; the queries for one version, for a page of the history, for
\* two ids and for a count all tell the same (fetch-version-changes.ts,
\* fetch-page-changes.ts, fetch-diff.ts, diff-count.ts).
ChangesAreDiff ==
  LET stored == {v \in VersionIds : HasRow(v)}
      changes == PageChanges(stored)
  IN \A v \in stored :
       /\ VersionDiff(RootOf[v], v) = changes[v]
       /\ IF parent[v] = NoVersion
          THEN Changes(v) = {p \in Paths : Resolve(v, p) # Absent}
          ELSE /\ Changes(v) = DiffVersions(RootOf[v], parent[v], v)
               /\ Cardinality(Changes(v)) = DiffCount(parent[v], v, "any")
               /\ \A p \in Changes(v) :
                    ChangeOf(Before(v, p), Resolve(v, p)) = "removed" <=> entries[v][p] = Tombstone

\* The base of a merge is one version: every common ancestor of the two sides is
\* an ancestor of it, whatever was detached, promoted or swept since (findLCA).
LowestAncestorDominates ==
  \A v, w \in VersionIds : CommonAncestors(v, w) # {} =>
    \A a \in CommonAncestors(v, w) : IsAncestor(a, LowestCommonAncestor(v, w))

\* Following the cursors of listHistory, in pages of one or two, lists the version
\* and its chain of parents; the page after a version starts with its parent.
\* The figures of getUsage are within each other: what a version shows has rows
\* in its root and blobs that are stored, and a live version's are among those
\* counted across versions.
QueriesAddUp ==
  \A v \in VersionIds : HasRow(v) =>
    LET usage == Usage(v)
    IN /\ \A limit \in 1..2 :
            /\ Listed(v, limit, TRUE) = {a \in VersionIds : IsAncestor(a, v)}
            /\ Listed(v, limit, FALSE) = {a \in VersionIds : IsAncestor(a, v) /\ parent[a] # NoVersion}
       /\ \A a \in VersionIds : IsAncestor(a, v) =>
            HistoryPage(v, closure[v][a], 1) = {parent[a]} \ {NoVersion}
       /\ usage.visibleNodes <= usage.entryRows - usage.tombstoneRows
       /\ usage.visibleNodes = usage.visibleFiles + usage.visibleDirectories
       /\ usage.referencedBlobs \cup usage.acrossBlobs \subseteq usage.storedBlobs
       /\ status[v] = "active" => usage.referencedBlobs \subseteq usage.acrossBlobs
=============================================================================
