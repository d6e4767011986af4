---------------------------- MODULE VersionStore ----------------------------
(***************************************************************************)
(* The version graph of one bash-gres workspace: fs_versions, the          *)
(* version_ancestors closure, the fs_entries rows and the fs_blobs they    *)
(* reference, under every operation that changes the graph.  Each          *)
(* operation is one SQL transaction and one action here; what happens      *)
(* between the statements of two transactions is the subject of            *)
(* GraphRace.tla and BlobRace.tla.                                         *)
(*                                                                         *)
(* An operation acts on the version id its filesystem instance resolved,   *)
(* and an instance never re-validates that id (getCurrentVersionId), so    *)
(* the actions take any id that was ever allocated, also one that another  *)
(* instance has deleted meanwhile.                                         *)
(***************************************************************************)
EXTENDS Integers, FiniteSets

CONSTANTS
  VersionIds,    \* ids fs_versions_id_seq may hand out; never reused
  VersionRoots,  \* paths that can be versioned directories, "/" among them
  WorkspaceRoot, \* "/"
  RootOf,        \* the version root each version id belongs to
  UserLabels,    \* labels users pass to init, fork, renameVersion, promoteTo
  DefaultLabel,  \* DEFAULT_VERSION
  PrevLabel,     \* generatePrevLabel(_, id), by id of the displaced version
  Paths,         \* paths below every version root
  Contents,      \* file contents; fs_blobs rows are keyed by their hash
  Dir,           \* the shape of a directory entry (no blob)
  Tombstone,     \* node_type 'tombstone'
  Absent,        \* no fs_entries row; also: nothing visible
  NoVersion,     \* SQL NULL in parent_version_id, or no row
  NoLabel        \* label of an id without a row

Labels == UserLabels \cup {PrevLabel[v] : v \in VersionIds}
Shapes == Contents \cup {Dir}

ASSUME RootsAssumption ==
  /\ WorkspaceRoot \in VersionRoots
  /\ RootOf \in [VersionIds -> VersionRoots]

ASSUME LabelAssumption ==
  /\ DefaultLabel \in UserLabels
  /\ \A v, w \in VersionIds : PrevLabel[v] = PrevLabel[w] => v = w
  /\ \A v \in VersionIds : PrevLabel[v] \notin UserLabels
  /\ NoLabel \notin Labels

ASSUME SentinelAssumption ==
  /\ Dir \notin Contents
  /\ Tombstone \notin Shapes
  /\ Absent \notin Shapes \cup {Tombstone}
  /\ NoVersion \notin VersionIds

ASSUME FiniteAssumption ==
  IsFiniteSet(VersionIds) /\ IsFiniteSet(Paths)

VARIABLES
  roots,    \* fs_version_roots: the paths that have a row
  status,   \* fs_versions: "unused", "active", "deleted" (deleted_at set), "gone"
  label,    \* fs_versions.label
  parent,   \* fs_versions.parent_version_id
  closure,  \* version_ancestors: closure[d][a] is the depth, or NoRow
  entries,  \* fs_entries: entries[v][p]
  blobs     \* fs_blobs

graph == <<roots, status, label, parent, closure>>
vars == <<roots, status, label, parent, closure, entries, blobs>>

NoRow == -1

TypeOK ==
  /\ roots \in SUBSET VersionRoots
  /\ status \in [VersionIds -> {"unused", "active", "deleted", "gone"}]
  /\ label \in [VersionIds -> Labels \cup {NoLabel}]
  /\ parent \in [VersionIds -> VersionIds \cup {NoVersion}]
  /\ closure \in [VersionIds -> [VersionIds -> Nat \cup {NoRow}]]
  /\ entries \in [VersionIds -> [Paths -> Shapes \cup {Tombstone, Absent}]]
  /\ blobs \in SUBSET Contents

-----------------------------------------------------------------------------
(* Reading the graph.                                                      *)

HasRow(v) == status[v] \in {"active", "deleted"}
Allocated(v) == status[v] # "unused"
IsAncestor(a, d) == closure[d][a] # NoRow

\* Mutant: only children that are not soft-deleted count.
ActiveChildren(v) == {d \in VersionIds : status[d] = "active" /\ parent[d] = v}
Children(v) == {d \in VersionIds : HasRow(d) /\ parent[d] = v}

\* The versions a label names in a root: at most one, see LiveLabelsUnique.
LiveHolders(r, l) ==
  {v \in VersionIds : status[v] = "active" /\ RootOf[v] = r /\ label[v] = l}

\* The rows for path p on the ancestor chain of v, and the nearest of them.
Holders(v, p) == {a \in VersionIds : IsAncestor(a, v) /\ entries[a][p] # Absent}

\* Mutant: ORDER BY depth DESC.
Farthest(v, held) == CHOOSE a \in held : \A b \in held : closure[v][a] >= closure[v][b]
Nearest(v, held) == CHOOSE a \in held : \A b \in held : closure[v][a] <= closure[v][b]

\* resolveEntry: what version v shows at p, or Absent.
Resolve(v, p) ==
  LET held == Holders(v, p)
      row == entries[Nearest(v, held)][p]
  IN  IF held = {} \/ row = Tombstone THEN Absent ELSE row

View(v) == [p \in Paths |-> Resolve(v, p)]

\* Mutants: what v inherits is not copied; v's tombstones are not deleted.
NotMaterialized(v) ==
  [p \in Paths |-> IF entries[v][p] = Tombstone THEN Absent ELSE entries[v][p]]
MaterializedWithTombstones(v) ==
  [p \in Paths |-> IF entries[v][p] # Absent THEN entries[v][p] ELSE Resolve(v, p)]

\* The entries of v after the materialising INSERT ... ON CONFLICT DO NOTHING
\* and the DELETE of v's tombstones.
Materialized(v) ==
  [p \in Paths |->
     IF entries[v][p] = Tombstone THEN Absent
     ELSE IF entries[v][p] # Absent THEN entries[v][p]
     ELSE Resolve(v, p)]

NoEntries == [p \in Paths |-> Absent]
SelfOnly(v) == [a \in VersionIds |-> IF a = v THEN 0 ELSE NoRow]

References(ents) == {ents[v][p] : v \in VersionIds, p \in Paths} \cap Contents

-----------------------------------------------------------------------------
(* Creating versions.                                                      *)

\* ensureVersion, from init(): a label without a live version gets a new
\* version without a parent.  Only the record of "/" is created on demand.
EnsureVersion(v, l) ==
  /\ RootOf[v] \in roots \cup {WorkspaceRoot}
  /\ status[v] = "unused"
  /\ LiveHolders(RootOf[v], l) = {}
  /\ status' = [status EXCEPT ![v] = "active"]
  /\ label' = [label EXCEPT ![v] = l]
  /\ closure' = [closure EXCEPT ![v] = SelfOnly(v)]
  /\ roots' = roots \cup {RootOf[v]}
  /\ UNCHANGED <<parent, entries, blobs>>

\* Mutant: copies src's own rows instead of what it shows.
MkdirVersionedOwnRows(src, v) ==
  /\ Allocated(src) /\ RootOf[src] = WorkspaceRoot
  /\ status[v] = "unused" /\ RootOf[v] # WorkspaceRoot
  /\ LiveHolders(RootOf[v], DefaultLabel) = {}
  /\ status' = [status EXCEPT ![v] = "active"]
  /\ label' = [label EXCEPT ![v] = DefaultLabel]
  /\ closure' = [closure EXCEPT ![v] = SelfOnly(v)]
  /\ entries' = [entries EXCEPT ![v] = entries[src]]
  /\ roots' = roots \cup {RootOf[v]}
  /\ UNCHANGED <<parent, blobs>>

\* ensureVersionRootInitialized, from mkdir(..., {versioned: true}): the new
\* root's default version starts as a copy of what the outer version src shows.
\* Roots do not nest, so src belongs to "/".
MkdirVersioned(src, v) ==
  /\ Allocated(src) /\ RootOf[src] = WorkspaceRoot
  /\ status[v] = "unused" /\ RootOf[v] # WorkspaceRoot
  /\ LiveHolders(RootOf[v], DefaultLabel) = {}
  /\ status' = [status EXCEPT ![v] = "active"]
  /\ label' = [label EXCEPT ![v] = DefaultLabel]
  /\ closure' = [closure EXCEPT ![v] = SelfOnly(v)]
  /\ entries' = [entries EXCEPT ![v] = View(src)]
  /\ roots' = roots \cup {RootOf[v]}
  /\ UNCHANGED <<parent, blobs>>

\* fork: one statement inserts the row and its closure, unless a live version
\* of the root has the label.  The foreign key on parent_version_id rejects a
\* parent that is gone.
Fork(v, w, l) ==
  /\ HasRow(v)
  /\ status[w] = "unused"
  /\ RootOf[w] = RootOf[v]
  /\ LiveHolders(RootOf[v], l) = {}
  /\ status' = [status EXCEPT ![w] = "active"]
  /\ label' = [label EXCEPT ![w] = l]
  /\ parent' = [parent EXCEPT ![w] = v]
  /\ closure' = [closure EXCEPT ![w] =
       [a \in VersionIds |-> IF a = w THEN 0
                             ELSE IF IsAncestor(a, v) THEN closure[v][a] + 1
                             ELSE NoRow]]
  /\ UNCHANGED <<roots, entries, blobs>>

-----------------------------------------------------------------------------
(* Writing entries.                                                        *)

\* Mutant: stores the blob of the row it replaces.
WriteFileStaleBlob(v, p, c) ==
  /\ HasRow(v)
  /\ Resolve(v, p) # Dir
  /\ entries' = [entries EXCEPT ![v][p] = c]
  /\ blobs' = blobs \cup {entries[v][p]}
  /\ UNCHANGED graph

\* writeFile: the fused statement validates that the parent directory (the
\* root directory, visible in every version that has a row) is visible and
\* that the target is not a directory, then upserts the blob and the entry.
WriteFile(v, p, c) ==
  /\ HasRow(v)
  /\ Resolve(v, p) # Dir
  /\ entries' = [entries EXCEPT ![v][p] = c]
  /\ blobs' = blobs \cup {c}
  /\ UNCHANGED graph

\* mkdir(p, {recursive: true}): nothing visible at p, so a directory row is
\* upserted.  No statement looks at fs_versions: an instance whose version is
\* gone writes a row that nobody can see.
Mkdir(v, p) ==
  /\ Allocated(v)
  /\ Resolve(v, p) = Absent
  /\ entries' = [entries EXCEPT ![v][p] = Dir]
  /\ UNCHANGED <<graph, blobs>>

\* rm: a tombstone in v hides p, whoever among v's ancestors owns it.
Rm(v, p) ==
  /\ Resolve(v, p) # Absent
  /\ entries' = [entries EXCEPT ![v][p] = Tombstone]
  /\ UNCHANGED <<graph, blobs>>

-----------------------------------------------------------------------------
(* Cutting a version off its ancestors.                                    *)

\* Mutant: only v's own rows are deleted, not those of its descendants.
WithoutOwnOuterRows(v) ==
  [d \in VersionIds |-> [a \in VersionIds |->
     IF d = v /\ ~IsAncestor(v, a) THEN NoRow ELSE closure[d][a]]]

\* The closure rows detach keeps: those that do not leave the subtree of v.
WithoutOuterRows(v) ==
  [d \in VersionIds |-> [a \in VersionIds |->
     IF IsAncestor(v, d) /\ ~IsAncestor(v, a) THEN NoRow ELSE closure[d][a]]]

Detach(v) ==
  /\ Allocated(v)
  /\ parent' = [parent EXCEPT ![v] = NoVersion]
  /\ closure' = WithoutOuterRows(v)
  /\ entries' = [entries EXCEPT ![v] = Materialized(v)]
  /\ UNCHANGED <<roots, status, label, blobs>>

-----------------------------------------------------------------------------
(* Moving labels.                                                          *)

\* Mutant: the displaced version keeps its label.
RelabelledOnly(v, l) ==
  [w \in VersionIds |-> IF w = v /\ HasRow(v) THEN l ELSE label[w]]

\* The UPDATEs of renameVersionInTransaction: the holder of l, if any, gets a
\* generated label; v gets l, unless its row is gone and the UPDATE finds none.
Relabelled(v, l) ==
  LET displaced == LiveHolders(RootOf[v], l) \ {v}
  IN  [w \in VersionIds |-> IF w \in displaced THEN PrevLabel[w]
                            ELSE IF w = v /\ HasRow(v) THEN l
                            ELSE label[w]]

RenameVersion(v, l, swap) ==
  /\ Allocated(v)
  /\ swap \/ LiveHolders(RootOf[v], l) \subseteq {v}
  /\ label' = Relabelled(v, l)
  /\ UNCHANGED <<roots, status, parent, closure, entries, blobs>>

\* promoteTo(l, {dropPrevious: true}) with historyRetention "retain".
PromoteRetain(v, l) ==
  /\ Allocated(v)
  /\ label' = Relabelled(v, l)
  /\ status' = [w \in VersionIds |->
       IF w \in LiveHolders(RootOf[v], l) \ {v} THEN "deleted" ELSE status[w]]
  /\ UNCHANGED <<roots, parent, closure, entries, blobs>>

\* promoteTo(l) without dropPrevious: detach and swap in one transaction.
PromoteDetached(v, l) ==
  /\ Allocated(v)
  /\ label' = Relabelled(v, l)
  /\ parent' = [parent EXCEPT ![v] = NoVersion]
  /\ closure' = WithoutOuterRows(v)
  /\ entries' = [entries EXCEPT ![v] = Materialized(v)]
  /\ UNCHANGED <<roots, status, blobs>>

-----------------------------------------------------------------------------
(* Removing versions.                                                      *)

\* deleteVersionById with retention "retain" (deleteVersion of a live label,
\* or dispose): the row, its entries and its closure rows stay.
SoftDelete(v) ==
  /\ status[v] = "active"
  /\ status' = [status EXCEPT ![v] = "deleted"]
  /\ UNCHANGED <<roots, label, parent, closure, entries, blobs>>

\* What physically removing the versions in S, their entries and every closure
\* row that mentions them leaves in the three tables.
RemovedStatus(S) == [v \in VersionIds |-> IF v \in S THEN "gone" ELSE status[v]]
RemovedLabel(S) == [v \in VersionIds |-> IF v \in S THEN NoLabel ELSE label[v]]
RemovedParent(S) == [v \in VersionIds |-> IF v \in S THEN NoVersion ELSE parent[v]]

\* Mutant: WHERE ancestor_id = $2, the descendant's own rows stay.
RemovedAncestorRows(clo, S) ==
  [d \in VersionIds |-> [a \in VersionIds |-> IF a \in S THEN NoRow ELSE clo[d][a]]]
RemovedClosure(clo, S) ==
  [d \in VersionIds |-> [a \in VersionIds |->
     IF d \in S \/ a \in S THEN NoRow ELSE clo[d][a]]]
RemovedEntries(ents, S) ==
  [v \in VersionIds |-> IF v \in S THEN NoEntries ELSE ents[v]]

\* Mutants: every candidate goes; only the entries of "/" are looked at.
CollectedUnchecked(candidates, ents) == blobs \ candidates
CollectedInWorkspaceRoot(candidates, ents) ==
  blobs \ (candidates \
    {ents[v][p] : v \in {w \in VersionIds : RootOf[w] = WorkspaceRoot}, p \in Paths})

\* DELETE FROM fs_blobs: the candidates no fs_entries row of the workspace
\* references any more.
Collected(candidates, ents) == blobs \ (candidates \ References(ents))

\* hardDeleteVersionById: refused while a version of the root has v as parent.
HardDelete(v) ==
  /\ Allocated(v)
  /\ Children(v) = {}
  /\ status' = RemovedStatus({v})
  /\ label' = RemovedLabel({v})
  /\ parent' = RemovedParent({v})
  /\ closure' = RemovedClosure(closure, {v})
  /\ entries' = RemovedEntries(entries, {v})
  /\ blobs' = Collected({entries[v][p] : p \in Paths}, entries')
  /\ UNCHANGED roots

\* promoteTo(l, {dropPrevious: true}) with historyRetention "discard": detach,
\* swap and hard delete of the displaced version t, all or nothing.
PromoteDiscard(v, t, l) ==
  /\ Allocated(v)
  /\ t \in LiveHolders(RootOf[v], l) \ {v}
  /\ Children(t) \subseteq {v}
  /\ status' = RemovedStatus({t})
  /\ label' = [Relabelled(v, l) EXCEPT ![t] = NoLabel]
  /\ parent' = [RemovedParent({t}) EXCEPT ![v] = NoVersion]
  /\ closure' = RemovedClosure(WithoutOuterRows(v), {t})
  /\ entries' = RemovedEntries([entries EXCEPT ![v] = Materialized(v)], {t})
  /\ blobs' = Collected({entries[t][p] : p \in Paths}, entries')
  /\ UNCHANGED roots

\* sweepHistory: live versions become parentless snapshots, deleted ones are
\* removed, and every unreferenced blob of the workspace goes.
SweepHistory(r) ==
  LET active == {v \in VersionIds : RootOf[v] = r /\ status[v] = "active"}
      inactive == {v \in VersionIds : RootOf[v] = r /\ status[v] = "deleted"}
  IN  /\ active \cup inactive # {}
      /\ status' = RemovedStatus(inactive)
      /\ label' = RemovedLabel(inactive)
      /\ parent' = RemovedParent(active \cup inactive)
      /\ closure' = [v \in VersionIds |->
           IF v \in active THEN SelfOnly(v)
           ELSE RemovedClosure(closure, active \cup inactive)[v]]
      /\ entries' = RemovedEntries(
           [v \in VersionIds |-> IF v \in active THEN Materialized(v) ELSE entries[v]],
           inactive)
      /\ blobs' = Collected(blobs, entries')
      /\ UNCHANGED roots

\* removeVersionRoot, from rm(path, {recursive, deleteVersionRoot}) of an
\* instance on version v of "/", which also hides the path in v.
RemoveVersionRoot(v, r) ==
  LET owned == {w \in VersionIds : RootOf[w] = r /\ HasRow(w)}
      hidden == [p \in Paths |-> IF Resolve(v, p) = Absent THEN entries[v][p]
                                 ELSE Tombstone]
  IN  /\ Allocated(v) /\ RootOf[v] = WorkspaceRoot
      /\ r \in roots \ {WorkspaceRoot}
      /\ roots' = roots \ {r}
      /\ status' = RemovedStatus(owned)
      /\ label' = RemovedLabel(owned)
      /\ parent' = RemovedParent(owned)
      /\ closure' = RemovedClosure(closure, owned)
      /\ entries' = RemovedEntries([entries EXCEPT ![v] = hidden], owned)
      /\ blobs' = Collected({entries[w][p] : w \in owned, p \in Paths}, entries')

-----------------------------------------------------------------------------
Init ==
  /\ roots = {}
  /\ status = [v \in VersionIds |-> "unused"]
  /\ label = [v \in VersionIds |-> NoLabel]
  /\ parent = [v \in VersionIds |-> NoVersion]
  /\ closure = [v \in VersionIds |-> [a \in VersionIds |-> NoRow]]
  /\ entries = [v \in VersionIds |-> NoEntries]
  /\ blobs = {}

Create ==
  \E v, w \in VersionIds, l \in UserLabels :
    EnsureVersion(v, l) \/ MkdirVersioned(v, w) \/ Fork(v, w, l)

Write ==
  \E v \in VersionIds, p \in Paths :
    Mkdir(v, p) \/ Rm(v, p) \/ \E c \in Contents : WriteFile(v, p, c)

Relabel ==
  \E v \in VersionIds, l \in UserLabels :
    PromoteRetain(v, l) \/ \E swap \in BOOLEAN : RenameVersion(v, l, swap)

Flatten ==
  \E v \in VersionIds : Detach(v) \/ \E l \in UserLabels : PromoteDetached(v, l)

Remove ==
  \/ \E v \in VersionIds : SoftDelete(v) \/ HardDelete(v)
  \/ \E v, t \in VersionIds, l \in UserLabels : PromoteDiscard(v, t, l)
  \/ \E r \in VersionRoots :
       SweepHistory(r) \/ \E v \in VersionIds : RemoveVersionRoot(v, r)

Next == Create \/ Write \/ Relabel \/ Flatten \/ Remove

Spec == Init /\ [][Next]_vars
-----------------------------------------------------------------------------
(* Safety.                                                                 *)

\* Every closure row is what the parent pointers say: a version with a row is
\* its own ancestor at depth 0 and inherits its parent's ancestors one level
\* further; ids without a row appear nowhere.  fork, detach, the hard delete
\* and the sweep each maintain the table by hand and every read trusts it.
ClosureFollowsParents ==
  \A d, a \in VersionIds :
    closure[d][a] =
      IF ~HasRow(d) THEN NoRow
      ELSE IF a = d THEN 0
      ELSE IF parent[d] = NoVersion THEN NoRow
      ELSE IF ~IsAncestor(a, parent[d]) THEN NoRow
      ELSE closure[parent[d]][a] + 1

\* A parent pointer leads to a version that has a row, of the same root: the
\* order of the DELETEs and UPDATEs never leaves one dangling.
ParentsExist ==
  \A v \in VersionIds : parent[v] # NoVersion =>
    HasRow(v) /\ HasRow(parent[v]) /\ RootOf[parent[v]] = RootOf[v]

\* A label names at most one live version of a root: the existence checks of
\* init, fork and renameVersion and the swap's generated label suffice, without
\* the partial unique index that backs them up.
LiveLabelsUnique ==
  \A v, w \in VersionIds :
    /\ status[v] = "active" /\ status[w] = "active"
    /\ RootOf[v] = RootOf[w] /\ label[v] = label[w]
    => v = w

\* fs_entries.blob_hash has no foreign key: whatever shares a blob (copies,
\* materialised rows, other roots), no collection removes it under an entry.
BlobsBackEntries == References(entries) \subseteq blobs

\* A version whose row is gone shows nothing, although a stale instance may
\* still have written rows for its id.
GoneShowsNothing ==
  \A v \in VersionIds, p \in Paths : ~HasRow(v) => Resolve(v, p) = Absent

\* detach: "Visible contents of the current version and of every descendant are
\* preserved byte-for-byte", and so is every other version's tree.
DetachKeepsViews ==
  [][\A v \in VersionIds :
       Detach(v) \/ (\E l \in UserLabels : PromoteDetached(v, l))
         => \A d \in VersionIds, p \in Paths : Resolve(d, p)' = Resolve(d, p)]_vars

\* sweepHistory leaves in its root no trace of history: no tombstone, no
\* parent, no deleted version; and in the workspace no unreferenced blob.
SweepLeavesNoHistory ==
  [][\A r \in VersionRoots : SweepHistory(r) =>
       /\ blobs' = References(entries')
       /\ \A v \in VersionIds : RootOf[v] = r /\ Allocated(v) =>
            /\ status'[v] # "deleted"
            /\ parent'[v] = NoVersion
            /\ \A p \in Paths : entries'[v][p] # Tombstone]_vars

\* The doc of renameVersion: "With swap: true, atomically move an existing
\* label out of the way ... and assign that label to the current version."  A
\* promotion that displaced a version leaves the label naming the promoted one.
PromotedLabelResolves ==
  [][\A v \in VersionIds, l \in UserLabels :
       PromoteRetain(v, l) /\ LiveHolders(RootOf[v], l) \ {v} # {}
         => LiveHolders(RootOf[v], l)' = {v}]_vars
=============================================================================
