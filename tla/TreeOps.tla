------------------------------ MODULE TreeOps ------------------------------
(***************************************************************************)
(* The public operations of a filesystem instance on the tree of its       *)
(* version, each as one transaction that no other one overlaps (TreeRace   *)
(* has the statements of some of them interleaved), with the node count    *)
(* the instance caches. The count is kept by the instance: a transaction   *)
(* that fails takes its rows back, and leaves the count as it was moved.   *)
(***************************************************************************)
EXTENDS Merge, Lookups

CONSTANTS
  MaxFiles,         \* maxFiles
  MaxDepth,         \* maxDepth
  MaxCpNodes,       \* maxCpNodes
  Headroom,         \* distance to maxFiles under which nodes are counted (16)
  NoCount,          \* the instance has not counted yet
  Targets,          \* targets of the links that are made
  Sources,          \* versions to merge from: view, view of the common ancestor, whether
                    \* the version is that ancestor
  Selections,       \* paths and pathScope a merge is given
  MaxSteps          \* bound: operations of a behaviour

\* What a version may show at a path, in its own view or in that of a source.
ViewRow == (Row \ {Tombstone}) \cup {Absent}
ASSUME LimitsAssumption == {MaxFiles, Headroom, MaxCpNodes} \subseteq Nat
ASSUME TargetsAssumption == Targets \subseteq Paths
ASSUME SourcesAssumption ==
  \A s \in Sources : /\ s.view \in [Paths -> ViewRow]
                     /\ s.base \in [Paths -> ViewRow]
                     /\ s.ancestor => s.base = s.view

VARIABLES
  own,              \* rows of the version
  cachedNodeCount,  \* cachedNodeCount of the instance
  steps             \* operations so far

vars == <<own, cachedNodeCount, steps>>

\* After init(): the version owns the root directory.
Init ==
  /\ own = [p \in Paths |-> IF p = Root THEN Directory("0755") ELSE Absent]
  /\ cachedNodeCount = NoCount
  /\ steps = 0

\* What a statement with a counted node leaves: its status, the rows, the count.
Outcome(status, rows, count) == [status |-> status, own |-> rows, count |-> count]

Step == steps < MaxSteps /\ steps' = steps + 1

\* COMMIT, or ROLLBACK of the rows.
Ends(outcome) ==
  /\ Step
  /\ own' = [p \in Paths |-> IF outcome.status = "ok" THEN outcome.own[p] ELSE own[p]]
  /\ cachedNodeCount' = outcome.count
Commits(rows) == Step /\ own' = rows /\ UNCHANGED cachedNodeCount

-----------------------------------------------------------------------------
\* validateNodeCount: trusts the cached count at a distance, else counts.
HasHeadroom(count) == count # NoCount /\ count + Headroom < MaxFiles
\* Mutant: off by one.
ValidNodeCountAtLimit(rows, count) == HasHeadroom(count) \/ NodeCount(rows) <= MaxFiles
ValidNodeCount(rows, count) == HasHeadroom(count) \/ NodeCount(rows) < MaxFiles
Counted(rows, count) == IF HasHeadroom(count) THEN count + 1 ELSE NodeCount(rows) + 1
Decremented(count) == IF count > 0 THEN count - 1 ELSE count

\* One attempt of the fused write. A row the version had already, even a
\* tombstone, is no insert: the count goes back.
AttemptWrite(rows, count, p, content) ==
  LET status == WriteStatus(rows, p)
      counted == Counted(rows, count)
  IN IF ~ValidNodeCount(rows, count) THEN Outcome("limit", rows, counted)
     ELSE IF status # "ok" THEN Outcome(status, rows, Decremented(counted))
     ELSE Outcome("ok", Upserted(rows, p, File(content, "0644")),
                  IF rows[p] = Absent THEN counted ELSE Decremented(counted))

\* The fast path and internalWriteFile: a missing parent is made, then retried.
WriteOutcome(rows, count, p, content) ==
  LET first == AttemptWrite(rows, count, p, content)
  IN IF first.status # "enoent" \/ Parent(p) = Root THEN first
     ELSE IF ~MkdirPossible(rows, Parent(p)) THEN Outcome("enotdir", rows, first.count)
     ELSE AttemptWrite(WithDirectories(rows, Parent(p)), first.count, p, content)

WriteFile(p, content) ==
  /\ Len(p) <= MaxDepth
  /\ Ends(WriteOutcome(own, cachedNodeCount, p, content))

\* validateFileSize of the content with the piece
AppendFits(rows, p) == ShowsOther(rows, p) => Len(Entry(rows, p).data) + 1 <= MaxFileSize

\* appendFile reads the content and writes it back with the new piece; a
\* symbolic link is not followed, it has no content and becomes a file.
AppendFile(p, piece) ==
  LET rows == WithDirectories(own, Parent(p))
      old == IF ShowsOther(rows, p) /\ Entry(rows, p).type = "file"
             THEN Entry(rows, p).data ELSE <<>>
  IN /\ Len(p) <= MaxDepth
     /\ MkdirPossible(own, Parent(p))
     /\ ~ShowsDirectory(rows, p)
     /\ AppendFits(rows, p)
     /\ Ends(WriteOutcome(rows, cachedNodeCount, p, Append(old, piece)))

Mkdir(p, recursive) ==
  /\ Len(p) <= MaxDepth
  /\ IF recursive
     THEN /\ MkdirPossible(own, p)
          /\ Commits(WithDirectories(own, p))
     ELSE /\ ~Shows(own, p)
          /\ ShowsDirectory(own, Parent(p))
          /\ Commits(Upserted(own, p, Directory("0755")))

RmRecursive(p) ==
  /\ ShowsDirectory(own, p)
  /\ Commits(TombstonedSubtree(own, p))

\* Mutant: a directory with children too.
RmAny(p) ==
  /\ Shows(own, p)
  /\ Commits(Upserted(own, p, Tombstone))

\* A file, a link or an empty directory.
RmOne(p) ==
  /\ Shows(own, p)
  /\ ShowsDirectory(own, p) => Children(own, p) = {}
  /\ Commits(Upserted(own, p, Tombstone))

-----------------------------------------------------------------------------
\* "src/" is no prefix of a path when src is "/"
Inside(src, dest) == dest = src \/ (src # Root /\ IsStrictPrefix(src, dest))

\* mv onto an empty directory or a non-directory of the same kind replaces it.
CanMove(src, dest) ==
  /\ ~Inside(src, dest)
  /\ Shows(own, src)
  /\ ShowsDirectory(own, Parent(dest))
  /\ Shows(own, dest) => (ShowsDirectory(own, dest) <=> ShowsDirectory(own, src))
  /\ ShowsDirectory(own, dest) => Children(own, dest) = {}

Moved(src, dest) ==
  LET cleared == IF Shows(own, dest) THEN Upserted(own, dest, Tombstone) ELSE own
  IN IF ShowsDirectory(own, src)
     THEN TombstonedSubtree(CopiedSubtree(cleared, src, dest, TRUE), src)
     ELSE Upserted(Upserted(cleared, dest, Entry(own, src)), src, Tombstone)

Mv(src, dest) ==
  /\ CanMove(src, dest)
  /\ CopyFits(own, src, dest)
  /\ Commits(Moved(src, dest))

\* cp in progress: the rows, the counts, and the entries under src whose
\* recursive call is still to come.
\* A directory onto none or an empty one: counted, then one statement.
CopyTree(cp, from, to, rows, includeRoot) ==
  LET shown == {q \in Under(from) : Shows(rows, q)}
      files == {q \in shown : Entry(rows, q).type = "file"}
      fits == /\ Cardinality(shown) <= MaxCpNodes
              /\ files = {} \/ NodeCount(rows) + Cardinality(files) <= MaxFiles
  IN [cp EXCEPT !.own = IF fits THEN CopiedSubtree(rows, from, to, includeRoot) ELSE rows,
                !.status = IF fits THEN "ok" ELSE "limit"]

\* A file: counted unless it replaces one.
CopyFile(cp, from, to) ==
  LET replaces == Shows(cp.own, to)
      fits == replaces \/ ValidNodeCount(cp.own, cp.count)
  IN [cp EXCEPT !.own = IF fits THEN Upserted(cp.own, to, Entry(cp.own, from)) ELSE cp.own,
                !.count = IF replaces THEN cp.count ELSE Counted(cp.own, cp.count),
                !.status = IF fits THEN "ok" ELSE "limit"]

\* One call of internalCp, for the deepest entry to be copied. A destination
\* that is a directory with children leads to a call for each child.
CopyOne(cp) ==
  LET from == CHOOSE q \in cp.todo : \A r \in cp.todo : Len(r) <= Len(q)
      to == Image(from, cp.src, cp.dest)
      rows == cp.own
      made == WithDirectories(rows, to)
      next == [cp EXCEPT !.nodes = cp.nodes + 1, !.todo = cp.todo \ {from}]
      refused == [cp EXCEPT !.status = "refused"]
  IN IF \/ to \notin Paths \/ Inside(from, to)
        \/ ~Shows(rows, from) \/ next.nodes > MaxCpNodes THEN refused
     ELSE IF ShowsDirectory(rows, from) THEN
       IF ShowsDirectory(rows, to) /\ Children(rows, to) = {}
       THEN CopyTree(next, from, to, rows, FALSE)
       ELSE IF ~MkdirPossible(rows, to) THEN refused
       ELSE IF ~Shows(rows, to) THEN CopyTree(next, from, to, made, TRUE)
       ELSE [next EXCEPT !.own = made, !.todo = next.todo \cup Children(made, from)]
     ELSE IF Entry(rows, from).type = "symlink"
     THEN [next EXCEPT !.own = Upserted(rows, to, Symlink(Entry(rows, from).data))]
     ELSE IF ~ShowsDirectory(rows, Parent(to)) \/ ShowsDirectory(rows, to) THEN refused
     ELSE CopyFile(next, from, to)

CopyNext(cp) == IF cp.status = "ok" /\ cp.todo # {} THEN CopyOne(cp) ELSE cp

\* Each call counts one node, so that no more than MaxCpNodes succeed.
CpOutcome(src, dest) ==
  LET start == [src |-> src, dest |-> dest, own |-> own, count |-> cachedNodeCount,
                nodes |-> 0, todo |-> {src}, status |-> "ok"]
      after[n \in 0..MaxCpNodes + 1] == IF n = 0 THEN start ELSE CopyNext(after[n - 1])
  IN after[MaxCpNodes + 1]

Cp(src, dest, recursive) ==
  /\ ShowsDirectory(own, src) => recursive
  /\ CopyFits(own, src, dest)
  /\ Ends(CpOutcome(src, dest))

-----------------------------------------------------------------------------
\* symlink replaces whatever is at the path.
MakeSymlink(target, p) ==
  /\ ShowsDirectory(own, Parent(p))
  /\ Len(target) <= MaxDepth
  /\ Commits(Upserted(own, p, Symlink(target)))

Link(src, dest) ==
  LET counted == Shows(own, dest)
  IN /\ ShowsOther(own, src)
     /\ ShowsDirectory(own, Parent(dest))
     /\ ~ShowsDirectory(own, dest)
     /\ Ends(IF counted THEN Outcome("ok", Upserted(own, dest, Entry(own, src)), cachedNodeCount)
             ELSE IF ~ValidNodeCount(own, cachedNodeCount)
             THEN Outcome("limit", own, Counted(own, cachedNodeCount))
             ELSE Outcome("ok", Upserted(own, dest, Entry(own, src)),
                          Counted(own, cachedNodeCount)))

\* UPDATE of the mode alone
WithMode(row, mode) == [type |-> row.type, data |-> row.data, mode |-> mode]

\* chmod, and utimes but for the mode, follow links and write the row reached.
Chmod(p, mode) ==
  LET reached == Followed(own, NothingHidden, p)
  IN /\ reached.error = "none"
     /\ Commits(Upserted(own, reached.at, WithMode(Entry(own, reached.at), mode)))

-----------------------------------------------------------------------------
Strategies == {"fail", "ours", "theirs"}
Everything == [filters |-> {}, scope |-> Root]
MergeFrom(rows, source, strategy, selection) ==
  MergeOf(View(rows), source.view, source.base, source.ancestor, strategy,
          selection.filters, selection.scope, MaxFiles)
RevertFrom(rows, source, selection) ==
  RevertOf(View(rows), source.view, selection.filters, selection.scope, MaxFiles)
CherryPickFrom(rows, source, selection) ==
  CherryPickOf(View(rows), source.view, selection.filters, MaxFiles)

\* A refusal throws before anything is written; so does a conflict under "fail",
\* which reports it. The cached count does not follow.
Applies(result) == result.status = "ok" /\ Commits(Merged(own, result))
MergeVersion(source, strategy, selection) == Applies(MergeFrom(own, source, strategy, selection))
CherryPick(source, selection) ==
  selection.filters # {} /\ Applies(CherryPickFrom(own, source, selection))
Revert(source, selection) == Applies(RevertFrom(own, source, selection))

Next ==
  \/ \E p \in Paths : \E t \in Tokens : WriteFile(p, <<t>>)
  \/ \E p \in Paths : \E t \in Tokens : AppendFile(p, t)
  \/ \E p \in Paths : \E recursive \in BOOLEAN : Mkdir(p, recursive)
  \/ \E p \in Paths : RmRecursive(p) \/ RmOne(p)
  \/ \E src, dest \in Paths : Mv(src, dest)
  \/ \E src, dest \in Paths : \E recursive \in BOOLEAN : Cp(src, dest, recursive)
  \/ \E target \in Targets, p \in Paths : MakeSymlink(target, p)
  \/ \E src, dest \in Paths : Link(src, dest)
  \/ \E p \in Paths : \E m \in Modes : Chmod(p, m)
  \/ \E source \in Sources, selection \in Selections :
       \/ \E strategy \in Strategies : MergeVersion(source, strategy, selection)
       \/ CherryPick(source, selection)
       \/ Revert(source, selection)

Spec == Init /\ [][Next]_vars

-----------------------------------------------------------------------------
\* Every path a view shows has a directory above it.
IsTree(view) == \A p \in Paths : view[p] # Absent => IsDirectory(view, Parent(p))

\* No operation leaves an entry without a directory above it, but those that
\* put something else in the place of one: symlink and cp of a link replace
\* whatever they find, and "/" itself can be removed or moved away. A merge may
\* (see MergeOrphansOnlyOurs), and so may what copies a selection only or from
\* a version that shows no tree.
KeepsTreeShape ==
  [][TreeShaped(own) /\ ~TreeShaped(own') =>
       \/ \E target \in Targets, p \in Paths : ShowsDirectory(own, p) /\ MakeSymlink(target, p)
       \/ \E src, dest \in Paths : /\ \E q \in Under(src) : Shows(own, q) /\ Entry(own, q).type = "symlink"
                                   /\ Cp(src, dest, TRUE)
       \/ \E source \in Sources, selection \in Selections :
            \/ \E strategy \in Strategies : MergeVersion(source, strategy, selection)
            \/ CherryPick(source, selection)
            \/ /\ selection # Everything \/ ~IsTree(source.view)
               /\ Revert(source, selection)
       \/ ~Shows(own', Root)]_vars

\* mv takes everything shown at and under the source to the destination,
\* leaves nothing behind and touches nothing else (of "/", see MvKeepsNodes).
MvTakesSubtree ==
  TreeShaped(own) => \A src \in Paths \ {Root}, dest \in Paths :
    CanMove(src, dest) /\ CopyFits(own, src, dest) =>
      \A p \in Paths :
        Entry(Moved(src, dest), p) =
          CASE p \in Under(dest) -> IF Image(p, dest, src) \in Paths
                                   THEN Entry(own, Image(p, dest, src)) ELSE Absent
            [] p \in Under(src) -> Absent
            [] OTHER -> Entry(own, p)

\* Nothing is copied into the source. (A directory copied into one it lies in
\* may overwrite entries of its own that are still to be copied.)
Apart(src, dest) == \A q \in Under(src) : Shows(own, q) => Image(q, src, dest) \notin Under(src)

\* cp -r leaves the source as it was, adds its image to the destination, and
\* changes nothing that is neither.
CpAddsImage ==
  TreeShaped(own) => \A src \in Paths \ {Root}, dest \in Paths :
    LET copy == CpOutcome(src, dest)
    IN CopyFits(own, src, dest) /\ Apart(src, dest) /\ copy.status = "ok" =>
         \A p \in Paths :
           LET from == Image(p, dest, src)
           IN IF p \in Under(dest) /\ from \in Paths /\ Shows(own, from)
              THEN /\ Shows(copy.own, p)
                   /\ Entry(copy.own, p).type = Entry(own, from).type
                   /\ Entry(copy.own, p).data = Entry(own, from).data
              ELSE p \in Segments(dest) \/ Entry(copy.own, p) = Entry(own, p)

\* What mv and cp promise of a whole subtree.
SubtreesArrive == MvTakesSubtree /\ CpAddsImage

\* "Node limit reached": a write, an append or a link takes a version past
\* maxFiles only where the instance trusted the count it cached, or where the
\* directories a write made on its way, which nobody counts, are more than the
\* distance at which it trusts the count of its first attempt.
WritesKeepLimit ==
  [][\/ NodeCount(own') <= MaxFiles
     \/ NodeCount(own') <= NodeCount(own)
     \/ HasHeadroom(cachedNodeCount)
     \/ ~\E p \in Paths : \/ Len(p) <= Headroom + 1 /\ \E t \in Tokens : WriteFile(p, <<t>>)
                          \/ \E t \in Tokens : AppendFile(p, t)
                          \/ \E src \in Paths : Link(src, p)]_vars

\* Listings agree with lookups on every tree that operations lead to.
ListingsAgree == LookupsAgree(own)

-----------------------------------------------------------------------------
WithTheirs(source) == View(Merged(own, MergeFrom(own, source, "theirs", Everything)))

\* A merge is done after one call: the same call again applies nothing.
MergeIsIdempotent ==
  \A source \in Sources, selection \in Selections, strategy \in Strategies :
    LET first == MergeFrom(own, source, strategy, selection)
    IN IsTree(source.view) =>
         MergeFrom(Merged(own, first), source, strategy, selection).applied = {}

\* What the destination changed since the common ancestor stays as it is under
\* "fail" and "ours", but a directory it removed that something is put under.
MergeKeepsOurs ==
  \A source \in Sources, selection \in Selections, strategy \in {"fail", "ours"} :
    LET result == MergeFrom(own, source, strategy, selection)
        post == View(Merged(own, result))
    IN \A p \in Paths : Entry(own, p) # source.base[p] /\ post[p] # Entry(own, p) =>
         /\ ~Shows(own, p) /\ IsDirectory(post, p)
         /\ \E q \in Landing(result.writes) : IsStrictPrefix(p, q)

\* A merge of everything leaves an entry without its directory only where the
\* two sides disagree about the directory: the source removed or replaced it
\* and this side changed the entry, or this side did and the source has a new
\* directory in it. Files and links bring the directories above them along.
MergeOrphansOnlyOurs ==
  TreeShaped(own) => \A source \in Sources, strategy \in Strategies :
    LET post == View(Merged(own, MergeFrom(own, source, strategy, Everything)))
    IN IsTree(source.view) => \A p \in Paths :
         post[p] # Absent /\ ~IsDirectory(post, Parent(p)) =>
           \/ /\ ~IsDirectory(source.view, Parent(p))
              /\ Entry(own, p) # source.base[p]
           \/ /\ IsDirectory(source.view, p) /\ ~Shows(own, p)
              /\ ~ShowsDirectory(own, Parent(p))
              /\ Entry(own, Parent(p)) # source.base[Parent(p)]

\* A revert of everything shows what the target shows, and so does a merge into
\* a version without changes of its own.
WholeCopyReachesSource ==
  \A source \in Sources :
    LET revert == RevertFrom(own, source, Everything)
    IN IsTree(source.view) =>
         /\ revert.status = "ok" => View(Merged(own, revert)) = source.view
         /\ View(own) = source.base /\ MergeFrom(own, source, "fail", Everything).status = "ok"
              => WithTheirs(source) = source.view

\* mv loses nothing: it refuses to move a directory into itself.
MvKeepsNodes ==
  \A src, dest \in Paths : CanMove(src, dest) /\ CopyFits(own, src, dest) /\ Walk(own, src) # {} =>
    Walk(Moved(src, dest), Root) # {}
=============================================================================
