# A verification development for bash-gres

bash-gres stores a virtual filesystem in PostgreSQL. Its files live in
copy-on-write *versions*: `fork` links a version to its parent and copies
nothing, every read walks a closure table to the nearest ancestor that has a row
for the path. This directory holds TLA+ models of that system, TLC
configurations that check them on small instances, and proofs that hold for
every instance. Paths below are relative to the repository root.

## Inventory

| Component | State | Operations | Correct when |
|---|---|---|---|
| Version graph (`lib/core/filesystem/base/version.ts`, `ops/fork.ts`, `ops/detach.ts`) | `fs_version_roots`, `fs_versions`, `version_ancestors` | `init`/`ensureVersion`, `mkdir({versioned})`, `fork`, `detach` | the closure table is the reachability of the parents; parents exist; detaching changes no tree |
| Labels (`ops/rename-version.ts`, `ops/promote-to.ts`) | `fs_versions.label` | `renameVersion`, `promoteTo` | a label names one live version; a promotion leaves the label naming the promoted version |
| Removal (`ops/delete-version*.ts`, `ops/sweep-history.ts`, `ops/remove-version-root.ts`) | all tables | `deleteVersion`, `dispose`, `sweepHistory`, `rm({deleteVersionRoot})` | other versions keep their trees; no entry loses its blob; a sweep leaves nothing behind |
| Visibility and path queries (`base/visibility.ts`, `filesystem.ts`) | none | `resolveEntry`, visible entry maps, `stat`, `readdir`, `walk`, `glob`, ... | a version shows its parent's tree, live, except at the paths it owns; listings agree with single lookups |
| Entry writes (`base/write-ops.ts`, `filesystem.ts`) | `fs_entries`, `fs_blobs`, node counter | `writeFile`, `appendFile`, `mkdir`, `rm`, `cp`, `mv`, `symlink`, `link`, `chmod` | the visible paths form a tree; limits hold; an operation that runs alone is atomic |
| Instance (`filesystem.ts`, `base/state.ts`) | `cachedVersionId`, label, post-commit hooks | constructor, `init`, `transaction`, `versioned` | the cache names a version of the instance's label; a rollback leaves no trace |
| Merge (`ops/merge.ts`, `ops/cherry-pick.ts`, `ops/revert.ts`, `ops/expand-parent-directories.ts`) | entries of the target | `merge`, `cherryPick`, `revert` | three-way classification against the common ancestor; parents come with their children |
| Diff and history (`ops/diff*.ts`, `ops/fetch-*.ts`, `ops/version-diff*.ts`, `ops/list-*.ts`, `ops/get-usage.ts`) | cursor of a stream | `diff`, `versionDiff`, `listHistory`, streams, `getUsage` | the change list of a version is the difference from its parent's tree; paging loses and repeats nothing |
| Limits (`base/write-ops.ts`, `ops/validate-batch-node-count.ts`) | per-instance node count, advisory lock | write validations | `maxFiles`, `maxWorkspaceBytes` |
| Reads (`filesystem/internals/coalescer.ts`, `filesystem.ts`) | batch being filled, statements on their way | `readFile`, `readFileRange`, `readFileLines`, `readFileChunks` | batching never changes an answer; every call settles; parts add up to the whole |
| Excludes, mounts, globs (`exclude.ts`, `mounts.ts`, `filesystem/internals/glob.ts`, `path-encoding.ts`) | none | predicates and SQL clauses | both forms decide alike; labels decode to the name |
| Chunking and indexing (`chunking.ts`, `base/write-ops.ts`, `filesystem.ts`) | `fs_blob_chunks`, `fs_chunk_embeddings` | `chunkMarkdown`, writes, `backfillChunks`, `indexChunkEmbeddings` | chunks partition the lines; a blob has the rows of one chunking; a pass covers what it saw |
| Search (`search.ts`) | none | `textSearch`, `semanticSearch`, `hybridSearch` | the best visible hits, capped per file, in order |
| Adapters (`lib/adapters/*/index.ts`) | pooled connections | `query`, `transaction` | a function runs on its own connection, under its own workspace setting; all its rows or none |
| Schema, tracing, documentation site, examples, benchmarks | | | see "Not modelled" |

Instances share nothing but the database. Every mutating operation is one
transaction at READ COMMITTED; most that change the graph take transaction-scoped
advisory locks on version ids (`lockVersions`), but `fork` and the entry writes take
none. The hard behaviours are therefore: stale cached ids, statements of two
transactions interleaving, decisions made from a read that precedes the lock, the
manual maintenance of the closure table, blobs shared without foreign key or count,
caches that survive a rollback, connections that are handed on, and answers that
arrive after the rows have changed. `PROJECT.json` lists each at its line.

## Modules

| Module | Models | Status |
|---|---|---|
| `VersionStore` | version graph, labels, removal, visibility and the entry writes that matter to them; one action per operation | checked, proved |
| `OverlayTree` | the abstract specification: a forest of versions, each showing a tree | implemented by `VersionStore` (checked, proved) |
| `StoreRefinement` | the refinement mapping from the tables to `OverlayTree` | |
| `History` | diff, change lists, common ancestor, history pages and usage on the tables of `VersionStore` | checked, proved |
| `GraphRace` | fork, detach, sweep and the deletes as concurrent transactions, statement by statement | checked, proved |
| `BlobRace` | writes against the blob collection of hard delete and sweep, part by part | checked, proved |
| `RowLocks` | row locks, advisory locks and deadlocks, extended by the race modules and `Quota` | |
| `Tree` | the tree of paths a version shows, and the row changes operations are made of | |
| `TreeOps` | the public writing operations of an instance on that tree, with its limits; extends `Merge` and `Lookups` | checked, proved |
| `Merge` | merge, cherryPick and revert: classification, strategies, selection, parent expansion | checked, proved |
| `Lookups` | exists, stat, lstat, realpath, readlink, readdir, walk, glob, with what an instance hides | checked, proved |
| `TreeRace` | write, append, rm, mv and merge on one version, interleaved statement by statement | checked, proved |
| `Handles` | instances, cached ids, transaction facades, rollback and post-commit hooks | checked, proved |
| `Connections` | `transaction()` down to the pooled connection, row security setting, lost COMMITs, late calls | checked, proved |
| `Reads` | the read coalescer and what follows a row: links, errors | checked, with liveness; safety proved |
| `Slices` | reading parts of a file | checked |
| `Quota` | `maxWorkspaceBytes` with several instances and a collection | checked, proved |
| `Streams` | `diffStream` and `versionDiffStream` while others write | checked, proved |
| `Rules` | excludes, mounts, globs and label encoding, each in its two forms | checked, proved |
| `Chunking` | `chunkMarkdown` on lines | checked |
| `Indexing` | chunk rows, backfill and the embedding passes | checked, proved |
| `Search` | candidates, fusion, cap and limit | checked, proved |
| `MCVersionStore`, `MCTreeOps`, `MCHandles`, `MCComponents` | instances for TLC | |
| `VersionStoreProofs` | theorems about `VersionStore`, `History` and the refinement | proved |
| `GraphRaceProofs`, `BlobRaceProofs` | theorems about the races they are named after | proved |
| `TreeProofs` | theorems about merges and about `TreeRace` | proved |
| `OpsProofs` | theorems about the operations of `TreeOps` and about `Lookups` | proved |
| `HandleProofs`, `ContentProofs`, `ReadProofs` | theorems about `Handles` and `Connections`; `Indexing`, `Quota` and `Search`; `Streams`, `Reads` and `Rules` | proved |

### VersionStore

Each table is a variable, a row a value of a function: `status[v]` says whether
`fs_versions` has a row for id `v` and whether its `deleted_at` is set;
`closure[d][a]` is the depth of the `version_ancestors` row; `entries[v][p]` is
the `fs_entries` row. Ids come from a sequence and are never reused, hence the
status `"gone"`. A file's shape is its content, standing for the hash that keys
`fs_blobs`; directories have no blob; a deletion is a tombstone row.

Each action is one transaction with everything it changes: `Detach` includes the
materialising insert, the parent update, the closure delete and the tombstone
delete; `HardDelete`, `SweepHistory` and `RemoveVersionRoot` include the blob
collection; `PromoteDiscard` is detach, swap and hard delete, or nothing. An
operation uses the id its instance resolved earlier, and `getCurrentVersionId`
never validates it again, so actions take any id ever allocated (`Allocated`)
unless a statement of the operation looks at the row (`HasRow`).

`Paths` are the paths directly below the root directory; the root directory
itself is visible wherever a version has a row, so `HasRow(v)` stands for "the
parent is visible" in `WriteFile`. `RemoveVersionRoot` and `MkdirVersioned`
copy or hide the whole tree below the version root's path in `"/"`.

Abstracted: sizes, modes and times of entries (`last_write_at` included),
user-facing label validation, the chunk table, limits and symlinks.

### OverlayTree

Says what the README of bash-gres promises with no closure table, tombstones or
blobs: a version has a base, a set of paths it owns and a tree. A write by `v` at
`p` reaches exactly the versions that follow `v` at `p` (`Followers`, the least
set closed under "overlays a member without owning `p`"). `Detach` changes no
tree. `StoreRefinement` maps `own` to the paths with a row and `view` to the
nearest-ancestor query.

### GraphRace

`VersionStore` takes an operation as one step; `GraphRace` asks when that is
justified. Each client runs one transaction (`tx[c]`) whose statements are
actions named after the operation: `BeginDetach` is the read of the subtree,
`LockNext` one row lock or advisory lock at a time, `DetachDelete` the snapshot
of the closure delete, `DetachCommit` the commit that makes it all visible. Only
the graph tables are kept (`status`, `parent`, `closure`): entries follow the
closure, as `VersionStore` shows.

What PostgreSQL does is modelled where the operations rely on it and is external
in the map: a statement sees what committed before it started; row lock modes
conflict as documented (`Conflict`); the check of `parent_version_id` takes a key
share lock on the parent and looks at the latest row; `ON DELETE RESTRICT`
refuses a parent with committed children; a transaction's locks go when it ends;
the deadlock detector aborts one transaction of a cycle.

`stale` is a history variable: the versions forked while a detach or a sweep was
open, and those forked from them. Their closure rows may be wrong (see the
finding), and the properties of this module say that nothing else is. This is
deliberately coarse: it also covers forks of unrelated versions.

### BlobRace

The parts of a fused write (`WriteBlob`, `WriteEntry`, `BumpVersion`) share one
snapshot; PostgreSQL runs them in an unspecified order, the same for every
execution, hence `plan`, chosen in `Init`. `WriteBlob` waits for a transaction that
inserts or deletes the same blob, then inserts it or, finding it there, leaves no
lock. A removal deletes its entries row by row (`VisitEntry`; a locked row is
looked at again after the wait), deletes the version row, takes the snapshot of the
blob DELETE (`SnapshotGarbage`) and visits the rows found (`CollectBlob`). A row
that another collection has deleted meanwhile is skipped. There is one path per
version and there are no ancestors, so a sweep materialises nothing. Two version
roots: `SweptIds` are those of the one the sweep belongs to.

`exposed` is a history variable: the entries of writes that found their blob there
and were open while some collection had found it unreferenced.

Not in this module: `removeVersionRoot` (its collection has the same form as that
of a hard delete), copies of entries between paths and versions, which take no part
in the blob table at all and are exposed in the same way.

### History

Reads the tables of `VersionStore`, so its properties are checked at every state
`store_safety` reaches. `Diff` joins two visible trees (`fetchDiff`, `diffCount`,
`diffVersions`); `Changes` and `PageChanges` read a version's own rows
(`fetchVersionChanges`, `fetchPageChanges`). That the two agree is not obvious: the
rows of a version were written against an older parent, and a detach, a sweep or a
tombstone that hides nothing lies between. `LowestCommonAncestor` is `findLCA`,
`ListHistory` one page with its cursor, `NextPage` the one the cursor leads to, and
`Usage` the figures of `getUsage`.

### Tree, TreeOps, Merge, Lookups

A version with rows of its own over what its ancestors show (`Inherited`, which
does not change during a behaviour). A path is a sequence of names, `/` the empty
one. `Tree` has the few row changes everything is made of: an upsert, a tombstone, a
tombstone per visible entry of a subtree, a copy of a visible subtree.

`TreeOps` has one action per public operation, each a transaction that nothing
overlaps: `writeFile` with its fast path and the retry after making the parents,
`appendFile`, `mkdir`, `rm` with and without `recursive`, `mv`, `cp`, `symlink`, `link`,
`chmod`, and the merges. The recursion of `internalCp` is a worklist (`CopyOne` is one
call): a call of a directory whose destination has children adds theirs to it, and
the deepest entry comes next. `chmod` writes the row that links lead to, as `Lookups`
follows them. `cachedNodeCount` moves as the code moves it: up by one when it
trusts the headroom, back to a COUNT when it does not, and it keeps what it was
moved to when the transaction fails.

`Merge` is written on views: a view gives the row shown at each path. `OnlyTheirs`
and `Conflicting` are the three-way classification, `Plan` the rows and tombstones
to write, `WithParents` the expansion of directories above what lands, `Refuses` and
`Exceeds` the errors before anything is written. `cherryPick` and `revert` share
`SourceWins`.

`Lookups` follows links the way the lookups do (`Followed`, at most
`maxSymlinkDepth` steps) and lists the way the one-statement queries do, for
instances that hide some paths.

### TreeRace

The operations of `TreeOps` that decide from a read, statement by statement: a
transaction is a list of steps (`todo`), reads fill `seen`, `Decide` turns what was
seen into statements, a statement locks its entry rows one by one and last the row
of the version whose `last_write_at` it sets, and keeps those locks to the end.
`stale` marks a transaction that another commit overlapped. What the code promises is
then exact: a transaction that was not overlapped has the effect of the operation
run alone (`AloneOn`: a write makes the directories above it only if its parent is not
shown, an append looks at each of them, `rm` of what is no directory puts a tombstone
at its own path), and only an overlapped one (or a merge) can turn a tree that has its
`/` into rows where an entry lacks the directory above it. Two appends that overlap lose
one piece, an `rm -r` that overlaps a write leaves the written file without visible
parent, and a merge applies what it decided before it had the lock: such commits are
`stale`, and no document of the repository excludes them.

### Handles

Instances with a label and a cached id, and one open transaction with its facade,
its own view of the version rows and the hooks queued for COMMIT. Rows committed and
rows of the transaction are kept apart (`db`, `tx.rows`). Two version roots: `/` and
a versioned directory, whose instance inside a transaction shares the hooks of the
facade. An id is `burned` when the transaction that inserted it rolled back: `init()`
that fails after `ensureVersion` leaves its instance on such an id. Top-level writes
wait while the transaction has rows of its own (`Clean`): concurrent writers of one
version row wait for each other in PostgreSQL, and `GraphRace` has what happens
between their statements. The rows are those of a workspace with
`historyRetention: "retain"`, where a deleted version keeps its row.

### Connections

`transaction()` of an adapter: `Connect`, `BEGIN`, the READ ONLY fence of a read-only
instance, `set_config` of the workspace that the row security policy reads, the
statements of the function, COMMIT or ROLLBACK, release. A connection is a record of
what it carries (`tx`, `setting`, `fenced`, `rows`). Modelled faults: a statement
fails (the transaction is then aborted, and a function that catches the error may go
on), the answer to COMMIT is lost, and statements that a function sends after it
ended (`Late`), which node-postgres runs on a connection that may belong to another
transaction by now.

### Reads, Slices

`Reads`: `Load` joins the batch being filled, `Flush` (a microtask, so before any
answer arrives) makes statements of at most `maxBatch` keys, `Execute` takes the rows
of that moment, `Reply`, `ManyFails` and `OneFails` settle the calls, and a link
takes a statement of its own. Rows change in between; `seen` notes what each path
has shown since the call. `Slices` are the functions of the four partial reads on a
text, with their checks. The content of a chunk is what was indexed: the headings the
chunk is under (`Breadcrumb`) and its lines, those of volatile front matter left out
(`Without`).

### Quota, Streams, Indexing

Each has several clients and one shared table. `Quota`: the advisory lock, the check,
the insert that waits for an uncommitted equal blob, the version row, collections
in between, and instances without the option. `Streams`: the two paged streams on the
rows that a fork and its parent have of their own, tombstones among them; between pages
others write and remove, labels move, the fork is detached (which drops its tombstones),
versions are deleted. `diffStream` keeps the id of its own version and looks the other
label up for every page; `versionDiffStream` keeps the parent it found first and takes
its pages from the rows of the version itself. `Indexing`:
the probe and the insert of chunk rows as two statements, backfills, collections, and
passes of `indexChunkEmbeddings` whose count, misses and batches are separate steps.
These modules, `Connections`, `Reads` and `TreeRace` name their initial and next-state
predicates `StreamInit`, `IndexNext`, `PoolSpec`, `RaceSpec`, ... so that
`MCComponents` can extend them side by side, with `Handles`, `Rules`, `Chunking`,
`Search` and `Slices`, and their assumptions are evaluated by the run that checks them.

### Rules, Chunking, Search

Pure functions, applied to every bounded input. `Rules` translates both forms of
each decision: `isExcluded` and `excludeWhereSql`, `mountVisible` and
`mountWhereSql`, `globToRegex` and the query plan of `glob()`, `encodeLabel` and
`decodeLabel`. A regular expression is a sequence of tokens, each with the spans of the
text that it fits, and matches where spans follow on each other from the beginning to
the end (`Matches`). That of a whole path is put together segment by segment, as the
source concatenates it (`Piece`), on the places before and after the names: two `**` in a
row each ask for a separator and so miss paths that one `**` takes, and a star takes an
empty name under "/". In a glob a `**` within a segment crosses "/", while the query plan
looks for whole segments only. The one variable of `Rules` is the rule that is put to all
paths (`Ask`).
`Chunking` is `chunkMarkdown` on lines of a kind and a cost. `Search` takes the scores of
chunks as given and computes what the three searches return; its one variable is what is
stored (`Store`).

## Runs

| Run | Instance | Shows |
|---|---|---|
| `store_safety` | 3 ids, 1 root, 2 labels, 1 path, 1 content | the invariants of the tables and of the history queries, two action properties, and that `VersionStore` implements `OverlayTree` |
| `store_roots` | 3 ids in 2 roots, 2 labels, 1 path, 1 content | the refinement and the blob invariant across roots |
| `store_promote` | 3 ids, 1 root, 2 labels, 1 path, 1 content | expected violation, see below |
| `graph_race` | 2 clients, 3 versions in any forest, a fourth id for a fork, 3 transactions | the graph transactions serialise, and all end |
| `graph_fork`, `graph_deadlock` | the same with 2 transactions | expected violations, see below |
| `blob_race` | 2 clients, 2 versions in 2 roots, 2 contents, 3 transactions | only exposed entries lose their blob |
| `blob_loss` | the same with 1 content and 2 transactions | expected violation, see below |
| `tree_ops` | names `a`, `b`, paths of length 2, an inherited directory, file and link, 5 nodes, 3 operations | operations and merges on a tree |
| `move_root` | the same with 8 nodes | expected violation, see below |
| `components` | one small instance of each of `TreeRace`, `Handles`, `Reads`, `Quota`, `Streams`, `Indexing`, `Connections`; every bounded input of `Rules`, `Chunking`, `Slices`, `Search` | the properties of each |
| `handle_label` | the instance of `Handles` in `components` | expected violation, see below |

In `store_safety` three ids give a grandparent, a parent and a child, a version
displaced by a swap, and a chain with a removed middle; every property is about a
version and what it inherits or about two versions, so a fourth id only lengthens
chains. With one path and one content the path is a directory, a file, a tombstone or
without a row in each version, and every file shares the one blob, whose collection must
then spare the others; operations treat paths independently, and that versions which own
different files keep theirs is left to the proofs, which are for any contents. The
cfgs use symmetry in ids, contents and labels where nothing distinguishes them
(`store_roots` keeps the ids of different roots and the default label apart).
Deadlock is not checked in any run: supplies of ids and the bounds on operations run
out, and a workspace may be idle, nothing has to happen. No fairness is assumed in
the `store_`, `tree_ops` and `blob_` runs, all their properties are safety.

In `graph_race` the initial states are all forests over three versions, so a
detach finds ancestors, descendants and siblings at once. Two clients and three
transactions give every pair of concurrent operations, each pair preceded or
followed by a third operation, and one client that is still in its first
transaction while the other runs two. Fairness: an open transaction executes its
next statement whenever that is enabled (a client awaits its statements one after
the other, and PostgreSQL queues lock waiters), and the deadlock detector runs.
No client has to open a transaction.

In `blob_race` one version is in the root that is swept and one is not, so both
kinds of collection meet writers inside and outside their locks; the initial states
have every combination of entries and garbage, and the third transaction lets a
blob be deleted and inserted again under a collection or write that is still open.

In `tree_ops` seven paths give a directory with children, a sibling, a link to a
directory and nesting up to the depth limit; the inherited rows make every tombstone
hide something. Limits are at the edge: five nodes with a headroom of two (16 in the
code), four nodes for `cp`, depth two. Three operations reach any two-step
preparation before the step a property looks at, and the merge properties are
evaluated with every source, strategy and selection at every state. The four merge
sources add and remove directories, files under them and the link; one has a new
directory below a directory of the base.

In `components` a behaviour is one of one component, the others stay in their
initial state: the state space is the sum and not the product. `TreeRace`: two
clients, two transactions, three touched paths. `Handles`: two instances, three ids,
four calls. `Reads`: three calls on two paths and one that cannot be encoded, batches
of two. `Quota`: three instances (one without the option), two blobs that exceed the
limit together. `Streams`: three paths, of which the parent shows two (the fork wrote
none, removed one, removed one and added the third, or removed both), pages of one and
two, three foreign steps.
`Indexing`: two clients with different options, two contents that share a text.
`Connections`: two tasks in two workspaces, two connections, both adapters, with and
without row security. The inputs are all patterns of up to two of eight segments, `**` among
them and next to itself, all patterns of three of `a`, `*` and `**`, globs with a `**`
within a segment as well, each with all paths up to length three and "/", all sets of up to three mounts, all
documents up to four lines and longer ones under a heading, all texts of five
characters with every span of lines as a chunk (with a heading or without, or as front
matter with any volatile lines) and all scores of two blobs of two chunks. Fairness: in `Reads` the
microtask runs and the database answers a statement, with rows or an error (the code
sets a statement timeout); no call has to be made.

Properties of the store runs: `TypeOK`; `ClosureFollowsParents`; `ParentsExist`;
`LiveLabelsUnique`; `BlobsBackEntries`; `GoneShowsNothing`; `DetachKeepsViews`
(what the doc of `detach` promises); `SweepLeavesNoHistory`; `ImplementsOverlay`;
`ChangesAreDiff`, `LowestAncestorDominates` and `QueriesAddUp` of `History`. Of
`GraphRace`: `ParentsExist` (which rests on the foreign key alone when a fork races a
hard delete), `ClosureFollowsParents`, `CommitsSerialize` (each commit leaves the
closure rows it would leave had it run alone at that moment), `EveryOpEnds`. Of
`BlobRace`: `OnlyExposedLoseBlobs`.

| Property | Says |
|---|---|
| `KeepsTreeShape` | no operation leaves an entry without a directory above it, but the named exceptions: `symlink` and `cp` of a link replace a directory, `/` can be removed, a merge or a partial copy may; it says nothing of the states after a removal of "/" |
| `SubtreesArrive` | `mv` takes the whole visible subtree and leaves nothing (`MvTakesSubtree`); `cp -r` leaves the source as it was, adds its image and touches nothing else (`CpAddsImage`), if nothing is copied into the source (`Apart`): a directory copied into one it lies in may overwrite entries of its own that are still to be copied |
| `WritesKeepLimit` | a write, an append or a link passes `maxFiles` only where the instance trusted its cached count, or where a path is so deep that the directories made for it, which nobody counts, are more than the headroom; there is one instance, so nothing is said of two that count at once |
| `MergeIsIdempotent`, `MergeKeepsOurs`, `MergeOrphansOnlyOurs`, `WholeCopyReachesSource` | from a source that is itself a tree, a second merge applies nothing; what the destination changed stays unless the strategy says otherwise; a merge orphans only what this side changed below a directory the source removed, or a new directory of a source below one this side removed or replaced; a whole revert shows the target |
| `ListingsAgree` | one-statement listings answer what following and listing step by step answers, with the same error |
| `UnoverlappedCommitsAreAtomic`, `OrphansNeedOverlap` | see TreeRace above; they say exactly which commits may go wrong (those that another overlapped), they do not exclude them |
| `OwnStepsKeepLabel`, `InitReachesVersion` | an instance says the label its version carries unless others changed it; `init()` reaches a live version of the label unless an id was cached before, be it a burned one |
| `TransactionsHold` | connections are clean when handed out, every statement of a function runs under its own setting and fence, and rows are committed whole and only as the verdict of the call says, but for the named cases |
| `SettlesAsUnbatched`, `EveryLoadSettles` | "Batching never changes what a caller gets", at some rows the paths had since; every call settles |
| `QuotaHolds` | the workspace never holds more than the largest limit while every storing instance has one |
| `StreamsPageOnce` | no path twice, every path that differed all along, none that never differed, and a failure only where a label is gone that has to be looked up; from `versionDiffStream` once its version is detached, only of the paths that the version shows |
| `IndexKeepsUp` | a blob has the rows of one chunking or none; a finished pass covers the view it read |
| `RulesAgree` | what one form of a rule hides the other hides, and a query of `glob()` drops nothing its expression takes, but for the named cases (see the divergences below) |
| `PartsAreWhole` | chunks partition the lines of a document; pages of lines and ranges make up the text; a chunk is its breadcrumb and the lines it names, volatile front matter apart |
| `SearchesHold` | answers are in order and within cap and limit, and lack a matching chunk that the instance sees only for better ones it sees |

### Finding: a promotion can leave a label without a version

`store_promote` finds: instance A is on version `dev`; instance B deletes `dev`;
A calls `promoteTo("main", {dropPrevious: true})`. A's cached id is not checked,
the swap renames the live holder of `main` away, the update of A's own row finds
a deleted row or none, and the displaced version is then deleted too. `main`
names no live version although the call reports success
(`lib/core/filesystem/ops/promote-to.ts:23`, `rename-version.ts:96`). The same
holds for `renameVersion` with `swap`.

### Finding: a version forked during a detach keeps its former ancestors

`graph_fork` finds: V has parent P. A detach of V reads the subtree {V}. A fork
of V commits; the new version W has closure rows to V and P. The detach now
deletes the rows that lead out of {V}: W's row to P stays, so W shows P's files
at paths V does not own, and P's later changes, although W's parent shows a
standalone tree. The same happens when the fork's statement took its snapshot
before the detach and inserts after it. `lib/core/filesystem/ops/detach.ts:10`
promises that these rows are gone. A fork that races a sweep is left, likewise,
with rows that no longer match its parent.

### Finding: detach and delete lock in opposite orders

`graph_deadlock` finds: a detach of V holds V's row (FOR UPDATE) and waits for
V's advisory lock; a delete of V holds the advisory lock and waits for the row.
PostgreSQL aborts one of them, so nothing is lost (`EveryOpEnds`,
`ClosureFollowsParents`), but a call fails with a deadlock error, contrary to
`lib/core/filesystem/ops/detach.ts:49` ("in sorted order to match other graph
mutators").

### Finding: a collection deletes a blob that a concurrent write relies on

`blob_loss` finds: a blob is in the table and no entry refers to it (an overwrite or
`rm` leaves it there, or the collecting transaction has just deleted its last
entry). A write of the same content finds it there. A sweep of any version root of
the workspace, or a hard delete, does not see the write's entry, deletes the blob
and commits. The write commits: its entry has no blob, and reading the file yields
no content. No lock separates the two: a write takes no advisory lock, and a sweep
locks the versions of its own root only. `blob_race` shows that this window is the
only one: a blob the write inserted itself, or one it found under deletion and
waited for, is never lost.

### Finding: mv of "/" removes the tree

`move_root` finds: `mv("/", "/a")` with `/a` absent. The check against moving a
directory into itself (`lib/core/filesystem.ts:1442`) tests the prefix `src + "/"`,
which is `"//"` for `/`. The tree is copied below `/a` and then every visible entry
under `/`, the copy included, gets a tombstone: the version shows nothing, not even
its root. `init()` does not repair it, its root insert meets the tombstone and does
nothing. `KeepsTreeShape` excludes the states after a removal of `/` for that reason.

### Finding: a rename in a versioned directory relabels the outer instance

`handle_label` finds: inside `fs.transaction(tx => ...)`, `tx.versioned("sub")` makes
an instance of another version root that has the hooks of the facade and `fs` as its
origin (`lib/core/filesystem.ts:146`). Its `renameVersion("dev")` queues a hook that
sets the label of `fs`. After COMMIT `fs.version` is `dev` while its version is still
`main`; a later call of `fs` that resolves by label finds another version or none.
`lib/core/filesystem/ops/rename-version.ts:21` promises that the label of the outer
instance follows its own rename.

### Divergences that properties name as exceptions

Met while modelling, each a carve-out of a property with its place in the code:
`transaction()` on node-postgres resolves although COMMIT rolled back, when the
function caught the error of a statement ("if `fn` returns, the transaction
commits", `base/state.ts:305`); facade calls after the end do not fail but run on
the released connection (`base/state.ts:314`); "both compute identical rows"
(`base/write-ops.ts:599`) is true of equal chunking options only; the node count is
decremented although "we never decrement" (`base/state.ts:85`); a merge of everything
can leave entries without a directory (`MergeOrphansOnlyOurs`): what this side kept
below a directory the source removed, and a new directory of the source below one this
side removed or replaced; a source that shows no tree may give a second merge something
to apply (`MergeIsIdempotent`); `tx.dispose()` leaves
the cached id of the outer instance; after a detach a `versionDiffStream` that is
under way goes on comparing the rows of its version with the former parent, so that the
paths the version had removed, whose tombstones the detach has dropped
(`ops/detach.ts:120`), and those the former parent adds later are never told
(`StreamsPageOnce`); an exclude pattern of stars alone (`/*`, `**/*`) hides "/" from
single reads and not from listings (`exclude.ts:352`, `ExcludesAgree`); two `**` in a row
in an exclude pattern match no ordinary path, in either form (`exclude.ts:216`, `:338`);
a `**` within a segment of a glob leaves the depth of the query fixed, so that
`glob("**.ts")` drops `src/a.ts`, and the last name after a `**` is compared whole
(`filesystem/internals/glob.ts:29`, `:88`, `GlobAgrees`); the misses an embedding pass
counts may exceed its total, so that `cacheHits` is negative.

## Proofs

`VersionStoreProofs` proves, for every set of ids, roots, labels, paths and
contents satisfying `RootsAssumption`, `LabelAssumption`,
`SentinelAssumption` and `FiniteAssumption` (the workspace root is a root, the default
label is a user label, the sentinels are no members of the sets they stand beside, ids
and paths are finitely many):

| Theorem | Statement |
|---|---|
| `TypeCorrect` | `Spec => []TypeOK` |
| `BlobsKept` | `Spec => []BlobsBackEntries` |
| `LabelsUnique` | `Spec => []LiveLabelsUnique` |
| `ClosureCorrect` | `Spec => []ClosureFollowsParents` |
| `ParentsCorrect` | `Spec => []ParentsExist` |
| `GoneIsInvisible` | `Spec => []GoneShowsNothing` |
| `DetachCorrect` | `Spec => DetachKeepsViews` |
| `SweepCorrect` | `Spec => SweepLeavesNoHistory` |
| `LowestAncestorCorrect` | `Spec => []LowestAncestorDominates` |
| `ChangesCorrect` | `Spec => []ChangesAreDiff` |
| `QueriesAlwaysAddUp` | `Spec => []QueriesAddUp` |
| `OverlayImplemented` | `Spec => ImplementsOverlay` |

`BlobsBackEntries` is inductive given `TypeOK`. `LiveLabelsUnique` is not: a swap
could give a version the generated label of another one. `LabelInv` adds that a
generated label is only ever carried by the version it was generated for
(`OwnLabels`).

The graph invariants rest on `ForestInv`. `ClosureFollowsParents` alone does not
survive a detach, because deleting "the rows that leave the subtree" is the right
thing only in a forest. The strengthening adds: parents exist and share the root
(`ParentsIn`), rows mention only existing versions (`RowsExist`), no version is
an ancestor of itself at another depth (`NoCycles`), depths add up along a chain
(`DepthsAdd`), and two ancestors of a version are comparable (`OneChain`).
`NewForest`, `DetachForest`, `RemoveForest` and `SweepForest` show that the four
ways in which operations change the graph preserve it, and `NextForest` reduces
each action to one of them.

`DetachCorrect` uses that a version's ancestors have distinct depths
(`DepthsDiffer`), so the nearest row is unique (`ResolveIs`), and compares the
nearest rows before and after: a descendant either already had a nearer row
inside the subtree or now finds the materialised one. `SweepCorrect` needs that an
id without a row has no tombstone (`NoDeadTombstones`): a sweep deletes the tombstones of
the live versions only.

`LowestAncestorCorrect` needs that two ancestors of a version are comparable and that
their depths add up: a common ancestor below the one chosen would have a smaller sum.
`ChangesCorrect` compares a version's own rows with what its parent shows; where it has
no row it shows what the parent shows (`ResolveInherits`).

`QueriesAlwaysAddUp` is about pages and counts. A page is the first of a finite set
of ancestors, ordered by depths that differ (`PageIs`), and the next one starts beyond
the depth of its last. By the least counterexample over the number of pages, what the
pages so far have listed is the ancestors up to a depth, each once (`ListedIs`); a page
that is not the last lists at least one version more, so no more pages are needed than
there are ids. The version after one in the list is its parent (`NextIsParent`), for
which no version may be its own parent (`NoSelfParent`: the closure table would not show
it). The usage of a version counts paths on one side and rows on the other, and the row
a path resolves to is an injection between the two.

`OverlayImplemented` is the simulation: `InitStep` and `NextStep` show that the state
`StoreRefinement` computes from the tables starts as `OverlayTree` starts and moves by
a step of it or not at all. The invariant it needs, `OverlayInv`, is `TypeOK`,
`ForestInv`, `LabelInv` and `FreshIdsBare` (an id the sequence has not handed out has no
entries, so that a fork starts with nothing of its own). The heart is `FollowersAre`:
the least set that `OverlayTree` calls followers is, in a forest, computed along the
parent pointers, and `WriteViews`, that a write changes the nearest row of exactly its
members. Then one lemma per action (`...Step`): `Detach`, `SweepHistory` and the
promotions map to `Detach`, relabellings and removals of several versions at once, the
blob collection to nothing.

`HandleProofs` proves, for every set of instances and labels and every bound in
Nat, given that `None` is no id (`BoundAssumption`, `NoneAssumption`):

| Theorem | Statement |
|---|---|
| `LabelsKept` | `Spec => OwnStepsKeepLabel` |
| `InitReaches` | `Spec => InitReachesVersion` |

Both are action properties, so what is needed is an invariant of the states they
start from. `Inv` is typing together with two facts: an id that an instance or a
facade has cached was handed out by the sequence (else a later insert could give the
cached id to a version of another label), and the rows of the open transaction
continue the committed ones (`Evolves`: a free id becomes burned or live, a live
version deleted, nothing comes back), so that COMMIT never takes a cached id back.
There is one lemma per operation (`...Keeps`), and the two theorems follow from what
those say about the one instance that acts.

The module also proves `ConnectionsSafe`, `PoolSpec => []TransactionsHold`, for every
set of tasks, connections and workspaces, every assignment of workspaces and every
bound, given that `Nobody` is neither a task nor a connection (`NobodyAssumption`).
`TransactionsHold` is not inductive: what a COMMIT adds to the table depends on what the
connection has gathered since BEGIN. `ConnInv` adds typing, that a task holds its connection
while it works and only then (`HoldersMatch`), what a connection carries in each phase
of its holder (`Serves`), and what a task has to show for its rows in each phase
(`Accounts`). One lemma per action; `Late`, which writes to a connection that belongs to
another task, is the one that needs `disturbed`.

`GraphRaceProofs` proves, for any number of versions, clients and transactions:

| Theorem | Statement |
|---|---|
| `ParentsAlwaysExist` | `Spec => []ParentsExist` |
| `ClosureAlwaysFollows` | `Spec => []ClosureFollowsParents` |
| `CommitsAreSerial` | `Spec => CommitsSerialize` |

A commit writes what an earlier statement checked, so `ParentsExist` is not inductive.
`Inv` adds typing; that locks of different clients are never in conflict (`LocksOK`);
that ids being forked are unused and belong to one fork each (`IdsUnique`); and, for
each transaction (`ClientOK`), what it has checked so far together with the row lock
that keeps it true until the commit: the parent of a fork has a row and is locked
against deletion, a version being deleted is locked and has no child outside the
transaction.

The other two need `SerialInv`, which says what the reads of an open transaction are
still worth when it commits. The versions that are not `stale` form a forest whose
closure rows agree with the parents (`Forest`: they stay inside, rows follow parents,
depths order them); versions without a row have no closure rows (`GoneHaveNoRows`); and
for each kind of transaction `ReadsOK` states what it took from its snapshots:
`ForkReads` that the rows a fork copies are still those of its parent unless the fork is
stale, `DetachReads` that every version below the detached one that is not stale is among
those it read, and that a version read that has left the subtree was taken along by
another detach (`TakenAlong`), `HardDeleteReads` and `SweepReads` that the rows they have
found are all those the versions that are not stale have by now. A commit then has the
effect of the operation run alone on those versions, and the reads of the others survive
it.

`BlobRaceProofs` proves `LossesAreExposed`, `Spec => []OnlyExposedLoseBlobs` of
`BlobRace`, for any versions, contents, clients and transactions. `Inv` follows a blob
from the snapshot that finds it unreferenced to the commit that deletes it: all the
while the only entries that refer to it are exposed or deleted with it (`RemovalOK`),
and a write past its blob either inserted it and holds its lock, or found it and is
exposed as soon as a collection has it (`WriteOK`). Where two transactions meet at one
blob, the argument is that two locks on it would conflict (`BlobLocksExclude`). TLC
checked the `Inv` of both modules before they were proved.

`TreeProofs` proves, for every set of names, tokens, sources and inherited rows, every
limit and every depth (`PathBoundAssumption`, `AbsentAssumption`; `SourcesAssumption`:
a source shows a row or nothing at each path, and one that is the common ancestor shows
what that shows):

| Theorem | Statement |
|---|---|
| `MergesKeepOurs` | `Spec => []MergeKeepsOurs` |
| `MergesAreDone` | `Spec => []MergeIsIdempotent` |
| `MergesOrphanOnlyOurs` | `Spec => []MergeOrphansOnlyOurs` |
| `CopiesReachSource` | `Spec => []WholeCopyReachesSource` |

These speak of what a merge would do in the state at hand, so no inductive invariant is
needed, not even the type of the rows: the lemmas hold of any rows. They follow the
plan: what is classified, what `WithParents` adds, what is written and what is a
tombstone (`WritesTheirs`), and what the version then shows. That the directories above
an entry come with it is an argument by the least counterexample over path lengths
(`TreeAbove`).

It also proves the two properties of `TreeRace`, for any clients and transactions
(`RaceAssumption`: operations are called with paths, and the source of a merge shows
rows):

| Theorem | Statement |
|---|---|
| `RacesAreAtomic` | `RaceSpec => UnoverlappedCommitsAreAtomic` |
| `RacesKeepTree` | `RaceSpec => OrphansNeedOverlap` |

`RaceInv` says of every transaction that no commit has overlapped where it stands in its
operation (`GoesAlone`): for each kind of operation, what it has read is what the
committed rows with its own show, the steps still to do are those that the operation has
left, and once nothing is left its rows over the committed ones are what `AloneOn` gives
and keep the tree (`WriteGoes`, `AppendGoes`, `RmGoes`, `MvGoes`, `MergeGoes`). A step of
one client leaves that of the others alone, but for a commit, which makes them `stale`.
An append is the longest: it stands at one of the directories above its path, all those
before it being there (`MadeUpTo`).

`OpsProofs` is about the operations of `TreeOps`, for every set of names, depth, limit,
inherited tree and choice of what instances hide (the assumptions of `TreeProofs`, and
`NamesAssumption`: names are finitely many; `SizeAssumption`, `LimitsAssumption`,
`LinksAssumption`: limits are numbers; `InheritedAssumption`, `TargetsAssumption`: what is
inherited are rows, links lead to paths; `HidingsAssumption`: with a path all that is
under it is hidden):

| Theorem | Statement |
|---|---|
| `SubtreesAlwaysArrive` | `Spec => []SubtreesArrive` |
| `OperationsKeepTree` | `Spec => KeepsTreeShape` |
| `WritesKeepNodeLimit` | `Spec => WritesKeepLimit` |
| `ListingsAgreeWithLookups` | `Spec => []ListingsAgree` |

The invariant is only `OpsTyped`, rows are rows and the count is a count: all four say
what an operation does to any tree it finds. What `cp` does needs an invariant of its
own, over its calls (`CpInduction`). For `SubtreesArrive` it is that what is not
copied yet lies under an entry still to be copied, and that nothing written so far is in
the source (`CopiesAdd`), so that no call reads what an earlier one wrote; since every
call that succeeds counts a node, `MaxCpNodes` calls leave nothing to do (`CpEnds`).
For `KeepsTreeShape` it is that no call puts something else in the place of a directory
unless there is a link under the source (`CopiesKeep`). `mv` rests on neither of
its paths lying under the other (`MoveApart`), which for `/` is false. The node limit
counts: paths are finitely many (`FinitePaths`), a path of n names has n directories at
and above it (`SegmentsCounted`), and a write shows no more than those and what was
there. A listing in one statement and one level by level agree because what is hidden is
hidden with all that is under it: everything between a directory that is shown and an
entry that is shown is shown too (`OneLevel`, `ListedFromIs`).

`ContentProofs` proves `IndexAlwaysKeepsUp`, `IndexSpec => []IndexKeepsUp`, for every
set of clients, blobs and texts, every chunking and batch size
(`EarlyAssumption`, `TextsAssumption`, `BatchAssumption`). `Inv` is typing; for the chunk
rows, what a transaction has inserted and not committed in each of its steps (`StepOK`),
that only one open transaction has rows of a blob (`OneInserts`, which the wait of the
insert for an uncommitted row keeps), that the rows of a blob that was not raced, those
in the table and those on the way there, are one chunking of it, whole (`WholeOrNone`),
and that rows are of stored blobs (`TableStored`); for the passes, what each has seen and
counted at its step: what is left to embed, what is embedded and what came into view
since cover what is visible (`PassOK`).

It also proves `QuotaIsKept`, `QuotaSpec => []QuotaHolds`, for any instances, contents,
sizes and limits (`QuotaAssumption`: sizes and limits are numbers). `QuotaInv` says that
one transaction at most has the lock of the workspace (`OneQuotaLock`), that a limited
instance has it from its check to its end as long as it has something to store
(`LimitedKeepLock`), and that what is committed, what each limited instance sees, and
what it sees with the blob it is about to insert, fit a limit unless an instance without
one has stored something (`SeenFits`). That a collection or a rollback only helps is that
a part of a set of blobs is no larger than the whole (`BytesMonotone`). The sum is a
fold over a set, so that this and its other laws are proved by the minimal
counterexample among the finite sets, which the library's well-founded orderings supply.

It also proves `SearchesAlwaysHold`, `SearchSpec => []SearchesHold`, for any paths, chunks,
scores, limits, caps and window (`SearchAssumption`: a chunk has one row of
`(blob_hash, chunk_index)`, `setup.ts:73`, and the constants of `search.ts` are positive).
Ranks are fractions, whose order is that of their cross products (`RatiosOrdered`); with
path and index it is a total order of the hits of rated chunks (`BeforeOrders`,
`HitsRanked`), so that the n-th place has one hit (`AheadReaches`, `OrderedIs`). A hit
that is missing has the cap of its file ahead of it in the answer, or the last of a full
answer (`MissingOutdone`). Where the matches fit the window, no rank and no candidate
depends on it (`CandidatesAre`), and a chunk that both signals rank above another adds up
to more, for a sum of shares grows with both (`SumsGrow`, `OutdoneBelow`).

`ReadProofs` proves `StreamsAlwaysPageOnce`, `StreamSpec => []StreamsPageOnce`, for every
finite set of keys, every set of batch sizes and any rows the two versions start with
(`KeysAssumption`, `PageAssumption`; `NothingAssumption` keeps the sentinel apart from
versions and files). `StreamInv` relates the cursor to what was yielded (`YieldedOK`:
ascending, nothing beyond the cursor), `always` to what is owed and `ever` to what differs
at the moment (`HistoryOK`), and says that a key that was owed all along up to the cursor
was yielded (`NothingMissed`). That rests on every key that is owed having a row that a
page is taken from (`OwedReported`): before a detach each difference from the parent is a
row of the version, after it each path that the version shows is (`ParentsOK`). The id
that a `diffStream` keeps is the one it had (`PinnedSame`).
A page is the first keys beyond the cursor in ascending order; that a finite set of keys
can be listed so is `AscendingExists`, by the rank of each key.

It also proves `ReadsSettleAsUnbatched`, `ReadSpec => SettlesAsUnbatched`, for any calls,
paths, rows, batch size and depth of links (`ReadAssumption`). In `ReadInv` every call
waits in one place, the batch or one statement (`PendingOK`, `QueriesOK`, `Alone`), a
statement that was run saw rows that its callers' paths have had since they called, and
what a call may still end with, from the path it has come to and with the links it may
still follow, is among what it might have ended with when it was made (`Chain`). The
last is stated for the rows seen so far and for any more that are seen later (`Leads`),
else it would not survive a change. `ChunksApart` says that the statements of a batch
share no call.

It also proves `RulesAlwaysAgree`, `RuleSpec => []RulesAgree`, for every alphabet whose
escapes are told apart by where they start and end (`EscapeAssumption`, which is what the
form `_x<hex>_` of an escape gives), where no name has the label of the workspace
(`WorkspaceAssumption`: it has an underscore that is part of no escape), and for any
names, patterns, mounts, roots and paths (`QuestionsAssumption`: names are without "/").
It rests on one theorem for each of the rules:

| Theorem | Statement |
|---|---|
| `LabelsAlwaysDecode` | `NamesAgree(names)`, for any set of names |
| `MountsAlwaysAgree` | `MountsAgree(mounts, root, paths)`, for any mounts, root and paths |
| `ExcludesAlwaysAgree` | `ExcludesAgree(p, root, paths)`, for any pattern, root and paths: with "/" under a pattern of stars alone, escaped names and the label of the workspace as its exceptions |
| `GlobsAlwaysAgree` | `GlobAgrees(pattern, paths)`, for any pattern and paths: with a pattern that has a `**` and ends in a literal name, or has each `**` within a segment, as its exceptions |

A label is spelled by the codes of the characters, each at a position of its own
(`EncodeSpells`), no escape starts but where a code does (`OneEscape`), so that decoding
goes from one position to the next (`DecodeSpelled`). Encoding is then injective, and the
ltree clause of a mount, which compares encoded prefixes, selects what the predicate on
paths shows (`LtreeTells`, `ClauseIs`). A pattern matches where its tokens can be given
ascending places in the text (`MatchesIs`): places in a name are carried over to those in
its label (`SegmentSql`), and back where the label is the name (`SegmentJs`). Where each
segment takes the same names and labels, the expression of the whole path takes the same
paths (`TakenAlike`, `ExpressionCarried`), and "/" it takes only if every segment takes an
empty name (`NothingMatches`). In a glob without any "**", segment by segment takes name by
name, because no token but "/" takes a "/" (`Unstarred`, `SegmentsLead`, `LiteralIsName`).

TLC checked `SerialInv`, `OverlayInv`, `NoDeadTombstones`, `NoSelfParent` and the
invariants of `ContentProofs` and `ReadProofs` on the instances of the runs as well.

Every safety property that a run checks has its theorem, but for `PartsAreWhole`, about
the pure functions of `Chunking` and `Slices`, whose folds over sequences carry a record;
it is only model-checked. The library's induction theorems take an operator as a
parameter, which the provers cannot instantiate; where these proofs need induction they
take the least counterexample instead. Liveness (`EveryOpEnds`, `EveryLoadSettles`) cannot be proved with these tools.
The proofs say nothing of whether SQL does what the models say it does.

## Not modelled

- Creating, migrating and indexing the tables (`lib/core/setup.ts` but for its keys
  and the row security policy): DDL that runs once, without behaviour of its own.
- Times (`mtime`, `last_write_at`, `getLastModified`): `now()` is the start of a
  transaction, so a version's `last_write_at` may go backwards when a long transaction
  commits after a short one; nothing in the library decides by it.
- The statements of `removeVersionRoot` one by one: its collection has the form of
  that of a hard delete, which `BlobRace` has. The copying of entries between
  versions is exposed to a collection in the same way as a write.
- `lib/core/trace.ts`: log lines. `lib/core/types.ts`, `internals/rows.ts`,
  `internals/hashes.ts`, `ops/install.ts`, `ops/context.ts`: types and plumbing.
- Error wrapping of the adapters, the drizzle schema and migration, and the just-bash
  adapter, which renames methods.
- BM25 scores and vector distances (computed by database extensions), the contents
  of character classes and braces in patterns, the text of error messages.
- The fallbacks for databases set up without the chunk or embedding tables (42P01).
- The documentation site (`app`), examples, benchmarks and scripts: no part of the
  library.

What remains worth doing: a model of mounts in writing operations (a recursive `rm` or
`mv` of a writable mount reaches a nested read-only one, because only the path of the
call is checked); writes into a version that is being hard-deleted, pages of a history
between which the graph changes, instances that count nodes at the same time, and trees
whose "/" was removed (hazards without a property); `removeVersionRoot` statement by
statement.
