------------------------------- MODULE Streams -------------------------------
(***************************************************************************)
(* diffStream and versionDiffStream: a difference read in pages, each one  *)
(* in a transaction of its own, from the path after the last one read on.  *)
(* Between two pages others write, relabel, detach and delete. diffStream  *)
(* keeps the id of its own version once it has it, resolves the other      *)
(* label again for every page, and compares what both versions show.       *)
(* versionDiffStream resolves the parent of its version once, and compares *)
(* that with the rows of the version itself.                               *)
(***************************************************************************)
EXTENDS Integers, Sequences, SequencesExt, FiniteSets

CONSTANTS
  Keys,          \* paths, in the order of their ltree: numbers from 1
  Files,         \* what a path may show
  Nothing,       \* what a path shows that has no entry; no version
  BatchSizes,    \* batchSize
  Ours, Theirs,  \* labels: of the instance, and the one it is compared with
  MaxEdits       \* bound: steps of others during a stream

ASSUME KeysAssumption == Keys \subseteq Nat \ {0} /\ IsFiniteSet(Keys)
ASSUME PageAssumption == BatchSizes \subseteq Nat \ {0}

Versions == {1, 2}
Sides == {Ours, Theirs}
ASSUME NothingAssumption == Nothing \notin Versions /\ Nothing \notin Files

\* The rows of a version: what it wrote at some keys, Nothing for a tombstone.
OwnRows == UNION {[keys -> Files \cup {Nothing}] : keys \in SUBSET Keys}

VARIABLES
  written,      \* rows of every version
  label,     \* version that carries a label
  parentOf,  \* parent of every version; version 2 is a fork of 1
  deleted,   \* versions whose rows are gone
  stream,    \* the stream: kind, status, batch size, cursor, keys yielded, the
             \* version it is about (once resolved) and, by version, its parent
  always,    \* keys that differed at every moment since the stream was opened
  ever,      \* keys that differed at some moment since then
  edits      \* steps of others so far

streamVars == <<written, label, parentOf, deleted, stream, always, ever, edits>>

NoStream == [kind |-> "none", status |-> "idle", batch |-> 1, own |-> Nothing, parent |-> Nothing,
             cursor |-> 0, yielded |-> <<>>]

StreamInit ==
  /\ written \in [Versions -> OwnRows]
  /\ label = [l \in Sides |-> IF l = Ours THEN 1 ELSE 2]
  /\ parentOf = [v \in Versions |-> IF v = 2 THEN 1 ELSE Nothing]
  /\ deleted = {} /\ stream = NoStream
  /\ always = {} /\ ever = {} /\ edits = 0

-----------------------------------------------------------------------------
\* What a version shows: its own row, else that of its parent (which has none).
Wrote(v, k) == v # Nothing /\ k \in DOMAIN written[v]
Shown(v, k) ==
  CASE Wrote(v, k) -> written[v][k]
    [] v # Nothing /\ ~Wrote(v, k) /\ Wrote(parentOf[v], k) -> written[parentOf[v]][k]
    [] OTHER -> Nothing

\* The two versions that a page compares. getCurrentVersionId returns the id it
\* has cached, requireVersionIdByLabel looks the label up.
Own == IF stream.kind = "diff" /\ stream.own = Nothing THEN label[Ours] ELSE stream.own
Other == IF stream.kind = "diff" THEN label[Theirs] ELSE stream.parent
Unresolved == stream.kind = "diff" /\ Nothing \in {Own, Other}

Differs ==
  IF stream.kind = "none" \/ Unresolved THEN {} ELSE {k \in Keys : Shown(Own, k) # Shown(Other, k)}

\* The keys a page is taken from: fetchDiff joins the two trees,
\* fetchVersionChanges starts from the rows of the version.
Reported == IF stream.kind = "version" THEN Differs \cap DOMAIN written[Own] ELSE Differs

\* What versionDiffStream owes its reader: a detach drops the tombstones of the
\* version, so that what it removed is told no more against the former parent.
Owed ==
  IF stream.kind = "version" /\ parentOf[Own] # stream.parent
  THEN {k \in Differs : Shown(Own, k) # Nothing}
  ELSE Differs

Beyond(keys, cursor) == {k \in keys : k > cursor}

\* Mutant: the page starts with the last path of the one before.
PageFrom(keys, cursor, limit) ==
  {k \in keys : k >= cursor /\ Cardinality({j \in keys : j >= cursor /\ j < k}) < limit}

\* One page of fetchDiff or fetchVersionChanges: path > cursor ORDER BY path LIMIT n.
Page(keys, cursor, limit) ==
  {k \in Beyond(keys, cursor) : Cardinality({j \in Beyond(keys, cursor) : j < k}) < limit}
InOrder(keys) == CHOOSE s \in SetToSeqs(keys) : \A i, j \in DOMAIN s : i < j => s[i] < s[j]

Opened(s) ==
  /\ stream = NoStream
  /\ stream' = s
  /\ UNCHANGED <<written, label, parentOf, deleted, edits>>
  /\ always' = Owed' /\ ever' = Differs'

\* The id that the instance has cached may be that of any version its label had.
OpenDiff(batch, cached) ==
  Opened([NoStream EXCEPT !.kind = "diff", !.status = "open", !.batch = batch, !.own = cached])
\* resolveParentVersionId
OpenVersionDiff(batch, v) ==
  /\ v \notin deleted
  /\ Opened([NoStream EXCEPT !.kind = "version", !.status = "open", !.batch = batch,
                             !.own = v, !.parent = parentOf[v]])

\* The stream ends with a page that is not full.
EndsPage(page, s) == Cardinality(page) < s.batch

\* A page throws when a label it resolves is gone.
NextPage ==
  LET page == Page(Reported, stream.cursor, stream.batch)
  IN /\ stream.status = "open"
     /\ stream' =
          IF Unresolved
          THEN [stream EXCEPT !.status = "failed"]
          ELSE [stream EXCEPT !.own = Own,
                              !.yielded = @ \o InOrder(page),
                              !.status = IF EndsPage(page, stream) THEN "done" ELSE "open",
                              !.cursor = IF page = {} THEN @ ELSE Last(InOrder(page))]
     /\ UNCHANGED <<written, label, parentOf, deleted, always, ever, edits>>

-----------------------------------------------------------------------------
\* Others, between two pages.
Edit ==
  /\ stream.status = "open" /\ edits < MaxEdits
  /\ edits' = edits + 1
  /\ UNCHANGED stream
  /\ always' = always \cap Owed' /\ ever' = ever \cup Differs'

\* A write, or the removal of what the version shows, which leaves a tombstone.
WriteEntry(v, k, content) ==
  /\ v \notin deleted
  /\ content = Nothing => Shown(v, k) # Nothing
  /\ written' = [written EXCEPT ![v] = [j \in DOMAIN @ \cup {k} |-> IF j = k THEN content ELSE @[j]]]
  /\ written' # written
  /\ UNCHANGED <<label, parentOf, deleted>>
  /\ Edit

\* promoteTo, renameVersion, deleteVersion with a new version of the name.
Relabel(l, v) ==
  /\ label[l] # v /\ v \notin deleted
  /\ label' = [label EXCEPT ![l] = v] /\ UNCHANGED <<written, parentOf, deleted>>
  /\ Edit

\* detach copies what the version inherits, then drops its tombstones.
Detach(v) ==
  /\ v \notin deleted
  /\ written' = [written EXCEPT ![v] = [k \in {j \in Keys : Shown(v, j) # Nothing} |-> Shown(v, k)]]
  /\ parentOf' = [parentOf EXCEPT ![v] = Nothing]
  /\ <<written, parentOf>>' # <<written, parentOf>>
  /\ UNCHANGED <<label, deleted>>
  /\ Edit

\* A version without label and fork is deleted with its rows.
DeleteVersion(v) ==
  /\ v \notin Range(label) /\ v \notin Range(parentOf) /\ v \notin deleted
  /\ deleted' = deleted \cup {v}
  /\ written' = [written EXCEPT ![v] = <<>>]
  /\ parentOf' = [parentOf EXCEPT ![v] = Nothing] /\ UNCHANGED label
  /\ Edit

StreamNext ==
  \/ \E batch \in BatchSizes, cached \in Versions \cup {Nothing} : OpenDiff(batch, cached)
  \/ \E batch \in BatchSizes, v \in Versions : OpenVersionDiff(batch, v)
  \/ NextPage
  \/ \E v \in Versions, k \in Keys, content \in Files \cup {Nothing} : WriteEntry(v, k, content)
  \/ \E l \in Sides, v \in Versions \cup {Nothing} : Relabel(l, v)
  \/ \E v \in Versions : Detach(v) \/ DeleteVersion(v)

StreamSpec == StreamInit /\ [][StreamNext]_streamVars

-----------------------------------------------------------------------------
\* Not "snapshot-isolated across the whole iteration" (diff-stream.ts:13), a
\* stream yields no path twice, every path that differed all along, and none
\* that never differed; it fails only where the other label is gone, or its own
\* before it was resolved. Only by version, paths that the version does not show
\* are lost once it is detached.
StreamsPageOnce ==
  /\ \A i, j \in DOMAIN stream.yielded : i < j => stream.yielded[i] < stream.yielded[j]
  /\ Range(stream.yielded) \subseteq ever
  /\ \A k \in always : k <= stream.cursor \/ stream.status = "done" => k \in Range(stream.yielded)
  /\ stream.status = "failed" => /\ stream.kind = "diff"
                                 /\ label[Theirs] = Nothing \/ stream.own = Nothing
=============================================================================
