------------------------------ MODULE BlobRace ------------------------------
(***************************************************************************)
(* The blob table under concurrent transactions.  Blobs are keyed by the   *)
(* hash of their content and shared by all entries of a workspace, with no *)
(* foreign key and no count.  A write inserts its blob ON CONFLICT DO      *)
(* NOTHING, which leaves no lock on a blob that is there already; a hard   *)
(* delete collects the blobs of the entries it deleted, a sweep those of   *)
(* the whole workspace, whatever no entry they can see refers to.          *)
(*                                                                         *)
(* One path per version and no ancestors: who shares a blob with whom is   *)
(* all that matters here.  VersionStore takes each operation as one step,  *)
(* and there no blob is lost.                                              *)
(***************************************************************************)
EXTENDS Naturals, SequencesExt, RowLocks

CONSTANTS
  MaxVersion,  \* ids 1..MaxVersion have a row in the initial states
  SweptIds,    \* those in the version root that sweepHistory sweeps
  Contents,
  NoEntry,     \* no row in fs_entries
  Tombstone,   \* a row that hides what ancestors have
  MaxOps       \* bound on the transactions opened

VersionIds == 1..MaxVersion
NoVersion == 0

ASSUME IdsAssumption == MaxVersion \in Nat /\ SweptIds \subseteq VersionIds /\ MaxOps \in Nat
ASSUME SentinelAssumption == NoEntry # Tombstone /\ {NoEntry, Tombstone} \cap Contents = {}

VARIABLES
  status,   \* committed fs_versions: "active", "deleted" or "gone"
  entries,  \* committed fs_entries, by version
  blobs,    \* committed fs_blobs
  plan,     \* the order in which PostgreSQL runs the parts of a write
  tx,       \* the transaction each client runs, or Idle
  begun,    \* transactions opened so far
  exposed   \* history: versions whose entry relied on a blob that was there
            \* while a collection had found it unreferenced

tables == <<status, entries, blobs, exposed>>
vars == <<status, entries, blobs, locks, plan, tx, begun, exposed>>

HasRow(v) == status[v] # "gone"
Smallest(S) == CHOOSE v \in S : \A w \in S : v <= w

\* op, the version it acts on and what it puts there; the parts a write has
\* still to run; where a removal is and the versions it acts on; the entry rows
\* a DELETE statement has still to visit and those deleted; the blob a write
\* inserted; the blobs a collection found unreferenced and has still to visit,
\* and those deleted; whether a write relies on a blob that was there, and
\* whether that is exposed.
Idle == [op |-> "none", on |-> NoVersion, put |-> NoEntry, todo |-> <<>>,
         step |-> "none", ids |-> {}, visit |-> {}, dropped |-> {}, inserted |-> {},
         garbage |-> {}, collected |-> {}, relies |-> FALSE, exposed |-> FALSE]
WriteParts == {"blob", "entry", "bump"}
Removals == {"hardDelete", "sweep"}

AtPart(c, part) == tx[c].todo # <<>> /\ Head(tx[c].todo) = part

-----------------------------------------------------------------------------
(* Locks.                                                                  *)

\* sweepHistory locks the rows of its versions FOR UPDATE, then both removals
\* take the advisory locks, in the order of the ids.
Unlocked(c, kind) ==
  {v \in tx[c].ids :
     /\ ~Holds(c, kind, v)
     /\ kind = "version" => tx[c].op = "sweep"
     /\ tx[c].op = "sweep" => HasRow(v)}
LocksAll(c) == Unlocked(c, "version") \cup Unlocked(c, "advisory") = {}
NextBlob(c) == CHOOSE x \in tx[c].garbage : TRUE

\* The lock the next part of c needs, if any.
Wanted(c) ==
  LET t == tx[c]
      next(kind) == {Lock(c, kind, Smallest(Unlocked(c, kind)), "update")}
  IN  CASE AtPart(c, "blob") -> {Lock(c, "blob", t.put, "update")}
        [] AtPart(c, "entry") -> {Lock(c, "entry", t.on, "update")}
        [] AtPart(c, "bump") /\ HasRow(t.on) -> {Lock(c, "version", t.on, "noKeyUpdate")}
        [] t.step = "lock" /\ Unlocked(c, "version") # {} -> next("version")
        [] t.step = "lock" /\ Unlocked(c, "version") = {} /\ ~LocksAll(c) -> next("advisory")
        [] t.visit # {} -> {Lock(c, "entry", Smallest(t.visit), "update")}
        [] t.step = "visit" /\ t.visit = {} /\ t.op = "hardDelete" ->
             {Lock(c, "version", t.on, "update")}
        [] t.garbage # {} -> {Lock(c, "blob", NextBlob(c), "update")}
        [] OTHER -> {}

Blockers(c) == HoldersAgainst(c, Wanted(c))
Deadlocked(c) == InCycle(c, Blockers)
Grant(c) == Blockers(c) = {} /\ locks' = locks \cup Wanted(c)

-----------------------------------------------------------------------------
(* Statements shared by the operations.                                    *)

Begin(c, t) ==
  /\ tx[c] = Idle
  /\ begun < MaxOps
  /\ begun' = begun + 1
  /\ tx' = [tx EXCEPT ![c] = t]
  /\ UNCHANGED <<tables, locks, plan>>

Abort(c) ==
  /\ tx' = [tx EXCEPT ![c] = Idle]
  /\ Release(c)
  /\ UNCHANGED <<tables, plan, begun>>

\* c is done with a part of its operation, which changed t of its own state.
Done(c, t) == tx' = [tx EXCEPT ![c] = [t EXCEPT !.todo = Tail(@)]]

-----------------------------------------------------------------------------
(* writeFile and rm.                                                       *)

\* The statement's snapshot finds the parent directory, so the version exists.
BeginWrite(c, v, x) ==
  /\ HasRow(v)
  /\ Begin(c, [Idle EXCEPT !.op = "write", !.on = v, !.put = x, !.todo = plan])

BeginRm(c, v) ==
  /\ HasRow(v)
  /\ Begin(c, [Idle EXCEPT !.op = "rm", !.on = v, !.put = Tombstone,
                           !.todo = SelectSeq(plan, LAMBDA part : part # "blob")])

\* Mutant: WHERE NOT EXISTS in place of ON CONFLICT, so no wait for a deletion.
WriteBlobNoWait(c) ==
  /\ AtPart(c, "blob")
  /\ LET x == tx[c].put
     IN  IF x \in blobs
         THEN /\ Done(c, [tx[c] EXCEPT !.relies = TRUE,
                    !.exposed = \E d \in Clients : x \in tx[d].garbage])
              /\ UNCHANGED locks
         ELSE Done(c, [tx[c] EXCEPT !.inserted = {x}]) /\ Grant(c)
  /\ UNCHANGED <<tables, plan, begun>>

\* ON CONFLICT DO NOTHING: waits for a transaction that inserts or deletes
\* the same blob, then inserts it if it is not there.
WriteBlob(c) ==
  /\ AtPart(c, "blob") /\ Blockers(c) = {}
  /\ LET x == tx[c].put
     IN  IF x \in blobs
         THEN /\ Done(c, [tx[c] EXCEPT !.relies = TRUE,
                    !.exposed = \E d \in Clients : x \in tx[d].garbage])
              /\ UNCHANGED locks
         ELSE Done(c, [tx[c] EXCEPT !.inserted = {x}]) /\ Grant(c)
  /\ UNCHANGED <<tables, plan, begun>>

WriteEntry(c) ==
  /\ AtPart(c, "entry")
  /\ Grant(c) /\ Done(c, tx[c])
  /\ UNCHANGED <<tables, plan, begun>>

BumpVersion(c) ==
  /\ AtPart(c, "bump")
  /\ Grant(c) /\ Done(c, tx[c])
  /\ UNCHANGED <<tables, plan, begun>>

WriteCommit(c) ==
  /\ tx[c].op \in {"write", "rm"} /\ tx[c].todo = <<>>
  /\ entries' = [entries EXCEPT ![tx[c].on] = tx[c].put]
  /\ blobs' = blobs \cup tx[c].inserted
  /\ exposed' = IF tx[c].exposed THEN exposed \cup {tx[c].on} ELSE exposed \ {tx[c].on}
  /\ tx' = [tx EXCEPT ![c] = Idle]
  /\ Release(c)
  /\ UNCHANGED <<status, plan, begun>>

-----------------------------------------------------------------------------
(* Hard delete and sweepHistory.                                           *)

BeginHardDelete(c, v) ==
  /\ HasRow(v)
  /\ Begin(c, [Idle EXCEPT !.op = "hardDelete", !.on = v, !.ids = {v},
                           !.step = "lock"])

BeginSweep(c) ==
  LET rows == {v \in SweptIds : HasRow(v)}
  IN  /\ rows # {}
      /\ Begin(c, [Idle EXCEPT !.op = "sweep", !.ids = rows, !.step = "lock"])

LockNext(c) ==
  /\ tx[c].step = "lock" /\ ~LocksAll(c)
  /\ Grant(c)
  /\ UNCHANGED <<tables, plan, tx, begun>>

\* The entry rows the operation deletes: all of a version that goes, the
\* tombstones of a version a sweep keeps.
Doomed(c) ==
  {v \in tx[c].ids :
     /\ entries[v] # NoEntry
     /\ tx[c].op = "sweep" => HasRow(v)
     /\ tx[c].op = "sweep" /\ status[v] = "active" => entries[v] = Tombstone}

DeleteEntries(c) ==
  /\ tx[c].step = "lock" /\ LocksAll(c)
  /\ tx' = [tx EXCEPT ![c].step = "visit", ![c].visit = Doomed(c)]
  /\ UNCHANGED <<tables, locks, plan, begun>>

\* A row that another transaction has locked is looked at again after the wait.
VisitEntry(c) ==
  /\ tx[c].visit # {}
  /\ Grant(c)
  /\ LET v == Smallest(tx[c].visit)
     IN  tx' = [tx EXCEPT ![c].visit = @ \ {v}, ![c].dropped = @ \cup ({v} \cap Doomed(c))]
  /\ UNCHANGED <<tables, plan, begun>>

DeleteVersion(c) ==
  /\ tx[c].op = "hardDelete" /\ tx[c].step = "visit" /\ tx[c].visit = {}
  /\ Grant(c)
  /\ tx' = [tx EXCEPT ![c].step = "versionDeleted"]
  /\ UNCHANGED <<tables, plan, begun>>

\* What a transaction sees of the entries: its own deletions are done.
Referenced(c) == {entries[v] : v \in VersionIds \ tx[c].dropped}
Candidates(c) ==
  IF tx[c].op = "sweep" THEN blobs
  ELSE {entries[v] : v \in tx[c].dropped} \cap blobs

Garbage(c) == Candidates(c) \ Referenced(c)

\* The snapshot of the DELETE on fs_blobs.  Writes under way that rely on a
\* blob it has found unreferenced are exposed.
SnapshotGarbage(c) ==
  /\ \/ tx[c].op = "sweep" /\ tx[c].step = "visit" /\ tx[c].visit = {}
     \/ tx[c].step = "versionDeleted"
  /\ tx' = [d \in Clients |->
       IF d = c THEN [tx[c] EXCEPT !.step = "collect", !.garbage = Garbage(c)]
       ELSE IF tx[d].relies /\ tx[d].put \in Garbage(c) THEN [tx[d] EXCEPT !.exposed = TRUE]
       ELSE tx[d]]
  /\ UNCHANGED <<tables, locks, plan, begun>>

CollectBlob(c) ==
  /\ tx[c].garbage # {}
  /\ Grant(c)
  /\ tx' = [tx EXCEPT ![c].garbage = @ \ {NextBlob(c)}, ![c].collected = @ \cup {NextBlob(c)}]
  /\ UNCHANGED <<tables, plan, begun>>

\* The rows deleted are gone for the collections that still have them to visit.
RemovalCommit(c) ==
  /\ tx[c].step = "collect" /\ tx[c].garbage = {}
  /\ status' = [v \in VersionIds |->
       IF v \in tx[c].ids /\ (tx[c].op = "hardDelete" \/ status[v] = "deleted")
       THEN "gone" ELSE status[v]]
  /\ entries' = [v \in VersionIds |-> IF v \in tx[c].dropped THEN NoEntry ELSE entries[v]]
  /\ blobs' = blobs \ tx[c].collected
  /\ tx' = [d \in Clients |->
       IF d = c THEN Idle ELSE [tx[d] EXCEPT !.garbage = @ \ tx[c].collected]]
  /\ Release(c)
  /\ UNCHANGED <<plan, begun, exposed>>

-----------------------------------------------------------------------------
\* Any entries and garbage; tombstones are left to rm.
Init ==
  /\ status \in {s \in [VersionIds -> {"active", "deleted"}] :
                  \A v \in VersionIds \ SweptIds : s[v] = "active"}
  /\ entries \in [VersionIds -> Contents \cup {NoEntry}]
  /\ blobs \in {B \in SUBSET Contents :
                  \A v \in VersionIds : entries[v] \in Contents => entries[v] \in B}
  /\ plan \in SetToSeqs(WriteParts)
  /\ locks = {}
  /\ tx = [c \in Clients |-> Idle]
  /\ begun = 0
  /\ exposed = {}

Start(c) ==
  \/ BeginSweep(c)
  \/ \E v \in VersionIds :
       BeginRm(c, v) \/ BeginHardDelete(c, v) \/ \E x \in Contents : BeginWrite(c, v, x)

Step(c) ==
  \/ WriteBlob(c) \/ WriteEntry(c) \/ BumpVersion(c) \/ WriteCommit(c)
  \/ LockNext(c) \/ DeleteEntries(c) \/ VisitEntry(c) \/ DeleteVersion(c)
  \/ SnapshotGarbage(c) \/ CollectBlob(c) \/ RemovalCommit(c)

BreakDeadlock(c) == Deadlocked(c) /\ Abort(c)

Next == \E c \in Clients : Start(c) \/ Step(c) \/ BreakDeadlock(c)

Spec == Init /\ [][Next]_vars

-----------------------------------------------------------------------------
\* The doc of sweepHistory: it collects "blobs no live entry references".
BlobsBackEntries == \A v \in VersionIds : entries[v] \in Contents => entries[v] \in blobs

\* Only exposed entries lose their blob: those of a write that found the blob
\* there and committed after a collection had found it unreferenced.
OnlyExposedLoseBlobs ==
  \A v \in VersionIds : entries[v] \in Contents \ blobs => v \in exposed
=============================================================================
