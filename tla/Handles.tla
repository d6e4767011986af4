------------------------------- MODULE Handles -------------------------------
(***************************************************************************)
(* Filesystem instances and the versions they stand for. An instance has a *)
(* label and, once resolved, the id of the version, which it never checks  *)
(* again. transaction() runs its function on a facade with a copy of both, *)
(* and updates the instance by hooks after COMMIT. The version rows here   *)
(* are those of a workspace that retains history: a deleted one keeps its  *)
(* row. VersionStore has what else the operations do to the tables.        *)
(***************************************************************************)
EXTENDS Naturals, Sequences, FiniteSets

CONSTANTS
  Instances,    \* instances of the workspace, at the version root "/"
  Labels,       \* version labels
  MaxIds,       \* bound on the version ids handed out
  DefaultLabel, \* DEFAULT_VERSION
  MaxHooks,     \* bound on the renames of a transaction
  MaxCalls,     \* bound on the calls on instances
  None          \* no id, no label, no facade

ASSUME BoundAssumption == MaxIds \in Nat

VARIABLES
  db,      \* committed fs_versions rows: root, state, label, whether "/" is its own, by id
  handle,  \* label and cachedVersionId of each instance
  tx,      \* the open transaction, or None
  calls    \* calls on instances so far

vars == <<db, handle, tx, calls>>

Ids == 1..MaxIds
ASSUME NoneAssumption == None \notin Ids
PrevLabel(id) == <<"prev", id>>
Fresh(label) == [label |-> label, cached |-> None]
NoRow == [root |-> "/", state |-> "free", label |-> None, owned |-> FALSE]

\* A workspace with one version of "/" and one of the versioned directory.
Init ==
  /\ db = [id \in Ids |->
       CASE id = 1 -> [root |-> "/", state |-> "live", label |-> DefaultLabel, owned |-> TRUE]
         [] id = 2 -> [root |-> "sub", state |-> "live", label |-> DefaultLabel, owned |-> TRUE]
         [] OTHER -> NoRow]
  /\ handle = [i \in Instances |-> Fresh(DefaultLabel)]
  /\ tx = None
  /\ calls = 0

-----------------------------------------------------------------------------
Live(rows, id) == id # None /\ rows[id].state = "live"

\* Mutant: finds deleted versions too.
LookupAny(rows, root, label) ==
  LET named == {id \in Ids : rows[id].root = root /\ rows[id].label = label}
  IN IF named = {} THEN None ELSE CHOOSE id \in named : TRUE

\* The live version of a label, or None.
Lookup(rows, root, label) ==
  LET named == {id \in Ids : rows[id].state = "live" /\ rows[id].root = root
                             /\ rows[id].label = label}
  IN IF named = {} THEN None ELSE CHOOSE id \in named : TRUE

\* getCurrentVersionId
Resolved(rows, root, h) == IF h.cached # None THEN h.cached ELSE Lookup(rows, root, h.label)

\* The sequence hands out each id once.
FreeIds(rows) == {id \in Ids : rows[id].state = "free"}
NextId(rows) == CHOOSE id \in FreeIds(rows) : \A n \in FreeIds(rows) : id <= n

\* ensureVersion: the id it finds, or the one it inserts.
Ensured(rows, h) == IF Resolved(rows, "/", h) # None THEN Resolved(rows, "/", h) ELSE NextId(rows)
WithVersion(rows, h) ==
  IF Resolved(rows, "/", h) # None THEN rows
  ELSE [rows EXCEPT ![NextId(rows)] =
          [root |-> "/", state |-> "live", label |-> h.label, owned |-> FALSE]]

\* renameVersion: the rows it leaves, provided nothing stands in the way.
MayRename(rows, root, h, label, swap) ==
  LET id == Resolved(rows, root, h)
      holder == Lookup(rows, root, label)
  IN id # None /\ label # h.label /\ (holder \in {None, id} \/ swap)
Renamed(rows, root, h, label) ==
  LET id == Resolved(rows, root, h)
      holder == Lookup(rows, root, label)
      displaced == IF holder \in {None, id} THEN rows
                   ELSE [rows EXCEPT ![holder].label = PrevLabel(holder)]
  IN IF holder = id THEN rows
     ELSE IF rows[id].state = "burned" THEN displaced
     ELSE [displaced EXCEPT ![id].label = label]

Deleted(rows, id) == IF rows[id].state = "live" THEN [rows EXCEPT ![id].state = "deleted"] ELSE rows

-----------------------------------------------------------------------------
\* Row locks make other writers wait for the transaction's.
Clean == IF tx = None THEN TRUE ELSE tx.rows = db

\* Rows of a top-level call: the open transaction has none of its own, and sees
\* what commits.
Write(rows) ==
  /\ Clean
  /\ db' = rows
  /\ tx' = IF tx = None THEN None ELSE [tx EXCEPT !.rows = rows]

\* new PgFileSystem, and what fork() returns at top level
Construct(i, label) ==
  /\ handle' = [handle EXCEPT ![i] = Fresh(label)]
  /\ UNCHANGED <<db, tx>>

\* init() when the version and its root entry are there: one read.
InitFast(i) ==
  LET id == Lookup(db, "/", handle[i].label)
  IN /\ id # None /\ db[id].owned
     /\ handle' = [handle EXCEPT ![i].cached = id]
     /\ UNCHANGED <<db, tx>>

\* isAlreadyInitialized returned false
MissesFast(i) ==
  LET id == Lookup(db, "/", handle[i].label)
  IN IF id = None THEN TRUE ELSE ~db[id].owned

\* The transaction of init(): the version, then its root entry. The entry of a
\* burned id is inserted all the same: no foreign key stops it.
InitFull(i) ==
  LET id == Ensured(db, handle[i])
      rows == WithVersion(db, handle[i])
  IN /\ MissesFast(i)
     /\ Resolved(db, "/", handle[i]) = None => FreeIds(db) # {}
     /\ Write([rows EXCEPT ![id].owned = TRUE])
     /\ handle' = [handle EXCEPT ![i].cached = id]

\* It fails after ensureVersion: the rows go, the id is used up, and the
\* instance keeps what it cached.
InitFails(i) ==
  LET id == Ensured(db, handle[i])
  IN /\ MissesFast(i)
     /\ Resolved(db, "/", handle[i]) = None => FreeIds(db) # {}
     /\ Write(IF db[id].state = "free" THEN [db EXCEPT ![id].state = "burned"] ELSE db)
     /\ handle' = [handle EXCEPT ![i].cached = id]

Rename(i, label, swap) ==
  /\ MayRename(db, "/", handle[i], label, swap)
  /\ Write(Renamed(db, "/", handle[i], label))
  /\ handle' = [handle EXCEPT ![i] =
       [label |-> label, cached |-> Resolved(db, "/", handle[i])]]

\* promoteTo(label, {dropPrevious: true}): what held the label is deleted.
Promote(i, label) ==
  LET holder == Lookup(db, "/", label)
      id == Resolved(db, "/", handle[i])
      rows == Renamed(db, "/", handle[i], label)
  IN /\ id # None
     /\ Write(IF holder \in {None, id} THEN rows ELSE Deleted(rows, holder))
     /\ handle' = [handle EXCEPT ![i] = [label |-> label, cached |-> id]]

\* deleteVersion compares labels, not ids.
MayDelete(i, label) == label # handle[i].label
Delete(i, label) ==
  LET id == Lookup(db, "/", label)
  IN /\ MayDelete(i, label)
     /\ id # None
     /\ Write(Deleted(db, id))
     /\ UNCHANGED handle

Dispose(i) ==
  LET id == Resolved(db, "/", handle[i])
  IN /\ id # None
     /\ Write(Deleted(db, id))
     /\ handle' = [handle EXCEPT ![i].cached = None]

\* fork of the current version; a foreign key refuses a parent without a row.
Fork(i, label) ==
  LET id == Resolved(db, "/", handle[i])
  IN /\ id # None /\ db[id].state # "burned"
     /\ label # handle[i].label /\ Lookup(db, "/", label) = None
     /\ FreeIds(db) # {}
     /\ Write([db EXCEPT ![NextId(db)] =
                 [root |-> "/", state |-> "live", label |-> label, owned |-> FALSE]])
     /\ handle' = [handle EXCEPT ![i].cached = id]

-----------------------------------------------------------------------------
Begin(i) ==
  /\ tx = None
  /\ tx' = [of |-> i, rows |-> db, facade |-> handle[i], scoped |-> None, hooks |-> <<>>]
  /\ UNCHANGED <<db, handle>>

\* tx.renameVersion: the facade's label at once, that of the instance by a hook.
FacadeRename(label, swap) ==
  /\ tx # None /\ Len(tx.hooks) < MaxHooks
  /\ MayRename(tx.rows, "/", tx.facade, label, swap)
  /\ tx' = [tx EXCEPT !.rows = Renamed(tx.rows, "/", tx.facade, label),
                      !.facade = [label |-> label, cached |-> Resolved(tx.rows, "/", tx.facade)],
                      !.hooks = Append(@, label)]
  /\ UNCHANGED <<db, handle>>

\* tx.versioned("sub"): an instance for another version root, with the hooks
\* and the origin of the facade.
FacadeVersioned ==
  /\ tx # None /\ tx.scoped = None
  /\ tx' = [tx EXCEPT !.scoped = Fresh(DefaultLabel)]
  /\ UNCHANGED <<db, handle>>

ScopedRename(label, swap) ==
  /\ tx # None /\ tx.scoped # None /\ Len(tx.hooks) < MaxHooks
  /\ MayRename(tx.rows, "sub", tx.scoped, label, swap)
  /\ tx' = [tx EXCEPT !.rows = Renamed(tx.rows, "sub", tx.scoped, label),
                      !.scoped = [label |-> label, cached |-> Resolved(tx.rows, "sub", tx.scoped)],
                      !.hooks = Append(@, label)]
  /\ UNCHANGED <<db, handle>>

\* tx.dispose() clears the cached id of the facade, not that of the instance.
FacadeDispose ==
  LET id == Resolved(tx.rows, "/", tx.facade)
  IN /\ tx # None
     /\ id # None
     /\ tx' = [tx EXCEPT !.rows = Deleted(tx.rows, id), !.facade.cached = None]
     /\ UNCHANGED <<db, handle>>

\* Mutant: the hooks run whether or not the transaction commits.
AfterRollbackHooked == IF tx.hooks = <<>> THEN handle
                       ELSE [handle EXCEPT ![tx.of].label = tx.hooks[Len(tx.hooks)]]
AfterRollback == handle

\* The hooks run in the order they were queued: the last one stays.
AfterCommit == IF tx.hooks = <<>> THEN handle
               ELSE [handle EXCEPT ![tx.of].label = tx.hooks[Len(tx.hooks)]]
Commit ==
  /\ tx # None
  /\ db' = tx.rows
  /\ handle' = AfterCommit
  /\ tx' = None
Rollback ==
  /\ tx # None
  /\ handle' = AfterRollback
  /\ tx' = None
  /\ UNCHANGED db

Call(i) ==
  \/ \E label \in Labels :
       \/ Construct(i, label) \/ Delete(i, label) \/ Fork(i, label) \/ Promote(i, label)
       \/ \E swap \in BOOLEAN : Rename(i, label, swap)
  \/ InitFast(i) \/ InitFull(i) \/ InitFails(i) \/ Dispose(i) \/ Begin(i)

InTransaction ==
  \/ \E label \in Labels, swap \in BOOLEAN : FacadeRename(label, swap) \/ ScopedRename(label, swap)
  \/ FacadeVersioned \/ FacadeDispose \/ Commit \/ Rollback

Next ==
  \/ calls < MaxCalls /\ calls' = calls + 1 /\ \E i \in Instances : Call(i)
  \/ UNCHANGED calls /\ InTransaction

Spec == Init /\ [][Next]_vars

-----------------------------------------------------------------------------
\* An instance says the label its version carries.
InSync(i) == LET id == handle[i].cached IN Live(db, id) => db[id].label = handle[i].label

\* Only what another instance, or a transaction it does not know of, does to the
\* version takes an instance out of step with it; a rollback never does. The
\* hooks of a commit that renamed a version of another root are the exception
\* (see CommitRelabelsItsVersion).
OwnStepsKeepLabel ==
  [][\A i \in Instances : InSync(i) /\ ~InSync(i)' =>
       \/ db'[handle[i].cached].label # db[handle[i].cached].label /\ handle'[i] = handle[i]
       \/ Commit /\ tx.of = i]_vars

\* After init() the instance has a live version of its label, unless it had
\* cached before, in an init() that failed or of a version deleted since, an id
\* that is none.
InitReachesVersion ==
  [][\A i \in Instances : InitFast(i) \/ InitFull(i) =>
       \/ Live(db', handle'[i].cached) /\ InSync(i)'
       \/ handle[i].cached # None /\ (~Live(db, handle[i].cached) \/ ~InSync(i))]_vars

\* "The outer instance's label is updated only if the outer transaction
\* commits successfully": a commit leaves the label of the instance that of its
\* version (rename-version.ts:22-25, state.ts:184-187).
CommitRelabelsItsVersion ==
  [][\A i \in Instances : Commit /\ tx.of = i /\ InSync(i) => InSync(i)']_vars
=============================================================================
