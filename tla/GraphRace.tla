------------------------------ MODULE GraphRace ------------------------------
(***************************************************************************)
(* The operations that change the version graph, statement by statement,   *)
(* as concurrent READ COMMITTED transactions: fork, detach, sweepHistory   *)
(* and the two ways to delete a version.  VersionStore takes each as one   *)
(* atomic step; this module asks when that is justified.                   *)
(*                                                                         *)
(* A statement reads what has committed when it starts.  A transaction's   *)
(* own changes appear when it commits, and its row locks and advisory      *)
(* locks go then.  PostgreSQL's rules are modelled where the operations    *)
(* rely on them: conflicts of row lock modes, the row lock a foreign key   *)
(* check takes, ON DELETE RESTRICT, and the abort of a deadlock victim.    *)
(*                                                                         *)
(* Labels and entries are left out: one version root, whose entries        *)
(* follow the closure table as in VersionStore.                            *)
(***************************************************************************)
EXTENDS Integers, RowLocks

CONSTANTS
  MaxId,    \* bound on the ids fs_versions_id_seq hands out
  Seeded,   \* ids 1..Seeded have a row in the initial states
  MaxOps    \* bound on the transactions opened

ASSUME BoundsAssumption == MaxId \in Nat /\ Seeded \in 0..MaxId /\ MaxOps \in Nat

VersionIds == 1..MaxId
NoVersion == 0
NoRow == -1
Operations == {"fork", "detach", "sweep", "hardDelete", "softDelete"}

VARIABLES
  status,   \* committed fs_versions: "unused", "active", "deleted", "gone"
  parent,   \* committed parent_version_id
  closure,  \* committed version_ancestors, closure[d][a] a depth or NoRow
  tx,       \* the transaction each client runs, or Idle
  begun,    \* transactions opened so far
  stale     \* history: versions forked while a detach or a sweep was open,
            \* and versions forked from those

tables == <<status, parent, closure>>
vars == <<status, parent, closure, locks, tx, begun, stale>>

NoRows == [a \in VersionIds |-> NoRow]
NoCut == [d \in VersionIds |-> {}]

\* op and the version on it acts on; the statement to run next; the version
\* ids an earlier statement returned; the closure rows fork read; the closure
\* rows deleted, by descendant; whether a fork makes its version stale.
Idle == [op |-> "none", on |-> NoVersion, step |-> "none", ids |-> {},
         read |-> NoRows, cut |-> NoCut, stale |-> FALSE]
Flattening == {"detach", "sweep"}

HasRow(v) == status[v] \in {"active", "deleted"}
IsAncestor(a, d) == closure[d][a] # NoRow
Descendants(v) == {d \in VersionIds : IsAncestor(v, d)}
Children(v) == {d \in VersionIds : HasRow(d) /\ parent[d] = v}
Smallest(S) == CHOOSE v \in S : \A w \in S : v <= w

-----------------------------------------------------------------------------
(* Locks.                                                                  *)

\* detach and sweepHistory lock the rows of their ids that still exist, FOR
\* UPDATE; then they and the deletes lock ids, the sweep those of the rows it
\* got.  Both go in the order of the ids.
Unlocked(c, kind) ==
  {v \in tx[c].ids :
     /\ ~Holds(c, kind, v)
     /\ kind = "row" => tx[c].op \in Flattening
     /\ kind = "row" \/ tx[c].op = "sweep" => HasRow(v)}
LocksAll(c) == Unlocked(c, "row") \cup Unlocked(c, "advisory") = {}

\* The lock the next statement of c needs, if any.
Wanted(c) ==
  LET t == tx[c]
      next(kind, mode) == {Lock(c, kind, Smallest(Unlocked(c, kind)), mode)}
  IN  CASE t.step = "lock" /\ Unlocked(c, "row") # {} -> next("row", "update")
        [] t.step = "lock" /\ Unlocked(c, "row") = {} /\ ~LocksAll(c) ->
             next("advisory", "exclusive")
        [] t.step = "checkParent" -> {Lock(c, "row", t.on, "keyShare")}
        [] t.step = "deleteRow" -> {Lock(c, "row", t.on, "update")}
        [] t.step = "lock" /\ t.op = "softDelete" /\ LocksAll(c) ->
             {Lock(c, "row", t.on, "noKeyUpdate")}
        [] OTHER -> {}

Blockers(c) == HoldersAgainst(c, Wanted(c))
Deadlocked(c) == InCycle(c, Blockers)

Grant(c) == locks' = locks \cup Wanted(c)

-----------------------------------------------------------------------------
(* Statements shared by the operations.                                    *)

Running(c, o, step) == tx[c].op = o /\ tx[c].step = step
Goto(c, step) == tx' = [tx EXCEPT ![c].step = step]

Begin(c, t) ==
  /\ tx[c] = Idle
  /\ begun < MaxOps
  /\ begun' = begun + 1
  /\ tx' = [d \in Clients |->
       IF d = c THEN t
       ELSE IF tx[d].op = "fork" /\ t.op \in Flattening THEN [tx[d] EXCEPT !.stale = TRUE]
       ELSE tx[d]]
  /\ UNCHANGED <<tables, locks, stale>>

Abort(c) ==
  /\ tx' = [tx EXCEPT ![c] = Idle]
  /\ Release(c)
  /\ UNCHANGED <<tables, begun, stale>>

\* SELECT ... ORDER BY id FOR UPDATE, or lockVersions: one lock at a time.
LockNext(c) ==
  /\ tx[c].step = "lock"
  /\ ~LocksAll(c) /\ Blockers(c) = {}
  /\ Grant(c)
  /\ UNCHANGED <<tables, tx, begun, stale>>

\* The committed closure rows a DELETE finds, by descendant.
Visible(matches(_, _)) ==
  [d \in VersionIds |-> {a \in VersionIds : IsAncestor(a, d) /\ matches(d, a)}]

\* What a commit makes of the closure table.
Without(cut) ==
  [d \in VersionIds |-> [a \in VersionIds |->
     IF a \in cut[d] THEN NoRow ELSE closure[d][a]]]

End(c) == tx' = [tx EXCEPT ![c] = Idle] /\ Release(c)

-----------------------------------------------------------------------------
(* fork.                                                                   *)

\* The statement's snapshot: the sequence hands out the next id, the rows of
\* the parent are read.  The parent is the instance's cached id.
BeginFork(c, v) ==
  LET fresh == {w \in VersionIds : status[w] = "unused" /\ \A d \in Clients : w \notin tx[d].ids}
  IN  /\ status[v] # "unused" /\ fresh # {}
      /\ Begin(c, [Idle EXCEPT !.op = "fork", !.on = v, !.step = "checkParent",
                               !.ids = {Smallest(fresh)}, !.read = closure[v],
                               !.stale = v \in stale \/ \E d \in Clients : tx[d].op \in Flattening])

\* Mutant: parent_version_id without a foreign key.
ForkUncheckedParent(c) ==
  /\ Running(c, "fork", "checkParent")
  /\ Goto(c, "commit")
  /\ UNCHANGED <<tables, locks, begun, stale>>

\* The foreign key check at the end of the statement, on the latest data.
ForkCheckParent(c) ==
  /\ Running(c, "fork", "checkParent")
  /\ Blockers(c) = {}
  /\ IF HasRow(tx[c].on)
     THEN Grant(c) /\ Goto(c, "commit") /\ UNCHANGED <<tables, begun, stale>>
     ELSE Abort(c)

ForkCommit(c) ==
  /\ Running(c, "fork", "commit")
  /\ LET t == tx[c]
         w == Smallest(t.ids)
     IN  /\ status' = [status EXCEPT ![w] = "active"]
         /\ parent' = [parent EXCEPT ![w] = t.on]
         /\ closure' = [closure EXCEPT ![w] = [a \in VersionIds |->
              IF a = w THEN 0 ELSE IF t.read[a] = NoRow THEN NoRow ELSE t.read[a] + 1]]
         /\ stale' = IF t.stale THEN stale \cup {w} ELSE stale
  /\ End(c)
  /\ UNCHANGED begun

-----------------------------------------------------------------------------
(* detach.                                                                 *)

\* The subtree is read before any lock is taken.
BeginDetach(c, v) ==
  /\ status[v] # "unused"
  /\ Begin(c, [Idle EXCEPT !.op = "detach", !.on = v, !.step = "lock",
                           !.ids = Descendants(v)])

\* Mutant: only the rows of the version itself.
DetachDeleteOwn(c) ==
  /\ Running(c, "detach", "lock") /\ LocksAll(c)
  /\ tx' = [tx EXCEPT ![c].step = "commit",
                      ![c].cut = Visible(LAMBDA d, a : d = tx[c].on /\ a \notin tx[c].ids)]
  /\ UNCHANGED <<tables, locks, begun, stale>>

\* The rows that lead from the subtree read to anywhere else.
DetachDelete(c) ==
  /\ Running(c, "detach", "lock") /\ LocksAll(c)
  /\ tx' = [tx EXCEPT ![c].step = "commit",
                      ![c].cut = Visible(LAMBDA d, a : d \in tx[c].ids /\ a \notin tx[c].ids)]
  /\ UNCHANGED <<tables, locks, begun, stale>>

DetachCommit(c) ==
  /\ Running(c, "detach", "commit")
  /\ parent' = [parent EXCEPT ![tx[c].on] = NoVersion]
  /\ closure' = Without(tx[c].cut)
  /\ End(c)
  /\ UNCHANGED <<status, begun, stale>>

-----------------------------------------------------------------------------
(* Deleting one version.                                                   *)

\* discard: refused while a child exists, before the lock is taken.
BeginHardDelete(c, v) ==
  /\ status[v] # "unused" /\ Children(v) = {}
  /\ Begin(c, [Idle EXCEPT !.op = "hardDelete", !.on = v, !.step = "lock", !.ids = {v}])

HardDeleteClosure(c) ==
  /\ Running(c, "hardDelete", "lock") /\ LocksAll(c)
  /\ LET v == tx[c].on
     IN  tx' = [tx EXCEPT ![c].step = "deleteRow",
                          ![c].cut = Visible(LAMBDA d, a : v \in {d, a})]
  /\ UNCHANGED <<tables, locks, begun, stale>>

\* Mutant: waits until the children are gone.
HardDeleteRowWaits(c) ==
  /\ Running(c, "hardDelete", "deleteRow")
  /\ Blockers(c) = {} /\ Children(tx[c].on) = {}
  /\ Grant(c) /\ Goto(c, "commit") /\ UNCHANGED <<tables, begun, stale>>

\* Mutant: does not wait for a fork that has locked the row as its parent.
HardDeleteRowUnlocked(c) ==
  /\ Running(c, "hardDelete", "deleteRow")
  /\ IF Children(tx[c].on) # {} THEN Abort(c)
     ELSE Goto(c, "commit") /\ UNCHANGED <<tables, locks, begun, stale>>

\* ON DELETE RESTRICT finds a child that committed since.
HardDeleteRow(c) ==
  /\ Running(c, "hardDelete", "deleteRow")
  /\ Blockers(c) = {}
  /\ IF Children(tx[c].on) # {} THEN Abort(c)
     ELSE Grant(c) /\ Goto(c, "commit") /\ UNCHANGED <<tables, begun, stale>>

HardDeleteCommit(c) ==
  /\ Running(c, "hardDelete", "commit")
  /\ status' = [status EXCEPT ![tx[c].on] = "gone"]
  /\ parent' = [parent EXCEPT ![tx[c].on] = NoVersion]
  /\ closure' = Without(tx[c].cut)
  /\ End(c)
  /\ UNCHANGED <<begun, stale>>

\* retain: the row stays.
BeginSoftDelete(c, v) ==
  /\ status[v] # "unused"
  /\ Begin(c, [Idle EXCEPT !.op = "softDelete", !.on = v, !.step = "lock", !.ids = {v}])

SoftDeleteRow(c) ==
  /\ Running(c, "softDelete", "lock") /\ LocksAll(c)
  /\ Blockers(c) = {}
  /\ Grant(c) /\ Goto(c, "commit")
  /\ UNCHANGED <<tables, begun, stale>>

SoftDeleteCommit(c) ==
  /\ Running(c, "softDelete", "commit")
  /\ status' = [status EXCEPT ![tx[c].on] = IF @ = "active" THEN "deleted" ELSE @]
  /\ End(c)
  /\ UNCHANGED <<parent, closure, begun, stale>>

-----------------------------------------------------------------------------
(* sweepHistory.                                                           *)

BeginSweep(c) ==
  LET rows == {v \in VersionIds : HasRow(v)}
  IN  /\ rows # {}
      /\ Begin(c, [Idle EXCEPT !.op = "sweep", !.step = "lock", !.ids = rows])

Kept(c) == {v \in tx[c].ids : status[v] = "active"}
Dropped(c) == tx[c].ids \ Kept(c)

\* DELETE of every closure row that mentions a version locked.
SweepClosure(c) ==
  /\ Running(c, "sweep", "lock") /\ LocksAll(c)
  /\ tx' = [tx EXCEPT ![c].step = "deleteRows", ![c].ids = {v \in @ : HasRow(v)},
                      ![c].cut = Visible(LAMBDA d, a : {d, a} \cap tx[c].ids # {})]
  /\ UNCHANGED <<tables, locks, begun, stale>>

\* DELETE of the deleted versions: a child outside the sweep restricts it.
SweepRows(c) ==
  /\ Running(c, "sweep", "deleteRows")
  /\ IF \E v \in Dropped(c) : Children(v) \ tx[c].ids # {} THEN Abort(c)
     ELSE Goto(c, "commit") /\ UNCHANGED <<tables, locks, begun, stale>>

SweepCommit(c) ==
  /\ Running(c, "sweep", "commit")
  /\ status' = [v \in VersionIds |-> IF v \in Dropped(c) THEN "gone" ELSE status[v]]
  /\ parent' = [v \in VersionIds |-> IF v \in tx[c].ids THEN NoVersion ELSE parent[v]]
  /\ closure' = [d \in VersionIds |-> [a \in VersionIds |->
       IF d = a /\ d \in Kept(c) THEN 0 ELSE Without(tx[c].cut)[d][a]]]
  /\ End(c)
  /\ UNCHANGED <<begun, stale>>

-----------------------------------------------------------------------------
\* Any forest over the seeded versions, parents before children.
Init ==
  /\ status = [v \in VersionIds |-> IF v <= Seeded THEN "active" ELSE "unused"]
  /\ parent \in {p \in [VersionIds -> 0..Seeded] :
                   \A v \in VersionIds : p[v] < v /\ (v > Seeded => p[v] = NoVersion)}
  /\ LET chain[d \in VersionIds] ==
           [a \in VersionIds |->
              IF d > Seeded THEN NoRow
              ELSE IF a = d THEN 0
              ELSE IF parent[d] = NoVersion THEN NoRow
              ELSE IF chain[parent[d]][a] = NoRow THEN NoRow
              ELSE chain[parent[d]][a] + 1]
     IN  closure = chain
  /\ locks = {}
  /\ tx = [c \in Clients |-> Idle]
  /\ begun = 0
  /\ stale = {}

Start(c) ==
  \/ BeginSweep(c)
  \/ \E v \in VersionIds :
       BeginFork(c, v) \/ BeginDetach(c, v) \/ BeginHardDelete(c, v) \/ BeginSoftDelete(c, v)

\* The next statement of c's transaction.
Step(c) ==
  \/ LockNext(c)
  \/ ForkCheckParent(c) \/ ForkCommit(c)
  \/ DetachDelete(c) \/ DetachCommit(c)
  \/ HardDeleteClosure(c) \/ HardDeleteRow(c) \/ HardDeleteCommit(c)
  \/ SoftDeleteRow(c) \/ SoftDeleteCommit(c)
  \/ SweepClosure(c) \/ SweepRows(c) \/ SweepCommit(c)

\* PostgreSQL's deadlock detector aborts one of the transactions in a cycle.
BreakDeadlock(c) == Deadlocked(c) /\ Abort(c)

Next == \E c \in Clients : Start(c) \/ Step(c) \/ BreakDeadlock(c)

Spec == Init /\ [][Next]_vars

\* Clients keep executing the transaction they opened, lock waiters are served
\* in order, and the detector runs: nothing makes a client start another one.
FairSpec ==
  /\ Spec
  /\ \A c \in Clients : WF_vars(Step(c))
  /\ WF_vars(\E c \in Clients : BreakDeadlock(c))

-----------------------------------------------------------------------------
\* Whatever interleaves, a committed parent pointer leads to a row: fork takes
\* no advisory lock and hardDeleteVersionById checks for children before it
\* takes one, so this rests on the foreign key alone.
ParentsExist ==
  \A v \in VersionIds : parent[v] # NoVersion => HasRow(v) /\ HasRow(parent[v])

\* The closure table agrees with the parent pointers for every version but
\* those forked while a detach or a sweep was open: the advisory locks and
\* row locks order all other pairs of operations.
ClosureFollowsParents ==
  \A d \in VersionIds \ stale, a \in VersionIds :
    closure[d][a] =
      IF ~HasRow(d) THEN NoRow
      ELSE IF a = d THEN 0
      ELSE IF parent[d] = NoVersion THEN NoRow
      ELSE IF ~IsAncestor(a, parent[d]) THEN NoRow
      ELSE closure[parent[d]][a] + 1

\* The closure rows of d had the operation of c run alone, at its commit.
RunAlone(c, d) ==
  LET v == tx[c].on
      inside == Descendants(v)
      rows == [a \in VersionIds |-> closure[d][a]]
      keep(K(_)) == [a \in VersionIds |-> IF K(a) THEN closure[d][a] ELSE NoRow]
  IN  CASE tx[c].op = "detach" -> keep(LAMBDA a : d \in inside => a \in inside)
        [] tx[c].op = "hardDelete" -> keep(LAMBDA a : v \notin {a, d})
        [] tx[c].op = "sweep" -> keep(LAMBDA a : a = d /\ status[d] = "active")
        [] tx[c].op = "fork" /\ {d} = tx[c].ids ->
             [a \in VersionIds |-> IF a = d THEN 0
                                   ELSE IF IsAncestor(a, v) THEN closure[v][a] + 1
                                   ELSE NoRow]
        [] OTHER -> rows

\* Transactions serialise in the order of their commits: each leaves the
\* closure rows it would have left had it run alone just then, stale versions
\* apart.  This is what lets VersionStore take an operation as one step.
CommitsSerialize ==
  [][\A c \in Clients : tx[c].step = "commit" /\ tx'[c] = Idle =>
       \A d \in VersionIds \ stale' : closure'[d] = RunAlone(c, d)]_vars

\* Every operation ends, if only as the victim of a deadlock.
EveryOpEnds == \A c \in Clients : tx[c].op # "none" ~> tx[c].op = "none"

\* The doc of detach: "After commit, parent_version_id of the current version
\* is NULL, closure rows from the current subtree to versions outside the
\* subtree are gone."  So no descendant of a version without a parent reads
\* through it from elsewhere.
DetachedStandsAlone ==
  \A v, d, a \in VersionIds :
    HasRow(v) /\ parent[v] = NoVersion /\ IsAncestor(v, d) /\ IsAncestor(a, d)
      => IsAncestor(v, a)

\* The doc of lockVersions: ids are locked "in deterministic order (sorted
\* ascending) to avoid deadlocks".
NoDeadlock == \A c \in Clients : ~Deadlocked(c)
=============================================================================
