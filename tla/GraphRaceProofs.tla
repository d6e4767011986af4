-------------------------- MODULE GraphRaceProofs --------------------------
(***************************************************************************)
(* Two invariants of GraphRace and its serialisability, for any number of  *)
(* versions, clients and transactions.                                     *)
(*                                                                         *)
(* ParentsExist is not inductive: what a commit writes was checked by an   *)
(* earlier statement, and still holds only because of the row locks that   *)
(* its transaction has held since.  Inv relates every transaction to what  *)
(* it has checked and to the locks that protect it.                        *)
(*                                                                         *)
(* ClosureFollowsParents and CommitsSerialize rest on what a transaction   *)
(* has read of the closure table before it locks anything.  SerialInv says *)
(* how much of that is still true at its commit, and what is not.          *)
(***************************************************************************)
EXTENDS GraphRace, WellFoundedInduction, TLAPS

\* t has the fields of a transaction, whatever the closure rows it has read.
Shaped(t) == t = [op |-> t.op, on |-> t.on, step |-> t.step, ids |-> t.ids,
                  read |-> t.read, cut |-> t.cut, stale |-> t.stale]

TypeOK ==
  /\ status \in [VersionIds -> {"unused", "active", "deleted", "gone"}]
  /\ parent \in [VersionIds -> {NoVersion} \cup VersionIds]
  /\ tx = [c \in Clients |-> tx[c]]
  /\ \A c \in Clients :
       /\ Shaped(tx[c])
       /\ tx[c].op \in Operations \cup {"none"}
       /\ tx[c].op \notin {"none", "sweep"} => tx[c].on \in VersionIds
       /\ tx[c].op = "none" => tx[c].step = "none"
       /\ tx[c].ids \subseteq VersionIds

\* Clients without a transaction hold no lock, detach and the sweep lock rows
\* only FOR UPDATE, and two clients never hold locks in conflict.
LocksOK ==
  /\ \A k \in locks :
       /\ k.by \in Clients /\ tx[k.by].op # "none"
       /\ k.kind = "row" /\ tx[k.by].op \in Flattening => k.mode = "update"
  /\ \A k, m \in locks : k.by # m.by /\ k.kind = m.kind /\ k.on = m.on =>
       ~Conflict(k.mode, m.mode)

\* Client c holds the row of v locked in this mode.
RowLocked(c, v, mode) ==
  \E k \in locks : k.by = c /\ k.kind = "row" /\ k.on = v /\ k.mode = mode

\* What the transaction of c has established.
ForkOK(c) ==
  /\ \E w \in VersionIds : tx[c].ids = {w} /\ status[w] = "unused"
  /\ tx[c].step = "commit" => HasRow(tx[c].on) /\ RowLocked(c, tx[c].on, "keyShare")

HardDeleteOK(c) ==
  /\ status[tx[c].on] # "unused"
  /\ tx[c].step = "commit" => Children(tx[c].on) = {} /\ RowLocked(c, tx[c].on, "update")

SoftDeleteOK(c) == tx[c].step = "commit" => RowLocked(c, tx[c].on, "noKeyUpdate")

SweepOK(c) ==
  /\ tx[c].step \in {"deleteRows", "commit"} =>
       \A v \in tx[c].ids : HasRow(v) /\ RowLocked(c, v, "update")
  /\ tx[c].step = "commit" => \A v \in Dropped(c) : Children(v) \subseteq tx[c].ids

ClientOK(c) ==
  /\ tx[c].op = "fork" => ForkOK(c)
  /\ tx[c].op = "hardDelete" => HardDeleteOK(c)
  /\ tx[c].op = "softDelete" => SoftDeleteOK(c)
  /\ tx[c].op = "sweep" => SweepOK(c)

\* No two forks were given the same id.
IdsUnique ==
  \A c, d \in Clients : c # d /\ tx[c].op = "fork" /\ tx[d].op = "fork" =>
    tx[c].ids \cap tx[d].ids = {}

Inv ==
  /\ TypeOK
  /\ LocksOK
  /\ \A c \in Clients : ClientOK(c)
  /\ IdsUnique
  /\ ParentsExist

-----------------------------------------------------------------------------
(* Facts about the operators.                                              *)

LEMMA LeastNumber ==
  ASSUME NEW S, S \subseteq Nat, S # {}
  PROVE  \E n \in S : \A m \in S : n <= m
<1> DEFINE R == {p \in Nat \X Nat : p[1] < p[2]}
<1>1. IsWellFoundedOn(R, Nat)
  BY NatLessThanWellFounded DEF OpToRel
<1>2. \E n \in S : \A m \in S : ~(<<m, n>> \in R)
  <2> HIDE DEF R
  <2> QED BY <1>1, WFMin
<1>3. \A n, m \in S : ~(<<m, n>> \in R) => n <= m
  OBVIOUS
<1> QED BY <1>2, <1>3

\* Smallest picks the least number of a set that is not empty.
LEMMA SmallestIsMember == ASSUME NEW S, S \subseteq Nat, S # {} PROVE Smallest(S) \in S
BY LeastNumber DEF Smallest

LEMMA SmallestOfOne == ASSUME NEW w \in Nat PROVE Smallest({w}) = w
BY SmallestIsMember

LEMMA IdsAreNumbers == VersionIds \subseteq Nat /\ NoVersion \notin VersionIds
BY BoundsAssumption DEF VersionIds, NoVersion

LEMMA IdleFields ==
  Shaped(Idle) /\ Idle.op = "none" /\ Idle.step = "none" /\ Idle.ids = {}
BY DEF Shaped, Idle

\* Setting a field leaves a transaction one.
LEMMA PatchShaped ==
  ASSUME NEW t, Shaped(t), NEW e
  PROVE  /\ Shaped([t EXCEPT !.op = e]) /\ Shaped([t EXCEPT !.on = e])
         /\ Shaped([t EXCEPT !.step = e]) /\ Shaped([t EXCEPT !.ids = e])
         /\ Shaped([t EXCEPT !.read = e]) /\ Shaped([t EXCEPT !.stale = e])
         /\ Shaped([t EXCEPT !.cut = e])
BY SMT DEF Shaped

LEMMA CutShaped ==
  ASSUME NEW t, Shaped(t), NEW step, NEW cut
  PROVE  Shaped([t EXCEPT !.step = step, !.cut = cut])
<1> DEFINE u == [t EXCEPT !.step = step]
<1>1. Shaped(u)
  BY PatchShaped
<1> HIDE DEF u
<1>2. Shaped([u EXCEPT !.cut = cut])
  BY <1>1, PatchShaped
<1> QED BY <1>2 DEF u

LEMMA OpenedShaped ==
  ASSUME NEW op, NEW on, NEW step, NEW ids
  PROVE  Shaped([Idle EXCEPT !.op = op, !.on = on, !.step = step, !.ids = ids])
<1> DEFINE t1 == [Idle EXCEPT !.op = op]
           t2 == [t1 EXCEPT !.on = on]
           t3 == [t2 EXCEPT !.step = step]
           t4 == [t3 EXCEPT !.ids = ids]
<1>1. Shaped(t1)
  BY IdleFields, PatchShaped
<1> HIDE DEF t1
<1>2. Shaped(t2)
  BY <1>1, PatchShaped
<1> HIDE DEF t2
<1>3. Shaped(t3)
  BY <1>2, PatchShaped
<1> HIDE DEF t3
<1>4. Shaped(t4)
  BY <1>3, PatchShaped
<1> QED BY <1>4 DEF t1, t2, t3

\* The transaction a fork opens.
Forking(v, w, read, behind) ==
  [Idle EXCEPT !.op = "fork", !.on = v, !.step = "checkParent",
               !.ids = {w}, !.read = read, !.stale = behind]

LEMMA ForkingFields ==
  ASSUME NEW v, NEW w, NEW read, NEW behind, NEW t, t = Forking(v, w, read, behind)
  PROVE  /\ Shaped(t) /\ t.op = "fork" /\ t.on = v /\ t.step = "checkParent" /\ t.ids = {w}
         /\ t.read = read /\ t.stale = behind
<1> DEFINE t4 == [Idle EXCEPT !.op = "fork", !.on = v, !.step = "checkParent", !.ids = {w}]
           t5 == [t4 EXCEPT !.read = read]
           t6 == [t5 EXCEPT !.stale = behind]
<1>1. Shaped(t4)
  BY OpenedShaped
<1>2. t4.op = "fork" /\ t4.on = v /\ t4.step = "checkParent" /\ t4.ids = {w}
  BY SMT DEF Idle
<1> HIDE DEF t4
<1>3. Shaped(t5)
  BY <1>1, PatchShaped
<1>4. /\ t5.op = t4.op /\ t5.on = t4.on /\ t5.step = t4.step /\ t5.ids = t4.ids
      /\ t5.read = read
  BY <1>1, SMT DEF Shaped
<1> HIDE DEF t5
<1>5. Shaped(t6)
  BY <1>3, PatchShaped
<1>6. /\ t6.op = t5.op /\ t6.on = t5.on /\ t6.step = t5.step /\ t6.ids = t5.ids
      /\ t6.read = t5.read /\ t6.stale = behind
  BY <1>3, SMT DEF Shaped
<1> HIDE DEF t6
<1>7. /\ Shaped(t6) /\ t6.op = "fork" /\ t6.on = v /\ t6.step = "checkParent" /\ t6.ids = {w}
      /\ t6.read = read /\ t6.stale = behind
  BY <1>2, <1>4, <1>5, <1>6
<1> QED BY <1>7 DEF t4, t5, t6, Forking

\* The transaction t after a statement that deletes closure rows.
Cutting(t, step, ids, cut) == [t EXCEPT !.step = step, !.ids = ids, !.cut = cut]

LEMMA CuttingFields ==
  ASSUME NEW t, Shaped(t), NEW step, NEW ids, NEW cut, NEW u, u = Cutting(t, step, ids, cut)
  PROVE  /\ Shaped(u) /\ u.op = t.op /\ u.on = t.on /\ u.step = step /\ u.ids = ids
         /\ u.cut = cut
<1> DEFINE t1 == [t EXCEPT !.step = step]
           t2 == [t1 EXCEPT !.ids = ids]
           t3 == [t2 EXCEPT !.cut = cut]
<1>1. Shaped(t1)
  BY PatchShaped
<1>2. t1.op = t.op /\ t1.on = t.on /\ t1.step = step
  BY SMT DEF Shaped
<1> HIDE DEF t1
<1>3. Shaped(t2)
  BY <1>1, PatchShaped
<1>4. t2.op = t1.op /\ t2.on = t1.on /\ t2.step = t1.step /\ t2.ids = ids
  BY <1>1, SMT DEF Shaped
<1> HIDE DEF t2
<1>5. Shaped(t3)
  BY <1>3, PatchShaped
<1>6. /\ t3.op = t2.op /\ t3.on = t2.on /\ t3.step = t2.step /\ t3.ids = t2.ids
      /\ t3.cut = cut
  BY <1>3, SMT DEF Shaped
<1>7. u = t3
  BY DEF t1, t2, Cutting
<1> HIDE DEF t3
<1> QED BY <1>2, <1>4, <1>5, <1>6, <1>7

\* Locks of different clients on one row are compatible.
LEMMA RowLocksExclude ==
  ASSUME LocksOK, NEW c, NEW d, c # d, NEW v, NEW m, NEW n,
         RowLocked(c, v, m), RowLocked(d, v, n)
  PROVE  ~Conflict(m, n)
BY DEF LocksOK, RowLocked

\* What a client takes belongs to it, and suits its operation.
LEMMA WantedOwn ==
  ASSUME NEW c \in Clients, NEW k \in Wanted(c)
  PROVE  /\ k.by = c
         /\ \A m \in Wanted(c) : m = k
         /\ tx[c].op \in Flattening /\ tx[c].step = "lock" /\ k.kind = "row" => k.mode = "update"
BY DEF Wanted, Lock, Flattening

\* Granting what nobody holds a lock against keeps the locks in order.
LEMMA GrantKeepsLocks ==
  ASSUME LocksOK, NEW c \in Clients, Grant(c), Blockers(c) = {}, tx[c].op # "none",
         tx[c].op \in Flattening => tx[c].step = "lock",
         \A d \in Clients : tx'[d].op = tx[d].op
  PROVE  LocksOK'
<1>1. \A k \in Wanted(c) : k.by = c /\ \A m \in Wanted(c) : m = k
  BY WantedOwn
<1>2. \A k \in Wanted(c) : tx[c].op \in Flattening /\ k.kind = "row" => k.mode = "update"
  BY WantedOwn
<1>3. \A k \in Wanted(c), m \in locks : m.by # c /\ k.kind = m.kind /\ k.on = m.on =>
        ~Conflict(m.mode, k.mode)
  BY DEF Blockers, HoldersAgainst
<1>4. \A m, n : Conflict(m, n) <=> Conflict(n, m)
  BY DEF Conflict
<1>5. \A k \in locks' : k \in locks \/ k \in Wanted(c)
  BY DEF Grant
<1>6. \A k, m \in locks' : k.by # m.by /\ k.kind = m.kind /\ k.on = m.on =>
        ~Conflict(k.mode, m.mode)
  BY <1>1, <1>3, <1>4, <1>5 DEF LocksOK
<1>7. \A k \in locks' :
        /\ k.by \in Clients /\ tx'[k.by].op # "none"
        /\ k.kind = "row" /\ tx'[k.by].op \in Flattening => k.mode = "update"
  BY <1>1, <1>2, <1>5 DEF LocksOK
<1> QED BY <1>6, <1>7 DEF LocksOK

\* So does the end of a transaction.
LEMMA ReleaseKeepsLocks ==
  ASSUME LocksOK, NEW c \in Clients, Release(c),
         \A d \in Clients \ {c} : tx'[d].op = tx[d].op
  PROVE  LocksOK'
BY DEF LocksOK, Release

-----------------------------------------------------------------------------
(* Statements that change no version.                                      *)

\* The transaction of d goes on as it was.
SameTx(d) ==
  /\ tx'[d].op = tx[d].op /\ tx'[d].on = tx[d].on
  /\ tx'[d].step = tx[d].step /\ tx'[d].ids = tx[d].ids

\* What d has established stands while nobody changes a version or its locks.
LEMMA OtherKept ==
  ASSUME NEW d \in Clients, ClientOK(d), SameTx(d), UNCHANGED <<status, parent>>,
         \A k \in locks : k.by = d => k \in locks'
  PROVE  ClientOK(d)'
<1>1. /\ \A v : HasRow(v)' = HasRow(v) /\ Children(v)' = Children(v)
      /\ Dropped(d)' = Dropped(d)
  BY DEF HasRow, Children, Dropped, Kept, SameTx
<1>2. \A v, m : RowLocked(d, v, m) => RowLocked(d, v, m)'
  BY DEF RowLocked
<1>3. tx[d].op = "fork" /\ ForkOK(d) => ForkOK(d)'
  BY <1>1, <1>2 DEF ForkOK, SameTx
<1>4. tx[d].op = "hardDelete" /\ HardDeleteOK(d) => HardDeleteOK(d)'
  BY <1>1, <1>2 DEF HardDeleteOK, SameTx
<1>5. tx[d].op = "softDelete" /\ SoftDeleteOK(d) => SoftDeleteOK(d)'
  BY <1>1, <1>2 DEF SoftDeleteOK, SameTx
<1>6. tx[d].op = "sweep" /\ SweepOK(d) => SweepOK(d)'
  BY <1>1, <1>2 DEF SweepOK, SameTx
<1> QED BY <1>3, <1>4, <1>5, <1>6 DEF ClientOK, SameTx

\* A statement of c is sound once it leaves c itself sound.
LEMMA QuietStep ==
  ASSUME Inv, NEW c \in Clients, UNCHANGED <<status, parent>>, TypeOK', LocksOK',
         \A k \in locks : k.by # c => k \in locks',
         \A d \in Clients \ {c} : SameTx(d),
         ClientOK(c)',
         tx'[c].op = "fork" =>
           \A d \in Clients \ {c} : tx[d].op = "fork" => tx'[c].ids \cap tx[d].ids = {}
  PROVE  Inv'
<1>1. \A d \in Clients : ClientOK(d)'
  BY OtherKept DEF Inv
<1>2. IdsUnique'
  BY DEF Inv, IdsUnique, SameTx
<1>3. ParentsExist'
  BY DEF Inv, ParentsExist, HasRow
<1> QED BY <1>1, <1>2, <1>3 DEF Inv

\* tx with the fields of one client replaced.
LEMMA ReplaceTx ==
  ASSUME TypeOK, NEW c \in Clients, NEW t, tx' = [tx EXCEPT ![c] = t], Shaped(t),
         t.op \in Operations \cup {"none"},
         t.op \notin {"none", "sweep"} => t.on \in VersionIds,
         t.op = "none" => t.step = "none", t.ids \subseteq VersionIds,
         UNCHANGED <<status, parent>>
  PROVE  TypeOK' /\ tx'[c] = t /\ \A d \in Clients \ {c} : tx'[d] = tx[d]
BY DEF TypeOK

\* Opening a transaction.
LEMMA BeginKeeps ==
  ASSUME Inv, NEW c \in Clients, NEW t, Begin(c, t), Shaped(t), t.op \in Operations,
         t.op # "sweep" => t.on \in VersionIds, t.ids \subseteq VersionIds,
         t.step = IF t.op = "fork" THEN "checkParent" ELSE "lock",
         t.op = "fork" => \E w \in VersionIds :
           t.ids = {w} /\ status[w] = "unused" /\ \A d \in Clients : w \notin tx[d].ids,
         t.op = "hardDelete" => status[t.on] # "unused"
  PROVE  Inv'
<1>1. tx'[c] = t /\ UNCHANGED <<status, parent, locks>>
  BY DEF Begin, tables
<1>2. \A d \in Clients \ {c} : Shaped(tx'[d]) /\ SameTx(d)
  <2> SUFFICES ASSUME NEW d \in Clients \ {c} PROVE Shaped(tx'[d]) /\ SameTx(d)
    OBVIOUS
  <2>1. tx'[d] = tx[d] \/ tx'[d] = [tx[d] EXCEPT !.stale = TRUE]
    BY DEF Begin
  <2>2. Shaped(tx[d])
    BY DEF Inv, TypeOK
  <2> QED BY <2>1, <2>2 DEF Shaped, SameTx
<1>3. TypeOK'
  <2>1. tx' = [d \in Clients |-> tx'[d]]
    BY DEF Begin
  <2>2. t.op # "none"
    BY DEF Operations
  <2> QED BY <1>1, <1>2, <2>1, <2>2 DEF Inv, TypeOK, SameTx
<1>4. LocksOK'
  <2>1. tx[c].op = "none"
    BY IdleFields DEF Begin
  <2> QED BY <1>1, <1>2, <2>1 DEF Inv, LocksOK, SameTx
<1>5. ClientOK(c)'
  BY <1>1 DEF ClientOK, ForkOK, HardDeleteOK, SoftDeleteOK, SweepOK
<1>6. t.op = "fork" => \A d \in Clients \ {c} : t.ids \cap tx[d].ids = {}
  OBVIOUS
<1> QED BY <1>1, <1>2, <1>3, <1>4, <1>5, <1>6, QuietStep

\* A transaction that ends without an effect.
LEMMA AbortKeeps == ASSUME Inv, NEW c \in Clients, Abort(c) PROVE Inv'
<1>1. /\ tx' = [tx EXCEPT ![c] = Idle] /\ Release(c) /\ UNCHANGED <<status, parent>>
  BY DEF Abort, tables
<1>2. TypeOK' /\ tx'[c] = Idle /\ \A d \in Clients \ {c} : tx'[d] = tx[d]
  BY <1>1, IdleFields, ReplaceTx DEF Inv
<1>3. LocksOK'
  BY <1>1, <1>2, ReleaseKeepsLocks DEF Inv
<1>4. \A k \in locks : k.by # c => k \in locks'
  BY <1>1 DEF Release
<1>5. ClientOK(c)'
  BY <1>2, IdleFields DEF ClientOK
<1> QED BY <1>1, <1>2, <1>3, <1>4, <1>5, IdleFields, QuietStep DEF SameTx

\* The transaction of c moves to another statement.
LEMMA StepKeeps ==
  ASSUME Inv, NEW c \in Clients, NEW t, tx' = [tx EXCEPT ![c] = t], Shaped(t),
         t.op = tx[c].op, t.on = tx[c].on, t.ids \subseteq tx[c].ids, tx[c].op # "none",
         UNCHANGED <<status, parent>>,
         UNCHANGED locks \/
           (Grant(c) /\ Blockers(c) = {} /\ (tx[c].op \in Flattening => tx[c].step = "lock")),
         ClientOK(c)'
  PROVE  Inv'
<1>1. TypeOK' /\ tx'[c] = t /\ \A d \in Clients \ {c} : tx'[d] = tx[d]
  BY ReplaceTx DEF Inv, TypeOK
<1>2. LocksOK'
  <2>1. \A d \in Clients : tx'[d].op = tx[d].op
    BY <1>1
  <2>2. CASE UNCHANGED locks
    BY <2>1, <2>2 DEF Inv, LocksOK
  <2>3. CASE Grant(c) /\ Blockers(c) = {} /\ (tx[c].op \in Flattening => tx[c].step = "lock")
    BY <2>1, <2>3, GrantKeepsLocks DEF Inv
  <2> QED BY <2>2, <2>3
<1>3. \A k \in locks : k.by # c => k \in locks'
  BY DEF Grant
<1>4. t.op = "fork" => \A d \in Clients \ {c} : tx[d].op = "fork" => t.ids \cap tx[d].ids = {}
  BY DEF Inv, IdsUnique
<1> QED BY <1>1, <1>2, <1>3, <1>4, QuietStep DEF SameTx

LEMMA GotoKeeps ==
  ASSUME Inv, NEW c \in Clients, NEW step, Goto(c, step), tx[c].op # "none",
         UNCHANGED <<status, parent>>,
         UNCHANGED locks \/
           (Grant(c) /\ Blockers(c) = {} /\ (tx[c].op \in Flattening => tx[c].step = "lock")),
         ClientOK(c)'
  PROVE  Inv'
<1> DEFINE t == [tx[c] EXCEPT !.step = step]
<1>1. tx' = [tx EXCEPT ![c] = t]
  BY DEF Goto
<1>2. Shaped(tx[c])
  BY DEF Inv, TypeOK
<1>3. Shaped(t) /\ t.op = tx[c].op /\ t.on = tx[c].on /\ t.ids = tx[c].ids
  BY <1>2 DEF Shaped
<1> HIDE DEF t
<1> QED BY <1>1, <1>3, StepKeeps

\* What Goto leaves of the transaction.
LEMMA GotoFields ==
  ASSUME TypeOK, NEW c \in Clients, NEW step, Goto(c, step)
  PROVE  /\ tx'[c].op = tx[c].op /\ tx'[c].on = tx[c].on /\ tx'[c].ids = tx[c].ids
         /\ tx'[c].step = step
<1>1. tx'[c] = [tx[c] EXCEPT !.step = step]
  BY DEF Goto, TypeOK
<1>2. Shaped(tx[c])
  BY DEF TypeOK
<1> QED BY <1>1, <1>2 DEF Shaped

-----------------------------------------------------------------------------
(* The actions, one by one.                                                *)

LEMMA BeginForkKeeps ==
  ASSUME Inv, NEW c \in Clients, NEW v \in VersionIds, BeginFork(c, v) PROVE Inv'
<1> DEFINE fresh == {w \in VersionIds :
                       status[w] = "unused" /\ \A d \in Clients : w \notin tx[d].ids}
           w == Smallest(fresh)
           behind == v \in stale \/ \E d \in Clients : tx[d].op \in Flattening
           t == [Idle EXCEPT !.op = "fork", !.on = v, !.step = "checkParent",
                             !.ids = {w}, !.read = closure[v], !.stale = behind]
<1>1. fresh # {} /\ Begin(c, t)
  BY DEF BeginFork
<1>2. w \in fresh
  <2> HIDE DEF fresh
  <2>1. fresh \subseteq VersionIds
    BY DEF fresh
  <2> QED BY <1>1, <2>1, IdsAreNumbers, SmallestIsMember
<1>3. /\ w \in VersionIds /\ status[w] = "unused" /\ \A d \in Clients : w \notin tx[d].ids
  BY <1>2
<1> HIDE DEF w, behind, t
<1>4. Shaped(t) /\ t.op = "fork" /\ t.on = v /\ t.step = "checkParent" /\ t.ids = {w}
  <2>1. t = Forking(v, w, closure[v], behind)
    BY DEF t, Forking
  <2> QED BY <2>1, ForkingFields
<1>5. t.op \in Operations
  BY <1>4 DEF Operations
<1> QED BY <1>1, <1>3, <1>4, <1>5, BeginKeeps

LEMMA BeginDetachKeeps ==
  ASSUME Inv, NEW c \in Clients, NEW v \in VersionIds, BeginDetach(c, v) PROVE Inv'
<1> DEFINE t == [Idle EXCEPT !.op = "detach", !.on = v, !.step = "lock", !.ids = Descendants(v)]
<1>1. Begin(c, t)
  BY DEF BeginDetach
<1>2. Shaped(t) /\ t.op = "detach" /\ t.on = v /\ t.step = "lock" /\ t.ids = Descendants(v)
  <2>1. Shaped(t)
    BY OpenedShaped
  <2>2. t.op = "detach" /\ t.on = v /\ t.step = "lock" /\ t.ids = Descendants(v)
    BY SMT DEF Idle
  <2> QED BY <2>1, <2>2
<1>3. t.ids \subseteq VersionIds
  BY <1>2 DEF Descendants
<1>4. t.op \in Operations
  BY <1>2 DEF Operations
<1> HIDE DEF t
<1> QED BY <1>1, <1>2, <1>3, <1>4, BeginKeeps

LEMMA BeginHardDeleteKeeps ==
  ASSUME Inv, NEW c \in Clients, NEW v \in VersionIds, BeginHardDelete(c, v) PROVE Inv'
<1> DEFINE t == [Idle EXCEPT !.op = "hardDelete", !.on = v, !.step = "lock", !.ids = {v}]
<1>1. Begin(c, t) /\ status[v] # "unused"
  BY DEF BeginHardDelete
<1>2. Shaped(t) /\ t.op = "hardDelete" /\ t.on = v /\ t.step = "lock" /\ t.ids = {v}
  <2>1. Shaped(t)
    BY OpenedShaped
  <2>2. t.op = "hardDelete" /\ t.on = v /\ t.step = "lock" /\ t.ids = {v}
    BY SMT DEF Idle
  <2> QED BY <2>1, <2>2
<1>3. t.op \in Operations
  BY <1>2 DEF Operations
<1> HIDE DEF t
<1> QED BY <1>1, <1>2, <1>3, BeginKeeps

LEMMA BeginSoftDeleteKeeps ==
  ASSUME Inv, NEW c \in Clients, NEW v \in VersionIds, BeginSoftDelete(c, v) PROVE Inv'
<1> DEFINE t == [Idle EXCEPT !.op = "softDelete", !.on = v, !.step = "lock", !.ids = {v}]
<1>1. Begin(c, t)
  BY DEF BeginSoftDelete
<1>2. Shaped(t) /\ t.op = "softDelete" /\ t.on = v /\ t.step = "lock" /\ t.ids = {v}
  <2>1. Shaped(t)
    BY OpenedShaped
  <2>2. t.op = "softDelete" /\ t.on = v /\ t.step = "lock" /\ t.ids = {v}
    BY SMT DEF Idle
  <2> QED BY <2>1, <2>2
<1>3. t.op \in Operations
  BY <1>2 DEF Operations
<1> HIDE DEF t
<1> QED BY <1>1, <1>2, <1>3, BeginKeeps

LEMMA BeginSweepKeeps ==
  ASSUME Inv, NEW c \in Clients, BeginSweep(c) PROVE Inv'
<1> DEFINE rows == {v \in VersionIds : HasRow(v)}
           t == [Idle EXCEPT !.op = "sweep", !.step = "lock", !.ids = rows]
<1>1. Begin(c, t)
  BY DEF BeginSweep
<1>2. Shaped(t) /\ t.op = "sweep" /\ t.step = "lock" /\ t.ids = rows
  <2> DEFINE t1 == [Idle EXCEPT !.op = "sweep"]
             t2 == [t1 EXCEPT !.step = "lock"]
  <2>1. Shaped(t1)
    BY IdleFields, PatchShaped
  <2> HIDE DEF t1
  <2>2. Shaped(t2)
    BY <2>1, PatchShaped
  <2> HIDE DEF t2
  <2>3. Shaped([t2 EXCEPT !.ids = rows])
    BY <2>2, PatchShaped
  <2>4. t.op = "sweep" /\ t.step = "lock" /\ t.ids = rows
    BY SMT DEF Idle
  <2> QED BY <2>3, <2>4 DEF t1, t2
<1>3. t.ids \subseteq VersionIds
  BY <1>2
<1>4. t.op \in Operations
  BY <1>2 DEF Operations
<1> HIDE DEF t
<1> QED BY <1>1, <1>2, <1>3, <1>4, BeginKeeps

LEMMA LockNextKeeps ==
  ASSUME Inv, NEW c \in Clients, LockNext(c) PROVE Inv'
<1>1. /\ tx[c].step = "lock" /\ Blockers(c) = {} /\ Grant(c)
      /\ UNCHANGED <<status, parent, tx>>
  BY DEF LockNext, tables
<1>2. tx[c].op # "none"
  BY <1>1 DEF Inv, TypeOK
<1>3. tx' = [tx EXCEPT ![c] = tx[c]]
  BY <1>1 DEF Inv, TypeOK
<1>4. ClientOK(c)'
  BY <1>1 DEF Inv, ClientOK, ForkOK, HardDeleteOK, SoftDeleteOK, SweepOK
<1>5. Shaped(tx[c])
  BY DEF Inv, TypeOK
<1> QED BY <1>1, <1>2, <1>3, <1>4, <1>5, StepKeeps

LEMMA ForkCheckParentKeeps ==
  ASSUME Inv, NEW c \in Clients, ForkCheckParent(c) PROVE Inv'
<1>1. CASE Abort(c)
  BY <1>1, AbortKeeps
<1>2. CASE ~Abort(c)
  <2>1. /\ tx[c].op = "fork" /\ tx[c].step = "checkParent" /\ Blockers(c) = {}
        /\ HasRow(tx[c].on) /\ Grant(c) /\ Goto(c, "commit")
        /\ UNCHANGED <<status, parent>>
    BY <1>2 DEF ForkCheckParent, Running, tables
  <2>2. /\ tx'[c].op = "fork" /\ tx'[c].on = tx[c].on /\ tx'[c].ids = tx[c].ids
        /\ tx'[c].step = "commit"
    BY <2>1, GotoFields DEF Inv
  <2>3. RowLocked(c, tx[c].on, "keyShare")'
    <3>1. Lock(c, "row", tx[c].on, "keyShare") \in locks'
      BY <2>1 DEF Grant, Wanted
    <3> QED BY <3>1, <2>2 DEF RowLocked, Lock
  <2>4. ClientOK(c)'
    BY <2>1, <2>2, <2>3 DEF Inv, ClientOK, ForkOK, HasRow
  <2>5. tx[c].op \notin Flattening
    BY <2>1 DEF Flattening
  <2> QED BY <2>1, <2>4, <2>5, GotoKeeps
<1> QED BY <1>1, <1>2

LEMMA DetachDeleteKeeps ==
  ASSUME Inv, NEW c \in Clients, DetachDelete(c) PROVE Inv'
<1>1. tx[c].op = "detach" /\ UNCHANGED <<status, parent, locks>>
  BY DEF DetachDelete, Running, tables
<1>2. PICK cut : tx' = [tx EXCEPT ![c].step = "commit", ![c].cut = cut]
  BY DEF DetachDelete, Visible
<1> DEFINE t == [tx[c] EXCEPT !.step = "commit", !.cut = cut]
<1>3. tx' = [tx EXCEPT ![c] = t]
  BY <1>2
<1>4. Shaped(t) /\ t.op = tx[c].op /\ t.on = tx[c].on /\ t.ids = tx[c].ids
  <2>1. Shaped(tx[c])
    BY DEF Inv, TypeOK
  <2>2. Shaped(t)
    BY <2>1, CutShaped
  <2>3. t.op = tx[c].op /\ t.on = tx[c].on /\ t.ids = tx[c].ids
    BY <2>1, SMT DEF Shaped
  <2> QED BY <2>2, <2>3
<1> HIDE DEF t
<1>5. ClientOK(c)'
  BY <1>1, <1>3, <1>4 DEF Inv, TypeOK, ClientOK
<1> QED BY <1>1, <1>3, <1>4, <1>5, StepKeeps

LEMMA HardDeleteClosureKeeps ==
  ASSUME Inv, NEW c \in Clients, HardDeleteClosure(c) PROVE Inv'
<1>1. tx[c].op = "hardDelete" /\ UNCHANGED <<status, parent, locks>>
  BY DEF HardDeleteClosure, Running, tables
<1>2. PICK cut : tx' = [tx EXCEPT ![c].step = "deleteRow", ![c].cut = cut]
  BY DEF HardDeleteClosure, Visible
<1> DEFINE t == [tx[c] EXCEPT !.step = "deleteRow", !.cut = cut]
<1>3. tx' = [tx EXCEPT ![c] = t]
  BY <1>2
<1>4. /\ Shaped(t) /\ t.op = tx[c].op /\ t.on = tx[c].on /\ t.ids = tx[c].ids
      /\ t.step = "deleteRow"
  <2>1. Shaped(tx[c])
    BY DEF Inv, TypeOK
  <2>2. Shaped(t)
    BY <2>1, CutShaped
  <2>3. t.op = tx[c].op /\ t.on = tx[c].on /\ t.ids = tx[c].ids /\ t.step = "deleteRow"
    BY <2>1, SMT DEF Shaped
  <2> QED BY <2>2, <2>3
<1> HIDE DEF t
<1>5. ClientOK(c)'
  BY <1>1, <1>3, <1>4 DEF Inv, TypeOK, ClientOK, HardDeleteOK
<1> QED BY <1>1, <1>3, <1>4, <1>5, StepKeeps

LEMMA HardDeleteRowKeeps ==
  ASSUME Inv, NEW c \in Clients, HardDeleteRow(c) PROVE Inv'
<1>1. CASE Abort(c)
  BY <1>1, AbortKeeps
<1>2. CASE ~Abort(c)
  <2>1. /\ tx[c].op = "hardDelete" /\ tx[c].step = "deleteRow" /\ Blockers(c) = {}
        /\ Children(tx[c].on) = {} /\ Grant(c) /\ Goto(c, "commit")
        /\ UNCHANGED <<status, parent>>
    BY <1>2 DEF HardDeleteRow, Running, tables
  <2>2. /\ tx'[c].op = "hardDelete" /\ tx'[c].on = tx[c].on /\ tx'[c].step = "commit"
    BY <2>1, GotoFields DEF Inv
  <2>3. RowLocked(c, tx[c].on, "update")'
    <3>1. Lock(c, "row", tx[c].on, "update") \in locks'
      BY <2>1 DEF Grant, Wanted
    <3> QED BY <3>1, <2>2 DEF RowLocked, Lock
  <2>4. ClientOK(c)'
    <3>1. status[tx[c].on] # "unused"
      BY <2>1 DEF Inv, ClientOK, HardDeleteOK
    <3>2. Children(tx[c].on)' = {}
      BY <2>1, <2>2 DEF Children, HasRow
    <3> QED BY <2>1, <2>2, <2>3, <3>1, <3>2 DEF ClientOK, HardDeleteOK
  <2>5. tx[c].op \notin Flattening
    BY <2>1 DEF Flattening
  <2> QED BY <2>1, <2>4, <2>5, GotoKeeps
<1> QED BY <1>1, <1>2

LEMMA SoftDeleteRowKeeps ==
  ASSUME Inv, NEW c \in Clients, SoftDeleteRow(c) PROVE Inv'
<1>1. /\ tx[c].op = "softDelete" /\ tx[c].step = "lock" /\ Blockers(c) = {} /\ LocksAll(c)
      /\ Grant(c) /\ Goto(c, "commit") /\ UNCHANGED <<status, parent>>
  BY DEF SoftDeleteRow, Running, tables
<1>2. tx'[c].op = "softDelete" /\ tx'[c].on = tx[c].on /\ tx'[c].step = "commit"
  BY <1>1, GotoFields DEF Inv
<1>3. RowLocked(c, tx[c].on, "noKeyUpdate")'
  <2>1. Unlocked(c, "row") = {}
    BY <1>1 DEF LocksAll
  <2>2. Lock(c, "row", tx[c].on, "noKeyUpdate") \in locks'
    BY <1>1, <2>1 DEF Grant, Wanted
  <2> QED BY <2>2, <1>2 DEF RowLocked, Lock
<1>4. ClientOK(c)'
  BY <1>2, <1>3 DEF ClientOK, SoftDeleteOK
<1>5. tx[c].op \notin Flattening
  BY <1>1 DEF Flattening
<1> QED BY <1>1, <1>4, <1>5, GotoKeeps

LEMMA SweepClosureKeeps ==
  ASSUME Inv, NEW c \in Clients, SweepClosure(c) PROVE Inv'
<1>1. tx[c].op = "sweep" /\ LocksAll(c) /\ UNCHANGED <<status, parent, locks>>
  BY DEF SweepClosure, Running, tables
<1> DEFINE ids == {v \in tx[c].ids : HasRow(v)}
<1>2. PICK cut : tx' = [tx EXCEPT ![c].step = "deleteRows", ![c].ids = ids, ![c].cut = cut]
  BY DEF SweepClosure, Visible
<1> DEFINE t == [tx[c] EXCEPT !.step = "deleteRows", !.ids = ids, !.cut = cut]
<1>3. tx' = [tx EXCEPT ![c] = t]
  BY <1>2
<1>4. /\ Shaped(t) /\ t.op = tx[c].op /\ t.on = tx[c].on /\ t.ids = ids
      /\ t.step = "deleteRows"
  <2>1. Shaped(tx[c])
    BY DEF Inv, TypeOK
  <2>2. t = Cutting(tx[c], "deleteRows", ids, cut)
    BY DEF Cutting
  <2> HIDE DEF ids, t
  <2> QED BY <2>1, <2>2, CuttingFields
<1> HIDE DEF t
<1>5. \A v \in ids : RowLocked(c, v, "update")
  <2> SUFFICES ASSUME NEW v \in ids PROVE RowLocked(c, v, "update")
    OBVIOUS
  <2>1. v \notin Unlocked(c, "row")
    BY <1>1 DEF LocksAll
  <2>2. tx[c].op \in Flattening
    BY <1>1 DEF Flattening
  <2>3. Holds(c, "row", v)
    BY <2>1, <2>2 DEF Unlocked
  <2> QED BY <2>2, <2>3 DEF Holds, RowLocked, Inv, LocksOK
<1>6. tx'[c] = t
  BY <1>3 DEF Inv, TypeOK
<1>7. ClientOK(c)'
  <2>1. \A v \in ids : HasRow(v)' /\ RowLocked(c, v, "update")'
    BY <1>1, <1>5 DEF HasRow, RowLocked
  <2> QED BY <1>1, <1>4, <1>6, <2>1 DEF ClientOK, SweepOK
<1> QED BY <1>1, <1>3, <1>4, <1>7, StepKeeps

LEMMA SweepRowsKeeps ==
  ASSUME Inv, NEW c \in Clients, SweepRows(c) PROVE Inv'
<1>1. CASE Abort(c)
  BY <1>1, AbortKeeps
<1>2. CASE ~Abort(c)
  <2>1. /\ tx[c].op = "sweep" /\ tx[c].step = "deleteRows" /\ Goto(c, "commit")
        /\ \A v \in Dropped(c) : Children(v) \subseteq tx[c].ids
        /\ UNCHANGED <<status, parent, locks>>
    BY <1>2 DEF SweepRows, Running, tables
  <2>2. tx'[c].op = "sweep" /\ tx'[c].ids = tx[c].ids /\ tx'[c].step = "commit"
    BY <2>1, GotoFields DEF Inv
  <2>3. Dropped(c)' = Dropped(c) /\ \A v : Children(v)' = Children(v) /\ HasRow(v)' = HasRow(v)
    BY <2>1, <2>2 DEF Dropped, Kept, Children, HasRow
  <2>4. \A v \in tx[c].ids : HasRow(v) /\ RowLocked(c, v, "update")
    BY <2>1 DEF Inv, ClientOK, SweepOK
  <2>5. \A v : RowLocked(c, v, "update")' = RowLocked(c, v, "update")
    BY <2>1 DEF RowLocked
  <2>6. ClientOK(c)'
    BY <2>1, <2>2, <2>3, <2>4, <2>5 DEF ClientOK, SweepOK
  <2> QED BY <2>1, <2>6, GotoKeeps
<1> QED BY <1>1, <1>2

-----------------------------------------------------------------------------
(* The commits.                                                            *)

\* Another transaction stands if the commit respects its id and its locks.
LEMMA OtherStands ==
  ASSUME Inv, NEW c \in Clients, NEW d \in Clients \ {c}, End(c),
         \A v \in VersionIds : status[v] # "unused" => status'[v] # "unused",
         tx[d].op = "fork" => \A v \in tx[d].ids : status[v] = "unused" => status'[v] = "unused",
         \A v \in VersionIds : RowLocked(d, v, "keyShare") \/ RowLocked(d, v, "update") =>
           (HasRow(v) => HasRow(v)'),
         \A v \in VersionIds : RowLocked(d, v, "update") =>
           Children(v)' \subseteq Children(v) /\ (status[v] = "active" => status'[v] = "active")
  PROVE  ClientOK(d)'
<1>1. tx'[d] = tx[d]
  BY DEF End
<1>2. \A v, m : RowLocked(d, v, m) => RowLocked(d, v, m)'
  BY DEF End, Release, RowLocked
<1>3. ClientOK(d) /\ TypeOK
  BY DEF Inv
<1>4. tx[d].op = "fork" => ForkOK(d)'
  BY <1>1, <1>2, <1>3 DEF ClientOK, ForkOK, TypeOK
<1>5. tx[d].op = "hardDelete" => HardDeleteOK(d)'
  <2> SUFFICES ASSUME tx[d].op = "hardDelete" PROVE HardDeleteOK(d)'
    OBVIOUS
  <2>1. HardDeleteOK(d) /\ tx[d].on \in VersionIds
    BY <1>3 DEF ClientOK, TypeOK
  <2>2. tx[d].step = "commit" => RowLocked(d, tx[d].on, "update") /\ Children(tx[d].on) = {}
    BY <2>1 DEF HardDeleteOK
  <2>3. \A v \in VersionIds : RowLocked(d, v, "update") /\ Children(v) = {} =>
          Children(v)' = {} /\ RowLocked(d, v, "update")'
    BY <1>2
  <2> QED BY <1>1, <2>1, <2>2, <2>3 DEF HardDeleteOK
<1>6. tx[d].op = "softDelete" => SoftDeleteOK(d)'
  BY <1>1, <1>2, <1>3 DEF ClientOK, SoftDeleteOK
<1>7. tx[d].op = "sweep" => SweepOK(d)'
  <2> SUFFICES ASSUME tx[d].op = "sweep" PROVE SweepOK(d)'
    OBVIOUS
  <2>1. SweepOK(d)
    BY <1>3 DEF ClientOK
  <2>2. tx[d].step \in {"deleteRows", "commit"} =>
          \A v \in tx[d].ids : HasRow(v)' /\ RowLocked(d, v, "update")'
    BY <1>2, <1>3, <2>1 DEF SweepOK, TypeOK
  <2>3. tx[d].step = "commit" => \A v \in Dropped(d)' : Children(v)' \subseteq tx[d].ids
    <3> SUFFICES ASSUME tx[d].step = "commit", NEW v \in Dropped(d)'
                 PROVE  Children(v)' \subseteq tx[d].ids
      OBVIOUS
    <3>1. v \in tx[d].ids /\ status'[v] # "active"
      BY <1>1 DEF Dropped, Kept
    <3>2. RowLocked(d, v, "update")
      BY <2>1, <3>1 DEF SweepOK
    <3>3. v \in Dropped(d)
      BY <1>3, <3>1, <3>2 DEF Dropped, Kept, TypeOK
    <3> QED BY <1>3, <2>1, <3>1, <3>2, <3>3 DEF SweepOK, TypeOK
  <2> QED BY <1>1, <2>2, <2>3 DEF SweepOK
<1> QED BY <1>1, <1>4, <1>5, <1>6, <1>7 DEF ClientOK

\* A commit is sound once its rows are and the others stand.
LEMMA CommitKeeps ==
  ASSUME Inv, NEW c \in Clients, End(c),
         status' \in [VersionIds -> {"unused", "active", "deleted", "gone"}],
         parent' \in [VersionIds -> {NoVersion} \cup VersionIds],
         ParentsExist',
         \A d \in Clients \ {c} : ClientOK(d)'
  PROVE  Inv'
<1>1. tx'[c] = Idle /\ \A d \in Clients \ {c} : tx'[d] = tx[d]
  BY DEF End, Inv, TypeOK
<1>2. TypeOK'
  <2>1. tx' = [d \in Clients |-> tx'[d]]
    BY DEF End, Inv, TypeOK
  <2> QED BY <1>1, <2>1, IdleFields DEF Inv, TypeOK
<1>3. LocksOK'
  BY <1>1, ReleaseKeepsLocks DEF Inv, End
<1>4. ClientOK(c)'
  BY <1>1, IdleFields DEF ClientOK
<1>5. IdsUnique'
  BY <1>1, IdleFields DEF Inv, IdsUnique
<1> QED BY <1>2, <1>3, <1>4, <1>5 DEF Inv

LEMMA ForkCommitKeeps ==
  ASSUME Inv, NEW c \in Clients, ForkCommit(c) PROVE Inv'
<1>1. tx[c].op = "fork" /\ tx[c].step = "commit" /\ End(c)
  BY DEF ForkCommit, Running
<1>2. PICK w \in VersionIds : tx[c].ids = {w} /\ status[w] = "unused"
  BY <1>1 DEF Inv, ClientOK, ForkOK
<1> DEFINE on == tx[c].on
<1>3. on \in VersionIds /\ HasRow(on) /\ RowLocked(c, on, "keyShare")
  BY <1>1 DEF Inv, TypeOK, ClientOK, ForkOK
<1>4. Smallest(tx[c].ids) = w
  BY <1>2, IdsAreNumbers, SmallestOfOne
<1>5. status' = [status EXCEPT ![w] = "active"] /\ parent' = [parent EXCEPT ![w] = on]
  BY <1>4 DEF ForkCommit
<1>6. \A d \in Clients \ {c} : ClientOK(d)'
  <2> SUFFICES ASSUME NEW d \in Clients \ {c} PROVE ClientOK(d)'
    OBVIOUS
  <2>1. \A v \in VersionIds : status[v] # "unused" => status'[v] # "unused"
    BY <1>5 DEF Inv, TypeOK
  <2>2. tx[d].op = "fork" => w \notin tx[d].ids
    BY <1>1, <1>2 DEF Inv, IdsUnique
  <2>3. tx[d].op = "fork" => \A v \in tx[d].ids : status[v] = "unused" => status'[v] = "unused"
    BY <1>5, <2>2 DEF Inv, TypeOK
  <2>4. \A v : HasRow(v) => HasRow(v)'
    BY <1>2, <1>5 DEF HasRow, Inv, TypeOK
  <2>5. \A v : RowLocked(d, v, "update") => v # on
    <3>1. Conflict("keyShare", "update")
      BY DEF Conflict
    <3> QED BY <1>3, <3>1, RowLocksExclude DEF Inv
  <2>6. \A v : v # on => Children(v)' \subseteq Children(v)
    BY <1>5 DEF Children, HasRow, Inv, TypeOK
  <2>7. \A v : status[v] = "active" => status'[v] = "active"
    BY <1>5 DEF Inv, TypeOK
  <2> QED BY <1>1, <2>1, <2>3, <2>4, <2>5, <2>6, <2>7, OtherStands
<1>7. ParentsExist'
  BY <1>2, <1>3, <1>5 DEF ParentsExist, HasRow, Inv, TypeOK
<1> QED BY <1>1, <1>3, <1>5, <1>6, <1>7, CommitKeeps DEF Inv, TypeOK

LEMMA DetachCommitKeeps ==
  ASSUME Inv, NEW c \in Clients, DetachCommit(c) PROVE Inv'
<1>1. /\ End(c) /\ UNCHANGED status /\ parent' = [parent EXCEPT ![tx[c].on] = NoVersion]
  BY DEF DetachCommit
<1>2. \A v \in VersionIds : HasRow(v)' = HasRow(v) /\ Children(v)' \subseteq Children(v)
  <2>1. \A v : HasRow(v)' = HasRow(v)
    BY <1>1 DEF HasRow
  <2>2. \A v, d \in VersionIds : parent'[d] = v => parent[d] = v
    BY <1>1, IdsAreNumbers DEF Inv, TypeOK
  <2> QED BY <2>1, <2>2 DEF Children
<1>3. \A d \in Clients \ {c} : ClientOK(d)'
  BY <1>1, <1>2, OtherStands
<1>4. ParentsExist'
  BY <1>1, <1>2 DEF ParentsExist, Inv, TypeOK
<1> QED BY <1>1, <1>3, <1>4, CommitKeeps DEF Inv, TypeOK

LEMMA HardDeleteCommitKeeps ==
  ASSUME Inv, NEW c \in Clients, HardDeleteCommit(c) PROVE Inv'
<1> DEFINE on == tx[c].on
<1>1. /\ tx[c].op = "hardDelete" /\ tx[c].step = "commit" /\ End(c)
      /\ status' = [status EXCEPT ![on] = "gone"]
      /\ parent' = [parent EXCEPT ![on] = NoVersion]
  BY DEF HardDeleteCommit, Running
<1>2. /\ on \in VersionIds /\ status[on] # "unused"
      /\ Children(on) = {} /\ RowLocked(c, on, "update")
  BY <1>1 DEF Inv, TypeOK, ClientOK, HardDeleteOK
<1> HIDE DEF on
<1>3. \A d \in Clients \ {c} : ClientOK(d)'
  <2> SUFFICES ASSUME NEW d \in Clients \ {c} PROVE ClientOK(d)'
    OBVIOUS
  <2>1. \A v \in VersionIds : (status[v] # "unused" => status'[v] # "unused")
                              /\ (status[v] = "unused" => status'[v] = "unused")
    BY <1>1, <1>2 DEF Inv, TypeOK
  <2>2. tx[d].op = "fork" => \A v \in tx[d].ids : status[v] = "unused" => status'[v] = "unused"
    BY <2>1 DEF Inv, TypeOK
  <2>3. ~RowLocked(d, on, "keyShare") /\ ~RowLocked(d, on, "update")
    <3>1. Conflict("update", "keyShare") /\ Conflict("update", "update")
      BY DEF Conflict
    <3> QED BY <1>2, <3>1, RowLocksExclude DEF Inv
  <2>4. \A v \in VersionIds : v # on => status'[v] = status[v] /\ (HasRow(v) => HasRow(v)')
    BY <1>1 DEF HasRow, Inv, TypeOK
  <2>5. \A v \in VersionIds : Children(v)' \subseteq Children(v)
    <3>1. \A v, e \in VersionIds : parent'[e] = v => parent[e] = v
      BY <1>1, IdsAreNumbers DEF Inv, TypeOK
    <3>2. \A e \in VersionIds : HasRow(e)' => HasRow(e)
      BY <1>1 DEF HasRow, Inv, TypeOK
    <3> QED BY <3>1, <3>2 DEF Children
  <2> QED BY <1>1, <2>1, <2>2, <2>3, <2>4, <2>5, OtherStands
<1>4. ParentsExist'
  <2> SUFFICES ASSUME NEW v \in VersionIds, parent'[v] # NoVersion
               PROVE  HasRow(v)' /\ HasRow(parent[v])'
    BY DEF ParentsExist
  <2>1. v # on /\ parent'[v] = parent[v]
    BY <1>1, <1>2 DEF Inv, TypeOK
  <2>2. HasRow(v) /\ HasRow(parent[v]) /\ parent[v] \in VersionIds
    BY <2>1 DEF Inv, ParentsExist, TypeOK
  <2>3. parent[v] # on
    BY <1>2, <2>2 DEF Children
  <2> QED BY <1>1, <2>1, <2>2, <2>3 DEF HasRow, Inv, TypeOK
<1> QED BY <1>1, <1>3, <1>4, CommitKeeps DEF Inv, TypeOK

LEMMA SoftDeleteCommitKeeps ==
  ASSUME Inv, NEW c \in Clients, SoftDeleteCommit(c) PROVE Inv'
<1> DEFINE on == tx[c].on
<1>1. /\ tx[c].op = "softDelete" /\ tx[c].step = "commit" /\ End(c) /\ UNCHANGED parent
      /\ status' = [status EXCEPT ![on] = IF status[on] = "active" THEN "deleted" ELSE status[on]]
  BY DEF SoftDeleteCommit, Running
<1>2. on \in VersionIds /\ RowLocked(c, on, "noKeyUpdate")
  BY <1>1 DEF Inv, TypeOK, ClientOK, SoftDeleteOK
<1> HIDE DEF on
<1>3. \A v \in VersionIds :
        /\ HasRow(v)' <=> HasRow(v)
        /\ status'[v] = "unused" <=> status[v] = "unused"
        /\ v # on => status'[v] = status[v]
  BY <1>1 DEF HasRow, Inv, TypeOK
<1>4. \A d \in Clients \ {c} : ClientOK(d)'
  <2> SUFFICES ASSUME NEW d \in Clients \ {c} PROVE ClientOK(d)'
    OBVIOUS
  <2>1. tx[d].op = "fork" => \A v \in tx[d].ids : status[v] = "unused" => status'[v] = "unused"
    BY <1>3 DEF Inv, TypeOK
  <2>2. ~RowLocked(d, on, "update")
    <3>1. Conflict("noKeyUpdate", "update")
      BY DEF Conflict
    <3> QED BY <1>2, <3>1, RowLocksExclude DEF Inv
  <2>3. \A v \in VersionIds : Children(v)' = Children(v)
    BY <1>1, <1>3 DEF Children
  <2> QED BY <1>1, <1>3, <2>1, <2>2, <2>3, OtherStands
<1>5. ParentsExist'
  BY <1>1, <1>3 DEF ParentsExist, Inv, TypeOK
<1>6. status' \in [VersionIds -> {"unused", "active", "deleted", "gone"}]
  BY <1>1 DEF Inv, TypeOK
<1> QED BY <1>1, <1>4, <1>5, <1>6, CommitKeeps DEF Inv, TypeOK

LEMMA SweepCommitKeeps ==
  ASSUME Inv, NEW c \in Clients, SweepCommit(c) PROVE Inv'
<1> DEFINE ids == tx[c].ids
<1>1. /\ tx[c].op = "sweep" /\ tx[c].step = "commit" /\ End(c)
      /\ status' = [v \in VersionIds |-> IF v \in Dropped(c) THEN "gone" ELSE status[v]]
      /\ parent' = [v \in VersionIds |-> IF v \in ids THEN NoVersion ELSE parent[v]]
  BY DEF SweepCommit, Running
<1>2. /\ ids \subseteq VersionIds /\ Dropped(c) \subseteq ids
      /\ \A v \in ids : HasRow(v) /\ RowLocked(c, v, "update")
      /\ \A v \in Dropped(c) : Children(v) \subseteq ids
  BY <1>1 DEF Inv, TypeOK, ClientOK, SweepOK, Dropped
<1> HIDE DEF ids
<1>3. \A d \in Clients \ {c} : ClientOK(d)'
  <2> SUFFICES ASSUME NEW d \in Clients \ {c} PROVE ClientOK(d)'
    OBVIOUS
  <2>1. \A v \in VersionIds : (status[v] # "unused" => status'[v] # "unused")
                              /\ (status[v] = "unused" => status'[v] = "unused")
    BY <1>1, <1>2 DEF HasRow
  <2>2. tx[d].op = "fork" => \A v \in tx[d].ids : status[v] = "unused" => status'[v] = "unused"
    BY <2>1 DEF Inv, TypeOK
  <2>3. \A v \in ids : ~RowLocked(d, v, "keyShare") /\ ~RowLocked(d, v, "update")
    <3>1. Conflict("update", "keyShare") /\ Conflict("update", "update")
      BY DEF Conflict
    <3> QED BY <1>2, <3>1, RowLocksExclude DEF Inv
  <2>4. \A v \in VersionIds : v \notin ids => status'[v] = status[v] /\ (HasRow(v) => HasRow(v)')
    BY <1>1, <1>2 DEF HasRow
  <2>5. \A v \in VersionIds : Children(v)' \subseteq Children(v)
    <3>1. \A v, e \in VersionIds : parent'[e] = v => parent[e] = v
      BY <1>1, IdsAreNumbers
    <3>2. \A e \in VersionIds : HasRow(e)' => HasRow(e)
      BY <1>1 DEF HasRow
    <3> QED BY <3>1, <3>2 DEF Children
  <2> QED BY <1>1, <2>1, <2>2, <2>3, <2>4, <2>5, OtherStands
<1>4. ParentsExist'
  <2> SUFFICES ASSUME NEW v \in VersionIds, parent'[v] # NoVersion
               PROVE  HasRow(v)' /\ HasRow(parent[v])'
    BY DEF ParentsExist
  <2>1. v \notin ids /\ parent'[v] = parent[v]
    BY <1>1
  <2>2. HasRow(v) /\ HasRow(parent[v]) /\ parent[v] \in VersionIds
    BY <2>1 DEF Inv, ParentsExist, TypeOK
  <2>3. parent[v] \notin Dropped(c)
    BY <1>2, <2>1, <2>2 DEF Children
  <2> QED BY <1>1, <1>2, <2>1, <2>2, <2>3 DEF HasRow
<1>5. /\ status' \in [VersionIds -> {"unused", "active", "deleted", "gone"}]
      /\ parent' \in [VersionIds -> {NoVersion} \cup VersionIds]
  BY <1>1 DEF Inv, TypeOK
<1> QED BY <1>1, <1>3, <1>4, <1>5, CommitKeeps

-----------------------------------------------------------------------------
(* The theorem.                                                            *)

LEMMA InitInv == Init => Inv
<1> SUFFICES ASSUME Init PROVE Inv
  OBVIOUS
<1>1. \A v \in VersionIds : parent[v] \in 0..Seeded /\ parent[v] < v
                            /\ (v > Seeded => parent[v] = NoVersion)
  BY DEF Init
<1>2. 0..Seeded \subseteq {NoVersion} \cup VersionIds
  BY BoundsAssumption DEF NoVersion, VersionIds
<1>3. parent \in [VersionIds -> {NoVersion} \cup VersionIds]
  <2>1. parent \in [VersionIds -> 0..Seeded]
    BY DEF Init
  <2> QED BY <1>2, <2>1
<1>4. /\ status = [v \in VersionIds |-> IF v <= Seeded THEN "active" ELSE "unused"]
      /\ tx = [c \in Clients |-> Idle] /\ locks = {}
  BY DEF Init
<1>5. TypeOK
  BY <1>3, <1>4, IdleFields DEF TypeOK
<1>6. LocksOK /\ IdsUnique /\ \A c \in Clients : ClientOK(c)
  BY <1>4, IdleFields DEF LocksOK, IdsUnique, ClientOK
<1>7. ParentsExist
  <2> SUFFICES ASSUME NEW v \in VersionIds, parent[v] # NoVersion
               PROVE  HasRow(v) /\ HasRow(parent[v])
    BY DEF ParentsExist
  <2>1. v <= Seeded /\ parent[v] <= Seeded
    BY <1>1, BoundsAssumption DEF VersionIds
  <2>2. parent[v] \in VersionIds
    BY <1>3
  <2> QED BY <1>4, <2>1, <2>2 DEF HasRow
<1> QED BY <1>5, <1>6, <1>7 DEF Inv

LEMMA StartKeeps == ASSUME Inv, NEW c \in Clients, Start(c) PROVE Inv'
BY BeginForkKeeps, BeginDetachKeeps, BeginHardDeleteKeeps, BeginSoftDeleteKeeps,
   BeginSweepKeeps DEF Start

LEMMA StatementKeeps == ASSUME Inv, NEW c \in Clients, Step(c) PROVE Inv'
BY LockNextKeeps, ForkCheckParentKeeps, ForkCommitKeeps, DetachDeleteKeeps, DetachCommitKeeps,
   HardDeleteClosureKeeps, HardDeleteRowKeeps, HardDeleteCommitKeeps, SoftDeleteRowKeeps,
   SoftDeleteCommitKeeps, SweepClosureKeeps, SweepRowsKeeps, SweepCommitKeeps DEF Step

LEMMA StutterKeeps == ASSUME Inv, UNCHANGED vars PROVE Inv'
<1> USE DEF vars, tables
<1>1. TypeOK' /\ LocksOK' /\ IdsUnique'
  BY DEF Inv, TypeOK, LocksOK, IdsUnique
<1>2. \A c \in Clients : ClientOK(c)'
  BY OtherKept DEF Inv, SameTx
<1>3. ParentsExist'
  BY DEF Inv, ParentsExist, HasRow
<1> QED BY <1>1, <1>2, <1>3 DEF Inv

LEMMA NextInv == Inv /\ [Next]_vars => Inv'
<1> SUFFICES ASSUME Inv, [Next]_vars PROVE Inv'
  OBVIOUS
<1>1. ASSUME NEW c \in Clients, BreakDeadlock(c) PROVE Inv'
  BY <1>1, AbortKeeps DEF BreakDeadlock
<1> QED BY <1>1, StartKeeps, StatementKeeps, StutterKeeps DEF Next

\* However forks, detaches, deletes and sweeps interleave, statement by
\* statement, and whichever of them the deadlock detector aborts: a committed
\* parent_version_id always leads to a row.
THEOREM ParentsAlwaysExist == Spec => []ParentsExist
<1>1. Inv => ParentsExist
  BY DEF Inv
<1> QED BY <1>1, InitInv, NextInv, PTL DEF Spec

-----------------------------------------------------------------------------
(* The closure table.                                                      *)

\* The versions the closure table is right about.
Sure == {v \in VersionIds \ stale : HasRow(v)}

\* The closure rows of the versions in L are what parents say.  To show that
\* an operation keeps them so takes that ancestry is an order, in which the
\* ancestors of a version form one chain.
Follows(L, par, clo) ==
  \A d, a \in L :
    clo[d][a] = IF a = d THEN 0
                ELSE IF par[d] = NoVersion THEN NoRow
                ELSE IF clo[par[d]][a] = NoRow THEN NoRow
                ELSE clo[par[d]][a] + 1

Inside(L, par, clo) ==
  /\ \A d \in L : par[d] \in L \cup {NoVersion}
  /\ \A d \in L, a \in VersionIds :
       /\ clo[d][a] \in Nat \cup {NoRow}
       /\ clo[d][a] # NoRow => a \in L

Ordered(L, clo) ==
  /\ \A d, a \in L : clo[d][a] # NoRow /\ clo[a][d] # NoRow => d = a
  /\ \A d, b, a \in L : clo[d][b] # NoRow /\ clo[b][a] # NoRow => clo[d][a] # NoRow
  /\ \A d, a, b \in L :
       clo[d][a] # NoRow /\ clo[d][b] # NoRow => clo[a][b] # NoRow \/ clo[b][a] # NoRow

Forest(L, par, clo) ==
  Inside(L, par, clo) /\ Follows(L, par, clo) /\ Ordered(L, clo)

\* A version that is sure to have lost its row has lost its closure rows.
GoneHaveNoRows ==
  \A d \in VersionIds \ stale : ~HasRow(d) => \A a \in VersionIds : closure[d][a] = NoRow

\* A fork that no detach and no sweep has overlapped still reads its parent's
\* closure rows from the table when it commits.
ForkReads(c) ==
  /\ status[tx[c].on] # "unused"
  /\ ~tx[c].stale =>
       /\ \A d \in Clients : tx[d].op \notin Flattening
       /\ tx[c].on \notin stale
       /\ HasRow(tx[c].on) =>
            \A a \in VersionIds : tx[c].read[a] = closure[tx[c].on][a]

\* A version that has left the subtree a detach has read has no ancestor
\* outside what was read: another detach took it along.
TakenAlong(c) ==
  \A d \in Sure \cap tx[c].ids : closure[d][tx[c].on] = NoRow =>
    \A a \in VersionIds : closure[d][a] # NoRow => a \in tx[c].ids

\* A detach reads the subtree before it locks it.  Whoever is below v then was
\* read, and no version read is above v.
DetachReads(c) ==
  LET v == tx[c].on
      ids == tx[c].ids
  IN  /\ \A d \in Sure : closure[d][v] # NoRow => d \in ids
      /\ v \in Sure => \A a \in ids : a # v => closure[v][a] = NoRow
      /\ TakenAlong(c)
      /\ tx[c].step = "commit" =>
           \A d \in Sure, a \in VersionIds :
             /\ d \in ids /\ a \notin ids /\ closure[d][a] # NoRow => a \in tx[c].cut[d]
             /\ a \in tx[c].cut[d] => d \in ids /\ a \notin ids

HardDeleteReads(c) ==
  LET v == tx[c].on
  IN  tx[c].step \in {"deleteRow", "commit"} =>
        /\ v \notin stale => \A a \in VersionIds : closure[v][a] # NoRow => a \in tx[c].cut[v]
        /\ \A d, a \in VersionIds : d # v /\ a \in tx[c].cut[d] => a = v

\* A sweep has read every version that is sure: forks that commit while it is
\* open are stale.
SweepReads(c) ==
  /\ Sure \subseteq tx[c].ids
  /\ tx[c].step \in {"deleteRows", "commit"} =>
       \A d \in Sure, a \in VersionIds : closure[d][a] # NoRow => a \in tx[c].cut[d]

ReadsOK(c) ==
  /\ tx[c].op = "fork" => ForkReads(c)
  /\ tx[c].op = "detach" => DetachReads(c)
  /\ tx[c].op = "hardDelete" => HardDeleteReads(c)
  /\ tx[c].op = "sweep" => SweepReads(c)

SerialInv ==
  /\ closure = [d \in VersionIds |-> [a \in VersionIds |-> closure[d][a]]]
  /\ stale \subseteq {v \in VersionIds : status[v] # "unused"}
  /\ Forest(Sure, parent, closure)
  /\ GoneHaveNoRows
  /\ \A c \in Clients : ReadsOK(c)

-----------------------------------------------------------------------------
(* What the operations make of a forest.                                   *)

\* A version that no parent pointer names is nobody's ancestor but its own.
LEMMA ChildlessIsNoAncestor ==
  ASSUME NEW L, L \subseteq VersionIds, NEW par, NEW clo, Forest(L, par, clo),
         NEW t \in VersionIds, \A d \in L : par[d] # t
  PROVE  \A d \in L : d # t => clo[d][t] = NoRow
<1> DEFINE Depths == {n \in Nat : \E d \in L : d # t /\ clo[d][t] = n}
<1>1. \A d \in L : clo[d][t] \in Nat \cup {NoRow} /\ (clo[d][t] # NoRow => t \in L)
  BY DEF Forest, Inside
<1>2. ASSUME NEW n \in Depths, \A m \in Depths : n <= m PROVE FALSE
  <2>1. PICK d \in L : d # t /\ clo[d][t] = n
    BY <1>2
  <2>2. n \in Nat /\ n # NoRow
    BY DEF NoRow
  <2>3. clo[d][t] = IF par[d] = NoVersion THEN NoRow
                    ELSE IF clo[par[d]][t] = NoRow THEN NoRow
                    ELSE clo[par[d]][t] + 1
    BY <1>1, <2>1, <2>2 DEF Forest, Follows
  <2>4. PICK e \in L : par[d] = e /\ e # t
    BY <2>1, <2>2, <2>3 DEF Forest, Inside
  <2>5. clo[e][t] \in Nat /\ n = clo[e][t] + 1
    BY <1>1, <2>1, <2>2, <2>3, <2>4
  <2>6. clo[e][t] \in Depths
    BY <2>4, <2>5
  <2>7. n <= clo[e][t]
    <3> HIDE DEF Depths
    <3> QED BY <1>2, <2>6
  <2> QED BY <2>5, <2>7
<1>3. Depths = {}
  <2>1. Depths \subseteq Nat
    OBVIOUS
  <2> HIDE DEF Depths
  <2> QED BY <1>2, <2>1, LeastNumber
<1> QED BY <1>1, <1>3

\* A new version under a parent or none, which nobody has as ancestor yet.
LEMMA AttachForest ==
  ASSUME NEW L, L \subseteq VersionIds, NEW par, NEW clo, Forest(L, par, clo),
         NEW w \in VersionIds \ L, NEW par2, NEW clo2,
         par2[w] \in L \cup {NoVersion},
         \A d \in L : par2[d] = par[d] /\ \A a \in VersionIds : clo2[d][a] = clo[d][a],
         \A a \in VersionIds :
           clo2[w][a] = IF a = w THEN 0
                        ELSE IF par2[w] = NoVersion THEN NoRow
                        ELSE IF clo[par2[w]][a] = NoRow THEN NoRow
                        ELSE clo[par2[w]][a] + 1
  PROVE  Forest(L \cup {w}, par2, clo2)
<1> DEFINE M == L \cup {w}
           b == par2[w]
<1>1. \A d \in L, a \in VersionIds :
        /\ clo[d][a] \in Nat \cup {NoRow}
        /\ clo[d][a] # NoRow => a \in L
  BY DEF Forest, Inside
<1>2. \A d \in L : clo2[d][w] = NoRow /\ par2[d] # w
  BY <1>1, IdsAreNumbers DEF Forest, Inside
<1>3. b # w /\ (b # NoVersion => b \in L)
  BY IdsAreNumbers
<1>4. \A a \in VersionIds :
        clo2[w][a] = IF a = w THEN 0
                     ELSE IF b = NoVersion THEN NoRow
                     ELSE IF clo[b][a] = NoRow THEN NoRow
                     ELSE clo[b][a] + 1
  OBVIOUS
<1>5. \A d \in L : par2[d] = par[d] /\ \A a \in VersionIds : clo2[d][a] = clo[d][a]
  OBVIOUS
<1>6. \A d : d \in M <=> d \in L \/ d = w
  OBVIOUS
<1>7. par2[w] = b
  OBVIOUS
<1> HIDE DEF M, b
<1>8. Inside(M, par2, clo2)
  <2>1. \A d \in M : par2[d] \in M \cup {NoVersion}
    BY <1>3, <1>5, <1>6, <1>7 DEF Forest, Inside
  <2>2. \A d \in M, a \in VersionIds :
          /\ clo2[d][a] \in Nat \cup {NoRow}
          /\ clo2[d][a] # NoRow => a \in M
    BY <1>1, <1>3, <1>4, <1>5, <1>6
  <2> QED BY <2>1, <2>2 DEF Inside
<1>9. Follows(M, par2, clo2)
  <2> SUFFICES ASSUME NEW d \in M, NEW a \in M
               PROVE  clo2[d][a] = IF a = d THEN 0
                                   ELSE IF par2[d] = NoVersion THEN NoRow
                                   ELSE IF clo2[par2[d]][a] = NoRow THEN NoRow
                                   ELSE clo2[par2[d]][a] + 1
    BY DEF Follows
  <2>1. a \in VersionIds
    BY <1>6
  <2>2. CASE d = w
    BY <1>3, <1>4, <1>5, <1>7, <2>1, <2>2
  <2>3. CASE d \in L /\ a \in L
    <3>1. par[d] # NoVersion => par[d] \in L
      BY <2>3 DEF Forest, Inside
    <3>2. clo[d][a] = IF a = d THEN 0
                      ELSE IF par[d] = NoVersion THEN NoRow
                      ELSE IF clo[par[d]][a] = NoRow THEN NoRow
                      ELSE clo[par[d]][a] + 1
      BY <2>3 DEF Forest, Follows
    <3>3. par[d] # NoVersion => clo2[par[d]][a] = clo[par[d]][a]
      BY <1>5, <2>1, <3>1
    <3> QED BY <1>5, <2>1, <2>3, <3>2, <3>3
  <2>4. CASE d \in L /\ a = w
    <3>1. par[d] # NoVersion => par[d] \in L
      BY <2>4 DEF Forest, Inside
    <3>2. par2[d] = par[d] /\ clo2[d][a] = NoRow /\ a # d
      BY <1>2, <1>5, <2>4
    <3>3. par[d] # NoVersion => clo2[par[d]][a] = NoRow
      BY <1>2, <2>4, <3>1
    <3> QED BY <3>2, <3>3
  <2> QED BY <1>6, <2>2, <2>3, <2>4
<1>10. Ordered(M, clo2)
  <2>1. ASSUME NEW d \in M, NEW a \in M, clo2[d][a] # NoRow, clo2[a][d] # NoRow PROVE d = a
    BY <1>2, <1>5, <1>6, <2>1 DEF Forest, Ordered
  <2>2. ASSUME NEW d \in M, NEW e \in M, NEW a \in M, clo2[d][e] # NoRow, clo2[e][a] # NoRow
        PROVE  clo2[d][a] # NoRow
    <3>1. CASE d \in L
      BY <1>2, <1>5, <1>6, <2>2, <3>1 DEF Forest, Ordered
    <3>2. CASE d = w /\ e = w
      BY <2>2, <3>2
    <3>3. CASE d = w /\ e \in L
      <4>1. a \in L
        BY <1>2, <1>6, <2>2, <3>3
      <4>2. b \in L /\ clo[b][e] # NoRow /\ clo[e][a] # NoRow
        BY <1>3, <1>4, <1>5, <2>2, <3>3, <4>1
      <4>3. clo[b][a] \in Nat
        BY <1>1, <3>3, <4>1, <4>2 DEF Forest, Ordered
      <4>4. a # w /\ a \in VersionIds /\ b # NoVersion
        BY <4>1, <4>2, IdsAreNumbers
      <4>5. clo2[w][a] = clo[b][a] + 1
        BY <1>4, <4>2, <4>3, <4>4 DEF NoRow
      <4> QED BY <3>3, <4>3, <4>5 DEF NoRow
    <3> QED BY <1>6, <3>1, <3>2, <3>3
  <2>3. ASSUME NEW d \in M, NEW a \in M, NEW e \in M, clo2[d][a] # NoRow, clo2[d][e] # NoRow
        PROVE  clo2[a][e] # NoRow \/ clo2[e][a] # NoRow
    <3>1. CASE d \in L
      BY <1>2, <1>5, <1>6, <2>3, <3>1 DEF Forest, Ordered
    <3>2. CASE d = w /\ (a = w \/ e = w)
      BY <2>3, <3>2
    <3>3. CASE d = w /\ a \in L /\ e \in L
      <4>1. b \in L /\ clo[b][a] # NoRow /\ clo[b][e] # NoRow
        BY <1>3, <1>4, <2>3, <3>3
      <4> QED BY <1>5, <3>3, <4>1 DEF Forest, Ordered
    <3> QED BY <1>6, <3>1, <3>2, <3>3
  <2> QED BY <2>1, <2>2, <2>3 DEF Ordered
<1> QED BY <1>8, <1>9, <1>10 DEF Forest, M

\* The rows that leave the subtree of v go, and v has no parent any more.
LEMMA DetachForest ==
  ASSUME NEW L, L \subseteq VersionIds, NEW par, NEW clo, Forest(L, par, clo),
         NEW v \in VersionIds, NEW par2, NEW clo2,
         \A d \in L : par2[d] = IF d = v THEN NoVersion ELSE par[d],
         \A d \in L, a \in VersionIds :
           clo2[d][a] = IF clo[d][v] # NoRow /\ clo[a][v] = NoRow THEN NoRow ELSE clo[d][a]
  PROVE  Forest(L, par2, clo2)
<1>1. Inside(L, par2, clo2)
  BY DEF Forest, Inside
<1>2. Follows(L, par2, clo2)
  <2> SUFFICES ASSUME NEW d \in L, NEW a \in L
               PROVE  clo2[d][a] = IF a = d THEN 0
                                   ELSE IF par2[d] = NoVersion THEN NoRow
                                   ELSE IF clo2[par2[d]][a] = NoRow THEN NoRow
                                   ELSE clo2[par2[d]][a] + 1
    BY DEF Follows
  <2>1. clo[d][a] = IF a = d THEN 0
                    ELSE IF par[d] = NoVersion THEN NoRow
                    ELSE IF clo[par[d]][a] = NoRow THEN NoRow
                    ELSE clo[par[d]][a] + 1
    BY DEF Forest, Follows
  <2>2. CASE a = d
    BY <2>1, <2>2
  <2>3. CASE a # d /\ d = v
    <3>1. clo[d][v] = 0
      BY <2>3 DEF Forest, Follows
    <3>2. clo[d][a] # NoRow => clo[a][v] = NoRow
      BY <2>3 DEF Forest, Ordered
    <3> QED BY <2>3, <3>1, <3>2 DEF NoRow
  <2>4. CASE a # d /\ d # v
    <3>1. par2[d] = par[d] /\ (par[d] # NoVersion => par[d] \in L)
      BY <2>4 DEF Forest, Inside
    <3>2. v \in L => clo[d][v] = IF par[d] = NoVersion THEN NoRow
                                 ELSE IF clo[par[d]][v] = NoRow THEN NoRow
                                 ELSE clo[par[d]][v] + 1
      BY <2>4 DEF Forest, Follows
    <3>3. v \notin L => clo[d][v] = NoRow /\ (par[d] # NoVersion => clo[par[d]][v] = NoRow)
      BY <3>1 DEF Forest, Inside
    <3>4. par[d] # NoVersion => clo[par[d]][v] \in Nat \cup {NoRow}
      BY <3>1 DEF Forest, Inside
    <3>5. par[d] # NoVersion => (clo[d][v] # NoRow <=> clo[par[d]][v] # NoRow)
      BY <3>2, <3>3, <3>4 DEF NoRow
    <3>6. par[d] # NoVersion =>
            clo2[par[d]][a] = IF clo[d][v] # NoRow /\ clo[a][v] = NoRow THEN NoRow
                              ELSE clo[par[d]][a]
      BY <3>1, <3>5
    <3> QED BY <2>1, <2>4, <3>1, <3>6
  <2> QED BY <2>2, <2>3, <2>4
<1>3. Ordered(L, clo2)
  <2>1. ASSUME NEW d \in L, NEW a \in L, clo2[d][a] # NoRow, clo2[a][d] # NoRow PROVE d = a
    BY <2>1 DEF Forest, Ordered
  <2>2. ASSUME NEW d \in L, NEW b \in L, NEW a \in L, clo2[d][b] # NoRow, clo2[b][a] # NoRow
        PROVE  clo2[d][a] # NoRow
    BY <2>2 DEF Forest, Ordered
  <2>3. ASSUME NEW d \in L, NEW a \in L, NEW b \in L,
               clo2[d][a] # NoRow, clo2[d][b] # NoRow, clo[a][b] # NoRow
        PROVE  clo2[a][b] # NoRow
    <3>1. clo[d][a] # NoRow /\ clo[d][b] # NoRow
      BY <2>3
    <3>2. v \notin L => clo[a][v] = NoRow
      BY DEF Forest, Inside
    <3>3. clo[a][v] # NoRow => clo[d][v] # NoRow
      BY <3>1, <3>2 DEF Forest, Ordered
    <3> QED BY <2>3, <3>3
  <2>4. ASSUME NEW d \in L, NEW a \in L, NEW b \in L, clo2[d][a] # NoRow, clo2[d][b] # NoRow
        PROVE  clo2[a][b] # NoRow \/ clo2[b][a] # NoRow
    <3>1. clo[d][a] # NoRow /\ clo[d][b] # NoRow
      BY <2>4
    <3>2. clo[a][b] # NoRow \/ clo[b][a] # NoRow
      BY <3>1 DEF Forest, Ordered
    <3> QED BY <2>3, <2>4, <3>2
  <2> QED BY <2>1, <2>2, <2>4 DEF Ordered
<1> QED BY <1>1, <1>2, <1>3 DEF Forest

\* Versions go of which none is an ancestor of one that stays.
LEMMA FewerForest ==
  ASSUME NEW L, L \subseteq VersionIds, NEW par, NEW clo, Forest(L, par, clo),
         NEW M, M \subseteq L, NEW par2, NEW clo2,
         \A d \in M : par2[d] = par[d] /\ par[d] \in M \cup {NoVersion},
         \A d \in M, a \in VersionIds :
           clo2[d][a] = clo[d][a] /\ (clo[d][a] # NoRow => a \in M)
  PROVE  Forest(M, par2, clo2)
<1>1. Inside(M, par2, clo2)
  BY DEF Forest, Inside
<1>2. Follows(M, par2, clo2)
  <2> SUFFICES ASSUME NEW d \in M, NEW a \in M
               PROVE  clo2[d][a] = IF a = d THEN 0
                                   ELSE IF par2[d] = NoVersion THEN NoRow
                                   ELSE IF clo2[par2[d]][a] = NoRow THEN NoRow
                                   ELSE clo2[par2[d]][a] + 1
    BY DEF Follows
  <2>1. clo[d][a] = IF a = d THEN 0
                    ELSE IF par[d] = NoVersion THEN NoRow
                    ELSE IF clo[par[d]][a] = NoRow THEN NoRow
                    ELSE clo[par[d]][a] + 1
    BY DEF Forest, Follows
  <2>2. par[d] # NoVersion => clo2[par[d]][a] = clo[par[d]][a]
    OBVIOUS
  <2> QED BY <2>1, <2>2
<1>3. Ordered(M, clo2)
  BY DEF Forest, Ordered
<1> QED BY <1>1, <1>2, <1>3 DEF Forest

\* Versions without parents and with no closure row but their own.
LEMMA FlatForest ==
  ASSUME NEW L, L \subseteq VersionIds, NEW par, NEW clo,
         \A d \in L : par[d] = NoVersion,
         \A d \in L, a \in VersionIds : clo[d][a] = IF a = d THEN 0 ELSE NoRow
  PROVE  Forest(L, par, clo)
  BY DEF Forest, Inside, Follows, Ordered, NoRow

-----------------------------------------------------------------------------
(* Statements that change no table.                                        *)

\* What d has read stays with it; a fork may become stale.
SameReads(d) ==
  /\ SameTx(d)
  /\ tx'[d].read = tx[d].read /\ tx'[d].cut = tx[d].cut
  /\ tx[d].stale => tx'[d].stale

LEMMA ReadsKept ==
  ASSUME SerialInv, NEW d \in Clients, UNCHANGED <<tables, stale>>, SameReads(d),
         tx[d].op = "fork" /\ ~tx'[d].stale => \A e \in Clients : tx'[e].op \notin Flattening
  PROVE  ReadsOK(d)'
<1>1. /\ UNCHANGED <<status, parent, closure, stale>> /\ Sure' = Sure
      /\ \A v : HasRow(v)' <=> HasRow(v)
  BY DEF tables, Sure, HasRow
<1>2. ReadsOK(d)
  BY DEF SerialInv
<1>3. tx[d].op = "fork" => ForkReads(d)'
  BY <1>1, <1>2 DEF ReadsOK, ForkReads, SameReads, SameTx
<1>4. tx[d].op = "detach" => DetachReads(d)'
  BY <1>1, <1>2 DEF ReadsOK, DetachReads, TakenAlong, SameReads, SameTx
<1>5. tx[d].op = "hardDelete" => HardDeleteReads(d)'
  BY <1>1, <1>2 DEF ReadsOK, HardDeleteReads, SameReads, SameTx
<1>6. tx[d].op = "sweep" => SweepReads(d)'
  BY <1>1, <1>2 DEF ReadsOK, SweepReads, SameReads, SameTx
<1> QED BY <1>3, <1>4, <1>5, <1>6 DEF ReadsOK, SameReads, SameTx

\* A statement of c is sound once c's own reads are, and once every fork is
\* stale if c opens a detach or a sweep.
LEMMA QuietReads ==
  ASSUME SerialInv, NEW c \in Clients, UNCHANGED <<tables, stale>>,
         \A d \in Clients \ {c} : SameReads(d),
         tx'[c].op \in Flattening /\ tx[c].op \notin Flattening =>
           \A d \in Clients \ {c} : tx[d].op = "fork" => tx'[d].stale,
         ReadsOK(c)'
  PROVE  SerialInv'
<1>1. /\ UNCHANGED <<status, parent, closure, stale>> /\ Sure' = Sure
      /\ \A v : HasRow(v)' <=> HasRow(v)
  BY DEF tables, Sure, HasRow
<1>2. \A d \in Clients : ReadsOK(d)'
  <2> SUFFICES ASSUME NEW d \in Clients \ {c} PROVE ReadsOK(d)'
    OBVIOUS
  <2>1. ASSUME tx[d].op = "fork", ~tx'[d].stale, NEW e \in Clients
        PROVE  tx'[e].op \notin Flattening
    <3>1. \A x \in Clients : tx[x].op \notin Flattening
      BY <2>1 DEF SerialInv, ReadsOK, ForkReads, SameReads
    <3> QED BY <2>1, <3>1 DEF SameReads, SameTx
  <2> QED BY <2>1, ReadsKept
<1>3. closure' = [d \in VersionIds |-> [a \in VersionIds |-> closure'[d][a]]]
  BY <1>1 DEF SerialInv
<1>4. Forest(Sure', parent', closure')
  BY <1>1 DEF SerialInv
<1>5. GoneHaveNoRows' /\ stale' \subseteq {v \in VersionIds : status'[v] # "unused"}
  BY <1>1 DEF SerialInv, GoneHaveNoRows
<1> QED BY <1>2, <1>3, <1>4, <1>5 DEF SerialInv

LEMMA IdleReads == ASSUME NEW c \in Clients, tx'[c] = Idle PROVE ReadsOK(c)'
BY IdleFields DEF ReadsOK

LEMMA AbortSerial ==
  ASSUME Inv, SerialInv, NEW c \in Clients, Abort(c) PROVE SerialInv'
<1>1. tx'[c] = Idle /\ \A d \in Clients \ {c} : tx'[d] = tx[d]
  BY DEF Abort, Inv, TypeOK
<1>2. \A d \in Clients \ {c} : SameReads(d)
  BY <1>1 DEF SameReads, SameTx
<1>3. tx'[c].op \notin Flattening
  BY <1>1, IdleFields DEF Flattening
<1> QED BY <1>1, <1>2, <1>3, IdleReads, QuietReads DEF Abort

\* Opening a transaction makes every fork stale that it may overtake.
LEMMA BeginSerial ==
  ASSUME Inv, SerialInv, NEW c \in Clients, NEW t, Begin(c, t), ReadsOK(c)'
  PROVE  SerialInv'
<1>1. tx[c].op = "none" /\ tx'[c] = t /\ UNCHANGED <<tables, stale>>
  BY IdleFields DEF Begin
<1>2. ASSUME NEW d \in Clients \ {c}
      PROVE  SameReads(d) /\ (t.op \in Flattening /\ tx[d].op = "fork" => tx'[d].stale)
  <2>1. tx'[d] = IF tx[d].op = "fork" /\ t.op \in Flattening THEN [tx[d] EXCEPT !.stale = TRUE]
                 ELSE tx[d]
    BY DEF Begin
  <2>2. Shaped(tx[d])
    BY DEF Inv, TypeOK
  <2> QED BY <2>1, <2>2 DEF Shaped, SameReads, SameTx
<1> QED BY <1>1, <1>2, QuietReads

LEMMA GotoSerial ==
  ASSUME Inv, SerialInv, NEW c \in Clients, NEW step, Goto(c, step), UNCHANGED <<tables, stale>>,
         tx[c].op = "detach" => step # "commit",
         tx[c].op = "hardDelete" => tx[c].step = "deleteRow",
         tx[c].op = "sweep" => tx[c].step = "deleteRows"
  PROVE  SerialInv'
<1>1. tx'[c] = [tx[c] EXCEPT !.step = step] /\ \A d \in Clients \ {c} : tx'[d] = tx[d]
  BY DEF Goto, Inv, TypeOK
<1>2. /\ tx'[c].op = tx[c].op /\ tx'[c].on = tx[c].on /\ tx'[c].ids = tx[c].ids
      /\ tx'[c].read = tx[c].read /\ tx'[c].cut = tx[c].cut /\ tx'[c].stale = tx[c].stale
      /\ tx'[c].step = step
  <2>1. Shaped(tx[c])
    BY DEF Inv, TypeOK
  <2> QED BY <1>1, <2>1, SMT DEF Shaped
<1>3. \A d \in Clients \ {c} : SameReads(d)
  BY <1>1 DEF SameReads, SameTx
<1>4. /\ UNCHANGED <<status, parent, closure, stale>> /\ Sure' = Sure
      /\ \A v : HasRow(v)' <=> HasRow(v)
  BY DEF tables, Sure, HasRow
<1>5. ReadsOK(c)
  BY DEF SerialInv
<1>6. ReadsOK(c)'
  <2>1. tx[c].op = "fork" => ForkReads(c)'
    <3>1. \A d \in Clients : tx'[d].op = tx[d].op
      BY <1>1, <1>2
    <3> QED BY <1>2, <1>4, <1>5, <3>1 DEF ReadsOK, ForkReads
  <2>2. tx[c].op = "detach" => DetachReads(c)'
    BY <1>2, <1>4, <1>5 DEF ReadsOK, DetachReads, TakenAlong
  <2>3. tx[c].op = "hardDelete" => HardDeleteReads(c)'
    BY <1>2, <1>4, <1>5 DEF ReadsOK, HardDeleteReads
  <2>4. tx[c].op = "sweep" => SweepReads(c)'
    BY <1>2, <1>4, <1>5 DEF ReadsOK, SweepReads
  <2> QED BY <1>2, <2>1, <2>2, <2>3, <2>4 DEF ReadsOK
<1> QED BY <1>2, <1>3, <1>6, QuietReads

LEMMA BeginForkSerial ==
  ASSUME Inv, SerialInv, NEW c \in Clients, NEW v \in VersionIds, BeginFork(c, v)
  PROVE  SerialInv'
<1> DEFINE fresh == {x \in VersionIds :
                       status[x] = "unused" /\ \A d \in Clients : x \notin tx[d].ids}
           w == Smallest(fresh)
           behind == v \in stale \/ \E d \in Clients : tx[d].op \in Flattening
           t == [Idle EXCEPT !.op = "fork", !.on = v, !.step = "checkParent",
                             !.ids = {w}, !.read = closure[v], !.stale = behind]
<1>1. Begin(c, t) /\ status[v] # "unused"
  BY DEF BeginFork
<1> HIDE DEF w, behind, t
<1>2. t.op = "fork" /\ t.on = v /\ t.read = closure[v] /\ t.stale = behind
  <2>1. t = Forking(v, w, closure[v], behind)
    BY DEF t, Forking
  <2> QED BY <2>1, ForkingFields
<1>3. /\ tx'[c] = t /\ UNCHANGED <<status, parent, closure, stale>>
      /\ \A d \in Clients \ {c} : tx'[d] = tx[d]
  BY <1>1, <1>2 DEF Begin, tables, Flattening
<1>4. ForkReads(c)'
  <2>1. status'[v] # "unused"
    BY <1>1, <1>3
  <2>2. ~behind => v \notin stale /\ \A d \in Clients : tx'[d].op \notin Flattening
    BY <1>2, <1>3 DEF behind, Flattening
  <2> QED BY <1>2, <1>3, <2>1, <2>2 DEF ForkReads
<1>5. ReadsOK(c)'
  BY <1>2, <1>3, <1>4 DEF ReadsOK
<1> QED BY <1>1, <1>5, BeginSerial

LEMMA BeginDetachSerial ==
  ASSUME Inv, SerialInv, NEW c \in Clients, NEW v \in VersionIds, BeginDetach(c, v)
  PROVE  SerialInv'
<1> DEFINE ids == Descendants(v)
           t == [Idle EXCEPT !.op = "detach", !.on = v, !.step = "lock", !.ids = ids]
<1>1. Begin(c, t)
  BY DEF BeginDetach
<1>2. \A d \in VersionIds : d \in ids <=> closure[d][v] # NoRow
  BY DEF Descendants, IsAncestor
<1> HIDE DEF ids
<1>3. t.op = "detach" /\ t.on = v /\ t.step = "lock" /\ t.ids = ids
  BY SMT DEF Idle
<1> HIDE DEF t
<1>4. tx'[c] = t /\ UNCHANGED <<status, parent, closure, stale>>
  BY <1>1 DEF Begin, tables
<1>5. Sure' = Sure /\ Sure \subseteq VersionIds
  BY <1>4 DEF Sure, HasRow
<1>6. v \in Sure => \A a \in ids : a # v => closure[v][a] = NoRow
  <2> SUFFICES ASSUME v \in Sure, NEW a \in ids, closure[v][a] # NoRow PROVE a = v
    OBVIOUS
  <2>1. ids \subseteq VersionIds
    BY DEF ids, Descendants
  <2>2. a \in Sure /\ closure[a][v] # NoRow
    BY <1>2, <2>1 DEF SerialInv, Forest, Inside
  <2> QED BY <2>2 DEF SerialInv, Forest, Ordered
<1>7. DetachReads(c)'
  <2>1. tx'[c].on = v /\ tx'[c].ids = ids /\ tx'[c].step # "commit"
    BY <1>3, <1>4
  <2> QED BY <1>2, <1>4, <1>5, <1>6, <2>1 DEF DetachReads, TakenAlong
<1>8. ReadsOK(c)'
  BY <1>3, <1>4, <1>7 DEF ReadsOK
<1> QED BY <1>1, <1>8, BeginSerial

LEMMA BeginDeleteSerial ==
  ASSUME Inv, SerialInv, NEW c \in Clients, NEW v \in VersionIds,
         BeginHardDelete(c, v) \/ BeginSoftDelete(c, v)
  PROVE  SerialInv'
<1>1. PICK op \in {"hardDelete", "softDelete"} :
        Begin(c, [Idle EXCEPT !.op = op, !.on = v, !.step = "lock", !.ids = {v}])
  BY DEF BeginHardDelete, BeginSoftDelete
<1> DEFINE t == [Idle EXCEPT !.op = op, !.on = v, !.step = "lock", !.ids = {v}]
<1>2. t.op = op /\ t.step = "lock"
  BY SMT DEF Idle
<1> HIDE DEF t
<1>3. tx'[c] = t
  BY <1>1 DEF Begin, t
<1>4. ReadsOK(c)'
  BY <1>2, <1>3 DEF ReadsOK, HardDeleteReads
<1> QED BY <1>1, <1>4, BeginSerial DEF t

LEMMA BeginSweepSerial ==
  ASSUME Inv, SerialInv, NEW c \in Clients, BeginSweep(c) PROVE SerialInv'
<1> DEFINE rows == {v \in VersionIds : HasRow(v)}
           t == [Idle EXCEPT !.op = "sweep", !.step = "lock", !.ids = rows]
<1>1. Begin(c, t)
  BY DEF BeginSweep
<1>2. Sure \subseteq rows
  BY DEF Sure
<1> HIDE DEF rows
<1>3. t.op = "sweep" /\ t.step = "lock" /\ t.ids = rows
  BY SMT DEF Idle
<1> HIDE DEF t
<1>4. tx'[c] = t /\ UNCHANGED <<status, parent, closure, stale>>
  BY <1>1 DEF Begin, tables
<1>5. Sure' = Sure
  BY <1>4 DEF Sure, HasRow
<1>6. ReadsOK(c)'
  BY <1>2, <1>3, <1>4, <1>5 DEF ReadsOK, SweepReads
<1> QED BY <1>1, <1>6, BeginSerial

LEMMA LockNextSerial ==
  ASSUME Inv, SerialInv, NEW c \in Clients, LockNext(c) PROVE SerialInv'
<1>1. UNCHANGED <<tables, stale, tx>>
  BY DEF LockNext
<1>2. \A d \in Clients : SameReads(d)
  BY <1>1 DEF SameReads, SameTx
<1>3. ReadsOK(c)'
  BY <1>1, <1>2, ReadsKept DEF SerialInv, ReadsOK, ForkReads
<1> QED BY <1>1, <1>2, <1>3, QuietReads

LEMMA CheckSerial ==
  ASSUME Inv, SerialInv, NEW c \in Clients,
         ForkCheckParent(c) \/ HardDeleteRow(c) \/ SoftDeleteRow(c) \/ SweepRows(c)
  PROVE  SerialInv'
<1>1. CASE Abort(c)
  BY <1>1, AbortSerial
<1>2. CASE ~Abort(c)
  <2>1. Goto(c, "commit") /\ UNCHANGED <<tables, stale>>
    BY <1>2 DEF ForkCheckParent, HardDeleteRow, SoftDeleteRow, SweepRows
  <2>2. \/ tx[c].op \in {"fork", "softDelete"}
        \/ tx[c].op = "hardDelete" /\ tx[c].step = "deleteRow"
        \/ tx[c].op = "sweep" /\ tx[c].step = "deleteRows"
    BY DEF ForkCheckParent, HardDeleteRow, SoftDeleteRow, SweepRows, Running
  <2> QED BY <2>1, <2>2, GotoSerial
<1> QED BY <1>1, <1>2

LEMMA DetachDeleteSerial ==
  ASSUME Inv, SerialInv, NEW c \in Clients, DetachDelete(c) PROVE SerialInv'
<1> DEFINE ids == tx[c].ids
           cut == [d \in VersionIds |->
                     {a \in VersionIds : closure[d][a] # NoRow /\ d \in ids /\ a \notin ids}]
           u == [tx[c] EXCEPT !.step = "commit", !.cut = cut]
<1>1. /\ tx[c].op = "detach" /\ UNCHANGED <<status, parent, closure, stale>>
      /\ UNCHANGED <<tables, stale>>
  BY DEF DetachDelete, Running, tables
<1>2. tx' = [tx EXCEPT ![c] = u]
  BY DEF DetachDelete, Visible, IsAncestor
<1>3. tx'[c] = u /\ \A d \in Clients \ {c} : tx'[d] = tx[d]
  <2> HIDE DEF u
  <2> QED BY <1>2 DEF Inv, TypeOK
<1>4. u.op = "detach" /\ u.on = tx[c].on /\ u.ids = ids /\ u.cut = cut
  <2>1. Shaped(tx[c])
    BY DEF Inv, TypeOK
  <2> HIDE DEF cut
  <2> QED BY <1>1, <2>1, SMT DEF Shaped
<1> HIDE DEF u
<1>5. \A d, a \in VersionIds : a \in cut[d] <=> closure[d][a] # NoRow /\ d \in ids /\ a \notin ids
  OBVIOUS
<1> HIDE DEF cut
<1>6. Sure' = Sure /\ Sure \subseteq VersionIds
  BY <1>1 DEF Sure, HasRow
<1>7. DetachReads(c)'
  <2>1. tx'[c].on = tx[c].on /\ tx'[c].ids = ids /\ tx'[c].cut = cut
    BY <1>3, <1>4
  <2>2. DetachReads(c)
    BY <1>1 DEF SerialInv, ReadsOK
  <2>3. /\ \A d \in Sure : closure[d][tx[c].on] # NoRow => d \in ids
        /\ tx[c].on \in Sure => \A a \in ids : a # tx[c].on => closure[tx[c].on][a] = NoRow
        /\ \A d \in Sure \cap ids : closure[d][tx[c].on] = NoRow =>
             \A a \in VersionIds : closure[d][a] # NoRow => a \in ids
    BY <2>2 DEF DetachReads, TakenAlong
  <2>4. \A d \in Sure, a \in VersionIds :
          /\ d \in ids /\ a \notin ids /\ closure[d][a] # NoRow => a \in cut[d]
          /\ a \in cut[d] => d \in ids /\ a \notin ids
    BY <1>5, <1>6
  <2> QED BY <1>1, <1>6, <2>1, <2>3, <2>4 DEF DetachReads, TakenAlong
<1>8. ReadsOK(c)'
  BY <1>3, <1>4, <1>7 DEF ReadsOK
<1>9. \A d \in Clients \ {c} : SameReads(d)
  BY <1>3 DEF SameReads, SameTx
<1> QED BY <1>1, <1>3, <1>4, <1>8, <1>9, QuietReads DEF Flattening

LEMMA HardDeleteClosureSerial ==
  ASSUME Inv, SerialInv, NEW c \in Clients, HardDeleteClosure(c) PROVE SerialInv'
<1> DEFINE v == tx[c].on
           cut == [d \in VersionIds |->
                     {a \in VersionIds : closure[d][a] # NoRow /\ v \in {d, a}}]
           u == [tx[c] EXCEPT !.step = "deleteRow", !.cut = cut]
<1>1. /\ tx[c].op = "hardDelete" /\ UNCHANGED <<status, parent, closure, stale>>
      /\ UNCHANGED <<tables, stale>>
  BY DEF HardDeleteClosure, Running, tables
<1>2. tx' = [tx EXCEPT ![c] = u]
  BY DEF HardDeleteClosure, Visible, IsAncestor
<1>3. tx'[c] = u /\ \A d \in Clients \ {c} : tx'[d] = tx[d]
  <2> HIDE DEF u
  <2> QED BY <1>2 DEF Inv, TypeOK
<1>4. u.op = "hardDelete" /\ u.on = v /\ u.cut = cut
  <2>1. Shaped(tx[c])
    BY DEF Inv, TypeOK
  <2> HIDE DEF cut
  <2> QED BY <1>1, <2>1, SMT DEF Shaped
<1> HIDE DEF u
<1>5. \A d, a \in VersionIds : a \in cut[d] <=> closure[d][a] # NoRow /\ (v = d \/ v = a)
  OBVIOUS
<1> HIDE DEF cut
<1>6. v \in VersionIds
  BY <1>1 DEF Inv, TypeOK
<1>7. ReadsOK(c)'
  BY <1>1, <1>3, <1>4, <1>5, <1>6 DEF ReadsOK, HardDeleteReads
<1>8. \A d \in Clients \ {c} : SameReads(d)
  BY <1>3 DEF SameReads, SameTx
<1>9. tx'[c].op \notin Flattening
  BY <1>3, <1>4 DEF Flattening
<1> QED BY <1>1, <1>7, <1>8, <1>9, QuietReads

LEMMA SweepClosureSerial ==
  ASSUME Inv, SerialInv, NEW c \in Clients, SweepClosure(c) PROVE SerialInv'
<1> DEFINE ids == tx[c].ids
           left == {v \in ids : HasRow(v)}
           cut == [d \in VersionIds |->
                     {a \in VersionIds : closure[d][a] # NoRow /\ {d, a} \cap ids # {}}]
           u == [tx[c] EXCEPT !.step = "deleteRows", !.ids = left, !.cut = cut]
<1>1. /\ tx[c].op = "sweep" /\ UNCHANGED <<status, parent, closure, stale>>
      /\ UNCHANGED <<tables, stale>>
  BY DEF SweepClosure, Running, tables
<1>2. tx' = [tx EXCEPT ![c] = u]
  BY DEF SweepClosure, Visible, IsAncestor
<1>3. tx'[c] = u /\ \A d \in Clients \ {c} : tx'[d] = tx[d]
  <2> HIDE DEF u
  <2> QED BY <1>2 DEF Inv, TypeOK
<1>4. u.op = "sweep" /\ u.ids = left /\ u.cut = cut
  <2>1. Shaped(tx[c])
    BY DEF Inv, TypeOK
  <2> HIDE DEF cut, left
  <2>2. u = Cutting(tx[c], "deleteRows", left, cut)
    BY DEF Cutting
  <2> HIDE DEF u
  <2> QED BY <1>1, <2>1, <2>2, CuttingFields
<1> HIDE DEF u
<1>5. \A d, a \in VersionIds : d \in ids /\ closure[d][a] # NoRow => a \in cut[d]
  OBVIOUS
<1> HIDE DEF cut
<1>6. Sure' = Sure /\ Sure \subseteq VersionIds /\ \A v \in Sure : HasRow(v)
  BY <1>1 DEF Sure, HasRow
<1>7. Sure \subseteq ids
  BY <1>1 DEF SerialInv, ReadsOK, SweepReads
<1>8. ReadsOK(c)'
  BY <1>1, <1>3, <1>4, <1>5, <1>6, <1>7 DEF ReadsOK, SweepReads
<1>9. \A d \in Clients \ {c} : SameReads(d)
  BY <1>3 DEF SameReads, SameTx
<1> QED BY <1>1, <1>3, <1>4, <1>8, <1>9, QuietReads DEF Flattening

-----------------------------------------------------------------------------
(* Commits.                                                                *)

\* What the commit of c must respect: a version never comes back, only unused
\* ids become stale, and no version that another client may have read gets a
\* closure row; while no detach and no sweep is open, the sure versions that
\* stay keep theirs.
Respects ==
  /\ stale \subseteq stale' /\ \A v \in stale' \ stale : status[v] = "unused"
  /\ \A v \in VersionIds : status[v] # "unused" =>
       /\ status'[v] # "unused"
       /\ HasRow(v)' => HasRow(v)
       /\ v \notin stale' => \A a \in VersionIds : closure'[v][a] # NoRow => closure[v][a] # NoRow
  /\ IF \E d \in Clients : tx[d].op \in Flattening THEN Sure' \subseteq Sure
     ELSE \A v \in Sure : v \in Sure' => \A a \in VersionIds : closure'[v][a] = closure[v][a]

LEMMA OtherReads ==
  ASSUME Inv, SerialInv, NEW c \in Clients, NEW d \in Clients \ {c}, End(c), Respects,
         GoneHaveNoRows',
         tx[d].op = "detach" => TakenAlong(d)'
  PROVE  ReadsOK(d)'
<1>1. /\ tx'[d] = tx[d] /\ ReadsOK(d)
      /\ \A e \in Clients : tx'[e] = tx[e] \/ tx'[e] = Idle
  BY DEF End, Inv, TypeOK, SerialInv
<1>2. \A v \in Sure : v \in VersionIds /\ v \notin stale /\ HasRow(v) /\ status[v] # "unused"
  BY DEF Sure, HasRow
<1>3. \A v \in Sure' : v \in VersionIds /\ v \notin stale' /\ HasRow(v)'
  BY DEF Sure
<1>4. \A v \in VersionIds : HasRow(v)' /\ v \notin stale' => v \in Sure'
  BY DEF Sure
<1>5. \A v \in VersionIds : HasRow(v) /\ v \notin stale => v \in Sure
  BY DEF Sure
<1>6. tx[d].op = "fork" => ForkReads(d)'
  <2> SUFFICES ASSUME tx[d].op = "fork" PROVE ForkReads(d)'
    OBVIOUS
  <2>1. PICK on \in VersionIds : on = tx[d].on /\ ForkReads(d) /\ status[on] # "unused"
    BY <1>1 DEF ReadsOK, ForkReads, Inv, TypeOK
  <2>2. status'[on] # "unused"
    BY <2>1 DEF Respects
  <2>3. ASSUME ~tx[d].stale
        PROVE  /\ \A e \in Clients : tx'[e].op \notin Flattening
               /\ on \notin stale'
               /\ HasRow(on)' => \A a \in VersionIds : tx[d].read[a] = closure'[on][a]
    <3>1. /\ \A e \in Clients : tx[e].op \notin Flattening
          /\ on \notin stale
          /\ HasRow(on) => \A a \in VersionIds : tx[d].read[a] = closure[on][a]
      BY <2>1, <2>3 DEF ForkReads
    <3>2. \A e \in Clients : tx'[e].op \notin Flattening
      BY <1>1, <3>1, IdleFields DEF Flattening
    <3>3. on \notin stale'
      BY <2>1, <3>1 DEF Respects
    <3>4. HasRow(on)' => on \in Sure /\ on \in Sure' /\ HasRow(on)
      BY <1>4, <1>5, <2>1, <3>1, <3>3 DEF Respects
    <3>5. HasRow(on)' => \A a \in VersionIds : closure'[on][a] = closure[on][a]
      BY <3>1, <3>4 DEF Respects
    <3> QED BY <3>1, <3>2, <3>3, <3>4, <3>5
  <2>4. tx'[d].on = on /\ tx'[d].read = tx[d].read /\ tx'[d].stale = tx[d].stale
    BY <1>1, <2>1
  <2> QED BY <2>2, <2>3, <2>4 DEF ForkReads
<1>7. tx[d].op = "detach" => DetachReads(d)'
  <2> SUFFICES ASSUME tx[d].op = "detach" PROVE DetachReads(d)'
    OBVIOUS
  <2>1. Sure' \subseteq Sure
    BY DEF Respects, Flattening
  <2>2. \A v \in Sure', a \in VersionIds : closure'[v][a] # NoRow => closure[v][a] # NoRow
    BY <1>2, <1>3, <2>1 DEF Respects
  <2>3. DetachReads(d) /\ TakenAlong(d)'
    BY <1>1 DEF ReadsOK
  <2>4. tx[d].on \in VersionIds /\ tx[d].ids \subseteq VersionIds
    BY DEF Inv, TypeOK
  <2> QED BY <1>1, <2>1, <2>2, <2>3, <2>4 DEF DetachReads
<1>8. tx[d].op = "hardDelete" => HardDeleteReads(d)'
  <2> SUFFICES ASSUME tx[d].op = "hardDelete" PROVE HardDeleteReads(d)'
    OBVIOUS
  <2> DEFINE on == tx[d].on
  <2>1. HardDeleteReads(d)
    BY <1>1 DEF ReadsOK
  <2>2. on \in VersionIds /\ status[on] # "unused"
    BY DEF Inv, TypeOK, ClientOK, HardDeleteOK
  <2>3. on \notin stale' =>
          on \notin stale /\ \A a \in VersionIds : closure'[on][a] # NoRow => closure[on][a] # NoRow
    BY <2>2 DEF Respects
  <2> QED BY <1>1, <2>1, <2>3 DEF HardDeleteReads
<1>9. tx[d].op = "sweep" => SweepReads(d)'
  <2> SUFFICES ASSUME tx[d].op = "sweep" PROVE SweepReads(d)'
    OBVIOUS
  <2>1. Sure' \subseteq Sure
    BY DEF Respects, Flattening
  <2>2. \A v \in Sure', a \in VersionIds : closure'[v][a] # NoRow => closure[v][a] # NoRow
    BY <1>2, <1>3, <2>1 DEF Respects
  <2>3. SweepReads(d)
    BY <1>1 DEF ReadsOK
  <2> QED BY <1>1, <2>1, <2>2, <2>3 DEF SweepReads
<1> QED BY <1>1, <1>6, <1>7, <1>8, <1>9 DEF ReadsOK

\* A commit is sound once the tables are and the others may go on.
LEMMA CommitSerial ==
  ASSUME Inv, SerialInv, NEW c \in Clients, End(c), Respects,
         closure' = [d \in VersionIds |-> [a \in VersionIds |-> closure'[d][a]]],
         stale' \subseteq {v \in VersionIds : status'[v] # "unused"},
         Forest(Sure', parent', closure'), GoneHaveNoRows',
         \A d \in Clients \ {c} : tx[d].op = "detach" => TakenAlong(d)'
  PROVE  SerialInv'
<1>1. ReadsOK(c)'
  BY IdleReads DEF End, Inv, TypeOK
<1>2. \A d \in Clients \ {c} : ReadsOK(d)'
  BY OtherReads
<1> QED BY <1>1, <1>2 DEF SerialInv

LEMMA SureFacts ==
  ASSUME Inv, SerialInv
  PROVE  /\ \A v \in Sure : v \in VersionIds /\ v \notin stale /\ HasRow(v) /\ status[v] # "unused"
         /\ \A v \in Sure : closure[v][v] = 0 /\ (parent[v] # NoVersion => parent[v] \in Sure)
         /\ \A v \in VersionIds \ stale, a \in VersionIds :
              /\ v \notin Sure => closure[v][a] = NoRow /\ ~HasRow(v)
              /\ closure[v][a] # NoRow => a \in Sure /\ closure[v][a] \in Nat
<1>1. \A v \in Sure : v \in VersionIds /\ v \notin stale /\ HasRow(v) /\ status[v] # "unused"
  BY DEF Sure, HasRow
<1>2. \A v \in Sure : closure[v][v] = 0 /\ (parent[v] # NoVersion => parent[v] \in Sure)
  BY DEF SerialInv, Forest, Follows, Inside
<1>3. \A v \in VersionIds \ stale, a \in VersionIds :
        v \notin Sure => closure[v][a] = NoRow /\ ~HasRow(v)
  BY DEF SerialInv, GoneHaveNoRows, Sure
<1>4. \A v \in Sure, a \in VersionIds : closure[v][a] # NoRow => a \in Sure /\ closure[v][a] \in Nat
  BY DEF SerialInv, Forest, Inside
<1> QED BY <1>1, <1>2, <1>3, <1>4

\* What remains of the table when the rows in cut go.
LEMMA WithoutRows ==
  ASSUME NEW cut, closure' = Without(cut)
  PROVE  /\ closure' = [d \in VersionIds |-> [a \in VersionIds |-> closure'[d][a]]]
         /\ \A d, a \in VersionIds : closure'[d][a] = IF a \in cut[d] THEN NoRow ELSE closure[d][a]
<1>1. closure' = [d \in VersionIds |-> [a \in VersionIds |->
                    IF a \in cut[d] THEN NoRow ELSE closure[d][a]]]
  BY DEF Without
<1> QED BY <1>1

\* Everything that leads out of the subtree v has at the commit goes, although
\* the detach has read the subtree before.
LEMMA DetachEffect ==
  ASSUME Inv, SerialInv, NEW c \in Clients, DetachCommit(c),
         NEW d \in VersionIds \ stale, NEW a \in VersionIds
  PROVE  closure'[d][a] = IF closure[d][tx[c].on] # NoRow /\ closure[a][tx[c].on] = NoRow
                          THEN NoRow ELSE closure[d][a]
<1>1. PICK v \in VersionIds : v = tx[c].on
  BY DEF DetachCommit, Running, Inv, TypeOK
<1> DEFINE ids == tx[c].ids
           cut == tx[c].cut
<1>2. /\ tx[c].op = "detach" /\ tx[c].step = "commit" /\ DetachReads(c) /\ closure' = Without(cut)
  BY DEF DetachCommit, Running, SerialInv, ReadsOK
<1> HIDE DEF ids, cut
<1>3. closure'[d][a] = IF a \in cut[d] THEN NoRow ELSE closure[d][a]
  BY <1>2, WithoutRows
<1>4. CASE closure[d][a] = NoRow
  BY <1>3, <1>4
<1>5. CASE closure[d][a] # NoRow
  <2>1. d \in Sure /\ a \in Sure
    BY <1>5, SureFacts
  <2>2. a \in cut[d] <=> d \in ids /\ a \notin ids
    BY <1>2, <1>5, <2>1 DEF DetachReads, ids, cut
  <2>3. CASE closure[d][v] = NoRow
    <3>1. d \in ids => a \in ids
      BY <1>1, <1>2, <1>5, <2>1, <2>3 DEF DetachReads, TakenAlong, ids
    <3> QED BY <1>1, <1>3, <2>2, <2>3, <3>1
  <2>4. CASE closure[d][v] # NoRow
    <3>1. v \in Sure /\ closure[v][v] # NoRow
      BY <2>1, <2>4, SureFacts DEF NoRow
    <3>2. d \in ids /\ (closure[a][v] # NoRow => a \in ids)
      BY <1>1, <1>2, <2>1, <2>4 DEF DetachReads, ids
    <3>3. closure[a][v] = NoRow => closure[v][a] # NoRow /\ a # v
      BY <1>5, <2>1, <2>4, <3>1 DEF SerialInv, Forest, Ordered
    <3>4. closure[v][a] # NoRow /\ a # v => a \notin ids
      BY <1>1, <1>2, <3>1 DEF DetachReads, ids
    <3> QED BY <1>1, <1>3, <2>2, <2>4, <3>2, <3>3, <3>4
  <2> QED BY <2>3, <2>4
<1> QED BY <1>4, <1>5

LEMMA DetachCommitSerial ==
  ASSUME Inv, SerialInv, NEW c \in Clients, DetachCommit(c) PROVE SerialInv'
<1>1. PICK v \in VersionIds : v = tx[c].on
  BY DEF DetachCommit, Running, Inv, TypeOK
<1>2. /\ tx[c].op = "detach" /\ End(c) /\ UNCHANGED <<status, stale>>
      /\ parent' = [parent EXCEPT ![v] = NoVersion]
      /\ closure' = Without(tx[c].cut)
  BY <1>1 DEF DetachCommit, Running
<1>3. Sure' = Sure /\ \A x : HasRow(x)' <=> HasRow(x)
  BY <1>2 DEF Sure, HasRow
<1>4. \A d \in VersionIds \ stale, a \in VersionIds :
        closure'[d][a] = IF closure[d][v] # NoRow /\ closure[a][v] = NoRow THEN NoRow
                         ELSE closure[d][a]
  BY <1>1, DetachEffect
<1>5. \A d \in Sure : d \in VersionIds \ stale
  BY SureFacts
<1>6. Forest(Sure', parent', closure')
  <2>1. \A d \in Sure : parent'[d] = IF d = v THEN NoVersion ELSE parent[d]
    BY <1>2, <1>5 DEF Inv, TypeOK
  <2>2. Sure \subseteq VersionIds /\ Forest(Sure, parent, closure)
    BY <1>5 DEF SerialInv
  <2>3. Forest(Sure, parent', closure')
    BY <1>4, <1>5, <2>1, <2>2, DetachForest
  <2> QED BY <1>3, <2>3
<1>7. GoneHaveNoRows'
  BY <1>2, <1>3, <1>4 DEF SerialInv, GoneHaveNoRows
<1>8. Respects
  <2>1. tx[c].op \in Flattening
    BY <1>2 DEF Flattening
  <2> QED BY <1>2, <1>3, <1>4, <2>1 DEF Respects
<1>9. ASSUME NEW d \in Clients \ {c}, tx[d].op = "detach" PROVE TakenAlong(d)'
  <2>1. PICK u \in VersionIds : u = tx[d].on
    BY <1>9 DEF Inv, TypeOK
  <2>2. DetachReads(d) /\ tx'[d] = tx[d]
    BY <1>2, <1>9 DEF SerialInv, ReadsOK, End, Inv, TypeOK
  <2> SUFFICES ASSUME NEW x \in Sure, x \in tx[d].ids, closure'[x][u] = NoRow,
                      NEW a \in VersionIds, closure'[x][a] # NoRow
               PROVE  a \in tx[d].ids
    BY <1>3, <2>1, <2>2 DEF TakenAlong
  <2>3. closure[x][a] # NoRow /\ a \in Sure
    BY <1>4, <1>5, SureFacts
  <2>4. CASE closure[x][u] = NoRow
    BY <2>1, <2>2, <2>3, <2>4 DEF DetachReads, TakenAlong
  <2>5. CASE closure[x][u] # NoRow
    <3>1. u \in Sure /\ v \in Sure /\ closure[x][v] # NoRow /\ closure[u][v] = NoRow
      BY <1>4, <1>5, <2>5, SureFacts
    <3>2. closure[v][u] # NoRow
      BY <2>5, <3>1 DEF SerialInv, Forest, Ordered
    <3>3. closure[a][v] # NoRow
      BY <1>4, <1>5, <3>1
    <3>4. closure[a][u] # NoRow
      BY <2>3, <3>1, <3>2, <3>3 DEF SerialInv, Forest, Ordered
    <3> QED BY <2>1, <2>2, <2>3, <3>4 DEF DetachReads
  <2> QED BY <2>4, <2>5
<1>10. stale' \subseteq {x \in VersionIds : status'[x] # "unused"}
  BY <1>2 DEF SerialInv
<1> QED BY <1>2, <1>6, <1>7, <1>8, <1>9, <1>10, WithoutRows, CommitSerial

\* The version that goes has no child when its row goes, so no sure version
\* loses an ancestor.
LEMMA HardDeleteEffect ==
  ASSUME Inv, SerialInv, NEW c \in Clients, HardDeleteCommit(c),
         NEW d \in VersionIds \ stale, NEW a \in VersionIds
  PROVE  /\ closure'[d][a] = IF tx[c].on \in {d, a} THEN NoRow ELSE closure[d][a]
         /\ closure[d][a] # NoRow /\ a = tx[c].on => d = tx[c].on
<1>1. PICK v \in VersionIds : v = tx[c].on
  BY DEF HardDeleteCommit, Running, Inv, TypeOK
<1> DEFINE cut == tx[c].cut
<1>2. /\ tx[c].op = "hardDelete" /\ tx[c].step = "commit" /\ closure' = Without(cut)
      /\ HardDeleteReads(c) /\ Children(v) = {}
  BY <1>1 DEF HardDeleteCommit, Running, SerialInv, ReadsOK, Inv, ClientOK, HardDeleteOK
<1> HIDE DEF cut
<1>3. closure'[d][a] = IF a \in cut[d] THEN NoRow ELSE closure[d][a]
  BY <1>2, WithoutRows
<1>4. \A x \in Sure : x # v => closure[x][v] = NoRow
  <2>1. Sure \subseteq VersionIds /\ Forest(Sure, parent, closure)
    BY SureFacts DEF SerialInv
  <2>2. \A x \in Sure : parent[x] # v
    BY <1>2, SureFacts DEF Children
  <2> QED BY <2>1, <2>2, ChildlessIsNoAncestor
<1>5. CASE closure[d][a] = NoRow
  BY <1>3, <1>5
<1>6. CASE closure[d][a] # NoRow
  <2>1. d \in Sure
    BY <1>6, SureFacts
  <2>2. CASE d = v
    <3>1. a \in cut[d]
      BY <1>1, <1>2, <1>6, <2>2 DEF HardDeleteReads, cut
    <3> QED BY <1>1, <1>3, <2>2, <3>1
  <2>3. CASE d # v
    <3>1. a # v
      BY <1>4, <1>6, <2>1, <2>3
    <3>2. a \notin cut[d]
      BY <1>1, <1>2, <2>3, <3>1 DEF HardDeleteReads, cut
    <3> QED BY <1>1, <1>3, <2>3, <3>1, <3>2
  <2> QED BY <2>2, <2>3
<1> QED BY <1>5, <1>6

LEMMA HardDeleteCommitSerial ==
  ASSUME Inv, SerialInv, NEW c \in Clients, HardDeleteCommit(c) PROVE SerialInv'
<1>1. PICK v \in VersionIds : v = tx[c].on
  BY DEF HardDeleteCommit, Running, Inv, TypeOK
<1>2. /\ tx[c].op = "hardDelete" /\ tx[c].step = "commit" /\ End(c) /\ UNCHANGED stale
      /\ status' = [status EXCEPT ![v] = "gone"]
      /\ parent' = [parent EXCEPT ![v] = NoVersion]
      /\ closure' = Without(tx[c].cut)
  BY <1>1 DEF HardDeleteCommit, Running
<1>3. status[v] # "unused" /\ Children(v) = {}
  BY <1>1, <1>2 DEF Inv, ClientOK, HardDeleteOK
<1>4. /\ \A x \in VersionIds : HasRow(x)' <=> HasRow(x) /\ x # v
      /\ \A x \in VersionIds : status[x] # "unused" => status'[x] # "unused"
  BY <1>2 DEF HasRow, Inv, TypeOK
<1>5. \A x : x \in Sure' <=> x \in Sure /\ x # v
  BY <1>2, <1>4 DEF Sure
<1>6. \A d \in VersionIds \ stale, a \in VersionIds :
        /\ closure'[d][a] = IF v \in {d, a} THEN NoRow ELSE closure[d][a]
        /\ closure[d][a] # NoRow /\ a = v => d = v
  BY <1>1, HardDeleteEffect
<1>7. \A d \in Sure', a \in VersionIds :
        closure'[d][a] = closure[d][a] /\ (closure[d][a] # NoRow => a \in Sure')
  BY <1>5, <1>6, SureFacts
<1>8. Forest(Sure', parent', closure')
  <2> DEFINE M == Sure'
  <2>1. \A d \in M : parent'[d] = parent[d] /\ parent[d] \in M \cup {NoVersion}
    BY <1>2, <1>3, <1>5, SureFacts DEF Children, Inv, TypeOK
  <2>2. M \subseteq Sure /\ Sure \subseteq VersionIds
    BY <1>5, SureFacts
  <2>3. \A d \in M, a \in VersionIds :
          closure'[d][a] = closure[d][a] /\ (closure[d][a] # NoRow => a \in M)
    BY <1>7
  <2>4. Forest(Sure, parent, closure)
    BY DEF SerialInv
  <2> HIDE DEF M
  <2>5. Forest(M, parent', closure')
    BY <2>1, <2>2, <2>3, <2>4, FewerForest
  <2> QED BY <2>5 DEF M
<1>9. GoneHaveNoRows'
  BY <1>2, <1>4, <1>6 DEF SerialInv, GoneHaveNoRows
<1>10. Respects
  <2>1. \A x \in VersionIds \ stale, a \in VersionIds :
          closure'[x][a] # NoRow => closure[x][a] # NoRow
    BY <1>6
  <2>2. Sure' \subseteq Sure
    BY <1>5
  <2>3. \A x \in Sure : x \in Sure' => \A a \in VersionIds : closure'[x][a] = closure[x][a]
    BY <1>7
  <2> QED BY <1>2, <1>4, <2>1, <2>2, <2>3 DEF Respects
<1>11. ASSUME NEW d \in Clients \ {c}, tx[d].op = "detach" PROVE TakenAlong(d)'
  <2>1. TakenAlong(d) /\ tx'[d] = tx[d] /\ tx[d].on \in VersionIds
    BY <1>2, <1>11 DEF SerialInv, ReadsOK, DetachReads, End, Inv, TypeOK
  <2> QED BY <1>5, <1>7, <2>1 DEF TakenAlong
<1>12. stale' \subseteq {x \in VersionIds : status'[x] # "unused"}
  BY <1>2, <1>4 DEF SerialInv
<1> QED BY <1>2, <1>8, <1>9, <1>10, <1>11, <1>12, WithoutRows, CommitSerial

\* Whoever is sure when a sweep commits was there when it began.
LEMMA SweepEffect ==
  ASSUME Inv, SerialInv, NEW c \in Clients, SweepCommit(c),
         NEW d \in VersionIds \ stale, NEW a \in VersionIds
  PROVE  closure'[d][a] = IF a = d /\ status[d] = "active" THEN 0 ELSE NoRow
<1> DEFINE cut == tx[c].cut
<1>1. /\ tx[c].op = "sweep" /\ tx[c].step = "commit" /\ SweepReads(c)
      /\ closure' = [x \in VersionIds |-> [y \in VersionIds |->
           IF x = y /\ x \in Kept(c) THEN 0 ELSE Without(cut)[x][y]]]
  BY DEF SweepCommit, Running, SerialInv, ReadsOK
<1>2. closure'[d][a] = IF d = a /\ d \in Kept(c) THEN 0
                       ELSE IF a \in cut[d] THEN NoRow ELSE closure[d][a]
  <2> HIDE DEF cut
  <2> QED BY <1>1 DEF Without
<1>3. d \in Kept(c) <=> d \in Sure /\ status[d] = "active"
  <2>1. status[d] = "active" => d \in Sure
    BY DEF Sure, HasRow
  <2>2. Sure \subseteq tx[c].ids
    BY <1>1 DEF SweepReads
  <2> QED BY <2>1, <2>2 DEF Kept
<1>4. closure[d][a] # NoRow => d \in Sure /\ a \in cut[d]
  BY <1>1, SureFacts DEF SweepReads
<1>5. status[d] = "active" => d \in Sure
  BY DEF Sure, HasRow
<1> QED BY <1>2, <1>3, <1>4, <1>5

LEMMA SweepCommitSerial ==
  ASSUME Inv, SerialInv, NEW c \in Clients, SweepCommit(c) PROVE SerialInv'
<1> DEFINE ids == tx[c].ids
<1>1. /\ tx[c].op = "sweep" /\ tx[c].step = "commit" /\ End(c) /\ UNCHANGED stale
      /\ status' = [v \in VersionIds |-> IF v \in Dropped(c) THEN "gone" ELSE status[v]]
      /\ parent' = [v \in VersionIds |-> IF v \in ids THEN NoVersion ELSE parent[v]]
      /\ closure' = [d \in VersionIds |-> [a \in VersionIds |->
           IF d = a /\ d \in Kept(c) THEN 0 ELSE Without(tx[c].cut)[d][a]]]
  BY DEF SweepCommit, Running
<1>2. Sure \subseteq ids
  BY <1>1 DEF SerialInv, ReadsOK, SweepReads
<1>3. \A v \in ids : v \in Dropped(c) <=> status[v] # "active"
  BY DEF Dropped, Kept
<1>4. Dropped(c) \subseteq ids
  BY DEF Dropped
<1> HIDE DEF ids
<1>5. \A v \in VersionIds : HasRow(v)' => HasRow(v) /\ status'[v] = status[v]
  BY <1>1 DEF HasRow
<1>6. \A v \in VersionIds : status[v] # "unused" => status'[v] # "unused"
  BY <1>1
<1>7. \A v : v \in Sure' <=> v \in Sure /\ status[v] = "active"
  <2>1. \A v : v \in Sure' => v \in Sure /\ HasRow(v)' /\ v \in VersionIds
    BY <1>1, <1>5 DEF Sure
  <2>2. \A v \in VersionIds : HasRow(v)' /\ v \in ids => status[v] = "active"
    BY <1>1, <1>3, <1>4 DEF HasRow
  <2>3. \A v \in Sure : status[v] = "active" => v \in Sure'
    <3>1. \A v \in Sure : v \in VersionIds /\ v \notin stale
      BY SureFacts
    <3>2. \A v \in Sure : status[v] = "active" => HasRow(v)'
      BY <1>1, <1>2, <1>3, <3>1 DEF HasRow
    <3> QED BY <1>1, <3>1, <3>2 DEF Sure
  <2> QED BY <1>2, <2>1, <2>2, <2>3
<1>8. \A d \in VersionIds \ stale, a \in VersionIds :
        closure'[d][a] = IF a = d /\ status[d] = "active" THEN 0 ELSE NoRow
  BY SweepEffect
<1>9. \A v \in VersionIds \ stale : status[v] = "active" => v \in Sure
  BY DEF Sure, HasRow
<1>10. Forest(Sure', parent', closure')
  <2> DEFINE M == Sure'
  <2>1. M \subseteq VersionIds
    BY <1>7, SureFacts
  <2>2. \A d \in M : parent'[d] = NoVersion
    BY <1>1, <1>2, <1>7, SureFacts
  <2>3. \A d \in M, a \in VersionIds : closure'[d][a] = IF a = d THEN 0 ELSE NoRow
    BY <1>7, <1>8, SureFacts
  <2> HIDE DEF M
  <2>4. Forest(M, parent', closure')
    BY <2>1, <2>2, <2>3, FlatForest
  <2> QED BY <2>4 DEF M
<1>11. GoneHaveNoRows'
  <2>1. \A d \in VersionIds \ stale : ~HasRow(d)' => status[d] # "active"
    BY <1>1, <1>2, <1>3, <1>4, <1>9 DEF HasRow
  <2> QED BY <1>1, <1>8, <2>1 DEF GoneHaveNoRows
<1>12. \A d \in VersionIds \ stale, a \in VersionIds :
         closure'[d][a] # NoRow => closure[d][a] # NoRow
  BY <1>8, <1>9, SureFacts DEF NoRow
<1>13. Respects
  <2>1. tx[c].op \in Flattening
    BY <1>1 DEF Flattening
  <2>2. Sure' \subseteq Sure
    BY <1>7
  <2> QED BY <1>1, <1>5, <1>6, <1>12, <2>1, <2>2 DEF Respects
<1>14. ASSUME NEW d \in Clients \ {c}, tx[d].op = "detach" PROVE TakenAlong(d)'
  <2>1. tx'[d] = tx[d]
    BY <1>1 DEF End, Inv, TypeOK
  <2> QED BY <1>7, <1>8, <2>1, SureFacts DEF TakenAlong
<1>15. stale' \subseteq {v \in VersionIds : status'[v] # "unused"}
  BY <1>1, <1>6 DEF SerialInv
<1>16. closure' = [d \in VersionIds |-> [a \in VersionIds |-> closure'[d][a]]]
  BY <1>1
<1> QED BY <1>1, <1>10, <1>11, <1>13, <1>14, <1>15, <1>16, CommitSerial

LEMMA SoftDeleteCommitSerial ==
  ASSUME Inv, SerialInv, NEW c \in Clients, SoftDeleteCommit(c) PROVE SerialInv'
<1>1. PICK v \in VersionIds : v = tx[c].on
  BY DEF SoftDeleteCommit, Running, Inv, TypeOK
<1>2. /\ End(c) /\ UNCHANGED <<parent, closure, stale>>
      /\ status' = [status EXCEPT ![v] = IF status[v] = "active" THEN "deleted" ELSE status[v]]
  BY <1>1 DEF SoftDeleteCommit
<1>3. \A x \in VersionIds : /\ HasRow(x)' <=> HasRow(x)
                            /\ status[x] = "unused" <=> status'[x] = "unused"
  BY <1>2 DEF HasRow, Inv, TypeOK
<1>4. Sure' = Sure
  BY <1>2, <1>3 DEF Sure
<1>5. Forest(Sure', parent', closure')
  BY <1>2, <1>4 DEF SerialInv
<1>6. GoneHaveNoRows' /\ stale' \subseteq {x \in VersionIds : status'[x] # "unused"}
  BY <1>2, <1>3 DEF SerialInv, GoneHaveNoRows
<1>7. Respects
  BY <1>2, <1>3, <1>4 DEF Respects
<1>8. ASSUME NEW d \in Clients \ {c}, tx[d].op = "detach" PROVE TakenAlong(d)'
  <2>1. TakenAlong(d) /\ tx'[d] = tx[d]
    BY <1>2, <1>8 DEF SerialInv, ReadsOK, DetachReads, End, Inv, TypeOK
  <2> QED BY <1>2, <1>4, <2>1 DEF TakenAlong
<1>9. closure' = [d \in VersionIds |-> [a \in VersionIds |-> closure'[d][a]]]
  BY <1>2 DEF SerialInv
<1> QED BY <1>2, <1>5, <1>6, <1>7, <1>8, <1>9, CommitSerial

\* A fork that no detach and no sweep has overlapped finds its parent's
\* closure rows as it has read them.
LEMMA ForkEffect ==
  ASSUME Inv, SerialInv, NEW c \in Clients, ForkCommit(c),
         NEW w \in VersionIds, tx[c].ids = {w}, NEW a \in VersionIds
  PROVE  /\ \A d \in VersionIds : d # w => closure'[d] = closure[d]
         /\ ~tx[c].stale =>
              /\ tx[c].on \in Sure
              /\ closure'[w][a] = IF a = w THEN 0
                                  ELSE IF closure[tx[c].on][a] = NoRow THEN NoRow
                                  ELSE closure[tx[c].on][a] + 1
<1>1. PICK v \in VersionIds : v = tx[c].on /\ HasRow(v)
  BY DEF ForkCommit, Running, Inv, TypeOK, ClientOK, ForkOK
<1>2. Smallest(tx[c].ids) = w
  BY IdsAreNumbers, SmallestOfOne
<1> DEFINE read == tx[c].read
           rows == [b \in VersionIds |->
                      IF b = w THEN 0 ELSE IF read[b] = NoRow THEN NoRow ELSE read[b] + 1]
<1>3. closure' = [closure EXCEPT ![w] = rows]
  BY <1>2 DEF ForkCommit
<1>4. rows[a] = IF a = w THEN 0 ELSE IF read[a] = NoRow THEN NoRow ELSE read[a] + 1
  OBVIOUS
<1> HIDE DEF rows
<1>5. closure = [d \in VersionIds |-> closure[d]]
  BY DEF SerialInv
<1>6. closure'[w] = rows /\ \A d \in VersionIds : d # w => closure'[d] = closure[d]
  BY <1>3, <1>5
<1>7. ~tx[c].stale => v \in Sure /\ read[a] = closure[v][a]
  <2>1. ForkReads(c)
    BY DEF ForkCommit, Running, SerialInv, ReadsOK
  <2> QED BY <1>1, <2>1 DEF ForkReads, Sure
<1> QED BY <1>1, <1>4, <1>6, <1>7

LEMMA ForkCommitSerial ==
  ASSUME Inv, SerialInv, NEW c \in Clients, ForkCommit(c) PROVE SerialInv'
<1>1. tx[c].op = "fork" /\ tx[c].step = "commit" /\ End(c)
  BY DEF ForkCommit, Running
<1>2. PICK w \in VersionIds : tx[c].ids = {w} /\ status[w] = "unused"
  BY <1>1 DEF Inv, ClientOK, ForkOK
<1>3. PICK v \in VersionIds : v = tx[c].on
  BY <1>1 DEF Inv, TypeOK
<1>4. Smallest(tx[c].ids) = w
  BY <1>2, IdsAreNumbers, SmallestOfOne
<1>5. /\ status' = [status EXCEPT ![w] = "active"] /\ parent' = [parent EXCEPT ![w] = v]
      /\ stale' = IF tx[c].stale THEN stale \cup {w} ELSE stale
      /\ closure' = [closure EXCEPT ![w] = [a \in VersionIds |->
           IF a = w THEN 0 ELSE IF tx[c].read[a] = NoRow THEN NoRow ELSE tx[c].read[a] + 1]]
  BY <1>3, <1>4 DEF ForkCommit
<1>6. /\ \A x \in VersionIds : x # w => (HasRow(x)' <=> HasRow(x)) /\ status'[x] = status[x]
      /\ HasRow(w)' /\ ~HasRow(w) /\ status'[w] = "active" /\ w \notin Sure /\ w \notin stale
  BY <1>2, <1>5 DEF HasRow, Inv, TypeOK, Sure, SerialInv
<1>7. \A x : x \in Sure' <=> x \in Sure \/ (x = w /\ ~tx[c].stale)
  BY <1>5, <1>6 DEF Sure
<1>8. \A d \in VersionIds : d # w => closure'[d] = closure[d] /\ parent'[d] = parent[d]
  BY <1>1, <1>2, <1>5, ForkEffect DEF Inv, TypeOK
<1>9. parent'[w] = v
  BY <1>5 DEF Inv, TypeOK
<1>10. \A d \in Sure : d \in VersionIds /\ d # w
  BY <1>6, SureFacts
<1>11. Sure \subseteq VersionIds /\ Forest(Sure, parent, closure)
  BY SureFacts DEF SerialInv
<1>12. Forest(Sure', parent', closure')
  <2>1. CASE tx[c].stale
    <3>1. Sure' = Sure
      BY <1>7, <2>1
    <3>2. \A d \in Sure : parent'[d] = parent[d] /\ parent[d] \in Sure \cup {NoVersion}
      BY <1>8, <1>10, SureFacts
    <3>3. \A d \in Sure, a \in VersionIds :
            closure'[d][a] = closure[d][a] /\ (closure[d][a] # NoRow => a \in Sure)
      BY <1>8, <1>10, <1>11 DEF Forest, Inside
    <3>4. Forest(Sure, parent', closure')
      BY <1>11, <3>2, <3>3, FewerForest
    <3> QED BY <3>1, <3>4
  <2>2. CASE ~tx[c].stale
    <3>1. Sure' = Sure \cup {w}
      BY <1>7, <2>2
    <3>2. v \in Sure /\ v # NoVersion
      BY <1>2, <1>3, <2>2, ForkEffect, IdsAreNumbers
    <3>3. \A d \in Sure : parent'[d] = parent[d] /\ \A a \in VersionIds : closure'[d][a] = closure[d][a]
      BY <1>8, <1>10
    <3>4. \A a \in VersionIds :
            closure'[w][a] = IF a = w THEN 0
                             ELSE IF parent'[w] = NoVersion THEN NoRow
                             ELSE IF closure[parent'[w]][a] = NoRow THEN NoRow
                             ELSE closure[parent'[w]][a] + 1
      BY <1>2, <1>3, <1>9, <2>2, <3>2, ForkEffect
    <3>5. w \in VersionIds \ Sure /\ parent'[w] \in Sure \cup {NoVersion}
      BY <1>6, <1>9, <3>2
    <3>6. Forest(Sure \cup {w}, parent', closure')
      BY <1>11, <3>3, <3>4, <3>5, AttachForest
    <3> QED BY <3>1, <3>6
  <2> QED BY <2>1, <2>2
<1>13. GoneHaveNoRows'
  <2>1. \A d \in VersionIds \ stale' : ~HasRow(d)' => d \in VersionIds \ stale /\ d # w /\ ~HasRow(d)
    BY <1>5, <1>6
  <2> QED BY <1>8, <2>1 DEF SerialInv, GoneHaveNoRows
<1>14. Respects
  <2>1. stale \subseteq stale' /\ \A x \in stale' \ stale : status[x] = "unused"
    BY <1>2, <1>5
  <2>2. \A x \in VersionIds : status[x] # "unused" =>
          /\ status'[x] # "unused"
          /\ HasRow(x)' => HasRow(x)
          /\ x \notin stale' => \A a \in VersionIds : closure'[x][a] # NoRow => closure[x][a] # NoRow
    BY <1>2, <1>6, <1>8
  <2>3. (\E d \in Clients : tx[d].op \in Flattening) => Sure' \subseteq Sure
    <3>1. ForkReads(c)
      BY <1>1 DEF SerialInv, ReadsOK
    <3> QED BY <1>7, <3>1 DEF ForkReads
  <2>4. \A x \in Sure : \A a \in VersionIds : closure'[x][a] = closure[x][a]
    BY <1>8, <1>10
  <2> QED BY <2>1, <2>2, <2>3, <2>4 DEF Respects
<1>15. ASSUME NEW d \in Clients \ {c}, tx[d].op = "detach" PROVE TakenAlong(d)'
  <2>1. TakenAlong(d) /\ tx'[d] = tx[d] /\ tx[d].on \in VersionIds
    BY <1>1, <1>15 DEF SerialInv, ReadsOK, DetachReads, End, Inv, TypeOK
  <2>2. Sure' = Sure
    <3>1. ForkReads(c) /\ tx[d].op \in Flattening
      BY <1>1, <1>15 DEF SerialInv, ReadsOK, Flattening
    <3> QED BY <1>7, <3>1 DEF ForkReads
  <2> QED BY <1>8, <1>10, <2>1, <2>2 DEF TakenAlong
<1>16. stale' \subseteq {x \in VersionIds : status'[x] # "unused"}
  BY <1>5, <1>6 DEF SerialInv
<1>17. closure' = [d \in VersionIds |-> [a \in VersionIds |-> closure'[d][a]]]
  <2> DEFINE rows == [a \in VersionIds |->
               IF a = w THEN 0 ELSE IF tx[c].read[a] = NoRow THEN NoRow ELSE tx[c].read[a] + 1]
  <2>1. rows = [a \in VersionIds |-> rows[a]]
    OBVIOUS
  <2>2. closure' = [closure EXCEPT ![w] = rows]
    BY <1>5
  <2> HIDE DEF rows
  <2> QED BY <2>1, <2>2 DEF SerialInv
<1> QED BY <1>1, <1>12, <1>13, <1>14, <1>15, <1>16, <1>17, CommitSerial

-----------------------------------------------------------------------------
(* The closure table of the initial states.                                *)

\* A recursion along parents that have smaller ids is a function.
ChainRow(chain, d) ==
  [a \in VersionIds |->
     IF d > Seeded THEN NoRow
     ELSE IF a = d THEN 0
     ELSE IF parent[d] = NoVersion THEN NoRow
     ELSE IF chain[parent[d]][a] = NoRow THEN NoRow
     ELSE chain[parent[d]][a] + 1]

LEMMA ChainExists ==
  ASSUME \A v \in VersionIds : parent[v] \in Nat /\ parent[v] < v
  PROVE  \E chain : chain = [d \in VersionIds |-> ChainRow(chain, d)]
<1> DEFINE Upto(n) == \E f : f = [d \in VersionIds |-> f[d]]
                             /\ \A d \in VersionIds : d <= n => f[d] = ChainRow(f, d)
           Missing == {n \in Nat : ~Upto(n)}
<1>1. Upto(0)
  <2> DEFINE f == [d \in VersionIds |-> NoRow]
  <2>1. f = [d \in VersionIds |-> f[d]] /\ \A d \in VersionIds : ~(d <= 0)
    BY DEF VersionIds
  <2> QED BY <2>1
<1>2. ASSUME NEW n \in Nat, Upto(n) PROVE Upto(n + 1)
  <2>1. PICK f : f = [d \in VersionIds |-> f[d]]
                 /\ \A d \in VersionIds : d <= n => f[d] = ChainRow(f, d)
    BY <1>2
  <2> DEFINE m == n + 1
             row == ChainRow(f, m)
             g == [f EXCEPT ![m] = row]
  <2>2. m \in Nat /\ \A d \in VersionIds : d \in Nat /\ (d <= m => d <= n \/ d = m)
    BY IdsAreNumbers
  <2>3. g = [d \in VersionIds |-> g[d]] /\ \A d \in VersionIds : g[d] = IF d = m THEN row ELSE f[d]
    <3> HIDE DEF m, row
    <3> QED BY <2>1
  <2> HIDE DEF g
  <2>4. ASSUME NEW d \in VersionIds, d <= m PROVE ChainRow(g, d) = ChainRow(f, d)
    <3>1. parent[d] \in VersionIds => g[parent[d]] = f[parent[d]]
      BY <2>2, <2>3, <2>4
    <3>2. parent[d] = NoVersion \/ parent[d] \in VersionIds
      BY <2>4, BoundsAssumption DEF VersionIds, NoVersion
    <3> QED BY <3>1, <3>2 DEF ChainRow
  <2>5. \A d \in VersionIds : d <= m => g[d] = ChainRow(g, d)
    BY <2>1, <2>2, <2>3, <2>4
  <2> QED BY <2>3, <2>5
<1> HIDE DEF Upto
<1>3. Missing = {}
  <2>1. ASSUME NEW n \in Missing, \A m \in Missing : n <= m PROVE FALSE
    <3>1. n \in Nat /\ n # 0 /\ ~Upto(n)
      BY <1>1
    <3>2. n - 1 \in Nat /\ Upto(n - 1)
      BY <2>1, <3>1
    <3>3. Upto(n)
      BY <1>2, <3>1, <3>2
    <3> QED BY <3>1, <3>3
  <2>2. Missing \subseteq Nat
    OBVIOUS
  <2> HIDE DEF Missing
  <2> QED BY <2>1, <2>2, LeastNumber
<1>4. Upto(MaxId)
  BY <1>3, BoundsAssumption
<1> QED BY <1>4, BoundsAssumption DEF Upto, VersionIds

LEMMA InitChain ==
  ASSUME Init PROVE closure = [d \in VersionIds |-> ChainRow(closure, d)]
<1>1. \A v \in VersionIds : parent[v] \in Nat /\ parent[v] < v
  BY BoundsAssumption DEF Init
<1>2. \E chain : chain = [d \in VersionIds |-> ChainRow(chain, d)]
  BY <1>1, ChainExists
<1>3. closure = CHOOSE chain : chain = [d \in VersionIds |-> ChainRow(chain, d)]
  BY DEF Init, ChainRow
<1> QED BY <1>2, <1>3

LEMMA InitSerial == Init => SerialInv
<1> SUFFICES ASSUME Init PROVE SerialInv
  OBVIOUS
<1>1. /\ \A v \in VersionIds : parent[v] \in Nat /\ parent[v] < v
      /\ \A v \in VersionIds : HasRow(v) <=> v <= Seeded
      /\ stale = {} /\ tx = [c \in Clients |-> Idle]
  BY BoundsAssumption DEF Init, HasRow
<1>2. /\ closure = [d \in VersionIds |-> [a \in VersionIds |-> closure[d][a]]]
      /\ \A d, a \in VersionIds :
           closure[d][a] = IF d > Seeded THEN NoRow
                           ELSE IF a = d THEN 0
                           ELSE IF parent[d] = NoVersion THEN NoRow
                           ELSE IF closure[parent[d]][a] = NoRow THEN NoRow
                           ELSE closure[parent[d]][a] + 1
  BY InitChain DEF ChainRow
<1> DEFINE Missing == {n \in Nat : n <= Seeded /\ ~Forest(1..n, parent, closure)}
<1>3. Forest(1..0, parent, closure)
  <2>1. 1..0 = {}
    OBVIOUS
  <2> QED BY <2>1, FlatForest
<1>4. ASSUME NEW n \in Nat, n + 1 <= Seeded, Forest(1..n, parent, closure)
      PROVE  Forest(1..(n + 1), parent, closure)
  <2> DEFINE L == 1..n
             w == n + 1
  <2>1. L \subseteq VersionIds /\ w \in VersionIds \ L /\ w <= Seeded /\ ~(w > Seeded)
    BY <1>4, BoundsAssumption DEF VersionIds
  <2>2. parent[w] \in L \cup {NoVersion}
    <3>1. parent[w] \in Nat /\ parent[w] < w
      BY <1>1, <2>1
    <3> QED BY <3>1 DEF NoVersion
  <2>3. 1..(n + 1) = L \cup {w}
    OBVIOUS
  <2>4. Forest(L, parent, closure)
    BY <1>4
  <2> HIDE DEF L, w
  <2>5. \A a \in VersionIds :
          closure[w][a] = IF a = w THEN 0
                          ELSE IF parent[w] = NoVersion THEN NoRow
                          ELSE IF closure[parent[w]][a] = NoRow THEN NoRow
                          ELSE closure[parent[w]][a] + 1
    BY <1>2, <2>1
  <2>6. Forest(L \cup {w}, parent, closure)
    BY <2>1, <2>2, <2>4, <2>5, AttachForest
  <2> QED BY <2>3, <2>6
<1>5. Missing = {}
  <2>1. ASSUME NEW n \in Missing, \A m \in Missing : n <= m PROVE FALSE
    <3>1. n \in Nat /\ n # 0 /\ n <= Seeded /\ ~Forest(1..n, parent, closure)
      BY <1>3
    <3>2. n - 1 \in Nat /\ n - 1 <= Seeded /\ (n - 1) + 1 = n
      BY <3>1, BoundsAssumption
    <3>3. Forest(1..(n - 1), parent, closure)
      BY <2>1, <3>1, <3>2
    <3>4. Forest(1..((n - 1) + 1), parent, closure)
      BY <1>4, <3>1, <3>2, <3>3
    <3> QED BY <3>1, <3>2, <3>4
  <2>2. Missing \subseteq Nat
    OBVIOUS
  <2> HIDE DEF Missing
  <2> QED BY <2>1, <2>2, LeastNumber
<1>6. Forest(Sure, parent, closure)
  <2>1. Sure = 1..Seeded
    BY <1>1, BoundsAssumption DEF Sure, VersionIds
  <2>2. Forest(1..Seeded, parent, closure)
    BY <1>5, BoundsAssumption
  <2> QED BY <2>1, <2>2
<1>7. GoneHaveNoRows
  BY <1>1, <1>2, BoundsAssumption DEF GoneHaveNoRows, VersionIds
<1>8. \A c \in Clients : ReadsOK(c)
  BY <1>1, IdleFields DEF ReadsOK
<1> QED BY <1>1, <1>2, <1>6, <1>7, <1>8 DEF SerialInv

-----------------------------------------------------------------------------
(* The theorems.                                                           *)

LEMMA StartSerial == ASSUME Inv, SerialInv, NEW c \in Clients, Start(c) PROVE SerialInv'
BY BeginForkSerial, BeginDetachSerial, BeginDeleteSerial, BeginSweepSerial DEF Start

LEMMA StatementSerial == ASSUME Inv, SerialInv, NEW c \in Clients, Step(c) PROVE SerialInv'
BY LockNextSerial, CheckSerial, ForkCommitSerial, DetachDeleteSerial, DetachCommitSerial,
   HardDeleteClosureSerial, HardDeleteCommitSerial, SoftDeleteCommitSerial,
   SweepClosureSerial, SweepCommitSerial DEF Step

LEMMA StutterSerial == ASSUME SerialInv, UNCHANGED vars PROVE SerialInv'
<1>1. /\ UNCHANGED <<status, parent, closure, tx, stale, tables>> /\ Sure' = Sure
      /\ \A v : HasRow(v)' <=> HasRow(v)
  BY DEF vars, tables, Sure, HasRow
<1>2. \A c \in Clients : SameReads(c)
  BY <1>1 DEF SameReads, SameTx
<1>3. \A c \in Clients : ReadsOK(c)'
  BY <1>1, <1>2, ReadsKept DEF SerialInv, ReadsOK, ForkReads
<1>4. Forest(Sure', parent', closure')
  BY <1>1 DEF SerialInv
<1>5. GoneHaveNoRows' /\ stale' \subseteq {v \in VersionIds : status'[v] # "unused"}
  BY <1>1 DEF SerialInv, GoneHaveNoRows
<1>6. closure' = [d \in VersionIds |-> [a \in VersionIds |-> closure'[d][a]]]
  BY <1>1 DEF SerialInv
<1> QED BY <1>3, <1>4, <1>5, <1>6 DEF SerialInv

LEMMA NextSerial == Inv /\ SerialInv /\ [Next]_vars => SerialInv'
<1> SUFFICES ASSUME Inv, SerialInv, [Next]_vars PROVE SerialInv'
  OBVIOUS
<1>1. ASSUME NEW c \in Clients, BreakDeadlock(c) PROVE SerialInv'
  BY <1>1, AbortSerial DEF BreakDeadlock
<1> QED BY <1>1, StartSerial, StatementSerial, StutterSerial DEF Next

LEMMA SerialAgrees == Inv /\ SerialInv => ClosureFollowsParents
<1> SUFFICES ASSUME Inv, SerialInv, NEW d \in VersionIds \ stale, NEW a \in VersionIds
             PROVE  closure[d][a] =
                      IF ~HasRow(d) THEN NoRow
                      ELSE IF a = d THEN 0
                      ELSE IF parent[d] = NoVersion THEN NoRow
                      ELSE IF ~IsAncestor(a, parent[d]) THEN NoRow
                      ELSE closure[parent[d]][a] + 1
  BY DEF ClosureFollowsParents
<1>1. CASE ~HasRow(d)
  BY <1>1 DEF SerialInv, GoneHaveNoRows
<1>2. CASE HasRow(d)
  <2>1. d \in Sure
    BY <1>2 DEF Sure
  <2>2. CASE a \in Sure
    BY <1>2, <2>1, <2>2 DEF SerialInv, Forest, Follows, IsAncestor
  <2>3. CASE a \notin Sure
    <3>1. closure[d][a] = NoRow /\ a # d
      BY <2>1, <2>3, SureFacts
    <3>2. parent[d] # NoVersion => closure[parent[d]][a] = NoRow
      BY <2>1, <2>3, SureFacts
    <3> QED BY <1>2, <3>1, <3>2 DEF IsAncestor
  <2> QED BY <2>2, <2>3
<1> QED BY <1>1, <1>2

\* However forks, detaches, deletes and sweeps interleave, the closure table
\* agrees with the parent pointers for every version that was not forked while
\* a detach or a sweep was open.
THEOREM ClosureAlwaysFollows == Spec => []ClosureFollowsParents
<1>1. Init => Inv /\ SerialInv
  BY InitInv, InitSerial
<1>2. Inv /\ SerialInv /\ [Next]_vars => Inv' /\ SerialInv'
  BY NextInv, NextSerial
<1> QED BY <1>1, <1>2, SerialAgrees, PTL DEF Spec

\* Only the commit of its own operation ends a transaction that is at it.
LEMMA CommitEnds ==
  ASSUME Inv, NEW c \in Clients, tx[c].step = "commit", tx'[c] = Idle, [Next]_vars
  PROVE  \/ ForkCommit(c) \/ DetachCommit(c) \/ HardDeleteCommit(c)
         \/ SoftDeleteCommit(c) \/ SweepCommit(c)
<1>1. tx[c].op # "none" /\ tx[c] # Idle /\ tx[c].op # tx'[c].op
  BY IdleFields DEF Inv, TypeOK
<1>2. PICK d \in Clients : Start(d) \/ Step(d) \/ BreakDeadlock(d)
  BY <1>1 DEF Next, vars
<1>3. d = c
  <2> SUFFICES ASSUME d # c PROVE tx'[c].op = tx[c].op
    BY <1>1
  <2>1. \A t : Begin(d, t) => tx'[c].op = tx[c].op
    <3> SUFFICES ASSUME NEW t, Begin(d, t) PROVE tx'[c].op = tx[c].op
      OBVIOUS
    <3>1. tx'[c] = tx[c] \/ tx'[c] = [tx[c] EXCEPT !.stale = TRUE]
      BY DEF Begin
    <3>2. Shaped(tx[c])
      BY DEF Inv, TypeOK
    <3> QED BY <3>1, <3>2 DEF Shaped
  <2>2. Start(d) => \E t : Begin(d, t)
    BY DEF Start, BeginFork, BeginDetach, BeginHardDelete, BeginSoftDelete, BeginSweep
  <2>3. Abort(d) \/ End(d) \/ (\E step : Goto(d, step)) \/ LockNext(d) => tx'[c] = tx[c]
    BY DEF Abort, End, Goto, LockNext, Inv, TypeOK
  <2>4. DetachDelete(d) \/ HardDeleteClosure(d) \/ SweepClosure(d) => tx'[c] = tx[c]
    BY DEF DetachDelete, HardDeleteClosure, SweepClosure, Visible, Inv, TypeOK
  <2>5. Step(d) => \/ Abort(d) \/ End(d) \/ (\E step : Goto(d, step)) \/ LockNext(d)
                   \/ DetachDelete(d) \/ HardDeleteClosure(d) \/ SweepClosure(d)
    BY DEF Step, ForkCheckParent, ForkCommit, DetachCommit, HardDeleteRow, HardDeleteCommit,
           SoftDeleteRow, SoftDeleteCommit, SweepRows, SweepCommit
  <2> QED BY <1>2, <2>1, <2>2, <2>3, <2>4, <2>5 DEF BreakDeadlock
<1>4. ~Start(c)
  BY <1>1 DEF Start, Begin, BeginFork, BeginDetach, BeginHardDelete, BeginSoftDelete, BeginSweep
<1>5. ~Deadlocked(c)
  <2>1. Wanted(c) = {}
    BY DEF Wanted
  <2>2. Blockers(c) = {}
    BY <2>1 DEF Blockers, HoldersAgainst
  <2> QED BY <2>2 DEF Deadlocked, InCycle
<1>6. Step(c)
  BY <1>2, <1>3, <1>4, <1>5 DEF BreakDeadlock
<1> QED BY <1>6 DEF Step, LockNext, ForkCheckParent, DetachDelete, HardDeleteClosure,
                    HardDeleteRow, SoftDeleteRow, SweepClosure, SweepRows, Running

\* RunAlone row by row.
LEMMA AloneRows ==
  ASSUME NEW c \in Clients, NEW d \in VersionIds
  PROVE  LET v == tx[c].on
         IN  /\ tx[c].op = "detach" =>
                  RunAlone(c, d) = [a \in VersionIds |->
                    IF d \in Descendants(v) => a \in Descendants(v) THEN closure[d][a] ELSE NoRow]
             /\ tx[c].op = "hardDelete" =>
                  RunAlone(c, d) = [a \in VersionIds |-> IF v \notin {a, d} THEN closure[d][a] ELSE NoRow]
             /\ tx[c].op = "sweep" =>
                  RunAlone(c, d) = [a \in VersionIds |->
                    IF a = d /\ status[d] = "active" THEN closure[d][a] ELSE NoRow]
             /\ tx[c].op = "fork" /\ {d} = tx[c].ids =>
                  RunAlone(c, d) = [a \in VersionIds |->
                    IF a = d THEN 0 ELSE IF IsAncestor(a, v) THEN closure[v][a] + 1 ELSE NoRow]
             /\ tx[c].op = "softDelete" \/ (tx[c].op = "fork" /\ {d} # tx[c].ids) =>
                  RunAlone(c, d) = [a \in VersionIds |-> closure[d][a]]
BY DEF RunAlone

LEMMA AloneAtCommit ==
  ASSUME Inv, SerialInv, SerialInv', NEW c \in Clients, NEW d \in VersionIds \ stale',
         \/ ForkCommit(c) \/ DetachCommit(c) \/ HardDeleteCommit(c)
         \/ SoftDeleteCommit(c) \/ SweepCommit(c)
  PROVE  closure'[d] = RunAlone(c, d)
<1>1. closure'[d] = [a \in VersionIds |-> closure'[d][a]]
  BY DEF SerialInv
<1>2. closure[d] = [a \in VersionIds |-> closure[d][a]]
  BY DEF SerialInv
<1>3. CASE DetachCommit(c)
  <2>1. tx[c].op = "detach" /\ tx[c].on \in VersionIds /\ d \notin stale
    BY <1>3 DEF DetachCommit, Running, Inv, TypeOK
  <2>2. \A x \in VersionIds : x \in Descendants(tx[c].on) <=> closure[x][tx[c].on] # NoRow
    BY DEF Descendants, IsAncestor
  <2>3. \A a \in VersionIds :
          closure'[d][a] = IF d \in Descendants(tx[c].on) => a \in Descendants(tx[c].on)
                           THEN closure[d][a] ELSE NoRow
    BY <1>3, <2>1, <2>2, DetachEffect
  <2>4. RunAlone(c, d) = [a \in VersionIds |->
          IF d \in Descendants(tx[c].on) => a \in Descendants(tx[c].on)
          THEN closure[d][a] ELSE NoRow]
    BY <2>1, AloneRows
  <2> QED BY <1>1, <2>3, <2>4
<1>4. CASE HardDeleteCommit(c)
  <2>1. tx[c].op = "hardDelete" /\ d \notin stale
    BY <1>4 DEF HardDeleteCommit, Running
  <2>2. \A a \in VersionIds :
          closure'[d][a] = IF tx[c].on \notin {a, d} THEN closure[d][a] ELSE NoRow
    BY <1>4, <2>1, HardDeleteEffect
  <2>3. RunAlone(c, d) = [a \in VersionIds |->
          IF tx[c].on \notin {a, d} THEN closure[d][a] ELSE NoRow]
    BY <2>1, AloneRows
  <2> QED BY <1>1, <2>2, <2>3
<1>5. CASE SweepCommit(c)
  <2>1. tx[c].op = "sweep" /\ d \notin stale
    BY <1>5 DEF SweepCommit, Running
  <2>2. status[d] = "active" => closure[d][d] = 0
    <3>1. status[d] = "active" => d \in Sure
      BY <2>1 DEF Sure, HasRow
    <3> QED BY <3>1, SureFacts
  <2>3. \A a \in VersionIds :
          closure'[d][a] = IF a = d /\ status[d] = "active" THEN closure[d][a] ELSE NoRow
    BY <1>5, <2>1, <2>2, SweepEffect
  <2>4. RunAlone(c, d) = [a \in VersionIds |->
          IF a = d /\ status[d] = "active" THEN closure[d][a] ELSE NoRow]
    BY <2>1, AloneRows
  <2> QED BY <1>1, <2>3, <2>4
<1>6. CASE SoftDeleteCommit(c)
  <2>1. tx[c].op = "softDelete" /\ UNCHANGED closure
    BY <1>6 DEF SoftDeleteCommit, Running
  <2>2. RunAlone(c, d) = [a \in VersionIds |-> closure[d][a]]
    BY <2>1, AloneRows
  <2> QED BY <1>2, <2>1, <2>2
<1>7. CASE ForkCommit(c)
  <2>1. tx[c].op = "fork"
    BY <1>7 DEF ForkCommit, Running
  <2>2. PICK w \in VersionIds : tx[c].ids = {w}
    BY <2>1 DEF Inv, ClientOK, ForkOK
  <2>3. CASE d # w
    <3>1. closure'[d] = closure[d]
      BY <1>7, <2>2, <2>3, ForkEffect
    <3>2. RunAlone(c, d) = [a \in VersionIds |-> closure[d][a]]
      <4>1. {d} # tx[c].ids
        BY <2>2, <2>3
      <4> QED BY <2>1, <4>1, AloneRows
    <3> QED BY <1>2, <3>1, <3>2
  <2>4. CASE d = w
    <3>1. ~tx[c].stale
      <4>1. Smallest(tx[c].ids) = w
        BY <2>2, IdsAreNumbers, SmallestOfOne
      <4>2. tx[c].stale => w \in stale'
        BY <1>7, <4>1 DEF ForkCommit
      <4> QED BY <2>4, <4>2
    <3>2. \A a \in VersionIds :
            closure'[d][a] = IF a = d THEN 0
                             ELSE IF IsAncestor(a, tx[c].on) THEN closure[tx[c].on][a] + 1
                             ELSE NoRow
      BY <1>7, <2>2, <2>4, <3>1, ForkEffect DEF IsAncestor
    <3>3. RunAlone(c, d) = [a \in VersionIds |->
            IF a = d THEN 0 ELSE IF IsAncestor(a, tx[c].on) THEN closure[tx[c].on][a] + 1
            ELSE NoRow]
      BY <2>1, <2>2, <2>4, AloneRows
    <3> QED BY <1>1, <3>2, <3>3
  <2> QED BY <2>3, <2>4
<1> QED BY <1>3, <1>4, <1>5, <1>6, <1>7

\* Transactions serialise in the order of their commits: however their
\* statements interleave, each leaves the closure rows it would have left had
\* it run alone at its commit.
THEOREM CommitsAreSerial == Spec => CommitsSerialize
<1>1. Init => Inv /\ SerialInv
  BY InitInv, InitSerial
<1>2. Inv /\ SerialInv /\ [Next]_vars => Inv' /\ SerialInv'
  BY NextInv, NextSerial
<1>3. Inv /\ SerialInv /\ SerialInv' /\ [Next]_vars =>
        [\A c \in Clients : tx[c].step = "commit" /\ tx'[c] = Idle =>
           \A d \in VersionIds \ stale' : closure'[d] = RunAlone(c, d)]_vars
  BY CommitEnds, AloneAtCommit
<1> QED BY <1>1, <1>2, <1>3, PTL DEF Spec, CommitsSerialize
=============================================================================
