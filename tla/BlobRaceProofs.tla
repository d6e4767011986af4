--------------------------- MODULE BlobRaceProofs ---------------------------
(***************************************************************************)
(* OnlyExposedLoseBlobs is an invariant of BlobRace, for any versions,     *)
(* contents, clients and transactions.  Inv follows a blob from the        *)
(* snapshot that finds it unreferenced to the commit that deletes it: all  *)
(* the while no entry refers to it but exposed ones, and a write can rely  *)
(* on it only if it is exposed.                                            *)
(***************************************************************************)
EXTENDS BlobRace, FiniteSetTheorems, SequenceTheorems, TLAPS

\* t has the fields of a transaction.
Shaped(t) == t = [op |-> t.op, on |-> t.on, put |-> t.put, todo |-> t.todo, step |-> t.step,
                  ids |-> t.ids, visit |-> t.visit, dropped |-> t.dropped,
                  inserted |-> t.inserted, garbage |-> t.garbage, collected |-> t.collected,
                  relies |-> t.relies, exposed |-> t.exposed]

Rows == Contents \cup {NoEntry, Tombstone}

TypeOK ==
  /\ entries \in [VersionIds -> Rows]
  /\ plan \in Seq(WriteParts) /\ \E i \in 1..Len(plan) : plan[i] = "blob"
  /\ tx = [c \in Clients |-> tx[c]]
  /\ \A c \in Clients : Shaped(tx[c])

\* Two clients never hold locks in conflict.
LocksOK ==
  \A k, m \in locks : k.by # m.by /\ k.kind = m.kind /\ k.on = m.on => ~Conflict(k.mode, m.mode)

BlobLocked(c, x) ==
  \E k \in locks : k.by = c /\ k.kind = "blob" /\ k.on = x /\ k.mode = "update"

\* The blobs that c deletes, as far as it has got.
Deletes(c) == tx[c].garbage \cup tx[c].collected

\* Operations use the fields that are theirs.
FieldsOK(c) ==
  LET t == tx[c]
  IN  /\ t.op \in {"none", "write", "rm"} \cup Removals
      /\ t.op \notin {"write", "rm"} => t.todo = <<>> /\ ~t.relies /\ t.inserted = {}
      /\ t.op \notin Removals => t.step = "none" /\ Deletes(c) = {} /\ t.visit = {}
      /\ t.step # "collect" => Deletes(c) = {}
      /\ t.step \in {"versionDeleted", "collect"} => t.visit = {}
      /\ t.op = "write" => t.on \in VersionIds /\ t.put \in Contents /\ t.todo \in Seq(WriteParts)
      /\ t.op = "rm" => t.on \in VersionIds /\ t.put = Tombstone
      /\ t.inserted \in {{}, {t.put}}

\* A write that is past its blob found it or inserted it.  It holds a lock on
\* one that it inserted, and one that it found stays unless it is exposed.
WriteOK(c) ==
  LET t == tx[c]
  IN  /\ t.op = "write" => \/ \E i \in 1..Len(t.todo) : t.todo[i] = "blob"
                           \/ t.relies \/ t.inserted = {t.put}
      /\ \A x \in t.inserted : x \notin blobs /\ BlobLocked(c, x)
      /\ t.relies /\ ~t.exposed =>
           t.put \in blobs /\ \A d \in Clients : t.put \notin Deletes(d)

\* Blobs under deletion are there, those visited are locked, and the entries
\* that refer to them, but those deleted with them, are exposed.
RemovalOK(c) ==
  LET t == tx[c]
  IN  /\ Deletes(c) \subseteq blobs
      /\ \A x \in t.collected : BlobLocked(c, x)
      /\ \A v \in VersionIds \ t.dropped :
           entries[v] \in Contents /\ entries[v] \in Deletes(c) => v \in exposed

Inv ==
  /\ TypeOK
  /\ LocksOK
  /\ \A c \in Clients : FieldsOK(c) /\ WriteOK(c) /\ RemovalOK(c)
  /\ OnlyExposedLoseBlobs

-----------------------------------------------------------------------------
(* Facts about the operators.                                              *)

LEMMA IdleFields ==
  /\ Shaped(Idle) /\ Idle.op = "none" /\ Idle.step = "none" /\ Idle.todo = <<>>
  /\ ~Idle.relies /\ ~Idle.exposed /\ Idle.inserted = {} /\ Idle.visit = {}
  /\ Idle.garbage = {} /\ Idle.collected = {} /\ Idle.dropped = {}
BY SMT DEF Shaped, Idle

\* Setting a field leaves a transaction one.
LEMMA PatchShaped ==
  ASSUME NEW t, Shaped(t), NEW e
  PROVE  /\ Shaped([t EXCEPT !.op = e]) /\ Shaped([t EXCEPT !.on = e])
         /\ Shaped([t EXCEPT !.put = e]) /\ Shaped([t EXCEPT !.todo = e])
         /\ Shaped([t EXCEPT !.step = e]) /\ Shaped([t EXCEPT !.ids = e])
         /\ Shaped([t EXCEPT !.visit = e]) /\ Shaped([t EXCEPT !.dropped = e])
         /\ Shaped([t EXCEPT !.inserted = e]) /\ Shaped([t EXCEPT !.garbage = e])
         /\ Shaped([t EXCEPT !.collected = e]) /\ Shaped([t EXCEPT !.relies = e])
         /\ Shaped([t EXCEPT !.exposed = e])
BY SMT DEF Shaped

\* The parts of a write are its three, in some order.
LEMMA PlansHaveBlob ==
  ASSUME NEW p \in SetToSeqs(WriteParts)
  PROVE  p \in Seq(WriteParts) /\ \E i \in 1..Len(p) : p[i] = "blob"
<1>1. Cardinality(WriteParts) = 3
  <2>1. IsFiniteSet({"bump"}) /\ Cardinality({"bump"}) = 1
    BY FS_Singleton
  <2>2. "entry" \notin {"bump"} /\ "blob" \notin {"bump"} \cup {"entry"}
    OBVIOUS
  <2>3. IsFiniteSet({"bump"} \cup {"entry"}) /\ Cardinality({"bump"} \cup {"entry"}) = 2
    <3>1. Cardinality({"bump"} \cup {"entry"}) = Cardinality({"bump"}) + 1
      BY <2>1, <2>2, FS_AddElement
    <3>2. IsFiniteSet({"bump"} \cup {"entry"})
      BY <2>1, FS_AddElement
    <3> QED BY <2>1, <3>1, <3>2
  <2>5. Cardinality({"bump"} \cup {"entry"} \cup {"blob"}) = 3
    <3>1. Cardinality({"bump"} \cup {"entry"} \cup {"blob"}) = Cardinality({"bump"} \cup {"entry"}) + 1
      BY <2>2, <2>3, FS_AddElement
    <3> QED BY <2>3, <3>1
  <2>4. WriteParts = {"bump"} \cup {"entry"} \cup {"blob"}
    BY DEF WriteParts
  <2> QED BY <2>4, <2>5
<1>2. p \in [1..3 -> WriteParts] /\ \A i, j \in 1..3 : i # j => p[i] # p[j]
  <2>1. p \in {f \in [1..3 -> WriteParts] : \A i, j \in 1..3 : i # j => f[i] # f[j]}
    BY <1>1, Zenon DEF SetToSeqs
  <2> QED BY <2>1
<1>3. p \in Seq(WriteParts) /\ Len(p) = 3
  <2>1. p \in Seq(WriteParts)
    BY <1>2, SeqDef
  <2>2. p \in [1..Len(p) -> WriteParts] /\ Len(p) \in Nat
    BY <2>1, LenProperties
  <2>3. 1..Len(p) = 1..3
    BY <1>2, <2>2
  <2> QED BY <2>1, <2>2, <2>3
<1>4. p[1] = "blob" \/ p[2] = "blob" \/ p[3] = "blob"
  <2>1. /\ p[1] \in WriteParts /\ p[2] \in WriteParts /\ p[3] \in WriteParts
        /\ p[1] # p[2] /\ p[1] # p[3] /\ p[2] # p[3]
    BY <1>2
  <2> QED BY <2>1 DEF WriteParts
<1> QED BY <1>3, <1>4

\* Whoever locks a blob is the only one.
LEMMA BlobLocksExclude ==
  ASSUME LocksOK, NEW c, NEW d, c # d, NEW x, BlobLocked(c, x), BlobLocked(d, x)
  PROVE  FALSE
BY DEF LocksOK, BlobLocked, Conflict

LEMMA WantedOwn ==
  ASSUME NEW c \in Clients, NEW k \in Wanted(c)
  PROVE  k.by = c /\ \A m \in Wanted(c) : m = k
BY DEF Wanted, Lock

LEMMA GrantKeepsLocks ==
  ASSUME LocksOK, NEW c \in Clients, Grant(c)
  PROVE  LocksOK'
<1>1. \A k \in Wanted(c) : k.by = c /\ \A m \in Wanted(c) : m = k
  BY WantedOwn
<1>2. \A k \in Wanted(c), m \in locks : m.by # c /\ k.kind = m.kind /\ k.on = m.on =>
        ~Conflict(m.mode, k.mode)
  BY DEF Grant, Blockers, HoldersAgainst
<1>3. \A m, n : Conflict(m, n) <=> Conflict(n, m)
  BY DEF Conflict
<1>4. \A k \in locks' : k \in locks \/ k \in Wanted(c)
  BY DEF Grant
<1> QED BY <1>1, <1>2, <1>3, <1>4 DEF LocksOK

LEMMA ReleaseKeepsLocks == ASSUME LocksOK, NEW c, Release(c) PROVE LocksOK'
BY DEF LocksOK, Release

\* A part that is not the blob's leaves the blob's to be run.
LEMMA TailKeepsBlob ==
  ASSUME NEW s \in Seq(WriteParts), s # <<>>
  PROVE  /\ Tail(s) \in Seq(WriteParts)
         /\ Head(s) # "blob" /\ (\E i \in 1..Len(s) : s[i] = "blob") =>
              \E i \in 1..Len(Tail(s)) : Tail(s)[i] = "blob"
<1>1. Tail(s) \in Seq(WriteParts) /\ Len(s) \in Nat /\ Len(s) # 0
  OBVIOUS
<1>2. ASSUME Head(s) # "blob", NEW i \in 1..Len(s), s[i] = "blob"
      PROVE  \E j \in 1..Len(Tail(s)) : Tail(s)[j] = "blob"
  <2>1. i # 1 /\ i \in Nat
    BY <1>2
  <2>2. i - 1 \in 1..Len(Tail(s)) /\ Tail(s)[i - 1] = "blob"
    BY <1>2, <2>1
  <2> QED BY <2>2
<1> QED BY <1>1, <1>2

-----------------------------------------------------------------------------
(* Statements that change no table.                                        *)

LEMMA QuietStep ==
  ASSUME Inv, NEW c \in Clients, NEW t, tx' = [tx EXCEPT ![c] = t], Shaped(t),
         UNCHANGED <<entries, blobs, exposed, plan>>, LocksOK',
         \A k \in locks : k.by # c => k \in locks',
         t.garbage \cup t.collected \subseteq Deletes(c),
         FieldsOK(c)', WriteOK(c)', RemovalOK(c)'
  PROVE  Inv'
<1>1. tx'[c] = t /\ \A d \in Clients \ {c} : tx'[d] = tx[d]
  BY DEF Inv, TypeOK
<1>2. TypeOK'
  <2>1. tx' = [d \in Clients |-> tx'[d]]
    BY DEF Inv, TypeOK
  <2> QED BY <1>1, <2>1 DEF Inv, TypeOK
<1>3. \A d \in Clients : Deletes(d)' \subseteq Deletes(d)
  BY <1>1 DEF Deletes
<1>4. ASSUME NEW d \in Clients \ {c} PROVE FieldsOK(d)' /\ WriteOK(d)' /\ RemovalOK(d)'
  <2>1. tx'[d] = tx[d] /\ Deletes(d)' = Deletes(d)
    BY <1>1 DEF Deletes
  <2>2. \A x : BlobLocked(d, x) => BlobLocked(d, x)'
    BY DEF BlobLocked
  <2>3. FieldsOK(d) /\ WriteOK(d) /\ RemovalOK(d)
    BY DEF Inv
  <2>4. FieldsOK(d)'
    BY <2>1, <2>3 DEF FieldsOK
  <2>5. WriteOK(d)'
    BY <1>3, <2>1, <2>2, <2>3 DEF WriteOK
  <2>6. RemovalOK(d)'
    BY <2>1, <2>2, <2>3 DEF RemovalOK
  <2> QED BY <2>4, <2>5, <2>6
<1>5. OnlyExposedLoseBlobs'
  BY DEF Inv, OnlyExposedLoseBlobs
<1> QED BY <1>2, <1>4, <1>5 DEF Inv

\* A transaction that has deleted nothing yet is sound if its write is.
LEMMA NothingDeleted ==
  ASSUME NEW c, NEW t, tx'[c] = t, t.garbage = {}, t.collected = {}
  PROVE  RemovalOK(c)'
BY DEF RemovalOK, Deletes

LEMMA BeginKeeps ==
  ASSUME Inv, NEW c \in Clients, NEW t, Begin(c, t), Shaped(t),
         t.op \in {"write", "rm"} \cup Removals,
         t.op \in {"write", "rm"} => t.on \in VersionIds /\ t.step = "none",
         t.op = "write" => t.put \in Contents /\ t.todo = plan,
         t.op = "rm" => t.put = Tombstone,
         t.op \in Removals => t.todo = <<>> /\ t.step = "lock",
         t.visit = {}, t.inserted = {}, t.garbage = {}, t.collected = {}, t.relies = FALSE
  PROVE  Inv'
<1>1. tx' = [tx EXCEPT ![c] = t] /\ UNCHANGED <<entries, blobs, exposed, plan, locks>>
  BY DEF Begin, tables
<1>2. tx'[c] = t
  BY <1>1 DEF Inv, TypeOK
<1>3. FieldsOK(c)'
  <2>1. t.op \in {"none", "write", "rm"} \cup Removals /\ t.op \notin {"write", "rm"} => t.op \in Removals
    OBVIOUS
  <2>2. t.op \notin Removals => t.op \in {"write", "rm"}
    OBVIOUS
  <2>3. Deletes(c)' = {}
    BY <1>2 DEF Deletes
  <2>4. plan \in Seq(WriteParts)
    BY DEF Inv, TypeOK
  <2> QED BY <1>2, <2>1, <2>2, <2>3, <2>4 DEF FieldsOK
<1>4. WriteOK(c)'
  BY <1>2 DEF WriteOK, Inv, TypeOK
<1>5. RemovalOK(c)' /\ LocksOK'
  BY <1>1, <1>2, NothingDeleted DEF Inv, LocksOK
<1> QED BY <1>1, <1>3, <1>4, <1>5, QuietStep

LEMMA AbortKeeps == ASSUME Inv, NEW c \in Clients, Abort(c) PROVE Inv'
<1>1. /\ tx' = [tx EXCEPT ![c] = Idle] /\ Release(c)
      /\ UNCHANGED <<entries, blobs, exposed, plan>>
  BY DEF Abort, tables
<1>2. tx'[c] = Idle
  BY <1>1 DEF Inv, TypeOK
<1>3. FieldsOK(c)' /\ WriteOK(c)'
  BY <1>2, IdleFields DEF FieldsOK, WriteOK, Deletes, Removals
<1>4. RemovalOK(c)'
  BY <1>2, IdleFields, NothingDeleted
<1>5. LocksOK' /\ \A k \in locks : k.by # c => k \in locks'
  BY <1>1, ReleaseKeepsLocks DEF Inv, Release
<1> QED BY <1>1, <1>3, <1>4, <1>5, IdleFields, QuietStep

-----------------------------------------------------------------------------
(* The actions, one by one.                                                *)

LEMMA BeginWriteKeeps ==
  ASSUME Inv, NEW c \in Clients, NEW v \in VersionIds, NEW x \in Contents, BeginWrite(c, v, x)
  PROVE  Inv'
<1> DEFINE t1 == [Idle EXCEPT !.op = "write"]
           t2 == [t1 EXCEPT !.on = v]
           t3 == [t2 EXCEPT !.put = x]
           t == [Idle EXCEPT !.op = "write", !.on = v, !.put = x, !.todo = plan]
<1>1. Begin(c, t)
  BY DEF BeginWrite
<1>2. Shaped(t)
  <2>1. Shaped(t1)
    BY IdleFields, PatchShaped
  <2> HIDE DEF t1
  <2>2. Shaped(t2)
    BY <2>1, PatchShaped
  <2> HIDE DEF t2
  <2>3. Shaped(t3)
    BY <2>2, PatchShaped
  <2> HIDE DEF t3
  <2>4. Shaped([t3 EXCEPT !.todo = plan])
    BY <2>3, PatchShaped
  <2> QED BY <2>4 DEF t1, t2, t3
<1>3. /\ t.op = "write" /\ t.on = v /\ t.put = x /\ t.todo = plan /\ t.step = "none"
      /\ t.visit = {} /\ t.inserted = {} /\ t.garbage = {} /\ t.collected = {}
      /\ t.relies = FALSE
  BY SMT DEF Idle
<1> HIDE DEF t
<1>4. t.op \notin Removals
  BY <1>3 DEF Removals
<1> QED BY <1>1, <1>2, <1>3, <1>4, BeginKeeps

LEMMA BeginRmKeeps ==
  ASSUME Inv, NEW c \in Clients, NEW v \in VersionIds, BeginRm(c, v) PROVE Inv'
<1> DEFINE todo == SelectSeq(plan, LAMBDA part : part # "blob")
           t1 == [Idle EXCEPT !.op = "rm"]
           t2 == [t1 EXCEPT !.on = v]
           t3 == [t2 EXCEPT !.put = Tombstone]
           t == [Idle EXCEPT !.op = "rm", !.on = v, !.put = Tombstone, !.todo = todo]
<1>1. Begin(c, t)
  BY DEF BeginRm
<1> HIDE DEF todo
<1>2. Shaped(t)
  <2>1. Shaped(t1)
    BY IdleFields, PatchShaped
  <2> HIDE DEF t1
  <2>2. Shaped(t2)
    BY <2>1, PatchShaped
  <2> HIDE DEF t2
  <2>3. Shaped(t3)
    BY <2>2, PatchShaped
  <2> HIDE DEF t3
  <2>4. Shaped([t3 EXCEPT !.todo = todo])
    BY <2>3, PatchShaped
  <2> QED BY <2>4 DEF t1, t2, t3
<1>3. /\ t.op = "rm" /\ t.on = v /\ t.put = Tombstone /\ t.step = "none"
      /\ t.visit = {} /\ t.inserted = {} /\ t.garbage = {} /\ t.collected = {}
      /\ t.relies = FALSE
  BY SMT DEF Idle
<1> HIDE DEF t
<1>4. t.op \notin Removals
  BY <1>3 DEF Removals
<1> QED BY <1>1, <1>2, <1>3, <1>4, BeginKeeps

LEMMA BeginHardDeleteKeeps ==
  ASSUME Inv, NEW c \in Clients, NEW v \in VersionIds, BeginHardDelete(c, v) PROVE Inv'
<1> DEFINE t1 == [Idle EXCEPT !.op = "hardDelete"]
           t2 == [t1 EXCEPT !.on = v]
           t3 == [t2 EXCEPT !.ids = {v}]
           t == [Idle EXCEPT !.op = "hardDelete", !.on = v, !.ids = {v}, !.step = "lock"]
<1>1. Begin(c, t)
  BY DEF BeginHardDelete
<1>2. Shaped(t)
  <2>1. Shaped(t1)
    BY IdleFields, PatchShaped
  <2> HIDE DEF t1
  <2>2. Shaped(t2)
    BY <2>1, PatchShaped
  <2> HIDE DEF t2
  <2>3. Shaped(t3)
    BY <2>2, PatchShaped
  <2> HIDE DEF t3
  <2>4. Shaped([t3 EXCEPT !.step = "lock"])
    BY <2>3, PatchShaped
  <2> QED BY <2>4 DEF t1, t2, t3
<1>3. /\ t.op = "hardDelete" /\ t.step = "lock" /\ t.todo = <<>>
      /\ t.visit = {} /\ t.inserted = {} /\ t.garbage = {} /\ t.collected = {}
      /\ t.relies = FALSE
  BY SMT DEF Idle
<1> HIDE DEF t
<1>4. t.op \in Removals
  BY <1>3 DEF Removals
<1> QED BY <1>1, <1>2, <1>3, <1>4, BeginKeeps

LEMMA BeginSweepKeeps ==
  ASSUME Inv, NEW c \in Clients, BeginSweep(c) PROVE Inv'
<1> DEFINE rows == {v \in SweptIds : HasRow(v)}
           t1 == [Idle EXCEPT !.op = "sweep"]
           t2 == [t1 EXCEPT !.ids = rows]
           t == [Idle EXCEPT !.op = "sweep", !.ids = rows, !.step = "lock"]
<1>1. Begin(c, t)
  BY DEF BeginSweep
<1> HIDE DEF rows
<1>2. Shaped(t)
  <2>1. Shaped(t1)
    BY IdleFields, PatchShaped
  <2> HIDE DEF t1
  <2>2. Shaped(t2)
    BY <2>1, PatchShaped
  <2> HIDE DEF t2
  <2>3. Shaped([t2 EXCEPT !.step = "lock"])
    BY <2>2, PatchShaped
  <2> QED BY <2>3 DEF t1, t2
<1>3. /\ t.op = "sweep" /\ t.step = "lock" /\ t.todo = <<>>
      /\ t.visit = {} /\ t.inserted = {} /\ t.garbage = {} /\ t.collected = {}
      /\ t.relies = FALSE
  BY SMT DEF Idle
<1> HIDE DEF t
<1>4. t.op \in Removals
  BY <1>3 DEF Removals
<1> QED BY <1>1, <1>2, <1>3, <1>4, BeginKeeps

\* A transaction that is at a part of its write is one of a write or an rm.
LEMMA AtWrite ==
  ASSUME Inv, NEW c \in Clients, tx[c].todo # <<>>
  PROVE  /\ tx[c].op \in {"write", "rm"} /\ tx[c].op \notin Removals
         /\ tx[c].step = "none" /\ Deletes(c) = {} /\ tx[c].visit = {}
         /\ tx[c].garbage = {} /\ tx[c].collected = {}
<1>1. FieldsOK(c)
  BY DEF Inv
<1>2. tx[c].op \in {"write", "rm"}
  BY <1>1 DEF FieldsOK
<1>3. tx[c].op \notin Removals
  BY <1>2 DEF Removals
<1> QED BY <1>1, <1>2, <1>3 DEF FieldsOK, Deletes

LEMMA WantsBlob ==
  ASSUME Inv, NEW c \in Clients, AtPart(c, "blob")
  PROVE  Wanted(c) = {Lock(c, "blob", tx[c].put, "update")}
<1>1. AtPart(c, "entry") = FALSE /\ AtPart(c, "bump") = FALSE /\ AtPart(c, "blob") = TRUE
  BY DEF AtPart
<1>2. tx[c].step = "none" /\ tx[c].visit = {} /\ tx[c].garbage = {}
  BY AtWrite DEF AtPart
<1> QED BY <1>1, <1>2 DEF Wanted

\* A part that is not the blob's.
LEMMA PartKeeps ==
  ASSUME Inv, NEW c \in Clients, NEW part, part # "blob", AtPart(c, part), Grant(c),
         Done(c, tx[c]), UNCHANGED <<entries, blobs, exposed, plan>>
  PROVE  Inv'
<1> DEFINE t == [tx[c] EXCEPT !.todo = Tail(tx[c].todo)]
<1>1. tx' = [tx EXCEPT ![c] = t]
  BY DEF Done
<1>2. Shaped(tx[c])
  BY DEF Inv, TypeOK
<1>3. Shaped(t)
  BY <1>2, PatchShaped
<1>4. /\ t.op = tx[c].op /\ t.on = tx[c].on /\ t.put = tx[c].put /\ t.step = tx[c].step
      /\ t.visit = tx[c].visit /\ t.inserted = tx[c].inserted /\ t.garbage = tx[c].garbage
      /\ t.collected = tx[c].collected /\ t.relies = tx[c].relies /\ t.exposed = tx[c].exposed
      /\ t.todo = Tail(tx[c].todo)
  BY <1>2, SMT DEF Shaped
<1> HIDE DEF t
<1>5. tx'[c] = t
  BY <1>1 DEF Inv, TypeOK
<1>6. tx[c].todo # <<>> /\ Head(tx[c].todo) # "blob" /\ FieldsOK(c) /\ WriteOK(c)
  BY DEF AtPart, Inv
<1>7. \A k \in locks : k \in locks'
  BY DEF Grant
<1>8. FieldsOK(c)'
  BY <1>4, <1>5, <1>6, AtWrite, TailKeepsBlob DEF FieldsOK, Deletes
<1>9. WriteOK(c)'
  <2>1. \A d \in Clients : Deletes(d)' = Deletes(d)
    BY <1>1, <1>4, <1>5 DEF Deletes, Inv, TypeOK
  <2>2. \A x : BlobLocked(c, x) => BlobLocked(c, x)'
    BY <1>7 DEF BlobLocked
  <2>3. t.op = "write" => \/ \E i \in 1..Len(t.todo) : t.todo[i] = "blob"
                          \/ t.relies \/ t.inserted = {t.put}
    BY <1>4, <1>6, TailKeepsBlob DEF FieldsOK, WriteOK
  <2> QED BY <1>4, <1>5, <1>6, <2>1, <2>2, <2>3 DEF WriteOK
<1>10. RemovalOK(c)'
  BY <1>4, <1>5, <1>6, AtWrite, NothingDeleted
<1>11. t.garbage \cup t.collected \subseteq Deletes(c)
  BY <1>4 DEF Deletes
<1>12. LocksOK'
  BY GrantKeepsLocks DEF Inv
<1> QED BY <1>1, <1>3, <1>7, <1>8, <1>9, <1>10, <1>11, <1>12, QuietStep

\* INSERT ... ON CONFLICT DO NOTHING: a blob that is there stays, or the write is exposed.
LEMMA WriteBlobKeeps ==
  ASSUME Inv, NEW c \in Clients, WriteBlob(c) PROVE Inv'
<1> DEFINE x == tx[c].put
           behind == \E d \in Clients : x \in tx[d].garbage
           t1 == [tx[c] EXCEPT !.relies = TRUE]
           t2 == [t1 EXCEPT !.exposed = behind]
           t3 == [tx[c] EXCEPT !.inserted = {x}]
           rest == Tail(tx[c].todo)
<1>1. /\ tx[c].todo # <<>> /\ Head(tx[c].todo) = "blob" /\ Blockers(c) = {}
      /\ UNCHANGED <<entries, blobs, exposed, plan>>
  BY DEF WriteBlob, AtPart, tables
<1>2. Shaped(tx[c]) /\ FieldsOK(c) /\ WriteOK(c)
  BY DEF Inv, TypeOK
<1>3. Wanted(c) = {Lock(c, "blob", x, "update")}
  <2>1. AtPart(c, "blob")
    BY DEF WriteBlob
  <2> QED BY <2>1, WantsBlob
<1>4. ASSUME NEW t, t = [t2 EXCEPT !.todo = rest] \/ t = [t3 EXCEPT !.todo = rest]
      PROVE  /\ Shaped(t) /\ t.op = tx[c].op /\ t.on = tx[c].on /\ t.put = x
             /\ t.todo = rest /\ t.step = tx[c].step /\ t.visit = tx[c].visit
             /\ t.garbage = tx[c].garbage /\ t.collected = tx[c].collected
  <2>1. Shaped(t1) /\ Shaped(t3)
    BY <1>2, PatchShaped
  <2>2. /\ t1.op = tx[c].op /\ t1.on = tx[c].on /\ t1.put = x /\ t1.step = tx[c].step
        /\ t1.visit = tx[c].visit /\ t1.garbage = tx[c].garbage /\ t1.collected = tx[c].collected
        /\ t3.op = tx[c].op /\ t3.on = tx[c].on /\ t3.put = x /\ t3.step = tx[c].step
        /\ t3.visit = tx[c].visit /\ t3.garbage = tx[c].garbage /\ t3.collected = tx[c].collected
    BY <1>2, SMT DEF Shaped
  <2> HIDE DEF t1, t3, behind, rest, x
  <2>3. /\ Shaped(t2) /\ t2.op = t1.op /\ t2.on = t1.on /\ t2.put = t1.put /\ t2.step = t1.step
        /\ t2.visit = t1.visit /\ t2.garbage = t1.garbage /\ t2.collected = t1.collected
    <3>1. Shaped(t2)
      BY <2>1, PatchShaped
    <3> QED BY <2>1, <3>1, SMT DEF Shaped
  <2> HIDE DEF t2
  <2>4. CASE t = [t2 EXCEPT !.todo = rest]
    <3>1. Shaped(t)
      BY <2>3, <2>4, PatchShaped
    <3>2. /\ t.op = t2.op /\ t.on = t2.on /\ t.put = t2.put /\ t.todo = rest /\ t.step = t2.step
          /\ t.visit = t2.visit /\ t.garbage = t2.garbage /\ t.collected = t2.collected
      BY <2>3, <2>4, SMT DEF Shaped
    <3> QED BY <2>2, <2>3, <3>1, <3>2
  <2>5. CASE t = [t3 EXCEPT !.todo = rest]
    <3>1. Shaped(t)
      BY <2>1, <2>5, PatchShaped
    <3>2. /\ t.op = t3.op /\ t.on = t3.on /\ t.put = t3.put /\ t.todo = rest /\ t.step = t3.step
          /\ t.visit = t3.visit /\ t.garbage = t3.garbage /\ t.collected = t3.collected
      BY <2>1, <2>5, SMT DEF Shaped
    <3> QED BY <2>2, <3>1, <3>2
  <2> QED BY <1>4, <2>4, <2>5
<1>5. ASSUME NEW t, t = [t2 EXCEPT !.todo = rest]
      PROVE  t.relies = TRUE /\ t.exposed = behind /\ t.inserted = tx[c].inserted
  <2>1. Shaped(t1) /\ t1.relies = TRUE /\ t1.inserted = tx[c].inserted
    <3>1. Shaped(t1)
      BY <1>2, PatchShaped
    <3>2. t1.inserted = tx[c].inserted
      BY <1>2, SMT DEF Shaped
    <3>3. t1.relies = TRUE
      BY <1>2, SMT DEF Shaped
    <3> QED BY <3>1, <3>2, <3>3
  <2> HIDE DEF t1, behind, rest, x
  <2>2. Shaped(t2) /\ t2.relies = TRUE /\ t2.exposed = behind /\ t2.inserted = tx[c].inserted
    <3>1. Shaped(t2)
      BY <2>1, PatchShaped
    <3> QED BY <2>1, <3>1, SMT DEF Shaped
  <2> HIDE DEF t2
  <2> QED BY <1>5, <2>2, SMT DEF Shaped
<1>6. ASSUME NEW t, t = [t3 EXCEPT !.todo = rest]
      PROVE  /\ t.relies = tx[c].relies /\ t.exposed = tx[c].exposed /\ t.inserted = {x}
  <2>1. /\ Shaped(t3) /\ t3.relies = tx[c].relies /\ t3.exposed = tx[c].exposed
        /\ t3.inserted = {x}
    BY <1>2, SMT DEF Shaped
  <2> HIDE DEF t3, rest, x
  <2> QED BY <1>6, <2>1, SMT DEF Shaped
<1>7. ASSUME x \in blobs PROVE Inv'
  <2> DEFINE t == [t2 EXCEPT !.todo = rest]
  <2>1. tx' = [tx EXCEPT ![c] = t] /\ UNCHANGED locks
    BY <1>7 DEF WriteBlob, Done
  <2>2. t = [t2 EXCEPT !.todo = rest]
    OBVIOUS
  <2> HIDE DEF t, t1, t2, t3, rest
  <2>3. /\ Shaped(t) /\ t.op = tx[c].op /\ t.on = tx[c].on /\ t.put = x
        /\ t.todo = rest /\ t.step = tx[c].step /\ t.visit = tx[c].visit
        /\ t.garbage = tx[c].garbage /\ t.collected = tx[c].collected
    BY <1>4, <2>2
  <2>4. t.relies = TRUE /\ t.exposed = behind /\ t.inserted = tx[c].inserted
    BY <1>5, <2>2
  <2>5. tx'[c] = t /\ \A d \in Clients : Deletes(d)' = Deletes(d)
    BY <2>1, <2>3 DEF Deletes, Inv, TypeOK
  <2>6. ~behind => \A d \in Clients : x \notin Deletes(d)
    <3> SUFFICES ASSUME ~behind, NEW d \in Clients, x \in Deletes(d) PROVE FALSE
      OBVIOUS
    <3>1. x \in tx[d].collected
      BY DEF Deletes
    <3>2. BlobLocked(d, x)
      BY <3>1 DEF Inv, RemovalOK
    <3>3. d # c
      BY <1>1, <3>1, AtWrite
    <3>4. d \in Blockers(c)
      BY <1>3, <3>2, <3>3 DEF Blockers, HoldersAgainst, BlobLocked, Lock, Conflict
    <3> QED BY <1>1, <3>4
  <2>7. FieldsOK(c)'
    BY <1>1, <1>2, <2>3, <2>4, <2>5, AtWrite, TailKeepsBlob DEF FieldsOK, rest
  <2>8. WriteOK(c)'
    <3>1. \A y : BlobLocked(c, y)' = BlobLocked(c, y)
      BY <2>1 DEF BlobLocked
    <3> QED BY <1>1, <1>2, <1>7, <2>3, <2>4, <2>5, <2>6, <3>1 DEF WriteOK
  <2>9. RemovalOK(c)'
    BY <1>1, <2>3, <2>5, AtWrite, NothingDeleted
  <2>10. LocksOK' /\ t.garbage \cup t.collected \subseteq Deletes(c)
    BY <2>1, <2>3 DEF Inv, LocksOK, Deletes
  <2> QED BY <1>1, <2>1, <2>3, <2>7, <2>8, <2>9, <2>10, QuietStep
<1>8. ASSUME x \notin blobs PROVE Inv'
  <2> DEFINE t == [t3 EXCEPT !.todo = rest]
  <2>1. tx' = [tx EXCEPT ![c] = t] /\ Grant(c)
    BY <1>8 DEF WriteBlob, Done
  <2>2. t = [t3 EXCEPT !.todo = rest]
    OBVIOUS
  <2> HIDE DEF t, t1, t2, t3, rest
  <2>3. /\ Shaped(t) /\ t.op = tx[c].op /\ t.on = tx[c].on /\ t.put = x
        /\ t.todo = rest /\ t.step = tx[c].step /\ t.visit = tx[c].visit
        /\ t.garbage = tx[c].garbage /\ t.collected = tx[c].collected
    BY <1>4, <2>2
  <2>4. t.relies = tx[c].relies /\ t.exposed = tx[c].exposed /\ t.inserted = {x}
    BY <1>6, <2>2
  <2>5. tx'[c] = t /\ \A d \in Clients : Deletes(d)' = Deletes(d)
    BY <2>1, <2>3 DEF Deletes, Inv, TypeOK
  <2>6. BlobLocked(c, x)'
    <3>1. Lock(c, "blob", x, "update") \in locks'
      BY <1>3, <2>1 DEF Grant
    <3>2. \A k \in locks' : k = Lock(c, "blob", x, "update") =>
            k.by = c /\ k.kind = "blob" /\ k.on = x /\ k.mode = "update"
      BY DEF Lock
    <3>3. \E k \in locks' : k.by = c /\ k.kind = "blob" /\ k.on = x /\ k.mode = "update"
      BY <3>1, <3>2
    <3>4. x = tx'[c].put
      BY <2>3, <2>5
    <3> HIDE DEF x
    <3>5. ASSUME NEW y, \E k \in locks' : k.by = c /\ k.kind = "blob" /\ k.on = y /\ k.mode = "update"
          PROVE  BlobLocked(c, y)'
      BY <3>5 DEF BlobLocked
    <3> QED BY <3>3, <3>4, <3>5 DEF x
  <2>7. FieldsOK(c)'
    BY <1>1, <1>2, <2>3, <2>4, <2>5, AtWrite, TailKeepsBlob DEF FieldsOK, rest
  <2>8. WriteOK(c)'
    BY <1>1, <1>2, <1>8, <2>3, <2>4, <2>5, <2>6 DEF WriteOK
  <2>9. RemovalOK(c)'
    BY <1>1, <2>3, <2>5, AtWrite, NothingDeleted
  <2>10. LocksOK' /\ t.garbage \cup t.collected \subseteq Deletes(c)
    BY <2>1, <2>3, GrantKeepsLocks DEF Inv, Deletes
  <2>11. \A k \in locks : k \in locks'
    BY <2>1 DEF Grant
  <2> QED BY <1>1, <2>1, <2>3, <2>7, <2>8, <2>9, <2>10, <2>11, QuietStep
<1> QED BY <1>7, <1>8

LEMMA WriteEntryKeeps == ASSUME Inv, NEW c \in Clients, WriteEntry(c) PROVE Inv'
BY PartKeeps DEF WriteEntry, tables

LEMMA BumpVersionKeeps == ASSUME Inv, NEW c \in Clients, BumpVersion(c) PROVE Inv'
BY PartKeeps DEF BumpVersion, tables

\* A transaction that is somewhere in a removal is one of a removal.
LEMMA AtRemoval ==
  ASSUME Inv, NEW c \in Clients,
         tx[c].step # "none" \/ tx[c].visit # {} \/ tx[c].garbage # {} \/ tx[c].op \in Removals
  PROVE  /\ tx[c].op \in Removals /\ tx[c].todo = <<>> /\ ~tx[c].relies /\ tx[c].inserted = {}
         /\ tx[c].step # "collect" => tx[c].garbage = {} /\ tx[c].collected = {}
         /\ tx[c].step \in {"versionDeleted", "collect"} => tx[c].visit = {}
<1>1. FieldsOK(c)
  BY DEF Inv
<1>2. tx[c].op \in Removals
  BY <1>1 DEF FieldsOK, Deletes
<1>3. tx[c].op \notin {"write", "rm"}
  BY <1>2 DEF Removals
<1> QED BY <1>1, <1>2, <1>3 DEF FieldsOK, Deletes

\* A statement of a removal that finds no further garbage.
LEMMA RemovalStep ==
  ASSUME Inv, NEW c \in Clients, NEW t, tx' = [tx EXCEPT ![c] = t], Shaped(t),
         UNCHANGED <<entries, blobs, exposed, plan>>, LocksOK',
         \A k \in locks : k \in locks',
         tx[c].op \in Removals, t.op = tx[c].op, t.todo = tx[c].todo,
         t.relies = tx[c].relies, t.inserted = tx[c].inserted,
         t.step # "collect" => t.garbage = {} /\ t.collected = {},
         t.step \in {"versionDeleted", "collect"} => t.visit = {},
         t.garbage \cup t.collected \subseteq Deletes(c),
         tx[c].dropped \subseteq t.dropped,
         \A x \in t.collected : BlobLocked(c, x)'
  PROVE  Inv'
<1>1. tx'[c] = t
  BY DEF Inv, TypeOK
<1>2. t.op \notin {"none", "write", "rm"} /\ t.todo = <<>> /\ ~t.relies /\ t.inserted = {}
  BY AtRemoval DEF Removals
<1>3. Deletes(c)' = t.garbage \cup t.collected
  BY <1>1 DEF Deletes
<1>4. FieldsOK(c)'
  BY <1>1, <1>2, <1>3 DEF FieldsOK
<1>5. WriteOK(c)'
  BY <1>1, <1>2 DEF WriteOK
<1>6. RemovalOK(c)'
  BY <1>1, <1>3 DEF RemovalOK, Inv
<1> QED BY <1>4, <1>5, <1>6, QuietStep

LEMMA LockNextKeeps == ASSUME Inv, NEW c \in Clients, LockNext(c) PROVE Inv'
<1>1. tx[c].step = "lock" /\ Grant(c) /\ UNCHANGED <<entries, blobs, exposed, plan, tx>>
  BY DEF LockNext, tables
<1>2. tx' = [tx EXCEPT ![c] = tx[c]] /\ Shaped(tx[c])
  BY <1>1 DEF Inv, TypeOK
<1>3. tx[c].garbage = {} /\ tx[c].collected = {} /\ tx[c].op \in Removals
  BY <1>1, AtRemoval
<1>4. LocksOK' /\ \A k \in locks : k \in locks'
  BY <1>1, GrantKeepsLocks DEF Inv, Grant
<1> QED BY <1>1, <1>2, <1>3, <1>4, RemovalStep

LEMMA DeleteEntriesKeeps == ASSUME Inv, NEW c \in Clients, DeleteEntries(c) PROVE Inv'
<1> DEFINE rows == Doomed(c)
           t1 == [tx[c] EXCEPT !.step = "visit"]
           t == [t1 EXCEPT !.visit = rows]
<1>1. /\ tx[c].step = "lock" /\ UNCHANGED <<entries, blobs, exposed, plan, locks>>
      /\ tx' = [tx EXCEPT ![c].step = "visit", ![c].visit = rows]
  BY DEF DeleteEntries, tables
<1> HIDE DEF rows
<1>2. tx' = [tx EXCEPT ![c] = t]
  BY <1>1 DEF Inv, TypeOK
<1>3. Shaped(t1)
  BY PatchShaped DEF Inv, TypeOK
<1>4. /\ t1.op = tx[c].op /\ t1.todo = tx[c].todo /\ t1.relies = tx[c].relies
      /\ t1.inserted = tx[c].inserted /\ t1.garbage = tx[c].garbage
      /\ t1.collected = tx[c].collected /\ t1.dropped = tx[c].dropped /\ t1.step = "visit"
  <2>1. Shaped(tx[c])
    BY DEF Inv, TypeOK
  <2> QED BY <2>1, SMT DEF Shaped
<1> HIDE DEF t1
<1>5. Shaped(t)
  BY <1>3, PatchShaped
<1>6. /\ t.op = t1.op /\ t.todo = t1.todo /\ t.relies = t1.relies /\ t.inserted = t1.inserted
      /\ t.garbage = t1.garbage /\ t.collected = t1.collected /\ t.dropped = t1.dropped
      /\ t.step = t1.step
  BY <1>3, SMT DEF Shaped
<1> HIDE DEF t
<1>7. tx[c].garbage = {} /\ tx[c].collected = {} /\ tx[c].op \in Removals
  BY <1>1, AtRemoval
<1>8. LocksOK' /\ \A k \in locks : k \in locks'
  BY <1>1 DEF Inv, LocksOK
<1> QED BY <1>1, <1>2, <1>4, <1>5, <1>6, <1>7, <1>8, RemovalStep

LEMMA VisitEntryKeeps == ASSUME Inv, NEW c \in Clients, VisitEntry(c) PROVE Inv'
<1> DEFINE v == Smallest(tx[c].visit)
           more == {v} \cap Doomed(c)
           t1 == [tx[c] EXCEPT !.visit = tx[c].visit \ {v}]
           t == [t1 EXCEPT !.dropped = tx[c].dropped \cup more]
<1>1. /\ tx[c].visit # {} /\ Grant(c) /\ UNCHANGED <<entries, blobs, exposed, plan>>
      /\ tx' = [tx EXCEPT ![c].visit = @ \ {v}, ![c].dropped = @ \cup more]
  BY DEF VisitEntry, tables
<1> HIDE DEF v, more
<1>2. Shaped(tx[c])
  BY DEF Inv, TypeOK
<1>3. Shaped(t1)
  BY <1>2, PatchShaped
<1>4. /\ t1.op = tx[c].op /\ t1.todo = tx[c].todo /\ t1.relies = tx[c].relies
      /\ t1.inserted = tx[c].inserted /\ t1.garbage = tx[c].garbage
      /\ t1.collected = tx[c].collected /\ t1.dropped = tx[c].dropped /\ t1.step = tx[c].step
  BY <1>2, SMT DEF Shaped
<1>5. tx' = [tx EXCEPT ![c] = t]
  <2>1. t1.dropped \cup more = tx[c].dropped \cup more
    BY <1>4
  <2> QED BY <1>1, <2>1 DEF Inv, TypeOK
<1> HIDE DEF t1
<1>6. Shaped(t)
  BY <1>3, PatchShaped
<1>7. /\ t.op = t1.op /\ t.todo = t1.todo /\ t.relies = t1.relies /\ t.inserted = t1.inserted
      /\ t.garbage = t1.garbage /\ t.collected = t1.collected /\ t.step = t1.step
      /\ t.dropped = tx[c].dropped \cup more
  BY <1>3, SMT DEF Shaped
<1> HIDE DEF t
<1>8. /\ tx[c].garbage = {} /\ tx[c].collected = {} /\ tx[c].op \in Removals
      /\ tx[c].step \notin {"versionDeleted", "collect"}
  BY <1>1, AtRemoval
<1>9. LocksOK' /\ \A k \in locks : k \in locks'
  BY <1>1, GrantKeepsLocks DEF Inv, Grant
<1> QED BY <1>1, <1>4, <1>5, <1>6, <1>7, <1>8, <1>9, RemovalStep

LEMMA DeleteVersionKeeps == ASSUME Inv, NEW c \in Clients, DeleteVersion(c) PROVE Inv'
<1> DEFINE t == [tx[c] EXCEPT !.step = "versionDeleted"]
<1>1. /\ tx[c].step = "visit" /\ tx[c].visit = {} /\ Grant(c)
      /\ UNCHANGED <<entries, blobs, exposed, plan>>
      /\ tx' = [tx EXCEPT ![c].step = "versionDeleted"]
  BY DEF DeleteVersion, tables
<1>2. Shaped(tx[c])
  BY DEF Inv, TypeOK
<1>3. tx' = [tx EXCEPT ![c] = t]
  BY <1>1 DEF Inv, TypeOK
<1>4. Shaped(t)
  BY <1>2, PatchShaped
<1>5. /\ t.op = tx[c].op /\ t.todo = tx[c].todo /\ t.relies = tx[c].relies
      /\ t.inserted = tx[c].inserted /\ t.garbage = tx[c].garbage
      /\ t.collected = tx[c].collected /\ t.dropped = tx[c].dropped
      /\ t.visit = tx[c].visit /\ t.step = "versionDeleted"
  BY <1>2, SMT DEF Shaped
<1> HIDE DEF t
<1>6. tx[c].garbage = {} /\ tx[c].collected = {} /\ tx[c].op \in Removals
  BY <1>1, AtRemoval
<1>7. LocksOK' /\ \A k \in locks : k \in locks'
  BY <1>1, GrantKeepsLocks DEF Inv, Grant
<1> QED BY <1>1, <1>3, <1>4, <1>5, <1>6, <1>7, RemovalStep

\* A blob that is visited is locked.
LEMMA CollectBlobKeeps == ASSUME Inv, NEW c \in Clients, CollectBlob(c) PROVE Inv'
<1> DEFINE x == NextBlob(c)
           t1 == [tx[c] EXCEPT !.garbage = tx[c].garbage \ {x}]
           t == [t1 EXCEPT !.collected = tx[c].collected \cup {x}]
<1>1. /\ tx[c].garbage # {} /\ Grant(c) /\ UNCHANGED <<entries, blobs, exposed, plan>>
      /\ tx' = [tx EXCEPT ![c].garbage = @ \ {x}, ![c].collected = @ \cup {x}]
  BY DEF CollectBlob, tables
<1>2. x \in tx[c].garbage
  BY <1>1 DEF NextBlob
<1>3. /\ tx[c].op \in Removals /\ tx[c].todo = <<>> /\ tx[c].step = "collect"
      /\ tx[c].visit = {}
  BY <1>1, AtRemoval
<1>4. Wanted(c) = {Lock(c, "blob", x, "update")}
  <2>1. AtPart(c, "entry") = FALSE /\ AtPart(c, "bump") = FALSE /\ AtPart(c, "blob") = FALSE
    BY <1>3 DEF AtPart
  <2> QED BY <1>1, <1>3, <2>1 DEF Wanted
<1> HIDE DEF x
<1>5. Shaped(tx[c])
  BY DEF Inv, TypeOK
<1>6. Shaped(t1)
  BY <1>5, PatchShaped
<1>7. /\ t1.op = tx[c].op /\ t1.todo = tx[c].todo /\ t1.relies = tx[c].relies
      /\ t1.inserted = tx[c].inserted /\ t1.garbage = tx[c].garbage \ {x}
      /\ t1.collected = tx[c].collected /\ t1.dropped = tx[c].dropped
      /\ t1.step = tx[c].step /\ t1.visit = tx[c].visit
  BY <1>5, SMT DEF Shaped
<1>8. tx' = [tx EXCEPT ![c] = t]
  <2>1. t1.collected \cup {x} = tx[c].collected \cup {x}
    BY <1>7
  <2> QED BY <1>1, <2>1 DEF Inv, TypeOK
<1> HIDE DEF t1
<1>9. Shaped(t)
  BY <1>6, PatchShaped
<1>10. /\ t.op = t1.op /\ t.todo = t1.todo /\ t.relies = t1.relies /\ t.inserted = t1.inserted
       /\ t.garbage = t1.garbage /\ t.dropped = t1.dropped /\ t.step = t1.step
       /\ t.visit = t1.visit /\ t.collected = tx[c].collected \cup {x}
  BY <1>6, SMT DEF Shaped
<1> HIDE DEF t
<1>11. LocksOK' /\ \A k \in locks : k \in locks'
  BY <1>1, GrantKeepsLocks DEF Inv, Grant
<1>12. t.garbage \cup t.collected \subseteq Deletes(c)
  BY <1>2, <1>7, <1>10 DEF Deletes
<1>13. ASSUME NEW y \in t.collected PROVE BlobLocked(c, y)'
  <2>1. CASE y = x
    <3>1. Lock(c, "blob", y, "update") \in locks'
      BY <1>1, <1>4, <2>1 DEF Grant
    <3> QED BY <3>1 DEF BlobLocked, Lock
  <2>2. CASE y \in tx[c].collected
    BY <1>11, <2>2 DEF BlobLocked, Inv, RemovalOK
  <2> QED BY <1>10, <2>1, <2>2
<1> QED BY <1>1, <1>3, <1>7, <1>8, <1>9, <1>10, <1>11, <1>12, <1>13, RemovalStep

\* The snapshot of a collection exposes the writes that rely on what it found.
LEMMA SnapshotGarbageKeeps == ASSUME Inv, NEW c \in Clients, SnapshotGarbage(c) PROVE Inv'
<1> DEFINE found == Garbage(c)
           hit(d) == tx[d].relies /\ tx[d].put \in found
           t1 == [tx[c] EXCEPT !.step = "collect"]
           t == [t1 EXCEPT !.garbage = found]
<1>1. /\ \/ tx[c].op = "sweep" /\ tx[c].step = "visit" /\ tx[c].visit = {}
         \/ tx[c].step = "versionDeleted"
      /\ UNCHANGED <<entries, blobs, exposed, plan, locks>>
      /\ tx' = [d \in Clients |-> IF d = c THEN t
                                  ELSE IF hit(d) THEN [tx[d] EXCEPT !.exposed = TRUE] ELSE tx[d]]
  BY DEF SnapshotGarbage, tables
<1>2. found \subseteq blobs /\ \A v \in VersionIds \ tx[c].dropped : entries[v] \notin found
  BY DEF Garbage, Candidates, Referenced
<1> HIDE DEF found
<1>3. /\ tx[c].op \in Removals /\ tx[c].todo = <<>> /\ ~tx[c].relies /\ tx[c].inserted = {}
      /\ tx[c].collected = {} /\ tx[c].visit = {} /\ Deletes(c) = {}
  BY <1>1, AtRemoval DEF Deletes
<1>4. \A d \in Clients : Shaped(tx[d])
  BY DEF Inv, TypeOK
<1>5. Shaped(t1)
  BY <1>4, PatchShaped
<1>6. /\ t1.op = tx[c].op /\ t1.todo = tx[c].todo /\ t1.relies = tx[c].relies
      /\ t1.inserted = tx[c].inserted /\ t1.collected = tx[c].collected
      /\ t1.dropped = tx[c].dropped /\ t1.visit = tx[c].visit /\ t1.step = "collect"
  BY <1>4, SMT DEF Shaped
<1> HIDE DEF t1
<1>7. Shaped(t)
  BY <1>5, PatchShaped
<1>8. /\ t.op = t1.op /\ t.todo = t1.todo /\ t.relies = t1.relies /\ t.inserted = t1.inserted
      /\ t.collected = t1.collected /\ t.dropped = t1.dropped /\ t.visit = t1.visit
      /\ t.step = t1.step /\ t.garbage = found
  BY <1>5, SMT DEF Shaped
<1> HIDE DEF t
<1>9. tx'[c] = t /\ Deletes(c)' = found
  BY <1>1, <1>3, <1>6, <1>8 DEF Deletes
<1>10. ASSUME NEW d \in Clients \ {c}
       PROVE  /\ Shaped(tx'[d]) /\ tx'[d].op = tx[d].op /\ tx'[d].on = tx[d].on
              /\ tx'[d].put = tx[d].put /\ tx'[d].todo = tx[d].todo /\ tx'[d].step = tx[d].step
              /\ tx'[d].visit = tx[d].visit /\ tx'[d].dropped = tx[d].dropped
              /\ tx'[d].inserted = tx[d].inserted /\ tx'[d].garbage = tx[d].garbage
              /\ tx'[d].collected = tx[d].collected /\ tx'[d].relies = tx[d].relies
              /\ hit(d) => tx'[d].exposed = TRUE
              /\ ~hit(d) => tx'[d].exposed = tx[d].exposed
  <2> DEFINE e == [tx[d] EXCEPT !.exposed = TRUE]
  <2>1. Shaped(tx[d])
    BY <1>4
  <2>2. tx'[d] = IF hit(d) THEN e ELSE tx[d]
    BY <1>1
  <2>3. Shaped(e)
    BY <2>1, PatchShaped
  <2>4. /\ e.op = tx[d].op /\ e.on = tx[d].on /\ e.put = tx[d].put /\ e.todo = tx[d].todo
        /\ e.step = tx[d].step /\ e.visit = tx[d].visit /\ e.dropped = tx[d].dropped
        /\ e.inserted = tx[d].inserted /\ e.garbage = tx[d].garbage
        /\ e.collected = tx[d].collected /\ e.relies = tx[d].relies
    BY <2>1, SMT DEF Shaped
  <2>5. e.exposed = TRUE
    BY <2>1, SMT DEF Shaped
  <2> HIDE DEF e, hit
  <2> QED BY <2>1, <2>2, <2>3, <2>4, <2>5
<1>11. TypeOK'
  <2>1. tx' = [d \in Clients |-> tx'[d]]
    BY <1>1
  <2>2. \A d \in Clients : Shaped(tx'[d])
    BY <1>7, <1>9, <1>10
  <2> QED BY <1>1, <2>1, <2>2 DEF Inv, TypeOK
<1>12. \A d \in Clients \ {c} : Deletes(d)' = Deletes(d)
  BY <1>10 DEF Deletes
<1>13. FieldsOK(c)' /\ WriteOK(c)' /\ RemovalOK(c)'
  <2>1. t.op \notin {"none", "write", "rm"}
    BY <1>3, <1>6, <1>8 DEF Removals
  <2>2. FieldsOK(c)'
    BY <1>3, <1>6, <1>8, <1>9, <2>1 DEF FieldsOK
  <2>3. WriteOK(c)'
    BY <1>3, <1>6, <1>8, <1>9, <2>1 DEF WriteOK
  <2>4. RemovalOK(c)'
    BY <1>1, <1>2, <1>3, <1>6, <1>8, <1>9 DEF RemovalOK
  <2> QED BY <2>2, <2>3, <2>4
<1>14. ASSUME NEW d \in Clients \ {c} PROVE FieldsOK(d)' /\ WriteOK(d)' /\ RemovalOK(d)'
  <2>1. FieldsOK(d) /\ WriteOK(d) /\ RemovalOK(d)
    BY DEF Inv
  <2>2. \A x : BlobLocked(d, x)' = BlobLocked(d, x)
    BY <1>1 DEF BlobLocked
  <2>3. FieldsOK(d)'
    BY <1>10, <1>12, <2>1 DEF FieldsOK
  <2>4. WriteOK(d)'
    <3>1. tx'[d].relies /\ ~tx'[d].exposed => ~hit(d) /\ tx[d].relies /\ ~tx[d].exposed
      BY <1>10
    <3> QED BY <1>1, <1>9, <1>10, <1>12, <2>1, <2>2, <3>1 DEF WriteOK
  <2>5. RemovalOK(d)'
    BY <1>1, <1>10, <1>12, <2>1, <2>2 DEF RemovalOK
  <2> QED BY <2>3, <2>4, <2>5
<1>15. LocksOK' /\ OnlyExposedLoseBlobs'
  BY <1>1 DEF Inv, LocksOK, OnlyExposedLoseBlobs
<1> QED BY <1>11, <1>13, <1>14, <1>15 DEF Inv

\* What holds of a client that has just committed.
LEMMA CommittedOK ==
  ASSUME NEW c \in Clients, tx'[c] = Idle
  PROVE  FieldsOK(c)' /\ WriteOK(c)' /\ RemovalOK(c)' /\ Deletes(c)' = {}
<1>1. FieldsOK(c)' /\ WriteOK(c)' /\ Deletes(c)' = {}
  BY IdleFields DEF FieldsOK, WriteOK, Deletes, Removals
<1> QED BY <1>1, IdleFields, NothingDeleted

\* Blobs that two collections visit are different ones.
LEMMA RemovalCommitKeeps == ASSUME Inv, NEW c \in Clients, RemovalCommit(c) PROVE Inv'
<1> DEFINE C == tx[c].collected
           left(d) == [tx[d] EXCEPT !.garbage = tx[d].garbage \ C]
<1>1. /\ tx[c].step = "collect" /\ tx[c].garbage = {} /\ Release(c)
      /\ entries' = [v \in VersionIds |-> IF v \in tx[c].dropped THEN NoEntry ELSE entries[v]]
      /\ blobs' = blobs \ C /\ UNCHANGED <<plan, exposed>>
      /\ tx' = [d \in Clients |-> IF d = c THEN Idle ELSE left(d)]
  BY DEF RemovalCommit
<1>2. Deletes(c) = C /\ RemovalOK(c) /\ tx'[c] = Idle
  BY <1>1 DEF Inv, Deletes
<1>3. FieldsOK(c)' /\ WriteOK(c)' /\ RemovalOK(c)' /\ Deletes(c)' = {}
  BY <1>2, CommittedOK
<1> HIDE DEF C
<1>4. ASSUME NEW d \in Clients \ {c}
      PROVE  /\ Shaped(tx'[d]) /\ tx'[d].op = tx[d].op /\ tx'[d].on = tx[d].on
             /\ tx'[d].put = tx[d].put /\ tx'[d].todo = tx[d].todo /\ tx'[d].step = tx[d].step
             /\ tx'[d].visit = tx[d].visit /\ tx'[d].dropped = tx[d].dropped
             /\ tx'[d].inserted = tx[d].inserted /\ tx'[d].garbage = tx[d].garbage \ C
             /\ tx'[d].collected = tx[d].collected /\ tx'[d].relies = tx[d].relies
             /\ tx'[d].exposed = tx[d].exposed
  <2>1. Shaped(tx[d]) /\ tx'[d] = left(d)
    BY <1>1 DEF Inv, TypeOK
  <2>2. Shaped(left(d))
    BY <2>1, PatchShaped
  <2>3. /\ left(d).op = tx[d].op /\ left(d).on = tx[d].on /\ left(d).put = tx[d].put
        /\ left(d).todo = tx[d].todo /\ left(d).step = tx[d].step /\ left(d).visit = tx[d].visit
        /\ left(d).dropped = tx[d].dropped /\ left(d).inserted = tx[d].inserted
        /\ left(d).garbage = tx[d].garbage \ C /\ left(d).collected = tx[d].collected
        /\ left(d).relies = tx[d].relies /\ left(d).exposed = tx[d].exposed
    BY <2>1, SMT DEF Shaped
  <2> HIDE DEF left
  <2> QED BY <2>1, <2>2, <2>3
<1>5. TypeOK'
  <2>1. tx' = [d \in Clients |-> tx'[d]]
    BY <1>1
  <2>2. \A d \in Clients : Shaped(tx'[d])
    BY <1>2, <1>4, IdleFields
  <2>3. entries' \in [VersionIds -> Rows]
    BY <1>1 DEF Inv, TypeOK, Rows
  <2> QED BY <1>1, <2>1, <2>2, <2>3 DEF Inv, TypeOK
<1>6. \A d \in Clients \ {c} : Deletes(d)' \subseteq Deletes(d) \ C
  <2> SUFFICES ASSUME NEW d \in Clients \ {c}, NEW x \in Deletes(d)'
               PROVE  x \in Deletes(d) /\ x \notin C
    OBVIOUS
  <2>1. x \in tx[d].garbage \ C \/ x \in tx[d].collected
    BY <1>4 DEF Deletes
  <2>2. ASSUME x \in tx[d].collected, x \in C PROVE FALSE
    <3>1. BlobLocked(d, x) /\ BlobLocked(c, x)
      BY <2>2 DEF Inv, RemovalOK, C
    <3> QED BY <3>1, BlobLocksExclude DEF Inv
  <2> QED BY <2>1, <2>2 DEF Deletes
<1>7. \A d \in Clients : Deletes(d)' \subseteq Deletes(d)
  BY <1>3, <1>6
<1>8. \A v \in VersionIds : entries'[v] \in Contents => v \notin tx[c].dropped /\ entries'[v] = entries[v]
  BY <1>1, SentinelAssumption
<1>9. ASSUME NEW d \in Clients \ {c} PROVE FieldsOK(d)' /\ WriteOK(d)' /\ RemovalOK(d)'
  <2>1. FieldsOK(d) /\ WriteOK(d) /\ RemovalOK(d)
    BY DEF Inv
  <2>2. \A x : BlobLocked(d, x) => BlobLocked(d, x)'
    BY <1>1 DEF BlobLocked, Release
  <2>3. FieldsOK(d)'
    BY <1>4, <1>7, <2>1 DEF FieldsOK
  <2>4. WriteOK(d)'
    <3>1. \A x \in tx'[d].inserted : x \notin blobs' /\ BlobLocked(d, x)'
      BY <1>1, <1>4, <2>1, <2>2 DEF WriteOK
    <3>2. tx'[d].relies /\ ~tx'[d].exposed =>
            tx[d].put \in blobs' /\ \A e \in Clients : tx[d].put \notin Deletes(e)'
      BY <1>1, <1>2, <1>4, <1>7, <2>1 DEF WriteOK
    <3>3. tx'[d].op = "write" => \/ \E i \in 1..Len(tx'[d].todo) : tx'[d].todo[i] = "blob"
                                 \/ tx'[d].relies \/ tx'[d].inserted = {tx'[d].put}
      BY <1>4, <2>1 DEF WriteOK
    <3> QED BY <1>4, <3>1, <3>2, <3>3 DEF WriteOK
  <2>5. RemovalOK(d)'
    BY <1>1, <1>4, <1>6, <1>8, <2>1, <2>2 DEF RemovalOK
  <2> QED BY <2>3, <2>4, <2>5
<1>10. OnlyExposedLoseBlobs'
  BY <1>1, <1>2, <1>8 DEF Inv, OnlyExposedLoseBlobs, RemovalOK
<1>11. LocksOK'
  BY <1>1, ReleaseKeepsLocks DEF Inv
<1> QED BY <1>3, <1>5, <1>9, <1>10, <1>11 DEF Inv

\* A write commits a blob that nobody deletes, or an exposed entry.
LEMMA WriteCommitKeeps == ASSUME Inv, NEW c \in Clients, WriteCommit(c) PROVE Inv'
<1> DEFINE o == tx[c].on
           p == tx[c].put
           I == tx[c].inserted
<1>1. /\ tx[c].op \in {"write", "rm"} /\ tx[c].todo = <<>> /\ Release(c)
      /\ entries' = [entries EXCEPT ![o] = p] /\ blobs' = blobs \cup I /\ UNCHANGED plan
      /\ exposed' = IF tx[c].exposed THEN exposed \cup {o} ELSE exposed \ {o}
      /\ tx' = [tx EXCEPT ![c] = Idle]
  BY DEF WriteCommit
<1>2. FieldsOK(c) /\ WriteOK(c)
  BY DEF Inv
<1>3. o \in VersionIds /\ p \in Rows /\ (p \in Contents => tx[c].op = "write")
  BY <1>1, <1>2, SentinelAssumption DEF FieldsOK, Rows
<1>4. p \in Contents /\ ~tx[c].exposed => p \in blobs' /\ \A d \in Clients : p \notin Deletes(d)
  <2> SUFFICES ASSUME p \in Contents, ~tx[c].exposed
               PROVE  p \in blobs' /\ \A d \in Clients : p \notin Deletes(d)
    OBVIOUS
  <2>1. tx[c].relies \/ I = {p}
    <3>1. ~\E i \in 1..Len(tx[c].todo) : tx[c].todo[i] = "blob"
      BY <1>1
    <3> QED BY <1>2, <1>3, <3>1 DEF WriteOK
  <2>2. CASE tx[c].relies
    BY <1>1, <1>2, <2>2 DEF WriteOK
  <2>3. CASE I = {p}
    <3>1. p \notin blobs
      BY <1>2, <2>3 DEF WriteOK
    <3>2. \A d \in Clients : Deletes(d) \subseteq blobs
      BY DEF Inv, RemovalOK
    <3> QED BY <1>1, <2>3, <3>1, <3>2
  <2> QED BY <2>1, <2>2, <2>3
<1>5. tx'[c] = Idle /\ \A d \in Clients \ {c} : tx'[d] = tx[d]
  BY <1>1 DEF Inv, TypeOK
<1>6. FieldsOK(c)' /\ WriteOK(c)' /\ RemovalOK(c)' /\ Deletes(c)' = {}
  BY <1>5, CommittedOK
<1>7. /\ \A d \in Clients \ {c} : Deletes(d)' = Deletes(d)
      /\ \A d \in Clients : Deletes(d)' \subseteq Deletes(d)
  BY <1>5, <1>6 DEF Deletes
<1>8. \A x \in I : BlobLocked(c, x)
  BY <1>2 DEF WriteOK
<1> HIDE DEF o, p, I
<1>9. TypeOK'
  <2>1. tx' = [d \in Clients |-> tx'[d]]
    BY <1>1 DEF Inv, TypeOK
  <2>2. \A d \in Clients : Shaped(tx'[d])
    BY <1>5, IdleFields DEF Inv, TypeOK
  <2>3. entries' \in [VersionIds -> Rows]
    BY <1>1, <1>3 DEF Inv, TypeOK
  <2> QED BY <1>1, <2>1, <2>2, <2>3 DEF Inv, TypeOK
<1>10. \A v \in VersionIds : /\ v = o => entries'[v] = p
                             /\ v # o => entries'[v] = entries[v] /\ (v \in exposed => v \in exposed')
  BY <1>1, <1>3 DEF Inv, TypeOK
<1>11. tx[c].exposed => o \in exposed'
  BY <1>1
<1>12. ASSUME NEW d \in Clients \ {c} PROVE FieldsOK(d)' /\ WriteOK(d)' /\ RemovalOK(d)'
  <2>1. FieldsOK(d) /\ WriteOK(d) /\ RemovalOK(d) /\ tx'[d] = tx[d]
    BY <1>5 DEF Inv
  <2>2. \A x : BlobLocked(d, x) => BlobLocked(d, x)'
    BY <1>1 DEF BlobLocked, Release
  <2>3. FieldsOK(d)'
    BY <1>7, <2>1 DEF FieldsOK
  <2>4. WriteOK(d)'
    <3>1. \A x \in tx[d].inserted : x \notin I
      BY <1>8, <2>1, BlobLocksExclude DEF Inv, WriteOK
    <3> QED BY <1>1, <1>7, <2>1, <2>2, <3>1 DEF WriteOK
  <2>5. RemovalOK(d)'
    <3>1. Deletes(d)' \subseteq blobs' /\ \A x \in tx'[d].collected : BlobLocked(d, x)'
      BY <1>1, <1>7, <2>1, <2>2 DEF RemovalOK
    <3>2. ASSUME NEW v \in VersionIds \ tx[d].dropped, entries'[v] \in Contents, entries'[v] \in Deletes(d)
          PROVE  v \in exposed'
      <4>1. CASE v = o
        BY <1>4, <1>10, <1>11, <3>2, <4>1
      <4>2. CASE v # o
        BY <1>10, <2>1, <3>2, <4>2 DEF RemovalOK
      <4> QED BY <4>1, <4>2
    <3> QED BY <1>7, <2>1, <3>1, <3>2 DEF RemovalOK
  <2> QED BY <2>3, <2>4, <2>5
<1>13. OnlyExposedLoseBlobs'
  <2> SUFFICES ASSUME NEW v \in VersionIds, entries'[v] \in Contents \ blobs' PROVE v \in exposed'
    BY DEF OnlyExposedLoseBlobs
  <2>1. CASE v = o
    BY <1>4, <1>10, <1>11, <2>1
  <2>2. CASE v # o
    BY <1>1, <1>10, <2>2 DEF Inv, OnlyExposedLoseBlobs
  <2> QED BY <2>1, <2>2
<1>14. LocksOK'
  BY <1>1, ReleaseKeepsLocks DEF Inv
<1> QED BY <1>6, <1>9, <1>12, <1>13, <1>14 DEF Inv

-----------------------------------------------------------------------------
(* The invariant.                                                          *)

LEMMA InitInv == Init => Inv
<1> SUFFICES ASSUME Init PROVE Inv
  OBVIOUS
<1>1. \A c \in Clients : tx[c] = Idle
  BY DEF Init
<1>2. TypeOK
  <2>1. plan \in Seq(WriteParts) /\ \E i \in 1..Len(plan) : plan[i] = "blob"
    BY PlansHaveBlob DEF Init
  <2>2. tx = [c \in Clients |-> tx[c]] /\ \A c \in Clients : Shaped(tx[c])
    BY <1>1, IdleFields DEF Init
  <2>3. entries \in [VersionIds -> Rows]
    BY DEF Init, Rows
  <2> QED BY <2>1, <2>2, <2>3 DEF TypeOK
<1>3. LocksOK
  BY DEF Init, LocksOK
<1>4. ASSUME NEW c \in Clients PROVE FieldsOK(c) /\ WriteOK(c) /\ RemovalOK(c)
  BY <1>1, IdleFields DEF FieldsOK, WriteOK, RemovalOK, Deletes, Removals
<1>5. OnlyExposedLoseBlobs
  BY DEF Init, OnlyExposedLoseBlobs
<1> QED BY <1>2, <1>3, <1>4, <1>5 DEF Inv

LEMMA NextInv == Inv /\ [Next]_vars => Inv'
<1> SUFFICES ASSUME Inv, [Next]_vars PROVE Inv'
  OBVIOUS
<1>1. ASSUME UNCHANGED vars PROVE Inv'
  BY <1>1 DEF vars, Inv, TypeOK, Rows, LocksOK, FieldsOK, WriteOK, RemovalOK, Deletes, BlobLocked,
              OnlyExposedLoseBlobs
<1>2. ASSUME NEW c \in Clients, Start(c) PROVE Inv'
  BY <1>2, BeginSweepKeeps, BeginRmKeeps, BeginHardDeleteKeeps, BeginWriteKeeps DEF Start
<1>3. ASSUME NEW c \in Clients, Step(c) PROVE Inv'
  BY <1>3, WriteBlobKeeps, WriteEntryKeeps, BumpVersionKeeps, WriteCommitKeeps, LockNextKeeps,
     DeleteEntriesKeeps, VisitEntryKeeps, DeleteVersionKeeps, SnapshotGarbageKeeps,
     CollectBlobKeeps, RemovalCommitKeeps DEF Step
<1>4. ASSUME NEW c \in Clients, BreakDeadlock(c) PROVE Inv'
  BY <1>4, AbortKeeps DEF BreakDeadlock
<1> QED BY <1>1, <1>2, <1>3, <1>4 DEF Next

\* OnlyExposedLoseBlobs: however writes, deletions and sweeps interleave, statement by
\* statement, an entry whose blob is gone is one of a write that found the blob there and
\* committed after a collection had found it unreferenced.
THEOREM LossesAreExposed == Spec => []OnlyExposedLoseBlobs
<1>1. Inv => OnlyExposedLoseBlobs
  BY DEF Inv
<1> QED BY <1>1, InitInv, NextInv, PTL DEF Spec
=============================================================================
