---------------------------- MODULE HandleProofs ----------------------------
(***************************************************************************)
(* Proofs about Handles, for any instances, labels and bounds: no step of  *)
(* its own takes an instance out of step with its version, and init()      *)
(* reaches one. They rest on what the version rows may become (Evolves)    *)
(* and on cached ids having been handed out.                               *)
(*                                                                         *)
(* Then about Connections, on which the transactions of instances run:     *)
(* TransactionsHold is an invariant, for any tasks, connections,           *)
(* workspaces and bounds. It is not inductive: what a COMMIT adds to the   *)
(* table depends on what the connection has gathered since BEGIN, hence    *)
(* ConnInv relates every task to the connection that it holds.             *)
(***************************************************************************)
EXTENDS Handles, Connections, TLAPS, WellFoundedInduction

AnyLabel == Labels \cup {DefaultLabel, None} \cup {PrevLabel(id) : id \in Ids}
Row == [root : {"/", "sub"}, state : {"free", "burned", "live", "deleted"},
        label : AnyLabel, owned : BOOLEAN]
Handle == [label : AnyLabel, cached : Ids \cup {None}]
Transaction == [of : Instances, rows : [Ids -> Row], facade : Handle,
                scoped : Handle \cup {None}, hooks : Seq(AnyLabel)]

TypeOK ==
  /\ db \in [Ids -> Row]
  /\ handle \in [Instances -> Handle]
  /\ tx # None => tx \in Transaction

\* What becomes of a version: an id is handed out, to a version or to none, and
\* a live version is deleted; nothing comes back.
Evolves(rows, new) ==
  \A id \in Ids :
    \/ new[id].state = rows[id].state
    \/ rows[id].state = "free" /\ new[id].state \in {"burned", "live"}
    \/ rows[id].state = "live" /\ new[id].state = "deleted"

Inv ==
  /\ TypeOK
  /\ \A i \in Instances : handle[i].cached # None => db[handle[i].cached].state # "free"
  /\ tx # None => /\ Evolves(db, tx.rows)
                  /\ \A id \in Ids : db[id].state = "free" => tx.rows[id].state = "free"

-----------------------------------------------------------------------------
\* A set of numbers that is not empty has a least one.
LEMMA LeastId ==
  ASSUME NEW S, S \subseteq Nat, S # {}
  PROVE  \E n \in S : \A m \in S : n <= m
<1> DEFINE R == {p \in Nat \X Nat : p[1] < p[2]}
<1>1. IsWellFoundedOn(R, Nat)
  BY NatLessThanWellFounded DEF OpToRel
<1>2. \E n \in S : \A m \in S : ~(<<m, n>> \in R)
  <2> HIDE DEF R
  <2> QED BY <1>1, WFMin
<1>3. \A n, m \in S : ~(<<m, n>> \in R) => n <= m
  OBVIOUS
<1> QED BY <1>2, <1>3

\* NextId is an id that was not handed out, as long as there is one.
LEMMA NextIdFree ==
  ASSUME NEW rows, FreeIds(rows) # {}
  PROVE  NextId(rows) \in Ids /\ rows[NextId(rows)].state = "free"
<1>1. FreeIds(rows) \subseteq Ids /\ Ids \subseteq Nat
  BY BoundAssumption DEF FreeIds, Ids
<1>2. \E id \in FreeIds(rows) : \A n \in FreeIds(rows) : id <= n
  BY <1>1, LeastId
<1>3. NextId(rows) \in FreeIds(rows)
  BY <1>2 DEF NextId
<1> QED BY <1>3 DEF FreeIds

\* What Lookup finds is a live version with the label.
LEMMA LookupFinds ==
  ASSUME NEW rows, NEW root, NEW label, Lookup(rows, root, label) # None
  PROVE  /\ Lookup(rows, root, label) \in Ids
         /\ rows[Lookup(rows, root, label)].state = "live"
         /\ rows[Lookup(rows, root, label)].root = root
         /\ rows[Lookup(rows, root, label)].label = label
  BY DEF Lookup

\* An id that an instance has or resolves is one.
LEMMA ResolvedIsId ==
  ASSUME NEW rows, NEW root, NEW h \in Handle, Resolved(rows, root, h) # None
  PROVE  /\ Resolved(rows, root, h) \in Ids
         /\ h.cached = None => /\ rows[Resolved(rows, root, h)].state = "live"
                               /\ rows[Resolved(rows, root, h)].label = h.label
         /\ h.cached # None => Resolved(rows, root, h) = h.cached
  BY LookupFinds DEF Resolved, Handle

\* A rename leaves every version as live as it was, and its own with the label.
LEMMA RenamedRows ==
  ASSUME NEW rows \in [Ids -> Row], NEW root, NEW h \in Handle,
         NEW label \in AnyLabel, Resolved(rows, root, h) # None
  PROVE  /\ Renamed(rows, root, h, label) \in [Ids -> Row]
         /\ \A id \in Ids : Renamed(rows, root, h, label)[id].state = rows[id].state
         /\ LET id == Resolved(rows, root, h)
            IN rows[id].state # "burned" => Renamed(rows, root, h, label)[id].label = label
<1> DEFINE id == Resolved(rows, root, h)
           holder == Lookup(rows, root, label)
           displaced == IF holder \in {None, id} THEN rows
                        ELSE [rows EXCEPT ![holder].label = PrevLabel(holder)]
<1>1. id \in Ids
  BY ResolvedIsId
<1>2. displaced \in [Ids -> Row] /\ \A j \in Ids : displaced[j].state = rows[j].state
  <2>1. CASE holder \in {None, id}
    BY <2>1
  <2>2. CASE holder \notin {None, id}
    <3>1. holder \in Ids /\ PrevLabel(holder) \in AnyLabel
      BY <2>2, LookupFinds DEF AnyLabel
    <3>2. [rows[holder] EXCEPT !.label = PrevLabel(holder)] \in Row
          /\ [rows[holder] EXCEPT !.label = PrevLabel(holder)].state = rows[holder].state
      BY <3>1 DEF Row
    <3>3. displaced = [rows EXCEPT ![holder] = [rows[holder] EXCEPT !.label = PrevLabel(holder)]]
      BY <2>2
    <3> QED BY <3>1, <3>2, <3>3
  <2> QED BY <2>1, <2>2
<1>3. CASE holder = id
  BY <1>1, <1>3, LookupFinds, NoneAssumption DEF Renamed
<1>4. CASE holder # id /\ rows[id].state = "burned"
  BY <1>1, <1>2, <1>4 DEF Renamed
<1>5. CASE holder # id /\ rows[id].state # "burned"
  <2>1. [displaced[id] EXCEPT !.label = label] \in Row
        /\ [displaced[id] EXCEPT !.label = label].state = displaced[id].state
        /\ [displaced[id] EXCEPT !.label = label].label = label
    BY <1>1, <1>2 DEF Row
  <2>2. Renamed(rows, root, h, label)
          = [displaced EXCEPT ![id] = [displaced[id] EXCEPT !.label = label]]
    BY <1>5 DEF Renamed
  <2> HIDE DEF displaced
  <2> QED BY <1>1, <1>2, <2>1, <2>2
<1> QED BY <1>3, <1>4, <1>5

\* A deletion changes the state of one live version.
LEMMA DeletedRows ==
  ASSUME NEW rows \in [Ids -> Row], NEW id \in Ids
  PROVE  /\ Deleted(rows, id) \in [Ids -> Row]
         /\ Evolves(rows, Deleted(rows, id))
         /\ \A j \in Ids : /\ Deleted(rows, id)[j].label = rows[j].label
                           /\ j # id => Deleted(rows, id)[j] = rows[j]
                           /\ Deleted(rows, id)[j].state = "free" <=> rows[j].state = "free"
<1>1. [rows[id] EXCEPT !.state = "deleted"] \in Row
      /\ [rows[id] EXCEPT !.state = "deleted"].label = rows[id].label
      /\ [rows[id] EXCEPT !.state = "deleted"].state = "deleted"
  BY DEF Row
<1>2. Deleted(rows, id) = rows
      \/ (rows[id].state = "live"
          /\ Deleted(rows, id) = [rows EXCEPT ![id] = [rows[id] EXCEPT !.state = "deleted"]])
  BY DEF Deleted
<1> QED BY <1>1, <1>2 DEF Evolves

-----------------------------------------------------------------------------
\* A call on instance i that ends with it in step, if it was, keeps the
\* invariant and takes no other instance out of step but by a new label.
Keeps(i) ==
  /\ Inv'
  /\ \A j \in Instances \ {i} : handle'[j] = handle[j]
  /\ \A j \in Instances \ {i} : InSync(j) /\ ~InSync(j)' =>
       db'[handle[j].cached].label # db[handle[j].cached].label

LEMMA CallKeeps ==
  ASSUME Inv, NEW i \in Instances,
         (db' = db /\ tx' = tx) \/ Write(db'),
         db' \in [Ids -> Row], Evolves(db, db'),
         handle'[i] \in Handle, handle' = [handle EXCEPT ![i] = handle'[i]],
         handle'[i].cached # None => db'[handle'[i].cached].state # "free"
  PROVE  Keeps(i)
<1>1. \A j \in Instances \ {i} : handle'[j] = handle[j] /\ handle[j] \in Handle
  BY DEF Inv, TypeOK
<1>2. \A j \in Instances \ {i} : handle[j].cached # None =>
        handle[j].cached \in Ids /\ db[handle[j].cached].state # "free"
  BY <1>1 DEF Inv, Handle
<1>3. TypeOK' /\ (tx' # None => db' = tx'.rows \/ (db' = db /\ tx' = tx))
  <2>1. CASE db' = db /\ tx' = tx
    BY <2>1 DEF Inv, TypeOK
  <2>2. CASE Write(db')
    <3>1. CASE tx = None
      BY <2>2, <3>1 DEF Write, Inv, TypeOK
    <3>2. CASE tx # None
      <4>1. tx' = [tx EXCEPT !.rows = db'] /\ tx \in Transaction
        BY <2>2, <3>2 DEF Write, Inv, TypeOK
      <4>2. tx' \in Transaction /\ tx'.rows = db'
        BY <4>1 DEF Transaction
      <4> QED BY <4>2 DEF Inv, TypeOK
    <3> QED BY <3>1, <3>2
  <2> QED BY <2>1, <2>2
<1>4. \A j \in Instances : handle'[j].cached # None => db'[handle'[j].cached].state # "free"
  BY <1>1, <1>2 DEF Evolves
<1>5. tx' # None => /\ Evolves(db', tx'.rows)
                    /\ \A id \in Ids : db'[id].state = "free" => tx'.rows[id].state = "free"
  <2>1. CASE db' = db /\ tx' = tx
    BY <2>1 DEF Inv
  <2>2. CASE tx' # None /\ db' = tx'.rows
    BY <2>2 DEF Evolves
  <2> QED BY <1>3, <2>1, <2>2
<1>6. ASSUME NEW j \in Instances \ {i}, InSync(j), ~InSync(j)'
      PROVE  db'[handle[j].cached].label # db[handle[j].cached].label
  BY <1>1, <1>2, <1>6 DEF InSync, Live, Evolves
<1> QED BY <1>1, <1>3, <1>4, <1>5, <1>6 DEF Keeps, Inv

\* The version that ensureVersion finds or inserts.
LEMMA EnsuredRows ==
  ASSUME Inv, NEW i \in Instances,
         Resolved(db, "/", handle[i]) = None => FreeIds(db) # {}
  PROVE  LET id == Ensured(db, handle[i])
             rows == WithVersion(db, handle[i])
         IN /\ id \in Ids /\ rows \in [Ids -> Row]
            /\ \A j \in Ids \ {id} : rows[j] = db[j]
            /\ \/ Resolved(db, "/", handle[i]) # None /\ rows = db /\ db[id].state # "free"
               \/ handle[i].cached = None /\ db[id].state = "free" /\ rows[id].state = "live"
            /\ handle[i].cached = None => rows[id].state = "live" /\ rows[id].label = handle[i].label
            /\ handle[i].cached # None => id = handle[i].cached
<1> DEFINE h == handle[i]
           n == NextId(db)
<1>1. h \in Handle /\ db \in [Ids -> Row]
  BY DEF Inv, TypeOK
<1>2. CASE Resolved(db, "/", h) # None
  <2>1. Resolved(db, "/", h) \in Ids /\ db[Resolved(db, "/", h)].state # "free"
    BY <1>1, <1>2, ResolvedIsId DEF Inv
  <2> QED BY <1>1, <1>2, <2>1, ResolvedIsId DEF Ensured, WithVersion
<1>3. CASE Resolved(db, "/", h) = None
  <2>1. n \in Ids /\ db[n].state = "free"
    BY <1>3, NextIdFree
  <2>2. h.cached = None
    BY <1>3 DEF Resolved
  <2>3. [root |-> "/", state |-> "live", label |-> h.label, owned |-> FALSE] \in Row
    BY <1>1 DEF Handle, Row
  <2>4. WithVersion(db, h)
          = [db EXCEPT ![n] = [root |-> "/", state |-> "live", label |-> h.label, owned |-> FALSE]]
    BY <1>3 DEF WithVersion
  <2> QED BY <1>1, <1>3, <2>1, <2>2, <2>3, <2>4 DEF Ensured
<1> QED BY <1>2, <1>3

-----------------------------------------------------------------------------
(* The calls: each keeps the invariant and the instance in step.           *)

\* A new record of the instance, of the type.
LEMMA NewHandle ==
  ASSUME Inv, NEW i \in Instances, NEW id \in Ids \cup {None}
  PROVE  /\ [handle EXCEPT ![i].cached = id] = [handle EXCEPT ![i] = [handle[i] EXCEPT !.cached = id]]
         /\ [handle EXCEPT ![i].cached = id][i] \in Handle
         /\ [handle EXCEPT ![i].cached = id][i].cached = id
         /\ [handle EXCEPT ![i].cached = id][i].label = handle[i].label
<1>1. handle[i] \in Handle /\ handle \in [Instances -> Handle]
  BY DEF Inv, TypeOK
<1>2. /\ [handle[i] EXCEPT !.cached = id] \in Handle
      /\ [handle[i] EXCEPT !.cached = id].cached = id
      /\ [handle[i] EXCEPT !.cached = id].label = handle[i].label
  BY <1>1 DEF Handle
<1> QED BY <1>1, <1>2

LEMMA ConstructKeeps ==
  ASSUME Inv, NEW i \in Instances, NEW label \in Labels, Construct(i, label)
  PROVE  Keeps(i) /\ InSync(i)'
<1>1. Fresh(label) \in Handle /\ Fresh(label).cached = None
  BY DEF Fresh, Handle, AnyLabel
<1>2. handle'[i] = Fresh(label) /\ handle' = [handle EXCEPT ![i] = handle'[i]]
  BY DEF Construct, Inv, TypeOK
<1>3. db' = db /\ tx' = tx /\ db' \in [Ids -> Row] /\ Evolves(db, db')
  BY DEF Construct, Inv, TypeOK, Evolves
<1>4. Keeps(i)
  BY <1>1, <1>2, <1>3, CallKeeps
<1> QED BY <1>1, <1>2, <1>4 DEF InSync, Live

LEMMA InitFastKeeps ==
  ASSUME Inv, NEW i \in Instances, InitFast(i)
  PROVE  Keeps(i) /\ Live(db', handle'[i].cached) /\ InSync(i)'
<1> DEFINE id == Lookup(db, "/", handle[i].label)
<1>1. id \in Ids /\ id # None /\ db[id].state = "live" /\ db[id].label = handle[i].label
  BY LookupFinds DEF InitFast
<1>2. /\ handle' = [handle EXCEPT ![i].cached = id] /\ handle'[i] \in Handle
      /\ handle'[i].cached = id /\ handle'[i].label = handle[i].label
  <2>1. handle' = [handle EXCEPT ![i].cached = id]
    BY DEF InitFast
  <2> HIDE DEF id
  <2> QED BY <1>1, <2>1, NewHandle
<1>3. handle' = [handle EXCEPT ![i] = handle'[i]]
  BY <1>2 DEF Inv, TypeOK
<1>4. db' = db /\ tx' = tx /\ db' \in [Ids -> Row] /\ Evolves(db, db')
  BY DEF InitFast, Inv, TypeOK, Evolves
<1>5. Keeps(i)
  BY <1>1, <1>2, <1>3, <1>4, CallKeeps
<1> QED BY <1>1, <1>2, <1>4, <1>5 DEF InSync, Live

LEMMA InitFullKeeps ==
  ASSUME Inv, NEW i \in Instances, InitFull(i)
  PROVE  /\ Keeps(i) /\ (InSync(i) => InSync(i)')
         /\ \/ Live(db', handle'[i].cached) /\ InSync(i)'
            \/ handle[i].cached # None /\ (~Live(db, handle[i].cached) \/ ~InSync(i))
<1> DEFINE id == Ensured(db, handle[i])
           rows == WithVersion(db, handle[i])
<1>1. /\ id \in Ids /\ rows \in [Ids -> Row]
      /\ \A j \in Ids \ {id} : rows[j] = db[j]
      /\ \/ rows = db /\ db[id].state # "free"
         \/ handle[i].cached = None /\ db[id].state = "free" /\ rows[id].state = "live"
      /\ handle[i].cached = None => rows[id].state = "live" /\ rows[id].label = handle[i].label
      /\ handle[i].cached # None => id = handle[i].cached
  BY EnsuredRows DEF InitFull
<1>2. /\ handle' = [handle EXCEPT ![i].cached = id] /\ handle'[i] \in Handle
      /\ handle'[i].cached = id /\ handle'[i].label = handle[i].label
  <2>1. handle' = [handle EXCEPT ![i].cached = id]
    BY DEF InitFull
  <2> HIDE DEF id
  <2> QED BY <1>1, <2>1, NewHandle
<1>3. handle' = [handle EXCEPT ![i] = handle'[i]]
  BY <1>2 DEF Inv, TypeOK
<1>4. /\ db' = [rows EXCEPT ![id].owned = TRUE] /\ Write(db')
  BY DEF InitFull, Write
<1>5. /\ db' \in [Ids -> Row]
      /\ \A j \in Ids : db'[j].state = rows[j].state /\ db'[j].label = rows[j].label
  <2>1. [rows[id] EXCEPT !.owned = TRUE] \in Row
        /\ [rows[id] EXCEPT !.owned = TRUE].state = rows[id].state
        /\ [rows[id] EXCEPT !.owned = TRUE].label = rows[id].label
    BY <1>1 DEF Row
  <2>2. db' = [rows EXCEPT ![id] = [rows[id] EXCEPT !.owned = TRUE]]
    BY <1>4
  <2> HIDE DEF id, rows
  <2> QED BY <1>1, <2>1, <2>2
<1>6. Evolves(db, db') /\ db'[id].state # "free"
  BY <1>1, <1>5 DEF Evolves
<1>7. Keeps(i)
  BY <1>1, <1>2, <1>3, <1>4, <1>5, <1>6, CallKeeps
<1>8. handle[i].cached = None => Live(db', id) /\ db'[id].label = handle[i].label
  BY <1>1, <1>5, NoneAssumption DEF Live
<1>9. handle[i].cached # None => /\ id = handle[i].cached
                                 /\ db'[id].state = db[id].state /\ db'[id].label = db[id].label
  BY <1>1, <1>5
<1> HIDE DEF id, rows
<1> QED BY <1>1, <1>2, <1>7, <1>8, <1>9, NoneAssumption DEF InSync, Live

LEMMA InitFailsKeeps ==
  ASSUME Inv, NEW i \in Instances, InitFails(i)
  PROVE  Keeps(i) /\ (InSync(i) => InSync(i)')
<1> DEFINE id == Ensured(db, handle[i])
           rows == WithVersion(db, handle[i])
<1>1. /\ id \in Ids
      /\ \/ rows = db /\ db[id].state # "free"
         \/ handle[i].cached = None /\ db[id].state = "free"
      /\ handle[i].cached = None => rows[id].state = "live" /\ rows[id].label = handle[i].label
      /\ handle[i].cached # None => id = handle[i].cached
  BY EnsuredRows DEF InitFails
<1>2. /\ handle' = [handle EXCEPT ![i].cached = id] /\ handle'[i] \in Handle
      /\ handle'[i].cached = id /\ handle'[i].label = handle[i].label
  <2>1. handle' = [handle EXCEPT ![i].cached = id]
    BY DEF InitFails
  <2> HIDE DEF id
  <2> QED BY <1>1, <2>1, NewHandle
<1>3. handle' = [handle EXCEPT ![i] = handle'[i]]
  BY <1>2 DEF Inv, TypeOK
<1>4. Write(db') /\ db' = IF db[id].state = "free" THEN [db EXCEPT ![id].state = "burned"] ELSE db
  BY DEF InitFails, Write
<1>5. /\ db' \in [Ids -> Row] /\ Evolves(db, db') /\ db'[id].state # "free"
      /\ \/ db' = db /\ db[id].state # "free"
         \/ db'[id].state = "burned" /\ db[id].state = "free"
  <2>1. db \in [Ids -> Row]
    BY DEF Inv, TypeOK
  <2>2. [db[id] EXCEPT !.state = "burned"] \in Row /\ [db[id] EXCEPT !.state = "burned"].state = "burned"
    BY <1>1, <2>1 DEF Row
  <2>3. db' = db \/ db' = [db EXCEPT ![id] = [db[id] EXCEPT !.state = "burned"]]
    BY <1>4
  <2> HIDE DEF id
  <2> QED BY <1>1, <1>4, <2>1, <2>2, <2>3 DEF Evolves
<1>6. Keeps(i)
  BY <1>1, <1>2, <1>3, <1>4, <1>5, CallKeeps
<1> HIDE DEF id, rows
<1> QED BY <1>1, <1>2, <1>5, <1>6, NoneAssumption DEF InSync, Live

LEMMA RenameKeeps ==
  ASSUME Inv, NEW i \in Instances, NEW label \in Labels, NEW swap, Rename(i, label, swap)
  PROVE  Keeps(i) /\ InSync(i)'
<1> DEFINE id == Resolved(db, "/", handle[i])
           new == Renamed(db, "/", handle[i], label)
<1>1. db \in [Ids -> Row] /\ handle[i] \in Handle /\ label \in AnyLabel /\ id # None
  BY DEF Inv, TypeOK, Rename, MayRename, AnyLabel
<1>2. id \in Ids /\ db[id].state # "free"
  BY <1>1, ResolvedIsId DEF Inv
<1>3. /\ new \in [Ids -> Row] /\ \A j \in Ids : new[j].state = db[j].state
      /\ db[id].state # "burned" => new[id].label = label
  BY <1>1, RenamedRows
<1>4. db' = new /\ Write(db')
  BY DEF Rename, Write
<1>5. handle' = [handle EXCEPT ![i] = [label |-> label, cached |-> id]]
  BY DEF Rename
<1> HIDE DEF id, new
<1>6. /\ handle'[i] = [label |-> label, cached |-> id] /\ handle'[i] \in Handle
      /\ handle' = [handle EXCEPT ![i] = handle'[i]]
  BY <1>1, <1>2, <1>5 DEF Inv, TypeOK, Handle
<1>7. Evolves(db, db')
  BY <1>3, <1>4 DEF Evolves
<1>8. Keeps(i)
  BY <1>2, <1>3, <1>4, <1>6, <1>7, CallKeeps
<1> QED BY <1>2, <1>3, <1>4, <1>6, <1>8 DEF InSync, Live

LEMMA PromoteKeeps ==
  ASSUME Inv, NEW i \in Instances, NEW label \in Labels, Promote(i, label)
  PROVE  Keeps(i) /\ InSync(i)'
<1> DEFINE id == Resolved(db, "/", handle[i])
           holder == Lookup(db, "/", label)
           new == Renamed(db, "/", handle[i], label)
<1>1. db \in [Ids -> Row] /\ handle[i] \in Handle /\ label \in AnyLabel /\ id # None
  BY DEF Inv, TypeOK, Promote, AnyLabel
<1>2. id \in Ids /\ db[id].state # "free"
  BY <1>1, ResolvedIsId DEF Inv
<1>3. /\ new \in [Ids -> Row] /\ \A j \in Ids : new[j].state = db[j].state
      /\ db[id].state # "burned" => new[id].label = label
  BY <1>1, RenamedRows
<1>4. db' = (IF holder \in {None, id} THEN new ELSE Deleted(new, holder)) /\ Write(db')
  BY DEF Promote, Write
<1>5. handle' = [handle EXCEPT ![i] = [label |-> label, cached |-> id]]
  BY DEF Promote
<1>6. holder # None => holder \in Ids
  BY LookupFinds
<1> HIDE DEF id, new, holder
<1>7. /\ handle'[i] = [label |-> label, cached |-> id] /\ handle'[i] \in Handle
      /\ handle' = [handle EXCEPT ![i] = handle'[i]]
  BY <1>1, <1>2, <1>5 DEF Inv, TypeOK, Handle
<1>8. db' \in [Ids -> Row] /\ Evolves(db, db') /\ db'[id] = new[id]
  <2>1. CASE holder \in {None, id}
    BY <1>2, <1>3, <1>4, <2>1 DEF Evolves
  <2>2. CASE holder \notin {None, id}
    <3>1. holder \in Ids /\ holder # id /\ db' = Deleted(new, holder)
      BY <1>4, <1>6, <2>2
    <3>2. db' \in [Ids -> Row] /\ Evolves(new, db') /\ db'[id] = new[id]
      BY <1>2, <1>3, <3>1, DeletedRows
    <3> QED BY <1>3, <3>2 DEF Evolves
  <2> QED BY <2>1, <2>2
<1>9. Keeps(i)
  BY <1>2, <1>3, <1>4, <1>7, <1>8, CallKeeps
<1> QED BY <1>2, <1>3, <1>7, <1>8, <1>9 DEF InSync, Live

LEMMA DeleteKeeps ==
  ASSUME Inv, NEW i \in Instances, NEW label \in Labels, Delete(i, label)
  PROVE  Keeps(i) /\ (InSync(i) => InSync(i)')
<1> DEFINE id == Lookup(db, "/", label)
<1>1. db \in [Ids -> Row] /\ handle[i] \in Handle /\ id \in Ids
  BY LookupFinds DEF Inv, TypeOK, Delete
<1>2. db' = Deleted(db, id) /\ Write(db') /\ handle' = handle
  BY DEF Delete, Write
<1> HIDE DEF id
<1>3. /\ db' \in [Ids -> Row] /\ Evolves(db, db')
      /\ \A j \in Ids : db'[j].label = db[j].label /\ (db'[j].state = "free" <=> db[j].state = "free")
  BY <1>1, <1>2, DeletedRows
<1>4. handle'[i].cached # None => handle[i].cached \in Ids /\ db'[handle'[i].cached].state # "free"
  BY <1>1, <1>2, <1>3 DEF Inv, Handle
<1>5. Keeps(i)
  <2>1. handle' = [handle EXCEPT ![i] = handle'[i]]
    BY <1>2 DEF Inv, TypeOK
  <2> QED BY <1>1, <1>2, <1>3, <1>4, <2>1, CallKeeps
<1> QED BY <1>1, <1>2, <1>3, <1>4, <1>5 DEF InSync, Live, Evolves

LEMMA DisposeKeeps ==
  ASSUME Inv, NEW i \in Instances, Dispose(i)
  PROVE  Keeps(i) /\ InSync(i)'
<1> DEFINE id == Resolved(db, "/", handle[i])
<1>1. db \in [Ids -> Row] /\ handle[i] \in Handle /\ id \in Ids
  BY ResolvedIsId DEF Inv, TypeOK, Dispose
<1>2. db' = Deleted(db, id) /\ Write(db') /\ handle' = [handle EXCEPT ![i].cached = None]
  BY DEF Dispose, Write
<1> HIDE DEF id
<1>3. handle'[i] \in Handle /\ handle'[i].cached = None
  BY <1>2, NewHandle
<1>4. handle' = [handle EXCEPT ![i] = handle'[i]]
  BY <1>2 DEF Inv, TypeOK
<1>5. db' \in [Ids -> Row] /\ Evolves(db, db')
  BY <1>1, <1>2, DeletedRows
<1>6. Keeps(i)
  BY <1>2, <1>3, <1>4, <1>5, CallKeeps
<1> QED BY <1>3, <1>6 DEF InSync, Live

LEMMA ForkKeeps ==
  ASSUME Inv, NEW i \in Instances, NEW label \in Labels, Fork(i, label)
  PROVE  Keeps(i) /\ (InSync(i) => InSync(i)')
<1> DEFINE id == Resolved(db, "/", handle[i])
           n == NextId(db)
           row == [root |-> "/", state |-> "live", label |-> label, owned |-> FALSE]
<1>1. /\ db \in [Ids -> Row] /\ handle[i] \in Handle /\ id \in Ids
      /\ handle[i].cached = None => db[id].label = handle[i].label
      /\ handle[i].cached # None => id = handle[i].cached
  BY ResolvedIsId DEF Inv, TypeOK, Fork
<1>2. db[id].state # "free"
  BY <1>1, ResolvedIsId DEF Inv, Fork
<1>3. n \in Ids /\ db[n].state = "free"
  BY NextIdFree DEF Fork
<1>4. row \in Row
  BY DEF Row, AnyLabel
<1>5. db' = [db EXCEPT ![n] = row] /\ Write(db') /\ handle' = [handle EXCEPT ![i].cached = id]
  BY DEF Fork, Write
<1>6. db' \in [Ids -> Row] /\ Evolves(db, db') /\ db'[id] = db[id]
  <2>1. row.state = "live"
    OBVIOUS
  <2> HIDE DEF id, n, row
  <2> QED BY <1>1, <1>2, <1>3, <1>4, <1>5, <2>1 DEF Evolves
<1> HIDE DEF id, n, row
<1>7. handle'[i] \in Handle /\ handle'[i].cached = id /\ handle'[i].label = handle[i].label
  BY <1>1, <1>5, NewHandle
<1>8. handle' = [handle EXCEPT ![i] = handle'[i]]
  BY <1>5 DEF Inv, TypeOK
<1>9. Keeps(i)
  BY <1>2, <1>5, <1>6, <1>7, <1>8, CallKeeps
<1> QED BY <1>1, <1>6, <1>7, <1>9, NoneAssumption DEF InSync, Live

LEMMA BeginKeeps ==
  ASSUME Inv, NEW i \in Instances, Begin(i)
  PROVE  Inv' /\ db' = db /\ handle' = handle
<1>1. /\ db \in [Ids -> Row] /\ handle[i] \in Handle /\ db' = db /\ handle' = handle
      /\ tx' = [of |-> i, rows |-> db, facade |-> handle[i], scoped |-> None, hooks |-> <<>>]
  BY DEF Begin, Inv, TypeOK
<1>2. tx' \in Transaction /\ tx'.rows = db
  BY <1>1 DEF Transaction
<1> QED BY <1>1, <1>2 DEF Inv, TypeOK, Evolves

-----------------------------------------------------------------------------
(* The steps of a transaction.                                             *)

\* A transaction whose rows are as live as before keeps the invariant.
LEMMA InsideKeeps ==
  ASSUME Inv, tx # None, db' = db, handle' = handle, tx' \in Transaction,
         \A id \in Ids : \/ tx'.rows[id].state = tx.rows[id].state
                         \/ tx.rows[id].state = "live" /\ tx'.rows[id].state = "deleted"
  PROVE  Inv'
<1>1. Evolves(db, tx.rows) /\ \A id \in Ids : db[id].state = "free" => tx.rows[id].state = "free"
  BY DEF Inv
<1>2. Evolves(db, tx'.rows) /\ \A id \in Ids : db[id].state = "free" => tx'.rows[id].state = "free"
  BY <1>1 DEF Evolves
<1> QED BY <1>2 DEF Inv, TypeOK

LEMMA FacadeRenameKeeps ==
  ASSUME Inv, NEW label \in Labels, NEW swap, FacadeRename(label, swap)
  PROVE  Inv' /\ db' = db /\ handle' = handle
<1> DEFINE id == Resolved(tx.rows, "/", tx.facade)
           new == Renamed(tx.rows, "/", tx.facade, label)
           facade == [label |-> label, cached |-> id]
<1>1. tx \in Transaction /\ db' = db /\ handle' = handle /\ label \in AnyLabel /\ id # None
  BY DEF FacadeRename, MayRename, Inv, TypeOK, AnyLabel
<1>2. tx.rows \in [Ids -> Row] /\ tx.facade \in Handle /\ tx.hooks \in Seq(AnyLabel)
  BY <1>1 DEF Transaction
<1>3. new \in [Ids -> Row] /\ \A j \in Ids : new[j].state = tx.rows[j].state
  BY <1>1, <1>2, RenamedRows
<1>4. facade \in Handle
  BY <1>1, <1>2, ResolvedIsId DEF Handle
<1>5. tx' = [tx EXCEPT !.rows = new, !.facade = facade, !.hooks = Append(tx.hooks, label)]
  BY <1>1 DEF FacadeRename
<1>6. Append(tx.hooks, label) \in Seq(AnyLabel)
  BY <1>1, <1>2
<1> HIDE DEF id, new, facade
<1>7. tx' \in Transaction /\ tx'.rows = new
  BY <1>1, <1>3, <1>4, <1>5, <1>6 DEF Transaction
<1> QED BY <1>1, <1>3, <1>7, InsideKeeps DEF FacadeRename

LEMMA ScopedRenameKeeps ==
  ASSUME Inv, NEW label \in Labels, NEW swap, ScopedRename(label, swap)
  PROVE  Inv' /\ db' = db /\ handle' = handle
<1> DEFINE id == Resolved(tx.rows, "sub", tx.scoped)
           new == Renamed(tx.rows, "sub", tx.scoped, label)
           scoped == [label |-> label, cached |-> id]
<1>1. tx \in Transaction /\ db' = db /\ handle' = handle /\ label \in AnyLabel /\ id # None
  BY DEF ScopedRename, MayRename, Inv, TypeOK, AnyLabel
<1>2. tx.rows \in [Ids -> Row] /\ tx.scoped \in Handle /\ tx.hooks \in Seq(AnyLabel)
  BY <1>1 DEF Transaction, ScopedRename
<1>3. new \in [Ids -> Row] /\ \A j \in Ids : new[j].state = tx.rows[j].state
  BY <1>1, <1>2, RenamedRows
<1>4. scoped \in Handle
  BY <1>1, <1>2, ResolvedIsId DEF Handle
<1>5. tx' = [tx EXCEPT !.rows = new, !.scoped = scoped, !.hooks = Append(tx.hooks, label)]
  BY <1>1 DEF ScopedRename
<1>6. Append(tx.hooks, label) \in Seq(AnyLabel)
  BY <1>1, <1>2
<1> HIDE DEF id, new, scoped
<1>7. tx' \in Transaction /\ tx'.rows = new
  BY <1>1, <1>3, <1>4, <1>5, <1>6 DEF Transaction
<1> QED BY <1>1, <1>3, <1>7, InsideKeeps DEF ScopedRename

LEMMA FacadeVersionedKeeps ==
  ASSUME Inv, FacadeVersioned
  PROVE  Inv' /\ db' = db /\ handle' = handle
<1>1. tx # None /\ tx \in Transaction /\ db' = db /\ handle' = handle
      /\ tx' = [tx EXCEPT !.scoped = Fresh(DefaultLabel)]
  BY DEF FacadeVersioned, Inv, TypeOK
<1>2. Fresh(DefaultLabel) \in Handle
  BY DEF Fresh, Handle, AnyLabel
<1>3. tx' \in Transaction /\ tx'.rows = tx.rows
  BY <1>1, <1>2 DEF Transaction
<1> QED BY <1>1, <1>3, InsideKeeps

LEMMA FacadeDisposeKeeps ==
  ASSUME Inv, FacadeDispose
  PROVE  Inv' /\ db' = db /\ handle' = handle
<1> DEFINE id == Resolved(tx.rows, "/", tx.facade)
           facade == [tx.facade EXCEPT !.cached = None]
           new == Deleted(tx.rows, id)
<1>1. tx # None /\ tx \in Transaction /\ db' = db /\ handle' = handle /\ id # None
  BY DEF FacadeDispose, Inv, TypeOK
<1>2. tx.rows \in [Ids -> Row] /\ tx.facade \in Handle /\ tx.hooks \in Seq(AnyLabel)
  BY <1>1 DEF Transaction
<1>3. facade \in Handle
  BY <1>2 DEF Handle
<1>4. id \in Ids
  BY <1>1, <1>2, ResolvedIsId
<1>5. tx' = [tx EXCEPT !.rows = new, !.facade = facade]
  BY <1>1, <1>2 DEF FacadeDispose, Transaction
<1>6. new \in [Ids -> Row]
      /\ \A j \in Ids : \/ new[j].state = tx.rows[j].state
                        \/ tx.rows[j].state = "live" /\ new[j].state = "deleted"
  <2>1. new \in [Ids -> Row] /\ Evolves(tx.rows, new)
        /\ \A j \in Ids : new[j].state = "free" <=> tx.rows[j].state = "free"
    BY <1>2, <1>4, DeletedRows
  <2>2. \A j \in Ids : j # id => new[j].state = tx.rows[j].state
    BY <1>2, <1>4, DeletedRows
  <2>3. new = tx.rows \/ (tx.rows[id].state = "live" /\ new[id].state = "deleted")
    <3>1. [tx.rows[id] EXCEPT !.state = "deleted"].state = "deleted"
      BY <1>2, <1>4 DEF Row
    <3> QED BY <1>2, <1>4, <3>1 DEF Deleted
  <2> QED BY <2>1, <2>2, <2>3
<1> HIDE DEF id, new, facade
<1>7. tx' \in Transaction /\ tx'.rows = new
  BY <1>1, <1>3, <1>5, <1>6 DEF Transaction
<1> QED BY <1>1, <1>6, <1>7, InsideKeeps

\* COMMIT takes an instance out of step only by a new label, its own apart.
LEMMA CommitKeeps ==
  ASSUME Inv, Commit
  PROVE  /\ Inv'
         /\ \A j \in Instances : j # tx.of => handle'[j] = handle[j]
         /\ \A j \in Instances : j # tx.of /\ InSync(j) /\ ~InSync(j)' =>
              db'[handle[j].cached].label # db[handle[j].cached].label
<1> DEFINE last == tx.hooks[Len(tx.hooks)]
<1>1. /\ tx \in Transaction /\ db' = tx.rows /\ tx' = None
      /\ handle \in [Instances -> Handle]
      /\ handle' = (IF tx.hooks = <<>> THEN handle ELSE [handle EXCEPT ![tx.of].label = last])
  BY DEF Commit, AfterCommit, Inv, TypeOK
<1>2. tx.rows \in [Ids -> Row] /\ tx.of \in Instances /\ tx.hooks \in Seq(AnyLabel)
  BY <1>1 DEF Transaction
<1>3. tx.hooks # <<>> => last \in AnyLabel
  <2>1. tx.hooks # <<>> => Len(tx.hooks) \in 1..Len(tx.hooks)
    BY <1>2
  <2> QED BY <1>2, <2>1
<1> HIDE DEF last
<1>4. /\ handle' \in [Instances -> Handle]
      /\ \A j \in Instances : handle'[j].cached = handle[j].cached
      /\ \A j \in Instances : j # tx.of => handle'[j] = handle[j]
  <2>1. CASE tx.hooks = <<>>
    BY <1>1, <2>1
  <2>2. CASE tx.hooks # <<>>
    <3>1. [handle[tx.of] EXCEPT !.label = last] \in Handle
          /\ [handle[tx.of] EXCEPT !.label = last].cached = handle[tx.of].cached
      BY <1>1, <1>2, <1>3, <2>2 DEF Handle
    <3>2. handle' = [handle EXCEPT ![tx.of] = [handle[tx.of] EXCEPT !.label = last]]
      BY <1>1, <2>2
    <3> QED BY <1>1, <1>2, <3>1, <3>2
  <2> QED BY <2>1, <2>2
<1>5. Evolves(db, db') /\ \A j \in Instances : handle[j].cached # None => db[handle[j].cached].state # "free"
  BY <1>1 DEF Inv, Commit
<1>6. \A j \in Instances : handle[j].cached # None => handle[j].cached \in Ids
  BY <1>1 DEF Handle
<1>7. Inv'
  BY <1>1, <1>2, <1>4, <1>5, <1>6 DEF Inv, TypeOK, Evolves
<1>8. ASSUME NEW j \in Instances, j # tx.of, InSync(j), ~InSync(j)'
      PROVE  db'[handle[j].cached].label # db[handle[j].cached].label
  BY <1>4, <1>5, <1>6, <1>8 DEF InSync, Live, Evolves
<1> QED BY <1>4, <1>7, <1>8

LEMMA RollbackKeeps ==
  ASSUME Inv, Rollback
  PROVE  Inv' /\ db' = db /\ handle' = handle
<1>1. db' = db /\ handle' = handle /\ tx' = None
  BY DEF Rollback, AfterRollback
<1> QED BY <1>1 DEF Inv, TypeOK

-----------------------------------------------------------------------------
(* The steps together.                                                     *)

LEMMA InitInv ==
  ASSUME Init
  PROVE  Inv
<1>1. db \in [Ids -> Row]
  <2>1. [root |-> "/", state |-> "live", label |-> DefaultLabel, owned |-> TRUE] \in Row
    BY DEF Row, AnyLabel
  <2>2. [root |-> "sub", state |-> "live", label |-> DefaultLabel, owned |-> TRUE] \in Row
    BY DEF Row, AnyLabel
  <2>3. NoRow \in Row
    BY DEF NoRow, Row, AnyLabel
  <2> QED BY <2>1, <2>2, <2>3 DEF Init
<1>2. Fresh(DefaultLabel) \in Handle /\ Fresh(DefaultLabel).cached = None
  BY DEF Fresh, Handle, AnyLabel
<1> QED BY <1>1, <1>2 DEF Init, Inv, TypeOK

\* What a call on an instance does to the others and to itself.
LEMMA CallInv ==
  ASSUME Inv, NEW i \in Instances, Call(i)
  PROVE  \/ Keeps(i) /\ (InSync(i) => InSync(i)')
         \/ Inv' /\ db' = db /\ handle' = handle
<1>1. ASSUME NEW label \in Labels,
             Construct(i, label) \/ Delete(i, label) \/ Fork(i, label) \/ Promote(i, label)
             \/ \E swap \in BOOLEAN : Rename(i, label, swap)
      PROVE  Keeps(i) /\ (InSync(i) => InSync(i)')
  <2>1. CASE Construct(i, label)
    BY <2>1, ConstructKeeps
  <2>2. CASE Delete(i, label)
    BY <2>2, DeleteKeeps
  <2>3. CASE Fork(i, label)
    BY <2>3, ForkKeeps
  <2>4. CASE Promote(i, label)
    BY <2>4, PromoteKeeps
  <2>5. CASE \E swap \in BOOLEAN : Rename(i, label, swap)
    BY <2>5, RenameKeeps
  <2> QED BY <1>1, <2>1, <2>2, <2>3, <2>4, <2>5
<1>2. CASE InitFast(i)
  BY <1>2, InitFastKeeps
<1>3. CASE InitFull(i)
  BY <1>3, InitFullKeeps
<1>4. CASE InitFails(i)
  BY <1>4, InitFailsKeeps
<1>5. CASE Dispose(i)
  BY <1>5, DisposeKeeps
<1>6. CASE Begin(i)
  BY <1>6, BeginKeeps
<1> QED BY <1>1, <1>2, <1>3, <1>4, <1>5, <1>6 DEF Call

\* Every step of a transaction but COMMIT leaves the tables and the instances.
LEMMA InTransactionInv ==
  ASSUME Inv, InTransaction
  PROVE  Commit \/ (Inv' /\ db' = db /\ handle' = handle)
<1>1. ASSUME NEW label \in Labels, NEW swap \in BOOLEAN,
             FacadeRename(label, swap) \/ ScopedRename(label, swap)
      PROVE  Inv' /\ db' = db /\ handle' = handle
  BY <1>1, FacadeRenameKeeps, ScopedRenameKeeps
<1> QED BY <1>1, FacadeVersionedKeeps, FacadeDisposeKeeps, RollbackKeeps DEF InTransaction

LEMMA NextInv ==
  ASSUME Inv, [Next]_vars
  PROVE  Inv'
<1>1. CASE UNCHANGED vars
  BY <1>1 DEF vars, Inv, TypeOK
<1>2. ASSUME NEW i \in Instances, Call(i) PROVE Inv'
  BY <1>2, CallInv DEF Keeps
<1>3. CASE InTransaction
  BY <1>3, InTransactionInv, CommitKeeps
<1> QED BY <1>1, <1>2, <1>3 DEF Next

\* No step of its own takes an instance out of step with its version, and no
\* rollback does: only a new label from elsewhere, or the hooks of a COMMIT
\* (filesystem.ts, rename-version.ts, state.ts).
THEOREM LabelsKept == Spec => OwnStepsKeepLabel
<1> DEFINE OutOfStep(i) ==
      \/ db'[handle[i].cached].label # db[handle[i].cached].label /\ handle'[i] = handle[i]
      \/ Commit /\ tx.of = i
<1>1. ASSUME Inv, [Next]_vars
      PROVE  [\A j \in Instances : InSync(j) /\ ~InSync(j)' => OutOfStep(j)]_vars
  <2>1. ASSUME db' = db /\ handle' = handle, NEW j \in Instances, InSync(j)
        PROVE  InSync(j)'
    BY <2>1 DEF InSync, Live
  <2>2. ASSUME NEW i \in Instances, Call(i), NEW j \in Instances, InSync(j), ~InSync(j)'
        PROVE  OutOfStep(j)
    <3>1. CASE Keeps(i) /\ (InSync(i) => InSync(i)')
      BY <2>2, <3>1 DEF Keeps
    <3>2. CASE Inv' /\ db' = db /\ handle' = handle
      BY <2>1, <2>2, <3>2
    <3> QED BY <1>1, <2>2, <3>1, <3>2, CallInv
  <2>3. ASSUME InTransaction, NEW j \in Instances, InSync(j), ~InSync(j)'
        PROVE  OutOfStep(j)
    <3>1. CASE Commit
      BY <1>1, <2>3, <3>1, CommitKeeps
    <3>2. CASE Inv' /\ db' = db /\ handle' = handle
      BY <2>1, <2>3, <3>2
    <3> QED BY <1>1, <2>3, <3>1, <3>2, InTransactionInv
  <2>4. CASE UNCHANGED vars
    BY <2>4
  <2> HIDE DEF OutOfStep
  <2>5. CASE Next
    BY <2>2, <2>3, <2>5 DEF Next
  <2> QED BY <1>1, <2>4, <2>5
<1>2. Init => Inv
  BY InitInv
<1>3. Inv /\ [Next]_vars => Inv'
  BY NextInv
<1>4. Inv /\ [Next]_vars =>
        [\A i \in Instances : InSync(i) /\ ~InSync(i)' =>
           \/ db'[handle[i].cached].label # db[handle[i].cached].label /\ handle'[i] = handle[i]
           \/ Commit /\ tx.of = i]_vars
  BY <1>1
<1> QED BY <1>2, <1>3, <1>4, PTL DEF Spec, OwnStepsKeepLabel

\* After init() the instance has a live version of its label, whatever other
\* instances did before, unless it had cached an id that is none (version.ts).
THEOREM InitReaches == Spec => InitReachesVersion
<1> DEFINE Reached(i) ==
      \/ Live(db', handle'[i].cached) /\ InSync(i)'
      \/ handle[i].cached # None /\ (~Live(db, handle[i].cached) \/ ~InSync(i))
<1>1. ASSUME Inv
      PROVE  \A i \in Instances : InitFast(i) \/ InitFull(i) => Reached(i)
  BY <1>1, InitFastKeeps, InitFullKeeps
<1>2. Init => Inv
  BY InitInv
<1>3. Inv /\ [Next]_vars => Inv'
  BY NextInv
<1>4. Inv => [\A i \in Instances : InitFast(i) \/ InitFull(i) => Reached(i)]_vars
  BY <1>1
<1> QED BY <1>2, <1>3, <1>4, PTL DEF Spec, InitReachesVersion

-----------------------------------------------------------------------------
(* Connections.                                                            *)


Rows == [by : Tasks, n : Nat, live : BOOLEAN]
Settings == {WorkspaceOf[t] : t \in Tasks} \cup {Nobody}
Connection == [holder : Tasks \cup {Nobody}, tx : {"none", "open", "failed"},
               setting : Settings, fenced : BOOLEAN, rows : SUBSET Rows]
Task == [phase : {"idle", "begin", "fence", "configure", "body", "commit", "rollback",
                  "release", "ended"},
         conn : Conns \cup {Nobody}, wrote : SUBSET Rows, late : Nat, statements : Nat,
         failed : BOOLEAN, disturbed : BOOLEAN, lost : BOOLEAN,
         verdict : {"none", "resolved", "rejected"}]
ConnTypeOK ==
  /\ setup \in Databases
  /\ conn \in [Conns -> Connection]
  /\ task \in [Tasks -> Task]
  /\ table \subseteq Rows

Working == {"begin", "fence", "configure", "body", "commit", "rollback", "release"}

\* A task holds its connection while it works, and only then; one that nobody
\* holds is clean.
HoldersMatch ==
  /\ \A t \in Tasks : task[t].phase # "idle" => task[t].conn \in Conns
  /\ \A k \in Conns : conn[k].holder # Nobody =>
       task[conn[k].holder].conn = k /\ task[conn[k].holder].phase \in Working
  /\ \A k \in Conns : conn[k].holder = Nobody => conn[k] = CleanConn

\* What connection c carries, by the phase of the task that holds it, of record u.
Serves(t, u, c) ==
  /\ c.holder = t
  /\ u.phase \in {"begin", "release"} =>
       c.tx = "none" /\ c.setting = Nobody /\ ~c.fenced /\ c.rows = {}
  /\ u.phase \in Working \ {"begin", "release"} => c.tx # "none"
  /\ u.phase = "fence" => t \in setup.readonly /\ ~c.fenced
  /\ u.phase \in {"configure", "body"} => (c.fenced <=> t \in setup.readonly)
  /\ u.phase = "body" => c.setting = WorkspaceOf[t]
  /\ u.phase # "release" => \A r \in c.rows : r.live => r \in u.wrote
  /\ u.phase # "release" /\ c.tx = "open" => u.wrote \subseteq c.rows
  /\ u.phase \in {"body", "commit"} /\ c.tx = "failed" => u.failed \/ u.disturbed

\* What task t, of record u, has to show for its rows.
Accounts(t, u, rows) ==
  /\ \A r \in u.wrote : r.by = t /\ r.live
  /\ u.phase \in {"idle", "begin"} => u.wrote = {}
  /\ u.disturbed => setup.adapter = "node-postgres"
  /\ u.phase = "commit" /\ setup.adapter = "postgres" => ~u.failed
  /\ u.phase \notin {"release", "ended"} =>
       u.verdict = "none" /\ \A r \in rows : r.by = t => ~r.live
  /\ u.wrote \cap rows \in {{}, u.wrote}
  /\ u.wrote \cap rows # {} =>
       u.phase \in {"release", "ended"} /\ (u.verdict = "resolved" \/ u.lost)
  /\ u.phase \in {"release", "ended"} /\ u.verdict = "resolved" /\ u.wrote \cap rows # u.wrote =>
       setup.adapter = "node-postgres" /\ (u.failed \/ u.disturbed)

ConnInv ==
  /\ ConnTypeOK
  /\ HoldersMatch
  /\ \A t \in Tasks : task[t].phase \in Working => Serves(t, task[t], Of(t))
  /\ \A t \in Tasks : Accounts(t, task[t], table)
  /\ \A k \in Conns : \A r \in conn[k].rows : r.by \notin setup.readonly
  /\ \A r \in table : r.by \notin setup.readonly

-----------------------------------------------------------------------------
\* The initial states satisfy the invariant.
LEMMA ConnInitInv == PoolInit => ConnInv
<1> SUFFICES ASSUME PoolInit PROVE ConnInv
  OBVIOUS
<1> USE NobodyAssumption DEF PoolInit
<1>1. CleanConn \in Connection /\ CleanConn.holder = Nobody /\ CleanConn.rows = {}
  BY DEF CleanConn, Connection, Settings
<1>2. FreshTask \in Task /\ FreshTask.phase = "idle" /\ FreshTask.wrote = {} /\ ~FreshTask.disturbed
      /\ FreshTask.verdict = "none"
  BY DEF FreshTask, Task
<1>3. ConnTypeOK
  BY <1>1, <1>2 DEF ConnTypeOK
<1> QED BY <1>1, <1>2, <1>3 DEF ConnInv, HoldersMatch, Serves, Accounts, Working, Of

\* The invariant implies the property.
LEMMA InvImplies == ConnInv => TransactionsHold
<1> SUFFICES ASSUME ConnInv PROVE TransactionsHold
  OBVIOUS
<1>1. ConnectionsKeepApart
  BY DEF ConnInv, HoldersMatch, Serves, ConnectionsKeepApart, At, Of, Working
<1>2. VerdictsHold
  BY DEF ConnInv, Accounts, VerdictsHold, Has, Over
<1> QED BY <1>1, <1>2 DEF TransactionsHold

\* A step of one task and the connection it holds keeps the invariant when what
\* it leaves in both fits together.
LEMMA OwnStep ==
  ASSUME ConnInv, NEW t \in Tasks, NEW k \in Conns,
         \/ task[t].phase = "idle" /\ conn[k].holder = Nobody
         \/ task[t].phase \in Working /\ task[t].conn = k,
         conn'[k] \in Connection, conn' = [conn EXCEPT ![k] = conn'[k]],
         task'[t] \in Task, task' = [task EXCEPT ![t] = task'[t]],
         setup' = setup, table \subseteq table', table' \subseteq Rows,
         task'[t].conn = k,
         \/ task'[t].phase \in Working /\ Serves(t, task'[t], conn'[k])
         \/ task'[t].phase = "ended" /\ conn'[k] = CleanConn,
         Accounts(t, task'[t], table'),
         \A r \in conn'[k].rows : r.by \notin setup.readonly,
         \A r \in table' \ table : r.by \notin setup.readonly /\ (r.live => r.by = t)
  PROVE  ConnInv'
<1> USE NobodyAssumption DEF ConnInv
<1>1. ConnTypeOK'
  BY DEF ConnTypeOK
<1>2. \A u \in Tasks : task[u].phase \in Working => task[u].conn \in Conns /\ Of(u).holder = u
  BY DEF HoldersMatch, Serves, Working
<1>3. \A u \in Tasks \ {t} : task'[u] = task[u] /\ (task[u].phase \in Working
        => Of(u)' = Of(u) /\ task[u].conn # k)
  BY <1>2 DEF ConnTypeOK, Of
<1>4. HoldersMatch'
  <2>1. \A u \in Tasks : task'[u].phase # "idle" => task'[u].conn \in Conns
    BY <1>3 DEF HoldersMatch, ConnTypeOK
  <2>2. \A j \in Conns \ {k} : conn'[j] = conn[j] /\ conn[j].holder # t
    BY DEF ConnTypeOK, HoldersMatch, Working
  <2>3. \A j \in Conns \ {k} : conn[j].holder # Nobody => conn[j].holder \in Tasks \ {t}
    BY <2>2 DEF ConnTypeOK, Connection
  <2>4. \A j \in Conns \ {k} : conn'[j].holder # Nobody =>
          task'[conn'[j].holder].conn = j /\ task'[conn'[j].holder].phase \in Working
    BY <2>2, <2>3, <1>3 DEF HoldersMatch
  <2>5. conn'[k].holder # Nobody =>
          task'[conn'[k].holder].conn = k /\ task'[conn'[k].holder].phase \in Working
    BY DEF Serves, CleanConn
  <2>6. conn'[k].holder = Nobody => conn'[k] = CleanConn
    BY DEF Serves
  <2> QED BY <2>1, <2>2, <2>4, <2>5, <2>6 DEF HoldersMatch
<1>5. ASSUME NEW u \in Tasks, task'[u].phase \in Working
      PROVE  Serves(u, task[u], Of(u))'
  <2>1. CASE u = t
    BY <2>1, <1>5 DEF Of, Serves, Working
  <2>2. CASE u # t
    <3>1. task'[u] = task[u] /\ Of(u)' = Of(u) /\ Serves(u, task[u], Of(u))
      BY <2>2, <1>5, <1>3
    <3> QED BY <3>1 DEF Serves
  <2> QED BY <2>1, <2>2
<1>6. ASSUME NEW u \in Tasks PROVE Accounts(u, task[u], table)'
  <2>1. CASE u = t
    BY <2>1 DEF Accounts
  <2>2. CASE u # t
    <3>1. Accounts(u, task[u], table) /\ task'[u] = task[u]
      BY <2>2, <1>3
    <3>2. \A r \in table' \ table : r.by = u => ~r.live
      BY <2>2
    <3> QED BY <3>1, <3>2 DEF Accounts
  <2> QED BY <2>1, <2>2
<1>7. \A j \in Conns : \A r \in conn'[j].rows : r.by \notin setup.readonly
  BY DEF ConnTypeOK
<1> QED BY <1>1, <1>4, <1>5, <1>6, <1>7

\* Connecting takes a connection that is clean.
LEMMA ConnectInv ==
  ASSUME ConnInv, NEW t \in Tasks, NEW k \in Conns, Connect(t, k)
  PROVE  ConnInv'
<1> USE NobodyAssumption DEF Connect, At
<1>1. /\ task[t] \in Task /\ conn[k] \in Connection /\ conn[k] = CleanConn
      /\ Accounts(t, task[t], table) /\ table' = table /\ setup' = setup
  BY DEF ConnInv, ConnTypeOK, HoldersMatch
<1>2. conn'[k] = [conn[k] EXCEPT !.holder = t] /\ conn'[k] \in Connection
      /\ conn' = [conn EXCEPT ![k] = conn'[k]]
  BY <1>1 DEF ConnInv, ConnTypeOK, Connection
<1>3. task'[t] = [task[t] EXCEPT !.phase = "begin", !.conn = k] /\ task'[t] \in Task
      /\ task' = [task EXCEPT ![t] = task'[t]]
  BY <1>1 DEF ConnInv, ConnTypeOK, Task
<1>a. task[t].phase = "idle"
  OBVIOUS
<1> HIDE DEF Connect, At
<1>4. /\ conn'[k].holder = t /\ conn'[k].tx = "none" /\ conn'[k].setting = Nobody
      /\ conn'[k].fenced = FALSE /\ conn'[k].rows = {}
  BY <1>1, <1>2 DEF CleanConn
<1>5. /\ task'[t].phase = "begin" /\ task'[t].conn = k /\ task'[t].wrote = {}
      /\ task'[t].verdict = "none" /\ task'[t].disturbed = task[t].disturbed
  <2>1. task[t].wrote = {} /\ task[t].verdict = "none"
    BY <1>1, <1>a DEF Accounts
  <2> QED BY <1>1, <1>3, <2>1 DEF Task
<1>6. Serves(t, task'[t], conn'[k])
  BY <1>4, <1>5 DEF Serves, Working
<1>7. Accounts(t, task'[t], table')
  BY <1>1, <1>5, <1>a DEF Accounts
<1>8. task[t].phase = "idle" /\ conn[k].holder = Nobody /\ task'[t].phase \in Working
  BY <1>1, <1>5, <1>a DEF Working, CleanConn
<1>9. table \subseteq table' /\ table' \subseteq Rows /\ table' \ table = {}
  BY <1>1 DEF ConnInv, ConnTypeOK
<1> QED BY <1>1, <1>2, <1>3, <1>4, <1>5, <1>6, <1>7, <1>8, <1>9, OwnStep

\* A record of the type with other rows is of the type.
LEMMA TaskWrites ==
  ASSUME NEW u \in Task, NEW n \in Nat, NEW rows \in SUBSET Rows
  PROVE  [u EXCEPT !.statements = n, !.wrote = rows] \in Task
  BY DEF Task
LEMMA ConnectionRows ==
  ASSUME NEW c \in Connection, NEW rows \in SUBSET Rows
  PROVE  [c EXCEPT !.rows = rows] \in Connection
  BY DEF Connection

\* Begin opens a transaction.
LEMMA BeginInv ==
  ASSUME ConnInv, NEW t \in Tasks, BeginTx(t)
  PROVE  ConnInv'
<1> DEFINE k == task[t].conn
<1>1. /\ task[t].phase = "begin" /\ k \in Conns /\ conn[k] \in Connection /\ task[t] \in Task
      /\ Serves(t, task[t], conn[k]) /\ Accounts(t, task[t], table)
      /\ \A r \in conn[k].rows : r.by \notin setup.readonly
  BY DEF BeginTx, At, ConnInv, ConnTypeOK, HoldersMatch, Working, Of
<1>2. /\ conn'[k] \in Connection /\ conn' = [conn EXCEPT ![k] = conn'[k]]
      /\ conn'[k].holder = conn[k].holder /\ conn'[k].tx = "open"
      /\ conn'[k].setting = conn[k].setting /\ conn'[k].fenced = conn[k].fenced
      /\ conn'[k].rows = conn[k].rows
  <2>1. conn' = [conn EXCEPT ![k] = [conn[k] EXCEPT !.tx = "open"]]
    BY <1>1 DEF BeginTx, Of, Serves
  <2>2. conn'[k] = [conn[k] EXCEPT !.tx = "open"]
    BY <1>1, <2>1 DEF ConnInv, ConnTypeOK
  <2>3. conn'[k] \in Connection
    BY <1>1, <2>2 DEF Connection
  <2>4. conn' = [conn EXCEPT ![k] = conn'[k]]
    BY <2>1, <2>2
  <2> QED BY <1>1, <2>2, <2>3, <2>4 DEF Connection
<1>3. /\ task'[t] \in Task /\ task' = [task EXCEPT ![t] = task'[t]]
      /\ task'[t].phase = (IF t \in setup.readonly THEN "fence" ELSE "configure")
      /\ task'[t].conn = task[t].conn /\ task'[t].wrote = task[t].wrote
      /\ task'[t].late = task[t].late /\ task'[t].statements = task[t].statements
      /\ task'[t].failed = task[t].failed /\ task'[t].disturbed = task[t].disturbed
      /\ task'[t].lost = task[t].lost /\ task'[t].verdict = task[t].verdict
  <2>1. task' = [task EXCEPT ![t] = [task[t] EXCEPT !.phase = (IF t \in setup.readonly
          THEN "fence" ELSE "configure")]]
    BY <1>1 DEF BeginTx
  <2>2. task'[t] = [task[t] EXCEPT !.phase = (IF t \in setup.readonly THEN "fence" ELSE "configure")]
    BY <2>1 DEF ConnInv, ConnTypeOK
  <2>3. task'[t] \in Task
    BY <1>1, <2>2 DEF Task
  <2>4. task' = [task EXCEPT ![t] = task'[t]]
    BY <2>1, <2>2
  <2> QED BY <1>1, <2>2, <2>3, <2>4 DEF Task
<1>4. setup' = setup /\ table' = table
  BY <1>1 DEF BeginTx
<1>5. Serves(t, task'[t], conn'[k])
  BY <1>1, <1>2, <1>3 DEF Serves, Accounts, Working
<1>6. Accounts(t, task'[t], table')
  BY <1>1, <1>3, <1>4 DEF Accounts, Serves
<1>7. table \subseteq table' /\ table' \subseteq Rows /\ table' \ table = {}
  BY <1>4 DEF ConnInv, ConnTypeOK
<1> QED BY <1>1, <1>2, <1>3, <1>4, <1>5, <1>6, <1>7, OwnStep DEF Working, ConnInv, ConnTypeOK

\* The fence, or ROLLBACK when it fails.
LEMMA FenceInv ==
  ASSUME ConnInv, NEW t \in Tasks, Fence(t)
  PROVE  ConnInv'
<1> DEFINE k == task[t].conn
<1>1. /\ task[t].phase = "fence" /\ k \in Conns /\ conn[k] \in Connection /\ task[t] \in Task
      /\ Serves(t, task[t], conn[k]) /\ Accounts(t, task[t], table)
      /\ \A r \in conn[k].rows : r.by \notin setup.readonly
  BY DEF Fence, At, ConnInv, ConnTypeOK, HoldersMatch, Working, Of
<1>2. /\ conn'[k] \in Connection /\ conn' = [conn EXCEPT ![k] = conn'[k]]
      /\ conn'[k].holder = conn[k].holder /\ conn'[k].tx = conn[k].tx
      /\ conn'[k].setting = conn[k].setting /\ conn'[k].fenced = (conn[k].tx # "failed")
      /\ conn'[k].rows = conn[k].rows
  <2>1. conn' = [conn EXCEPT ![k] = [conn[k] EXCEPT !.fenced = (conn[k].tx # "failed")]]
    BY <1>1 DEF Fence, Of
  <2>2. conn'[k] = [conn[k] EXCEPT !.fenced = (conn[k].tx # "failed")]
    BY <1>1, <2>1 DEF ConnInv, ConnTypeOK
  <2>3. conn'[k] \in Connection
    BY <1>1, <2>2 DEF Connection
  <2>4. conn' = [conn EXCEPT ![k] = conn'[k]]
    BY <2>1, <2>2
  <2> QED BY <1>1, <2>2, <2>3, <2>4 DEF Connection
<1>3. /\ task'[t] \in Task /\ task' = [task EXCEPT ![t] = task'[t]]
      /\ task'[t].phase = (IF conn[k].tx = "failed" THEN "rollback" ELSE "configure")
      /\ task'[t].conn = task[t].conn /\ task'[t].wrote = task[t].wrote
      /\ task'[t].late = task[t].late /\ task'[t].statements = task[t].statements
      /\ task'[t].failed = task[t].failed /\ task'[t].disturbed = task[t].disturbed
      /\ task'[t].lost = task[t].lost /\ task'[t].verdict = task[t].verdict
  <2>1. task' = [task EXCEPT ![t] = [task[t] EXCEPT !.phase = (IF conn[k].tx = "failed"
          THEN "rollback" ELSE "configure")]]
    BY <1>1 DEF Fence, Proceeds, Of
  <2>2. task'[t] = [task[t] EXCEPT !.phase = (IF conn[k].tx = "failed" THEN "rollback"
          ELSE "configure")]
    BY <2>1 DEF ConnInv, ConnTypeOK
  <2>3. task'[t] \in Task
    BY <1>1, <2>2 DEF Task
  <2>4. task' = [task EXCEPT ![t] = task'[t]]
    BY <2>1, <2>2
  <2> QED BY <1>1, <2>2, <2>3, <2>4 DEF Task
<1>4. setup' = setup /\ table' = table
  BY <1>1 DEF Fence
<1>5. Serves(t, task'[t], conn'[k])
  BY <1>1, <1>2, <1>3 DEF Serves, Accounts, Working
<1>6. Accounts(t, task'[t], table')
  BY <1>1, <1>3, <1>4 DEF Accounts, Serves
<1>7. table \subseteq table' /\ table' \subseteq Rows /\ table' \ table = {}
  BY <1>4 DEF ConnInv, ConnTypeOK
<1> QED BY <1>1, <1>2, <1>3, <1>4, <1>5, <1>6, <1>7, OwnStep DEF Working, ConnInv, ConnTypeOK

\* The setting, or ROLLBACK when it fails.
LEMMA ConfigureInv ==
  ASSUME ConnInv, NEW t \in Tasks, Configure(t)
  PROVE  ConnInv'
<1> DEFINE k == task[t].conn
<1>1. /\ task[t].phase = "configure" /\ k \in Conns /\ conn[k] \in Connection /\ task[t] \in Task
      /\ Serves(t, task[t], conn[k]) /\ Accounts(t, task[t], table)
      /\ \A r \in conn[k].rows : r.by \notin setup.readonly
  BY DEF Configure, At, ConnInv, ConnTypeOK, HoldersMatch, Working, Of
<1>2. /\ conn'[k] \in Connection /\ conn' = [conn EXCEPT ![k] = conn'[k]]
      /\ conn'[k].holder = conn[k].holder /\ conn'[k].tx = conn[k].tx
      /\ conn'[k].setting = (IF conn[k].tx = "failed" THEN conn[k].setting ELSE WorkspaceOf[t])
      /\ conn'[k].fenced = conn[k].fenced /\ conn'[k].rows = conn[k].rows
  <2>1. conn' = [conn EXCEPT ![k] = [conn[k] EXCEPT !.setting = (IF conn[k].tx = "failed"
          THEN conn[k].setting ELSE WorkspaceOf[t])]]
    BY <1>1 DEF Configure, Of
  <2>2. conn'[k] = [conn[k] EXCEPT !.setting = (IF conn[k].tx = "failed"
          THEN conn[k].setting ELSE WorkspaceOf[t])]
    BY <1>1, <2>1 DEF ConnInv, ConnTypeOK
  <2>3. conn'[k] \in Connection
    BY <1>1, <2>2 DEF Connection, Settings
  <2>4. conn' = [conn EXCEPT ![k] = conn'[k]]
    BY <2>1, <2>2
  <2> QED BY <1>1, <2>2, <2>3, <2>4 DEF Connection, Settings
<1>3. /\ task'[t] \in Task /\ task' = [task EXCEPT ![t] = task'[t]]
      /\ task'[t].phase = (IF conn[k].tx = "failed" THEN "rollback" ELSE "body")
      /\ task'[t].conn = task[t].conn /\ task'[t].wrote = task[t].wrote
      /\ task'[t].late = task[t].late /\ task'[t].statements = task[t].statements
      /\ task'[t].failed = task[t].failed /\ task'[t].disturbed = task[t].disturbed
      /\ task'[t].lost = task[t].lost /\ task'[t].verdict = task[t].verdict
  <2>1. task' = [task EXCEPT ![t] = [task[t] EXCEPT !.phase = (IF conn[k].tx = "failed"
          THEN "rollback" ELSE "body")]]
    BY <1>1 DEF Configure, Proceeds, Of
  <2>2. task'[t] = [task[t] EXCEPT !.phase = (IF conn[k].tx = "failed" THEN "rollback" ELSE "body")]
    BY <2>1 DEF ConnInv, ConnTypeOK
  <2>3. task'[t] \in Task
    BY <1>1, <2>2 DEF Task
  <2>4. task' = [task EXCEPT ![t] = task'[t]]
    BY <2>1, <2>2
  <2> QED BY <1>1, <2>2, <2>3, <2>4 DEF Task
<1>4. setup' = setup /\ table' = table
  BY <1>1 DEF Configure
<1>5. Serves(t, task'[t], conn'[k])
  BY <1>1, <1>2, <1>3 DEF Serves, Accounts, Working
<1>6. Accounts(t, task'[t], table')
  BY <1>1, <1>3, <1>4 DEF Accounts, Serves
<1>7. table \subseteq table' /\ table' \subseteq Rows /\ table' \ table = {}
  BY <1>4 DEF ConnInv, ConnTypeOK
<1> QED BY <1>1, <1>2, <1>3, <1>4, <1>5, <1>6, <1>7, OwnStep DEF Working, ConnInv, ConnTypeOK

\* A statement that succeeds adds a row to both.
LEMMA SucceedsInv ==
  ASSUME ConnInv, NEW t \in Tasks, Succeeds(t)
  PROVE  ConnInv'
<1> DEFINE k == task[t].conn
<1>1. /\ task[t].phase = "body" /\ k \in Conns /\ conn[k] \in Connection /\ task[t] \in Task
      /\ Serves(t, task[t], conn[k]) /\ Accounts(t, task[t], table)
      /\ \A r \in conn[k].rows : r.by \notin setup.readonly
  BY DEF Succeeds, At, ConnInv, ConnTypeOK, HoldersMatch, Working, Of
<1>8. /\ RowBy(t, task[t].statements, TRUE) \in Rows /\ task[t].statements + 1 \in Nat
      /\ t \notin setup.readonly
      /\ RowBy(t, task[t].statements, TRUE).by = t /\ RowBy(t, task[t].statements, TRUE).live
  BY <1>1 DEF Succeeds, Allowed, Of, Serves, RowBy, Rows, Task
<1>9. task[t].wrote \cup {RowBy(t, task[t].statements, TRUE)} \in SUBSET Rows
  BY <1>1, <1>8 DEF Task
<1>11. conn[k].rows \cup {RowBy(t, task[t].statements, TRUE)} \in SUBSET Rows
  BY <1>1, <1>8 DEF Connection
<1>2. /\ conn'[k] \in Connection /\ conn' = [conn EXCEPT ![k] = conn'[k]]
      /\ conn'[k].holder = conn[k].holder /\ conn'[k].tx = conn[k].tx
      /\ conn'[k].setting = conn[k].setting /\ conn'[k].fenced = conn[k].fenced
      /\ conn'[k].rows = (conn[k].rows \cup {RowBy(t, task[t].statements, TRUE)})
  <2>1. conn' = [conn EXCEPT ![k] =
          [conn[k] EXCEPT !.rows = (conn[k].rows \cup {RowBy(t, task[t].statements, TRUE)})]]
    BY <1>1 DEF Succeeds, Of
  <2>2. conn'[k] = [conn[k] EXCEPT !.rows = (conn[k].rows \cup {RowBy(t, task[t].statements, TRUE)})]
    BY <1>1, <2>1 DEF ConnInv, ConnTypeOK
  <2>3. conn'[k] \in Connection
    BY <1>1, <2>2, <1>11, ConnectionRows
  <2>4. conn' = [conn EXCEPT ![k] = conn'[k]]
    BY <2>1, <2>2
  <2> QED BY <1>1, <2>2, <2>3, <2>4 DEF Connection
<1>3. /\ task'[t] \in Task /\ task' = [task EXCEPT ![t] = task'[t]]
      /\ task'[t].phase = task[t].phase /\ task'[t].conn = task[t].conn
      /\ task'[t].wrote = (task[t].wrote \cup {RowBy(t, task[t].statements, TRUE)})
      /\ task'[t].late = task[t].late /\ task'[t].statements = (task[t].statements + 1)
      /\ task'[t].failed = task[t].failed /\ task'[t].disturbed = task[t].disturbed
      /\ task'[t].lost = task[t].lost /\ task'[t].verdict = task[t].verdict
  <2>1. task' = [task EXCEPT ![t] = [task[t] EXCEPT !.statements = (task[t].statements + 1),
          !.wrote = (task[t].wrote \cup {RowBy(t, task[t].statements, TRUE)})]]
    BY <1>1 DEF Succeeds
  <2>2. task'[t] = [task[t] EXCEPT !.statements = (task[t].statements + 1),
          !.wrote = (task[t].wrote \cup {RowBy(t, task[t].statements, TRUE)})]
    BY <2>1 DEF ConnInv, ConnTypeOK
  <2>3. task'[t] \in Task
    <3>1. task[t] \in Task /\ task[t].statements + 1 \in Nat
      BY <1>1, <1>8
    <3>2. [task[t] EXCEPT !.statements = (task[t].statements + 1),
            !.wrote = (task[t].wrote \cup {RowBy(t, task[t].statements, TRUE)})] \in Task
      BY <3>1, <1>9, TaskWrites
    <3> QED BY <3>2, <2>2
  <2>4. task' = [task EXCEPT ![t] = task'[t]]
    BY <2>1, <2>2
  <2> QED BY <1>1, <2>2, <2>3, <2>4 DEF Task
<1>10. \A r \in conn'[k].rows : r.by \notin setup.readonly
  BY <1>1, <1>2, <1>8
<1>4. setup' = setup /\ table' = table
  BY <1>1 DEF Succeeds
<1>5. Serves(t, task'[t], conn'[k])
  BY <1>1, <1>2, <1>3, <1>8 DEF Serves, Accounts, Working
<1>6. Accounts(t, task'[t], table')
  BY <1>1, <1>3, <1>4, <1>8 DEF Accounts, Serves
<1>7. table \subseteq table' /\ table' \subseteq Rows /\ table' \ table = {}
  BY <1>4 DEF ConnInv, ConnTypeOK
<1> QED BY <1>1, <1>2, <1>3, <1>4, <1>5, <1>6, <1>7, <1>8, <1>10, OwnStep DEF Working, ConnInv, ConnTypeOK

\* One that fails makes the transaction fail.
LEMMA FailsInv ==
  ASSUME ConnInv, NEW t \in Tasks, Fails(t)
  PROVE  ConnInv'
<1> DEFINE k == task[t].conn
<1>1. /\ task[t].phase = "body" /\ k \in Conns /\ conn[k] \in Connection /\ task[t] \in Task
      /\ Serves(t, task[t], conn[k]) /\ Accounts(t, task[t], table)
      /\ \A r \in conn[k].rows : r.by \notin setup.readonly
  BY DEF Fails, At, ConnInv, ConnTypeOK, HoldersMatch, Working, Of
<1>8. task[t].statements + 1 \in Nat
  BY <1>1 DEF Task
<1>2. /\ conn'[k] \in Connection /\ conn' = [conn EXCEPT ![k] = conn'[k]]
      /\ conn'[k].holder = conn[k].holder /\ conn'[k].tx = "failed"
      /\ conn'[k].setting = conn[k].setting /\ conn'[k].fenced = conn[k].fenced
      /\ conn'[k].rows = conn[k].rows
  <2>1. conn' = [conn EXCEPT ![k] = [conn[k] EXCEPT !.tx = "failed"]]
    BY <1>1 DEF Fails, Of, AfterError, Serves, Working
  <2>2. conn'[k] = [conn[k] EXCEPT !.tx = "failed"]
    BY <1>1, <2>1 DEF ConnInv, ConnTypeOK
  <2>3. conn'[k] \in Connection
    BY <1>1, <2>2 DEF Connection
  <2>4. conn' = [conn EXCEPT ![k] = conn'[k]]
    BY <2>1, <2>2
  <2> QED BY <1>1, <2>2, <2>3, <2>4 DEF Connection
<1>3. /\ task'[t] \in Task /\ task' = [task EXCEPT ![t] = task'[t]]
      /\ task'[t].phase = task[t].phase /\ task'[t].conn = task[t].conn
      /\ task'[t].wrote = task[t].wrote /\ task'[t].late = task[t].late
      /\ task'[t].statements = (task[t].statements + 1) /\ task'[t].failed = TRUE
      /\ task'[t].disturbed = task[t].disturbed /\ task'[t].lost = task[t].lost
      /\ task'[t].verdict = task[t].verdict
  <2>1. task' = [task EXCEPT ![t] = [task[t] EXCEPT !.statements = (task[t].statements + 1),
          !.failed = TRUE]]
    BY <1>1 DEF Fails
  <2>2. task'[t] = [task[t] EXCEPT !.statements = (task[t].statements + 1), !.failed = TRUE]
    BY <2>1 DEF ConnInv, ConnTypeOK
  <2>3. task'[t] \in Task
    BY <1>1, <2>2, <1>8 DEF Task
  <2>4. task' = [task EXCEPT ![t] = task'[t]]
    BY <2>1, <2>2
  <2> QED BY <1>1, <2>2, <2>3, <2>4 DEF Task
<1>4. setup' = setup /\ table' = table
  BY <1>1 DEF Fails
<1>5. Serves(t, task'[t], conn'[k])
  BY <1>1, <1>2, <1>3 DEF Serves, Accounts, Working
<1>6. Accounts(t, task'[t], table')
  BY <1>1, <1>3, <1>4 DEF Accounts, Serves
<1>7. table \subseteq table' /\ table' \subseteq Rows /\ table' \ table = {}
  BY <1>4 DEF ConnInv, ConnTypeOK
<1> QED BY <1>1, <1>2, <1>3, <1>4, <1>5, <1>6, <1>7, OwnStep DEF Working, ConnInv, ConnTypeOK

\* Returning leads to COMMIT, or to ROLLBACK.
LEMMA ReturnsInv ==
  ASSUME ConnInv, NEW t \in Tasks, Returns(t)
  PROVE  ConnInv'
<1> DEFINE k == task[t].conn
<1>1. /\ task[t].phase = "body" /\ k \in Conns /\ conn[k] \in Connection /\ task[t] \in Task
      /\ Serves(t, task[t], conn[k]) /\ Accounts(t, task[t], table)
      /\ \A r \in conn[k].rows : r.by \notin setup.readonly
  BY DEF Returns, At, ConnInv, ConnTypeOK, HoldersMatch, Working, Of
<1>2. conn' = conn /\ conn'[k] = conn[k]
  BY DEF Returns
<1>3. /\ task'[t] \in Task /\ task' = [task EXCEPT ![t] = task'[t]]
      /\ task'[t].phase = (IF setup.adapter = "postgres" /\ task[t].failed THEN "rollback"
              ELSE "commit")
      /\ task'[t].conn = task[t].conn /\ task'[t].wrote = task[t].wrote
      /\ task'[t].late = task[t].late /\ task'[t].statements = task[t].statements
      /\ task'[t].failed = task[t].failed /\ task'[t].disturbed = task[t].disturbed
      /\ task'[t].lost = task[t].lost /\ task'[t].verdict = task[t].verdict
  <2>1. task' = [task EXCEPT ![t] = [task[t] EXCEPT !.phase = (IF setup.adapter = "postgres"
          /\ task[t].failed THEN "rollback" ELSE "commit")]]
    BY <1>1 DEF Returns
  <2>2. task'[t] = [task[t] EXCEPT !.phase = (IF setup.adapter = "postgres" /\ task[t].failed
          THEN "rollback" ELSE "commit")]
    BY <2>1 DEF ConnInv, ConnTypeOK
  <2>3. task'[t] \in Task
    BY <1>1, <2>2 DEF Task
  <2>4. task' = [task EXCEPT ![t] = task'[t]]
    BY <2>1, <2>2
  <2> QED BY <1>1, <2>2, <2>3, <2>4 DEF Task
<1>4. setup' = setup /\ table' = table
  BY <1>1 DEF Returns
<1>5. Serves(t, task'[t], conn'[k])
  BY <1>1, <1>2, <1>3  DEF Serves, Accounts, Working
<1>6. Accounts(t, task'[t], table')
  BY <1>1, <1>3, <1>4 DEF Accounts, Serves
<1>7. table \subseteq table' /\ table' \subseteq Rows /\ table' \ table = {}
  BY <1>4 DEF ConnInv, ConnTypeOK
<1> QED BY <1>1, <1>2, <1>3, <1>4, <1>5, <1>6, <1>7, OwnStep DEF Working, ConnInv, ConnTypeOK

\* Throwing leads to ROLLBACK.
LEMMA ThrowsInv ==
  ASSUME ConnInv, NEW t \in Tasks, Throws(t)
  PROVE  ConnInv'
<1> DEFINE k == task[t].conn
<1>1. /\ task[t].phase = "body" /\ k \in Conns /\ conn[k] \in Connection /\ task[t] \in Task
      /\ Serves(t, task[t], conn[k]) /\ Accounts(t, task[t], table)
      /\ \A r \in conn[k].rows : r.by \notin setup.readonly
  BY DEF Throws, At, ConnInv, ConnTypeOK, HoldersMatch, Working, Of
<1>2. conn' = conn /\ conn'[k] = conn[k]
  BY DEF Throws
<1>3. /\ task'[t] \in Task /\ task' = [task EXCEPT ![t] = task'[t]]
      /\ task'[t].phase = "rollback" /\ task'[t].conn = task[t].conn
      /\ task'[t].wrote = task[t].wrote /\ task'[t].late = task[t].late
      /\ task'[t].statements = task[t].statements /\ task'[t].failed = task[t].failed
      /\ task'[t].disturbed = task[t].disturbed /\ task'[t].lost = task[t].lost
      /\ task'[t].verdict = task[t].verdict
  <2>1. task' = [task EXCEPT ![t] = [task[t] EXCEPT !.phase = "rollback"]]
    BY <1>1 DEF Throws
  <2>2. task'[t] = [task[t] EXCEPT !.phase = "rollback"]
    BY <2>1 DEF ConnInv, ConnTypeOK
  <2>3. task'[t] \in Task
    BY <1>1, <2>2 DEF Task
  <2>4. task' = [task EXCEPT ![t] = task'[t]]
    BY <2>1, <2>2
  <2> QED BY <1>1, <2>2, <2>3, <2>4 DEF Task
<1>4. setup' = setup /\ table' = table
  BY <1>1 DEF Throws
<1>5. Serves(t, task'[t], conn'[k])
  BY <1>1, <1>2, <1>3 DEF Serves, Accounts, Working
<1>6. Accounts(t, task'[t], table')
  BY <1>1, <1>3, <1>4 DEF Accounts, Serves
<1>7. table \subseteq table' /\ table' \subseteq Rows /\ table' \ table = {}
  BY <1>4 DEF ConnInv, ConnTypeOK
<1> QED BY <1>1, <1>2, <1>3, <1>4, <1>5, <1>6, <1>7, OwnStep DEF Working, ConnInv, ConnTypeOK

\* COMMIT adds the rows to the table unless the transaction failed.
LEMMA CommitInv ==
  ASSUME ConnInv, NEW t \in Tasks, CommitTx(t)
  PROVE  ConnInv'
<1> DEFINE k == task[t].conn
<1>1. /\ task[t].phase = "commit" /\ k \in Conns /\ conn[k] \in Connection /\ task[t] \in Task
      /\ Serves(t, task[t], conn[k]) /\ Accounts(t, task[t], table)
      /\ \A r \in conn[k].rows : r.by \notin setup.readonly
  BY DEF CommitTx, At, ConnInv, ConnTypeOK, HoldersMatch, Working, Of
<1>2. /\ conn'[k] \in Connection /\ conn' = [conn EXCEPT ![k] = conn'[k]]
      /\ conn'[k].holder = conn[k].holder /\ conn'[k].tx = "none"
      /\ conn'[k].setting = Nobody /\ conn'[k].fenced = FALSE /\ conn'[k].rows = {}
  <2>1. conn' = [conn EXCEPT ![k] = [conn[k] EXCEPT !.tx = "none", !.setting = Nobody,
          !.fenced = FALSE, !.rows = {}]]
    BY <1>1 DEF CommitTx, Of, AfterTx
  <2>2. conn'[k] = [conn[k] EXCEPT !.tx = "none", !.setting = Nobody, !.fenced = FALSE, !.rows = {}]
    BY <1>1, <2>1 DEF ConnInv, ConnTypeOK
  <2>3. conn'[k] \in Connection
    BY <1>1, <2>2 DEF Connection, Settings, CleanConn
  <2>4. conn' = [conn EXCEPT ![k] = conn'[k]]
    BY <2>1, <2>2
  <2> QED BY <1>1, <2>2, <2>3, <2>4 DEF Connection, Settings, CleanConn
<1>3. /\ task'[t] \in Task /\ task' = [task EXCEPT ![t] = task'[t]]
      /\ task'[t].phase = "release" /\ task'[t].conn = task[t].conn
      /\ task'[t].wrote = task[t].wrote /\ task'[t].late = task[t].late
      /\ task'[t].statements = task[t].statements /\ task'[t].failed = task[t].failed
      /\ task'[t].disturbed = task[t].disturbed /\ task'[t].lost = task[t].lost
      /\ task'[t].verdict = "resolved"
  <2>1. task' = [task EXCEPT ![t] = [task[t] EXCEPT !.phase = "release", !.verdict = "resolved"]]
    BY <1>1 DEF CommitTx, Ended
  <2>2. task'[t] = [task[t] EXCEPT !.phase = "release", !.verdict = "resolved"]
    BY <2>1 DEF ConnInv, ConnTypeOK
  <2>3. task'[t] \in Task
    BY <1>1, <2>2 DEF Task
  <2>4. task' = [task EXCEPT ![t] = task'[t]]
    BY <2>1, <2>2
  <2> QED BY <1>1, <2>2, <2>3, <2>4 DEF Task
<1>4. setup' = setup /\ table \subseteq table' /\ table' \subseteq table \cup Committed(conn[k])
      /\ (task'[t].verdict = "resolved" => table' = table \cup Committed(conn[k]))
      /\ (table' = table \/ table' = table \cup Committed(conn[k]))
  BY <1>1, <1>3 DEF CommitTx, Of
<1>5. Serves(t, task'[t], conn'[k])
  BY <1>1, <1>2, <1>3 DEF Serves, Accounts, Working
<1>6. \A r \in Committed(conn[k]) :
        r \in Rows /\ r.by \notin setup.readonly /\ (r.live => r \in task[t].wrote /\ r.by = t)
  BY <1>1 DEF Committed, Serves, Accounts, Connection
<1>7. task[t].wrote \cap table = {}
  BY <1>1 DEF Accounts
<1>8. conn[k].tx = "open" => task[t].wrote \subseteq Committed(conn[k])
  BY <1>1 DEF Committed, Serves
<1>9. conn[k].tx = "open" \/ (conn[k].tx = "failed" /\ Committed(conn[k]) = {})
  BY <1>1 DEF Committed, Serves, Connection, Working
<1>10. task'[t].wrote \cap table' \in {{}, task'[t].wrote}
  BY <1>3, <1>4, <1>7, <1>8, <1>9
<1>11. conn[k].tx = "failed" =>
         setup.adapter = "node-postgres" /\ (task'[t].failed \/ task'[t].disturbed)
  BY <1>1, <1>3 DEF Serves, Accounts, ConnInv, ConnTypeOK, Databases
<1>12. Accounts(t, task'[t], table')
  <2>1. task'[t].verdict = "resolved" /\ task'[t].wrote \cap table' # task'[t].wrote =>
          conn[k].tx = "failed"
    BY <1>3, <1>4, <1>8, <1>9
  <2>2. task'[t].verdict = "resolved" \/ task'[t].lost
    BY <1>3
  <2>3. /\ \A r \in task'[t].wrote : r.by = t /\ r.live
        /\ task'[t].disturbed => setup.adapter = "node-postgres"
        /\ task'[t].phase = "release"
    BY <1>1, <1>3 DEF Accounts
  <2> QED BY <1>10, <1>11, <2>1, <2>2, <2>3 DEF Accounts
<1>13. table' \subseteq Rows /\ \A r \in table' \ table : r.by \notin setup.readonly /\ (r.live
        => r.by = t)
  BY <1>4, <1>6 DEF ConnInv, ConnTypeOK
<1> QED BY <1>1, <1>2, <1>3, <1>4, <1>5, <1>12, <1>13, OwnStep DEF Working

\* Without an answer it may have added them.
LEMMA CommitLostInv ==
  ASSUME ConnInv, NEW t \in Tasks, CommitLost(t)
  PROVE  ConnInv'
<1> DEFINE k == task[t].conn
<1>1. /\ task[t].phase = "commit" /\ k \in Conns /\ conn[k] \in Connection /\ task[t] \in Task
      /\ Serves(t, task[t], conn[k]) /\ Accounts(t, task[t], table)
      /\ \A r \in conn[k].rows : r.by \notin setup.readonly
  BY DEF CommitLost, At, ConnInv, ConnTypeOK, HoldersMatch, Working, Of
<1>2. /\ conn'[k] \in Connection /\ conn' = [conn EXCEPT ![k] = conn'[k]]
      /\ conn'[k].holder = t /\ conn'[k].tx = "none"
      /\ conn'[k].setting = Nobody /\ conn'[k].fenced = FALSE /\ conn'[k].rows = {}
  <2>1. conn' = [conn EXCEPT ![k] = [CleanConn EXCEPT !.holder = t]]
    BY <1>1 DEF CommitLost, Of, AfterTx, CleanConn, Connection, Serves
  <2>2. conn'[k] = [CleanConn EXCEPT !.holder = t]
    BY <1>1, <2>1 DEF ConnInv, ConnTypeOK
  <2>3. conn'[k] \in Connection
    BY <1>1, <2>2 DEF Connection, Settings, CleanConn
  <2>4. conn' = [conn EXCEPT ![k] = conn'[k]]
    BY <2>1, <2>2
  <2> QED BY <1>1, <2>2, <2>3, <2>4 DEF Connection, Settings, CleanConn
<1>3. /\ task'[t] \in Task /\ task' = [task EXCEPT ![t] = task'[t]]
      /\ task'[t].phase = "release" /\ task'[t].conn = task[t].conn
      /\ task'[t].wrote = task[t].wrote /\ task'[t].late = task[t].late
      /\ task'[t].statements = task[t].statements /\ task'[t].failed = task[t].failed
      /\ task'[t].disturbed = task[t].disturbed /\ task'[t].lost = TRUE
      /\ task'[t].verdict = "rejected"
  <2>1. task' = [task EXCEPT ![t] = [task[t] EXCEPT !.phase = "release",
          !.verdict = "rejected", !.lost = TRUE]]
    BY <1>1 DEF CommitLost, Ended
  <2>2. task'[t] = [task[t] EXCEPT !.phase = "release", !.verdict = "rejected", !.lost = TRUE]
    BY <2>1 DEF ConnInv, ConnTypeOK
  <2>3. task'[t] \in Task
    BY <1>1, <2>2 DEF Task
  <2>4. task' = [task EXCEPT ![t] = task'[t]]
    BY <2>1, <2>2
  <2> QED BY <1>1, <2>2, <2>3, <2>4 DEF Task
<1>4. setup' = setup /\ table \subseteq table' /\ table' \subseteq table \cup Committed(conn[k])
      /\ (task'[t].verdict = "resolved" => table' = table \cup Committed(conn[k]))
      /\ (table' = table \/ table' = table \cup Committed(conn[k]))
  BY <1>1, <1>3 DEF CommitLost, Of
<1>5. Serves(t, task'[t], conn'[k])
  BY <1>1, <1>2, <1>3 DEF Serves, Accounts, Working
<1>6. \A r \in Committed(conn[k]) :
        r \in Rows /\ r.by \notin setup.readonly /\ (r.live => r \in task[t].wrote /\ r.by = t)
  BY <1>1 DEF Committed, Serves, Accounts, Connection
<1>7. task[t].wrote \cap table = {}
  BY <1>1 DEF Accounts
<1>8. conn[k].tx = "open" => task[t].wrote \subseteq Committed(conn[k])
  BY <1>1 DEF Committed, Serves
<1>9. conn[k].tx = "open" \/ (conn[k].tx = "failed" /\ Committed(conn[k]) = {})
  BY <1>1 DEF Committed, Serves, Connection, Working
<1>10. task'[t].wrote \cap table' \in {{}, task'[t].wrote}
  BY <1>3, <1>4, <1>7, <1>8, <1>9
<1>11. conn[k].tx = "failed" =>
         setup.adapter = "node-postgres" /\ (task'[t].failed \/ task'[t].disturbed)
  BY <1>1, <1>3 DEF Serves, Accounts, ConnInv, ConnTypeOK, Databases
<1>12. Accounts(t, task'[t], table')
  <2>1. task'[t].verdict = "resolved" /\ task'[t].wrote \cap table' # task'[t].wrote =>
          conn[k].tx = "failed"
    BY <1>3, <1>4, <1>8, <1>9
  <2>2. task'[t].verdict = "resolved" \/ task'[t].lost
    BY <1>3
  <2>3. /\ \A r \in task'[t].wrote : r.by = t /\ r.live
        /\ task'[t].disturbed => setup.adapter = "node-postgres"
        /\ task'[t].phase = "release"
    BY <1>1, <1>3 DEF Accounts
  <2> QED BY <1>10, <1>11, <2>1, <2>2, <2>3 DEF Accounts
<1>13. table' \subseteq Rows /\ \A r \in table' \ table : r.by \notin setup.readonly /\ (r.live
        => r.by = t)
  BY <1>4, <1>6 DEF ConnInv, ConnTypeOK
<1> QED BY <1>1, <1>2, <1>3, <1>4, <1>5, <1>12, <1>13, OwnStep DEF Working

\* ROLLBACK leaves nothing.
LEMMA RollbackInv ==
  ASSUME ConnInv, NEW t \in Tasks, RollbackTx(t)
  PROVE  ConnInv'
<1> DEFINE k == task[t].conn
<1>1. /\ task[t].phase = "rollback" /\ k \in Conns /\ conn[k] \in Connection /\ task[t] \in Task
      /\ Serves(t, task[t], conn[k]) /\ Accounts(t, task[t], table)
      /\ \A r \in conn[k].rows : r.by \notin setup.readonly
  BY DEF RollbackTx, At, ConnInv, ConnTypeOK, HoldersMatch, Working, Of
<1>2. /\ conn'[k] \in Connection /\ conn' = [conn EXCEPT ![k] = conn'[k]]
      /\ conn'[k].holder = conn[k].holder /\ conn'[k].tx = "none"
      /\ conn'[k].setting = Nobody /\ conn'[k].fenced = FALSE /\ conn'[k].rows = {}
  <2>1. conn' = [conn EXCEPT ![k] = [conn[k] EXCEPT !.tx = "none", !.setting = Nobody,
          !.fenced = FALSE, !.rows = {}]]
    BY <1>1 DEF RollbackTx, Of, AfterTx
  <2>2. conn'[k] = [conn[k] EXCEPT !.tx = "none", !.setting = Nobody, !.fenced = FALSE, !.rows = {}]
    BY <1>1, <2>1 DEF ConnInv, ConnTypeOK
  <2>3. conn'[k] \in Connection
    BY <1>1, <2>2 DEF Connection, Settings
  <2>4. conn' = [conn EXCEPT ![k] = conn'[k]]
    BY <2>1, <2>2
  <2> QED BY <1>1, <2>2, <2>3, <2>4 DEF Connection, Settings
<1>3. /\ task'[t] \in Task /\ task' = [task EXCEPT ![t] = task'[t]]
      /\ task'[t].phase = "release" /\ task'[t].conn = task[t].conn
      /\ task'[t].wrote = task[t].wrote /\ task'[t].late = task[t].late
      /\ task'[t].statements = task[t].statements /\ task'[t].failed = task[t].failed
      /\ task'[t].disturbed = task[t].disturbed /\ task'[t].lost = task[t].lost
      /\ task'[t].verdict = "rejected"
  <2>1. task' = [task EXCEPT ![t] = [task[t] EXCEPT !.phase = "release", !.verdict = "rejected"]]
    BY <1>1 DEF RollbackTx, Ended
  <2>2. task'[t] = [task[t] EXCEPT !.phase = "release", !.verdict = "rejected"]
    BY <2>1 DEF ConnInv, ConnTypeOK
  <2>3. task'[t] \in Task
    BY <1>1, <2>2 DEF Task
  <2>4. task' = [task EXCEPT ![t] = task'[t]]
    BY <2>1, <2>2
  <2> QED BY <1>1, <2>2, <2>3, <2>4 DEF Task
<1>4. setup' = setup /\ table' = table
  BY <1>1 DEF RollbackTx
<1>5. Serves(t, task'[t], conn'[k])
  BY <1>1, <1>2, <1>3 DEF Serves, Accounts, Working
<1>6. Accounts(t, task'[t], table')
  BY <1>1, <1>3, <1>4 DEF Accounts, Serves
<1>7. table \subseteq table' /\ table' \subseteq Rows /\ table' \ table = {}
  BY <1>4 DEF ConnInv, ConnTypeOK
<1> QED BY <1>1, <1>2, <1>3, <1>4, <1>5, <1>6, <1>7, OwnStep DEF Working, ConnInv, ConnTypeOK

\* The connection goes back to the pool clean.
LEMMA ReleaseInv ==
  ASSUME ConnInv, NEW t \in Tasks, Release(t)
  PROVE  ConnInv'
<1> DEFINE k == task[t].conn
<1>1. /\ task[t].phase = "release" /\ k \in Conns /\ conn[k] \in Connection /\ task[t] \in Task
      /\ Serves(t, task[t], conn[k]) /\ Accounts(t, task[t], table)
      /\ \A r \in conn[k].rows : r.by \notin setup.readonly
  BY DEF Release, At, ConnInv, ConnTypeOK, HoldersMatch, Working, Of
<1>2. /\ conn'[k] \in Connection /\ conn' = [conn EXCEPT ![k] = conn'[k]]
      /\ conn'[k].holder = Nobody /\ conn'[k].tx = conn[k].tx
      /\ conn'[k].setting = conn[k].setting /\ conn'[k].fenced = conn[k].fenced
      /\ conn'[k].rows = conn[k].rows
  <2>1. conn' = [conn EXCEPT ![k] = [conn[k] EXCEPT !.holder = Nobody]]
    BY <1>1 DEF Release
  <2>2. conn'[k] = [conn[k] EXCEPT !.holder = Nobody]
    BY <1>1, <2>1 DEF ConnInv, ConnTypeOK
  <2>3. conn'[k] \in Connection
    BY <1>1, <2>2 DEF Connection
  <2>4. conn' = [conn EXCEPT ![k] = conn'[k]]
    BY <2>1, <2>2
  <2> QED BY <1>1, <2>2, <2>3, <2>4 DEF Connection
<1>3. /\ task'[t] \in Task /\ task' = [task EXCEPT ![t] = task'[t]]
      /\ task'[t].phase = "ended" /\ task'[t].conn = task[t].conn
      /\ task'[t].wrote = task[t].wrote /\ task'[t].late = task[t].late
      /\ task'[t].statements = task[t].statements /\ task'[t].failed = task[t].failed
      /\ task'[t].disturbed = task[t].disturbed /\ task'[t].lost = task[t].lost
      /\ task'[t].verdict = task[t].verdict
  <2>1. task' = [task EXCEPT ![t] = [task[t] EXCEPT !.phase = "ended"]]
    BY <1>1 DEF Release
  <2>2. task'[t] = [task[t] EXCEPT !.phase = "ended"]
    BY <2>1 DEF ConnInv, ConnTypeOK
  <2>3. task'[t] \in Task
    BY <1>1, <2>2 DEF Task
  <2>4. task' = [task EXCEPT ![t] = task'[t]]
    BY <2>1, <2>2
  <2> QED BY <1>1, <2>2, <2>3, <2>4 DEF Task
<1>8. conn[k].tx = "none" /\ conn[k].setting = Nobody /\ conn[k].fenced = FALSE /\ conn[k].rows = {}
  BY <1>1 DEF Serves, Connection
<1>4. setup' = setup /\ table' = table
  BY <1>1 DEF Release
<1>5. conn'[k] = CleanConn
  BY <1>1, <1>2, <1>3, <1>8 DEF CleanConn, Connection
<1>6. Accounts(t, task'[t], table')
  BY <1>1, <1>3, <1>4 DEF Accounts, Serves
<1>7. table \subseteq table' /\ table' \subseteq Rows /\ table' \ table = {}
  BY <1>4 DEF ConnInv, ConnTypeOK
<1> QED BY <1>1, <1>2, <1>3, <1>4, <1>5, <1>6, <1>7, <1>8, OwnStep DEF Working, ConnInv, ConnTypeOK

\* A late statement adds a row that is not live, or makes the transaction of
\* another task fail, which notes it.
LEMMA LateInv ==
  ASSUME ConnInv, NEW t \in Tasks, Late(t)
  PROVE  ConnInv'
<1> DEFINE k == task[t].conn
           row == RowBy(t, task[t].late, FALSE)
<1>1. /\ k \in Conns /\ conn[k] \in Connection /\ task[t] \in Task /\ t \notin setup.readonly
      /\ task[t].phase \in {"release", "ended"} /\ setup.adapter = "node-postgres" /\ setup' = setup
  BY DEF Late, ConnInv, ConnTypeOK, HoldersMatch
<1>2. row \in Rows /\ row.by = t /\ ~row.live /\ task[t].late + 1 \in Nat
  BY <1>1 DEF RowBy, Rows, Task
<1>3. \A u \in Tasks :
        /\ Disturbs(k)[u] \in Task
        /\ Disturbs(k)[u] = task[u] \/ Disturbs(k)[u] = [task[u] EXCEPT !.disturbed = TRUE]
        /\ conn[k].holder = u /\ conn[k].tx # "none" => Disturbs(k)[u].disturbed
  <2> SUFFICES ASSUME NEW u \in Tasks
               PROVE  /\ Disturbs(k)[u] \in Task
                      /\ Disturbs(k)[u] = task[u] \/ Disturbs(k)[u] =
                              [task[u] EXCEPT !.disturbed = TRUE]
                      /\ conn[k].holder = u /\ conn[k].tx # "none" => Disturbs(k)[u].disturbed
    OBVIOUS
  <2>1. task[u] \in Task
    BY DEF ConnInv, ConnTypeOK
  <2>2. [task[u] EXCEPT !.disturbed = TRUE] \in Task
          /\ [task[u] EXCEPT !.disturbed = TRUE].disturbed
    BY <2>1 DEF Task
  <2>3. Disturbs(k)[u] = IF conn[k].holder = u /\ conn[k].tx # "none"
                         THEN [task[u] EXCEPT !.disturbed = TRUE] ELSE task[u]
    BY DEF Disturbs
  <2> QED BY <2>1, <2>2, <2>3
<1>4. \A u \in Tasks :
        /\ task'[u] \in Task /\ task'[u].phase = task[u].phase /\ task'[u].conn = task[u].conn
        /\ task'[u].wrote = task[u].wrote /\ task'[u].failed = task[u].failed
        /\ task'[u].lost = task[u].lost /\ task'[u].verdict = task[u].verdict
        /\ task[u].disturbed => task'[u].disturbed
        /\ conn[k].holder = u /\ conn[k].tx # "none" => task'[u].disturbed
  <2>1. task' = [Disturbs(k) EXCEPT ![t].late = task[t].late + 1]
    <3>1. Disturbs(k)[t].late = task[t].late
      BY <1>3 DEF ConnInv, ConnTypeOK, Task
    <3> QED BY <3>1 DEF Late
  <2>2. ASSUME NEW u \in Tasks
        PROVE  task'[u] = Disturbs(k)[u] \/ task'[u] =
                [Disturbs(k)[u] EXCEPT !.late = task[t].late + 1]
    BY <2>1 DEF Disturbs
  <2> SUFFICES ASSUME NEW u \in Tasks
               PROVE  /\ task'[u] \in Task /\ task'[u].phase = task[u].phase
                      /\ task'[u].conn = task[u].conn
                      /\ task'[u].wrote = task[u].wrote /\ task'[u].failed = task[u].failed
                      /\ task'[u].lost = task[u].lost /\ task'[u].verdict = task[u].verdict
                      /\ task[u].disturbed => task'[u].disturbed
                      /\ conn[k].holder = u /\ conn[k].tx # "none" => task'[u].disturbed
    OBVIOUS
  <2>3. task[u] \in Task /\ Disturbs(k)[u] \in Task
    BY <1>3 DEF ConnInv, ConnTypeOK
  <2>4. /\ Disturbs(k)[u].phase = task[u].phase /\ Disturbs(k)[u].conn = task[u].conn
        /\ Disturbs(k)[u].wrote = task[u].wrote /\ Disturbs(k)[u].failed = task[u].failed
        /\ Disturbs(k)[u].lost = task[u].lost /\ Disturbs(k)[u].verdict = task[u].verdict
        /\ task[u].disturbed => Disturbs(k)[u].disturbed
    <3>1. CASE Disturbs(k)[u] = task[u]
      BY <3>1
    <3>2. CASE Disturbs(k)[u] = [task[u] EXCEPT !.disturbed = TRUE]
      BY <2>3, <3>2 DEF Task
    <3> QED BY <1>3, <3>1, <3>2
  <2>5. CASE task'[u] = Disturbs(k)[u]
    BY <1>3, <2>3, <2>4, <2>5
  <2>6. CASE task'[u] = [Disturbs(k)[u] EXCEPT !.late = task[t].late + 1]
    <3> DEFINE d == Disturbs(k)[u]
               n == task[t].late + 1
    <3>1. d \in Task /\ n \in Nat /\ task'[u] = [d EXCEPT !.late = n]
      BY <1>2, <2>3, <2>6
    <3> HIDE DEF d, n
    <3>2. /\ task'[u] \in Task /\ task'[u].phase = d.phase /\ task'[u].conn = d.conn
          /\ task'[u].wrote = d.wrote /\ task'[u].failed = d.failed /\ task'[u].lost = d.lost
          /\ task'[u].verdict = d.verdict /\ task'[u].disturbed = d.disturbed
      BY <3>1 DEF Task
    <3> USE DEF d
    <3> QED BY <1>3, <2>4, <3>2
  <2> QED BY <2>2, <2>5, <2>6
<1>5. task' \in [Tasks -> Task]
  <2>1. task' = [u \in Tasks |-> task'[u]]
    BY DEF Late, Disturbs
  <2> QED BY <1>4, <2>1
<1>6. /\ table \subseteq table' /\ table' \subseteq table \cup {row}
      /\ \/ conn' = conn
         \/ conn[k].tx = "open" /\ conn' = [conn EXCEPT ![k].rows = @ \cup {row}]
                 /\ Allowed(t, conn[k])
         \/ conn[k].tx # "none" /\ conn' = [conn EXCEPT ![k].tx = "failed"]
  <2>1. CASE Allowed(t, conn[k])
    BY <1>1, <2>1 DEF Late, Allowed, Connection
  <2>2. CASE ~Allowed(t, conn[k])
    <3>1. conn' = [conn EXCEPT ![k] = AfterError(conn[k])] /\ table' = table
      BY <2>2 DEF Late
    <3>2. CASE conn[k].tx = "none"
      <4>1. AfterError(conn[k]) = conn[k]
        BY <1>1, <3>2 DEF AfterError, Connection
      <4> QED BY <3>1, <4>1, <1>1 DEF ConnInv, ConnTypeOK
    <3>3. CASE conn[k].tx # "none"
      BY <3>1, <3>3 DEF AfterError
    <3> QED BY <3>2, <3>3
  <2> QED BY <2>1, <2>2
<1>7. \A j \in Conns :
        /\ conn'[j] \in Connection /\ conn'[j].holder = conn[j].holder
        /\ conn'[j].setting = conn[j].setting /\ conn'[j].fenced = conn[j].fenced
        /\ conn'[j].tx = conn[j].tx \/ (j = k /\ conn[k].tx # "none" /\ conn'[j].tx = "failed")
        /\ conn[j].rows \subseteq conn'[j].rows /\ conn'[j].rows \subseteq conn[j].rows \cup {row}
        /\ conn[j].tx = "none" => conn'[j] = conn[j]
  <2>1. CASE conn' = conn
    BY <2>1 DEF ConnInv, ConnTypeOK
  <2>2. CASE conn[k].tx = "open" /\ conn' = [conn EXCEPT ![k].rows = @ \cup {row}]
    <3>1. conn[k].rows \cup {row} \in SUBSET Rows
      BY <1>1, <1>2 DEF Connection
    <3>2. [conn[k] EXCEPT !.rows = conn[k].rows \cup {row}] \in Connection
      BY <1>1, <3>1, ConnectionRows
    <3>3. conn'[k] = [conn[k] EXCEPT !.rows = conn[k].rows \cup {row}]
      BY <1>1, <2>2 DEF ConnInv, ConnTypeOK
    <3>4. /\ conn'[k].holder = conn[k].holder /\ conn'[k].setting = conn[k].setting
          /\ conn'[k].fenced = conn[k].fenced /\ conn'[k].tx = conn[k].tx
          /\ conn'[k].rows = conn[k].rows \cup {row}
      BY <1>1, <3>3 DEF Connection
    <3>5. \A j \in Conns \ {k} : conn'[j] = conn[j] /\ conn[j] \in Connection
      BY <2>2 DEF ConnInv, ConnTypeOK
    <3> QED BY <2>2, <3>2, <3>3, <3>4, <3>5
  <2>3. CASE conn[k].tx # "none" /\ conn' = [conn EXCEPT ![k].tx = "failed"]
    <3>1. conn'[k] = [conn[k] EXCEPT !.tx = "failed"]
      BY <1>1, <2>3 DEF ConnInv, ConnTypeOK
    <3>2. conn'[k] \in Connection
      BY <1>1, <3>1 DEF Connection
    <3>3. /\ conn'[k].holder = conn[k].holder /\ conn'[k].setting = conn[k].setting
          /\ conn'[k].fenced = conn[k].fenced /\ conn'[k].tx = "failed"
          /\ conn'[k].rows = conn[k].rows
      BY <1>1, <3>1 DEF Connection
    <3>4. \A j \in Conns \ {k} : conn'[j] = conn[j] /\ conn[j] \in Connection
      BY <2>3 DEF ConnInv, ConnTypeOK
    <3> QED BY <2>3, <3>2, <3>3, <3>4
  <2> QED BY <1>6, <2>1, <2>2, <2>3
<1>8. ConnTypeOK'
  <2>1. conn' \in [Conns -> Connection]
    <3>1. DOMAIN conn' = Conns /\ conn' = [j \in Conns |-> conn'[j]]
      BY <1>6 DEF ConnInv, ConnTypeOK
    <3> QED BY <1>7, <3>1
  <2>2. table' \subseteq Rows
    BY <1>2, <1>6 DEF ConnInv, ConnTypeOK
  <2> QED BY <1>1, <1>5, <2>1, <2>2 DEF ConnInv, ConnTypeOK
<1>9. HoldersMatch'
  <2>1. \A j \in Conns : conn[j].holder = Nobody => conn[j] = CleanConn /\ conn'[j] = conn[j]
    <3>1. CleanConn.tx = "none"
      BY DEF CleanConn
    <3>2. \A j \in Conns : conn[j].holder = Nobody => conn[j] = CleanConn
      BY DEF ConnInv, HoldersMatch
    <3>3. \A j \in Conns : conn[j].tx = "none" => conn'[j] = conn[j]
      BY <1>7
    <3> QED BY <3>1, <3>2, <3>3
  <2>2. \A j \in Conns : conn[j].holder # Nobody => conn[j].holder \in Tasks
    BY DEF ConnInv, ConnTypeOK, Connection
  <2>3. \A j \in Conns : conn'[j].holder = conn[j].holder
    BY <1>7
  <2>4. \A u \in Tasks : task'[u].phase = task[u].phase /\ task'[u].conn = task[u].conn
    BY <1>4
  <2>5. HoldersMatch
    BY DEF ConnInv
  <2> HIDE DEF k
  <2> QED BY <2>1, <2>2, <2>3, <2>4, <2>5 DEF HoldersMatch
<1>10. ASSUME NEW u \in Tasks, task'[u].phase \in Working
       PROVE  Serves(u, task[u], Of(u))'
  <2> DEFINE j == task[u].conn
  <2>1. j \in Conns /\ Serves(u, task[u], conn[j]) /\ task'[u].conn = j
    BY <1>4, <1>10 DEF ConnInv, HoldersMatch, Of, Working
  <2>2. task'[u].phase \in {"begin", "release"} => conn'[j] = conn[j]
    BY <1>4, <1>7, <2>1 DEF Serves
  <2>3. conn'[j].tx # conn[j].tx => task'[u].disturbed /\ conn'[j].tx = "failed"
          /\ conn[j].tx # "none"
    BY <1>4, <1>7, <2>1 DEF Serves
  <2>4. /\ task'[u].phase = task[u].phase /\ task'[u].wrote = task[u].wrote
        /\ task'[u].failed = task[u].failed /\ (task[u].disturbed => task'[u].disturbed)
    BY <1>4
  <2>5. /\ conn'[j].holder = conn[j].holder /\ conn'[j].setting = conn[j].setting
        /\ conn'[j].fenced = conn[j].fenced
        /\ conn[j].rows \subseteq conn'[j].rows /\ conn'[j].rows \subseteq conn[j].rows \cup {row}
    BY <1>7, <2>1
  <2>6. Serves(u, task'[u], conn'[j])
    BY <1>2, <2>1, <2>2, <2>3, <2>4, <2>5 DEF Serves, Working
  <2> QED BY <1>1, <2>1, <2>6 DEF Serves, Of
<1>11. ASSUME NEW u \in Tasks PROVE Accounts(u, task[u], table)'
  <2>1. Accounts(u, task[u], table)
    BY DEF ConnInv
  <2>2. task[u].wrote \cap table' = task[u].wrote \cap table
    BY <1>2, <1>6, <2>1 DEF Accounts
  <2>3. \A r \in table' : r \in table \/ ~r.live
    BY <1>2, <1>6
  <2> QED BY <1>1, <1>4, <2>1, <2>2, <2>3 DEF Accounts
<1>12. /\ \A j \in Conns : \A r \in conn'[j].rows : r.by \notin setup.readonly
       /\ \A r \in table' : r.by \notin setup.readonly
  <2>1. \A j \in Conns : conn'[j].rows \subseteq conn[j].rows \cup {row}
    BY <1>7
  <2>2. /\ \A j \in Conns : \A r \in conn[j].rows : r.by \notin setup.readonly
        /\ \A r \in table : r.by \notin setup.readonly
    BY DEF ConnInv
  <2>3. row.by \notin setup.readonly
    BY <1>1, <1>2
  <2>4. table' \subseteq table \cup {row}
    BY <1>6
  <2> HIDE DEF k, row
  <2> QED BY <2>1, <2>2, <2>3, <2>4
<1> QED BY <1>1, <1>8, <1>9, <1>10, <1>11, <1>12 DEF ConnInv

-----------------------------------------------------------------------------
\* Every step keeps the invariant.
LEMMA ConnNextInv == ConnInv /\ [PoolNext]_poolVars => ConnInv'
<1> SUFFICES ASSUME ConnInv, [PoolNext]_poolVars PROVE ConnInv'
  OBVIOUS
<1>1. CASE UNCHANGED poolVars
  BY <1>1 DEF poolVars, ConnInv, ConnTypeOK, HoldersMatch, Serves, Accounts, Of
<1>2. ASSUME NEW t \in Tasks, NEW k \in Conns, Connect(t, k) PROVE ConnInv'
  BY <1>2, ConnectInv
<1>3. ASSUME NEW t \in Tasks,
             \/ BeginTx(t) \/ Fence(t) \/ Configure(t) \/ Succeeds(t) \/ Fails(t) \/ Returns(t)
             \/ Throws(t) \/ CommitTx(t) \/ CommitLost(t) \/ RollbackTx(t) \/ Release(t) \/ Late(t)
      PROVE  ConnInv'
  BY <1>3, BeginInv, FenceInv, ConfigureInv, SucceedsInv, FailsInv, ReturnsInv, ThrowsInv,
     CommitInv, CommitLostInv, RollbackInv, ReleaseInv, LateInv
<1> QED BY <1>1, <1>2, <1>3 DEF PoolNext

\* Whatever fails, whichever answers are lost and whoever goes on too long:
\* connections of the pool carry nothing over, every statement of a function
\* runs under its own workspace and fence, and the verdict of transaction() tells
\* whether the rows are there, but in the cases that VerdictsHold names.
THEOREM ConnectionsSafe == PoolSpec => []TransactionsHold
<1>1. PoolInit => ConnInv
  BY ConnInitInv
<1>2. ConnInv /\ [PoolNext]_poolVars => ConnInv'
  BY ConnNextInv
<1>3. ConnInv => TransactionsHold
  BY InvImplies
<1> QED BY <1>1, <1>2, <1>3, PTL DEF PoolSpec
=============================================================================
