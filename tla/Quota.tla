-------------------------------- MODULE Quota --------------------------------
(***************************************************************************)
(* maxWorkspaceBytes. The blobs of a workspace are summed under an         *)
(* advisory lock of the workspace that only instances with the option      *)
(* take, and keep until their transaction ends; the blob is inserted       *)
(* after. The transactions of several instances on one version are         *)
(* interleaved step by step, a collection of blobs among them.             *)
(***************************************************************************)
EXTENDS Integers, FiniteSets, FiniteSetsExt

CONSTANTS
  Writers,     \* instances, each with one transaction at a time
  Stored,      \* contents written
  Size,        \* their sizes
  Limit,       \* maxWorkspaceBytes of each instance, or Unlimited
  Unlimited,   \* the option is not set
  MaxWrites    \* bound on the operations of a transaction

ASSUME QuotaAssumption ==
  /\ Size \in [Stored -> Nat]
  /\ Unlimited \notin Nat
  /\ \A c \in Writers : Limit[c] \in Nat \cup {Unlimited}

VARIABLES
  blobs,     \* committed fs_blobs rows
  writing,   \* the transaction of each instance
  unbound,   \* whether an instance without the option has stored a blob
  held       \* row locks and advisory locks held

Db == INSTANCE RowLocks WITH Clients <- Writers, locks <- held

quotaVars == <<blobs, writing, unbound, held>>

\* step: what the transaction does next; mine: blobs it has inserted; ops:
\* operations it has begun, 0 when there is no transaction.
AnyContent == CHOOSE h \in Stored : TRUE
NoWrite == [step |-> "ready", content |-> AnyContent, mine |-> {}, ops |-> 0]

QuotaInit ==
  /\ blobs = {}
  /\ writing = [c \in Writers |-> NoWrite]
  /\ unbound = FALSE
  /\ held = {}

Bytes(hashes) == MapThenSumSet(LAMBDA h : Size[h], hashes)
SeenBy(c) == blobs \cup writing[c].mine

-----------------------------------------------------------------------------
\* Mutant: the check goes on without the advisory lock.
LocksUnchecked(c) ==
  IF writing[c].step \in {"rm", "bump"} THEN {Db!Lock(c, "version", "v", "noKeyUpdate")} ELSE {}

\* The locks of the next step: the workspace's for the sum, the version row at
\* the end of a write or a rm, the index entry of a blob to be inserted.
LocksOf(c) ==
  CASE writing[c].step = "quota" -> {Db!Lock(c, "quota", "workspace", "update")}
    [] writing[c].step \in {"rm", "bump"} -> {Db!Lock(c, "version", "v", "noKeyUpdate")}
    [] OTHER -> {}
InsertedBy(h) == {d \in Writers : h \in writing[d].mine}
BlockedBy(c) ==
  Db!HoldersAgainst(c, LocksOf(c))
    \cup (IF writing[c].step = "insert" THEN InsertedBy(writing[c].content) \ {c} ELSE {})
GrantLock(c) == BlockedBy(c) = {} /\ held' = held \cup LocksOf(c)

Goes(c, step) == writing' = [writing EXCEPT ![c].step = step]

\* writeFile of a content, on the transactional path: the fast one is not for
\* instances with the option, and is one write in a transaction of its own.
BeginFile(c, h) ==
  /\ writing[c].step = "ready" /\ writing[c].ops < MaxWrites
  /\ writing' = [writing EXCEPT ![c].step = IF Limit[c] = Unlimited THEN "insert" ELSE "quota",
                                ![c].content = h, ![c].ops = @ + 1]
  /\ UNCHANGED <<blobs, unbound, held>>

\* rm, mkdir, chmod: they lock the version and store no blob.
BeginRemoval(c) ==
  /\ writing[c].step = "ready" /\ writing[c].ops < MaxWrites
  /\ writing' = [writing EXCEPT ![c].step = "rm", ![c].ops = @ + 1]
  /\ UNCHANGED <<blobs, unbound, held>>

LockQuota(c) ==
  /\ writing[c].step = "quota" /\ GrantLock(c)
  /\ Goes(c, "check")
  /\ UNCHANGED <<blobs, unbound>>

AbortWrite(c) ==
  /\ writing' = [writing EXCEPT ![c] = NoWrite]
  /\ Db!Release(c)
  /\ UNCHANGED <<blobs, unbound>>

PastLimit(c) == Bytes(SeenBy(c)) + Size[writing[c].content] > Limit[c]

\* A content that is stored costs nothing.
Check(c) ==
  /\ writing[c].step = "check"
  /\ IF writing[c].content \notin SeenBy(c) /\ PastLimit(c)
     THEN AbortWrite(c)
     ELSE Goes(c, "insert") /\ UNCHANGED <<blobs, unbound, held>>

\* ON CONFLICT DO NOTHING, once a transaction that inserted it has ended.
InsertBlob(c) ==
  /\ writing[c].step = "insert" /\ GrantLock(c)
  /\ writing' = [writing EXCEPT ![c].step = "bump",
                                ![c].mine = @ \cup ({writing[c].content} \ blobs)]
  /\ UNCHANGED <<blobs, unbound>>

BumpVersion(c) ==
  /\ writing[c].step \in {"rm", "bump"} /\ GrantLock(c)
  /\ writing' = [writing EXCEPT ![c].step = "ready", ![c].content = AnyContent]
  /\ UNCHANGED <<blobs, unbound>>

CommitBlobs(c) ==
  /\ writing[c].step = "ready" /\ writing[c].ops > 0
  /\ blobs' = blobs \cup writing[c].mine
  /\ unbound' = (unbound \/ (Limit[c] = Unlimited /\ writing[c].mine # {}))
  /\ writing' = [writing EXCEPT ![c] = NoWrite]
  /\ Db!Release(c)

RollbackBlobs(c) == writing[c].step = "ready" /\ writing[c].ops > 0 /\ AbortWrite(c)

\* PostgreSQL aborts a transaction of a cycle of waiters: one that holds the
\* version and waits for the workspace's lock, one the other way round.
BreakDeadlock(c) == Db!InCycle(c, BlockedBy) /\ AbortWrite(c)

\* A sweep or a hard delete collects blobs.
CollectBlobs(hashes) ==
  /\ hashes # {} /\ hashes \subseteq blobs
  /\ blobs' = blobs \ hashes
  /\ UNCHANGED <<writing, unbound, held>>

QuotaNext ==
  \/ \E c \in Writers :
       \/ BeginRemoval(c) \/ LockQuota(c) \/ Check(c) \/ InsertBlob(c) \/ BumpVersion(c)
       \/ CommitBlobs(c) \/ RollbackBlobs(c) \/ BreakDeadlock(c)
       \/ \E h \in Stored : BeginFile(c, h)
  \/ \E hashes \in SUBSET blobs : CollectBlobs(hashes)

QuotaSpec == QuotaInit /\ [][QuotaNext]_quotaVars

-----------------------------------------------------------------------------
\* While every instance that stores blobs has the option, the workspace never
\* holds more than the largest of the limits: neither two checks at once, nor a
\* blob collected between its check and its insertion, nor several writes of a
\* transaction get past it.
QuotaHolds ==
  ~unbound /\ blobs # {} => \E c \in Writers : Limit[c] # Unlimited /\ Bytes(blobs) <= Limit[c]
=============================================================================
