------------------------------ MODULE TreeRace ------------------------------
(***************************************************************************)
(* Tree operations of several instances on one version, interleaved        *)
(* statement by statement at READ COMMITTED. A statement sees the rows     *)
(* committed when it starts and those of its own transaction. It locks the *)
(* entry rows it writes one by one, then, last, the row of the version,    *)
(* whose last_write_at it sets; the locks stay until the transaction ends. *)
(* What it writes was decided on the rows it saw before it had any lock.   *)
(***************************************************************************)
EXTENDS Merge

CONSTANTS
  Racers,   \* connections, each running one transaction at a time
  Touched,  \* paths the operations are called with
  Source,   \* version to merge: its view, that of the common ancestor, whether it is it
  MaxRaces  \* bound on the transactions opened

ASSUME RaceAssumption ==
  /\ Touched \subseteq Paths
  /\ {Source.view, Source.base} \subseteq [Paths -> (Row \ {Tombstone}) \cup {Absent}]

VARIABLES
  committed,  \* committed rows of the version
  race,       \* the transaction of each client, or NoRace
  begun,      \* transactions opened so far
  rowLocks    \* locks held

raceVars == <<committed, race, begun, rowLocks>>
Postgres == INSTANCE RowLocks WITH Clients <- Racers, locks <- rowLocks

NoRows == [p \in Paths |-> Absent]

\* op, its path, the second path of a move and the piece of content; the steps
\* still to do and what the reads found; the rows the running statement will
\* write and those it has still to lock; the rows the transaction has written;
\* whether another one has committed since this one began.
NoRace == [op |-> "none", path |-> Root, dest |-> Root, piece |-> <<>>,
           todo |-> <<>>, seen |-> NoRows, puts |-> NoRows, tolock |-> {},
           running |-> FALSE, mine |-> NoRows, stale |-> FALSE]

Begun(c) == race[c].op # "none"
PutOver(rows, puts) == [p \in Paths |-> IF puts[p] # Absent THEN puts[p] ELSE rows[p]]
Current(c) == PutOver(committed, race[c].mine)
PathsPut(puts) == {p \in Paths : puts[p] # Absent}

\* Steps of a transaction: reads, decisions on what was read, statements.
Do(kind, path, paths, rows) == [kind |-> kind, path |-> path, paths |-> paths, rows |-> rows]
ReadOf(paths) == Do("read", Root, paths, NoRows)
EnsureOf(p) == Do("ensure", p, {}, NoRows)
DecideOf == Do("decide", Root, {}, NoRows)
LockVersionOf == Do("lock", Root, {}, NoRows)
PutOf(p, row) == Do("rows", p, {}, [NoRows EXCEPT ![p] = row])
PutAllOf(rows) == Do("rows", Root, {}, rows)
WriteOf(p, content) == Do("write", p, {}, [NoRows EXCEPT ![p] = File(content, "0644")])
RemoveOf(p) == Do("subtree", p, {}, NoRows)
MkdirOf(p) == Do("mkdir", p, {}, NoRows)

IsStatement(step) == step.kind \in {"rows", "write", "rewrite", "subtree", "mkdir"}

\* The rows a statement writes on what it sees.
PutsOf(statement, seen) ==
  CASE statement.kind = "subtree" ->
         [p \in Paths |-> IF p \in Under(statement.path) /\ Shows(seen, p)
                          THEN Tombstone ELSE Absent]
    [] statement.kind = "mkdir" ->
         [p \in Paths |-> IF p \in Segments(statement.path) /\ ~ShowsDirectory(seen, p)
                          THEN Directory("0755") ELSE Absent]
    [] OTHER -> statement.rows

-----------------------------------------------------------------------------
Open(c, op, path, dest, piece, todo) ==
  /\ race[c] = NoRace
  /\ begun < MaxRaces
  /\ begun' = begun + 1
  /\ race' = [race EXCEPT ![c] = [NoRace EXCEPT !.op = op, !.path = path, !.dest = dest,
                                                !.piece = piece, !.todo = todo]]
  /\ UNCHANGED <<committed, rowLocks>>

\* internalMkdir looks at one directory of p after the other, from the n-th on;
\* then what is at p itself is read.
LookFrom(p, n) ==
  IF n <= Len(Parent(p)) THEN <<ReadOf({SubSeq(p, 1, n)}), EnsureOf(SubSeq(p, 1, n))>>
  ELSE <<ReadOf({p}), DecideOf>>

BeginWrite(c, p, piece) == Open(c, "write", p, Root, <<piece>>, <<WriteOf(p, <<piece>>)>>)
BeginAppend(c, p, piece) == Open(c, "append", p, Root, <<piece>>, LookFrom(p, 1))
BeginRm(c, p) == Open(c, "rm", p, Root, <<>>, <<ReadOf({p}), DecideOf>>)
BeginMv(c, p, dest) ==
  Open(c, "mv", p, dest, <<>>,
       <<ReadOf({p}), ReadOf({Parent(dest)}), ReadOf({dest}), DecideOf>>)
BeginMerge(c) == Open(c, "merge", Root, Root, <<>>, <<ReadOf(Paths), DecideOf>>)

StepOf(c) == Head(race[c].todo)
Becomes(c, t) == race' = [race EXCEPT ![c] = t]
GoesOn(c, t) == Becomes(c, t) /\ UNCHANGED <<committed, begun, rowLocks>>

\* resolveEntry, fetchVisibleEntryMap
Read(c) ==
  /\ race[c].todo # <<>> /\ StepOf(c).kind = "read"
  /\ GoesOn(c, [race[c] EXCEPT
       !.todo = Tail(@),
       !.seen = [p \in Paths |-> IF p \in StepOf(c).paths THEN Entry(Current(c), p)
                                 ELSE race[c].seen[p]]])

Abort(c) ==
  /\ Becomes(c, NoRace)
  /\ Postgres!Release(c)
  /\ UNCHANGED <<committed, begun>>

MergeSeen(seen) ==
  MergeOf(seen, Source.view, Source.base, Source.ancestor, "theirs", {}, Root,
          Cardinality(Paths))

\* Mutant: the directory to move into is not looked at.
MvRefusedAnywhere(t) ==
  \/ t.seen[t.path] = Absent \/ IsDirectory(t.seen, t.path)
  \/ IsDirectory(t.seen, t.dest)

\* Moves are of files and links only.
MvRefused(t) ==
  \/ t.seen[t.path] = Absent \/ IsDirectory(t.seen, t.path)
  \/ ~IsDirectory(t.seen, Parent(t.dest)) \/ IsDirectory(t.seen, t.dest)

Refused(t) ==
  LET found == t.seen[t.path]
  IN CASE t.op = "append" -> found # Absent /\ (\/ found.type = "directory"
                                                \/ Len(found.data \o t.piece) > MaxFileSize)
       [] t.op = "rm" -> found = Absent
       [] t.op = "mv" -> MvRefused(t)
       [] t.op = "merge" -> MergeSeen(t.seen).status # "ok"

\* Mutant: the destination is removed after it was written.
MvStatementsSwapped(t) ==
  <<PutOf(t.dest, t.seen[t.path])>>
  \o (IF t.seen[t.dest] # Absent THEN <<PutOf(t.dest, Tombstone)>> ELSE <<>>)
  \o <<PutOf(t.path, Tombstone)>>

MvStatements(t) ==
  (IF t.seen[t.dest] # Absent THEN <<PutOf(t.dest, Tombstone)>> ELSE <<>>)
  \o <<PutOf(t.dest, t.seen[t.path]), PutOf(t.path, Tombstone)>>

\* The statements that follow from what was read. merge takes the lock of the
\* version only now.
Decisions(t) ==
  LET found == t.seen[t.path]
      merged == MergeSeen(t.seen).writes
  IN CASE t.op = "append" ->
            <<WriteOf(t.path, IF found # Absent /\ found.type = "file"
                              THEN found.data \o t.piece ELSE t.piece)>>
       [] t.op = "rm" -> IF found.type = "directory" THEN <<RemoveOf(t.path)>>
                         ELSE <<PutOf(t.path, Tombstone)>>
       [] t.op = "mv" -> MvStatements(t)
       [] t.op = "merge" ->
            IF merged = NoWrites THEN <<>>
            ELSE <<LockVersionOf,
                   PutAllOf([p \in Paths |-> IF p \in DOMAIN merged THEN merged[p] ELSE Absent])>>

Decide(c) ==
  /\ race[c].todo # <<>> /\ StepOf(c).kind = "decide"
  /\ IF Refused(race[c]) THEN Abort(c)
     ELSE GoesOn(c, [race[c] EXCEPT !.todo = Decisions(race[c])])

\* internalMkdir: the directory just looked at is made, kept or refused
Ensure(c) ==
  LET t == race[c]
      p == StepOf(c).path
      made == IF t.seen[p] = Absent THEN <<PutOf(p, Directory("0755"))>> ELSE <<>>
  IN /\ t.todo # <<>> /\ StepOf(c).kind = "ensure"
     /\ IF t.seen[p] # Absent /\ ~IsDirectory(t.seen, p) THEN Abort(c)
        ELSE GoesOn(c, [t EXCEPT !.todo = made \o LookFrom(t.path, Len(p) + 1)])

\* A statement starts: the rows it will write follow from its snapshot. A
\* write that finds no parent makes it, then tries once more.
Start(c) ==
  LET t == race[c]
      p == StepOf(c).path
      status == WriteStatus(Current(c), p)
      writes == StepOf(c).kind \in {"write", "rewrite"}
      again == <<MkdirOf(Parent(p)), [StepOf(c) EXCEPT !.kind = "rewrite"]>>
      puts == PutsOf(StepOf(c), Current(c))
  IN /\ t.todo # <<>> /\ ~t.running /\ IsStatement(StepOf(c))
     /\ IF StepOf(c).kind = "write" /\ status = "enoent" /\ Parent(p) # Root
        THEN GoesOn(c, [t EXCEPT !.todo = again \o Tail(@)])
        ELSE IF \/ writes /\ status # "ok"
                \/ StepOf(c).kind = "mkdir" /\ ~MkdirPossible(Current(c), p)
        THEN Abort(c)
        ELSE GoesOn(c, [t EXCEPT !.running = TRUE, !.puts = puts, !.tolock = PathsPut(puts)])

-----------------------------------------------------------------------------
NextRow(c) == CHOOSE p \in race[c].tolock : \A q \in race[c].tolock : Len(p) <= Len(q)
Wanted(c) ==
  CASE race[c].running /\ race[c].tolock # {} ->
         {Postgres!Lock(c, "entry", NextRow(c), "update")}
    [] race[c].running /\ race[c].tolock = {} ->
         {Postgres!Lock(c, "version", Root, "noKeyUpdate")}
    [] ~race[c].running /\ race[c].todo # <<>> /\ StepOf(c).kind = "lock" ->
         {Postgres!Lock(c, "advisory", Root, "update")}
    [] OTHER -> {}
Blockers(c) == Postgres!HoldersAgainst(c, Wanted(c))
Grant(c) == Blockers(c) = {} /\ rowLocks' = rowLocks \cup Wanted(c)

LockRow(c) ==
  /\ race[c].running /\ race[c].tolock # {}
  /\ Grant(c)
  /\ Becomes(c, [race[c] EXCEPT !.tolock = @ \ {NextRow(c)}])
  /\ UNCHANGED <<committed, begun>>

LockVersion(c) ==
  /\ race[c].todo # <<>> /\ StepOf(c).kind = "lock"
  /\ Grant(c)
  /\ Becomes(c, [race[c] EXCEPT !.todo = Tail(@)])
  /\ UNCHANGED <<committed, begun>>

\* The last part of a statement sets last_write_at.
Bump(c) ==
  /\ race[c].running /\ race[c].tolock = {}
  /\ Grant(c)
  /\ Becomes(c, [race[c] EXCEPT !.mine = PutOver(@, race[c].puts), !.puts = NoRows,
                                !.running = FALSE, !.todo = Tail(@)])
  /\ UNCHANGED <<committed, begun>>

CommitRows(c) ==
  /\ Begun(c) /\ race[c].todo = <<>>
  /\ committed' = PutOver(committed, race[c].mine)
  /\ race' = [d \in Racers |-> IF d = c THEN NoRace
                               ELSE IF Begun(d) THEN [race[d] EXCEPT !.stale = TRUE] ELSE race[d]]
  /\ Postgres!Release(c)
  /\ UNCHANGED begun

\* PostgreSQL aborts a transaction of a cycle of waiters.
Deadlock(c) == Postgres!InCycle(c, Blockers) /\ Abort(c)

RaceInit ==
  /\ committed = [p \in Paths |-> IF p = Root THEN Directory("0755") ELSE Absent]
  /\ race = [c \in Racers |-> NoRace]
  /\ begun = 0
  /\ rowLocks = {}

Opens(c) ==
  \/ \E p \in Touched, t \in Tokens : BeginWrite(c, p, t) \/ BeginAppend(c, p, t)
  \/ \E p \in Touched : BeginRm(c, p)
  \/ \E p, dest \in Touched : p # dest /\ BeginMv(c, p, dest)
  \/ BeginMerge(c)
Steps(c) ==
  \/ Read(c) \/ Decide(c) \/ Ensure(c) \/ Start(c)
  \/ LockRow(c) \/ LockVersion(c) \/ Bump(c) \/ CommitRows(c) \/ Deadlock(c)

RaceNext == \E c \in Racers : Opens(c) \/ Steps(c)
RaceSpec == RaceInit /\ [][RaceNext]_raceVars

-----------------------------------------------------------------------------
\* What the operation of t does when it runs alone on rows. A write makes the
\* directories above it only if it finds none, an append looks at all of them.
AloneOn(t, rows) ==
  LET made == IF t.op = "write" /\ Shows(rows, Parent(t.path)) THEN rows
              ELSE WithDirectories(rows, Parent(t.path))
      old == IF ShowsOther(made, t.path) /\ Entry(made, t.path).type = "file"
             THEN Entry(made, t.path).data ELSE <<>>
  IN CASE t.op = "write" -> Upserted(made, t.path, File(t.piece, "0644"))
       [] t.op = "append" -> Upserted(made, t.path, File(old \o t.piece, "0644"))
       [] t.op = "rm" -> IF ShowsDirectory(rows, t.path) THEN TombstonedSubtree(rows, t.path)
                         ELSE Upserted(rows, t.path, Tombstone)
       [] t.op = "mv" -> [rows EXCEPT ![t.dest] = Entry(rows, t.path), ![t.path] = Tombstone]
       [] t.op = "merge" -> Merged(rows, MergeSeen(View(rows)))

\* A transaction that no other commit overlapped leaves what the operation
\* leaves when it runs alone, whatever waits, aborts and deadlocks went on.
UnoverlappedCommitsAreAtomic ==
  [][\A c \in Racers : CommitRows(c) /\ ~race[c].stale =>
       committed' = AloneOn(race[c], committed)]_raceVars

\* The tree breaks (an entry without a directory above it) only at the commit of
\* a transaction that another one overlapped, or of a merge. (A tree without "/",
\* which may be removed, is broken by the next write.)
OrphansNeedOverlap ==
  [][TreeShaped(committed) /\ Shows(committed, Root) /\ ~TreeShaped(committed') =>
       \E c \in Racers : CommitRows(c) /\ (race[c].stale \/ race[c].op = "merge")]_raceVars
=============================================================================
