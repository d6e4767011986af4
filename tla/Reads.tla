-------------------------------- MODULE Reads --------------------------------
(***************************************************************************)
(* readFile calls of an instance: the coalescer that answers the calls of  *)
(* one synchronous run with one statement, and what readFile makes of the  *)
(* row. The batch is flushed by a microtask, hence before any answer to a  *)
(* statement arrives; the rows change under the statements.                *)
(***************************************************************************)
EXTENDS Naturals, Sequences, SequencesExt, FiniteSets, Functions

CONSTANTS
  Calls,       \* readFile calls, in the order they are made
  ReadKeys,    \* internal paths
  Unencodable, \* paths that pathToLtree throws on
  Rows,        \* what a path may show: a node type with its content or target
  TooLarge,    \* contents above maxReadSize
  MaxBatch,    \* maxBatch
  MaxDepth,    \* maxSymlinkDepth
  MaxChanges   \* bound on the changes of rows

\* The target of a link is a path again (resolved against its directory).
ASSUME ReadAssumption ==
  /\ ReadKeys # {} /\ MaxDepth \in Nat /\ MaxBatch \in Nat \ {0}
  /\ \A row \in Rows : /\ row.type \in {"none", "file", "directory", "symlink"}
                       /\ row.type = "symlink" => row.data \in ReadKeys

VARIABLES
  store,    \* what the version shows at each path
  call,     \* the calls
  pending,  \* the batch being filled
  queries,  \* statements on their way
  changes   \* changes of rows so far

readVars == <<store, call, pending, queries, changes>>

NoneThere == [type |-> "none", data |-> 0]

FirstKey == CHOOSE k \in ReadKeys : TRUE
NoBatch == [keys |-> <<>>, waiters |-> [k \in ReadKeys |-> {}]]

\* first: the path it was made for; seen: the rows each path has had since.
NotMade == [state |-> "idle", first |-> FirstKey, key |-> FirstKey, depth |-> 0,
            result |-> "none", seen |-> [k \in ReadKeys |-> {}]]
EndedWith(result) == [NotMade EXCEPT !.state = "settled", !.result = result]

\* The version shows nothing yet.
ReadInit ==
  /\ store = [k \in ReadKeys |-> NoneThere]
  /\ call = [c \in Calls |-> NotMade]
  /\ pending = NoBatch
  /\ queries = {}
  /\ changes = 0

-----------------------------------------------------------------------------
\* A statement: the calls it answers, by key, and the rows it saw.
Query(waiters, kind) == [waiters |-> waiters, kind |-> kind, done |-> FALSE,
                         rows |-> [k \in ReadKeys |-> NoneThere]]
KeysOf(q) == {k \in ReadKeys : q.waiters[k] # {}}
OneQuery(k, callers) == Query([[j \in ReadKeys |-> {}] EXCEPT ![k] = callers], "one")

\* load(): joins the batch being filled; a fresh batch queues its flush. (The
\* reads of a transaction facade take no part: each is a statement at once.)
Load(c, k) ==
  /\ call[c].state = "idle"
  /\ \A d \in Calls : d < c => call[d].state # "idle"
  /\ call' = [call EXCEPT ![c] = [@ EXCEPT !.state = "waiting", !.first = k, !.key = k,
                                           !.depth = MaxDepth,
                                           !.seen = [j \in ReadKeys |-> {store[j]}]]]
  /\ pending' = [keys |-> IF pending.waiters[k] = {} THEN Append(pending.keys, k)
                                                     ELSE pending.keys,
                 waiters |-> [pending.waiters EXCEPT ![k] = @ \cup {c}]]
  /\ UNCHANGED <<store, queries, changes>>

\* The statements of a batch: one for every MaxBatch keys.
Chunks(keys) ==
  {SubSeq(keys, i, IF i + MaxBatch - 1 < Len(keys) THEN i + MaxBatch - 1 ELSE Len(keys)) :
     i \in {j \in 1..Len(keys) : (j - 1) % MaxBatch = 0}}
QueryOf(chunk, waiters) ==
  Query([k \in ReadKeys |-> IF k \in Range(chunk) THEN waiters[k] ELSE {}],
        IF Len(chunk) = 1 THEN "one" ELSE "many")

Flush ==
  /\ pending # NoBatch
  /\ queries' = queries \cup {QueryOf(chunk, pending.waiters) : chunk \in Chunks(pending.keys)}
  /\ pending' = NoBatch
  /\ UNCHANGED <<store, call, changes>>

\* The database runs the statement, on the rows of that moment.
Execute(q) ==
  /\ ~q.done /\ KeysOf(q) \cap Unencodable = {}
  /\ queries' = (queries \ {q}) \cup
       {[q EXCEPT !.done = TRUE,
                  !.rows = [k \in ReadKeys |-> IF k \in KeysOf(q) THEN store[k] ELSE NoneThere]]}
  /\ UNCHANGED <<store, call, pending, changes>>

\* contentOfReadRow: what a call becomes when it has the row of its path. A
\* link is followed by a statement of its own.
Settled(t, row) ==
  CASE row.type = "none" -> EndedWith("ENOENT")
    [] row.type = "symlink" /\ t.depth > 0 ->
         [t EXCEPT !.state = "following", !.key = row.data, !.depth = @ - 1]
    [] row.type = "symlink" /\ t.depth = 0 -> EndedWith("ELOOP")
    [] row.type = "directory" -> EndedWith("EISDIR")
    [] row.type = "file" -> EndedWith(IF row.data \in TooLarge THEN "E2BIG" ELSE row.data)

Reply(q) ==
  /\ q.done /\ pending = NoBatch
  /\ queries' = queries \ {q}
  /\ call' = [c \in Calls |->
       IF \E k \in KeysOf(q) : c \in q.waiters[k]
       THEN Settled(call[c], q.rows[CHOOSE k \in KeysOf(q) : c \in q.waiters[k]])
       ELSE call[c]]
  /\ UNCHANGED <<store, pending, changes>>

\* internalReadFile of the target
FollowLink(c) ==
  /\ call[c].state = "following"
  /\ call' = [call EXCEPT ![c].state = "waiting"]
  /\ queries' = queries \cup {OneQuery(call[c].key, {c})}
  /\ UNCHANGED <<store, pending, changes>>

Rejected(callers) ==
  [c \in Calls |-> IF c \in callers THEN EndedWith("failed") ELSE call[c]]

\* Mutant: a failed batch fails all its calls.
ManyFailsAll(q) ==
  /\ q.kind = "many" /\ pending = NoBatch
  /\ queries' = queries \ {q}
  /\ call' = Rejected(UNION Range(q.waiters))
  /\ UNCHANGED <<store, pending, changes>>

\* Mutant: nobody catches the failure of a batch.
ManyFailsUncaught(q) ==
  /\ q.kind = "many" /\ pending = NoBatch
  /\ queries' = queries \ {q}
  /\ UNCHANGED <<store, call, pending, changes>>

\* A statement for several keys may fail; each is then asked for on its own.
ManyFails(q) ==
  /\ q.kind = "many" /\ pending = NoBatch
  /\ queries' = (queries \ {q}) \cup {OneQuery(k, q.waiters[k]) : k \in KeysOf(q)}
  /\ UNCHANGED <<store, call, pending, changes>>

\* One for a single key fails where the path is at fault.
OneFails(q) ==
  /\ q.kind = "one" /\ pending = NoBatch
  /\ KeysOf(q) \cap Unencodable # {}
  /\ queries' = queries \ {q}
  /\ call' = Rejected(UNION Range(q.waiters))
  /\ UNCHANGED <<store, pending, changes>>

\* Another instance writes, removes or links.
Change(k, row) ==
  /\ changes < MaxChanges /\ k \notin Unencodable /\ store[k] # row
  /\ store' = [store EXCEPT ![k] = row]
  /\ call' = [c \in Calls |-> IF call[c].state \in {"waiting", "following"}
                                THEN [call[c] EXCEPT !.seen[k] = @ \cup {row}] ELSE call[c]]
  /\ changes' = changes + 1
  /\ UNCHANGED <<pending, queries>>

Progress ==
  \/ Flush
  \/ \E q \in queries : Execute(q) \/ Reply(q) \/ ManyFails(q) \/ OneFails(q)
  \/ \E c \in Calls : FollowLink(c)

ReadNext ==
  \/ \E c \in Calls, k \in ReadKeys : Load(c, k)
  \/ \E k \in ReadKeys, row \in Rows : Change(k, row)
  \/ Progress

\* The microtask runs and the database answers, with rows or an error.
ReadFairness == WF_readVars(Progress)
ReadSpec == ReadInit /\ [][ReadNext]_readVars /\ ReadFairness

-----------------------------------------------------------------------------
\* What a read of each path may give when it shows one of the rows of seen, and a
\* read of the target of a link gives what next says.
Outcome(row, next) ==
  CASE row.type = "none" -> {"ENOENT"}
    [] row.type = "symlink" -> next[row.data]
    [] row.type = "directory" -> {"EISDIR"}
    [] row.type = "file" -> {IF row.data \in TooLarge THEN "E2BIG" ELSE row.data}
Outcomes(seen, next) ==
  [k \in ReadKeys |-> IF k \in Unencodable THEN {"failed"}
                      ELSE UNION {Outcome(row, next) : row \in seen[k]}]

Possible(seen, first) ==
  LET after[d \in 0..MaxDepth] ==
        Outcomes(seen, IF d = 0 THEN [k \in ReadKeys |-> {"ELOOP"}] ELSE after[d - 1])
  IN after[MaxDepth][first]

\* "Batching never changes what a caller gets" (coalescer.ts:24): what a call
\* ends with is what reading alone would have given at some rows its paths had
\* since it was made.
SettlesAsUnbatched ==
  [][\A c \in Calls : call[c].state = "waiting" /\ call'[c].state = "settled" =>
       call'[c].result \in Possible(call[c].seen, call[c].first)]_readVars

\* Every call settles, whatever fails and whatever is loaded meanwhile.
EveryLoadSettles ==
  (\E c \in Calls : call[c].state # "idle")
    ~> (\A c \in Calls : call[c].state \in {"idle", "settled"})
=============================================================================
