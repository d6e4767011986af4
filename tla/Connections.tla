---------------------------- MODULE Connections ----------------------------
(***************************************************************************)
(* transaction() from the instance down to the pooled connection: the      *)
(* adapter's BEGIN and COMMIT, the READ ONLY fence, the workspace setting  *)
(* that row security reads, what happens when a statement fails inside it, *)
(* when the answer to COMMIT is lost, and when the facade is used after    *)
(* its transaction has ended (a Promise.all that rejected early goes on).  *)
(* The pool, the server and what postgres.js does inside begin() are       *)
(* modelled from how the adapters use them.                                *)
(***************************************************************************)
EXTENDS Integers, FiniteSets

CONSTANTS
  Tasks,          \* calls of transaction(), each on an instance of its own
  Conns,          \* connections of the pool
  WorkspaceOf,    \* workspace of every task
  Nobody,         \* no task, no workspace, no connection
  MaxStatements   \* bound: statements of a function, before it ends and after

ASSUME NobodyAssumption == Nobody \notin Tasks \cup Conns

VARIABLES
  setup,  \* adapter, whether setup() enabled row security, read-only instances
  conn,   \* connections: who holds it, its transaction, setting, fence, rows
  task,   \* tasks: where it is, its connection, what it wrote and met
  table   \* committed rows

poolVars == <<setup, conn, task, table>>

Databases == [adapter : {"node-postgres", "postgres"}, security : BOOLEAN, readonly : SUBSET Tasks]
CleanConn == [holder |-> Nobody, tx |-> "none", setting |-> Nobody, fenced |-> FALSE, rows |-> {}]
FreshTask == [phase |-> "idle", conn |-> Nobody, wrote |-> {}, late |-> 0, statements |-> 0,
          failed |-> FALSE, disturbed |-> FALSE, lost |-> FALSE, verdict |-> "none"]

PoolInit ==
  /\ setup \in Databases
  /\ conn = [k \in Conns |-> CleanConn] /\ task = [t \in Tasks |-> FreshTask] /\ table = {}

-----------------------------------------------------------------------------
At(t, phase) == task[t].phase = phase
Of(t) == conn[task[t].conn]
RowBy(t, n, live) == [by |-> t, n |-> n, live |-> live]

\* Mutant: set_config(..., false), which outlives the transaction.
AfterTxConfigured(c) == [c EXCEPT !.tx = "none", !.fenced = FALSE, !.rows = {}]
\* The end of a transaction takes what was set for it (is_local) with it.
AfterTx(c) == [c EXCEPT !.tx = "none", !.setting = Nobody, !.fenced = FALSE, !.rows = {}]

\* pool.connect(), sql.begin()
Connect(t, k) ==
  /\ At(t, "idle") /\ conn[k].holder = Nobody
  /\ conn' = [conn EXCEPT ![k].holder = t]
  /\ task' = [task EXCEPT ![t].phase = "begin", ![t].conn = k]
  /\ UNCHANGED <<setup, table>>

BeginTx(t) ==
  /\ At(t, "begin")
  /\ conn' = [conn EXCEPT ![task[t].conn].tx = IF @ = "none" THEN "open" ELSE @]
  /\ task' = [task EXCEPT ![t].phase = IF t \in setup.readonly THEN "fence" ELSE "configure"]
  /\ UNCHANGED <<setup, table>>

\* A statement of the wrappers that fails, as all do in a failed transaction, ends it.
Proceeds(t, phase) == IF Of(t).tx = "failed" THEN "rollback" ELSE phase

\* readonlySqlClient
Fence(t) ==
  /\ At(t, "fence")
  /\ conn' = [conn EXCEPT ![task[t].conn].fenced = Of(t).tx # "failed"]
  /\ task' = [task EXCEPT ![t].phase = Proceeds(t, "configure")]
  /\ UNCHANGED <<setup, table>>

\* runInWorkspace
Configure(t) ==
  /\ At(t, "configure")
  /\ conn' = [conn EXCEPT ![task[t].conn].setting = IF Of(t).tx = "failed" THEN @ ELSE WorkspaceOf[t]]
  /\ task' = [task EXCEPT ![t].phase = Proceeds(t, "body")]
  /\ UNCHANGED <<setup, table>>

-----------------------------------------------------------------------------
\* What the server lets a statement of t write on connection c.
Allowed(t, c) ==
  /\ c.tx # "failed" /\ ~c.fenced
  /\ setup.security => c.setting = WorkspaceOf[t]
AfterError(c) == [c EXCEPT !.tx = IF @ = "none" THEN @ ELSE "failed"]

\* A writing statement of the function succeeds, or fails for whatever reason.
Succeeds(t) ==
  LET row == RowBy(t, task[t].statements, TRUE)
  IN /\ At(t, "body") /\ task[t].statements < MaxStatements /\ Allowed(t, Of(t))
     /\ conn' = [conn EXCEPT ![task[t].conn].rows = @ \cup {row}]
     /\ task' = [task EXCEPT ![t].statements = @ + 1, ![t].wrote = @ \cup {row}]
     /\ UNCHANGED <<setup, table>>
Fails(t) ==
  /\ At(t, "body") /\ task[t].statements < MaxStatements
  /\ conn' = [conn EXCEPT ![task[t].conn] = AfterError(@)]
  /\ task' = [task EXCEPT ![t].statements = @ + 1, ![t].failed = TRUE]
  /\ UNCHANGED <<setup, table>>

\* The function returns: node-postgres commits whatever happened, postgres.js
\* rejects with the first error of a statement, though the function caught it.
Returns(t) ==
  /\ At(t, "body")
  /\ task' = [task EXCEPT ![t].phase =
                IF setup.adapter = "postgres" /\ task[t].failed THEN "rollback" ELSE "commit"]
  /\ UNCHANGED <<setup, conn, table>>
Throws(t) ==
  /\ At(t, "body")
  /\ task' = [task EXCEPT ![t].phase = "rollback"]
  /\ UNCHANGED <<setup, conn, table>>

\* COMMIT of a failed transaction is a ROLLBACK, and no error.
Committed(c) == IF c.tx = "open" THEN c.rows ELSE {}

Ended(t, verdict) == [task[t] EXCEPT !.phase = "release", !.verdict = verdict]

CommitTx(t) ==
  /\ At(t, "commit")
  /\ table' = table \cup Committed(Of(t))
  /\ conn' = [conn EXCEPT ![task[t].conn] = AfterTx(@)]
  /\ task' = [task EXCEPT ![t] = Ended(t, "resolved")]
  /\ UNCHANGED setup

\* The connection breaks: the server has committed or not, the ROLLBACK that
\* follows fails unnoticed, and the pool replaces the connection.
CommitLost(t) ==
  /\ At(t, "commit")
  /\ \/ table' = table \cup Committed(Of(t))
     \/ table' = table
  /\ conn' = [conn EXCEPT ![task[t].conn] = [CleanConn EXCEPT !.holder = t]]
  /\ task' = [task EXCEPT ![t] = [Ended(t, "rejected") EXCEPT !.lost = TRUE]]
  /\ UNCHANGED setup

RollbackTx(t) ==
  /\ At(t, "rollback")
  /\ conn' = [conn EXCEPT ![task[t].conn] = AfterTx(@)]
  /\ task' = [task EXCEPT ![t] = Ended(t, "rejected")]
  /\ UNCHANGED <<setup, table>>

Release(t) ==
  /\ At(t, "release")
  /\ conn' = [conn EXCEPT ![task[t].conn].holder = Nobody]
  /\ task' = [task EXCEPT ![t].phase = "ended"]
  /\ UNCHANGED <<setup, table>>

-----------------------------------------------------------------------------
\* A statement through the client of a transaction that has ended: pg runs it on
\* the connection, by itself or in the transaction that now is open there.
Disturbs(k) == [t \in Tasks |->
  IF conn[k].holder = t /\ conn[k].tx # "none" THEN [task[t] EXCEPT !.disturbed = TRUE] ELSE task[t]]
Late(t) ==
  LET k == task[t].conn
      row == RowBy(t, task[t].late, FALSE)
  IN /\ task[t].phase \in {"release", "ended"} /\ ~task[t].lost
     /\ setup.adapter = "node-postgres" /\ t \notin setup.readonly
     /\ task[t].late < MaxStatements
     /\ task' = [Disturbs(k) EXCEPT ![t].late = @ + 1]
     /\ IF Allowed(t, conn[k])
        THEN IF conn[k].tx = "none" THEN table' = table \cup {row} /\ UNCHANGED conn
             ELSE conn' = [conn EXCEPT ![k].rows = @ \cup {row}] /\ UNCHANGED table
        ELSE conn' = [conn EXCEPT ![k] = AfterError(@)] /\ UNCHANGED table
     /\ UNCHANGED setup

PoolNext ==
  \E t \in Tasks :
    \/ \E k \in Conns : Connect(t, k)
    \/ BeginTx(t) \/ Fence(t) \/ Configure(t) \/ Succeeds(t) \/ Fails(t) \/ Returns(t) \/ Throws(t)
    \/ CommitTx(t) \/ CommitLost(t) \/ RollbackTx(t) \/ Release(t) \/ Late(t)

PoolSpec == PoolInit /\ [][PoolNext]_poolVars

-----------------------------------------------------------------------------
Has(t) == task[t].wrote \cap table
Over(t) == task[t].phase \in {"release", "ended"}

\* The pool hands out connections without transaction, setting, fence or rows,
\* and every statement of a function runs on a connection that is its own, under
\* the setting of its own workspace and, if read-only, behind the fence.
ConnectionsKeepApart ==
  /\ \A k \in Conns : conn[k].holder = Nobody => conn[k] = CleanConn
  /\ \A t \in Tasks : At(t, "body") =>
       /\ Of(t).holder = t /\ Of(t).tx # "none" /\ Of(t).setting = WorkspaceOf[t]
       /\ Of(t).fenced <=> t \in setup.readonly
  /\ \A row \in table : row.by \notin setup.readonly

\* The rows of a function are committed together or not at all; not if it was
\* rejected, unless the answer to COMMIT was lost; and if it resolved ("if fn
\* returns, the transaction commits", state.ts:305), unless, on node-postgres, one
\* of its statements failed and it went on, or a late one of another function
\* failed in its transaction.
VerdictsHold ==
  \A t \in Tasks :
    /\ Has(t) \in {{}, task[t].wrote}
    /\ Has(t) # {} => Over(t) /\ (task[t].verdict = "resolved" \/ task[t].lost)
    /\ Over(t) /\ task[t].verdict = "resolved" /\ Has(t) # task[t].wrote =>
         setup.adapter = "node-postgres" /\ (task[t].failed \/ task[t].disturbed)

TransactionsHold == ConnectionsKeepApart /\ VerdictsHold
=============================================================================
