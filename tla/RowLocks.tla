------------------------------ MODULE RowLocks ------------------------------
(***************************************************************************)
(* What the transactions of bash-gres rely on of PostgreSQL's lock         *)
(* manager: row locks, which statements take implicitly or FOR UPDATE, and *)
(* transaction-scoped advisory locks.  A lock is held until its            *)
(* transaction ends; a cycle of waiters is a deadlock.                     *)
(***************************************************************************)
CONSTANT Clients   \* connections, each running one transaction at a time

VARIABLE locks     \* row locks and advisory locks held

\* Lock c takes (or would take) on the row or key named by kind and on.
Lock(c, kind, on, mode) == [by |-> c, kind |-> kind, on |-> on, mode |-> mode]

\* UPDATE of a row takes noKeyUpdate, DELETE and FOR UPDATE take update, the
\* check of a foreign key takes keyShare on the row referenced.
Conflict(m, n) == "update" \in {m, n} \/ (m = n /\ m # "keyShare")

Holds(c, kind, on) == \E k \in locks : k.by = c /\ k.kind = kind /\ k.on = on

\* The other clients that hold a lock in conflict with one c wants.
HoldersAgainst(c, wanted) ==
  {k.by : k \in {k \in locks : k.by # c /\ \E w \in wanted :
                   k.kind = w.kind /\ k.on = w.on /\ Conflict(k.mode, w.mode)}}

\* c waits for a client that waits ... for c.
InCycle(c, Waits(_)) ==
  \E S \in SUBSET Clients : c \in S /\ \A d \in S : Waits(d) \cap S # {}

Release(c) == locks' = {k \in locks : k.by # c}
=============================================================================
