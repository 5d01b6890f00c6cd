---------------------------- MODULE AuditLedger ----------------------------
(***************************************************************************)
(* The hash-chained audit ledger (app/ledger.py) under concurrent database *)
(* transactions. A transaction appends some entries and then commits or    *)
(* rolls back: append_entry() flushes, its caller commits.                 *)
(*                                                                         *)
(* On PostgreSQL append_entry() takes pg_advisory_xact_lock(1), which the  *)
(* transaction keeps until it ends. On SQLite it holds a process-wide      *)
(* RLock for the duration of the call only; the INSERT it flushes needs    *)
(* the database's single write lock, which the transaction then keeps      *)
(* until it ends, and gives up with an error when it waited too long. A    *)
(* transaction may have written other tables before it appends.            *)
(*                                                                         *)
(* A hash is collision free, so an entry's hash is modelled by its id and  *)
(* prev is the id of the entry whose hash it was computed from.            *)
(***************************************************************************)
EXTENDS Integers, FiniteSets

CONSTANTS
    Dialects,     \* the databases a deployment may use: "postgresql", "sqlite"
    Txns,         \* transactions, all of which append
    MaxAppends,   \* bound: append_entry() calls of one transaction
    NoTxn

Genesis == 0

ASSUME DialectsAssumption == Dialects \subseteq {"postgresql", "sqlite"}
ASSUME MaxAppendsAssumption == MaxAppends \in Nat \ {0}
ASSUME NoTxnAssumption == NoTxn \notin Txns

VARIABLES
    dialect,   \* of the database this deployment is bound to
    rows,      \* audit_ledger, with the transaction that inserted each row
    nextId,    \* the next autoincrement id
    state,     \* where each transaction stands
    head,      \* the previous hash a transaction has read for its next entry
    appends,   \* how many entries a transaction has appended
    advisory,  \* holder of the advisory lock (PostgreSQL)
    callLock,  \* holder of _LOCAL_DIALECT_LOCK (SQLite)
    writer     \* holder of the write lock (SQLite)

vars == <<dialect, rows, nextId, state, head, appends, advisory, callLock, writer>>

State == {"open", "locking", "reading", "inserting", "committed", "rolledback"}
Row == [id : Nat \ {0}, prev : Nat, txn : Txns]

TypeOK ==
    /\ dialect \in Dialects
    /\ rows \subseteq Row
    /\ nextId \in Nat \ {0}
    /\ state \in [Txns -> State]
    /\ head \in [Txns -> Nat]
    /\ appends \in [Txns -> 0 .. MaxAppends]
    /\ advisory \in Txns \cup {NoTxn}
    /\ callLock \in Txns \cup {NoTxn}
    /\ writer \in Txns \cup {NoTxn}

Init ==
    /\ dialect \in Dialects
    /\ rows = {}
    /\ nextId = 1
    /\ state = [t \in Txns |-> "open"]
    /\ head = [t \in Txns |-> Genesis]
    /\ appends = [t \in Txns |-> 0]
    /\ advisory = NoTxn
    /\ callLock = NoTxn
    /\ writer = NoTxn

Committed == {r \in rows : state[r.txn] = "committed"}
Visible(t) == {r \in rows : r.txn = t \/ state[r.txn] = "committed"}

\* The hash of the last row by id, or the genesis hash of an empty table.
IsHead(table, h) ==
    \/ table = {} /\ h = Genesis
    \/ \E r \in table : r.id = h /\ \A other \in table : other.id <= h

Postgres == dialect = "postgresql"

-----------------------------------------------------------------------------
\* A write to another table: on SQLite it takes the write lock.
WriteElsewhere(t) ==
    /\ ~Postgres
    /\ state[t] = "open"
    /\ writer = NoTxn
    /\ writer' = t
    /\ UNCHANGED <<dialect, rows, nextId, state, head, appends, advisory, callLock>>

CallAppend(t) ==
    /\ state[t] = "open"
    /\ appends[t] < MaxAppends
    /\ state' = [state EXCEPT ![t] = "locking"]
    /\ UNCHANGED <<dialect, rows, nextId, head, appends, advisory, callLock, writer>>

\* A mutant: the lock is tried, its answer ignored.
LockPostgresUnchecked(t) ==
    /\ Postgres
    /\ state[t] = "locking"
    /\ advisory' = t
    /\ state' = [state EXCEPT ![t] = "reading"]
    /\ UNCHANGED <<dialect, rows, nextId, head, appends, callLock, writer>>

\* pg_advisory_xact_lock(LEDGER_LOCK_ID), a no-op when this transaction has it.
LockPostgres(t) ==
    /\ Postgres
    /\ state[t] = "locking"
    /\ advisory \in {NoTxn, t}
    /\ advisory' = t
    /\ state' = [state EXCEPT ![t] = "reading"]
    /\ UNCHANGED <<dialect, rows, nextId, head, appends, callLock, writer>>

\* _LOCAL_DIALECT_LOCK.acquire()
LockSQLite(t) ==
    /\ ~Postgres
    /\ state[t] = "locking"
    /\ callLock = NoTxn
    /\ callLock' = t
    /\ state' = [state EXCEPT ![t] = "reading"]
    /\ UNCHANGED <<dialect, rows, nextId, head, appends, advisory, writer>>

\* SELECT ... ORDER BY id DESC: committed rows and the transaction's own.
ReadHead(t) ==
    /\ state[t] = "reading"
    /\ \E h \in 0 .. nextId - 1 : /\ IsHead(Visible(t), h)
                                  /\ head' = [head EXCEPT ![t] = h]
    /\ state' = [state EXCEPT ![t] = "inserting"]
    /\ UNCHANGED <<dialect, rows, nextId, appends, advisory, callLock, writer>>

\* A mutant: the call's lock is not released.
CallLockKept == callLock

NewRow(t) == [id |-> nextId, prev |-> head[t], txn |-> t]
CallLockAfterCall == IF Postgres THEN callLock ELSE NoTxn

\* db.flush() of the new row, and the release of the call's lock.
Insert(t) ==
    /\ state[t] = "inserting"
    /\ Postgres \/ writer \in {NoTxn, t}
    /\ rows' = rows \cup {NewRow(t)}
    /\ nextId' = nextId + 1
    /\ appends' = [appends EXCEPT ![t] = @ + 1]
    /\ state' = [state EXCEPT ![t] = "open"]
    /\ writer' = IF Postgres THEN writer ELSE t
    /\ callLock' = CallLockAfterCall
    /\ UNCHANGED <<dialect, head, advisory>>

\* A mutant: a lock that outlives its transaction.
NotFreed(lock, t) == lock

Freed(lock, t) == IF lock = t THEN NoTxn ELSE lock

End(t, outcome) ==
    /\ state' = [state EXCEPT ![t] = outcome]
    /\ advisory' = Freed(advisory, t)
    /\ writer' = Freed(writer, t)
    /\ callLock' = Freed(callLock, t)

Commit(t) ==
    /\ state[t] = "open"
    /\ appends[t] > 0
    /\ End(t, "committed")
    /\ UNCHANGED <<dialect, rows, nextId, head, appends>>

\* An exception in the caller or in the call, or a lost connection. A thread
\* that waits for the process lock is not interrupted.
Rollback(t) ==
    /\ state[t] \in {"open", "reading", "inserting"} \/ (Postgres /\ state[t] = "locking")
    /\ End(t, "rolledback")
    /\ rows' = {r \in rows : r.txn # t}
    /\ UNCHANGED <<dialect, nextId, head, appends>>

\* SQLite's busy timeout: the INSERT fails with "database is locked" and the
\* transaction is rolled back.
BusyTimeout(t) ==
    /\ ~Postgres
    /\ state[t] = "inserting"
    /\ writer \notin {NoTxn, t}
    /\ End(t, "rolledback")
    /\ rows' = {r \in rows : r.txn # t}
    /\ UNCHANGED <<dialect, nextId, head, appends>>

Step(t) ==
    \/ CallAppend(t) \/ LockPostgres(t) \/ LockSQLite(t) \/ ReadHead(t) \/ Insert(t)
    \/ Commit(t) \/ BusyTimeout(t)

Next == \E t \in Txns : Step(t) \/ WriteElsewhere(t) \/ Rollback(t)

Spec == Init /\ [][Next]_vars

\* Threads run, lock queues are served, commits and timeouts happen.
FairSpec == Spec /\ \A t \in Txns : WF_vars(Step(t)) /\ SF_vars(LockPostgres(t)) /\ SF_vars(LockSQLite(t))

-----------------------------------------------------------------------------
\* A mutant: each entry on its own, not its link.
VerifiesEntriesOnly(table) == \A r \in table : r.prev < r.id

\* verify_chain() over a table: every row carries the hash of the row before it.
Verifies(table) ==
    \A r \in table : IsHead({other \in table : other.id < r.id}, r.prev)

\* verify_chain() succeeds at any moment: the committed entries are one linear
\* chain from genesis (ledger.py: "serialize all concurrent appends into a single
\* strictly linear chain").
ChainVerifies == Verifies(Committed)

\* On PostgreSQL it does, whatever transactions run and however they end.
PostgresChainVerifies == Postgres => ChainVerifies

\* verify_chain() reports the deletion of any committed entry but the last.
DeletionDetected ==
    Postgres => \A r \in Committed :
        (\E later \in Committed : later.id > r.id) => ~Verifies(Committed \ {r})

\* The committed entries in the order verify_chain() reads them.
Entry(r) == [hash |-> r.id, prev |-> r.prev, owner |-> r.txn]
InOrder(table) ==
    [k \in 1 .. Cardinality(table) |->
        Entry(CHOOSE r \in table : Cardinality({other \in table : other.id <= r.id}) = k)]

\* On PostgreSQL the ledger implements an append-only log in which each
\* transaction's entries appear at once, when it commits, as one block behind
\* everything committed before. On SQLite nothing of the kind is claimed.
Log == INSTANCE AppendOnlyLog
           WITH Owners <- Txns, MaxBlock <- MaxAppends,
                log <- IF Postgres THEN InOrder(Committed) ELSE <<>>

CommitsAppendBlocks == Log!Spec

\* Every transaction ends: the two locks of SQLite can block two transactions
\* on each other, and the busy timeout resolves it.
EveryTransactionEnds ==
    \A t \in Txns : <>[](state[t] \in {"committed", "rolledback"})

=============================================================================
