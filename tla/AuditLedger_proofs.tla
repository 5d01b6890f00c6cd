------------------------- MODULE AuditLedger_proofs -------------------------
(***************************************************************************)
(* Theorems about AuditLedger: whatever transactions run on PostgreSQL,    *)
(* and however they end, the committed ledger is one linear chain, and an  *)
(* entry deleted before its end is noticed.                                *)
(***************************************************************************)
EXTENDS AuditLedger, SequenceTheorems, FunctionTheorems, FiniteSetTheorems, TLAPS

-----------------------------------------------------------------------------
(***************************************************************************)
(* The inductive invariant. The advisory lock makes its holder the only    *)
(* transaction with rows in progress, and those rows the last ones.        *)
(***************************************************************************)
InProgress(r) == state[r.txn] # "committed"

IdsAreFresh == \A r \in rows : r.id < nextId /\ \A s \in rows : s.id = r.id => s = r
RowsInProgressAreTheHolders == \A r \in rows : InProgress(r) => advisory = r.txn
CommittedComeFirst == \A r, s \in rows : ~InProgress(r) /\ InProgress(s) => r.id < s.id
AppendersHoldTheLock ==
    \A t \in Txns : state[t] \in {"reading", "inserting"} => advisory = t
HeadsAreCurrent == \A t \in Txns : state[t] = "inserting" => IsHead(rows, head[t])
EveryRowIsNamed ==
    \A r, later \in rows : r.id < later.id => \E s \in rows : s.prev = r.id /\ s.id <= later.id

ChainInv ==
    Postgres => /\ IdsAreFresh
                /\ RowsInProgressAreTheHolders
                /\ CommittedComeFirst
                /\ AppendersHoldTheLock
                /\ HeadsAreCurrent
                /\ Verifies(rows)
                /\ EveryRowIsNamed

-----------------------------------------------------------------------------
\* A call under way was admitted.
CallsAreAdmitted ==
    \A t \in Txns : state[t] \in {"locking", "reading", "inserting"} => appends[t] < MaxAppends

\* A step keeps the types, and calls of what the writers may call.
LEMMA TypeStep == TypeOK /\ CallsAreAdmitted /\ [Next]_vars => TypeOK' /\ CallsAreAdmitted'
<1> SUFFICES ASSUME TypeOK, CallsAreAdmitted, [Next]_vars
             PROVE  TypeOK' /\ CallsAreAdmitted'
  OBVIOUS
<1> USE MaxAppendsAssumption DEF TypeOK, CallsAreAdmitted, State
<1>1. ASSUME NEW t \in Txns, CallAppend(t) PROVE TypeOK' /\ CallsAreAdmitted'
  BY <1>1 DEF CallAppend
<1>2. ASSUME NEW t \in Txns, LockPostgres(t) PROVE TypeOK' /\ CallsAreAdmitted'
  BY <1>2 DEF LockPostgres
<1>3. ASSUME NEW t \in Txns, LockSQLite(t) PROVE TypeOK' /\ CallsAreAdmitted'
  BY <1>3 DEF LockSQLite
<1>4. ASSUME NEW t \in Txns, ReadHead(t) PROVE TypeOK' /\ CallsAreAdmitted'
  BY <1>4 DEF ReadHead
<1>5. ASSUME NEW t \in Txns, Insert(t) PROVE TypeOK' /\ CallsAreAdmitted'
  <2>1. NewRow(t) \in Row
    BY DEF NewRow, Row
  <2>2. appends[t] + 1 \in 0 .. MaxAppends
    BY <1>5 DEF Insert
  <2> QED
    BY <1>5, <2>1, <2>2 DEF Insert, CallLockAfterCall
<1>6. ASSUME NEW t \in Txns, Commit(t) PROVE TypeOK' /\ CallsAreAdmitted'
  BY <1>6 DEF Commit, End, Freed
<1>7. ASSUME NEW t \in Txns, BusyTimeout(t) PROVE TypeOK' /\ CallsAreAdmitted'
  BY <1>7 DEF BusyTimeout, End, Freed
<1>8. ASSUME NEW t \in Txns, WriteElsewhere(t) PROVE TypeOK' /\ CallsAreAdmitted'
  BY <1>8 DEF WriteElsewhere
<1>9. ASSUME NEW t \in Txns, Rollback(t) PROVE TypeOK' /\ CallsAreAdmitted'
  BY <1>9 DEF Rollback, End, Freed
<1>10. CASE UNCHANGED vars
  BY <1>10 DEF vars
<1> QED
  BY <1>1, <1>2, <1>3, <1>4, <1>5, <1>6, <1>7, <1>8, <1>9, <1>10 DEF Next, Step

\* The tables, locks and transactions of the ledger keep their types, on both
\* databases (app/ledger.py, app/models.py).
THEOREM TypeCorrect == Spec => []TypeOK
<1>1. Init => TypeOK /\ CallsAreAdmitted
  BY MaxAppendsAssumption, DialectsAssumption
     DEF Init, TypeOK, CallsAreAdmitted, State, Genesis
<1> QED
  BY <1>1, TypeStep, PTL DEF Spec

-----------------------------------------------------------------------------
(***************************************************************************)
(* A chain when rows are appended behind it or taken from its end.         *)
(***************************************************************************)
Before(table, id) == {other \in table : other.id < id}

\* The head of a table is the row that the next one has to name.
LEMMA AppendKeepsChain ==
  ASSUME NEW table, \A r \in table : r.id \in Nat,
         NEW row, row.id \in Nat, \A r \in table : r.id < row.id,
         Verifies(table), IsHead(table, row.prev)
  PROVE  Verifies(table \cup {row})
<1> SUFFICES ASSUME NEW r \in table \cup {row}
             PROVE  IsHead(Before(table \cup {row}, r.id), r.prev)
  BY DEF Verifies, Before
<1>1. CASE r = row
  <2>1. Before(table \cup {row}, r.id) = table
    BY <1>1 DEF Before
  <2> QED
    BY <1>1, <2>1
<1>2. CASE r \in table
  <2>1. Before(table \cup {row}, r.id) = Before(table, r.id)
    BY <1>2 DEF Before
  <2>2. IsHead(Before(table, r.id), r.prev)
    BY <1>2 DEF Verifies, Before
  <2> QED
    BY <2>1, <2>2
<1> QED
  BY <1>1, <1>2

\* Rows at the end of a chain may be missing.
LEMMA PrefixKeepsChain ==
  ASSUME NEW table, \A r \in table : r.id \in Nat,
         NEW prefix \in SUBSET table,
         \A r \in prefix, s \in table \ prefix : r.id < s.id,
         Verifies(table)
  PROVE  Verifies(prefix)
<1> SUFFICES ASSUME NEW r \in prefix
             PROVE  IsHead(Before(prefix, r.id), r.prev)
  BY DEF Verifies, Before
<1>1. Before(prefix, r.id) = Before(table, r.id)
  BY DEF Before
<1>2. IsHead(Before(table, r.id), r.prev)
  BY DEF Verifies, Before
<1> QED
  BY <1>1, <1>2

-----------------------------------------------------------------------------
\* A step leaves the chain linked, hashed and stamped in order.
LEMMA ChainStep == TypeOK /\ ChainInv /\ [Next]_vars => ChainInv'
<1> SUFFICES ASSUME TypeOK, ChainInv, [Next]_vars, Postgres'
             PROVE  /\ IdsAreFresh'
                    /\ RowsInProgressAreTheHolders'
                    /\ CommittedComeFirst'
                    /\ AppendersHoldTheLock'
                    /\ HeadsAreCurrent'
                    /\ Verifies(rows)'
                    /\ EveryRowIsNamed'
  BY DEF ChainInv
<1> DEFINE Kept == /\ IdsAreFresh'
                   /\ RowsInProgressAreTheHolders'
                   /\ CommittedComeFirst'
                   /\ AppendersHoldTheLock'
                   /\ HeadsAreCurrent'
                   /\ Verifies(rows)'
                   /\ EveryRowIsNamed'
<1>1. Postgres
  BY DEF Next, Step, CallAppend, LockPostgres, LockSQLite, ReadHead, Insert, Commit,
         BusyTimeout, WriteElsewhere, Rollback, vars, Postgres
<1>2. /\ IdsAreFresh /\ RowsInProgressAreTheHolders /\ CommittedComeFirst
      /\ AppendersHoldTheLock /\ HeadsAreCurrent /\ Verifies(rows) /\ EveryRowIsNamed
  BY <1>1 DEF ChainInv
<1>3. \A r \in rows : r \in Row /\ r.id \in Nat \ {0} /\ r.prev \in Nat /\ r.txn \in Txns
  BY DEF TypeOK, Row
<1>4. ASSUME NEW t \in Txns, CallAppend(t) PROVE Kept
  BY <1>2, <1>3, <1>4
     DEF CallAppend, TypeOK, IdsAreFresh, RowsInProgressAreTheHolders, CommittedComeFirst,
         AppendersHoldTheLock, HeadsAreCurrent, Verifies, EveryRowIsNamed, InProgress, IsHead
<1>5. ASSUME NEW t \in Txns, LockPostgres(t) PROVE Kept
  <2>1. \A r \in rows : InProgress(r) => r.txn = t
    BY <1>2, <1>3, <1>5, NoTxnAssumption DEF LockPostgres, RowsInProgressAreTheHolders
  <2> QED
    BY <1>2, <1>3, <1>5, <2>1, NoTxnAssumption
       DEF LockPostgres, TypeOK, IdsAreFresh, RowsInProgressAreTheHolders, CommittedComeFirst,
           AppendersHoldTheLock, HeadsAreCurrent, Verifies, EveryRowIsNamed, InProgress, IsHead
<1>6. ASSUME NEW t \in Txns, ReadHead(t) PROVE Kept
  <2>1. advisory = t
    BY <1>2, <1>6 DEF ReadHead, AppendersHoldTheLock
  <2>2. Visible(t) = rows
    BY <1>2, <2>1 DEF Visible, RowsInProgressAreTheHolders, InProgress
  <2>3. PICK h \in 0 .. nextId - 1 : IsHead(rows, h) /\ head' = [head EXCEPT ![t] = h]
    BY <1>6, <2>2 DEF ReadHead
  <2> QED
    BY <1>2, <1>3, <1>6, <2>3
       DEF ReadHead, TypeOK, IdsAreFresh, RowsInProgressAreTheHolders, CommittedComeFirst,
           AppendersHoldTheLock, HeadsAreCurrent, Verifies, EveryRowIsNamed, InProgress, IsHead
<1>7. ASSUME NEW t \in Txns, Insert(t) PROVE Kept
  <2> DEFINE row == NewRow(t)
  <2>1. /\ advisory = t /\ IsHead(rows, row.prev) /\ row.id = nextId /\ row.txn = t
        /\ rows' = rows \cup {row} /\ nextId' = nextId + 1 /\ nextId \in Nat \ {0}
        /\ row.prev = head[t]
    BY <1>2, <1>7 DEF Insert, AppendersHoldTheLock, HeadsAreCurrent, NewRow, TypeOK
  <2>2. \A r \in rows : r.id < row.id
    BY <1>2, <2>1 DEF IdsAreFresh
  <2> HIDE DEF row
  <2>3. /\ state' = [state EXCEPT ![t] = "open"] /\ advisory' = advisory /\ head' = head
        /\ state[t] = "inserting" /\ state \in [Txns -> State]
    BY <1>7 DEF Insert, TypeOK
  <2>4. \A r \in rows : InProgress(r)' <=> InProgress(r)
    BY <1>3, <2>3 DEF InProgress
  <2>5. state'[row.txn] # "committed"
    BY <2>1, <2>3
  <2>6. IdsAreFresh'
    BY <1>2, <1>3, <2>1, <2>2 DEF IdsAreFresh
  <2>7. RowsInProgressAreTheHolders'
    BY <1>2, <2>1, <2>3, <2>4 DEF RowsInProgressAreTheHolders
  <2>8. CommittedComeFirst'
    <3> SUFFICES ASSUME NEW r \in rows', NEW s \in rows', ~InProgress(r)', InProgress(s)'
                 PROVE  r.id < s.id
      BY DEF CommittedComeFirst, InProgress
    <3>1. r \in rows
      BY <2>1, <2>5 DEF InProgress
    <3> QED
      BY <1>2, <2>1, <2>2, <2>4, <3>1 DEF CommittedComeFirst
  <2>9. AppendersHoldTheLock'
    BY <1>2, <2>3 DEF AppendersHoldTheLock
  <2>10. HeadsAreCurrent'
    BY <1>2, <2>1, <2>3 DEF HeadsAreCurrent, AppendersHoldTheLock
  <2>11. Verifies(rows)'
    <3>1. Verifies(rows \cup {row})
      BY <1>2, <1>3, <2>1, <2>2, AppendKeepsChain
    <3> QED
      BY <3>1, <2>1 DEF Verifies, IsHead
  <2>12. EveryRowIsNamed'
    <3> SUFFICES ASSUME NEW r \in rows \cup {row}, NEW later \in rows \cup {row}, r.id < later.id
                 PROVE  \E s \in rows \cup {row} : s.prev = r.id /\ s.id <= later.id
      BY <2>1 DEF EveryRowIsNamed
    <3>1. r \in rows /\ r.id \in Nat
      BY <1>3, <2>1, <2>2
    <3>2. CASE later \in rows
      BY <1>2, <3>1, <3>2 DEF EveryRowIsNamed
    <3>3. CASE later = row
      <4>1. PICK last \in rows : last.id = row.prev /\ \A other \in rows : other.id <= last.id
        BY <2>1, <3>1 DEF IsHead
      <4>2. CASE r.id = last.id
        BY <2>1, <3>3, <4>1, <4>2
      <4>3. CASE r.id < last.id
        <5>1. PICK s \in rows : s.prev = r.id /\ s.id <= last.id
          BY <1>2, <3>1, <4>3 DEF EveryRowIsNamed
        <5>2. s.id <= row.id
          BY <1>3, <2>1, <2>2, <5>1
        <5> QED
          BY <3>3, <5>1, <5>2
      <4> QED
        BY <1>3, <3>1, <4>1, <4>2, <4>3
    <3> QED
      BY <3>2, <3>3
  <2> QED
    BY <2>6, <2>7, <2>8, <2>9, <2>10, <2>11, <2>12
<1>8. ASSUME NEW t \in Txns, Commit(t) PROVE Kept
  <2>1. /\ state' = [state EXCEPT ![t] = "committed"] /\ advisory' = Freed(advisory, t)
        /\ rows' = rows /\ nextId' = nextId /\ head' = head /\ state \in [Txns -> State]
    BY <1>8 DEF Commit, End, TypeOK
  <2>2. \A r \in rows : InProgress(r)' <=> InProgress(r) /\ r.txn # t
    BY <1>3, <2>1 DEF InProgress
  <2>3. IdsAreFresh' /\ Verifies(rows)' /\ EveryRowIsNamed'
    BY <1>2, <2>1 DEF IdsAreFresh, Verifies, EveryRowIsNamed, IsHead
  <2>4. RowsInProgressAreTheHolders'
    BY <1>2, <2>1, <2>2 DEF RowsInProgressAreTheHolders, Freed
  <2>5. CommittedComeFirst'
    BY <1>2, <1>3, <2>1, <2>2 DEF CommittedComeFirst, RowsInProgressAreTheHolders
  <2>6. AppendersHoldTheLock'
    BY <1>2, <2>1 DEF AppendersHoldTheLock, Freed
  <2>7. HeadsAreCurrent'
    BY <1>2, <2>1 DEF HeadsAreCurrent, IsHead
  <2> QED
    BY <2>3, <2>4, <2>5, <2>6, <2>7
<1>9. ASSUME NEW t \in Txns, Rollback(t) PROVE Kept
  <2>1. /\ state' = [state EXCEPT ![t] = "rolledback"] /\ advisory' = Freed(advisory, t)
        /\ rows' = {r \in rows : r.txn # t} /\ nextId' = nextId /\ head' = head
        /\ state \in [Txns -> State] /\ state[t] # "committed"
    BY <1>9 DEF Rollback, End, TypeOK
  <2>2. \A r \in rows' : r \in rows /\ (InProgress(r)' <=> InProgress(r))
    BY <1>3, <2>1 DEF InProgress
  <2>3. \A r \in rows, gone \in rows \ rows' : gone.txn = t /\ InProgress(gone) /\ advisory = t
    BY <1>2, <2>1 DEF InProgress, RowsInProgressAreTheHolders
  <2>4. \A r \in rows', gone \in rows \ rows' : r.id < gone.id
    <3> SUFFICES ASSUME NEW r \in rows', NEW gone \in rows \ rows' PROVE r.id < gone.id
      OBVIOUS
    <3>1. ~InProgress(r) /\ InProgress(gone)
      BY <1>2, <2>1, <2>3 DEF RowsInProgressAreTheHolders
    <3> QED
      BY <1>2, <2>1, <3>1 DEF CommittedComeFirst
  <2>5. IdsAreFresh' /\ CommittedComeFirst'
    BY <1>2, <2>1, <2>2 DEF IdsAreFresh, CommittedComeFirst
  <2>6. RowsInProgressAreTheHolders'
    BY <1>2, <2>1, <2>2 DEF RowsInProgressAreTheHolders, Freed
  <2>7. AppendersHoldTheLock'
    BY <1>2, <2>1 DEF AppendersHoldTheLock, Freed
  <2>8. HeadsAreCurrent'
    <3> SUFFICES ASSUME NEW u \in Txns, state'[u] = "inserting" PROVE IsHead(rows', head'[u])
      BY DEF HeadsAreCurrent, IsHead
    <3>1. state[u] = "inserting" /\ u # t
      BY <2>1
    <3>2. rows' = rows
      BY <1>2, <2>1, <2>3, <3>1 DEF AppendersHoldTheLock
    <3> QED
      BY <1>2, <2>1, <3>1, <3>2 DEF HeadsAreCurrent
  <2>9. Verifies(rows)'
    <3>1. Verifies(rows')
      <4> DEFINE prefix == rows'
      <4>1. prefix \in SUBSET rows
        BY <2>1
      <4>2. \A r \in prefix, s \in rows \ prefix : r.id < s.id
        BY <2>4
      <4> HIDE DEF prefix
      <4>3. Verifies(prefix)
        BY <1>2, <1>3, <4>1, <4>2, PrefixKeepsChain
      <4> QED
        BY <4>3 DEF prefix
    <3> QED
      BY <3>1 DEF Verifies, IsHead
  <2>10. EveryRowIsNamed'
    <3> SUFFICES ASSUME NEW r \in rows', NEW later \in rows', r.id < later.id
                 PROVE  \E s \in rows' : s.prev = r.id /\ s.id <= later.id
      BY DEF EveryRowIsNamed
    <3>1. PICK s \in rows : s.prev = r.id /\ s.id <= later.id
      BY <1>2, <2>2 DEF EveryRowIsNamed
    <3>2. s \in rows'
      BY <1>3, <2>1, <2>4, <3>1
    <3> QED
      BY <3>1, <3>2
  <2> QED
    BY <2>5, <2>6, <2>7, <2>8, <2>9, <2>10
<1>10. CASE UNCHANGED vars
  BY <1>2, <1>10
     DEF vars, IdsAreFresh, RowsInProgressAreTheHolders, CommittedComeFirst,
         AppendersHoldTheLock, HeadsAreCurrent, Verifies, EveryRowIsNamed, InProgress, IsHead
<1> QED
  BY <1>1, <1>4, <1>5, <1>6, <1>7, <1>8, <1>9, <1>10
     DEF Next, Step, LockSQLite, BusyTimeout, WriteElsewhere

\* The inductive invariant holds throughout.
LEMMA Invariant == Spec => [](TypeOK /\ ChainInv)
<1>1. Init => TypeOK /\ CallsAreAdmitted /\ ChainInv
  BY MaxAppendsAssumption, DialectsAssumption
     DEF Init, TypeOK, CallsAreAdmitted, State, Genesis, ChainInv, IdsAreFresh,
         RowsInProgressAreTheHolders, CommittedComeFirst, AppendersHoldTheLock,
         HeadsAreCurrent, Verifies, EveryRowIsNamed
<1> QED
  BY <1>1, TypeStep, ChainStep, PTL DEF Spec

-----------------------------------------------------------------------------
\* The committed rows are a prefix of the table.
LEMMA CommittedIsPrefix ==
  ASSUME TypeOK, ChainInv, Postgres
  PROVE  /\ \A r \in rows : r.id \in Nat
         /\ Committed \in SUBSET rows
         /\ \A r \in Committed, s \in rows \ Committed : r.id < s.id
  BY DEF TypeOK, Row, ChainInv, CommittedComeFirst, Committed, InProgress

\* verify_chain() succeeds on PostgreSQL at every moment: concurrent appends
\* are serialized into one linear chain of committed entries (ledger.py,
\* append_entry() under pg_advisory_xact_lock).
THEOREM ChainHolds == Spec => []PostgresChainVerifies
<1>1. TypeOK /\ ChainInv => PostgresChainVerifies
  <2> SUFFICES ASSUME TypeOK, ChainInv, Postgres PROVE Verifies(Committed)
    BY DEF PostgresChainVerifies, ChainVerifies
  <2>1. Verifies(rows)
    BY DEF ChainInv
  <2> QED
    BY <2>1, CommittedIsPrefix, PrefixKeepsChain
<1> QED
  BY <1>1, Invariant, PTL

\* verify_chain() reports the deletion of any committed entry but the last
\* one: the entry behind it names a hash that no remaining row has.
THEOREM DeletionShows == Spec => []DeletionDetected
<1>1. TypeOK /\ ChainInv => DeletionDetected
  <2> SUFFICES ASSUME TypeOK, ChainInv, Postgres, NEW r \in Committed, NEW later \in Committed,
                      later.id > r.id, Verifies(Committed \ {r})
               PROVE  FALSE
    BY DEF DeletionDetected
  <2>1. \A row \in rows : row.id \in Nat \ {0}
    BY DEF TypeOK, Row
  <2>2. PICK s \in rows : s.prev = r.id /\ s.id <= later.id
    BY CommittedIsPrefix DEF ChainInv, EveryRowIsNamed
  <2>3. s \in Committed
    BY <2>1, <2>2, CommittedIsPrefix
  <2>4. PICK other \in rows : other.id < s.id /\ other.id = r.id
    BY <2>1, <2>2, CommittedIsPrefix DEF ChainInv, Verifies, IsHead, Genesis
  <2>5. s \in Committed \ {r}
    BY <2>1, <2>3, <2>4
  <2>6. PICK twin \in Committed \ {r} : twin.id = r.id
    BY <2>1, <2>2, <2>5, CommittedIsPrefix DEF Verifies, IsHead, Genesis
  <2> QED
    BY <2>6, CommittedIsPrefix DEF ChainInv, IdsAreFresh
<1> QED
  BY <1>1, Invariant, PTL

-----------------------------------------------------------------------------
(***************************************************************************)
(* The rows of a table in the order of their ids.                          *)
(***************************************************************************)
HasIds(table) ==
    /\ IsFiniteSet(table)
    /\ \A r \in table : r.id \in Nat /\ \A s \in table : s.id = r.id => s = r

Rank(table, r) == Cardinality({other \in table : other.id <= r.id})

Nth(table, k) == CHOOSE r \in table : Rank(table, r) = k

\* Ranks number the rows of a table in the order of their ids.
LEMMA RankIs ==
  ASSUME NEW table, HasIds(table)
  PROVE  /\ Cardinality(table) \in Nat
         /\ \A r \in table : Rank(table, r) \in 1 .. Cardinality(table)
         /\ \A r, s \in table : r.id < s.id => Rank(table, r) < Rank(table, s)
         /\ \A r, s \in table : Rank(table, r) = Rank(table, s) => r = s
         /\ \A k \in 1 .. Cardinality(table) : \E r \in table : Rank(table, r) = k
<1> DEFINE UpTo(r) == {other \in table : other.id <= r.id}
           n == Cardinality(table)
<1>1. /\ n \in Nat
      /\ \A r \in table : IsFiniteSet(UpTo(r)) /\ Cardinality(UpTo(r)) \in Nat /\ Cardinality(UpTo(r)) <= n
  <2>1. \A r \in table : UpTo(r) \in SUBSET table
    OBVIOUS
  <2> HIDE DEF UpTo
  <2> QED
    BY <2>1, FS_Subset, FS_CardinalityType DEF HasIds
<1>2. \A r \in table : Cardinality(UpTo(r)) # 0
  <2> TAKE r \in table
  <2>1. r \in UpTo(r)
    BY DEF HasIds
  <2> HIDE DEF UpTo
  <2> QED
    BY <1>1, <2>1, FS_EmptySet
<1>3. ASSUME NEW r \in table, NEW s \in table, r.id < s.id
      PROVE  Cardinality(UpTo(r)) < Cardinality(UpTo(s))
  <2>1. UpTo(r) \in SUBSET UpTo(s) /\ s \in UpTo(s) /\ s \notin UpTo(r)
    BY <1>3 DEF HasIds
  <2> HIDE DEF UpTo
  <2>2. Cardinality(UpTo(r)) <= Cardinality(UpTo(s))
    BY <1>1, <2>1, FS_Subset
  <2>3. Cardinality(UpTo(s)) # Cardinality(UpTo(r))
    BY <1>1, <2>1, FS_Subset
  <2> QED
    BY <1>1, <2>2, <2>3
<1>4. \A r \in table : Rank(table, r) = Cardinality(UpTo(r))
  BY DEF Rank
<1> HIDE DEF UpTo
<1>5. ASSUME NEW r \in table, NEW s \in table, Rank(table, r) = Rank(table, s)
      PROVE  r = s
  <2>1. ~ r.id < s.id /\ ~ s.id < r.id
    BY <1>1, <1>3, <1>4, <1>5
  <2> QED
    BY <2>1 DEF HasIds
<1>6. \A r \in table : Rank(table, r) \in 1 .. n
  BY <1>1, <1>2, <1>4
<1> DEFINE f == [r \in table |-> Rank(table, r)]
<1>7. f \in Injection(table, 1 .. n)
  <2>1. f \in [table -> 1 .. n]
    BY <1>6
  <2>2. \A r, s \in table : f[r] = f[s] => r = s
    BY <1>5
  <2> HIDE DEF f
  <2> QED
    BY <2>1, <2>2, Fun_IsInj
<1>8. f \in Surjection(table, 1 .. n)
  <2>1. IsFiniteSet(1 .. n) /\ Cardinality(1 .. n) = n
    BY <1>1, FS_Interval
  <2> HIDE DEF f
  <2> QED
    BY <1>7, <2>1, FS_Injection
<1>9. \A k \in 1 .. n : \E r \in table : f[r] = k
  <2> HIDE DEF f
  <2> QED
    BY <1>8, Fun_SurjectionProperties
<1> QED
  BY <1>1, <1>3, <1>4, <1>5, <1>6, <1>9

\* So every number up to the size of the table has its row, and every row its number.
LEMMA NthIs ==
  ASSUME NEW table, HasIds(table)
  PROVE  /\ \A k \in 1 .. Cardinality(table) : Nth(table, k) \in table /\ Rank(table, Nth(table, k)) = k
         /\ \A r \in table : Nth(table, Rank(table, r)) = r
<1>1. \A k \in 1 .. Cardinality(table) : Nth(table, k) \in table /\ Rank(table, Nth(table, k)) = k
  BY RankIs DEF Nth
<1> QED
  BY <1>1, RankIs

\* The log of a table, entry by entry.
LEMMA LogIs ==
  ASSUME NEW table, HasIds(table)
  PROVE  /\ InOrder(table) \in Seq({Entry(r) : r \in table})
         /\ Len(InOrder(table)) = Cardinality(table)
         /\ DOMAIN InOrder(table) = 1 .. Cardinality(table)
         /\ \A k \in 1 .. Cardinality(table) : InOrder(table)[k] = Entry(Nth(table, k))
<1>1. InOrder(table) = [k \in 1 .. Cardinality(table) |-> Entry(Nth(table, k))]
  BY DEF InOrder, Nth, Rank
<1>2. Cardinality(table) \in Nat
  BY RankIs
<1>3. \A k \in 1 .. Cardinality(table) : Entry(Nth(table, k)) \in {Entry(r) : r \in table}
  BY NthIs
<1>4. InOrder(table) \in [1 .. Cardinality(table) -> {Entry(r) : r \in table}]
  BY <1>1, <1>3
<1>5. InOrder(table) \in Seq({Entry(r) : r \in table})
  BY <1>2, <1>4
<1> QED
  BY <1>1, <1>2, <1>5, LenProperties

\* Rows that are appended behind all others leave the others where they were.
LEMMA OrderExtends ==
  ASSUME NEW table, HasIds(table), NEW prefix \in SUBSET table,
         \A r \in prefix, s \in table \ prefix : r.id < s.id
  PROVE  /\ HasIds(prefix)
         /\ Cardinality(prefix) <= Cardinality(table)
         /\ \A k \in 1 .. Cardinality(prefix) : Nth(table, k) = Nth(prefix, k)
         /\ \A k \in Cardinality(prefix) + 1 .. Cardinality(table) : Nth(table, k) \in table \ prefix
<1>1. HasIds(prefix) /\ Cardinality(prefix) <= Cardinality(table)
  BY FS_Subset DEF HasIds
<1>2. \A r \in prefix : Rank(table, r) = Rank(prefix, r)
  <2> TAKE r \in prefix
  <2>1. {other \in table : other.id <= r.id} = {other \in prefix : other.id <= r.id}
    BY DEF HasIds
  <2> QED
    BY <2>1 DEF Rank
<1>3. ASSUME NEW k \in 1 .. Cardinality(prefix) PROVE Nth(table, k) = Nth(prefix, k)
  <2>1. Nth(prefix, k) \in prefix /\ Rank(prefix, Nth(prefix, k)) = k
    BY <1>1, NthIs
  <2>2. Rank(table, Nth(prefix, k)) = k
    BY <1>2, <2>1
  <2> QED
    BY <2>1, <2>2, NthIs
<1>4. ASSUME NEW k \in Cardinality(prefix) + 1 .. Cardinality(table), Nth(table, k) \in prefix
      PROVE  FALSE
  <2>1. Cardinality(prefix) \in Nat /\ Cardinality(table) \in Nat
    BY <1>1, RankIs
  <2>2. Rank(table, Nth(table, k)) = k
    BY <2>1, NthIs
  <2>3. Rank(prefix, Nth(table, k)) = k /\ Rank(prefix, Nth(table, k)) <= Cardinality(prefix)
    BY <1>1, <1>2, <1>4, <2>2, RankIs
  <2> QED
    BY <2>1, <2>3
<1>5. \A k \in Cardinality(prefix) + 1 .. Cardinality(table) : Nth(table, k) \in table
  <2>1. Cardinality(prefix) \in Nat /\ Cardinality(table) \in Nat
    BY <1>1, RankIs
  <2> QED
    BY <2>1, NthIs
<1> QED
  BY <1>1, <1>3, <1>4, <1>5

\* In a chain, each row names the row before it, and the first one the genesis.
LEMMA ChainInOrder ==
  ASSUME NEW table, HasIds(table), Verifies(table), NEW k \in 1 .. Cardinality(table),
         \A r \in table : r.id # Genesis
  PROVE  Nth(table, k).prev = IF k = 1 THEN Genesis ELSE Nth(table, k - 1).id
<1> DEFINE r == Nth(table, k)
<1>1. r \in table /\ Rank(table, r) = k /\ Cardinality(table) \in Nat
  BY NthIs, RankIs
<1>2. IsHead(Before(table, r.id), r.prev)
  BY <1>1 DEF Verifies, Before
<1>3. ASSUME NEW s \in table, s.id < r.id, \A other \in table : other.id < r.id => other.id <= s.id
      PROVE  k > 1 /\ s = Nth(table, k - 1)
  <2>1. Rank(table, s) < k /\ Rank(table, s) \in 1 .. Cardinality(table)
    BY <1>1, <1>3, RankIs
  <2>2. ASSUME Rank(table, s) < k - 1 PROVE FALSE
    <3>1. PICK other \in table : Rank(table, other) = k - 1
      BY <1>1, <2>1, <2>2, RankIs
    <3>2. ~(other.id <= s.id)
      <4>1. other # s
        BY <2>2, <3>1
      <4>2. ~(other.id < s.id)
        BY <2>1, <2>2, <3>1, RankIs
      <4> QED
        BY <4>1, <4>2 DEF HasIds
    <3>3. ~(other.id < r.id)
      BY <1>3, <3>2
    <3>4. other.id = r.id \/ r.id < other.id
      BY <1>1, <3>3 DEF HasIds
    <3>5. ~(r.id < other.id)
      BY <1>1, <3>1, RankIs
    <3>6. other = r
      BY <1>1, <3>4, <3>5 DEF HasIds
    <3> QED
      BY <1>1, <3>1, <3>6
  <2>3. Rank(table, s) = k - 1
    BY <2>1, <2>2
  <2> QED
    BY <2>1, <2>3, NthIs
<1>4. CASE k = 1
  <2>1. Before(table, r.id) = {}
    <3> SUFFICES ASSUME NEW s \in table, s.id < r.id PROVE FALSE
      BY DEF Before
    <3>1. Rank(table, s) < 1 /\ Rank(table, s) \in 1 .. Cardinality(table)
      BY <1>1, <1>4, RankIs
    <3> QED
      BY <3>1
  <2> QED
    BY <1>2, <1>4, <2>1 DEF IsHead
<1>5. CASE k # 1
  <2>1. Nth(table, k - 1) \in table /\ Rank(table, Nth(table, k - 1)) = k - 1
    BY <1>1, <1>5, NthIs
  <2>2. Nth(table, k - 1).id < r.id
    <3>1. Nth(table, k - 1) # r
      BY <1>1, <2>1
    <3>2. ~(r.id < Nth(table, k - 1).id)
      BY <1>1, <2>1, RankIs
    <3> QED
      BY <1>1, <2>1, <3>1, <3>2 DEF HasIds
  <2>3. Before(table, r.id) # {}
    BY <2>1, <2>2 DEF Before
  <2>4. PICK s \in Before(table, r.id) : s.id = r.prev /\ \A other \in Before(table, r.id) : other.id <= r.prev
    BY <1>2, <2>3 DEF IsHead
  <2>5. s = Nth(table, k - 1)
    BY <1>3, <2>4 DEF Before
  <2> QED
    BY <1>5, <2>4, <2>5
<1> QED
  BY <1>4, <1>5

-----------------------------------------------------------------------------
(***************************************************************************)
(* A commit publishes the rows of its transaction. The bound on its block  *)
(* needs that a transaction has as many rows as it has appended entries.   *)
(***************************************************************************)
RowsOf(t) == {r \in rows : r.txn = t}

RowsAreCounted ==
    /\ IsFiniteSet(rows)
    /\ \A t \in Txns : state[t] # "rolledback" => Cardinality(RowsOf(t)) = appends[t]

\* An insertion adds one row, a rollback takes all of its transaction's.
LEMMA CountStep ==
    TypeOK /\ ChainInv /\ RowsAreCounted /\ [Next]_vars => (Postgres => RowsAreCounted)'
<1> SUFFICES ASSUME TypeOK, ChainInv, RowsAreCounted, [Next]_vars, Postgres'
             PROVE  RowsAreCounted'
  OBVIOUS
<1>1. Postgres
  BY DEF Next, Step, CallAppend, LockPostgres, LockSQLite, ReadHead, Insert, Commit,
         BusyTimeout, WriteElsewhere, Rollback, vars, Postgres
<1>2. state \in [Txns -> State] /\ appends \in [Txns -> 0 .. MaxAppends]
  BY DEF TypeOK
<1>3. ASSUME NEW t \in Txns, CallAppend(t) \/ LockPostgres(t) \/ ReadHead(t) \/ Commit(t)
      PROVE  RowsAreCounted'
  <2>1. rows' = rows /\ appends' = appends
        /\ \A u \in Txns : state'[u] # "rolledback" => state[u] # "rolledback"
    BY <1>2, <1>3 DEF CallAppend, LockPostgres, ReadHead, Commit, End
  <2> QED
    BY <2>1 DEF RowsAreCounted, RowsOf
<1>4. ASSUME NEW t \in Txns, Insert(t) PROVE RowsAreCounted'
  <2> DEFINE row == NewRow(t)
  <2>1. /\ row.txn = t /\ row.id = nextId /\ rows' = rows \cup {row}
        /\ appends' = [appends EXCEPT ![t] = @ + 1] /\ state' = [state EXCEPT ![t] = "open"]
        /\ state[t] = "inserting"
    BY <1>4 DEF Insert, NewRow
  <2>2. row \notin rows
    BY <1>1, <2>1 DEF ChainInv, IdsAreFresh, TypeOK
  <2> HIDE DEF row
  <2>3. IsFiniteSet(rows')
    BY <2>1, FS_AddElement DEF RowsAreCounted
  <2>4. ASSUME NEW u \in Txns, state'[u] # "rolledback"
        PROVE  Cardinality({r \in rows' : r.txn = u}) = appends'[u]
    <3>1. /\ IsFiniteSet(RowsOf(u)) /\ RowsOf(u) \in SUBSET rows
          /\ Cardinality(RowsOf(u)) = appends[u]
      BY <1>2, <2>1, <2>4, FS_Subset DEF RowsAreCounted, RowsOf
    <3>2. CASE u = t
      <4>1. {r \in rows' : r.txn = u} = RowsOf(u) \cup {row} /\ row \notin RowsOf(u)
        BY <2>1, <2>2, <3>2 DEF RowsOf
      <4>2. appends'[u] = appends[u] + 1
        BY <1>2, <2>1, <3>2
      <4> QED
        BY <3>1, <4>1, <4>2, FS_AddElement
    <3>3. CASE u # t
      <4>1. {r \in rows' : r.txn = u} = RowsOf(u)
        BY <2>1, <3>3 DEF RowsOf
      <4>2. appends'[u] = appends[u]
        BY <1>2, <2>1, <3>3
      <4> QED
        BY <3>1, <4>1, <4>2
    <3> QED
      BY <3>2, <3>3
  <2> QED
    BY <2>3, <2>4 DEF RowsAreCounted, RowsOf
<1>5. ASSUME NEW t \in Txns, Rollback(t) PROVE RowsAreCounted'
  <2>1. /\ rows' = {r \in rows : r.txn # t} /\ appends' = appends
        /\ state' = [state EXCEPT ![t] = "rolledback"]
    BY <1>5 DEF Rollback, End
  <2>2. IsFiniteSet(rows')
    <3>1. {r \in rows : r.txn # t} \in SUBSET rows
      OBVIOUS
    <3> QED
      BY <2>1, <3>1, FS_Subset DEF RowsAreCounted
  <2>3. ASSUME NEW u \in Txns, state'[u] # "rolledback"
        PROVE  Cardinality({r \in rows' : r.txn = u}) = appends'[u]
    <3>1. u # t /\ state[u] # "rolledback"
      BY <1>2, <2>1, <2>3
    <3>2. {r \in rows' : r.txn = u} = RowsOf(u)
      BY <2>1, <3>1 DEF RowsOf
    <3> QED
      BY <2>1, <3>1, <3>2 DEF RowsAreCounted
  <2> QED
    BY <2>2, <2>3 DEF RowsAreCounted, RowsOf
<1>6. CASE UNCHANGED vars
  BY <1>6 DEF vars, RowsAreCounted, RowsOf
<1> QED
  BY <1>1, <1>3, <1>4, <1>5, <1>6 DEF Next, Step, LockSQLite, BusyTimeout, WriteElsewhere

\* The count holds throughout.
LEMMA Counted == Spec => [](Postgres => RowsAreCounted)
<1>1. Init => RowsAreCounted
  BY FS_EmptySet DEF Init, RowsAreCounted, RowsOf
<1>2. TypeOK /\ ChainInv /\ (Postgres => RowsAreCounted) /\ [Next]_vars => (Postgres => RowsAreCounted)'
  <2>1. [Next]_vars /\ Postgres' => Postgres
    BY DEF Next, Step, CallAppend, LockPostgres, LockSQLite, ReadHead, Insert, Commit,
           BusyTimeout, WriteElsewhere, Rollback, vars, Postgres
  <2> QED
    BY <2>1, CountStep
<1> QED
  BY <1>1, <1>2, Invariant, PTL DEF Spec

\* A commit appends one block behind everything committed before.
LEMMA CommitPublishes ==
  ASSUME TypeOK, ChainInv, RowsAreCounted, TypeOK', ChainInv', Postgres,
         NEW t \in Txns, Commit(t)
  PROVE  Log!Publish(t)
<1> DEFINE C == Committed
           D == RowsOf(t)
           E == C \cup D
           n == Cardinality(C)
           N == Cardinality(E)
<1>1. /\ state[t] = "open" /\ appends[t] > 0 /\ state' = [state EXCEPT ![t] = "committed"]
      /\ rows' = rows /\ dialect' = dialect
      /\ state \in [Txns -> State] /\ appends[t] \in 0 .. MaxAppends
      /\ \A r \in rows : r.id \in Nat \ {0} /\ r.txn \in Txns
  BY DEF Commit, End, TypeOK, Row
<1>2. Committed' = E /\ Postgres'
  BY <1>1 DEF Committed, RowsOf, Postgres
<1>3. /\ E \in SUBSET rows /\ C \in SUBSET E /\ E \ C = D /\ C \cap D = {}
      /\ \A r \in C : r.txn # t
      /\ \A r \in D : r.txn = t
  BY <1>1 DEF Committed, RowsOf
<1>4. \A r \in C, s \in D : r.id < s.id
  BY <1>1, CommittedIsPrefix DEF Committed, RowsOf
<1>5. HasIds(E) /\ HasIds(C) /\ IsFiniteSet(D)
  <2>1. \A r \in rows : r.id \in Nat /\ \A s \in rows : s.id = r.id => s = r
    BY <1>1 DEF ChainInv, IdsAreFresh
  <2>2. \A T \in SUBSET rows : HasIds(T)
    BY <2>1, FS_Subset DEF HasIds, RowsAreCounted
  <2>3. C \in SUBSET rows /\ D \in SUBSET rows
    BY <1>3
  <2> HIDE DEF C, D, E
  <2> QED
    BY <1>3, <2>2, <2>3 DEF HasIds
<1>6. n \in Nat /\ N \in Nat /\ N = n + appends[t]
  <2>1. Cardinality(D) = appends[t]
    BY <1>1 DEF RowsAreCounted
  <2> HIDE DEF C, D
  <2>2. N = n + Cardinality(D) - Cardinality(C \cap D)
    BY <1>5, FS_Union DEF HasIds
  <2>3. Cardinality(C \cap D) = 0
    BY <1>3, FS_EmptySet
  <2> QED
    BY <1>1, <1>5, <2>1, <2>2, <2>3, FS_CardinalityType DEF HasIds
<1>7. Verifies(E)
  <2>1. PostgresChainVerifies'
    <3>1. Verifies(rows)
      BY DEF ChainInv
    <3>2. \A r \in E, s \in rows \ E : r.id < s.id
      <4> SUFFICES ASSUME NEW r \in E, NEW s \in rows \ E PROVE r.id < s.id
        OBVIOUS
      <4>1. ~InProgress(r)' /\ InProgress(s)' /\ r \in rows' /\ s \in rows'
        BY <1>1 DEF InProgress, Committed, RowsOf
      <4> QED
        BY <1>2, <4>1 DEF ChainInv, CommittedComeFirst
    <3>3. \A r \in rows : r.id \in Nat
      BY <1>1
    <3> HIDE DEF E
    <3>4. Verifies(E)
      BY <1>3, <3>1, <3>2, <3>3, PrefixKeepsChain
    <3> QED
      BY <1>2, <3>4 DEF PostgresChainVerifies, ChainVerifies, Verifies, IsHead
  <2> QED
    BY <1>2, <2>1 DEF PostgresChainVerifies, ChainVerifies, Verifies, IsHead
<1> DEFINE old == InOrder(C)
           new == InOrder(E)
<1> HIDE DEF C, D, E
<1>8. /\ old \in Seq({Entry(r) : r \in C}) /\ Len(old) = n /\ DOMAIN old = 1 .. n
      /\ \A k \in 1 .. n : old[k] = Entry(Nth(C, k))
  BY <1>5, LogIs
<1>9. /\ new \in Seq({Entry(r) : r \in E}) /\ Len(new) = N /\ DOMAIN new = 1 .. N
      /\ \A k \in 1 .. N : new[k] = Entry(Nth(E, k))
  BY <1>5, LogIs
<1>10. /\ \A k \in 1 .. n : Nth(E, k) = Nth(C, k)
       /\ \A k \in n + 1 .. N : Nth(E, k) \in D
  BY <1>3, <1>4, <1>5, OrderExtends
<1> HIDE DEF old, new, n, N
<1>11. \A k \in 1 .. n : new[k] = old[k] /\ old[k].owner # t
  <2> SUFFICES ASSUME NEW k \in 1 .. n PROVE new[k] = old[k] /\ old[k].owner # t
    OBVIOUS
  <2>1. k \in 1 .. N
    BY <1>1, <1>6
  <2>2. Nth(C, k) \in C
    BY <1>5, NthIs DEF n
  <2> QED
    BY <1>3, <1>8, <1>9, <1>10, <2>1, <2>2 DEF Entry
<1>12. SubSeq(new, 1, n) = old
  <2>1. \A k \in 1 .. n : new[k] \in {Entry(r) : r \in E}
    BY <1>1, <1>6, <1>9
  <2>2. /\ SubSeq(new, 1, n) \in Seq({Entry(r) : r \in E})
        /\ Len(SubSeq(new, 1, n)) = n
        /\ \A k \in 1 .. n : SubSeq(new, 1, n)[k] = new[k]
    BY <1>6, <2>1, SubSeqProperties
  <2>3. \A k \in 1 .. n : SubSeq(new, 1, n)[k] = old[k]
    BY <1>11, <2>2
  <2> QED
    BY <1>6, <1>8, <2>2, <2>3, SeqEqual
<1>13. ASSUME NEW k \in n + 1 .. N
       PROVE  /\ new[k].owner = t
              /\ new[k].prev = IF k = 1 THEN Genesis ELSE new[k - 1].hash
              /\ \A j \in 1 .. k - 1 : new[j].hash # new[k].hash
  <2>1. k \in 1 .. N /\ Nth(E, k) \in D /\ Nth(E, k) \in E /\ new[k] = Entry(Nth(E, k))
    BY <1>3, <1>6, <1>9, <1>10
  <2>2. Nth(E, k).prev = IF k = 1 THEN Genesis ELSE Nth(E, k - 1).id
    <3>1. \A r \in E : r.id # Genesis
      BY <1>1, <1>3 DEF Genesis
    <3> QED
      BY <1>5, <1>7, <2>1, <3>1, ChainInOrder DEF N
  <2>3. ASSUME NEW j \in 1 .. k - 1
        PROVE  new[j].hash # new[k].hash
    <3>1. j \in 1 .. N /\ j # k
      BY <1>6, <2>1
    <3>2. Nth(E, j) \in E /\ Nth(E, j) # Nth(E, k) /\ new[j] = Entry(Nth(E, j))
      BY <1>5, <1>9, <2>1, <3>1, NthIs DEF N
    <3> QED
      BY <1>5, <2>1, <3>2 DEF Entry, HasIds
  <2>4. k # 1 => new[k - 1] = Entry(Nth(E, k - 1))
    BY <1>6, <1>9, <2>1
  <2> QED
    BY <1>3, <2>1, <2>2, <2>3, <2>4 DEF Entry
<1>14. /\ (IF Postgres THEN InOrder(Committed) ELSE <<>>) = old
       /\ (IF Postgres THEN InOrder(Committed) ELSE <<>>)' = new
  <2>1. InOrder(Committed) = old
    BY DEF old, C
  <2>2. InOrder(Committed)' = new
    BY <1>2 DEF new, InOrder, Entry
  <2> QED
    BY <1>2, <2>1, <2>2
<1>15. /\ \A k \in DOMAIN old : old[k].owner # t
       /\ Len(new) \in Len(old) + 1 .. Len(old) + MaxAppends
  BY <1>1, <1>6, <1>8, <1>9, <1>11, MaxAppendsAssumption
<1> QED
  BY <1>8, <1>9, <1>12, <1>13, <1>14, <1>15 DEF Log!Publish, Log!HashBefore, Log!Genesis, Genesis

\* What other steps do to the table leaves the committed rows alone.
LEMMA CommittedStays ==
  ASSUME TypeOK, [Next]_vars, Postgres, \A t \in Txns : ~Commit(t)
  PROVE  Committed' = Committed /\ Postgres'
<1>1. state \in [Txns -> State] /\ \A r \in rows : r.txn \in Txns
  BY DEF TypeOK, Row
<1>2. ASSUME NEW t \in Txns, CallAppend(t) \/ LockPostgres(t) \/ ReadHead(t)
      PROVE  Committed' = Committed /\ Postgres'
  BY <1>1, <1>2 DEF CallAppend, LockPostgres, ReadHead, Committed, Postgres
<1>3. ASSUME NEW t \in Txns, Insert(t) PROVE Committed' = Committed /\ Postgres'
  <2>1. NewRow(t).txn = t
    BY DEF NewRow
  <2> QED
    BY <1>1, <1>3, <2>1 DEF Insert, Committed, Postgres
<1>4. ASSUME NEW t \in Txns, Rollback(t) PROVE Committed' = Committed /\ Postgres'
  BY <1>1, <1>4 DEF Rollback, End, Committed, Postgres
<1>5. CASE UNCHANGED vars
  BY <1>5 DEF vars, Committed, Postgres
<1> QED
  BY <1>2, <1>3, <1>4, <1>5 DEF Next, Step, LockSQLite, BusyTimeout, WriteElsewhere

\* On PostgreSQL the ledger is an append-only log to which each transaction
\* adds its entries in one block, when it commits (append_entry(), which
\* flushes, and its caller, who commits).
THEOREM CommitsAppend == Spec => CommitsAppendBlocks
<1> DEFINE log == IF Postgres THEN InOrder(Committed) ELSE <<>>
<1>1. Init => Log!Init
  <2> SUFFICES ASSUME Init PROVE log = <<>>
    BY DEF Log!Init
  <2>1. Committed = {}
    BY DEF Init, Committed
  <2>2. InOrder({}) = <<>>
    BY FS_EmptySet DEF InOrder
  <2> QED
    BY <2>1, <2>2
<1>2. TypeOK /\ ChainInv /\ (Postgres => RowsAreCounted) /\ TypeOK' /\ ChainInv' /\ [Next]_vars
        => [Log!Next]_log
  <2> SUFFICES ASSUME TypeOK, ChainInv, Postgres => RowsAreCounted, TypeOK', ChainInv', [Next]_vars
               PROVE  Log!Next \/ log' = log
    OBVIOUS
  <2>1. CASE ~Postgres
    <3>1. ~Postgres'
      BY <2>1 DEF Next, Step, CallAppend, LockPostgres, LockSQLite, ReadHead, Insert, Commit,
                  BusyTimeout, WriteElsewhere, Rollback, vars, Postgres
    <3> QED
      BY <2>1, <3>1
  <2>2. CASE Postgres /\ \E t \in Txns : Commit(t)
    BY <2>2, CommitPublishes DEF Log!Next
  <2>3. CASE Postgres /\ \A t \in Txns : ~Commit(t)
    <3>1. Committed' = Committed /\ Postgres'
      BY <2>3, CommittedStays
    <3>2. InOrder(Committed)' = InOrder(Committed)
      BY <3>1 DEF InOrder, Entry
    <3> QED
      BY <2>3, <3>1, <3>2
  <2> QED
    BY <2>1, <2>2, <2>3
<1> QED
  BY <1>1, <1>2, Invariant, Counted, PTL DEF Spec, CommitsAppendBlocks, Log!Spec

=============================================================================
