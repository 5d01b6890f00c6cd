-------------------------- MODULE RowLocks_proofs --------------------------
(***************************************************************************)
(* What TLAPS proves of RowLocks, for any number of sessions, intents and  *)
(* mandates: whose locks there can be; and, with one executor and no early *)
(* release, that the sessions implement PaymentRail and order no leg       *)
(* twice.                                                                  *)
(***************************************************************************)
EXTENDS RowLocks, PaymentRailBudget_proofs, WellFoundedInduction

\* The records of the sessions, by what they serve and where they stand. The
\* session of a plan's execution holds objects of some of the legs.
HeldObjects == UNION {[held -> MandateRow] : held \in SUBSET (1 .. MaxMandates)}

MandateJobs ==
    [at : {"lockIntent", "commit"}, kind : {"mandate"}, intent : Intents, row : IntentRow,
     merchant : Merchants, key : Keys, total : CartTotals]
PlanJobs ==
    [at : {"lockIntent", "commit"}, kind : {"plan"}, intent : Intents, row : IntentRow,
     plan : Plans, legs : Legs]
UnlockedNotices ==
    [at : {"lockMandate"}, kind : Notifying, intent : Intents, mandate : 1 .. MaxMandates,
     event : EventIds]
LockedNotices ==
    [at : {"lockIntent"}, kind : Notifying, intent : Intents, mandate : 1 .. MaxMandates,
     event : EventIds, rows : Seq(MandateRow)]
Notices ==
    [at : {"commit"}, kind : Notifying, intent : Intents, mandate : 1 .. MaxMandates,
     event : EventIds, row : IntentRow, status : PlanStatus \cup {"none"}, rows : Seq(MandateRow)]
AtLeg == {"lockMandate", "revalidate", "lockIntent", "commit"}
Executions ==
    [at : {"between", "answer", "sync"} \cup AtLeg, kind : Executing, intent : Intents,
     plan : Plans, todo : SUBSET (1 .. MaxMandates), mandate : 0 .. MaxMandates,
     rows : HeldObjects, row : IntentRow, status : PlanStatus \cup {"none"}]

Jobs == {Idle} \cup MandateJobs \cup PlanJobs \cup UnlockedNotices \cup LockedNotices \cup Notices
        \cup Executions

\* The session's object of the mandate it works on.
HeldRow(job) == job.rows[job.mandate]

\* What a session's record says of rows that exist: a mandate never leaves its plan.
KnowsItsRows(job) ==
    /\ job \in Jobs
    /\ job \in UnlockedNotices \cup LockedNotices \cup Notices => job.mandate \in Rows
    /\ job \in LockedNotices \cup Notices => job.mandate \in 1 .. Len(job.rows)
    /\ job \in Notices /\ job.kind = "capture" => job.row.reserved >= HeldRow(job).amount
    /\ job \in Executions =>
          /\ job.todo \subseteq LegsOf(job.plan)
          /\ DOMAIN job.rows \subseteq LegsOf(job.plan)
          /\ job.at \in AtLeg => job.mandate \in DOMAIN job.rows
          /\ job.at = "answer" => job.mandate \in LegsOf(job.plan)
          /\ job.at \in {"between", "sync"} => job.mandate = 0

\* What a session that has a mandate's row locked is doing.
LocksLeg(job, m) ==
    \/ job \in LockedNotices \cup Notices /\ job.mandate = m
    \/ /\ job \in Executions /\ job.at # "answer"
       /\ m \in LegsOf(job.plan)
       /\ m = job.mandate \/ m \notin job.todo

\* What a session that has an intent's row locked is doing: an executor never
\* holds the intent while it orders.
Commits(job, i) == job.at = "commit" /\ job.kind # "execute" /\ job.intent = i

LockTypes ==
    /\ DOMAIN session = Sessions
    /\ mandateLock \in [1 .. MaxMandates -> Sessions \cup {NoSession}]
    /\ intentLock \in [Intents -> Sessions \cup {NoSession}]

\* The inductive invariant: LocksAreHeldByTheBusy with the records of the sessions,
\* which decide what locks a step may find in a session's hands.
LocksInv ==
    /\ TypeOK
    /\ LockTypes
    /\ \A s \in Sessions :
          /\ KnowsItsRows(session[s])
          /\ \A m \in 1 .. MaxMandates : mandateLock[m] = s => LocksLeg(session[s], m)
          /\ \A i \in Intents : intentLock[i] = s => Commits(session[s], i)

\* Rows are never deleted, nor moved to another plan.
RowsStay ==
    /\ Len(mandates) \in Nat /\ Len(mandates') \in Nat /\ Len(mandates) <= Len(mandates')
    /\ \A k \in Rows : mandates'[k].plan = mandates[k].plan
-----------------------------------------------------------------------------
(***************************************************************************)
(* Records.                                                                *)
(***************************************************************************)
\* What a session's record says of it, the idle one aside.
LEMMA JobKinds ==
    ASSUME NEW job \in Jobs, job.at # "idle"
    PROVE  /\ job.kind = "mandate" => job \in MandateJobs
           /\ job.kind = "plan" => job \in PlanJobs
           /\ job.kind \in Notifying =>
                 /\ job.at = "lockMandate" => job \in UnlockedNotices
                 /\ job.at = "lockIntent" => job \in LockedNotices
                 /\ job.at = "commit" => job \in Notices
           /\ job.kind \in Executing => job \in Executions
BY DEF Jobs, Idle, MandateJobs, PlanJobs, UnlockedNotices, LockedNotices, Notices, Executions,
       Notifying, Executing

\* The sets of records have no record in common.
LEMMA JobsApart ==
    ASSUME NEW job
    PROVE  /\ job \in Executions =>
                 job \notin MandateJobs \cup PlanJobs \cup UnlockedNotices \cup LockedNotices \cup Notices
           /\ job \in Notices =>
                 job \notin MandateJobs \cup PlanJobs \cup UnlockedNotices \cup LockedNotices
           /\ job \in LockedNotices => job \notin MandateJobs \cup PlanJobs \cup UnlockedNotices
           /\ job \in UnlockedNotices => job \notin MandateJobs \cup PlanJobs
           /\ job \in MandateJobs => job \notin PlanJobs
           /\ job = Idle => job \notin MandateJobs \cup PlanJobs \cup UnlockedNotices \cup LockedNotices
                                       \cup Notices \cup Executions
BY DEF Idle, MandateJobs, PlanJobs, UnlockedNotices, LockedNotices, Notices, Executions, Notifying,
       Executing, AtLeg

\* The legs of a plan are rows.
LEMMA LegRows ==
    ASSUME TypeOK, NEW p
    PROVE  LegsOf(p) \subseteq Rows /\ LegsOf(p) \subseteq 1 .. MaxMandates
BY RowFacts DEF LegsOf

\* Objects that are loaded beside others are the rows; the others stay.
LEMMA LoadedObjects ==
    ASSUME TypeOK, NEW rows \in HeldObjects, NEW ms \in SUBSET Rows
    PROVE  /\ Loaded(rows, ms) \in HeldObjects
           /\ DOMAIN Loaded(rows, ms) = DOMAIN rows \cup ms
           /\ \A m \in DOMAIN rows : Loaded(rows, ms)[m] = rows[m]
           /\ \A m \in ms \ DOMAIN rows : Loaded(rows, ms)[m] = mandates[m]
<1>1. PICK held \in SUBSET (1 .. MaxMandates) : rows \in [held -> MandateRow]
  BY DEF HeldObjects
<1>2. held \cup ms \in SUBSET (1 .. MaxMandates)
  BY RowFacts
<1>3. Loaded(rows, ms) \in [held \cup ms -> MandateRow]
  BY <1>1, RowFacts DEF Loaded
<1>4. Loaded(rows, ms) \in HeldObjects
  BY <1>2, <1>3 DEF HeldObjects
<1> QED
  BY <1>4 DEF Loaded

LEMMA NothingHeld == NoObjects \in HeldObjects /\ DOMAIN NoObjects = {}
<1>1. NoObjects \in [{} -> MandateRow] /\ DOMAIN NoObjects = {}
  BY DEF NoObjects
<1> QED
  BY <1>1 DEF HeldObjects

\* One mandate loaded by a session that holds nothing.
LEMMA OneLoaded ==
    ASSUME TypeOK, NEW m \in Rows
    PROVE  /\ Loaded(NoObjects, {m}) \in HeldObjects
           /\ DOMAIN Loaded(NoObjects, {m}) = {m}
           /\ Loaded(NoObjects, {m})[m] = mandates[m]
<1>1. PICK one \in SUBSET Rows : one = {m}
  OBVIOUS
<1>2. DOMAIN NoObjects = {} /\ NoObjects \in HeldObjects
  BY NothingHeld
<1>3. /\ Loaded(NoObjects, one) \in HeldObjects
      /\ DOMAIN Loaded(NoObjects, one) = {} \cup one
      /\ \A n \in one : Loaded(NoObjects, one)[n] = mandates[n]
  BY <1>2, LoadedObjects
<1> QED
  BY <1>1, <1>3

\* A held object is a row of some time.
LEMMA ObjectHeld ==
    ASSUME NEW rows \in HeldObjects, NEW m \in DOMAIN rows
    PROVE  rows[m] \in MandateRow
BY DEF HeldObjects

\* The record of a session that goes on with the next leg.
LEMMA LegDoneRecord ==
    ASSUME NEW job \in Executions, NEW m, NEW rows \in HeldObjects
    PROVE  LET next == LegDone(job, m, rows) IN
           /\ next \in Executions
           /\ next.at = "between" /\ next.kind = "execute" /\ next.intent = job.intent
           /\ next.plan = job.plan /\ next.todo = job.todo \ {m} /\ next.mandate = 0
           /\ next.rows = rows /\ next.row = job.row /\ next.status = job.status
<1> DEFINE next == LegDone(job, m, rows)
<1>1. /\ job.todo \ {m} \in SUBSET (1 .. MaxMandates)
      /\ 0 \in 0 .. MaxMandates
      /\ "between" \in {"between", "answer", "sync"} \cup AtLeg /\ "execute" \in Executing
  BY BoundsAssumption DEF Executions, Executing
<1>2. /\ next = [job EXCEPT !.at = "between", !.kind = "execute", !.todo = job.todo \ {m},
                             !.mandate = 0, !.rows = rows]
  BY DEF LegDone
<1>3. next \in Executions
  BY <1>1, <1>2 DEF Executions
<1> QED
  BY <1>2, <1>3 DEF Executions

\* And of one whose transaction ended.
LEMMA ExpiredRecord ==
    ASSUME NEW job \in Executions
    PROVE  LET next == Expired(job) IN
           /\ next \in Executions
           /\ next.at = job.at /\ next.kind = job.kind /\ next.intent = job.intent
           /\ next.plan = job.plan /\ next.todo = job.todo /\ next.mandate = job.mandate
           /\ next.rows = NoObjects /\ next.row = NoRow /\ next.status = "none"
<1>1. NoObjects \in HeldObjects /\ NoRow \in IntentRow
  BY NothingHeld DEF NoRow, FreshRow, IntentRow
<1> HIDE DEF NoObjects, NoRow
<1> QED
  BY <1>1 DEF Expired, Executions
-----------------------------------------------------------------------------
(***************************************************************************)
(* Locks.                                                                  *)
(***************************************************************************)
\* A record stays true of the rows.
LEMMA KnownRowsStay ==
    ASSUME RowsStay, NEW job, KnowsItsRows(job)
    PROVE  /\ KnowsItsRows(job)'
           /\ \A m : LocksLeg(job, m) => LocksLeg(job, m)'
<1>1. Rows \subseteq Rows'
  BY DEF RowsStay, Rows
<1>2. \A p : LegsOf(p) \subseteq LegsOf(p)'
  BY <1>1 DEF RowsStay, LegsOf
<1>3. KnowsItsRows(job)'
  BY <1>1, <1>2 DEF KnowsItsRows, HeldRow
<1> QED
  BY <1>2, <1>3 DEF LocksLeg

\* A step of session s that keeps or gives back the locks of the others, and
\* whose new record accounts for the locks s has then, keeps the invariant.
LEMMA OneSessionSteps ==
    ASSUME LocksInv, TypeOK', RowsStay, NEW s \in Sessions, NEW job,
           session' = [session EXCEPT ![s] = job], KnowsItsRows(job),
           mandateLock' \in [1 .. MaxMandates -> Sessions \cup {NoSession}],
           intentLock' \in [Intents -> Sessions \cup {NoSession}],
           \A m \in 1 .. MaxMandates :
               /\ mandateLock'[m] \in {mandateLock[m], NoSession, s}
               /\ mandateLock'[m] = s => LocksLeg(job, m),
           \A i \in Intents :
               /\ intentLock'[i] \in {intentLock[i], NoSession, s}
               /\ intentLock'[i] = s => Commits(job, i)
    PROVE  LocksInv'
<1>1. /\ DOMAIN session' = Sessions
      /\ session'[s] = job
      /\ \A t \in Sessions \ {s} : session'[t] = session[t]
  BY DEF LocksInv, LockTypes
<1>2. LockTypes'
  BY <1>1 DEF LockTypes
<1>3. ASSUME NEW j, KnowsItsRows(j)
      PROVE  KnowsItsRows(j)' /\ \A m : LocksLeg(j, m) => LocksLeg(j, m)'
  BY <1>3, KnownRowsStay
<1>4. ASSUME NEW t \in Sessions, NEW j, j = session'[t]
      PROVE  /\ KnowsItsRows(j)'
             /\ \A m \in 1 .. MaxMandates : mandateLock'[m] = t => LocksLeg(j, m)'
             /\ \A i \in Intents : intentLock'[i] = t => Commits(j, i)
  <2>1. CASE t = s
    BY <1>1, <1>3, <1>4, <2>1
  <2>2. CASE t # s
    <3>1. t # NoSession
      BY NoSessionAssumption
    <3>2. j = session[t] /\ KnowsItsRows(j)
      BY <1>1, <1>4, <2>2 DEF LocksInv
    <3>3. ASSUME NEW m \in 1 .. MaxMandates, mandateLock'[m] = t
          PROVE  LocksLeg(j, m)
      BY <2>2, <3>1, <3>2, <3>3 DEF LocksInv
    <3>4. ASSUME NEW i \in Intents, intentLock'[i] = t
          PROVE  Commits(j, i)
      BY <2>2, <3>1, <3>2, <3>4 DEF LocksInv
    <3> QED
      BY <1>3, <3>2, <3>3, <3>4
  <2> QED
    BY <2>1, <2>2
<1>5. ASSUME NEW t \in Sessions
      PROVE  /\ KnowsItsRows(session[t])'
             /\ \A m \in 1 .. MaxMandates : mandateLock'[m] = t => LocksLeg(session[t], m)'
             /\ \A i \in Intents : intentLock'[i] = t => Commits(session'[t], i)
  <2>1. PICK j : j = session'[t]
    OBVIOUS
  <2>2. /\ KnowsItsRows(j)'
        /\ \A m \in 1 .. MaxMandates : mandateLock'[m] = t => LocksLeg(j, m)'
        /\ \A i \in Intents : intentLock'[i] = t => Commits(j, i)
    BY <1>4, <2>1
  <2> QED
    BY <2>1, <2>2
<1>6. \A t \in Sessions : \A i \in Intents : intentLock'[i] = t => Commits(session[t], i)'
  BY <1>5 DEF Commits
<1> QED
  BY <1>2, <1>5, <1>6 DEF LocksInv

\* A commit or rollback takes the session's locks back.
LEMMA TransactionEnds ==
    ASSUME LocksInv, TypeOK', RowsStay, NEW s \in Sessions, EndTransaction(s), NEW job,
           session' = [session EXCEPT ![s] = job], KnowsItsRows(job)
    PROVE  LocksInv'
<1>1. s # NoSession
  BY NoSessionAssumption
<1>2. /\ mandateLock' = [m \in 1 .. MaxMandates |->
                            IF mandateLock[m] = s THEN NoSession ELSE mandateLock[m]]
      /\ intentLock' = [i \in Intents |->
                            IF intentLock[i] = s THEN NoSession ELSE intentLock[i]]
  BY DEF LocksInv, LockTypes, EndTransaction, Unlocked
<1>3. /\ mandateLock' \in [1 .. MaxMandates -> Sessions \cup {NoSession}]
      /\ intentLock' \in [Intents -> Sessions \cup {NoSession}]
  BY <1>2 DEF LocksInv, LockTypes
<1>4. \A m \in 1 .. MaxMandates : mandateLock'[m] \in {mandateLock[m], NoSession} /\ mandateLock'[m] # s
  BY <1>1, <1>2
<1>5. \A i \in Intents : intentLock'[i] \in {intentLock[i], NoSession} /\ intentLock'[i] # s
  BY <1>1, <1>2
<1> QED
  BY <1>3, <1>4, <1>5, OneSessionSteps

LEMMA IdleKnows == KnowsItsRows(Idle)
BY JobsApart DEF KnowsItsRows, Jobs

LEMMA SessionEnds ==
    ASSUME LocksInv, TypeOK', RowsStay, NEW s \in Sessions, Finish(s)
    PROVE  LocksInv'
BY IdleKnows, TransactionEnds DEF Finish

\* A step that takes and gives back nothing, between two kinds of work that the
\* same locks fit.
LEMMA LocksStay ==
    ASSUME LocksInv, TypeOK', RowsStay, NEW s \in Sessions, NEW job,
           session' = [session EXCEPT ![s] = job], KnowsItsRows(job),
           UNCHANGED <<mandateLock, intentLock>>,
           \A m \in 1 .. MaxMandates : LocksLeg(session[s], m) => LocksLeg(job, m),
           \A i \in Intents : Commits(session[s], i) => Commits(job, i)
    PROVE  LocksInv'
<1>1. \A m \in 1 .. MaxMandates : mandateLock[m] = s => LocksLeg(session[s], m)
  BY DEF LocksInv
<1>2. \A i \in Intents : intentLock[i] = s => Commits(session[s], i)
  BY DEF LocksInv
<1>3. /\ mandateLock \in [1 .. MaxMandates -> Sessions \cup {NoSession}]
      /\ intentLock \in [Intents -> Sessions \cup {NoSession}]
  BY DEF LocksInv, LockTypes
<1> QED
  BY <1>1, <1>2, <1>3, OneSessionSteps

\* A step that changes no table.
LEMMA NothingWritten ==
    ASSUME TypeOK, UNCHANGED vars
    PROVE  TypeOK' /\ RowsStay
BY TypeOKStep, RowFacts DEF RowsStay, vars, Rows
-----------------------------------------------------------------------------
(***************************************************************************)
(* What the commits write.                                                 *)
(***************************************************************************)
\* An UPDATE keeps the types of the columns, and those that were not changed.
LEMMA WrittenTyped ==
    /\ \A row, held, changed \in IntentRow : Written(row, held, changed) \in IntentRow
    /\ \A row, held, changed \in MandateRow :
          /\ Written(row, held, changed) \in MandateRow
          /\ changed.plan = held.plan => Written(row, held, changed).plan = row.plan
<1>1. ASSUME NEW row \in IntentRow, NEW held \in IntentRow, NEW changed \in IntentRow
      PROVE  Written(row, held, changed) \in IntentRow
  BY DEF Written, IntentRow
<1>2. ASSUME NEW row \in MandateRow, NEW held \in MandateRow, NEW changed \in MandateRow
      PROVE  /\ Written(row, held, changed) \in MandateRow
             /\ changed.plan = held.plan => Written(row, held, changed).plan = row.plan
  BY DEF Written, MandateRow
<1> QED
  BY <1>1, <1>2

\* A new status of a plan.
LEMMA UpdatedPlans ==
    ASSUME TypeOK, NEW p, NEW held, NEW status, UpdatePlan(p, held, status)
    PROVE  plans' \in [Plans -> PlanRow]
<1>1. plans \in [Plans -> PlanRow]
  BY DEF TypeOK
<1>2. DerivedStatus(held, p) \in PlanStatus
  BY DerivedStatusType
<1>3. \A new \in PlanStatus : WithStatus(p, new) \in [Plans -> PlanRow]
  BY <1>1 DEF WithStatus, PlanRow
<1> QED
  BY <1>1, <1>2, <1>3 DEF UpdatePlan

\* The UPDATE of a mandate.
LEMMA MandateWritten ==
    ASSUME TypeOK, NEW m \in Rows, NEW held \in MandateRow, NEW changed \in MandateRow,
           changed.plan = held.plan,
           mandates' = [mandates EXCEPT ![m] = Written(@, held, changed)]
    PROVE  /\ mandates' \in Seq(MandateRow) /\ Len(mandates') = Len(mandates)
           /\ \A k \in Rows : mandates'[k] = IF k = m THEN Written(mandates[m], held, changed)
                                             ELSE mandates[k]
           /\ RowsStay
<1>1. mandates \in Seq(MandateRow) /\ m \in 1 .. Len(mandates) /\ mandates[m] \in MandateRow
  BY RowFacts DEF TypeOK, Rows
<1>2. PICK new : new = Written(mandates[m], held, changed)
  OBVIOUS
<1>3. new \in MandateRow /\ new.plan = mandates[m].plan
  BY <1>1, <1>2, WrittenTyped
<1>4. /\ mandates' \in Seq(MandateRow) /\ Len(mandates') = Len(mandates)
      /\ \A k \in Rows : mandates'[k] = IF k = m THEN new ELSE mandates[k]
  BY <1>1, <1>2, <1>3, RowUpdate DEF Rows
<1> QED
  BY <1>2, <1>3, <1>4, RowFacts DEF RowsStay

\* The UPDATEs of a mandate, its intent and its plan.
LEMMA UpdateTyped ==
    ASSUME TypeOK, NEW s, session[s].mandate \in Rows, HeldMandate(s) \in MandateRow,
           NEW changed \in MandateRow, changed.plan = HeldMandate(s).plan,
           session[s].intent \in Intents, session[s].row \in IntentRow,
           NEW changedIntent \in IntentRow, Update(s, changed, changedIntent)
    PROVE  /\ registry' \in [Intents -> IntentRow]
           /\ mandates' \in Seq(MandateRow) /\ Len(mandates') = Len(mandates)
           /\ plans' \in [Plans -> PlanRow]
           /\ RowsStay
<1>1. /\ mandates' \in Seq(MandateRow) /\ Len(mandates') = Len(mandates)
      /\ RowsStay
  BY MandateWritten DEF Update
<1>2. plans' \in [Plans -> PlanRow]
  BY UpdatedPlans DEF Update
<1>3. registry \in [Intents -> IntentRow] /\ registry[session[s].intent] \in IntentRow
  BY DEF TypeOK
<1>4. registry' \in [Intents -> IntentRow]
  BY <1>3, WrittenTyped DEF Update
<1> QED
  BY <1>1, <1>2, <1>4

\* What the outcomes make of a held mandate, and of a held intent.
LEMMA OutcomesTyped ==
    ASSUME NEW row \in MandateRow, NEW intent \in IntentRow
    PROVE  /\ CapturedRow(row, row.amount) \in MandateRow
           /\ CapturedRow(row, row.amount).plan = row.plan
           /\ FailedRow(row) \in MandateRow /\ FailedRow(row).plan = row.plan
           /\ ReleasedRow(row) \in MandateRow /\ ReleasedRow(row).plan = row.plan
           /\ [row EXCEPT !.status = "ORDER_CREATED"] \in MandateRow
           /\ row.amount \in Nat /\ row.reserved \in Nat
           /\ Refunded(intent, row.reserved) \in IntentRow
           /\ intent.reserved >= row.amount =>
                 [intent EXCEPT !.reserved = @ - row.amount, !.captured = @ + row.amount] \in IntentRow
<1>1. row.amount \in Nat /\ row.reserved \in Nat
  BY CartTotalsAssumption DEF MandateRow
<1>2. {"PAYMENT_CAPTURED", "PAYMENT_FAILED", "RELEASED", "ORDER_CREATED"} \subseteq MandateStatus
  BY DEF MandateStatus
<1>3. /\ CapturedRow(row, row.amount) \in MandateRow /\ CapturedRow(row, row.amount).plan = row.plan
      /\ FailedRow(row) \in MandateRow /\ FailedRow(row).plan = row.plan
      /\ [row EXCEPT !.status = "ORDER_CREATED"] \in MandateRow
  BY <1>1, <1>2 DEF CapturedRow, FailedRow, MandateRow
<1>4. ReleasedRow(row) \in MandateRow /\ ReleasedRow(row).plan = row.plan
  BY <1>2 DEF ReleasedRow, MandateRow
<1>5. Refunded(intent, row.reserved) \in IntentRow
  BY <1>1 DEF Refunded, IntentRow
<1>6. ASSUME intent.reserved >= row.amount
      PROVE  [intent EXCEPT !.reserved = @ - row.amount, !.captured = @ + row.amount] \in IntentRow
  <2>1. intent.reserved - row.amount \in Nat /\ intent.captured + row.amount \in Nat
    BY <1>1, <1>6 DEF IntentRow
  <2>2. \A x, y \in Nat : [intent EXCEPT !.reserved = x, !.captured = y] \in IntentRow
    BY DEF IntentRow
  <2> QED
    BY <2>1, <2>2
<1> QED
  BY <1>1, <1>3, <1>4, <1>5, <1>6

\* The row an authorization works with, and charges.
LEMMA ChargeTyped ==
    ASSUME NEW row \in IntentRow, NEW i, NEW total \in Nat
    PROVE  LET held == IF row.status = "ABSENT" THEN FreshRow ELSE row
           IN  held \in IntentRow /\ Charged(held, i, total) \in IntentRow
BY DEF FreshRow, Charged, IntentRow

\* authorize_mandate() commits.
LEMMA MandateCommitTyped ==
    ASSUME LocksInv, NEW s \in Sessions, CommitMandate(s)
    PROVE  TypeOK' /\ RowsStay
<1> DEFINE job == session[s]
           i == job.intent
           held == IF job.row.status = "ABSENT" THEN FreshRow ELSE job.row
           new == NewMandate(i, NoPlan, job.merchant, job.key, job.total)
<1>1. job \in MandateJobs /\ TypeOK
  BY JobKinds DEF LocksInv, KnowsItsRows, CommitMandate, At
<1>2. /\ i \in Intents /\ job.row \in IntentRow /\ job.merchant \in Merchants /\ job.key \in Keys
      /\ job.total \in CartTotals /\ job.total \in Nat
  BY <1>1, CartTotalsAssumption DEF MandateJobs
<1>3. held \in IntentRow /\ Charged(held, i, job.total) \in IntentRow /\ Registered(i) \in IntentRow
  BY <1>1, <1>2, ChargeTyped, RegistryRows
<1>4. Written(Registered(i), held, Charged(held, i, job.total)) \in IntentRow
  BY <1>3, WrittenTyped
<1>5. registry' \in [Intents -> IntentRow]
  BY <1>1, <1>2, <1>4 DEF CommitMandate, TypeOK
<1>6. new \in MandateRow
  BY <1>2, NewMandateType
<1>7. mandates \in Seq(MandateRow) /\ Len(mandates) \in Nat /\ Len(mandates) + 1 \in 1 .. MaxMandates
  BY <1>1, RowFacts, BoundsAssumption DEF TypeOK, CommitMandate
<1> HIDE DEF new
<1>8. mandates' = Append(mandates, new)
  BY DEF CommitMandate, new
<1>9. /\ mandates' \in Seq(MandateRow) /\ Len(mandates') = Len(mandates) + 1
      /\ \A k \in Rows : mandates'[k] = mandates[k]
  BY <1>6, <1>7, <1>8, AppendProperties DEF Rows
<1>10. /\ audit' \subseteq ({"INTENT_ISSUED", "POLICY_REJECTED"} \X Intents) \cup
             ({"MANDATE_CREATED", "ORDER_CREATED", "PAYMENT_CAPTURED", "POLICY_REJECTED"}
                 \X (1 .. MaxMandates))
       /\ handler' \in [1 .. MaxMandates -> HandlerPosition]
  BY <1>1, <1>2, <1>7 DEF CommitMandate, TypeOK, HandlerPosition
<1>11. UNCHANGED <<plans, events, receipts, expired>>
  BY DEF CommitMandate
<1>12. TypeOK'
  BY <1>1, <1>5, <1>7, <1>9, <1>10, <1>11 DEF TypeOK
<1> QED
  BY <1>7, <1>9, <1>12 DEF RowsStay

\* authorize_plan() commits.
LEMMA PlanCommitTyped ==
    ASSUME LocksInv, NEW s \in Sessions, CommitPlan(s)
    PROVE  TypeOK' /\ RowsStay
<1> DEFINE job == session[s]
           i == job.intent
           p == job.plan
           legs == job.legs
           held == IF job.row.status = "ABSENT" THEN FreshRow ELSE job.row
           NewLeg(leg) == NewMandate(i, p, leg.merchant, LegKey(p, leg.merchant), leg.total)
<1>1. job \in PlanJobs /\ TypeOK
  BY JobKinds DEF LocksInv, KnowsItsRows, CommitPlan, At
<1>2. i \in Intents /\ job.row \in IntentRow /\ p \in Plans /\ legs \in Legs
  BY <1>1 DEF PlanJobs
<1>3. PICK total \in 1 .. SpendCap[i] :
         registry' = [registry EXCEPT ![i] = Written(Registered(i), held, Charged(held, i, total))]
  BY DEF CommitPlan
<1>4. held \in IntentRow /\ Charged(held, i, total) \in IntentRow /\ Registered(i) \in IntentRow
  <2>1. total \in Nat
    BY <1>2, <1>3, SpendCapAssumption
  <2> QED
    BY <1>1, <1>2, <2>1, ChargeTyped, RegistryRows
<1>5. Written(Registered(i), held, Charged(held, i, total)) \in IntentRow
  BY <1>4, WrittenTyped
<1>6. registry' \in [Intents -> IntentRow]
  BY <1>1, <1>2, <1>3, <1>5 DEF TypeOK
<1>7. /\ Len(legs) \in Nat /\ Len(mandates) \in Nat
      /\ mandates' \in Seq(MandateRow) /\ Len(mandates') = Len(mandates) + Len(legs)
      /\ \A k \in 1 .. Len(mandates') :
            mandates'[k] = IF k <= Len(mandates) THEN mandates[k] ELSE NewLeg(legs[k - Len(mandates)])
  BY <1>1, <1>2, PlanAppend, RowFacts DEF CommitPlan
<1> HIDE DEF NewLeg
<1>8. Len(mandates) <= Len(mandates') /\ \A k \in Rows : mandates'[k] = mandates[k]
  BY <1>7 DEF Rows
<1>9. Len(mandates') <= MaxMandates
  BY <1>7 DEF CommitPlan
<1>10. plans' \in [Plans -> PlanRow]
  <2>1. [intent |-> i, status |-> "CONFIRMED"] \in PlanRow
    BY <1>2 DEF PlanRow, PlanStatus
  <2> QED
    BY <1>1, <2>1 DEF CommitPlan, TypeOK
<1>11. audit' \subseteq ({"INTENT_ISSUED", "POLICY_REJECTED"} \X Intents) \cup
             ({"MANDATE_CREATED", "ORDER_CREATED", "PAYMENT_CAPTURED", "POLICY_REJECTED"}
                 \X (1 .. MaxMandates))
  <2>1. Len(mandates) + 1 .. Len(mandates) + Len(legs) \subseteq 1 .. MaxMandates
    BY <1>7, <1>9, BoundsAssumption
  <2>2. audit' = audit \cup {<<"INTENT_ISSUED", i>>} \cup
                    {<<"MANDATE_CREATED", m>> : m \in Len(mandates) + 1 .. Len(mandates) + Len(legs)}
    BY DEF CommitPlan
  <2> QED
    BY <1>1, <1>2, <2>1, <2>2 DEF TypeOK
<1>12. UNCHANGED <<events, receipts, handler, expired>>
  BY DEF CommitPlan
<1>13. TypeOK'
  BY <1>1, <1>6, <1>7, <1>9, <1>10, <1>11, <1>12 DEF TypeOK
<1> QED
  BY <1>7, <1>8, <1>13 DEF RowsStay

\* A webhook commits.
LEMMA NoticeCommitTyped ==
    ASSUME LocksInv, NEW s \in Sessions, CommitCapture(s) \/ CommitFailure(s)
    PROVE  TypeOK' /\ RowsStay
<1> DEFINE job == session[s]
           m == job.mandate
           held == HeldMandate(s)
<1>1. job \in Notices /\ TypeOK /\ KnowsItsRows(job)
  BY JobKinds DEF LocksInv, KnowsItsRows, CommitCapture, CommitFailure, At, Notifying
<1>2. /\ job.intent \in Intents /\ m \in Rows /\ m \in 1 .. MaxMandates /\ job.event \in EventIds
      /\ job.row \in IntentRow
      /\ job.rows \in Seq(MandateRow) /\ m \in 1 .. Len(job.rows)
      /\ job.kind = "capture" => job.row.reserved >= held.amount
  BY <1>1, JobsApart DEF Notices, KnowsItsRows, HeldRow, HeldMandate
<1>3. held \in MandateRow
  BY <1>2, ElementOfSeq DEF HeldMandate
<1>4. CASE CommitCapture(s)
  <2> DEFINE paid == [job.row EXCEPT !.reserved = @ - held.amount, !.captured = @ + held.amount]
  <2>1. job.kind = "capture" /\ Update(s, CapturedRow(held, held.amount), paid)
    BY <1>4 DEF CommitCapture, At
  <2>2. /\ paid \in IntentRow /\ CapturedRow(held, held.amount) \in MandateRow
        /\ CapturedRow(held, held.amount).plan = held.plan
    BY <1>2, <1>3, <2>1, OutcomesTyped
  <2> HIDE DEF held, paid
  <2>3. /\ registry' \in [Intents -> IntentRow]
        /\ mandates' \in Seq(MandateRow) /\ Len(mandates') = Len(mandates)
        /\ plans' \in [Plans -> PlanRow] /\ RowsStay
    BY <1>1, <1>2, <1>3, <2>1, <2>2, UpdateTyped DEF held
  <2>4. /\ events' = events \cup {[id |-> job.event, type |-> "payment.captured", mandate |-> m]}
        /\ receipts' = [receipts EXCEPT ![m] = @ + 1]
        /\ audit' = audit \cup {<<"PAYMENT_CAPTURED", m>>}
        /\ UNCHANGED <<handler, expired>>
    BY <1>4 DEF CommitCapture
  <2>5. events' \subseteq EventRow
    BY <1>1, <1>2, <2>4 DEF TypeOK, EventRow, EventType
  <2>6. receipts' \in [1 .. MaxMandates -> Nat]
    BY <1>1, <1>2, <2>4 DEF TypeOK
  <2>7. TypeOK'
    BY <1>1, <1>2, <2>3, <2>4, <2>5, <2>6 DEF TypeOK
  <2> QED
    BY <2>3, <2>7
<1>5. CASE CommitFailure(s)
  <2>1. Update(s, FailedRow(held), Refunded(job.row, held.reserved))
    BY <1>5 DEF CommitFailure
  <2>2. /\ Refunded(job.row, held.reserved) \in IntentRow /\ FailedRow(held) \in MandateRow
        /\ FailedRow(held).plan = held.plan
    BY <1>2, <1>3, OutcomesTyped
  <2> HIDE DEF held
  <2>3. /\ registry' \in [Intents -> IntentRow]
        /\ mandates' \in Seq(MandateRow) /\ Len(mandates') = Len(mandates)
        /\ plans' \in [Plans -> PlanRow] /\ RowsStay
    BY <1>1, <1>2, <1>3, <2>1, <2>2, UpdateTyped DEF held
  <2>4. /\ events' = events \cup {[id |-> job.event, type |-> "payment.failed", mandate |-> m]}
        /\ UNCHANGED <<audit, receipts, handler, expired>>
    BY <1>5 DEF CommitFailure
  <2>5. events' \subseteq EventRow
    BY <1>1, <1>2, <2>4 DEF TypeOK, EventRow, EventType
  <2>6. TypeOK'
    BY <1>1, <2>3, <2>4, <2>5 DEF TypeOK
  <2> QED
    BY <2>3, <2>6
<1> QED
  BY <1>4, <1>5

\* A plan's session commits an order, a release or the plan's status.
LEMMA LegCommitTyped ==
    ASSUME LocksInv, NEW s \in Sessions, CommitOrder(s) \/ CommitRelease(s) \/ CommitPlanStatus(s)
    PROVE  TypeOK' /\ RowsStay
<1> DEFINE job == session[s]
           m == job.mandate
           held == HeldMandate(s)
<1>1. job \in Executions /\ TypeOK /\ KnowsItsRows(job)
  BY JobKinds DEF LocksInv, KnowsItsRows, CommitOrder, CommitRelease, CommitPlanStatus, At, Executing
<1>2. /\ job.intent \in Intents /\ job.row \in IntentRow /\ job.rows \in HeldObjects
  BY <1>1 DEF Executions
<1>3. ASSUME job.at = "commit"
      PROVE  m \in Rows /\ m \in 1 .. MaxMandates /\ held \in MandateRow
  <2>1. m \in DOMAIN job.rows /\ DOMAIN job.rows \subseteq LegsOf(job.plan)
    BY <1>1, <1>3 DEF KnowsItsRows, AtLeg
  <2> QED
    BY <1>1, <1>2, <2>1, LegRows, ObjectHeld DEF HeldMandate
<1>4. CASE CommitOrder(s)
  <2>1. /\ job.at = "commit"
        /\ mandates' = [mandates EXCEPT ![m] =
              Written(@, held, [held EXCEPT !.status = "ORDER_CREATED"])]
        /\ audit' = audit \cup {<<"ORDER_CREATED", m>>}
        /\ UNCHANGED <<registry, plans, events, receipts, handler, expired>>
    BY <1>4 DEF CommitOrder, At
  <2>2. [held EXCEPT !.status = "ORDER_CREATED"] \in MandateRow
    BY <1>2, <1>3, <2>1, OutcomesTyped
  <2>3. [held EXCEPT !.status = "ORDER_CREATED"].plan = held.plan
    BY <1>3, <2>1 DEF MandateRow
  <2> HIDE DEF held
  <2>4. mandates' \in Seq(MandateRow) /\ Len(mandates') = Len(mandates) /\ RowsStay
    BY <1>1, <1>3, <2>1, <2>2, <2>3, MandateWritten
  <2>5. TypeOK'
    BY <1>1, <1>3, <2>1, <2>4 DEF TypeOK
  <2> QED
    BY <2>4, <2>5
<1>5. CASE CommitRelease(s)
  <2>1. job.at = "commit" /\ Update(s, ReleasedRow(held), Refunded(job.row, held.reserved))
    BY <1>5 DEF CommitRelease, At
  <2>2. /\ Refunded(job.row, held.reserved) \in IntentRow /\ ReleasedRow(held) \in MandateRow
        /\ ReleasedRow(held).plan = held.plan
    BY <1>2, <1>3, <2>1, OutcomesTyped
  <2> HIDE DEF held
  <2>3. /\ registry' \in [Intents -> IntentRow]
        /\ mandates' \in Seq(MandateRow) /\ Len(mandates') = Len(mandates)
        /\ plans' \in [Plans -> PlanRow] /\ RowsStay
    BY <1>1, <1>2, <1>3, <2>1, <2>2, UpdateTyped DEF held
  <2>4. /\ audit' = audit \cup {<<"POLICY_REJECTED", m>>}
        /\ UNCHANGED <<events, receipts, handler, expired>>
    BY <1>5 DEF CommitRelease
  <2>5. TypeOK'
    BY <1>1, <1>3, <2>1, <2>3, <2>4 DEF TypeOK
  <2> QED
    BY <2>3, <2>5
<1>6. CASE CommitPlanStatus(s)
  <2>1. /\ UpdatePlan(job.plan, job.rows, job.status)
        /\ UNCHANGED <<registry, mandates, events, audit, receipts, handler, expired>>
    BY <1>6 DEF CommitPlanStatus
  <2>2. plans' \in [Plans -> PlanRow]
    BY <1>1, <2>1, UpdatedPlans
  <2>3. TypeOK'
    BY <1>1, <2>1, <2>2 DEF TypeOK
  <2> QED
    BY <1>1, <2>1, <2>3, RowFacts DEF RowsStay
<1> QED
  BY <1>4, <1>5, <1>6

\* The recorded rejection is a step of PaymentRail.
LEMMA RejectionTyped ==
    ASSUME LocksInv, NEW s \in Sessions, AuthorizationRejected(s)
    PROVE  TypeOK' /\ RowsStay
<1> DEFINE job == session[s]
<1>1. job \in MandateJobs \cup PlanJobs /\ TypeOK
  BY JobKinds DEF LocksInv, KnowsItsRows, AuthorizationRejected, At, Authorizing
<1>2. Next /\ UNCHANGED mandates
  <2>1. CASE job.kind = "mandate"
    <3>1. AuthorizeMandateRejected(job.intent, job.merchant, job.key, job.total, TRUE)
      BY <2>1 DEF AuthorizationRejected
    <3>2. /\ job.intent \in Intents /\ job.merchant \in Merchants /\ job.key \in Keys
          /\ job.total \in CartTotals
      BY <1>1, <2>1 DEF MandateJobs, PlanJobs
    <3> QED
      BY <3>1, <3>2 DEF Next, Authorization, AuthorizeMandateRejected
  <2>2. CASE job.kind # "mandate"
    <3>1. AuthorizePlanRejected(job.intent, job.plan, job.legs)
      BY <2>2 DEF AuthorizationRejected
    <3>2. job.intent \in Intents /\ job.plan \in Plans /\ job.legs \in Legs
      BY <1>1, <2>2 DEF MandateJobs, PlanJobs
    <3> QED
      BY <3>1, <3>2 DEF Next, Authorization, AuthorizePlanRejected
  <2> QED
    BY <2>1, <2>2
<1> QED
  BY <1>1, <1>2, TypeOKStep, RowFacts DEF RowsStay
-----------------------------------------------------------------------------
(***************************************************************************)
(* The steps of a session and its locks.                                   *)
(***************************************************************************)
\* The order of the naturals, as a relation.
LessThan == {pair \in Nat \X Nat : pair[1] < pair[2]}

\* A set of naturals that is not empty has a least element.
LEMMA LeastNatural ==
    ASSUME NEW S \in SUBSET Nat, S # {}
    PROVE  \E n \in S : \A m \in S : n <= m
<1>1. IsWellFoundedOn(LessThan, Nat)
  BY NatLessThanWellFounded DEF OpToRel, LessThan
<1>2. PICK n \in S : \A m \in S : ~ (<<m, n>> \in LessThan)
  BY <1>1, WFMin
<1>3. \A m, k \in Nat : m < k => <<m, k>> \in LessThan
  BY DEF LessThan
<1>4. \A m \in S : ~(m < n)
  BY <1>2, <1>3
<1> QED
  BY <1>2, <1>4

\* The next leg is one that is to do.
LEMMA NextLegToDo ==
    ASSUME NEW s, session[s] \in Executions, session[s].todo # {}
    PROVE  NextLeg(s) \in session[s].todo
<1>1. session[s].todo \in SUBSET Nat
  BY BoundsAssumption DEF Executions
<1> QED
  BY <1>1, LeastNatural DEF NextLeg

\* What a session that executes holds before and after a step fits the same locks,
\* if it has left what it does not work on any more.
LEMMA LocksFit ==
    ASSUME NEW job \in Executions, NEW next \in Executions, next.plan = job.plan,
           next.todo \subseteq job.todo, next.at # "answer",
           job.mandate = next.mandate \/ job.mandate \notin next.todo
    PROVE  \A m \in 1 .. MaxMandates : LocksLeg(job, m) => LocksLeg(next, m)
BY JobsApart DEF LocksLeg

\* What a session knows of its legs when it executes them.
LEMMA ExecutionKnows ==
    ASSUME NEW job \in Executions, job.todo \subseteq LegsOf(job.plan),
           DOMAIN job.rows \subseteq LegsOf(job.plan),
           job.at \in AtLeg => job.mandate \in DOMAIN job.rows,
           job.at = "answer" => job.mandate \in LegsOf(job.plan),
           job.at \in {"between", "sync"} => job.mandate = 0
    PROVE  KnowsItsRows(job)
BY JobsApart DEF KnowsItsRows, Jobs

\* A session that is idle has no lock, so any request may begin.
LEMMA RequestsTakeNoLock ==
    ASSUME LocksInv, NEW s \in Sessions, Request(s)
    PROVE  LocksInv'
<1>0. TypeOK
  BY DEF LocksInv
<1>1. ASSUME NEW job, ~Busy(s), session' = [session EXCEPT ![s] = job],
             UNCHANGED <<vars, mandateLock, intentLock>>, KnowsItsRows(job)
      PROVE  LocksInv'
  <2>1. session[s].at = "idle" /\ session[s] \in Jobs
    BY <1>1 DEF Busy, LocksInv, KnowsItsRows
  <2>2. /\ \A m \in 1 .. MaxMandates : ~LocksLeg(session[s], m)
        /\ \A i \in Intents : ~Commits(session[s], i)
    BY <2>1 DEF LocksLeg, Commits, LockedNotices, Notices, Executions, AtLeg
  <2> QED
    BY <1>0, <1>1, <2>2, NothingWritten, LocksStay
<1>2. ASSUME NEW i \in Intents, NEW merchant \in Merchants, NEW key \in Keys,
             NEW total \in CartTotals, AskMandate(s, i, merchant, key, total)
      PROVE  LocksInv'
  <2> DEFINE job == [at |-> "lockIntent", kind |-> "mandate", intent |-> i, row |-> registry[i],
                     merchant |-> merchant, key |-> key, total |-> total]
  <2>1. job \in MandateJobs
    BY <1>0, RegistryRows DEF MandateJobs
  <2>2. ~Busy(s) /\ session' = [session EXCEPT ![s] = job] /\ UNCHANGED <<vars, mandateLock, intentLock>>
    BY <1>2 DEF AskMandate
  <2> HIDE DEF job
  <2>3. KnowsItsRows(job)
    BY <2>1, JobsApart DEF KnowsItsRows, Jobs
  <2> QED
    BY <1>1, <2>2, <2>3
<1>3. ASSUME NEW i \in Intents, NEW p \in Plans, NEW legs \in Legs, AskPlan(s, i, p, legs)
      PROVE  LocksInv'
  <2> DEFINE job == [at |-> "lockIntent", kind |-> "plan", intent |-> i, row |-> registry[i],
                     plan |-> p, legs |-> legs]
  <2>1. job \in PlanJobs
    BY <1>0, RegistryRows DEF PlanJobs
  <2>2. ~Busy(s) /\ session' = [session EXCEPT ![s] = job] /\ UNCHANGED <<vars, mandateLock, intentLock>>
    BY <1>3 DEF AskPlan
  <2> HIDE DEF job
  <2>3. KnowsItsRows(job)
    BY <2>1, JobsApart DEF KnowsItsRows, Jobs
  <2> QED
    BY <1>1, <2>2, <2>3
<1>4. ASSUME NEW kind \in Notifying, NEW e \in EventIds, NEW m \in Rows, Notify(s, kind, e, m)
      PROVE  LocksInv'
  <2> DEFINE job == [at |-> "lockMandate", kind |-> kind, intent |-> mandates[m].intent,
                     mandate |-> m, event |-> e]
  <2>1. job \in UnlockedNotices /\ job.mandate \in Rows
    BY <1>0, RowFacts DEF UnlockedNotices
  <2>2. ~Busy(s) /\ session' = [session EXCEPT ![s] = job] /\ UNCHANGED <<vars, mandateLock, intentLock>>
    BY <1>4 DEF Notify
  <2> HIDE DEF job
  <2>3. KnowsItsRows(job)
    BY <2>1, JobsApart DEF KnowsItsRows, Jobs
  <2> QED
    BY <1>1, <2>2, <2>3
<1>5. ASSUME NEW p \in Plans, Approve(s, p)
      PROVE  LocksInv'
  <2> DEFINE job == [at |-> "between", kind |-> "execute", intent |-> plans[p].intent, plan |-> p,
                     todo |-> LegsOf(p), mandate |-> 0, rows |-> Loaded(NoObjects, LegsOf(p)),
                     row |-> NoRow, status |-> plans[p].status]
  <2>1. /\ ~Busy(s) /\ plans[p].intent # NoIntent
        /\ session' = [session EXCEPT ![s] = job] /\ UNCHANGED <<vars, mandateLock, intentLock>>
    BY <1>5 DEF Approve
  <2>2. /\ plans[p].intent \in Intents /\ plans[p].status \in PlanStatus
        /\ LegsOf(p) \in SUBSET Rows /\ LegsOf(p) \in SUBSET (1 .. MaxMandates)
    BY <1>0, <2>1, LegRows DEF TypeOK, PlanRow
  <2>3. Loaded(NoObjects, LegsOf(p)) \in HeldObjects /\ DOMAIN Loaded(NoObjects, LegsOf(p)) = LegsOf(p)
    BY <1>0, <2>2, NothingHeld, LoadedObjects
  <2>4. NoRow \in IntentRow /\ 0 \in 0 .. MaxMandates
    BY BoundsAssumption DEF NoRow, FreshRow, IntentRow
  <2>5. job \in Executions
    BY <2>2, <2>3, <2>4 DEF Executions, Executing
  <2>6. /\ job.todo = LegsOf(job.plan) /\ DOMAIN job.rows = LegsOf(job.plan)
        /\ job.at = "between" /\ job.mandate = 0
    BY <2>3
  <2> HIDE DEF job
  <2>7. KnowsItsRows(job)
    BY <2>5, <2>6, ExecutionKnows DEF AtLeg
  <2> QED
    BY <1>1, <2>1, <2>7
<1> QED
  BY <1>2, <1>3, <1>4, <1>5 DEF Request

\* Locking a webhook's mandate.
LEMMA NotifiedMandateLocked ==
    ASSUME LocksInv, NEW s \in Sessions, LockNotifiedMandate(s)
    PROVE  LocksInv'
<1> DEFINE old == session[s]
           m == old.mandate
           job == [at |-> "lockIntent", kind |-> old.kind, intent |-> old.intent,
                   mandate |-> m, event |-> old.event, rows |-> mandates]
<1>0. TypeOK /\ UNCHANGED vars /\ TypeOK' /\ RowsStay
  BY NothingWritten DEF LocksInv, LockNotifiedMandate
<1>1. CASE Applies(old.kind, mandates[m])
  <2>1. /\ mandateLock' = [mandateLock EXCEPT ![m] = s]
        /\ session' = [session EXCEPT ![s] = job]
        /\ UNCHANGED intentLock
    BY <1>1 DEF LockNotifiedMandate
  <2>2. old \in UnlockedNotices /\ m \in Rows /\ m \in 1 .. MaxMandates /\ old.at = "lockMandate"
    BY <1>0, JobKinds, RowFacts DEF LocksInv, KnowsItsRows, LockNotifiedMandate, At, Notifying
  <2>3. /\ job \in LockedNotices
        /\ m \in 1 .. Len(mandates)
    BY <1>0, <2>2 DEF UnlockedNotices, LockedNotices, TypeOK, Rows
  <2>4. job.mandate = m /\ job.rows = mandates
    OBVIOUS
  <2> HIDE DEF job
  <2>5. KnowsItsRows(job) /\ \A n \in 1 .. MaxMandates : n = m => LocksLeg(job, n)
    BY <2>2, <2>3, <2>4, JobsApart DEF KnowsItsRows, Jobs, LocksLeg
  <2>6. /\ \A n \in 1 .. MaxMandates : mandateLock[n] # s
        /\ \A i \in Intents : intentLock[i] # s
    BY <2>2, JobsApart DEF LocksInv, LocksLeg, Commits
  <2>7. /\ mandateLock' \in [1 .. MaxMandates -> Sessions \cup {NoSession}]
        /\ intentLock' \in [Intents -> Sessions \cup {NoSession}]
        /\ \A n \in 1 .. MaxMandates : mandateLock'[n] = IF n = m THEN s ELSE mandateLock[n]
    BY <2>1, <2>2 DEF LocksInv, LockTypes
  <2> QED
    BY <1>0, <2>1, <2>5, <2>6, <2>7, OneSessionSteps
<1>2. CASE ~Applies(old.kind, mandates[m])
  <2>1. Finish(s)
    BY <1>2 DEF LockNotifiedMandate
  <2> QED
    BY <1>0, <2>1, SessionEnds
<1> QED
  BY <1>1, <1>2

\* Locking a leg, whether or not there is something to do for it.
LEMMA LegLocked ==
    ASSUME LocksInv, NEW s \in Sessions, LockLeg(s)
    PROVE  LocksInv'
<1> DEFINE old == session[s]
           m == old.mandate
           next == [old EXCEPT !.at = "revalidate",
                               !.row = IF old.row = NoRow THEN registry[old.intent] ELSE old.row]
           done == LegDone(old, m, old.rows)
<1>0. TypeOK /\ TypeOK' /\ RowsStay
  BY NothingWritten DEF LocksInv, LockLeg
<1>1. old \in Executions /\ KnowsItsRows(old) /\ old.at = "lockMandate"
  BY JobKinds DEF LocksInv, KnowsItsRows, LockLeg, At, Executing
<1>2. /\ old.intent \in Intents /\ old.row \in IntentRow /\ old.rows \in HeldObjects
      /\ old.todo \subseteq LegsOf(old.plan) /\ DOMAIN old.rows \subseteq LegsOf(old.plan)
      /\ m \in DOMAIN old.rows
  BY <1>1 DEF Executions, KnowsItsRows, AtLeg
<1>3. m \in 1 .. MaxMandates /\ m \in LegsOf(old.plan)
  BY <1>0, <1>2, LegRows
<1>4. next \in Executions /\ KnowsItsRows(next)
      /\ next.plan = old.plan /\ next.todo = old.todo /\ next.mandate = m /\ next.at = "revalidate"
  <2>1. (IF old.row = NoRow THEN registry[old.intent] ELSE old.row) \in IntentRow
    BY <1>0, <1>2, RegistryRows
  <2>2. /\ next \in Executions /\ next.plan = old.plan /\ next.todo = old.todo
        /\ next.mandate = m /\ next.at = "revalidate" /\ next.rows = old.rows
    BY <1>1, <2>1 DEF Executions, AtLeg
  <2> HIDE DEF next
  <2> QED
    BY <1>2, <2>2, ExecutionKnows
<1>5. done \in Executions /\ KnowsItsRows(done)
      /\ done.plan = old.plan /\ done.todo = old.todo \ {m} /\ done.at = "between"
  <2>1. /\ done \in Executions /\ done.at = "between"
        /\ done.plan = old.plan /\ done.todo = old.todo \ {m} /\ done.mandate = 0
        /\ done.rows = old.rows
    BY <1>1, <1>2, LegDoneRecord
  <2> HIDE DEF done
  <2> QED
    BY <1>2, <2>1, ExecutionKnows DEF AtLeg
<1>6. PICK job \in {next, done} : session' = [session EXCEPT ![s] = job]
  BY DEF LockLeg
<1>7. /\ job \in Executions /\ KnowsItsRows(job) /\ job.plan = old.plan /\ job.at # "answer"
      /\ job.todo \subseteq old.todo
      /\ m = job.mandate \/ m \notin job.todo
  BY <1>4, <1>5, <1>6
<1> HIDE DEF next, done
<1>8. \A n \in 1 .. MaxMandates : LocksLeg(old, n) => LocksLeg(job, n)
  BY <1>1, <1>7, LocksFit
<1>9. LocksLeg(job, m)
  BY <1>3, <1>7 DEF LocksLeg
<1>10. mandateLock' = [mandateLock EXCEPT ![m] = s] /\ UNCHANGED intentLock
  BY DEF LockLeg
<1>11. /\ mandateLock' \in [1 .. MaxMandates -> Sessions \cup {NoSession}]
       /\ intentLock' \in [Intents -> Sessions \cup {NoSession}]
       /\ \A n \in 1 .. MaxMandates : mandateLock'[n] = IF n = m THEN s ELSE mandateLock[n]
  BY <1>3, <1>10 DEF LocksInv, LockTypes
<1>12. /\ \A n \in 1 .. MaxMandates : mandateLock[n] = s => LocksLeg(old, n)
       /\ \A i \in Intents : intentLock[i] # s
  BY <1>1 DEF LocksInv, Commits
<1> QED
  BY <1>0, <1>6, <1>7, <1>8, <1>9, <1>10, <1>11, <1>12, OneSessionSteps

\* A session that locks an intent's row commits next.
LEMMA IntentTaken ==
    ASSUME LocksInv, UNCHANGED <<vars, mandateLock>>, NEW s \in Sessions, session[s].at = "lockIntent",
           NEW i \in Intents, intentLock' = [intentLock EXCEPT ![i] = s],
           NEW job, session' = [session EXCEPT ![s] = job], KnowsItsRows(job), Commits(job, i),
           \A m \in 1 .. MaxMandates : LocksLeg(session[s], m) => LocksLeg(job, m)
    PROVE  LocksInv'
<1>1. TypeOK' /\ RowsStay
  BY NothingWritten DEF LocksInv
<1>2. /\ \A m \in 1 .. MaxMandates : mandateLock[m] = s => LocksLeg(session[s], m)
      /\ \A j \in Intents : intentLock[j] # s
  BY DEF LocksInv, Commits
<1>3. /\ mandateLock' \in [1 .. MaxMandates -> Sessions \cup {NoSession}]
      /\ intentLock' \in [Intents -> Sessions \cup {NoSession}]
      /\ \A j \in Intents : intentLock'[j] = IF j = i THEN s ELSE intentLock[j]
      /\ mandateLock' = mandateLock
  BY DEF LocksInv, LockTypes
<1>4. \A m \in 1 .. MaxMandates :
         /\ mandateLock'[m] \in {mandateLock[m], NoSession, s}
         /\ mandateLock'[m] = s => LocksLeg(job, m)
  BY <1>2, <1>3
<1>5. \A j \in Intents :
         /\ intentLock'[j] \in {intentLock[j], NoSession, s}
         /\ intentLock'[j] = s => Commits(job, j)
  BY <1>2, <1>3
<1> QED
  BY <1>1, <1>3, <1>4, <1>5, OneSessionSteps

\* Locking the intent to authorize.
LEMMA AuthorizeLocked ==
    ASSUME LocksInv, NEW s \in Sessions, LockIntentToAuthorize(s)
    PROVE  LocksInv'
<1> DEFINE old == session[s]
           i == old.intent
           job == [old EXCEPT !.at = "commit", !.row = registry[i]]
<1>1. TypeOK /\ old \in MandateJobs \cup PlanJobs /\ old.at = "lockIntent"
  BY JobKinds DEF LocksInv, KnowsItsRows, LockIntentToAuthorize, At, Authorizing
<1>2. i \in Intents /\ registry[i] \in IntentRow
  BY <1>1, RegistryRows DEF MandateJobs, PlanJobs
<1>3. /\ intentLock' = [intentLock EXCEPT ![i] = s] /\ UNCHANGED <<vars, mandateLock>>
      /\ session' = [session EXCEPT ![s] = job]
  BY DEF LockIntentToAuthorize, LocksInv, LockTypes
<1>4. CASE old \in MandateJobs
  <2>1. job \in MandateJobs /\ job.at = "commit" /\ job.kind = "mandate" /\ job.intent = i
    BY <1>2, <1>4 DEF MandateJobs
  <2> HIDE DEF job
  <2>2. KnowsItsRows(job) /\ Commits(job, i)
    BY <2>1, JobsApart DEF KnowsItsRows, Jobs, Commits
  <2>3. \A m : ~LocksLeg(old, m)
    BY <1>4, JobsApart DEF LocksLeg
  <2> QED
    BY <1>1, <1>2, <1>3, <2>2, <2>3, IntentTaken
<1>5. CASE old \in PlanJobs
  <2>1. job \in PlanJobs /\ job.at = "commit" /\ job.kind = "plan" /\ job.intent = i
    BY <1>2, <1>5 DEF PlanJobs
  <2> HIDE DEF job
  <2>2. KnowsItsRows(job) /\ Commits(job, i)
    BY <2>1, JobsApart DEF KnowsItsRows, Jobs, Commits
  <2>3. \A m : ~LocksLeg(old, m)
    BY <1>5, JobsApart DEF LocksLeg
  <2> QED
    BY <1>1, <1>2, <1>3, <2>2, <2>3, IntentTaken
<1> QED
  BY <1>1, <1>4, <1>5

\* The record of a webhook that has locked everything.
LEMMA NoticeBuilt ==
    ASSUME TypeOK, NEW kind \in Notifying, NEW i \in Intents, NEW m \in Rows, NEW e \in EventIds,
           NEW row \in IntentRow, NEW status \in PlanStatus \cup {"none"}, NEW rows \in Seq(MandateRow),
           Len(rows) \in Nat, m \in 1 .. Len(rows), kind = "capture" => row.reserved >= rows[m].amount
    PROVE  LET job == [at |-> "commit", kind |-> kind, intent |-> i, mandate |-> m, event |-> e,
                       row |-> row, status |-> status, rows |-> rows]
           IN  job \in Notices /\ KnowsItsRows(job)
<1> DEFINE job == [at |-> "commit", kind |-> kind, intent |-> i, mandate |-> m, event |-> e,
                   row |-> row, status |-> status, rows |-> rows]
<1>1. m \in 1 .. MaxMandates
  BY RowFacts
<1>2. job \in Notices
  BY <1>1 DEF Notices
<1>3. job.mandate = m /\ job.rows = rows /\ job.row = row /\ job.kind = kind
  OBVIOUS
<1> HIDE DEF job
<1>4. KnowsItsRows(job)
  BY <1>2, <1>3, JobsApart DEF KnowsItsRows, Jobs, HeldRow
<1> QED
  BY <1>2, <1>4 DEF job

\* Locking a webhook's intent.
LEMMA NotifiedIntentLocked ==
    ASSUME LocksInv, NEW s \in Sessions, LockNotifiedIntent(s)
    PROVE  LocksInv'
<1> DEFINE old == session[s]
           i == old.intent
           m == old.mandate
           rows == [mandates EXCEPT ![m] = HeldMandate(s)]
           job == [at |-> "commit", kind |-> old.kind, intent |-> i, mandate |-> m,
                   event |-> old.event, row |-> registry[i],
                   status |-> StatusOf(HeldMandate(s).plan), rows |-> rows]
           goesOn == old.kind = "fail" \/ registry[i].reserved >= HeldMandate(s).amount
<1>0. TypeOK /\ TypeOK' /\ RowsStay
  BY NothingWritten DEF LocksInv, LockNotifiedIntent
<1>1. old \in LockedNotices /\ KnowsItsRows(old) /\ old.at = "lockIntent"
  BY JobKinds DEF LocksInv, KnowsItsRows, LockNotifiedIntent, At, Notifying
<1>2. /\ i \in Intents /\ old.kind \in Notifying /\ old.event \in EventIds
      /\ m \in Rows /\ old.rows \in Seq(MandateRow) /\ m \in 1 .. Len(old.rows)
  BY <1>1, JobsApart DEF LockedNotices, KnowsItsRows
<1>3. HeldMandate(s) \in MandateRow
  BY <1>2, ElementOfSeq DEF HeldMandate
<1>4. mandates \in Seq(MandateRow) /\ Len(mandates) \in Nat /\ m \in 1 .. Len(mandates)
  BY <1>0, <1>2, RowFacts DEF TypeOK, Rows
<1>5. rows \in Seq(MandateRow) /\ Len(rows) = Len(mandates) /\ rows[m] = HeldMandate(s)
  BY <1>3, <1>4, RowUpdate
<1>6. StatusOf(HeldMandate(s).plan) \in PlanStatus \cup {"none"}
  BY <1>0, <1>3 DEF StatusOf, TypeOK, MandateRow, PlanRow
<1>7. registry[i] \in IntentRow
  BY <1>0, <1>2, RegistryRows
<1>8. CASE goesOn
  <2>1. /\ intentLock' = [intentLock EXCEPT ![i] = s] /\ UNCHANGED <<vars, mandateLock>>
        /\ session' = [session EXCEPT ![s] = job]
    BY <1>8 DEF LockNotifiedIntent
  <2>2. old.kind = "capture" => registry[i].reserved >= rows[m].amount
    BY <1>5, <1>8
  <2>3. job \in Notices /\ KnowsItsRows(job)
    <3> HIDE DEF rows
    <3> QED
      BY <1>0, <1>2, <1>4, <1>5, <1>6, <1>7, <2>2, NoticeBuilt
  <2>4. job.at = "commit" /\ job.kind \in Notifying /\ job.intent = i /\ job.mandate = m
    BY <1>2
  <2> HIDE DEF job
  <2>5. Commits(job, i)
    BY <2>4 DEF Commits, Notifying
  <2>6. \A n \in 1 .. MaxMandates : LocksLeg(old, n) => LocksLeg(job, n)
    BY <1>1, <2>3, <2>4, JobsApart DEF LocksLeg
  <2> QED
    BY <1>1, <1>2, <2>1, <2>3, <2>5, <2>6, IntentTaken
<1>9. CASE ~goesOn
  <2>1. Finish(s)
    BY <1>9 DEF LockNotifiedIntent
  <2> QED
    BY <1>0, <2>1, SessionEnds
<1> QED
  BY <1>8, <1>9

\* Locking the intent to release a leg.
LEMMA ReleaseLocked ==
    ASSUME LocksInv, NEW s \in Sessions, LockIntentToRelease(s)
    PROVE  LocksInv'
<1> DEFINE old == session[s]
           i == old.intent
           rows == Loaded(old.rows, LegsOf(old.plan))
           row == IF old.row = NoRow THEN registry[i] ELSE old.row
           status == IF old.status = "none" THEN plans[old.plan].status ELSE old.status
           job == [old EXCEPT !.at = "commit", !.rows = rows, !.row = row, !.status = status]
<1>1. TypeOK /\ old \in Executions /\ KnowsItsRows(old) /\ old.at = "lockIntent" /\ old.kind = "release"
  BY JobKinds DEF LocksInv, KnowsItsRows, LockIntentToRelease, At, Executing
<1>2. /\ i \in Intents /\ old.rows \in HeldObjects /\ old.plan \in Plans
      /\ old.todo \subseteq LegsOf(old.plan) /\ DOMAIN old.rows \subseteq LegsOf(old.plan)
      /\ old.mandate \in DOMAIN old.rows
  BY <1>1 DEF Executions, KnowsItsRows, AtLeg
<1>3. row \in IntentRow /\ status \in PlanStatus \cup {"none"}
  BY <1>1, <1>2, RegistryRows DEF Executions, TypeOK, PlanRow
<1>4. rows \in HeldObjects /\ DOMAIN rows = LegsOf(old.plan)
  BY <1>1, <1>2, LegRows, LoadedObjects
<1> HIDE DEF rows, row, status
<1>5. /\ job \in Executions /\ job.at = "commit" /\ job.kind = "release" /\ job.intent = i
      /\ job.plan = old.plan /\ job.todo = old.todo /\ job.mandate = old.mandate /\ job.rows = rows
  BY <1>1, <1>3, <1>4 DEF Executions, AtLeg
<1>6. /\ intentLock' = [intentLock EXCEPT ![i] = s] /\ UNCHANGED <<vars, mandateLock>>
      /\ session' = [session EXCEPT ![s] = job]
  BY DEF LockIntentToRelease, rows, row, status
<1> HIDE DEF job
<1>7. KnowsItsRows(job)
  BY <1>2, <1>4, <1>5, ExecutionKnows DEF AtLeg
<1>8. Commits(job, i)
  BY <1>5 DEF Commits
<1>9. \A m \in 1 .. MaxMandates : LocksLeg(old, m) => LocksLeg(job, m)
  BY <1>1, <1>5, LocksFit
<1> QED
  BY <1>1, <1>2, <1>6, <1>7, <1>8, <1>9, IntentTaken

\* The steps of an executor between its locks and commits.
LEMMA ExecutionMoves ==
    ASSUME LocksInv, NEW s \in Sessions,
           \/ ExecuteNext(s) \/ RejectNext(s) \/ LegUnavailable(s) \/ LegNeedsReauth(s)
           \/ OrderLeg(s) \/ AnswerLeg(s) \/ ReadPlan(s)
    PROVE  LocksInv'
<1> DEFINE old == session[s]
           m == old.mandate
<1>1. TypeOK /\ TypeOK' /\ RowsStay /\ UNCHANGED <<mandateLock, intentLock>> /\ DOMAIN session = Sessions
  BY NothingWritten DEF LocksInv, LockTypes, ExecuteNext, RejectNext, LegUnavailable, LegNeedsReauth,
                        OrderLeg, AnswerLeg, ReadPlan
<1>2. old \in Executions /\ KnowsItsRows(old)
  BY JobKinds DEF LocksInv, KnowsItsRows, At, Executing, ExecuteNext, RejectNext, LegUnavailable,
                  LegNeedsReauth, OrderLeg, AnswerLeg, ReadPlan
<1>3. /\ old.intent \in Intents /\ old.rows \in HeldObjects /\ old.plan \in Plans
      /\ old.row \in IntentRow /\ old.status \in PlanStatus \cup {"none"}
      /\ old.todo \subseteq LegsOf(old.plan) /\ DOMAIN old.rows \subseteq LegsOf(old.plan)
      /\ old.at \in AtLeg => m \in DOMAIN old.rows
      /\ old.at = "answer" => m \in LegsOf(old.plan)
      /\ old.at \in {"between", "sync"} => m = 0
  BY <1>2 DEF Executions, KnowsItsRows
<1>4. LegsOf(old.plan) \subseteq Rows /\ LegsOf(old.plan) \subseteq 1 .. MaxMandates
  BY <1>1, LegRows
\* A new record that fits, and does not commit.
<1>5. ASSUME NEW job \in Executions, session' = [session EXCEPT ![s] = job], KnowsItsRows(job),
             job.plan = old.plan, job.todo \subseteq old.todo, job.at # "answer",
             m = job.mandate \/ m \notin job.todo,
             old.at # "commit", old.at # "answer"
      PROVE  LocksInv'
  <2>1. \A n \in 1 .. MaxMandates : LocksLeg(old, n) => LocksLeg(job, n)
    BY <1>2, <1>5, LocksFit
  <2>2. \A i \in Intents : ~Commits(old, i)
    BY <1>5 DEF Commits
  <2> QED
    BY <1>1, <1>5, <2>1, <2>2, LocksStay
<1>6. ASSUME NEW next \in SUBSET Rows, next \subseteq LegsOf(old.plan)
      PROVE  /\ Loaded(old.rows, next) \in HeldObjects
             /\ DOMAIN Loaded(old.rows, next) = DOMAIN old.rows \cup next
  BY <1>1, <1>3, LoadedObjects
\* A leg that is left as it is.
<1>7. ASSUME NEW leg \in LegsOf(old.plan), NEW rows \in HeldObjects,
             DOMAIN rows \subseteq LegsOf(old.plan),
             session' = [session EXCEPT ![s] = LegDone(old, leg, rows)],
             old.at \in {"between", "revalidate"}, m \in {0, leg}
      PROVE  LocksInv'
  <2> DEFINE job == LegDone(old, leg, rows)
  <2>1. /\ job \in Executions /\ job.at = "between" /\ job.plan = old.plan
        /\ job.todo = old.todo \ {leg} /\ job.mandate = 0 /\ job.rows = rows
    BY <1>2, LegDoneRecord
  <2>2. session' = [session EXCEPT ![s] = job]
    BY <1>7
  <2> HIDE DEF job
  <2>3. KnowsItsRows(job)
    BY <1>3, <1>7, <2>1, ExecutionKnows DEF AtLeg
  <2> QED
    BY <1>5, <1>7, <2>1, <2>2, <2>3
<1>8. CASE ExecuteNext(s) \/ RejectNext(s)
  <2> DEFINE leg == NextLeg(s)
             rows == Loaded(old.rows, {leg})
  <2>1. old.at = "between" /\ old.todo # {} /\ m = 0
    BY <1>3, <1>8 DEF ExecuteNext, RejectNext, At
  <2>2. leg \in old.todo /\ leg \in LegsOf(old.plan) /\ leg \in 1 .. MaxMandates
    BY <1>2, <1>3, <1>4, <2>1, NextLegToDo
  <2>3. rows \in HeldObjects /\ DOMAIN rows = DOMAIN old.rows \cup {leg}
    BY <1>4, <1>6, <2>2
  <2>6. leg \in 0 .. MaxMandates
    BY <2>2, BoundsAssumption
  <2> HIDE DEF rows, leg
  <2>4. CASE ExecuteNext(s)
    <3> DEFINE job == [old EXCEPT !.at = "lockMandate", !.mandate = leg, !.rows = rows]
    <3>1. session' = [session EXCEPT ![s] = job]
      BY <2>4 DEF ExecuteNext, rows, leg
    <3>2. /\ job \in Executions /\ job.at = "lockMandate" /\ job.plan = old.plan
          /\ job.todo = old.todo /\ job.mandate = leg /\ job.rows = rows
      BY <1>2, <2>2, <2>3, <2>6 DEF Executions, AtLeg
    <3> HIDE DEF job
    <3>3. KnowsItsRows(job)
      BY <1>3, <2>2, <2>3, <3>2, ExecutionKnows DEF AtLeg
    <3>4. m \notin job.todo
      BY <1>4, <1>3, <2>1, <3>2
    <3> QED
      BY <1>5, <2>1, <3>1, <3>2, <3>3, <3>4
  <2>5. CASE RejectNext(s)
    <3> DEFINE job == [old EXCEPT !.at = "lockIntent", !.kind = "release", !.mandate = leg, !.rows = rows]
    <3>1. \/ session' = [session EXCEPT ![s] = job]
          \/ session' = [session EXCEPT ![s] = LegDone(old, leg, rows)]
      BY <2>5 DEF RejectNext, rows, leg
    <3>2. CASE session' = [session EXCEPT ![s] = job]
      <4>1. /\ job \in Executions /\ job.at = "lockIntent" /\ job.plan = old.plan
            /\ job.todo = old.todo /\ job.mandate = leg /\ job.rows = rows
        BY <1>2, <2>2, <2>3, <2>6 DEF Executions, AtLeg, Executing
      <4> HIDE DEF job
      <4>2. KnowsItsRows(job)
        BY <1>3, <2>2, <2>3, <4>1, ExecutionKnows DEF AtLeg
      <4>3. m \notin job.todo
        BY <1>4, <1>3, <2>1, <4>1
      <4> QED
        BY <1>5, <2>1, <3>2, <4>1, <4>2, <4>3
    <3>3. CASE session' = [session EXCEPT ![s] = LegDone(old, leg, rows)]
      <4>1. DOMAIN rows \subseteq LegsOf(old.plan)
        BY <1>3, <2>2, <2>3
      <4> QED
        BY <1>7, <2>1, <2>2, <2>3, <3>3, <4>1
    <3> QED
      BY <3>1, <3>2, <3>3
  <2> QED
    BY <1>8, <2>4, <2>5
<1>9. CASE LegUnavailable(s)
  <2> DEFINE job == [old EXCEPT !.at = "lockIntent", !.kind = "release"]
  <2>1. session' = [session EXCEPT ![s] = job] /\ old.at = "revalidate"
    BY <1>1, <1>9 DEF LegUnavailable, At
  <2>2. /\ job \in Executions /\ job.at = "lockIntent" /\ job.plan = old.plan
        /\ job.todo = old.todo /\ job.mandate = m /\ job.rows = old.rows
    BY <1>2 DEF Executions, AtLeg, Executing
  <2> HIDE DEF job
  <2>3. KnowsItsRows(job)
    BY <1>3, <2>1, <2>2, ExecutionKnows DEF AtLeg
  <2> QED
    BY <1>5, <2>1, <2>2, <2>3
<1>10. CASE OrderLeg(s)
  <2> DEFINE job == [old EXCEPT !.at = "commit"]
  <2>1. session' = [session EXCEPT ![s] = job] /\ old.at = "revalidate"
    BY <1>1, <1>10 DEF OrderLeg, At
  <2>2. /\ job \in Executions /\ job.at = "commit" /\ job.plan = old.plan
        /\ job.todo = old.todo /\ job.mandate = m /\ job.rows = old.rows
    BY <1>2 DEF Executions, AtLeg
  <2> HIDE DEF job
  <2>3. KnowsItsRows(job)
    BY <1>3, <2>1, <2>2, ExecutionKnows DEF AtLeg
  <2> QED
    BY <1>5, <2>1, <2>2, <2>3
<1>11. CASE LegNeedsReauth(s)
  <2>1. old.at = "revalidate" /\ session' = [session EXCEPT ![s] = LegDone(old, m, old.rows)]
    BY <1>1, <1>11 DEF LegNeedsReauth, At
  <2>2. m \in LegsOf(old.plan)
    BY <1>3, <2>1 DEF AtLeg
  <2> QED
    BY <1>3, <1>7, <2>1, <2>2
<1>12. CASE AnswerLeg(s)
  <2> DEFINE rows == Loaded(NoObjects, {m})
             job == LegDone(old, m, rows)
  <2>1. old.at = "answer" /\ session' = [session EXCEPT ![s] = job]
    BY <1>1, <1>12 DEF AnswerLeg, At
  <2>2. m \in LegsOf(old.plan) /\ m \in Rows
    BY <1>3, <1>4, <2>1
  <2>3. rows \in HeldObjects /\ DOMAIN rows = {m}
    BY <1>1, <2>2, OneLoaded
  <2> HIDE DEF rows
  <2>4. /\ job \in Executions /\ job.at = "between" /\ job.plan = old.plan
        /\ job.todo = old.todo \ {m} /\ job.mandate = 0 /\ job.rows = rows
    BY <1>2, <2>3, LegDoneRecord
  <2> HIDE DEF job
  <2>5. KnowsItsRows(job)
    BY <1>3, <2>2, <2>3, <2>4, ExecutionKnows DEF AtLeg
  <2>6. (\A n \in 1 .. MaxMandates : ~LocksLeg(old, n)) /\ \A i \in Intents : ~Commits(old, i)
    BY <1>2, <2>1, JobsApart DEF LocksLeg, Commits
  <2> QED
    BY <1>1, <2>1, <2>5, <2>6, LocksStay
<1>13. CASE ReadPlan(s)
  <2> DEFINE rows == Loaded(old.rows, LegsOf(old.plan))
             status == IF old.status = "none" THEN plans[old.plan].status ELSE old.status
             job == [old EXCEPT !.at = "sync", !.rows = rows, !.status = status]
  <2>1. /\ session' = [session EXCEPT ![s] = job] /\ old.at = "between" /\ old.todo = {} /\ m = 0
    BY <1>3, <1>13 DEF ReadPlan, At
  <2>2. status \in PlanStatus \cup {"none"}
    BY <1>1, <1>3 DEF TypeOK, PlanRow
  <2>3. rows \in HeldObjects /\ DOMAIN rows = LegsOf(old.plan)
    BY <1>3, <1>4, <1>6
  <2> HIDE DEF rows, status
  <2>4. /\ job \in Executions /\ job.at = "sync" /\ job.plan = old.plan
        /\ job.todo = old.todo /\ job.mandate = m /\ job.rows = rows
    BY <1>2, <2>2, <2>3 DEF Executions
  <2> HIDE DEF job
  <2>5. KnowsItsRows(job)
    BY <1>3, <2>1, <2>3, <2>4, ExecutionKnows DEF AtLeg
  <2> QED
    BY <1>5, <2>1, <2>4, <2>5
<1> QED
  BY <1>8, <1>9, <1>10, <1>11, <1>12, <1>13

\* The commits of a plan's session, and the rollback of a failed order.
LEMMA LegTransactionEnds ==
    ASSUME LocksInv, NEW s \in Sessions, CommitOrder(s) \/ CommitRelease(s) \/ OrderFails(s)
    PROVE  LocksInv'
<1> DEFINE old == session[s]
           m == old.mandate
           job == [Expired(old) EXCEPT !.at = "answer"]
           again == [Expired(old) EXCEPT !.at = "lockIntent", !.kind = "release",
                                         !.rows = Loaded(NoObjects, {m})]
           done == LegDone(Expired(old), m, Loaded(NoObjects, {m}))
<1>1. TypeOK /\ EndTransaction(s) /\ old.at = "commit"
  BY DEF LocksInv, CommitOrder, CommitRelease, OrderFails, At
<1>2. old \in Executions /\ KnowsItsRows(old)
  BY JobKinds DEF LocksInv, KnowsItsRows, At, Executing, CommitOrder, CommitRelease, OrderFails
<1>3. /\ old.todo \subseteq LegsOf(old.plan) /\ DOMAIN old.rows \subseteq LegsOf(old.plan)
      /\ m \in DOMAIN old.rows
  BY <1>1, <1>2 DEF KnowsItsRows, AtLeg
<1>4. m \in LegsOf(old.plan) /\ m \in Rows
  BY <1>1, <1>3, LegRows
<1>5. /\ Expired(old) \in Executions
      /\ Expired(old).at = "commit" /\ Expired(old).plan = old.plan /\ Expired(old).todo = old.todo
      /\ Expired(old).mandate = m /\ Expired(old).rows = NoObjects
  BY <1>1, <1>2, ExpiredRecord
<1>6. DOMAIN NoObjects = {} /\ NoObjects \in HeldObjects
  BY NothingHeld
<1>7. Loaded(NoObjects, {m}) \in HeldObjects /\ DOMAIN Loaded(NoObjects, {m}) = {m}
  BY <1>1, <1>4, OneLoaded
<1>8. KnowsItsRows(job)
  <2>1. /\ job \in Executions /\ job.at = "answer" /\ job.plan = old.plan /\ job.todo = old.todo
        /\ job.mandate = m /\ job.rows = NoObjects
    BY <1>5 DEF Executions
  <2> HIDE DEF job
  <2> QED
    BY <1>3, <1>4, <1>6, <2>1, ExecutionKnows DEF AtLeg
<1>9. KnowsItsRows(again)
  <2>1. /\ again \in Executions /\ again.at = "lockIntent" /\ again.plan = old.plan
        /\ again.todo = old.todo /\ again.mandate = m /\ again.rows = Loaded(NoObjects, {m})
    BY <1>5, <1>7 DEF Executions, AtLeg, Executing
  <2> HIDE DEF again
  <2> QED
    BY <1>3, <1>4, <1>7, <2>1, ExecutionKnows DEF AtLeg
<1>10. KnowsItsRows(done)
  <2>1. /\ done \in Executions /\ done.at = "between" /\ done.plan = old.plan
        /\ done.todo = old.todo \ {m} /\ done.mandate = 0 /\ done.rows = Loaded(NoObjects, {m})
    <3>1. PICK job1 \in Executions : job1 = Expired(old)
      BY <1>5
    <3>2. done = LegDone(job1, m, Loaded(NoObjects, {m})) /\ job1.plan = old.plan /\ job1.todo = old.todo
      BY <1>5, <3>1
    <3> QED
      BY <1>7, <3>2, LegDoneRecord
  <2> HIDE DEF done
  <2> QED
    BY <1>3, <1>4, <1>7, <2>1, ExecutionKnows DEF AtLeg
<1>11. CASE CommitOrder(s) \/ CommitRelease(s)
  <2>1. session' = [session EXCEPT ![s] = job]
    BY <1>11 DEF CommitOrder, CommitRelease
  <2>2. TypeOK' /\ RowsStay
    BY <1>11, LegCommitTyped
  <2> HIDE DEF job
  <2> QED
    BY <1>1, <1>8, <2>1, <2>2, TransactionEnds
<1>12. CASE OrderFails(s)
  <2>1. \/ session' = [session EXCEPT ![s] = again]
        \/ session' = [session EXCEPT ![s] = done]
    <3>1. Expired(old).mandate = m
      BY <1>5
    <3> QED
      BY <1>12, <3>1 DEF OrderFails
  <2>2. TypeOK' /\ RowsStay
    BY <1>1, <1>12, NothingWritten DEF OrderFails
  <2> HIDE DEF again, done
  <2> QED
    BY <1>1, <1>9, <1>10, <2>1, <2>2, TransactionEnds
<1> QED
  BY <1>11, <1>12

\* Every step of every session.
LEMMA LocksStep == LocksInv /\ [NextLocks]_<<vars, lockVars>> => LocksInv'
<1> SUFFICES ASSUME LocksInv, [NextLocks]_<<vars, lockVars>>
             PROVE  LocksInv'
  OBVIOUS
<1>1. CASE UNCHANGED <<vars, lockVars>>
  <2>1. /\ TypeOK' /\ RowsStay
    BY <1>1, NothingWritten DEF LocksInv
  <2>2. ASSUME NEW s \in Sessions
        PROVE  /\ KnowsItsRows(session[s])'
               /\ \A m \in 1 .. MaxMandates : mandateLock'[m] = s => LocksLeg(session[s], m)'
               /\ \A i \in Intents : intentLock'[i] = s => Commits(session[s], i)'
    <3> DEFINE job == session[s]
    <3>1. /\ KnowsItsRows(job)
          /\ \A m \in 1 .. MaxMandates : mandateLock[m] = s => LocksLeg(job, m)
          /\ \A i \in Intents : intentLock[i] = s => Commits(job, i)
      BY DEF LocksInv
    <3>2. PICK j : j = job
      OBVIOUS
    <3>3. KnowsItsRows(j)' /\ \A m : LocksLeg(j, m) => LocksLeg(j, m)'
      BY <2>1, <3>1, <3>2, KnownRowsStay
    <3>4. session' = session /\ mandateLock' = mandateLock /\ intentLock' = intentLock
      BY <1>1 DEF lockVars
    <3> QED
      BY <3>1, <3>2, <3>3, <3>4 DEF Commits
  <2> QED
    BY <1>1, <2>1, <2>2 DEF LocksInv, LockTypes, lockVars
<1>2. ASSUME NEW s \in Sessions, Work(s)
      PROVE  LocksInv'
  <2>1. CASE \/ AuthorizationRefused(s) \/ CommitPlanCollides(s) \/ CommitDuplicate(s)
             \/ AbortDeadlock(s)
    BY <2>1, NothingWritten, SessionEnds
    DEF LocksInv, AuthorizationRefused, CommitPlanCollides, CommitDuplicate, AbortDeadlock
  <2>2. CASE AuthorizationRejected(s)
    BY <2>2, RejectionTyped, SessionEnds DEF AuthorizationRejected
  <2>3. CASE CommitMandate(s) \/ CommitPlan(s)
    BY <2>3, MandateCommitTyped, PlanCommitTyped, SessionEnds DEF CommitMandate, CommitPlan
  <2>4. CASE CommitCapture(s) \/ CommitFailure(s)
    BY <2>4, NoticeCommitTyped, SessionEnds DEF CommitCapture, CommitFailure
  <2>5. CASE CommitPlanStatus(s)
    BY <2>5, LegCommitTyped, SessionEnds DEF CommitPlanStatus
  <2>6. CASE CommitOrder(s) \/ CommitRelease(s) \/ OrderFails(s)
    BY <2>6, LegTransactionEnds
  <2>7. CASE \/ LockNotifiedMandate(s) \/ LockLeg(s)
             \/ LockIntentToAuthorize(s) \/ LockNotifiedIntent(s) \/ LockIntentToRelease(s)
    BY <2>7, NotifiedMandateLocked, LegLocked, AuthorizeLocked, NotifiedIntentLocked, ReleaseLocked
  <2>8. CASE \/ ExecuteNext(s) \/ RejectNext(s) \/ LegUnavailable(s) \/ LegNeedsReauth(s)
             \/ OrderLeg(s) \/ AnswerLeg(s) \/ ReadPlan(s)
    BY <2>8, ExecutionMoves
  <2> QED
    BY <1>2, <2>1, <2>2, <2>3, <2>4, <2>5, <2>6, <2>7, <2>8 DEF Work
<1>3. ASSUME NEW s \in Sessions, Request(s)
      PROVE  LocksInv'
  BY <1>3, RequestsTakeNoLock
<1> QED
  BY <1>1, <1>2, <1>3 DEF NextLocks

\* It holds at the start: nobody is at work.
LEMMA LocksInit == InitLocks => LocksInv
<1> SUFFICES ASSUME InitLocks PROVE LocksInv
  OBVIOUS
<1>1. TypeOK
  BY InitTypeOK DEF InitLocks
<1>2. LockTypes /\ \A s \in Sessions : session[s] = Idle
  BY DEF InitLocks, LockTypes
<1>3. /\ \A m \in 1 .. MaxMandates : mandateLock[m] \notin Sessions
      /\ \A i \in Intents : intentLock[i] \notin Sessions
  BY NoSessionAssumption DEF InitLocks
<1> QED
  BY <1>1, <1>2, <1>3, IdleKnows DEF LocksInv

\* The invariant holds from the start on.
LEMMA LocksInvHolds == SpecLocks => []LocksInv
BY LocksInit, LocksStep, PTL DEF SpecLocks

\* Whatever the sessions serve, however their steps interleave and wherever they end:
\* a mandate that is locked is the one a webhook works on, or a leg of the plan its
\* session executes, which the session works on or has left without ending its
\* transaction; no lock is in the hands of a session that is idle or that has just
\* committed, and a locked intent is about to be written.
THEOREM LocksHeld == SpecLocks => []LocksAreHeldByTheBusy
<1>1. ASSUME LocksInv PROVE LocksAreHeldByTheBusy
  <2>1. ASSUME NEW m \in 1 .. MaxMandates, mandateLock[m] # NoSession,
               NEW job, job = session[mandateLock[m]]
        PROVE  /\ job.at \notin {"idle", "answer"}
               /\ \/ job.kind \in Notifying /\ job.mandate = m
                  \/ /\ job.kind \in Executing
                     /\ job.plan = mandates[m].plan
                     /\ m = job.mandate \/ m \notin job.todo
    <3>1. LocksLeg(job, m)
      BY <1>1, <2>1 DEF LocksInv, LockTypes
    <3> QED
      BY <3>1 DEF LocksLeg, LockedNotices, Notices, Executions, AtLeg, LegsOf
  <2>2. ASSUME NEW i \in Intents, intentLock[i] # NoSession
        PROVE  Commits(session[intentLock[i]], i)
    BY <1>1, <2>2 DEF LocksInv, LockTypes
  <2> QED
    BY <2>1, <2>2 DEF LocksAreHeldByTheBusy, Commits
<1> QED
  BY <1>1, LocksInvHolds, PTL
-----------------------------------------------------------------------------
(***************************************************************************)
(* CommitsAreAtomic and OneOrderPerLeg: with one executor, when no leg is  *)
(* released before its order was tried. The runs TwoExecutors and          *)
(* ReleasedLeg show that neither assumption can be dropped.                *)
(***************************************************************************)
OneExecutor == \A s, t \in Executors : s = t
NothingReleasedEarly == "unavailable" \notin Outcomes /\ ~Rejections

\* The statuses a mandate can be given by the handlers of RowLocks.
Settled == {"PAYMENT_CAPTURED", "PAYMENT_FAILED", "RELEASED"}
Reached == {"RESERVED", "ORDER_CREATED"} \cup Settled

\* The ledger knows the orders that were placed, and no others.
OrdersAreRecorded ==
    /\ \A m \in Rows :
          /\ mandates[m].status \in Reached
          /\ mandates[m].status = "ORDER_CREATED" => <<"ORDER_CREATED", m>> \in audit
    /\ \A m \in 1 .. MaxMandates :
          <<"ORDER_CREATED", m>> \in audit => m \in Rows /\ mandates[m].status # "RESERVED"

\* What holds of a session's objects when they were loaded under the lock of
\* the intent's row: only orders that were created since are missing.
OnlyOrdersMissed(rows, i) ==
    /\ Len(rows) <= Len(mandates)
    /\ \A k \in 1 .. Len(rows) : rows[k].plan = mandates[k].plan /\ rows[k].intent = mandates[k].intent
    /\ \A k \in Rows :
          mandates[k].intent = i =>
              /\ k <= Len(rows)
              /\ \/ rows[k] = mandates[k]
                 \/ /\ rows[k].status = "RESERVED"
                    /\ mandates[k] = [rows[k] EXCEPT !.status = "ORDER_CREATED"]

\* An executor's object of leg k of plan p, loaded some time ago: if it shows no
\* order there is none, and an outcome that it shows is final.
Remembered(row, k, p) ==
    /\ row.plan = p
    /\ \/ row.status = "RESERVED" /\ row = mandates[k]
       \/ row.status = "ORDER_CREATED" /\ <<"ORDER_CREATED", k>> \in audit
       \/ row.status \in Settled /\ row.status = mandates[k].status

\* The locks a session has.
HasLocks(s, job) ==
    /\ job \in MandateJobs \cup PlanJobs \cup Notices /\ job.at = "commit"
          => intentLock[job.intent] = s
    /\ job \in Executions /\ job.kind = "release" /\ job.at = "commit" => intentLock[job.intent] = s
    /\ job \in LockedNotices \cup Notices => mandateLock[job.mandate] = s

\* An authorization that holds the intent's row would still be admitted.
StillAdmitted(job) ==
    /\ job \in MandateJobs /\ job.at = "commit" =>
          /\ job.row = registry[job.intent]
          /\ MandateAdmitted(job.intent, job.merchant, job.key, job.total, TRUE)
    /\ job \in PlanJobs /\ job.at = "commit" =>
          /\ job.row = registry[job.intent]
          /\ MayRequestPlan(job.intent)
          /\ plans[job.plan].intent = NoIntent =>
                \E total \in 1 .. Available(Registered(job.intent), job.intent) :
                    PlanAdmitted(job.intent, job.plan, job.legs, total)

\* A webhook works on a mandate that has an order; once it holds the locks, its
\* objects are the rows, and its plan is not done with.
NoticeInStep(job) ==
    /\ job \in UnlockedNotices \cup LockedNotices \cup Notices =>
          /\ mandates[job.mandate].intent = job.intent
          /\ <<"ORDER_CREATED", job.mandate>> \in audit
    /\ job \in LockedNotices \cup Notices =>
          /\ HeldRow(job) = mandates[job.mandate]
          /\ Applies(job.kind, mandates[job.mandate])
    /\ job \in Notices =>
          /\ job.row = registry[job.intent]
          /\ OnlyOrdersMissed(job.rows, job.intent)
          /\ job.status = "none" <=> mandates[job.mandate].plan = NoPlan
          /\ job.status \notin {"COMPLETE", "FAILED"}

\* The objects of the plan and of all its legs that a status is derived from.
HoldsThePlan(job) == LegsOf(job.plan) \subseteq DOMAIN job.rows /\ job.status # "none"

\* The executor's objects may be old, that of the leg it orders or releases is not.
ExecutionInStep(s, job) ==
    job \in Executions =>
        /\ s \in Executors
        /\ plans[job.plan].intent = job.intent
        /\ \A k \in DOMAIN job.rows : Remembered(job.rows[k], k, job.plan)
        /\ job.at \in {"revalidate", "lockIntent", "commit"} => HeldRow(job).status = "RESERVED"
        /\ job.at = "sync" => HoldsThePlan(job)
        /\ job.kind = "release" /\ job.at = "lockIntent" => job.row = NoRow /\ job.status = "none"
        /\ job.kind = "release" /\ job.at = "commit" =>
              /\ HoldsThePlan(job)
              /\ job.row = registry[job.intent]
              /\ job.status \notin {"COMPLETE", "FAILED"}

InStep(s, job) ==
    HasLocks(s, job) /\ StillAdmitted(job) /\ NoticeInStep(job) /\ ExecutionInStep(s, job)

\* The inductive invariant.
RowsInv ==
    /\ LocksInv
    /\ PlansAreCoherent
    /\ PlanStatusNeverAhead
    /\ expired = {}
    /\ OrdersAreRecorded
    /\ \A s \in Sessions : InStep(s, session[s])

\* An order that was placed is committed, or its session is about to commit or
\* release it.
AtOrder(s, m) ==
    LET job == session[s] IN
    /\ job \in Executions /\ job.mandate = m
    /\ \/ job.kind = "execute" /\ job.at = "commit"
       \/ job.kind = "release" /\ job.at \in {"lockIntent", "commit"}

OrdersInv ==
    /\ orders \in [1 .. MaxMandates -> {0, 1}]
    /\ \A m \in 1 .. MaxMandates :
          orders[m] = 1 =>
              /\ m \in Rows
              /\ mandates[m].status = "RESERVED" => \E s \in Sessions : AtOrder(s, m)

\* What the invariant says of every session.
LEMMA SessionKnown ==
    ASSUME RowsInv, NEW s \in Sessions, NEW job, job = session[s]
    PROVE  /\ TypeOK
           /\ job \in Jobs /\ KnowsItsRows(job)
           /\ HasLocks(s, job) /\ StillAdmitted(job) /\ NoticeInStep(job) /\ ExecutionInStep(s, job)
           /\ DOMAIN session = Sessions
BY DEF RowsInv, LocksInv, LockTypes, InStep, KnowsItsRows

\* An UPDATE from an object that is what the row holds writes what was changed.
LEMMA WrittenAfresh ==
    /\ \A row, changed \in IntentRow : Written(row, row, changed) = changed
    /\ \A row, changed \in MandateRow : Written(row, row, changed) = changed
<1>1. ASSUME NEW row \in IntentRow, NEW changed \in IntentRow
      PROVE  Written(row, row, changed) = changed
  BY DEF Written, IntentRow
<1>2. ASSUME NEW row \in MandateRow, NEW changed \in MandateRow
      PROVE  Written(row, row, changed) = changed
  BY DEF Written, MandateRow
<1> QED
  BY <1>1, <1>2

\* A leg that is loaded now is remembered as it is.
LEMMA LegsRemembered ==
    ASSUME RowsInv, NEW p, NEW rows \in HeldObjects,
           \A k \in DOMAIN rows : Remembered(rows[k], k, p),
           NEW ms \in SUBSET LegsOf(p)
    PROVE  /\ Loaded(rows, ms) \in HeldObjects
           /\ DOMAIN Loaded(rows, ms) = DOMAIN rows \cup ms
           /\ \A k \in DOMAIN Loaded(rows, ms) : Remembered(Loaded(rows, ms)[k], k, p)
<1>1. TypeOK /\ ms \in SUBSET Rows
  BY DEF RowsInv, LocksInv, LegsOf
<1>2. \A k \in ms : Remembered(mandates[k], k, p)
  BY <1>1 DEF RowsInv, OrdersAreRecorded, Remembered, LegsOf, Reached
<1> QED
  BY <1>1, <1>2, LoadedObjects
-----------------------------------------------------------------------------
(***************************************************************************)
(* What a step of one session leaves of the objects the others hold.       *)
(***************************************************************************)
\* How a row of mandate_records may change in a step of session s: the executor
\* commits an order, or s, which holds the intent's row, an outcome.
RowMoves(s, k) ==
    /\ mandates'[k].intent = mandates[k].intent
    /\ mandates'[k].plan = mandates[k].plan
    /\ mandates'[k].key = mandates[k].key
    /\ \/ mandates'[k] = mandates[k]
       \/ /\ mandates[k].status = "RESERVED" /\ s \in Executors
          /\ mandates'[k] = [mandates[k] EXCEPT !.status = "ORDER_CREATED"]
          /\ <<"ORDER_CREATED", k>> \in audit'
       \/ /\ mandates[k].status \notin Settled /\ mandates'[k].status \in Settled
          /\ intentLock[mandates[k].intent] = s
          /\ mandates[k].status = "RESERVED" => s \in Executors
          /\ mandates[k].status # "RESERVED" => mandateLock[k] = s

\* A row that is inserted under the intent's lock, by a standalone authorization or
\* with its plan.
RowInserted(s, k) ==
    /\ mandates'[k].intent \in Intents /\ intentLock[mandates'[k].intent] = s
    /\ mandates'[k].status = "RESERVED"
    /\ mandates'[k].plan # NoPlan => plans[mandates'[k].plan].intent = NoIntent

\* What a step of session s may do to the tables.
TablesMove(s) ==
    /\ expired' = expired
    /\ \A i \in Intents : registry'[i] = registry[i] \/ intentLock[i] \in {NoSession, s}
    /\ \A p \in Plans : \/ plans'[p].intent = plans[p].intent
                        \/ /\ plans[p].intent = NoIntent
                           /\ plans'[p].intent \in Intents
                           /\ intentLock[plans'[p].intent] = s
    /\ Len(mandates') \in Nat /\ Len(mandates) <= Len(mandates')
    /\ \A k \in Rows : RowMoves(s, k)
    /\ \A k \in Len(mandates) + 1 .. Len(mandates') : RowInserted(s, k)
    /\ audit \subseteq audit'
    /\ \A k \in 1 .. MaxMandates :
          <<"ORDER_CREATED", k>> \in audit' =>
              \/ <<"ORDER_CREATED", k>> \in audit
              \/ k \in Rows /\ mandates'[k].status # "RESERVED"

\* The locks of the other sessions stay where they are.
LocksOfOthersStay(s) ==
    \A u \in Sessions \ {s} :
        /\ \A i \in Intents : intentLock[i] = u => intentLock'[i] = u
        /\ \A m \in 1 .. MaxMandates : mandateLock[m] = u => mandateLock'[m] = u

\* The rows before a step and after it.
LEMMA RowsOfStep ==
    ASSUME RowsInv, NEW s \in Sessions, TablesMove(s)
    PROVE  /\ Len(mandates) \in Nat /\ Len(mandates') \in Nat
           /\ Rows \subseteq Rows'
           /\ \A k \in Rows : RowMoves(s, k)
           /\ \A k \in Rows' : k \notin Rows => RowInserted(s, k)
<1>1. Len(mandates) \in Nat /\ Len(mandates') \in Nat /\ Len(mandates) <= Len(mandates')
  BY RowFacts DEF RowsInv, LocksInv, TablesMove
<1>2. \A k \in Rows' : k \notin Rows => k \in Len(mandates) + 1 .. Len(mandates')
  BY <1>1 DEF Rows
<1> QED
  BY <1>1, <1>2 DEF TablesMove, Rows
\* An authorization that holds the intent's row stays admitted.
LEMMA AdmissionKept ==
    ASSUME RowsInv, NEW s \in Sessions, TablesMove(s),
           NEW i \in Intents, intentLock[i] \in Sessions \ {s}
    PROVE  /\ registry'[i] = registry[i]
           /\ Registered(i)' = Registered(i)
           /\ PlanExistsFor(i)' => PlanExistsFor(i)
           /\ \A key : KeyUsed(i, key)' => KeyUsed(i, key)
<1>0. NoSession \notin Sessions
  BY NoSessionAssumption
<1>1. registry'[i] = registry[i]
  BY <1>0 DEF TablesMove
<1>2. Registered(i)' = Registered(i)
  BY <1>1 DEF Registered
<1>3. ASSUME NEW p \in Plans, plans'[p].intent = i
      PROVE  plans[p].intent = i
  BY <1>3 DEF TablesMove
<1>4. ASSUME NEW key, NEW m \in Rows', mandates'[m].intent = i, mandates'[m].key = key
      PROVE  m \in Rows /\ mandates[m].intent = i /\ mandates[m].key = key
  <2>1. m \in Rows
    BY <1>0, <1>4, RowsOfStep DEF RowInserted
  <2> QED
    BY <1>4, <2>1 DEF TablesMove, RowMoves
<1> QED
  BY <1>1, <1>2, <1>3, <1>4 DEF PlanExistsFor, KeyUsed

\* So its checks would have the same results.
LEMMA StillAdmittedKept ==
    ASSUME RowsInv, NEW s \in Sessions, TablesMove(s),
           NEW u \in Sessions \ {s}, NEW job, HasLocks(u, job), StillAdmitted(job)
    PROVE  StillAdmitted(job)'
<1>1. ASSUME job \in MandateJobs, job.at = "commit"
      PROVE  job.row = registry'[job.intent] /\ MandateAdmitted(job.intent, job.merchant, job.key, job.total, TRUE)'
  <2> DEFINE i == job.intent
  <2>1. i \in Intents /\ intentLock[i] \in Sessions \ {s}
    BY <1>1 DEF HasLocks, MandateJobs
  <2>2. job.row = registry[i] /\ MandateAdmitted(i, job.merchant, job.key, job.total, TRUE)
    BY <1>1 DEF StillAdmitted
  <2>3. /\ registry'[i] = registry[i] /\ Registered(i)' = Registered(i)
        /\ PlanExistsFor(i)' => PlanExistsFor(i)
        /\ KeyUsed(i, job.key)' => KeyUsed(i, job.key)
    BY <2>1, AdmissionKept
  <2> QED
    BY <2>2, <2>3 DEF MandateAdmitted, Available
<1>2. ASSUME job \in PlanJobs, job.at = "commit"
      PROVE  /\ job.row = registry'[job.intent]
             /\ MayRequestPlan(job.intent)'
             /\ plans'[job.plan].intent = NoIntent =>
                   \E total \in 1 .. Available(Registered(job.intent)', job.intent) :
                       PlanAdmitted(job.intent, job.plan, job.legs, total)'
  <2> DEFINE i == job.intent
             p == job.plan
             legs == job.legs
  <2>1. i \in Intents /\ p \in Plans /\ intentLock[i] \in Sessions \ {s}
    BY <1>2 DEF HasLocks, PlanJobs
  <2>2. /\ job.row = registry[i] /\ MayRequestPlan(i)
        /\ plans[p].intent = NoIntent =>
              \E total \in 1 .. Available(Registered(i), i) : PlanAdmitted(i, p, legs, total)
    BY <1>2 DEF StillAdmitted
  <2>3. /\ registry'[i] = registry[i] /\ Registered(i)' = Registered(i)
        /\ PlanExistsFor(i)' => PlanExistsFor(i)
        /\ \A key : KeyUsed(i, key)' => KeyUsed(i, key)
    BY <2>1, AdmissionKept
  <2>4. MayRequestPlan(i)'
    BY <2>2, <2>3 DEF MayRequestPlan, TablesMove
  <2>5. ASSUME plans'[p].intent = NoIntent
        PROVE  \E total \in 1 .. Available(Registered(i)', i) : PlanAdmitted(i, p, legs, total)'
    <3>1. plans[p].intent = NoIntent
      BY <2>1, <2>5, NoIntentAssumption DEF TablesMove
    <3>2. PICK total \in 1 .. Available(Registered(i), i) : PlanAdmitted(i, p, legs, total)
      BY <2>2, <3>1
    <3>3. PlanAdmitted(i, p, legs, total)'
      BY <2>3, <2>5, <3>2 DEF PlanAdmitted
    <3> QED
      BY <2>3, <3>2, <3>3 DEF Available
  <2> QED
    BY <2>2, <2>3, <2>4, <2>5
<1> QED
  BY <1>1, <1>2 DEF StillAdmitted

\* Under the lock of the intent's row, only orders can be missed.
LEMMA MissedKept ==
    ASSUME RowsInv, NEW s \in Sessions, TablesMove(s), NEW rows \in Seq(MandateRow),
           NEW i \in Intents, intentLock[i] \in Sessions \ {s}, OnlyOrdersMissed(rows, i)
    PROVE  OnlyOrdersMissed(rows, i)'
<1>1. /\ Len(mandates) \in Nat /\ Len(mandates') \in Nat /\ Len(rows) \in Nat
      /\ Len(rows) <= Len(mandates) /\ Len(mandates) <= Len(mandates')
  BY RowsOfStep, LenProperties DEF TablesMove, OnlyOrdersMissed
<1>2. \A k \in 1 .. Len(rows) :
         rows[k].plan = mandates'[k].plan /\ rows[k].intent = mandates'[k].intent
  <2> TAKE k \in 1 .. Len(rows)
  <2>1. k \in Rows
    BY <1>1 DEF Rows
  <2>2. RowMoves(s, k)
    BY <2>1 DEF TablesMove
  <2> QED
    BY <2>2 DEF OnlyOrdersMissed, RowMoves
<1>3. ASSUME NEW k \in Rows', mandates'[k].intent = i
      PROVE  /\ k <= Len(rows)
             /\ \/ rows[k] = mandates'[k]
                \/ /\ rows[k].status = "RESERVED"
                   /\ mandates'[k] = [rows[k] EXCEPT !.status = "ORDER_CREATED"]
  <2>1. k \in Rows
    BY <1>3, RowsOfStep DEF RowInserted
  <2>2. RowMoves(s, k) /\ mandates[k].intent = i
    BY <1>3, <2>1 DEF TablesMove, RowMoves
  <2>3. /\ k <= Len(rows)
        /\ \/ rows[k] = mandates[k]
           \/ /\ rows[k].status = "RESERVED"
              /\ mandates[k] = [rows[k] EXCEPT !.status = "ORDER_CREATED"]
    BY <2>1, <2>2 DEF OnlyOrdersMissed
  <2>4. rows[k] \in MandateRow
    BY <1>1, <2>1, <2>3, ElementOfSeq DEF Rows
  <2>5. \/ mandates'[k] = mandates[k]
        \/ /\ mandates[k].status = "RESERVED"
           /\ mandates'[k] = [mandates[k] EXCEPT !.status = "ORDER_CREATED"]
    BY <2>2 DEF RowMoves
  <2>6. CASE rows[k] = mandates[k]
    BY <2>3, <2>5, <2>6
  <2>7. CASE /\ rows[k].status = "RESERVED"
             /\ mandates[k] = [rows[k] EXCEPT !.status = "ORDER_CREATED"]
    <3>1. mandates[k].status # "RESERVED"
      BY <2>4, <2>7 DEF MandateRow
    <3> QED
      BY <2>3, <2>5, <2>7, <3>1
  <2> QED
    BY <2>3, <2>6, <2>7
<1> QED
  BY <1>1, <1>2, <1>3 DEF OnlyOrdersMissed

\* Another session's webhook keeps its mandate and its objects.
LEMMA NoticeKept ==
    ASSUME RowsInv, NEW s \in Sessions, TablesMove(s), NEW u \in Sessions \ {s}, NEW job,
           KnowsItsRows(job), HasLocks(u, job), NoticeInStep(job)
    PROVE  NoticeInStep(job)'
<1> DEFINE m == job.mandate
           i == job.intent
<1>1. ASSUME job \in UnlockedNotices \cup LockedNotices \cup Notices
      PROVE  /\ mandates'[m].intent = i /\ <<"ORDER_CREATED", m>> \in audit'
             /\ m \in Rows /\ RowMoves(s, m) /\ mandates[m].status # "RESERVED"
  <2>1. m \in Rows /\ mandates[m].intent = i /\ <<"ORDER_CREATED", m>> \in audit
    BY <1>1 DEF NoticeInStep, KnowsItsRows
  <2>2. m \in 1 .. MaxMandates
    BY <2>1, RowFacts DEF RowsInv, LocksInv
  <2>3. mandates[m].status # "RESERVED"
    BY <2>1, <2>2 DEF RowsInv, OrdersAreRecorded
  <2> QED
    BY <2>1, <2>2, <2>3 DEF TablesMove, RowMoves
<1>2. ASSUME job \in LockedNotices \cup Notices
      PROVE  mandates'[m] = mandates[m]
  <2>1. mandateLock[m] = u
    BY <1>2 DEF HasLocks
  <2>2. RowMoves(s, m) /\ mandates[m].status # "RESERVED"
    BY <1>1, <1>2
  <2> QED
    BY <2>1, <2>2 DEF RowMoves
<1>3. ASSUME job \in Notices
      PROVE  job.row = registry'[i] /\ OnlyOrdersMissed(job.rows, i)'
  <2>1. /\ i \in Intents /\ job.rows \in Seq(MandateRow) /\ job.at = "commit"
        /\ intentLock[i] \in Sessions \ {s}
    BY <1>3 DEF Notices, HasLocks
  <2>2. job.row = registry[i] /\ OnlyOrdersMissed(job.rows, i)
    BY <1>3 DEF NoticeInStep
  <2>3. registry'[i] = registry[i]
    BY <2>1, AdmissionKept
  <2>4. \A rows \in Seq(MandateRow) : OnlyOrdersMissed(rows, i) => OnlyOrdersMissed(rows, i)'
    BY <2>1, MissedKept
  <2> QED
    BY <2>1, <2>2, <2>3, <2>4
<1>4. job \in LockedNotices \cup Notices => HeldRow(job)' = mandates'[m] /\ Applies(job.kind, mandates'[m])
  BY <1>2 DEF NoticeInStep, HeldRow
<1> QED
  BY <1>1, <1>2, <1>3, <1>4 DEF NoticeInStep

\* What an executor remembers of a leg stays true.
LEMMA RememberedKept ==
    ASSUME RowsInv, NEW s \in Sessions, TablesMove(s), NEW k \in Rows, NEW row, NEW p,
           Remembered(row, k, p), mandates[k].status = "RESERVED" => s \notin Executors
    PROVE  Remembered(row, k, p)'
<1>1. RowMoves(s, k) /\ audit \subseteq audit'
  BY DEF TablesMove
<1>2. mandates[k].status \in Settled => mandates'[k] = mandates[k]
  BY <1>1 DEF RowMoves, Settled
<1>3. mandates[k].status = "RESERVED" => mandates'[k] = mandates[k]
  BY <1>1 DEF RowMoves
<1> QED
  BY <1>1, <1>2, <1>3 DEF Remembered

\* Another session that executes legs is the only one, so the legs that have no
\* order are left alone, and no legs are added to its plan.
LEMMA ExecutionKept ==
    ASSUME RowsInv, OneExecutor, NEW s \in Sessions, TablesMove(s), NEW u \in Sessions \ {s},
           NEW job \in Executions, KnowsItsRows(job), HasLocks(u, job), ExecutionInStep(u, job)
    PROVE  ExecutionInStep(u, job)'
<1>1. /\ u \in Executors /\ s \notin Executors
      /\ plans[job.plan].intent = job.intent /\ job.plan \in Plans /\ job.intent \in Intents
      /\ DOMAIN job.rows \subseteq LegsOf(job.plan)
      /\ \A k \in DOMAIN job.rows : Remembered(job.rows[k], k, job.plan)
  BY DEF ExecutionInStep, OneExecutor, Executions, KnowsItsRows
<1>2. plans'[job.plan].intent = job.intent
  BY <1>1, NoIntentAssumption DEF TablesMove
<1>3. \A k \in DOMAIN job.rows : Remembered(job.rows[k], k, job.plan)'
  <2> SUFFICES ASSUME NEW k \in DOMAIN job.rows PROVE Remembered(job.rows[k], k, job.plan)'
    OBVIOUS
  <2>1. k \in Rows /\ Remembered(job.rows[k], k, job.plan)
    BY <1>1 DEF LegsOf
  <2> QED
    BY <1>1, <2>1, RememberedKept
<1>4. LegsOf(job.plan)' = LegsOf(job.plan)
  <2>1. ASSUME NEW k \in Rows', mandates'[k].plan = job.plan
        PROVE  k \in Rows
    BY <1>1, <2>1, RowsOfStep, NoIntentAssumption, NoPlanAssumption DEF RowInserted
  <2>2. \A k \in Rows : k \in Rows' /\ mandates'[k].plan = mandates[k].plan
    BY RowsOfStep DEF RowMoves
  <2> QED
    BY <2>1, <2>2 DEF LegsOf
<1>5. job.kind = "release" /\ job.at = "commit" => registry'[job.intent] = registry[job.intent]
  <2>1. job.kind = "release" /\ job.at = "commit" => intentLock[job.intent] \in Sessions \ {s}
    BY DEF HasLocks
  <2> QED
    BY <1>1, <2>1, AdmissionKept
<1>6. HoldsThePlan(job) => HoldsThePlan(job)'
  BY <1>4 DEF HoldsThePlan
<1> QED
  BY <1>1, <1>2, <1>3, <1>5, <1>6 DEF ExecutionInStep, HeldRow

\* No step of a session puts another out of step.
LEMMA OthersKeepStep ==
    ASSUME RowsInv, OneExecutor, NEW s \in Sessions, TablesMove(s), LocksOfOthersStay(s),
           NEW u \in Sessions \ {s}, session'[u] = session[u]
    PROVE  InStep(u, session[u])'
<1>1. PICK job : job = session[u]
  OBVIOUS
<1>2. /\ job \in Jobs /\ KnowsItsRows(job) /\ HasLocks(u, job) /\ StillAdmitted(job)
      /\ NoticeInStep(job) /\ ExecutionInStep(u, job)
  BY <1>1, SessionKnown
<1>3. HasLocks(u, job)'
  <2>1. /\ job \in MandateJobs \cup PlanJobs \cup Notices \cup Executions => job.intent \in Intents
        /\ job \in LockedNotices \cup Notices => job.mandate \in 1 .. MaxMandates
    BY DEF MandateJobs, PlanJobs, LockedNotices, Notices, Executions
  <2> QED
    BY <1>2, <2>1 DEF HasLocks, LocksOfOthersStay
<1>4. StillAdmitted(job)'
  BY <1>2, StillAdmittedKept
<1>5. NoticeInStep(job)'
  BY <1>2, NoticeKept
<1>6. ExecutionInStep(u, job)'
  <2>1. CASE job \in Executions
    BY <1>2, <2>1, ExecutionKept
  <2>2. CASE job \notin Executions
    BY <2>2 DEF ExecutionInStep
  <2> QED
    BY <2>1, <2>2
<1>7. InStep(u, job)'
  BY <1>3, <1>4, <1>5, <1>6 DEF InStep
<1> QED
  BY <1>1, <1>7
-----------------------------------------------------------------------------
(***************************************************************************)
(* The session's own step, when it writes nothing.                         *)
(***************************************************************************)
\* The session's new record is in step with the tables and locks.
StaysInStep(s) ==
    \E job : session' = [session EXCEPT ![s] = job] /\ InStep(s, job)'

\* Nothing written moves nothing.
LEMMA TablesStay ==
    ASSUME RowsInv, NEW s \in Sessions, UNCHANGED vars
    PROVE  TablesMove(s)
<1>1. UNCHANGED <<registry, mandates, plans, audit, expired>>
  BY DEF vars
<1>2. Len(mandates) \in Nat
  BY RowFacts DEF RowsInv, LocksInv
<1>3. \A k \in Rows : RowMoves(s, k)
  BY <1>1 DEF RowMoves
<1>4. Len(mandates) + 1 .. Len(mandates') = {}
  BY <1>1, <1>2
<1> QED
  BY <1>1, <1>2, <1>3, <1>4 DEF TablesMove

\* Nor does it change what is true of objects.
LEMMA TruthsStay ==
    ASSUME UNCHANGED vars, NEW job
    PROVE  /\ StillAdmitted(job) => StillAdmitted(job)'
           /\ NoticeInStep(job) => NoticeInStep(job)'
           /\ \A s : ExecutionInStep(s, job) => ExecutionInStep(s, job)'
<1>1. UNCHANGED <<registry, mandates, plans, audit, expired>>
  BY DEF vars
<1>2. StillAdmitted(job) => StillAdmitted(job)'
  BY <1>1 DEF StillAdmitted, MandateAdmitted, PlanAdmitted, MayRequestPlan, PlanExistsFor, KeyUsed,
              Available, Registered, Rows
<1>3. NoticeInStep(job) => NoticeInStep(job)'
  BY <1>1 DEF NoticeInStep, OnlyOrdersMissed, HeldRow, Rows
<1>4. ASSUME NEW s, ExecutionInStep(s, job)
      PROVE  ExecutionInStep(s, job)'
  <2>1. HoldsThePlan(job)' <=> HoldsThePlan(job)
    BY <1>1 DEF HoldsThePlan, LegsOf, Rows
  <2>2. \A row, k : Remembered(row, k, job.plan) => Remembered(row, k, job.plan)'
    BY <1>1 DEF Remembered
  <2> QED
    BY <1>1, <1>4, <2>1, <2>2 DEF ExecutionInStep, HeldRow
<1> QED
  BY <1>2, <1>3, <1>4

\* A session that has ended is in step with everything.
LEMMA FinishedInStep ==
    ASSUME RowsInv, NEW s \in Sessions, Finish(s)
    PROVE  StaysInStep(s) /\ LocksOfOthersStay(s)
<1>1. Idle \notin MandateJobs \cup PlanJobs \cup UnlockedNotices \cup LockedNotices \cup Notices \cup Executions
  BY JobsApart
<1>2. InStep(s, Idle)'
  BY <1>1 DEF InStep, HasLocks, StillAdmitted, NoticeInStep, ExecutionInStep
<1>3. session' = [session EXCEPT ![s] = Idle]
  BY DEF Finish
<1>4. LocksOfOthersStay(s)
  BY DEF LocksOfOthersStay, Finish, EndTransaction, Unlocked, RowsInv, LocksInv, LockTypes
<1> QED
  BY <1>2, <1>3, <1>4 DEF StaysInStep

\* A row that no other session has locked can be taken.
LEMMA FreeRowTaken ==
    ASSUME RowsInv, NEW s \in Sessions
    PROVE  /\ \A i \in Intents :
                 RowFree(intentLock[i], s) /\ intentLock' = [intentLock EXCEPT ![i] = s]
                     => /\ intentLock'[i] = s
                        /\ mandateLock' = mandateLock => LocksOfOthersStay(s)
           /\ \A m \in 1 .. MaxMandates :
                 RowFree(mandateLock[m], s) /\ mandateLock' = [mandateLock EXCEPT ![m] = s]
                     => /\ mandateLock'[m] = s
                        /\ intentLock' = intentLock => LocksOfOthersStay(s)
BY NoSessionAssumption DEF RowFree, LocksOfOthersStay, RowsInv, LocksInv, LockTypes

\* The record of an executor that has no intent locked is in step when what it says
\* is true.
LEMMA ExecutionInStepBuilt ==
    ASSUME NEW s \in Sessions, NEW job \in Executions, ExecutionInStep(s, job)',
           session' = [session EXCEPT ![s] = job],
           job.kind = "release" /\ job.at = "commit" => intentLock'[job.intent] = s
    PROVE  StaysInStep(s)
<1>1. job \notin MandateJobs \cup PlanJobs \cup UnlockedNotices \cup LockedNotices \cup Notices
  BY JobsApart
<1>2. InStep(s, job)'
  BY <1>1 DEF InStep, HasLocks, StillAdmitted, NoticeInStep
<1> QED
  BY <1>2 DEF StaysInStep

\* What an executor knows when it begins.
LEMMA ApprovalInStep ==
    ASSUME RowsInv, NEW s \in Executors, s \in Sessions, NEW p \in Plans, Approve(s, p)
    PROVE  StaysInStep(s)
<1> DEFINE rows == Loaded(NoObjects, LegsOf(p))
           new == [at |-> "between", kind |-> "execute", intent |-> plans[p].intent, plan |-> p,
                   todo |-> LegsOf(p), mandate |-> 0, rows |-> rows,
                   row |-> NoRow, status |-> plans[p].status]
<1>1. TypeOK /\ UNCHANGED vars /\ session' = [session EXCEPT ![s] = new]
      /\ plans[p].intent # NoIntent
  BY DEF RowsInv, LocksInv, Approve
<1>2. plans[p].intent \in Intents /\ plans[p].status \in PlanStatus
  BY <1>1 DEF TypeOK, PlanRow
<1>3. LegsOf(p) \in SUBSET LegsOf(p) /\ LegsOf(p) \in SUBSET (1 .. MaxMandates)
  BY <1>1, LegRows
<1>4. NoObjects \in HeldObjects /\ DOMAIN NoObjects = {} /\ NoRow \in IntentRow
  BY NothingHeld DEF NoRow, FreshRow, IntentRow
<1>5. rows \in HeldObjects /\ \A k \in DOMAIN rows : Remembered(rows[k], k, p)
  BY <1>3, <1>4, LegsRemembered
<1>6. 0 \in 0 .. MaxMandates
  BY BoundsAssumption
<1> HIDE DEF rows, NoObjects, NoRow
<1>7. new \in Executions
  BY <1>2, <1>3, <1>4, <1>5, <1>6 DEF Executions, Executing
<1>8. /\ new.plan = p /\ new.intent = plans[p].intent /\ new.rows = rows /\ new.at = "between"
      /\ new.kind = "execute"
  OBVIOUS
<1>9. PICK j : j = new
  OBVIOUS
<1> HIDE DEF new
<1>10. ExecutionInStep(s, j)
  BY <1>5, <1>8, <1>9 DEF ExecutionInStep
<1>11. ExecutionInStep(s, j)'
  BY <1>1, <1>10, TruthsStay
<1> QED
  BY <1>1, <1>7, <1>8, <1>9, <1>11, ExecutionInStepBuilt

\* A request begins without a lock.
LEMMA RequestsInStep ==
    ASSUME RowsInv, NEW s \in Sessions, Request(s)
    PROVE  /\ StaysInStep(s) /\ LocksOfOthersStay(s)
           /\ UNCHANGED <<vars, orders>>
           /\ ~Busy(s)
<1>0. /\ TypeOK
      /\ \A i \in Intents : registry[i] \in IntentRow
      /\ \A m \in Rows : m \in 1 .. MaxMandates /\ mandates[m].intent \in Intents
  BY RowFacts, RegistryRows DEF RowsInv, LocksInv
<1>1. /\ UNCHANGED <<vars, mandateLock, intentLock, orders>>
      /\ ~Busy(s)
  BY DEF Request, AskMandate, AskPlan, Notify, Approve
<1>2. ASSUME NEW i \in Intents, NEW merchant \in Merchants, NEW key \in Keys, NEW total \in CartTotals,
             AskMandate(s, i, merchant, key, total)
      PROVE  StaysInStep(s)
  <2> DEFINE new == [at |-> "lockIntent", kind |-> "mandate", intent |-> i, row |-> registry[i],
                     merchant |-> merchant, key |-> key, total |-> total]
  <2>1. new \in MandateJobs /\ new.at = "lockIntent"
    BY <1>0 DEF MandateJobs
  <2>2. session' = [session EXCEPT ![s] = new]
    BY <1>2 DEF AskMandate
  <2>3. PICK j : j = new
    OBVIOUS
  <2> HIDE DEF new
  <2>4. j \in MandateJobs /\ j.at = "lockIntent"
    BY <2>1, <2>3
  <2>5. InStep(s, j)'
    BY <2>4, JobsApart DEF InStep, HasLocks, StillAdmitted, NoticeInStep, ExecutionInStep
  <2> QED
    BY <2>2, <2>3, <2>5 DEF StaysInStep
<1>3. ASSUME NEW i \in Intents, NEW p \in Plans, NEW legs \in Legs, AskPlan(s, i, p, legs)
      PROVE  StaysInStep(s)
  <2> DEFINE new == [at |-> "lockIntent", kind |-> "plan", intent |-> i, row |-> registry[i],
                     plan |-> p, legs |-> legs]
  <2>1. new \in PlanJobs /\ new.at = "lockIntent"
    BY <1>0 DEF PlanJobs
  <2>2. session' = [session EXCEPT ![s] = new]
    BY <1>3 DEF AskPlan
  <2>3. PICK j : j = new
    OBVIOUS
  <2> HIDE DEF new
  <2>4. j \in PlanJobs /\ j.at = "lockIntent"
    BY <2>1, <2>3
  <2>5. InStep(s, j)'
    BY <2>4, JobsApart DEF InStep, HasLocks, StillAdmitted, NoticeInStep, ExecutionInStep
  <2> QED
    BY <2>2, <2>3, <2>5 DEF StaysInStep
<1>4. ASSUME NEW kind \in Notifying, NEW e \in EventIds, NEW m \in Rows, Notify(s, kind, e, m)
      PROVE  StaysInStep(s)
  <2> DEFINE new == [at |-> "lockMandate", kind |-> kind, intent |-> mandates[m].intent,
                     mandate |-> m, event |-> e]
  <2>1. new \in UnlockedNotices /\ new.mandate = m /\ new.intent = mandates[m].intent
    BY <1>0 DEF UnlockedNotices
  <2>2. session' = [session EXCEPT ![s] = new] /\ <<"ORDER_CREATED", m>> \in audit
    BY <1>4 DEF Notify
  <2>3. PICK j : j = new
    OBVIOUS
  <2> HIDE DEF new
  <2>4. j \notin MandateJobs \cup PlanJobs \cup LockedNotices \cup Notices \cup Executions
    BY <2>1, <2>3, JobsApart
  <2>5. NoticeInStep(j)
    BY <2>1, <2>2, <2>3, <2>4 DEF NoticeInStep
  <2>6. NoticeInStep(j)'
    BY <1>1, <2>5, TruthsStay
  <2>7. InStep(s, j)'
    BY <2>4, <2>6 DEF InStep, HasLocks, StillAdmitted, ExecutionInStep
  <2> QED
    BY <2>2, <2>3, <2>7 DEF StaysInStep
<1>5. ASSUME s \in Executors, NEW p \in Plans, Approve(s, p)
      PROVE  StaysInStep(s)
  BY <1>5, ApprovalInStep
<1>6. LocksOfOthersStay(s)
  BY <1>1 DEF LocksOfOthersStay
<1> QED
  BY <1>1, <1>2, <1>3, <1>4, <1>5, <1>6 DEF Request

\* The intent's row is loaded and locked, and every check was made.
LEMMA AuthorizeLockInStep ==
    ASSUME RowsInv, NEW s \in Sessions, LockIntentToAuthorize(s)
    PROVE  StaysInStep(s) /\ LocksOfOthersStay(s)
<1> DEFINE old == session[s]
           i == old.intent
           job == [old EXCEPT !.at = "commit", !.row = registry[i]]
<1>0. TypeOK /\ DOMAIN session = Sessions
  BY SessionKnown
<1>1. old \in MandateJobs \cup PlanJobs
  BY JobKinds, SessionKnown DEF LockIntentToAuthorize, At, Authorizing
<1>2. i \in Intents /\ registry[i] \in IntentRow
  BY <1>0, <1>1, RegistryRows DEF MandateJobs, PlanJobs
<1>3. /\ session' = [session EXCEPT ![s] = job]
      /\ RowFree(intentLock[i], s) /\ intentLock' = [intentLock EXCEPT ![i] = s]
      /\ UNCHANGED <<vars, mandateLock>>
      /\ Admitted(s)
  BY <1>0 DEF LockIntentToAuthorize
<1>4. intentLock'[i] = s /\ LocksOfOthersStay(s)
  BY <1>2, <1>3, FreeRowTaken
<1>5. ASSUME NEW j, j \in MandateJobs \cup PlanJobs, session' = [session EXCEPT ![s] = j],
             j.intent = i, StillAdmitted(j)
      PROVE  StaysInStep(s)
  <2>1. j \notin UnlockedNotices \cup LockedNotices \cup Notices \cup Executions
    BY <1>5, JobsApart
  <2>2. StillAdmitted(j)'
    BY <1>3, <1>5, TruthsStay
  <2>3. InStep(s, j)'
    BY <1>4, <1>5, <2>1, <2>2 DEF InStep, HasLocks, NoticeInStep, ExecutionInStep
  <2> QED
    BY <1>5, <2>3 DEF StaysInStep
<1>6. CASE old \in MandateJobs
  <2>1. /\ job \in MandateJobs /\ job.at = "commit" /\ job.row = registry[i] /\ job.intent = i
        /\ job.merchant = old.merchant /\ job.key = old.key /\ job.total = old.total
    BY <1>2, <1>6 DEF MandateJobs
  <2>2. MandateAdmitted(i, old.merchant, old.key, old.total, TRUE)
    BY <1>3, <1>6 DEF Admitted, MandateJobs
  <2>3. PICK j : j = job
    OBVIOUS
  <2>4. j \in MandateJobs /\ j.intent = i /\ j.row = registry[i]
        /\ MandateAdmitted(i, j.merchant, j.key, j.total, TRUE)
    BY <2>1, <2>2, <2>3
  <2>5. StillAdmitted(j)
    BY <2>4, JobsApart DEF StillAdmitted
  <2>6. session' = [session EXCEPT ![s] = j]
    BY <1>3, <2>3
  <2> HIDE DEF job, old, i
  <2> QED
    BY <1>4, <1>5, <2>4, <2>5, <2>6
<1>7. CASE old \in PlanJobs
  <2>1. /\ job \in PlanJobs /\ job.at = "commit" /\ job.row = registry[i] /\ job.intent = i
        /\ job.plan = old.plan /\ job.legs = old.legs
    BY <1>2, <1>7 DEF PlanJobs
  <2>2. /\ MayRequestPlan(i)
        /\ \E total \in 1 .. Available(Registered(i), i) : PlanAdmitted(i, old.plan, old.legs, total)
    BY <1>3, <1>7 DEF Admitted, PlanJobs
  <2>3. PICK j : j = job
    OBVIOUS
  <2>4. /\ j \in PlanJobs /\ j.intent = i /\ j.row = registry[i] /\ MayRequestPlan(i)
        /\ \E total \in 1 .. Available(Registered(i), i) : PlanAdmitted(i, j.plan, j.legs, total)
    BY <2>1, <2>2, <2>3
  <2>5. StillAdmitted(j)
    BY <2>4, JobsApart DEF StillAdmitted
  <2>6. session' = [session EXCEPT ![s] = j]
    BY <1>3, <2>3
  <2> HIDE DEF job, old, i
  <2> QED
    BY <1>4, <1>5, <2>4, <2>5, <2>6
<1> QED
  BY <1>1, <1>4, <1>6, <1>7

\* Objects that were just loaded miss nothing.
LEMMA JustLoaded ==
    ASSUME RowsInv, NEW i
    PROVE  OnlyOrdersMissed(mandates, i)
BY RowFacts DEF RowsInv, LocksInv, OnlyOrdersMissed, Rows

\* The webhook's mandate is locked and loaded.
LEMMA NotifiedMandateInStep ==
    ASSUME RowsInv, NEW s \in Sessions, LockNotifiedMandate(s)
    PROVE  StaysInStep(s) /\ LocksOfOthersStay(s)
<1> DEFINE old == session[s]
           m == old.mandate
           job == [at |-> "lockIntent", kind |-> old.kind, intent |-> old.intent, mandate |-> m,
                   event |-> old.event, rows |-> mandates]
<1>1. TypeOK /\ old \in UnlockedNotices /\ NoticeInStep(old) /\ KnowsItsRows(old)
  BY JobKinds, SessionKnown DEF LockNotifiedMandate, At
<1>2. /\ m \in Rows /\ m \in 1 .. MaxMandates /\ mandates[m].intent = old.intent
      /\ <<"ORDER_CREATED", m>> \in audit
      /\ mandates \in Seq(MandateRow)
  BY <1>1 DEF UnlockedNotices, NoticeInStep, KnowsItsRows, TypeOK
<1>3. CASE Applies(old.kind, mandates[m])
  <2>1. /\ session' = [session EXCEPT ![s] = job]
        /\ RowFree(mandateLock[m], s) /\ mandateLock' = [mandateLock EXCEPT ![m] = s]
        /\ UNCHANGED <<vars, intentLock>>
    BY <1>3 DEF LockNotifiedMandate
  <2>2. mandateLock'[m] = s /\ LocksOfOthersStay(s)
    BY <1>2, <2>1, FreeRowTaken
  <2>3. /\ job \in LockedNotices /\ job.mandate = m /\ job.intent = old.intent /\ job.kind = old.kind
        /\ job.rows = mandates
    BY <1>1, <1>2 DEF UnlockedNotices, LockedNotices
  <2>4. PICK j : j = job
    OBVIOUS
  <2> HIDE DEF job
  <2>5. j \notin MandateJobs \cup PlanJobs \cup UnlockedNotices \cup Notices \cup Executions
    BY <2>3, <2>4, JobsApart
  <2>6. NoticeInStep(j)
    BY <1>2, <1>3, <2>3, <2>4, <2>5 DEF NoticeInStep, HeldRow
  <2>7. NoticeInStep(j)'
    BY <2>1, <2>6, TruthsStay
  <2>8. mandateLock'[j.mandate] = s
    BY <2>2, <2>3, <2>4
  <2>9. InStep(s, j)'
    BY <2>5, <2>7, <2>8 DEF InStep, HasLocks, StillAdmitted, ExecutionInStep
  <2> QED
    BY <2>1, <2>2, <2>4, <2>9 DEF StaysInStep
<1>4. CASE ~Applies(old.kind, mandates[m])
  BY <1>4, FinishedInStep DEF LockNotifiedMandate
<1> QED
  BY <1>3, <1>4

\* A plan of which a leg can still be paid is neither complete nor failed.
LEMMA PlanNotDone ==
    ASSUME RowsInv, NEW m \in Rows, mandates[m].plan # NoPlan,
           mandates[m].status \in {"RESERVED"} \cup AwaitsPayment
    PROVE  /\ mandates[m].plan \in Plans
           /\ plans[mandates[m].plan].status \in PlanStatus \ {"COMPLETE", "FAILED"}
<1> DEFINE p == mandates[m].plan
<1>1. TypeOK /\ mandates[m] \in MandateRow
  BY RowFacts DEF RowsInv, LocksInv
<1>2. p \in Plans /\ plans[p] \in PlanRow
  BY <1>1 DEF MandateRow, TypeOK
<1>3. plans[p].intent # NoIntent
  BY <1>1, NoIntentAssumption DEF RowsInv, PlansAreCoherent, MandateRow
<1>4. /\ plans[p].status = "COMPLETE" => mandates[m].status = "PAYMENT_CAPTURED"
      /\ plans[p].status = "FAILED" => mandates[m].status \in Unsuccessful
  BY <1>2, <1>3 DEF RowsInv, PlanStatusNeverAhead
<1> QED
  BY <1>2, <1>4 DEF PlanRow, AwaitsPayment, Unsuccessful

\* The webhook's intent is locked, and the plan's other legs are loaded.
LEMMA NotifiedIntentInStep ==
    ASSUME RowsInv, NEW s \in Sessions, LockNotifiedIntent(s)
    PROVE  StaysInStep(s) /\ LocksOfOthersStay(s)
<1> DEFINE old == session[s]
           m == old.mandate
           i == old.intent
           p == mandates[m].plan
           job == [at |-> "commit", kind |-> old.kind, intent |-> i, mandate |-> m, event |-> old.event,
                   row |-> registry[i], status |-> StatusOf(HeldMandate(s).plan),
                   rows |-> [mandates EXCEPT ![m] = HeldMandate(s)]]
<1>1. TypeOK /\ old \in LockedNotices /\ NoticeInStep(old) /\ HasLocks(s, old) /\ KnowsItsRows(old)
  BY JobKinds, SessionKnown DEF LockNotifiedIntent, At
<1>2. /\ m \in Rows /\ m \in 1 .. MaxMandates /\ mandates[m].intent = i /\ i \in Intents
      /\ <<"ORDER_CREATED", m>> \in audit
      /\ mandates \in Seq(MandateRow) /\ mandates[m] \in MandateRow
      /\ HeldMandate(s) = mandates[m] /\ Applies(old.kind, mandates[m])
      /\ mandateLock[m] = s
      /\ registry[i] \in IntentRow
  BY <1>1, RowFacts, RegistryRows
     DEF LockedNotices, NoticeInStep, HasLocks, HeldRow, HeldMandate, KnowsItsRows, TypeOK
<1>3. /\ StatusOf(p) \in (PlanStatus \cup {"none"}) \ {"COMPLETE", "FAILED"}
      /\ StatusOf(p) = "none" <=> p = NoPlan
  <2>1. mandates[m].status \in AwaitsPayment
    BY <1>1, <1>2, FailureFollowsOrder DEF Applies, LockedNotices, Notifying, MandateRow
  <2> QED
    BY <1>2, <2>1, PlanNotDone DEF StatusOf, PlanStatus
<1>4. CASE old.kind = "fail" \/ registry[i].reserved >= HeldMandate(s).amount
  <2>0. [mandates EXCEPT ![m] = HeldMandate(s)] = mandates
    BY <1>2
  <2>1. /\ session' = [session EXCEPT ![s] = job]
        /\ RowFree(intentLock[i], s) /\ intentLock' = [intentLock EXCEPT ![i] = s]
        /\ UNCHANGED <<vars, mandateLock>>
    BY <1>4 DEF LockNotifiedIntent
  <2>2. intentLock'[i] = s /\ LocksOfOthersStay(s)
    BY <1>2, <2>1, FreeRowTaken
  <2>3. /\ job \in Notices /\ job.mandate = m /\ job.intent = i /\ job.kind = old.kind
        /\ job.rows = mandates /\ job.row = registry[i] /\ job.status = StatusOf(p) /\ job.at = "commit"
    BY <1>1, <1>2, <1>3, <2>0 DEF LockedNotices, Notices
  <2>4. PICK j : j = job
    OBVIOUS
  <2> HIDE DEF job
  <2>5. j \notin MandateJobs \cup PlanJobs \cup UnlockedNotices \cup LockedNotices \cup Executions
    BY <2>3, <2>4, JobsApart
  <2>6. OnlyOrdersMissed(j.rows, j.intent) /\ HeldRow(j) = mandates[j.mandate]
    BY <2>3, <2>4, JustLoaded DEF HeldRow
  <2>7. NoticeInStep(j)
    BY <1>2, <1>3, <2>3, <2>4, <2>5, <2>6 DEF NoticeInStep
  <2>8. NoticeInStep(j)'
    BY <2>1, <2>7, TruthsStay
  <2>9. intentLock'[j.intent] = s /\ mandateLock'[j.mandate] = s
    BY <1>2, <2>1, <2>2, <2>3, <2>4
  <2>10. InStep(s, j)'
    BY <2>5, <2>8, <2>9 DEF InStep, HasLocks, StillAdmitted, ExecutionInStep
  <2> QED
    BY <2>1, <2>2, <2>4, <2>10 DEF StaysInStep
<1>5. CASE ~(old.kind = "fail" \/ registry[i].reserved >= HeldMandate(s).amount)
  BY <1>5, FinishedInStep DEF LockNotifiedIntent
<1> QED
  BY <1>4, <1>5
-----------------------------------------------------------------------------
(***************************************************************************)
(* The steps of a plan's execution that write nothing.                     *)
(***************************************************************************)
\* What is known of a session that executes a plan.
LEMMA ExecutorKnown ==
    ASSUME RowsInv, NEW s \in Sessions, NEW old, old = session[s], old.at # "idle",
           old.kind \in Executing
    PROVE  /\ TypeOK /\ old \in Executions /\ s \in Executors
           /\ old.intent \in Intents /\ old.plan \in Plans /\ plans[old.plan].intent = old.intent
           /\ plans[old.plan].status \in PlanStatus
           /\ old.rows \in HeldObjects /\ old.row \in IntentRow
           /\ old.todo \subseteq LegsOf(old.plan)
           /\ \A k \in DOMAIN old.rows : k \in LegsOf(old.plan) /\ Remembered(old.rows[k], k, old.plan)
           /\ old.at \in AtLeg => old.mandate \in DOMAIN old.rows
           /\ old.at = "answer" => old.mandate \in LegsOf(old.plan)
           /\ old.at \in {"revalidate", "lockIntent", "commit"} =>
                 /\ old.rows[old.mandate].status = "RESERVED"
                 /\ old.rows[old.mandate] = mandates[old.mandate]
           /\ old.kind = "release" /\ old.at = "lockIntent" => old.row = NoRow /\ old.status = "none"
<1>1. TypeOK /\ old \in Jobs /\ KnowsItsRows(old) /\ ExecutionInStep(s, old)
  BY SessionKnown
<1>2. old \in Executions
  BY <1>1, JobKinds
<1>3. /\ old.todo \subseteq LegsOf(old.plan)
      /\ DOMAIN old.rows \subseteq LegsOf(old.plan)
      /\ old.at \in AtLeg => old.mandate \in DOMAIN old.rows
      /\ old.at = "answer" => old.mandate \in LegsOf(old.plan)
  BY <1>1, <1>2 DEF KnowsItsRows
<1>4. /\ old.intent \in Intents /\ old.plan \in Plans /\ old.rows \in HeldObjects /\ old.row \in IntentRow
      /\ plans[old.plan] \in PlanRow
  BY <1>1, <1>2 DEF Executions, TypeOK
<1>5. /\ s \in Executors /\ plans[old.plan].intent = old.intent
      /\ \A k \in DOMAIN old.rows : Remembered(old.rows[k], k, old.plan)
      /\ old.at \in {"revalidate", "lockIntent", "commit"} => old.rows[old.mandate].status = "RESERVED"
      /\ old.kind = "release" /\ old.at = "lockIntent" => old.row = NoRow /\ old.status = "none"
  BY <1>1, <1>2 DEF ExecutionInStep, HeldRow
<1>6. old.at \in {"revalidate", "lockIntent", "commit"} => old.rows[old.mandate] = mandates[old.mandate]
  BY <1>3, <1>5 DEF Remembered, Settled, AtLeg
<1> QED
  BY <1>1, <1>2, <1>3, <1>4, <1>5, <1>6 DEF PlanRow

\* A session whose new record is true of the tables before the step stays in step.
LEMMA ExecutorMoves ==
    ASSUME RowsInv, NEW s \in Sessions, UNCHANGED vars, NEW job \in Executions,
           session' = [session EXCEPT ![s] = job], ExecutionInStep(s, job),
           job.kind = "release" /\ job.at = "commit" => intentLock'[job.intent] = s
    PROVE  StaysInStep(s)
BY TruthsStay, ExecutionInStepBuilt

\* It goes on with the next leg.
LEMMA LegDoneInStep ==
    ASSUME RowsInv, NEW s \in Sessions, UNCHANGED vars, NEW job \in Executions, s \in Executors,
           plans[job.plan].intent = job.intent, NEW m, NEW rows \in HeldObjects,
           \A k \in DOMAIN rows : Remembered(rows[k], k, job.plan),
           session' = [session EXCEPT ![s] = LegDone(job, m, rows)]
    PROVE  StaysInStep(s)
<1>1. PICK next : next = LegDone(job, m, rows)
  OBVIOUS
<1>2. /\ next \in Executions /\ next.at = "between" /\ next.kind = "execute"
      /\ next.intent = job.intent /\ next.plan = job.plan /\ next.rows = rows
  BY <1>1, LegDoneRecord
<1>3. ExecutionInStep(s, next)
  BY <1>2 DEF ExecutionInStep
<1> QED
  BY <1>1, <1>2, <1>3, ExecutorMoves

\* A transaction that ends takes no lock from another session.
LEMMA LocksGivenBack ==
    ASSUME RowsInv, NEW s \in Sessions, EndTransaction(s)
    PROVE  LocksOfOthersStay(s)
BY DEF LocksOfOthersStay, EndTransaction, Unlocked, RowsInv, LocksInv, LockTypes

\* The next leg is loaded.
LEMMA NextLegInStep ==
    ASSUME RowsInv, NEW s \in Sessions, ExecuteNext(s)
    PROVE  StaysInStep(s) /\ LocksOfOthersStay(s)
<1> DEFINE old == session[s]
           m == NextLeg(s)
           job == [old EXCEPT !.at = "lockMandate", !.mandate = m, !.rows = Loaded(old.rows, {m})]
<1>1. /\ UNCHANGED <<vars, mandateLock, intentLock>> /\ session' = [session EXCEPT ![s] = job]
      /\ old.at = "between" /\ old.kind = "execute" /\ old.todo # {}
  BY DEF ExecuteNext, At
<1>2. /\ TypeOK /\ old \in Executions /\ s \in Executors
      /\ plans[old.plan].intent = old.intent /\ old.rows \in HeldObjects
      /\ old.todo \subseteq LegsOf(old.plan)
      /\ \A k \in DOMAIN old.rows : Remembered(old.rows[k], k, old.plan)
  <2>1. PICK was : was = old
    OBVIOUS
  <2>2. was = session[s] /\ was.at # "idle" /\ was.kind \in Executing
    BY <1>1, <2>1 DEF Executing
  <2> QED
    BY <2>1, <2>2, ExecutorKnown
<1>3. m \in old.todo
  BY <1>1, <1>2, NextLegToDo
<1>4. PICK one \in SUBSET LegsOf(old.plan) : one = {m}
  BY <1>2, <1>3
<1>5. PICK rows : rows = Loaded(old.rows, {m})
  OBVIOUS
<1>6. /\ rows \in HeldObjects
      /\ \A k \in DOMAIN rows : Remembered(rows[k], k, old.plan)
  BY <1>2, <1>4, <1>5, LegsRemembered
<1>7. m \in 0 .. MaxMandates
  <2>1. m \in 1 .. MaxMandates
    BY <1>2, <1>3 DEF Executions
  <2> QED
    BY <2>1, BoundsAssumption
<1>8. PICK j : j = job
  OBVIOUS
<1>9. /\ j \in Executions /\ j.at = "lockMandate" /\ j.kind = "execute"
      /\ j.intent = old.intent /\ j.plan = old.plan /\ j.rows = rows
  <2> HIDE DEF m
  <2> QED
    BY <1>1, <1>2, <1>5, <1>6, <1>7, <1>8 DEF Executions, AtLeg
<1>10. ExecutionInStep(s, j)
  BY <1>2, <1>6, <1>9 DEF ExecutionInStep
<1>11. LocksOfOthersStay(s)
  BY <1>1 DEF LocksOfOthersStay
<1> HIDE DEF job
<1> QED
  BY <1>1, <1>8, <1>9, <1>10, <1>11, ExecutorMoves

\* The leg's row is locked: an object that shows no order is the row.
LEMMA LegLockInStep ==
    ASSUME RowsInv, NEW s \in Sessions, LockLeg(s)
    PROVE  StaysInStep(s) /\ LocksOfOthersStay(s)
<1> DEFINE old == session[s]
           m == old.mandate
           row == IF old.row = NoRow THEN registry[old.intent] ELSE old.row
           job == [old EXCEPT !.at = "revalidate", !.row = row]
<1>1. /\ UNCHANGED <<vars, intentLock>>
      /\ RowFree(mandateLock[m], s) /\ mandateLock' = [mandateLock EXCEPT ![m] = s]
      /\ session' = [session EXCEPT ![s] = IF Applies("execute", HeldMandate(s)) THEN job
                                           ELSE LegDone(old, m, old.rows)]
      /\ old.at = "lockMandate" /\ old.kind = "execute"
  BY DEF LockLeg, At
<1>2. /\ TypeOK /\ old \in Executions /\ s \in Executors /\ old.intent \in Intents
      /\ plans[old.plan].intent = old.intent /\ old.rows \in HeldObjects /\ old.row \in IntentRow
      /\ m \in DOMAIN old.rows
      /\ \A k \in DOMAIN old.rows : k \in LegsOf(old.plan) /\ Remembered(old.rows[k], k, old.plan)
  BY <1>1, ExecutorKnown DEF Executing, AtLeg
<1>3. m \in 1 .. MaxMandates
  BY <1>2, LegRows
<1>4. LocksOfOthersStay(s)
  BY <1>1, <1>3, FreeRowTaken
<1>5. CASE Applies("execute", HeldMandate(s))
  <2>1. old.rows[m].status = "RESERVED"
    BY <1>2, <1>5 DEF Applies, HeldMandate, Remembered, Settled
  <2>2. row \in IntentRow
    BY <1>2, RegistryRows
  <2>3. PICK j : j = job
    OBVIOUS
  <2> HIDE DEF row
  <2>4. /\ j \in Executions /\ j.at = "revalidate" /\ j.kind = "execute"
        /\ j.intent = old.intent /\ j.plan = old.plan /\ j.rows = old.rows /\ j.mandate = m
    BY <1>1, <1>2, <2>2, <2>3 DEF Executions, AtLeg
  <2>5. ExecutionInStep(s, j)
    BY <1>2, <2>1, <2>4 DEF ExecutionInStep, HeldRow
  <2>6. session' = [session EXCEPT ![s] = j]
    BY <1>1, <1>5, <2>3
  <2> HIDE DEF job
  <2> QED
    BY <1>1, <1>4, <2>4, <2>5, <2>6, ExecutorMoves
<1>6. CASE ~Applies("execute", HeldMandate(s))
  <2>1. PICK was : was = old
    OBVIOUS
  <2>2. /\ session' = [session EXCEPT ![s] = LegDone(was, was.mandate, was.rows)]
        /\ was \in Executions /\ plans[was.plan].intent = was.intent /\ was.rows \in HeldObjects
        /\ \A k \in DOMAIN was.rows : Remembered(was.rows[k], k, was.plan)
    BY <1>1, <1>2, <1>6, <2>1
  <2> QED
    BY <1>1, <1>2, <1>4, <2>2, LegDoneInStep
<1> QED
  BY <1>5, <1>6

\* A leg that needs the human again is left as it is.
LEMMA ReauthInStep ==
    ASSUME RowsInv, NEW s \in Sessions, LegNeedsReauth(s)
    PROVE  StaysInStep(s) /\ LocksOfOthersStay(s)
<1>1. PICK was : was = session[s]
  OBVIOUS
<1>2. /\ UNCHANGED <<vars, mandateLock, intentLock>>
      /\ session' = [session EXCEPT ![s] = LegDone(was, was.mandate, was.rows)]
      /\ was.at = "revalidate" /\ was.kind = "execute"
  BY <1>1, SessionKnown DEF LegNeedsReauth, At
<1>3. /\ was \in Executions /\ s \in Executors /\ plans[was.plan].intent = was.intent
      /\ was.rows \in HeldObjects
      /\ \A k \in DOMAIN was.rows : Remembered(was.rows[k], k, was.plan)
  BY <1>1, <1>2, ExecutorKnown DEF Executing
<1>4. StaysInStep(s)
  BY <1>2, <1>3, LegDoneInStep
<1> QED
  BY <1>2, <1>4 DEF LocksOfOthersStay

\* The order is placed.
LEMMA OrderInStep ==
    ASSUME RowsInv, NEW s \in Sessions, OrderLeg(s)
    PROVE  StaysInStep(s) /\ LocksOfOthersStay(s)
<1> DEFINE old == session[s]
           job == [old EXCEPT !.at = "commit"]
<1>1. /\ UNCHANGED <<vars, mandateLock, intentLock>> /\ session' = [session EXCEPT ![s] = job]
      /\ old.at = "revalidate" /\ old.kind = "execute"
  BY SessionKnown DEF OrderLeg, At
<1>2. /\ old \in Executions /\ s \in Executors /\ plans[old.plan].intent = old.intent
      /\ \A k \in DOMAIN old.rows : Remembered(old.rows[k], k, old.plan)
      /\ old.rows[old.mandate].status = "RESERVED"
  BY <1>1, ExecutorKnown DEF Executing
<1>3. PICK j : j = job
  OBVIOUS
<1>4. /\ j \in Executions /\ j.at = "commit" /\ j.kind = "execute"
      /\ j.intent = old.intent /\ j.plan = old.plan /\ j.rows = old.rows /\ j.mandate = old.mandate
  BY <1>1, <1>2, <1>3 DEF Executions, AtLeg
<1>5. ExecutionInStep(s, j)
  BY <1>2, <1>4 DEF ExecutionInStep, HeldRow
<1>6. LocksOfOthersStay(s)
  BY <1>1 DEF LocksOfOthersStay
<1> HIDE DEF job
<1> QED
  BY <1>1, <1>3, <1>4, <1>5, <1>6, ExecutorMoves

\* After an error the leg is loaded anew, and nothing else is held.
LEMMA RollbackInStep ==
    ASSUME RowsInv, NEW s \in Sessions, OrderFails(s)
    PROVE  StaysInStep(s) /\ LocksOfOthersStay(s)
<1>0. PICK old : old = session[s]
  OBVIOUS
<1>1. PICK job : job = Expired(old)
  OBVIOUS
<1>2. PICK m : m = job.mandate
  OBVIOUS
<1>3. PICK rows : rows = Loaded(NoObjects, {m})
  OBVIOUS
<1> DEFINE again == [job EXCEPT !.at = "lockIntent", !.kind = "release", !.rows = rows]
<1>4. /\ UNCHANGED vars /\ EndTransaction(s) /\ old.at = "commit" /\ old.kind = "execute"
      /\ session' = [session EXCEPT ![s] =
            IF Applies("release", mandates[m]) THEN again ELSE LegDone(job, m, rows)]
  BY <1>0, <1>1, <1>2, <1>3 DEF OrderFails, At
<1>5. /\ TypeOK /\ old \in Executions /\ s \in Executors /\ plans[old.plan].intent = old.intent
      /\ old.mandate \in LegsOf(old.plan)
      /\ old.rows[old.mandate].status = "RESERVED" /\ old.rows[old.mandate] = mandates[old.mandate]
  BY <1>0, <1>4, ExecutorKnown DEF Executing, AtLeg
<1>6. /\ job \in Executions /\ job.intent = old.intent /\ job.plan = old.plan
      /\ job.mandate = old.mandate /\ job.row = NoRow /\ job.status = "none"
  BY <1>1, <1>5, ExpiredRecord
<1>7. /\ rows \in HeldObjects /\ DOMAIN rows = {m} /\ rows[m] = mandates[m]
  BY <1>2, <1>3, <1>5, <1>6, LegRows, OneLoaded
<1>8. \A k \in DOMAIN rows : Remembered(rows[k], k, job.plan)
  BY <1>2, <1>5, <1>6, <1>7 DEF Remembered, LegsOf
<1>9. LocksOfOthersStay(s)
  BY <1>4, LocksGivenBack
<1>10. CASE Applies("release", mandates[m])
  <2>1. PICK j : j = again
    OBVIOUS
  <2>2. /\ j \in Executions /\ j.at = "lockIntent" /\ j.kind = "release" /\ j.intent = job.intent
        /\ j.plan = job.plan /\ j.rows = rows /\ j.mandate = m /\ j.row = NoRow /\ j.status = "none"
    <3> HIDE DEF NoRow
    <3> QED
      BY <1>2, <1>6, <1>7, <2>1 DEF Executions, AtLeg, Executing
  <2>3. HeldRow(j).status = "RESERVED"
    BY <1>2, <1>5, <1>6, <1>7, <2>2 DEF HeldRow
  <2>4. ExecutionInStep(s, j)
    BY <1>5, <1>6, <1>8, <2>2, <2>3 DEF ExecutionInStep
  <2>5. session' = [session EXCEPT ![s] = j]
    BY <1>4, <1>10, <2>1
  <2> HIDE DEF again
  <2> QED
    BY <1>4, <1>9, <2>2, <2>4, <2>5, ExecutorMoves
<1>11. CASE ~Applies("release", mandates[m])
  BY <1>4, <1>5, <1>6, <1>7, <1>8, <1>9, <1>11, LegDoneInStep
<1> QED
  BY <1>10, <1>11

\* The release has its intent locked, and reads of it and of the plan what it does
\* not hold: everything but the leg it releases.
LEMMA ReleaseLockInStep ==
    ASSUME RowsInv, NEW s \in Sessions, LockIntentToRelease(s)
    PROVE  StaysInStep(s) /\ LocksOfOthersStay(s)
<1>0. PICK old : old = session[s]
  OBVIOUS
<1>1. PICK rows : rows = Loaded(old.rows, LegsOf(old.plan))
  OBVIOUS
<1> DEFINE i == old.intent
           m == old.mandate
           row == IF old.row = NoRow THEN registry[i] ELSE old.row
           status == IF old.status = "none" THEN plans[old.plan].status ELSE old.status
           job == [old EXCEPT !.at = "commit", !.rows = rows, !.row = row, !.status = status]
<1>2. /\ UNCHANGED <<vars, mandateLock>> /\ session' = [session EXCEPT ![s] = job]
      /\ RowFree(intentLock[i], s) /\ intentLock' = [intentLock EXCEPT ![i] = s]
      /\ old.at = "lockIntent" /\ old.kind = "release"
  BY <1>0, <1>1 DEF LockIntentToRelease, At
<1>3. old.at # "idle" /\ old.kind \in Executing /\ old.at \in AtLeg
  BY <1>2 DEF Executing, AtLeg
<1>4. /\ old \in Executions /\ s \in Executors /\ plans[old.plan].intent = old.intent
      /\ old.rows \in HeldObjects
      /\ \A k \in DOMAIN old.rows : Remembered(old.rows[k], k, old.plan)
  BY <1>0, <1>3, ExecutorKnown
<1>5. /\ TypeOK /\ i \in Intents /\ old.plan \in Plans /\ plans[old.plan].status \in PlanStatus
      /\ m \in DOMAIN old.rows /\ m \in LegsOf(old.plan)
  BY <1>0, <1>3, ExecutorKnown
<1>6. /\ old.rows[m].status = "RESERVED" /\ old.rows[m] = mandates[m]
      /\ old.row = NoRow /\ old.status = "none"
  BY <1>0, <1>2, <1>3, ExecutorKnown
<1>7. row = registry[i] /\ status = plans[old.plan].status /\ registry[i] \in IntentRow
  BY <1>5, <1>6, RegistryRows
<1>8. /\ rows \in HeldObjects /\ DOMAIN rows = DOMAIN old.rows \cup LegsOf(old.plan)
      /\ \A k \in DOMAIN rows : Remembered(rows[k], k, old.plan)
  <2>1. PICK legs \in SUBSET LegsOf(old.plan) : legs = LegsOf(old.plan)
    OBVIOUS
  <2>2. PICK held \in HeldObjects : held = old.rows
    BY <1>4
  <2>3. \A k \in DOMAIN held : Remembered(held[k], k, old.plan)
    BY <1>4, <2>2
  <2>4. /\ Loaded(held, legs) \in HeldObjects
        /\ DOMAIN Loaded(held, legs) = DOMAIN held \cup legs
        /\ \A k \in DOMAIN Loaded(held, legs) : Remembered(Loaded(held, legs)[k], k, old.plan)
    BY <2>3, LegsRemembered
  <2> QED
    BY <1>1, <2>1, <2>2, <2>4
<1>9. rows[m].status = "RESERVED"
  BY <1>1, <1>5, <1>6 DEF Loaded
<1>10. status \in PlanStatus /\ status \notin {"COMPLETE", "FAILED", "none"}
  <2>1. m \in Rows /\ mandates[m].plan = old.plan /\ mandates[m].status = "RESERVED"
    BY <1>5, <1>6 DEF LegsOf
  <2>2. old.plan # NoPlan
    BY <1>5, NoPlanAssumption
  <2>3. plans[mandates[m].plan].status \in PlanStatus \ {"COMPLETE", "FAILED"}
    BY <2>1, <2>2, PlanNotDone
  <2> QED
    BY <1>7, <2>1, <2>3 DEF PlanStatus
<1>11. intentLock'[i] = s /\ LocksOfOthersStay(s)
  BY <1>2, <1>5, FreeRowTaken
<1>12. PICK j : j = job
  OBVIOUS
<1> HIDE DEF status, row
<1>13. /\ j \in Executions /\ j.at = "commit" /\ j.kind = "release" /\ j.intent = i /\ j.mandate = m
       /\ j.plan = old.plan /\ j.rows = rows /\ j.row = registry[i] /\ j.status = status
  BY <1>2, <1>4, <1>5, <1>7, <1>8, <1>10, <1>12 DEF Executions, AtLeg
<1>14. HoldsThePlan(j)
  BY <1>8, <1>10, <1>13 DEF HoldsThePlan
<1>15. HeldRow(j).status = "RESERVED"
  BY <1>9, <1>13 DEF HeldRow
<1>16. ExecutionInStep(s, j)
  BY <1>4, <1>8, <1>10, <1>13, <1>14, <1>15 DEF ExecutionInStep
<1> HIDE DEF job
<1> QED
  BY <1>2, <1>11, <1>12, <1>13, <1>16, ExecutorMoves

\* The leg is answered for.
LEMMA AnswerInStep ==
    ASSUME RowsInv, NEW s \in Sessions, AnswerLeg(s)
    PROVE  StaysInStep(s) /\ LocksOfOthersStay(s)
<1>0. PICK old : old = session[s]
  OBVIOUS
<1>1. PICK rows : rows = Loaded(NoObjects, {old.mandate})
  OBVIOUS
<1>2. /\ UNCHANGED <<vars, mandateLock, intentLock>>
      /\ session' = [session EXCEPT ![s] = LegDone(old, old.mandate, rows)]
      /\ old.at = "answer" /\ old.kind \in Executing
  BY <1>0, <1>1, SessionKnown DEF AnswerLeg, At
<1>3. /\ TypeOK /\ old \in Executions /\ s \in Executors /\ plans[old.plan].intent = old.intent
      /\ old.mandate \in LegsOf(old.plan)
  BY <1>0, <1>2, ExecutorKnown
<1>4. PICK one \in SUBSET LegsOf(old.plan) : one = {old.mandate}
  BY <1>3
<1>5. NoObjects \in HeldObjects /\ DOMAIN NoObjects = {}
  BY NothingHeld
<1>6. rows \in HeldObjects /\ \A k \in DOMAIN rows : Remembered(rows[k], k, old.plan)
  BY <1>1, <1>4, <1>5, LegsRemembered
<1>7. StaysInStep(s)
  BY <1>2, <1>3, <1>6, LegDoneInStep
<1> QED
  BY <1>2, <1>7 DEF LocksOfOthersStay

\* The plan and the legs that are not held are read for the last synchronisation.
LEMMA PlanReadInStep ==
    ASSUME RowsInv, NEW s \in Sessions, ReadPlan(s)
    PROVE  StaysInStep(s) /\ LocksOfOthersStay(s)
<1>0. PICK old : old = session[s]
  OBVIOUS
<1>1. PICK rows : rows = Loaded(old.rows, LegsOf(old.plan))
  OBVIOUS
<1> DEFINE status == IF old.status = "none" THEN plans[old.plan].status ELSE old.status
           job == [old EXCEPT !.at = "sync", !.rows = rows, !.status = status]
<1>2. /\ UNCHANGED <<vars, mandateLock, intentLock>> /\ session' = [session EXCEPT ![s] = job]
      /\ old.at = "between" /\ old.kind = "execute"
  BY <1>0, <1>1 DEF ReadPlan, At
<1>3. /\ old \in Executions /\ s \in Executors
      /\ plans[old.plan].intent = old.intent /\ plans[old.plan].status \in PlanStatus
      /\ old.rows \in HeldObjects
      /\ \A k \in DOMAIN old.rows : Remembered(old.rows[k], k, old.plan)
  BY <1>0, <1>2, ExecutorKnown DEF Executing
<1>4. /\ rows \in HeldObjects /\ DOMAIN rows = DOMAIN old.rows \cup LegsOf(old.plan)
      /\ \A k \in DOMAIN rows : Remembered(rows[k], k, old.plan)
  BY <1>1, <1>3, LegsRemembered
<1>5. status \in PlanStatus \cup {"none"} /\ status # "none"
  BY <1>3 DEF Executions, PlanStatus
<1>6. PICK j : j = job
  OBVIOUS
<1> HIDE DEF status
<1>7. /\ j \in Executions /\ j.at = "sync" /\ j.kind = "execute" /\ j.intent = old.intent
      /\ j.plan = old.plan /\ j.rows = rows /\ j.status = status
  BY <1>2, <1>3, <1>4, <1>5, <1>6 DEF Executions
<1>8. ExecutionInStep(s, j)
  BY <1>3, <1>4, <1>5, <1>7 DEF ExecutionInStep, HoldsThePlan
<1>9. LocksOfOthersStay(s)
  BY <1>2 DEF LocksOfOthersStay
<1> HIDE DEF job
<1> QED
  BY <1>2, <1>6, <1>7, <1>8, <1>9, ExecutorMoves
-----------------------------------------------------------------------------
(***************************************************************************)
(* The session's own step, when it commits: the step is one of             *)
(* PaymentRail.                                                            *)
(***************************************************************************)
\* A rejection that is recorded is written under the intent's free row.
LEMMA RejectedStep ==
    ASSUME RowsInv, NEW s \in Sessions, AuthorizationRejected(s)
    PROVE  Next /\ TablesMove(s)
<1> DEFINE job == session[s]
           i == job.intent
<1>1. /\ job \in MandateJobs \cup PlanJobs
      /\ job.kind = "mandate" <=> job \in MandateJobs
  BY JobKinds, SessionKnown DEF AuthorizationRejected, At, Authorizing, MandateJobs, PlanJobs
<1>2. i \in Intents /\ intentLock[i] \in {NoSession, s}
  BY <1>1 DEF AuthorizationRejected, RowFree, MandateJobs, PlanJobs
<1>3. CASE job \in MandateJobs
  <2>1. AuthorizeMandateRejected(i, job.merchant, job.key, job.total, TRUE)
    BY <1>1, <1>3 DEF AuthorizationRejected
  <2>2. Next
    BY <1>2, <1>3, <2>1 DEF Next, Authorization, MandateJobs
  <2>3. /\ registry' = [registry EXCEPT ![i] = Registered(i)]
        /\ audit' = audit \cup {<<"INTENT_ISSUED", i>>, <<"POLICY_REJECTED", i>>}
        /\ UNCHANGED <<mandates, plans, expired>>
    BY <2>1 DEF AuthorizeMandateRejected
  <2>4. TablesMove(s)
    BY <1>2, <2>3, RowFacts DEF TablesMove, RowMoves, RowsInv, LocksInv, TypeOK, Rows
  <2> QED
    BY <2>2, <2>4
<1>4. CASE job \in PlanJobs
  <2>1. AuthorizePlanRejected(i, job.plan, job.legs)
    BY <1>1, <1>4 DEF AuthorizationRejected, MandateJobs, PlanJobs
  <2>2. Next
    BY <1>2, <1>4, <2>1 DEF Next, Authorization, PlanJobs
  <2>3. /\ audit' = audit \cup {<<"POLICY_REJECTED", i>>}
        /\ UNCHANGED <<registry, mandates, plans, expired>>
    BY <2>1 DEF AuthorizePlanRejected
  <2>4. TablesMove(s)
    BY <1>2, <2>3, RowFacts DEF TablesMove, RowMoves, RowsInv, LocksInv, Rows
  <2> QED
    BY <2>2, <2>4
<1> QED
  BY <1>1, <1>3, <1>4

\* What the UPDATE of an authorization writes is what the charge makes of the
\* row: the object is the row.
LEMMA ChargeWritten ==
    ASSUME RowsInv, NEW i \in Intents, NEW row, row = registry[i], NEW total \in Nat
    PROVE  LET held == IF row.status = "ABSENT" THEN FreshRow ELSE row
           IN  Written(Registered(i), held, Charged(held, i, total)) = Charged(Registered(i), i, total)
<1>1. Registered(i) \in IntentRow /\ Charged(Registered(i), i, total) \in IntentRow
  BY RegistryRows, ChargedRow DEF RowsInv, LocksInv
<1>2. (IF row.status = "ABSENT" THEN FreshRow ELSE row) = Registered(i)
  BY DEF Registered
<1> QED
  BY <1>1, <1>2, WrittenAfresh

\* The commit of authorize_mandate() is AuthorizeMandate.
LEMMA MandateCommits ==
    ASSUME RowsInv, NEW s \in Sessions, CommitMandate(s)
    PROVE  Next /\ TablesMove(s)
<1> DEFINE job == session[s]
           i == job.intent
           row == NewMandate(i, NoPlan, job.merchant, job.key, job.total)
<1>1. job \in MandateJobs /\ job.at = "commit" /\ HasLocks(s, job) /\ StillAdmitted(job)
  BY JobKinds, SessionKnown DEF CommitMandate, At
<1>2. /\ i \in Intents /\ job.merchant \in Merchants /\ job.key \in Keys /\ job.total \in CartTotals
      /\ job.total \in Nat
      /\ intentLock[i] = s /\ job.row = registry[i]
      /\ MandateAdmitted(i, job.merchant, job.key, job.total, TRUE)
      /\ i \notin expired
  BY <1>1, CartTotalsAssumption DEF MandateJobs, HasLocks, StillAdmitted, RowsInv
<1>3. registry' = [registry EXCEPT ![i] = Charged(Registered(i), i, job.total)]
  BY <1>2, ChargeWritten DEF CommitMandate
<1>4. /\ Len(mandates) < MaxMandates
      /\ mandates' = Append(mandates, row)
      /\ audit' = audit \cup {<<"INTENT_ISSUED", i>>, <<"MANDATE_CREATED", Len(mandates) + 1>>}
      /\ handler' = [handler EXCEPT ![Len(mandates) + 1] = "reserved"]
      /\ UNCHANGED <<plans, events, receipts, expired>>
  BY DEF CommitMandate
<1>5. AuthorizeMandate(i, job.merchant, job.key, job.total, TRUE, "reserved")
  BY <1>2, <1>3, <1>4 DEF AuthorizeMandate
<1>6. Next
  BY <1>2, <1>5 DEF Next, Authorization
<1>7. row \in MandateRow /\ row.intent = i /\ row.plan = NoPlan /\ row.status = "RESERVED"
  BY <1>2, NewMandateType DEF NewMandate
<1>8. /\ Len(mandates) \in Nat /\ Len(mandates') = Len(mandates) + 1
      /\ \A k \in Rows : mandates'[k] = mandates[k]
      /\ mandates'[Len(mandates) + 1] = row
  BY <1>4, <1>7, RowFacts, AppendProperties DEF RowsInv, LocksInv, TypeOK, Rows
<1>9. /\ \A k \in Len(mandates) + 1 .. Len(mandates') : RowInserted(s, k)
      /\ \A k \in Rows : RowMoves(s, k)
      /\ Len(mandates') \in Nat /\ Len(mandates) <= Len(mandates')
  <2>1. \A k \in Len(mandates) + 1 .. Len(mandates') : k = Len(mandates) + 1
    BY <1>8
  <2> HIDE DEF row
  <2> QED
    BY <1>2, <1>7, <1>8, <2>1 DEF RowMoves, RowInserted
<1>10. /\ \A j \in Intents : registry'[j] = registry[j] \/ intentLock[j] \in {NoSession, s}
       /\ audit \subseteq audit'
       /\ \A k \in 1 .. MaxMandates : <<"ORDER_CREATED", k>> \in audit' => <<"ORDER_CREATED", k>> \in audit
  BY <1>2, <1>3, <1>4 DEF RowsInv, LocksInv, TypeOK
<1>11. UNCHANGED <<plans, expired>>
  BY <1>4
<1>12. TablesMove(s)
  BY <1>2, <1>9, <1>10, <1>11 DEF TablesMove
<1> QED
  BY <1>6, <1>12

\* The same summands have one sum: the running totals cannot part.
LEMMA OneSum ==
    ASSUME NEW n \in Nat, NEW f, NEW s \in Nat, NEW t \in Nat, SumsTo(f, n, s), SumsTo(f, n, t)
    PROVE  s = t
<1>1. PICK a \in [0 .. n -> Nat] : RunsTo(a, f, n, s)
  BY SumNormal
<1>2. PICK b \in [0 .. n -> Nat] : RunsTo(b, f, n, t)
  BY SumNormal
<1> DEFINE Parted == {k \in 0 .. n : a[k] # b[k]}
<1>3. CASE Parted = {}
  <2>1. a[n] = b[n]
    BY <1>3
  <2> QED
    BY <1>1, <1>2, <2>1 DEF RunsTo
<1>4. CASE Parted # {}
  <2>1. PICK k \in Parted : \A l \in Parted : k <= l
    <3>1. Parted \in SUBSET Nat
      OBVIOUS
    <3> HIDE DEF Parted
    <3> QED
      BY <1>4, <3>1, LeastNatural
  <2>2. k # 0 /\ k \in 1 .. n
    BY <1>1, <1>2, <2>1 DEF RunsTo
  <2>3. k - 1 \in 0 .. n /\ k - 1 \notin Parted
    BY <2>1, <2>2
  <2>4. a[k - 1] = b[k - 1]
    BY <2>3
  <2>5. a[k] = a[k - 1] + f[k] /\ b[k] = b[k - 1] + f[k]
    BY <1>1, <1>2, <2>2 DEF RunsTo
  <2> QED
    BY <2>1, <2>4, <2>5
<1> QED
  BY <1>3, <1>4

\* The commit of authorize_plan() is AuthorizePlan: the plan is not there yet,
\* and the sum over its legs is the one that was checked.
LEMMA PlanCommits ==
    ASSUME RowsInv, NEW s \in Sessions, CommitPlan(s)
    PROVE  Next /\ TablesMove(s)
<1> DEFINE job == session[s]
           i == job.intent
           p == job.plan
           legs == job.legs
           NewLeg(leg) == NewMandate(i, p, leg.merchant, LegKey(p, leg.merchant), leg.total)
<1>1. job \in PlanJobs /\ job.at = "commit" /\ HasLocks(s, job) /\ StillAdmitted(job)
  BY JobKinds, SessionKnown DEF CommitPlan, At
<1>2. /\ i \in Intents /\ p \in Plans /\ legs \in Legs
      /\ intentLock[i] = s /\ job.row = registry[i]
      /\ MayRequestPlan(i) /\ plans[p].intent = NoIntent
      /\ \E total \in 1 .. Available(Registered(i), i) : PlanAdmitted(i, p, legs, total)
  BY <1>1 DEF PlanJobs, HasLocks, StillAdmitted, CommitPlan
<1>3. PICK checked \in 1 .. Available(Registered(i), i) : PlanAdmitted(i, p, legs, checked)
  BY <1>2
<1>4. PICK total \in 1 .. SpendCap[i] :
         /\ SumsTo(LegTotals(legs), Len(legs), total)
         /\ registry' = [registry EXCEPT ![i] =
               Written(Registered(i), IF job.row.status = "ABSENT" THEN FreshRow ELSE job.row,
                       Charged(IF job.row.status = "ABSENT" THEN FreshRow ELSE job.row, i, total))]
  BY DEF CommitPlan
<1>5. /\ Len(legs) \in Nat /\ total \in Nat /\ checked \in Nat
      /\ Available(Registered(i), i) \in Int
  <2>1. Len(legs) \in Nat
    BY <1>2, PlanAppend DEF RowsInv, LocksInv
  <2>2. Registered(i).reserved \in Nat /\ Registered(i).captured \in Nat /\ SpendCap[i] \in Nat
    BY <1>2, RegistryRows, SpendCapAssumption DEF RowsInv, LocksInv, IntentRow
  <2>3. Available(Registered(i), i) \in Int
    BY <2>2 DEF Available
  <2> QED
    BY <1>3, <1>4, <2>1, <2>2, <2>3
<1>6. total = checked
  BY <1>3, <1>4, <1>5, OneSum DEF PlanAdmitted
<1>7. registry' = [registry EXCEPT ![i] = Charged(Registered(i), i, total)]
  BY <1>2, <1>4, <1>5, ChargeWritten
<1>8. /\ Len(mandates) + Len(legs) <= MaxMandates
      /\ plans' = [plans EXCEPT ![p] = [intent |-> i, status |-> "CONFIRMED"]]
      /\ mandates' = mandates \o [k \in 1 .. Len(legs) |-> NewLeg(legs[k])]
      /\ audit' = audit \cup {<<"INTENT_ISSUED", i>>} \cup
             {<<"MANDATE_CREATED", m>> : m \in Len(mandates) + 1 .. Len(mandates) + Len(legs)}
      /\ UNCHANGED <<events, receipts, handler, expired>>
  BY DEF CommitPlan
<1>9. total <= Available(Registered(i), i) /\ PlanAdmitted(i, p, legs, total)
  BY <1>3, <1>5, <1>6
<1>10. AuthorizePlan(i, p, legs, total)
  BY <1>2, <1>7, <1>8, <1>9 DEF AuthorizePlan
<1>11. Next
  BY <1>2, <1>10 DEF Next, Authorization
<1>12. /\ Len(mandates') = Len(mandates) + Len(legs) /\ Len(mandates) \in Nat
       /\ \A k \in 1 .. Len(mandates') :
             mandates'[k] = IF k <= Len(mandates) THEN mandates[k] ELSE NewLeg(legs[k - Len(mandates)])
  BY <1>2, <1>8, PlanAppend, RowFacts DEF RowsInv, LocksInv
<1>13. \A leg : NewLeg(leg).intent = i /\ NewLeg(leg).plan = p /\ NewLeg(leg).status = "RESERVED"
  BY DEF NewMandate
<1> HIDE DEF NewLeg
<1>14. /\ \A k \in Len(mandates) + 1 .. Len(mandates') : RowInserted(s, k)
       /\ \A k \in Rows : RowMoves(s, k)
       /\ Len(mandates') \in Nat /\ Len(mandates) <= Len(mandates')
  <2>1. ASSUME NEW k \in Len(mandates) + 1 .. Len(mandates')
        PROVE  RowInserted(s, k)
    <3>1. k \in 1 .. Len(mandates') /\ ~(k <= Len(mandates))
      BY <1>5, <1>12
    <3>2. mandates'[k] = NewLeg(legs[k - Len(mandates)])
      BY <1>12, <3>1
    <3>3. mandates'[k].intent = i /\ mandates'[k].plan = p /\ mandates'[k].status = "RESERVED"
      BY <1>13, <3>2
    <3> QED
      BY <1>2, <3>3 DEF RowInserted
  <2>2. \A k \in Rows : RowMoves(s, k)
    BY <1>5, <1>12 DEF RowMoves, Rows
  <2> QED
    BY <1>5, <1>12, <2>1, <2>2
<1>15. /\ \A j \in Intents : registry'[j] = registry[j] \/ intentLock[j] \in {NoSession, s}
       /\ audit \subseteq audit'
       /\ \A k \in 1 .. MaxMandates : <<"ORDER_CREATED", k>> \in audit' => <<"ORDER_CREATED", k>> \in audit
  BY <1>2, <1>7, <1>8 DEF RowsInv, LocksInv, TypeOK
<1>16. \A q \in Plans : \/ plans'[q].intent = plans[q].intent
                        \/ plans[q].intent = NoIntent /\ plans'[q].intent = i
  BY <1>2, <1>8 DEF RowsInv, LocksInv, TypeOK
<1>17. TablesMove(s)
  BY <1>2, <1>8, <1>14, <1>15, <1>16 DEF TablesMove
<1> QED
  BY <1>11, <1>17

\* A synchronisation that misses orders of a plan's legs comes to a status that
\* PaymentRail's may come to.
LEMMA MissedOrdersSeen ==
    ASSUME NEW old, NEW new, NEW p,
           PlanLegs(old, p) = PlanLegs(new, p),
           \A k \in PlanLegs(new, p) :
               \/ old[k].status = new[k].status
               \/ old[k].status = "RESERVED" /\ new[k].status = "ORDER_CREATED"
    PROVE  DerivedStatus(old, p) \in SeenStatus(new, p)
<1> DEFINE legs == PlanLegs(new, p)
           Captured(all) == {m \in legs : all[m].status = "PAYMENT_CAPTURED"}
           Failed(all) == {m \in legs : all[m].status \in Unsuccessful}
           Moving(all) == \E m \in legs : all[m].status \in InFlight
           Derived(captured, failed, moving) ==
              CASE captured = legs -> "COMPLETE"
                [] captured # legs /\ captured # {} -> "PARTIAL_COMPLETE"
                [] captured = {} /\ failed = legs -> "FAILED"
                [] captured = {} /\ failed # legs /\ moving -> "IN_PROGRESS"
                [] OTHER -> "CONFIRMED"
<1>1. /\ DerivedStatus(old, p) = Derived(Captured(old), Failed(old), Moving(old))
      /\ DerivedStatus(new, p) = Derived(Captured(new), Failed(new), Moving(new))
  BY DEF DerivedStatus, PlanLegs
<1>2. Captured(old) = Captured(new) /\ Failed(old) = Failed(new)
  BY DEF Unsuccessful
<1>3. Moving(old) => Moving(new)
  BY DEF InFlight, AwaitsPayment
<1> HIDE DEF Captured, Failed, Moving, legs
<1>4. \/ DerivedStatus(old, p) = DerivedStatus(new, p)
      \/ DerivedStatus(old, p) = "CONFIRMED" /\ DerivedStatus(new, p) = "IN_PROGRESS"
  BY <1>1, <1>2, <1>3
<1> QED
  BY <1>4 DEF SeenStatus

\* The plan's status depends on its legs and their statuses only.
LEMMA SameStatuses ==
    ASSUME NEW old, NEW new, NEW p, PlanLegs(old, p) = PlanLegs(new, p),
           \A k \in PlanLegs(new, p) : old[k].status = new[k].status
    PROVE  DerivedStatus(old, p) = DerivedStatus(new, p)
<1> DEFINE legs == PlanLegs(new, p)
           Captured(all) == {m \in legs : all[m].status = "PAYMENT_CAPTURED"}
           Failed(all) == {m \in legs : all[m].status \in Unsuccessful}
           Moving(all) == \E m \in legs : all[m].status \in InFlight
           Derived(captured, failed, moving) ==
              CASE captured = legs -> "COMPLETE"
                [] captured # legs /\ captured # {} -> "PARTIAL_COMPLETE"
                [] captured = {} /\ failed = legs -> "FAILED"
                [] captured = {} /\ failed # legs /\ moving -> "IN_PROGRESS"
                [] OTHER -> "CONFIRMED"
<1>1. /\ DerivedStatus(old, p) = Derived(Captured(old), Failed(old), Moving(old))
      /\ DerivedStatus(new, p) = Derived(Captured(new), Failed(new), Moving(new))
  BY DEF DerivedStatus, PlanLegs
<1>2. Captured(old) = Captured(new) /\ Failed(old) = Failed(new) /\ (Moving(old) <=> Moving(new))
  OBVIOUS
<1> HIDE DEF Captured, Failed, Moving, legs
<1> QED
  BY <1>1, <1>2

\* What the executor derives a status from is what it may have loaded earlier.
LEMMA HeldWasLoaded ==
    ASSUME TypeOK, NEW p, NEW held, NEW new, NEW changed,
           DOMAIN held = PlanLegs(new, p), \A k \in DOMAIN held : held[k].plan = p,
           \A k \in DOMAIN new : new[k] \in MandateRow,
           \A k \in PlanLegs(new, p) \ changed : held[k].status \in HadStatus(k),
           \A k \in PlanLegs(new, p) \cap changed : held[k].status = new[k].status
    PROVE  \E seen \in LoadedEarlier(new, p, changed) : DerivedStatus(seen, p) = DerivedStatus(held, p)
<1> DEFINE others == PlanLegs(new, p) \ changed
           had == [k \in others |-> held[k].status]
           seen == [k \in DOMAIN new |-> IF k \in others THEN [new[k] EXCEPT !.status = had[k]] ELSE new[k]]
<1>1. had \in [others -> UNION {HadStatus(m) : m \in others}] /\ \A m \in others : had[m] \in HadStatus(m)
  OBVIOUS
<1>2. seen \in LoadedEarlier(new, p, changed)
  <2> DEFINE Had == {f \in [others -> UNION {HadStatus(m) : m \in others}] :
                        \A m \in others : f[m] \in HadStatus(m)}
             Sight(f) == [k \in DOMAIN new |-> IF k \in others THEN [new[k] EXCEPT !.status = f[k]]
                                              ELSE new[k]]
  <2>1. had \in Had
    BY <1>1
  <2>2. LoadedEarlier(new, p, changed) = {Sight(f) : f \in Had}
    BY DEF LoadedEarlier, PlanLegs
  <2>3. seen = Sight(had)
    OBVIOUS
  <2> HIDE DEF Had, Sight, seen, had
  <2> QED
    BY <2>1, <2>2, <2>3
<1>3. DOMAIN seen = DOMAIN new
  OBVIOUS
<1>4. \A k \in DOMAIN new : seen[k].plan = new[k].plan
  BY DEF MandateRow
<1>5. \A k \in PlanLegs(new, p) : seen[k].status = held[k].status
  <2>1. ASSUME NEW k \in others
        PROVE  seen[k].status = held[k].status
    BY DEF PlanLegs, MandateRow
  <2>2. ASSUME NEW k \in PlanLegs(new, p), k \notin others
        PROVE  seen[k].status = held[k].status
    BY <2>2 DEF PlanLegs
  <2> QED
    BY <2>1, <2>2
<1> HIDE DEF seen
<1>6. PlanLegs(seen, p) = PlanLegs(new, p)
  BY <1>3, <1>4 DEF PlanLegs
<1>7. PlanLegs(held, p) = PlanLegs(new, p)
  BY DEF PlanLegs
<1>8. DerivedStatus(seen, p) = DerivedStatus(held, p)
  BY <1>5, <1>6, <1>7, SameStatuses
<1> QED
  BY <1>2, <1>8

\* The UPDATEs of a session whose objects of the mandate and of the intent are the
\* rows: they write what was changed.
LEMMA UpdateWrites ==
    ASSUME RowsInv, NEW s \in Sessions, NEW job, job = session[s],
           NEW m, m = job.mandate, NEW i, i = job.intent,
           m \in Rows, i \in Intents, mandates[m].intent = i,
           job.rows[m] = mandates[m], job.row = registry[i],
           NEW changed \in MandateRow, NEW changedIntent \in IntentRow,
           Update(s, changed, changedIntent)
    PROVE  /\ mandates' = [mandates EXCEPT ![m] = changed]
           /\ registry' = [registry EXCEPT ![i] = changedIntent]
           /\ UpdatePlan(changed.plan, [job.rows EXCEPT ![m] = changed], job.status)
<1>1. /\ mandates' = [mandates EXCEPT ![m] = Written(@, HeldMandate(s), changed)]
      /\ registry' = [registry EXCEPT ![i] = Written(@, job.row, changedIntent)]
      /\ UpdatePlan(changed.plan, [job.rows EXCEPT ![m] = changed], job.status)
  BY DEF Update
<1>2. mandates[m] \in MandateRow /\ registry[i] \in IntentRow /\ HeldMandate(s) = mandates[m]
  BY RowFacts, RegistryRows DEF RowsInv, LocksInv, HeldMandate
<1>3. /\ Written(mandates[m], HeldMandate(s), changed) = changed
      /\ Written(registry[i], job.row, changedIntent) = changedIntent
  BY <1>2, WrittenAfresh
<1> QED
  BY <1>1, <1>3

\* The plan's status that a webhook writes, or does not, is one that PaymentRail's
\* synchronisation may store.
LEMMA NoticeSyncs ==
    ASSUME RowsInv, NEW m \in Rows, NEW rows \in Seq(MandateRow), m \in 1 .. Len(rows),
           OnlyOrdersMissed(rows, mandates[m].intent),
           NEW changed \in MandateRow, changed.plan = mandates[m].plan,
           NEW status, status = "none" <=> mandates[m].plan = NoPlan,
           status \notin {"COMPLETE", "FAILED"},
           UpdatePlan(mandates[m].plan, [rows EXCEPT ![m] = changed], status)
    PROVE  plans' \in Synced([mandates EXCEPT ![m] = changed], mandates[m].plan)
<1> DEFINE p == mandates[m].plan
           i == mandates[m].intent
           old == [rows EXCEPT ![m] = changed]
           new == [mandates EXCEPT ![m] = changed]
<1>1. TypeOK /\ p \in Plans \cup {NoPlan} /\ plans \in [Plans -> PlanRow]
  BY RowFacts DEF RowsInv, LocksInv, TypeOK, MandateRow
<1>2. /\ DOMAIN mandates = 1 .. Len(mandates) /\ DOMAIN rows = 1 .. Len(rows)
      /\ Len(mandates) \in Nat /\ Len(rows) \in Nat /\ Len(rows) <= Len(mandates)
      /\ DOMAIN old = 1 .. Len(rows) /\ DOMAIN new = 1 .. Len(mandates)
  BY <1>1, RowFacts, LenProperties DEF OnlyOrdersMissed, Rows
<1>3. CASE p \in Plans
  <2>1. ASSUME NEW k \in Rows, mandates[k].plan = p
        PROVE  mandates[k].intent = i
    BY <1>3, <2>1, NoPlanAssumption DEF RowsInv, PlansAreCoherent
  <2>2. ASSUME NEW k \in Rows, k # m, mandates[k].plan = p
        PROVE  /\ k \in 1 .. Len(rows) /\ rows[k].plan = p
               /\ \/ rows[k].status = mandates[k].status
                  \/ rows[k].status = "RESERVED" /\ mandates[k].status = "ORDER_CREATED"
    <3>1. /\ k <= Len(rows)
          /\ \/ rows[k] = mandates[k]
             \/ /\ rows[k].status = "RESERVED"
                /\ mandates[k] = [rows[k] EXCEPT !.status = "ORDER_CREATED"]
      BY <2>1, <2>2 DEF OnlyOrdersMissed
    <3>2. k \in 1 .. Len(rows)
      BY <1>2, <3>1 DEF Rows
    <3>3. rows[k] \in MandateRow /\ rows[k].plan = p
      BY <2>2, <3>2, ElementOfSeq DEF OnlyOrdersMissed
    <3> QED
      BY <3>1, <3>2, <3>3 DEF MandateRow
  <2>3. ASSUME NEW k \in 1 .. Len(rows), k # m, rows[k].plan = p
        PROVE  k \in Rows /\ mandates[k].plan = p
    BY <1>2, <2>3 DEF OnlyOrdersMissed, Rows
  <2>4. /\ m \in PlanLegs(old, p) /\ m \in PlanLegs(new, p)
        /\ old[m].status = new[m].status
    BY <1>2 DEF PlanLegs, Rows
  <2>5. /\ \A k \in 1 .. Len(rows) : k # m => old[k] = rows[k]
        /\ \A k \in Rows : k # m => new[k] = mandates[k]
    BY <1>2 DEF Rows
  <2>6. \A k : k # m => (k \in PlanLegs(old, p) <=> k \in 1 .. Len(rows) /\ rows[k].plan = p)
    BY <1>2, <2>5 DEF PlanLegs
  <2>7. \A k : k # m => (k \in PlanLegs(new, p) <=> k \in Rows /\ mandates[k].plan = p)
    BY <1>2, <2>5 DEF PlanLegs, Rows
  <2> HIDE DEF old, new, p
  <2>8. PlanLegs(old, p) = PlanLegs(new, p)
    <3>1. \A k : k # m => (k \in PlanLegs(old, p) <=> k \in PlanLegs(new, p))
      BY <2>2, <2>3, <2>6, <2>7
    <3>2. \A k : k \in PlanLegs(old, p) <=> k \in PlanLegs(new, p)
      BY <2>4, <3>1
    <3> QED
      BY <3>2, Zenon
  <2>9. \A k \in PlanLegs(new, p) :
            \/ old[k].status = new[k].status
            \/ old[k].status = "RESERVED" /\ new[k].status = "ORDER_CREATED"
    BY <2>2, <2>4, <2>5, <2>7
  <2>10. PICK derived : derived = DerivedStatus(old, p)
    OBVIOUS
  <2>11. derived \in SeenStatus(new, p)
    BY <2>8, <2>9, <2>10, MissedOrdersSeen
  <2>12. status # "none"
    BY <1>3, NoPlanAssumption DEF p
  <2>13. plans' = IF status = derived THEN plans ELSE WithStatus(p, derived)
    BY <2>10, <2>12 DEF UpdatePlan, p, old
  <2>14. plans' \in Stored(p, derived)
    BY <2>13 DEF Stored
  <2> QED
    BY <2>11, <2>14 DEF Synced, p, new
<1>4. CASE p = NoPlan
  <2>1. plans' = plans
    BY <1>4 DEF UpdatePlan
  <2>2. WithStatus(p, DerivedStatus(new, p)) = plans
    BY <1>1, <1>4, NoPlanAssumption DEF WithStatus
  <2>3. DerivedStatus(new, p) \in SeenStatus(new, p)
    BY DEF SeenStatus
  <2>4. plans' \in Stored(p, DerivedStatus(new, p))
    BY <2>1, <2>2 DEF Stored
  <2> QED
    BY <2>3, <2>4 DEF Synced
<1> QED
  BY <1>1, <1>3, <1>4

\* A step that gives one mandate an outcome, under the lock of its intent, and
\* perhaps changes that intent and a plan's status.
LEMMA SettlingMoves ==
    ASSUME RowsInv, NEW s \in Sessions, NEW m \in Rows, NEW changed \in MandateRow, NEW row,
           mandates' = [mandates EXCEPT ![m] = changed],
           registry' = [registry EXCEPT ![mandates[m].intent] = row],
           \A q \in Plans : plans'[q].intent = plans[q].intent,
           expired' = expired,
           intentLock[mandates[m].intent] = s,
           mandates[m].status \notin Settled, changed.status \in Settled,
           mandates[m].status = "RESERVED" => s \in Executors,
           mandates[m].status # "RESERVED" => mandateLock[m] = s,
           changed.intent = mandates[m].intent, changed.plan = mandates[m].plan,
           changed.key = mandates[m].key,
           audit \subseteq audit',
           \A k \in 1 .. MaxMandates : <<"ORDER_CREATED", k>> \in audit' => <<"ORDER_CREATED", k>> \in audit
    PROVE  TablesMove(s)
<1>1. /\ Len(mandates) \in Nat /\ Len(mandates') = Len(mandates)
      /\ \A k \in Rows : mandates'[k] = IF k = m THEN changed ELSE mandates[k]
  BY RowFacts, RowUpdate DEF RowsInv, LocksInv, TypeOK, Rows
<1>2. \A k \in Rows : RowMoves(s, k)
  BY <1>1 DEF RowMoves
<1>3. \A i \in Intents : registry'[i] = registry[i] \/ intentLock[i] \in {NoSession, s}
  BY DEF RowsInv, LocksInv, TypeOK
<1>4. Len(mandates) + 1 .. Len(mandates') = {}
  BY <1>1
<1> QED
  BY <1>1, <1>2, <1>3, <1>4 DEF TablesMove

\* What a webhook that commits knows.
LEMMA NoticeFacts ==
    ASSUME RowsInv, NEW s \in Sessions, At(s, "commit", Notifying)
    PROVE  LET job == session[s]
               m == job.mandate
               i == job.intent
           IN  /\ job \in Notices /\ job.event \in EventIds
               /\ m \in Rows /\ i \in Intents /\ mandates[m].intent = i
               /\ job.rows \in Seq(MandateRow) /\ m \in 1 .. Len(job.rows)
               /\ job.rows[m] = mandates[m] /\ HeldMandate(s) = mandates[m]
               /\ job.row = registry[i] /\ registry[i] \in IntentRow
               /\ OnlyOrdersMissed(job.rows, i)
               /\ job.status = "none" <=> mandates[m].plan = NoPlan
               /\ job.status \notin {"COMPLETE", "FAILED"}
               /\ Applies(job.kind, mandates[m])
               /\ job.kind = "capture" => registry[i].reserved >= mandates[m].amount
               /\ intentLock[i] = s /\ mandateLock[m] = s
               /\ mandates[m] \in MandateRow
               /\ mandates[m].status # "RESERVED" /\ mandates[m].status \notin Settled
<1> DEFINE job == session[s]
           m == job.mandate
<1>1. TypeOK /\ job \in Notices /\ HasLocks(s, job) /\ NoticeInStep(job) /\ KnowsItsRows(job)
  BY JobKinds, SessionKnown DEF At
<1>2. m \in Rows /\ m \in 1 .. Len(job.rows) /\ mandates[m] \in MandateRow
  BY <1>1, RowFacts DEF KnowsItsRows
<1>3. /\ HeldRow(job) = mandates[m] /\ Applies(job.kind, mandates[m]) /\ mandates[m].intent = job.intent
      /\ <<"ORDER_CREATED", m>> \in audit /\ job.kind \in Notifying
      /\ job.row = registry[job.intent] /\ OnlyOrdersMissed(job.rows, job.intent)
      /\ job.status = "none" <=> mandates[m].plan = NoPlan
      /\ job.status \notin {"COMPLETE", "FAILED"}
      /\ job.mandate \in 1 .. MaxMandates /\ job.intent \in Intents /\ job.event \in EventIds
      /\ job.rows \in Seq(MandateRow) /\ job.row \in IntentRow
  BY <1>1 DEF NoticeInStep, Notices
<1>4. mandates[m].status # "RESERVED"
  BY <1>2, <1>3 DEF RowsInv, OrdersAreRecorded
<1>5. mandates[m].status \in AwaitsPayment
  BY <1>2, <1>3, FailureFollowsOrder DEF Applies, Notifying, MandateRow
<1>6. job.kind = "capture" => registry[job.intent].reserved >= mandates[m].amount
  BY <1>1, <1>3 DEF KnowsItsRows
<1>7. intentLock[job.intent] = s /\ mandateLock[m] = s
  BY <1>1 DEF HasLocks, Notices
<1>8. HeldMandate(s) = mandates[m] /\ job.rows[m] = mandates[m]
  BY <1>3 DEF HeldRow, HeldMandate
<1>9. mandates[m].status \notin Settled
  BY <1>5 DEF AwaitsPayment, Settled
<1> QED
  BY <1>1, <1>2, <1>3, <1>4, <1>6, <1>7, <1>8, <1>9

\* The commit of a capture is CaptureWebhook.
LEMMA CaptureCommits ==
    ASSUME RowsInv, NEW s \in Sessions, CommitCapture(s)
    PROVE  Next /\ TablesMove(s)
<1> DEFINE job == session[s]
           m == job.mandate
           i == job.intent
           amount == mandates[m].amount
           changed == CapturedRow(mandates[m], amount)
           row == [registry[i] EXCEPT !.reserved = @ - amount, !.captured = @ + amount]
<1>1. At(s, "commit", Notifying) /\ job.kind = "capture"
  BY DEF CommitCapture, At, Notifying
<1>2. /\ job.event \in EventIds
      /\ m \in Rows /\ i \in Intents /\ mandates[m].intent = i
      /\ job.rows[m] = mandates[m] /\ HeldMandate(s) = mandates[m]
      /\ job.row = registry[i] /\ registry[i] \in IntentRow
      /\ mandates[m].status \in AwaitsPayment
      /\ registry[i].reserved >= amount
      /\ mandates[m] \in MandateRow
  BY <1>1, NoticeFacts DEF Applies
<1>3. /\ job.rows \in Seq(MandateRow) /\ m \in 1 .. Len(job.rows)
      /\ OnlyOrdersMissed(job.rows, i)
      /\ job.status = "none" <=> mandates[m].plan = NoPlan
      /\ job.status \notin {"COMPLETE", "FAILED"}
  BY <1>1, NoticeFacts
<1>4. /\ intentLock[i] = s /\ mandateLock[m] = s
      /\ mandates[m].status # "RESERVED" /\ mandates[m].status \notin Settled
  BY <1>1, NoticeFacts
<1>5. amount \in CartTotals /\ amount \in Nat
  BY <1>2, RowFacts DEF RowsInv, LocksInv
<1>6. /\ changed \in MandateRow
      /\ changed.intent = mandates[m].intent /\ changed.plan = mandates[m].plan
      /\ changed.key = mandates[m].key /\ changed.status = "PAYMENT_CAPTURED"
  BY <1>2, <1>5 DEF CapturedRow, MandateRow, MandateStatus
<1>7. row \in IntentRow
  <2>1. ASSUME NEW r \in IntentRow, NEW a \in Nat, r.reserved >= a
        PROVE  [r EXCEPT !.reserved = @ - a, !.captured = @ + a] \in IntentRow
    <3>1. r.reserved \in Nat /\ r.captured \in Nat
      BY DEF IntentRow
    <3>2. r.reserved - a \in Nat /\ r.captured + a \in Nat
      BY <2>1, <3>1
    <3> QED
      BY <3>2 DEF IntentRow
  <2> QED
    BY <1>2, <1>5, <2>1
<1>8. Update(s, changed, row)
  BY <1>2 DEF CommitCapture
<1> HIDE DEF changed, row
<1>9. /\ mandates' = [mandates EXCEPT ![m] = changed]
      /\ registry' = [registry EXCEPT ![i] = row]
      /\ UpdatePlan(changed.plan, [job.rows EXCEPT ![m] = changed], job.status)
  BY <1>2, <1>6, <1>7, <1>8, UpdateWrites
<1>10. plans' \in Synced([mandates EXCEPT ![m] = changed], mandates[m].plan)
  <2>1. PICK rows \in Seq(MandateRow) : rows = job.rows
    BY <1>3
  <2>2. /\ m \in 1 .. Len(rows) /\ OnlyOrdersMissed(rows, mandates[m].intent)
        /\ UpdatePlan(mandates[m].plan, [rows EXCEPT ![m] = changed], job.status)
    BY <1>2, <1>3, <1>6, <1>9, <2>1
  <2> QED
    BY <1>2, <1>3, <1>6, <2>2, NoticeSyncs
<1>11. [registry EXCEPT ![i] = row] = [registry EXCEPT ![i].reserved = @ - amount, ![i].captured = @ + amount]
  BY <1>2, <1>5 DEF row, RowsInv, LocksInv, TypeOK, IntentRow
<1>12. /\ ~SeenEvent(job.event, "payment.captured")
       /\ events' = events \cup {[id |-> job.event, type |-> "payment.captured", mandate |-> m]}
       /\ receipts' = [receipts EXCEPT ![m] = @ + 1]
       /\ audit' = audit \cup {<<"PAYMENT_CAPTURED", m>>}
       /\ UNCHANGED <<handler, expired>>
  BY DEF CommitCapture
<1>13. CaptureWebhook(job.event, m, amount)
  BY <1>2, <1>9, <1>10, <1>11, <1>12 DEF CaptureWebhook, CaptureAdmitted, changed
<1>14. Next
  BY <1>2, <1>5, <1>13 DEF Next, Webhooks
<1>15. TablesMove(s)
  <2>1. /\ changed.status \in Settled /\ audit \subseteq audit' /\ expired' = expired
        /\ \A k \in 1 .. MaxMandates : <<"ORDER_CREATED", k>> \in audit' => <<"ORDER_CREATED", k>> \in audit
    BY <1>6, <1>12 DEF Settled
  <2>2. \A q \in Plans : plans'[q].intent = plans[q].intent
    BY <1>10, SyncedPlans DEF RowsInv, LocksInv
  <2> QED
    BY <1>2, <1>4, <1>6, <1>9, <2>1, <2>2, SettlingMoves
<1> QED
  BY <1>14, <1>15

\* The commit of a failed payment is FailWebhook.
LEMMA FailureCommits ==
    ASSUME RowsInv, NEW s \in Sessions, CommitFailure(s)
    PROVE  Next /\ TablesMove(s)
<1> DEFINE job == session[s]
           m == job.mandate
           i == job.intent
           changed == FailedRow(mandates[m])
           row == Refunded(registry[i], mandates[m].reserved)
<1>1. At(s, "commit", Notifying) /\ job.kind = "fail"
  BY DEF CommitFailure, At, Notifying
<1>2. /\ job.event \in EventIds
      /\ m \in Rows /\ i \in Intents /\ mandates[m].intent = i
      /\ job.rows[m] = mandates[m] /\ HeldMandate(s) = mandates[m]
      /\ job.row = registry[i] /\ registry[i] \in IntentRow
      /\ CanTransition(mandates[m].status, "PAYMENT_FAILED")
      /\ mandates[m] \in MandateRow
  BY <1>1, NoticeFacts DEF Applies
<1>3. /\ job.rows \in Seq(MandateRow) /\ m \in 1 .. Len(job.rows)
      /\ OnlyOrdersMissed(job.rows, i)
      /\ job.status = "none" <=> mandates[m].plan = NoPlan
      /\ job.status \notin {"COMPLETE", "FAILED"}
  BY <1>1, NoticeFacts
<1>4. /\ intentLock[i] = s /\ mandateLock[m] = s
      /\ mandates[m].status # "RESERVED" /\ mandates[m].status \notin Settled
  BY <1>1, NoticeFacts
<1>5. mandates[m].reserved \in Nat
  BY <1>2, RowFacts DEF RowsInv, LocksInv
<1>6. /\ changed \in MandateRow
      /\ changed.intent = mandates[m].intent /\ changed.plan = mandates[m].plan
      /\ changed.key = mandates[m].key /\ changed.status = "PAYMENT_FAILED"
  BY <1>2 DEF FailedRow, MandateRow, MandateStatus
<1>7. row \in IntentRow
  BY <1>2, <1>5, RefundedRow
<1>8. Update(s, changed, row)
  BY <1>2 DEF CommitFailure
<1> HIDE DEF changed, row
<1>9. /\ mandates' = [mandates EXCEPT ![m] = changed]
      /\ registry' = [registry EXCEPT ![i] = row]
      /\ UpdatePlan(changed.plan, [job.rows EXCEPT ![m] = changed], job.status)
  BY <1>2, <1>6, <1>7, <1>8, UpdateWrites
<1>10. plans' \in Synced([mandates EXCEPT ![m] = changed], mandates[m].plan)
  <2>1. PICK rows \in Seq(MandateRow) : rows = job.rows
    BY <1>3
  <2>2. /\ m \in 1 .. Len(rows) /\ OnlyOrdersMissed(rows, mandates[m].intent)
        /\ UpdatePlan(mandates[m].plan, [rows EXCEPT ![m] = changed], job.status)
    BY <1>2, <1>3, <1>6, <1>9, <2>1
  <2> QED
    BY <1>2, <1>3, <1>6, <2>2, NoticeSyncs
<1>11. /\ ~SeenEvent(job.event, "payment.failed")
       /\ events' = events \cup {[id |-> job.event, type |-> "payment.failed", mandate |-> m]}
       /\ UNCHANGED <<audit, receipts, handler, expired>>
  BY DEF CommitFailure
<1>12. FailWebhook(job.event, m)
  BY <1>2, <1>9, <1>10, <1>11 DEF FailWebhook, changed, row
<1>13. Next
  BY <1>2, <1>12 DEF Next, Webhooks
<1>14. TablesMove(s)
  <2>1. /\ changed.status \in Settled /\ audit \subseteq audit' /\ expired' = expired
        /\ \A k \in 1 .. MaxMandates : <<"ORDER_CREATED", k>> \in audit' => <<"ORDER_CREATED", k>> \in audit
    BY <1>6, <1>11 DEF Settled
  <2>2. \A q \in Plans : plans'[q].intent = plans[q].intent
    BY <1>10, SyncedPlans DEF RowsInv, LocksInv
  <2> QED
    BY <1>2, <1>4, <1>6, <1>9, <2>1, <2>2, SettlingMoves
<1> QED
  BY <1>13, <1>14

\* What the executor derives a plan's status from, and what becomes of the plan.
LEMMA ExecutorSyncs ==
    ASSUME RowsInv, NEW p \in Plans, NEW held \in HeldObjects, DOMAIN held = LegsOf(p),
           \A k \in DOMAIN held : Remembered(held[k], k, p),
           NEW new, NEW changed, DOMAIN new = Rows,
           \A k \in Rows : new[k] \in MandateRow /\ new[k].plan = mandates[k].plan,
           NEW old, DOMAIN old = DOMAIN held, \A k \in DOMAIN old : old[k].plan = p,
           \A k \in DOMAIN old : old[k].status = IF k \in changed THEN new[k].status ELSE held[k].status,
           NEW status, UpdatePlan(p, old, status), status # "none",
           status \notin {"COMPLETE", "FAILED"} \/ status # DerivedStatus(old, p)
    PROVE  plans' \in LateSynced(new, p, changed)
<1>1. PlanLegs(new, p) = LegsOf(p)
  BY DEF PlanLegs, LegsOf
<1>2. \A k \in DOMAIN held : held[k].status \in HadStatus(k)
  BY DEF Remembered, HadStatus
<1>3. PICK seen \in LoadedEarlier(new, p, changed) : DerivedStatus(seen, p) = DerivedStatus(old, p)
  BY <1>1, <1>2, HeldWasLoaded DEF RowsInv, LocksInv
<1>4. plans' = IF status = DerivedStatus(old, p) THEN plans ELSE WithStatus(p, DerivedStatus(old, p))
  BY DEF UpdatePlan
<1>5. plans' \in Stored(p, DerivedStatus(old, p))
  BY <1>4 DEF Stored
<1> QED
  BY <1>3, <1>5 DEF LateSynced

\* What a release that commits knows.
LEMMA ReleaseFacts ==
    ASSUME RowsInv, NEW s \in Sessions, CommitRelease(s)
    PROVE  LET job == session[s]
               m == job.mandate
               i == job.intent
           IN  /\ s \in Executors
               /\ m \in Rows /\ i \in Intents /\ mandates[m].intent = i
               /\ mandates[m].plan = job.plan /\ job.plan \in Plans
               /\ mandates[m].status = "RESERVED" /\ mandates[m] \in MandateRow
               /\ job.rows \in HeldObjects /\ DOMAIN job.rows = LegsOf(job.plan)
               /\ \A k \in DOMAIN job.rows : Remembered(job.rows[k], k, job.plan)
               /\ job.rows[m] = mandates[m] /\ HeldMandate(s) = mandates[m]
               /\ job.row = registry[i] /\ registry[i] \in IntentRow
               /\ job.status \notin {"COMPLETE", "FAILED", "none"}
               /\ intentLock[i] = s
<1>1. PICK job : job = session[s]
  OBVIOUS
<1>2. job.at = "commit" /\ job.kind = "release" /\ job.kind \in Executing
  BY <1>1 DEF CommitRelease, At, Executing
<1>3. /\ TypeOK /\ job \in Executions /\ s \in Executors /\ job.intent \in Intents /\ job.plan \in Plans
      /\ plans[job.plan].intent = job.intent /\ job.rows \in HeldObjects
      /\ \A k \in DOMAIN job.rows : k \in LegsOf(job.plan) /\ Remembered(job.rows[k], k, job.plan)
      /\ job.mandate \in DOMAIN job.rows
      /\ job.rows[job.mandate].status = "RESERVED" /\ job.rows[job.mandate] = mandates[job.mandate]
  BY <1>1, <1>2, ExecutorKnown DEF AtLeg
<1>4. /\ HoldsThePlan(job) /\ job.row = registry[job.intent]
      /\ job.status \notin {"COMPLETE", "FAILED"} /\ intentLock[job.intent] = s
  <2>1. ExecutionInStep(s, job) /\ HasLocks(s, job)
    BY <1>1, SessionKnown
  <2> QED
    BY <1>2, <1>3, <2>1 DEF ExecutionInStep, HasLocks
<1>5. job.mandate \in Rows /\ mandates[job.mandate].plan = job.plan
  BY <1>3 DEF LegsOf
<1>6. mandates[job.mandate].intent = job.intent /\ mandates[job.mandate] \in MandateRow
  BY <1>3, <1>5, NoPlanAssumption, RowFacts DEF RowsInv, PlansAreCoherent
<1>7. DOMAIN job.rows = LegsOf(job.plan) /\ job.status # "none"
  BY <1>3, <1>4 DEF HoldsThePlan
<1>8. HeldMandate(s) = mandates[job.mandate] /\ registry[job.intent] \in IntentRow
  BY <1>1, <1>3, RegistryRows DEF HeldMandate
<1> QED
  BY <1>1, <1>3, <1>4, <1>5, <1>6, <1>7, <1>8

\* The commit of a release is ReleaseLeg: nothing has happened to the leg since
\* its order failed. Of the others the session may know less.
LEMMA ReleaseCommits ==
    ASSUME RowsInv, NEW s \in Sessions, CommitRelease(s)
    PROVE  /\ Next /\ TablesMove(s)
           /\ session[s].mandate \in Rows
           /\ mandates'[session[s].mandate].status = "RELEASED"
<1>1. PICK job : job = session[s]
  OBVIOUS
<1>2. PICK m : m = job.mandate
  OBVIOUS
<1>3. PICK i : i = job.intent
  OBVIOUS
<1>4. /\ s \in Executors
      /\ m \in Rows /\ i \in Intents /\ mandates[m].intent = i
      /\ mandates[m].plan = job.plan /\ job.plan \in Plans
      /\ mandates[m].status = "RESERVED" /\ mandates[m] \in MandateRow
      /\ job.rows[m] = mandates[m] /\ HeldMandate(s) = mandates[m]
      /\ job.row = registry[i] /\ registry[i] \in IntentRow
      /\ intentLock[i] = s
  BY <1>1, <1>2, <1>3, ReleaseFacts
<1>5. /\ job.rows \in HeldObjects /\ DOMAIN job.rows = LegsOf(job.plan)
      /\ \A k \in DOMAIN job.rows : Remembered(job.rows[k], k, job.plan)
      /\ job.status \notin {"COMPLETE", "FAILED", "none"}
  BY <1>1, ReleaseFacts
<1> DEFINE changed == ReleasedRow(mandates[m])
           row == Refunded(registry[i], mandates[m].reserved)
           new == [mandates EXCEPT ![m] = changed]
<1>6. mandates[m].reserved \in Nat /\ TypeOK
  BY <1>4, RowFacts DEF RowsInv, LocksInv
<1>7. /\ changed \in MandateRow
      /\ changed.intent = mandates[m].intent /\ changed.plan = mandates[m].plan
      /\ changed.key = mandates[m].key /\ changed.status = "RELEASED"
  BY <1>4 DEF ReleasedRow, MandateRow, MandateStatus, HoldsBudget, InFlight
<1>8. row \in IntentRow
  BY <1>4, <1>6, RefundedRow
<1>9. Update(s, changed, row)
  BY <1>1, <1>4 DEF CommitRelease
<1> HIDE DEF changed, row
<1>10. /\ mandates' = new
       /\ registry' = [registry EXCEPT ![i] = row]
       /\ UpdatePlan(job.plan, [job.rows EXCEPT ![m] = changed], job.status)
  BY <1>1, <1>2, <1>3, <1>4, <1>7, <1>8, <1>9, UpdateWrites
<1>11. plans' \in LateSynced(new, job.plan, {m})
  <2>1. PICK held \in HeldObjects : held = job.rows
    BY <1>5
  <2>2. PICK old : old = [held EXCEPT ![m] = changed]
    OBVIOUS
  <2>3. /\ DOMAIN old = DOMAIN held
        /\ \A k \in DOMAIN held : old[k] = IF k = m THEN changed ELSE held[k]
    BY <2>2
  <2>4. PICK after : after = new
    OBVIOUS
  <2>5. DOMAIN after = Rows /\ \A k \in Rows : after[k] = IF k = m THEN changed ELSE mandates[k]
    BY <1>6, <2>4, RowFacts
  <2>6. /\ \A k \in Rows : after[k] \in MandateRow /\ after[k].plan = mandates[k].plan
        /\ \A k \in DOMAIN old : /\ old[k].plan = job.plan
                                 /\ old[k].status = IF k \in {m} THEN after[k].status
                                                                 ELSE held[k].status
    <3>1. \A k \in Rows : mandates[k] \in MandateRow
      BY <1>6, RowFacts
    <3>2. \A k \in DOMAIN held : held[k].plan = job.plan
      BY <1>5, <2>1 DEF Remembered
    <3> QED
      BY <1>4, <1>7, <2>3, <2>5, <3>1, <3>2
  <2>7. UpdatePlan(job.plan, old, job.status)
    BY <1>10, <2>1, <2>2
  <2>8. DOMAIN held = LegsOf(job.plan) /\ \A k \in DOMAIN held : Remembered(held[k], k, job.plan)
    BY <1>5, <2>1
  <2> HIDE DEF new
  <2>9. plans' \in LateSynced(after, job.plan, {m})
    BY <1>4, <1>5, <2>3, <2>5, <2>6, <2>7, <2>8, ExecutorSyncs
  <2> QED
    BY <2>4, <2>9
<1>12. /\ audit' = audit \cup {<<"POLICY_REJECTED", m>>}
       /\ UNCHANGED <<events, receipts, handler, expired>>
  BY <1>1, <1>2 DEF CommitRelease
<1>13. mandates[m].status \notin Terminal /\ mandates[m].plan # NoPlan
  BY <1>4, TerminalStatuses, NoPlanAssumption
<1>14. ReleaseLeg(m)
  BY <1>4, <1>10, <1>11, <1>12, <1>13 DEF ReleaseLeg, changed, row
<1>15. Next
  BY <1>4, <1>14 DEF Next, PlanExecution
<1>16. TablesMove(s)
  <2>1. /\ changed.status \in Settled /\ audit \subseteq audit' /\ expired' = expired
        /\ \A k \in 1 .. MaxMandates : <<"ORDER_CREATED", k>> \in audit' => <<"ORDER_CREATED", k>> \in audit
    BY <1>7, <1>12 DEF Settled
  <2>2. \A q \in Plans : plans'[q].intent = plans[q].intent
    BY <1>6, <1>11, LateSyncedPlans
  <2>3. mandates[m].status \notin Settled
    BY <1>4 DEF Settled
  <2> QED
    BY <1>4, <1>7, <1>10, <2>1, <2>2, <2>3, SettlingMoves
<1>17. mandates'[m] = changed
  BY <1>4, <1>6, <1>10, RowFacts
<1> QED
  BY <1>1, <1>2, <1>4, <1>7, <1>15, <1>16, <1>17

\* The commit of an order is ExecuteLeg.
LEMMA OrderCommits ==
    ASSUME RowsInv, NEW s \in Sessions, CommitOrder(s)
    PROVE  /\ Next /\ TablesMove(s)
           /\ session[s].mandate \in Rows
           /\ mandates'[session[s].mandate].status = "ORDER_CREATED"
<1>1. PICK job : job = session[s]
  OBVIOUS
<1>2. PICK m : m = job.mandate
  OBVIOUS
<1> DEFINE changed == [mandates[m] EXCEPT !.status = "ORDER_CREATED"]
<1>3. job.at = "commit" /\ job.kind \in Executing
  BY <1>1 DEF CommitOrder, At, Executing
<1>4. /\ TypeOK /\ s \in Executors /\ job.plan \in Plans
      /\ m \in LegsOf(job.plan)
      /\ job.rows[m].status = "RESERVED" /\ job.rows[m] = mandates[m]
  BY <1>1, <1>2, <1>3, ExecutorKnown DEF AtLeg
<1>5. /\ m \in Rows /\ mandates[m].plan # NoPlan
      /\ HeldMandate(s) = mandates[m] /\ mandates[m].status = "RESERVED"
      /\ mandates[m].intent \notin expired
  BY <1>1, <1>2, <1>4, NoPlanAssumption DEF LegsOf, HeldMandate, RowsInv
<1>6. mandates[m] \in MandateRow /\ changed \in MandateRow /\ changed.status = "ORDER_CREATED"
  BY <1>4, <1>5, RowFacts DEF MandateRow, MandateStatus
<1>7. Written(mandates[m], HeldMandate(s), [HeldMandate(s) EXCEPT !.status = "ORDER_CREATED"]) = changed
  BY <1>5, <1>6, WrittenAfresh
<1>8. /\ mandates' = [mandates EXCEPT ![m] = changed]
      /\ audit' = audit \cup {<<"ORDER_CREATED", m>>}
      /\ UNCHANGED <<registry, plans, events, receipts, handler, expired>>
  BY <1>1, <1>2, <1>7 DEF CommitOrder
<1>9. ExecuteLeg(m)
  <2>1. SetStatus(m, "ORDER_CREATED") = [mandates EXCEPT ![m] = changed]
    BY DEF SetStatus
  <2> QED
    BY <1>5, <1>8, <2>1 DEF ExecuteLeg
<1>10. Next
  BY <1>5, <1>9 DEF Next, PlanExecution
<1>11. /\ Len(mandates) \in Nat /\ Len(mandates') = Len(mandates)
       /\ \A k \in Rows : mandates'[k] = IF k = m THEN changed ELSE mandates[k]
  <2> HIDE DEF changed
  <2> QED
    BY <1>4, <1>5, <1>6, <1>8, RowFacts, RowUpdate DEF TypeOK, Rows
<1>12. \A k \in Rows : RowMoves(s, k)
  BY <1>4, <1>5, <1>6, <1>8, <1>11 DEF RowMoves, MandateRow
<1>13. \A k \in 1 .. MaxMandates :
          <<"ORDER_CREATED", k>> \in audit' =>
              <<"ORDER_CREATED", k>> \in audit \/ (k \in Rows /\ mandates'[k].status # "RESERVED")
  BY <1>5, <1>6, <1>8, <1>11
<1>14. Len(mandates) + 1 .. Len(mandates') = {}
  BY <1>11
<1>15. TablesMove(s)
  BY <1>8, <1>11, <1>12, <1>13, <1>14 DEF TablesMove
<1> QED
  BY <1>1, <1>2, <1>5, <1>6, <1>10, <1>11, <1>15

\* The last commit of an execution is SyncPlan, or writes nothing.
LEMMA StatusCommits ==
    ASSUME RowsInv, NEW s \in Sessions, CommitPlanStatus(s)
    PROVE  [Next]_vars /\ TablesMove(s)
<1>1. PICK job : job = session[s]
  OBVIOUS
<1>2. PICK p : p = job.plan
  OBVIOUS
<1>3. /\ job.at = "sync" /\ job.kind = "execute"
      /\ UpdatePlan(p, job.rows, job.status)
      /\ UNCHANGED <<registry, mandates, events, audit, receipts, handler, expired>>
  BY <1>1, <1>2 DEF CommitPlanStatus, At
<1>4. /\ TypeOK /\ job \in Executions /\ p \in Plans /\ job.intent \in Intents
      /\ plans[p].intent = job.intent /\ job.rows \in HeldObjects
      /\ \A k \in DOMAIN job.rows : k \in LegsOf(p) /\ Remembered(job.rows[k], k, p)
  BY <1>1, <1>2, <1>3, ExecutorKnown DEF Executing
<1>5. HoldsThePlan(job)
  BY <1>1, <1>3, <1>4, SessionKnown DEF ExecutionInStep
<1>6. DOMAIN job.rows = LegsOf(p) /\ job.status # "none"
  BY <1>2, <1>4, <1>5 DEF HoldsThePlan
<1>7. CASE job.status = DerivedStatus(job.rows, p)
  <2>1. UNCHANGED vars
    BY <1>3, <1>7 DEF UpdatePlan, vars
  <2> QED
    BY <2>1, TablesStay
<1>8. CASE job.status # DerivedStatus(job.rows, p)
  <2>1. PICK held \in HeldObjects : held = job.rows
    BY <1>4
  <2>2. PICK none : none = {}
    OBVIOUS
  <2>3. /\ DOMAIN held = LegsOf(p)
        /\ \A k \in DOMAIN held : Remembered(held[k], k, p)
        /\ \A k \in DOMAIN held : held[k].plan = p
        /\ \A k \in DOMAIN held : held[k].status = IF k \in none THEN mandates[k].status ELSE held[k].status
        /\ UpdatePlan(p, held, job.status)
        /\ job.status # DerivedStatus(held, p)
    BY <1>3, <1>4, <1>6, <1>8, <2>1, <2>2 DEF Remembered
  <2>4. DOMAIN mandates = Rows /\ \A k \in Rows : mandates[k] \in MandateRow
    BY <1>4, RowFacts
  <2>5. plans' \in LateSynced(mandates, p, none)
    BY <1>4, <1>6, <2>3, <2>4, ExecutorSyncs
  <2>6. SyncPlan(p)
    BY <1>3, <1>4, <2>2, <2>5, NoIntentAssumption DEF SyncPlan
  <2>7. Next
    BY <1>4, <2>6 DEF Next, PlanExecution
  <2>8. \A q \in Plans : plans'[q].intent = plans[q].intent
    BY <1>4, <2>5, LateSyncedPlans
  <2>9. TablesMove(s)
    <3>1. Len(mandates) \in Nat /\ Len(mandates') = Len(mandates)
      BY <1>3, <1>4, RowFacts
    <3>2. Len(mandates) + 1 .. Len(mandates') = {}
      BY <3>1
    <3>3. \A k \in Rows : RowMoves(s, k)
      BY <1>3 DEF RowMoves
    <3> QED
      BY <1>3, <2>8, <3>1, <3>2, <3>3 DEF TablesMove
  <2> QED
    BY <2>7, <2>9
<1> QED
  BY <1>7, <1>8
-----------------------------------------------------------------------------
(***************************************************************************)
(* All steps together.                                                     *)
(***************************************************************************)
\* What an executor keeps over the commit of a leg is the plan it executes.
LEMMA LegCommitInStep ==
    ASSUME RowsInv, NEW s \in Sessions, CommitOrder(s) \/ CommitRelease(s), TablesMove(s)
    PROVE  StaysInStep(s) /\ LocksOfOthersStay(s)
<1>1. PICK old : old = session[s]
  OBVIOUS
<1>2. PICK job : job = [Expired(old) EXCEPT !.at = "answer"]
  OBVIOUS
<1>3. /\ old.at = "commit" /\ old.kind \in Executing
      /\ EndTransaction(s) /\ session' = [session EXCEPT ![s] = job]
  BY <1>1, <1>2, SessionKnown DEF CommitOrder, CommitRelease, At, Executing
<1>4. /\ old \in Executions /\ s \in Executors /\ old.intent \in Intents /\ old.plan \in Plans
      /\ plans[old.plan].intent = old.intent
  BY <1>1, <1>3, ExecutorKnown
<1>5. PICK next : next = Expired(old)
  OBVIOUS
<1>6. /\ next \in Executions /\ next.intent = old.intent /\ next.plan = old.plan
      /\ next.rows = NoObjects
  BY <1>4, <1>5, ExpiredRecord
<1>7. /\ job \in Executions /\ job.at = "answer" /\ job.intent = old.intent /\ job.plan = old.plan
      /\ job.rows = NoObjects
  <2> HIDE DEF NoObjects
  <2> QED
    BY <1>2, <1>5, <1>6 DEF Executions
<1>8. plans'[job.plan].intent = job.intent
  BY <1>4, <1>7, NoIntentAssumption DEF TablesMove
<1>9. DOMAIN job.rows = {}
  BY <1>7, NothingHeld
<1>10. ExecutionInStep(s, job)'
  BY <1>4, <1>7, <1>8, <1>9 DEF ExecutionInStep
<1>11. LocksOfOthersStay(s)
  BY <1>3, LocksGivenBack
<1> QED
  BY <1>3, <1>7, <1>10, <1>11, ExecutionInStepBuilt

\* A step of a session is a step of PaymentRail, or changes no table; it leaves
\* the session in step, and the others' locks alone.
LEMMA SessionSteps ==
    ASSUME RowsInv, NothingReleasedEarly, NEW s \in Sessions, Work(s) \/ Request(s)
    PROVE  StaysInStep(s) /\ LocksOfOthersStay(s) /\ TablesMove(s) /\ [Next]_vars
<1>1. CASE Request(s)
  <2>1. StaysInStep(s) /\ LocksOfOthersStay(s) /\ UNCHANGED vars
    BY <1>1, RequestsInStep
  <2> QED
    BY <2>1, TablesStay
<1>2. CASE \/ AuthorizationRejected(s) \/ CommitMandate(s) \/ CommitPlan(s)
           \/ CommitCapture(s) \/ CommitFailure(s) \/ CommitPlanStatus(s)
  <2>1. Finish(s)
    BY <1>2 DEF AuthorizationRejected, CommitMandate, CommitPlan, CommitCapture, CommitFailure,
                CommitPlanStatus
  <2>2. [Next]_vars /\ TablesMove(s)
    BY <1>2, RejectedStep, MandateCommits, PlanCommits, CaptureCommits, FailureCommits, StatusCommits
  <2> QED
    BY <2>1, <2>2, FinishedInStep
<1>3. CASE CommitOrder(s) \/ CommitRelease(s)
  <2>1. [Next]_vars /\ TablesMove(s)
    BY <1>3, OrderCommits, ReleaseCommits
  <2> QED
    BY <1>3, <2>1, LegCommitInStep
<1>4. CASE AuthorizationRefused(s) \/ CommitPlanCollides(s) \/ CommitDuplicate(s) \/ AbortDeadlock(s)
  <2>1. Finish(s) /\ UNCHANGED vars
    BY <1>4 DEF AuthorizationRefused, CommitPlanCollides, CommitDuplicate, AbortDeadlock
  <2> QED
    BY <2>1, FinishedInStep, TablesStay
<1>5. CASE \/ LockIntentToAuthorize(s) \/ LockNotifiedMandate(s) \/ LockNotifiedIntent(s)
           \/ ExecuteNext(s) \/ LockLeg(s) \/ LegNeedsReauth(s) \/ OrderLeg(s) \/ OrderFails(s)
           \/ LockIntentToRelease(s) \/ AnswerLeg(s) \/ ReadPlan(s)
  <2>1. UNCHANGED vars
    BY <1>5 DEF LockIntentToAuthorize, LockNotifiedMandate, LockNotifiedIntent, ExecuteNext, LockLeg,
                LegNeedsReauth, OrderLeg, OrderFails, LockIntentToRelease, AnswerLeg, ReadPlan
  <2>2. StaysInStep(s) /\ LocksOfOthersStay(s)
    BY <1>5, AuthorizeLockInStep, NotifiedMandateInStep, NotifiedIntentInStep, NextLegInStep,
       LegLockInStep, ReauthInStep, OrderInStep, RollbackInStep, ReleaseLockInStep, AnswerInStep,
       PlanReadInStep
  <2> QED
    BY <2>1, <2>2, TablesStay
<1>6. ~LegUnavailable(s) /\ ~RejectNext(s)
  BY DEF LegUnavailable, RejectNext, NothingReleasedEarly
<1> QED
  BY <1>1, <1>2, <1>3, <1>4, <1>5, <1>6 DEF Work

\* The ledger's orders stay orders, and every order is in the ledger.
LEMMA RecordedStep ==
    ASSUME RowsInv, NEW s \in Sessions, TablesMove(s)
    PROVE  OrdersAreRecorded'
<1>1. /\ Rows \subseteq Rows'
      /\ \A k \in Rows : RowMoves(s, k)
      /\ \A k \in Rows' : k \notin Rows => RowInserted(s, k)
  BY RowsOfStep
<1>2. ASSUME NEW m \in Rows'
      PROVE  /\ mandates'[m].status \in Reached
             /\ mandates'[m].status = "ORDER_CREATED" => <<"ORDER_CREATED", m>> \in audit'
  <2>1. CASE m \in Rows
    <3>1. /\ mandates[m].status \in Reached
          /\ mandates[m].status = "ORDER_CREATED" => <<"ORDER_CREATED", m>> \in audit
      BY <2>1 DEF RowsInv, OrdersAreRecorded
    <3>2. CASE mandates'[m] = mandates[m]
      BY <3>1, <3>2 DEF TablesMove
    <3>3. CASE /\ mandates[m].status = "RESERVED"
               /\ mandates'[m] = [mandates[m] EXCEPT !.status = "ORDER_CREATED"]
               /\ <<"ORDER_CREATED", m>> \in audit'
      <4>1. mandates[m] \in MandateRow
        BY <2>1, RowFacts DEF RowsInv, LocksInv
      <4>2. mandates'[m].status = "ORDER_CREATED"
        BY <3>3, <4>1 DEF MandateRow
      <4> QED
        BY <3>3, <4>2 DEF Reached
    <3>4. CASE mandates'[m].status \in Settled
      BY <3>4 DEF Reached, Settled
    <3> QED
      BY <1>1, <2>1, <3>2, <3>3, <3>4 DEF RowMoves
  <2>2. CASE m \notin Rows
    BY <1>1, <2>2 DEF RowInserted, Reached
  <2> QED
    BY <2>1, <2>2
<1>3. ASSUME NEW m \in 1 .. MaxMandates, <<"ORDER_CREATED", m>> \in audit'
      PROVE  m \in Rows' /\ mandates'[m].status # "RESERVED"
  <2>1. CASE <<"ORDER_CREATED", m>> \in audit
    <3>1. m \in Rows /\ mandates[m].status # "RESERVED"
      BY <2>1 DEF RowsInv, OrdersAreRecorded
    <3> QED
      BY <1>1, <3>1 DEF RowMoves, Settled
  <2>2. CASE m \in Rows /\ mandates'[m].status # "RESERVED"
    BY <1>1, <2>2
  <2> QED
    BY <1>3, <2>1, <2>2 DEF TablesMove
<1> QED
  BY <1>2, <1>3 DEF OrdersAreRecorded

\* No order is on its way that the ledger does not know.
LEMMA FlightsRecorded == OrdersAreRecorded => FlightsAreKnown
BY DEF OrdersAreRecorded, FlightsAreKnown, Reached, Settled, InFlight, AwaitsPayment

LEMMA FlightsRecordedNext == OrdersAreRecorded' => FlightsAreKnown'
BY DEF OrdersAreRecorded, FlightsAreKnown, Reached, Settled, InFlight, AwaitsPayment

\* Every step is one of PaymentRail, or a stutter, and keeps the invariant.
LEMMA RowsStep ==
    ASSUME OneExecutor, NothingReleasedEarly
    PROVE  RowsInv /\ [NextLocks]_<<vars, lockVars>> => RowsInv' /\ [Next]_vars
<1> SUFFICES ASSUME RowsInv, [NextLocks]_<<vars, lockVars>>
             PROVE  RowsInv' /\ [Next]_vars
  OBVIOUS
<1>1. LocksInv'
  BY LocksStep DEF RowsInv
<1>2. TypeOK /\ TypeOK' /\ FlightsAreKnown
  BY <1>1, FlightsRecorded DEF RowsInv, LocksInv
<1>3. ASSUME [Next]_vars, OrdersAreRecorded'
      PROVE  PlansAreCoherent' /\ PlanStatusNeverAhead'
  <2>1. PlansAreCoherent'
    BY <1>2, <1>3, CoherenceStep DEF RowsInv
  <2>2. FlightsAreKnown'
    BY <1>3, FlightsRecordedNext
  <2> QED
    BY <1>2, <1>3, <2>1, <2>2, NeverAheadStep DEF RowsInv
<1>4. CASE UNCHANGED <<vars, lockVars>>
  <2>1. UNCHANGED vars /\ UNCHANGED <<mandates, audit, expired, session, mandateLock, intentLock>>
    BY <1>4 DEF vars, lockVars
  <2>2. ASSUME NEW u \in Sessions
        PROVE  InStep(u, session[u])'
    <3>1. PICK j : j = session[u]
      OBVIOUS
    <3>2. InStep(u, j) /\ j = session'[u]
      BY <2>1, <3>1 DEF RowsInv
    <3>3. HasLocks(u, j)'
      BY <2>1, <3>2 DEF InStep, HasLocks
    <3>4. StillAdmitted(j)' /\ NoticeInStep(j)' /\ ExecutionInStep(u, j)'
      BY <2>1, <3>2, TruthsStay DEF InStep
    <3>5. InStep(u, j)'
      BY <3>3, <3>4 DEF InStep
    <3> QED
      BY <3>2, <3>5
  <2>3. OrdersAreRecorded' /\ expired' = {}
    BY <2>1 DEF RowsInv, OrdersAreRecorded, Rows
  <2> QED
    BY <1>1, <1>3, <2>1, <2>2, <2>3 DEF RowsInv
<1>5. ASSUME NEW s \in Sessions, Work(s) \/ Request(s)
      PROVE  RowsInv' /\ [Next]_vars
  <2>1. StaysInStep(s) /\ LocksOfOthersStay(s) /\ TablesMove(s) /\ [Next]_vars
    BY <1>5, SessionSteps
  <2>2. OrdersAreRecorded' /\ expired' = {}
    BY <2>1, RecordedStep DEF RowsInv, TablesMove
  <2>3. PICK job : session' = [session EXCEPT ![s] = job] /\ InStep(s, job)'
    BY <2>1 DEF StaysInStep
  <2>4. /\ session'[s] = job
        /\ \A u \in Sessions \ {s} : session'[u] = session[u]
    BY <2>3 DEF RowsInv, LocksInv, LockTypes
  <2>5. InStep(s, session[s])'
    BY <2>3, <2>4
  <2>6. \A u \in Sessions \ {s} : InStep(u, session[u])'
    BY <2>1, <2>4, OthersKeepStep
  <2>7. \A u \in Sessions : InStep(u, session[u])'
    BY <2>5, <2>6
  <2> QED
    BY <1>1, <1>3, <2>1, <2>2, <2>7 DEF RowsInv
<1> QED
  BY <1>4, <1>5 DEF NextLocks

\* It holds when nothing has been asked yet.
LEMMA RowsInit == InitLocks => RowsInv
<1> SUFFICES ASSUME InitLocks PROVE RowsInv
  OBVIOUS
<1>1. LocksInv
  BY LocksInit
<1>2. expired = {} /\ audit = {} /\ Rows = {}
  BY DEF InitLocks, Init, Rows
<1>3. PlansAreCoherent /\ PlanStatusNeverAhead
  BY DEF InitLocks, Init, PlansAreCoherent, PlanStatusNeverAhead, Rows
<1>4. OrdersAreRecorded
  BY <1>2 DEF OrdersAreRecorded
<1>5. ASSUME NEW s \in Sessions
      PROVE  InStep(s, session[s])
  <2>1. session[s] = Idle
    BY DEF InitLocks
  <2>2. session[s] \notin MandateJobs \cup PlanJobs \cup UnlockedNotices \cup LockedNotices
                           \cup Notices \cup Executions
    BY <2>1, JobsApart
  <2> QED
    BY <2>2 DEF InStep, HasLocks, StillAdmitted, NoticeInStep, ExecutionInStep
<1> QED
  BY <1>1, <1>2, <1>3, <1>4, <1>5 DEF RowsInv

\* It holds throughout.
LEMMA RowsInvHolds ==
    ASSUME OneExecutor, NothingReleasedEarly
    PROVE  SpecLocks => []RowsInv
<1>1. RowsInv /\ [NextLocks]_<<vars, lockVars>> => RowsInv'
  BY RowsStep
<1> QED
  BY <1>1, RowsInit, PTL DEF SpecLocks

\* The sessions, interleaved read by read and lock by lock, implement the atomic
\* commits of PaymentRail: FOR UPDATE on the mandate and on the intent keeps
\* every update of policy.py, webhooks.py and hitl_execution.py from being lost.
THEOREM CommitsImplementRail ==
    ASSUME OneExecutor, NothingReleasedEarly
    PROVE  SpecLocks => CommitsAreAtomic
<1>1. InitLocks => Init
  BY DEF InitLocks
<1>2. RowsInv /\ [NextLocks]_<<vars, lockVars>> => [Next]_vars
  BY RowsStep
<1> QED
  BY <1>1, <1>2, RowsInvHolds, PTL DEF SpecLocks, CommitsAreAtomic, Spec

-----------------------------------------------------------------------------
(***************************************************************************)
(* One order per leg.                                                      *)
(***************************************************************************)
\* Only the executor is at an order, and the leg's row is still untouched.
LEMMA ExecutorAtOrder ==
    ASSUME RowsInv, NEW s \in Sessions, NEW m, AtOrder(s, m)
    PROVE  /\ s \in Executors /\ session[s].mandate = m
           /\ m \in Rows /\ m \in 1 .. MaxMandates /\ mandates[m].status = "RESERVED"
           /\ session[s].intent \in Intents
           /\ \/ session[s].at = "commit" /\ session[s].kind = "execute"
              \/ session[s].at \in {"lockIntent", "commit"} /\ session[s].kind = "release"
<1>1. PICK job : job = session[s]
  OBVIOUS
<1>2. /\ job \in Executions /\ job.mandate = m
      /\ \/ job.at = "commit" /\ job.kind = "execute"
         \/ job.at \in {"lockIntent", "commit"} /\ job.kind = "release"
  BY <1>1 DEF AtOrder
<1>3. /\ TypeOK /\ s \in Executors /\ job.intent \in Intents
      /\ m \in LegsOf(job.plan)
      /\ job.rows[m].status = "RESERVED" /\ job.rows[m] = mandates[m]
  BY <1>1, <1>2, ExecutorKnown DEF Executing, AtLeg
<1>4. m \in Rows /\ m \in 1 .. MaxMandates
  BY <1>3, LegRows
<1> QED
  BY <1>1, <1>2, <1>3, <1>4

\* PostgreSQL never aborts a session that is at an order: whoever has what it waits
\* for waits for no one.
LEMMA OrdersNeverAborted ==
    ASSUME RowsInv, OneExecutor, NEW s \in Sessions, NEW m, AtOrder(s, m)
    PROVE  ~AbortDeadlock(s)
<1> SUFFICES ASSUME NEW waiting \in SUBSET Sessions, s \in waiting,
                    \A t \in waiting : WaitsFor(t) \in waiting \ {t}
             PROVE  FALSE
  BY DEF AbortDeadlock
<1>1. /\ s \in Executors /\ session[s].mandate = m
      /\ m \in Rows /\ m \in 1 .. MaxMandates /\ mandates[m].status = "RESERVED"
      /\ session[s].intent \in Intents
      /\ \/ session[s].at = "commit" /\ session[s].kind = "execute"
         \/ session[s].at \in {"lockIntent", "commit"} /\ session[s].kind = "release"
  BY ExecutorAtOrder
<1>2. PICK t \in Sessions : t = WaitsFor(s) /\ t # s /\ t \in waiting
  OBVIOUS
<1>3. t \notin Executors
  BY <1>1, <1>2 DEF OneExecutor
<1>4. PICK other : other = session[t]
  OBVIOUS
<1>5. other \in Jobs /\ NoticeInStep(other) /\ ExecutionInStep(t, other)
  BY <1>4, SessionKnown
<1>6. other \notin Executions
  BY <1>3, <1>5 DEF ExecutionInStep
<1>7. CASE session[s].at = "commit" /\ session[s].kind = "execute"
  BY <1>2, <1>7 DEF WaitsFor, At
<1>8. CASE session[s].at = "lockIntent" /\ session[s].kind = "release"
  <2>1. PICK i \in Intents : i = session[s].intent
    BY <1>1
  <2>2. intentLock[i] = t
    BY <1>2, <1>8, <2>1 DEF WaitsFor, At
  <2>3. other.at = "commit"
    BY <1>4, <2>2 DEF RowsInv, LocksInv, Commits
  <2>4. other.kind # "release"
    BY <1>5, <1>6, <2>3, JobKinds DEF Executing
  <2>5. WaitsFor(t) = t
    BY <1>4, <2>3, <2>4 DEF WaitsFor, At
  <2> QED
    BY <1>2, <2>5
<1>9. CASE session[s].at = "commit" /\ session[s].kind = "release"
  <2>1. mandateLock[m] = t
    BY <1>1, <1>2, <1>9 DEF WaitsFor, At
  <2>2. LocksLeg(other, m)
    BY <1>1, <1>4, <2>1 DEF RowsInv, LocksInv
  <2>3. other \in LockedNotices \cup Notices /\ other.mandate = m
    BY <1>6, <2>2 DEF LocksLeg
  <2>4. <<"ORDER_CREATED", m>> \in audit
    BY <1>5, <2>3 DEF NoticeInStep
  <2> QED
    BY <1>1, <2>4 DEF RowsInv, OrdersAreRecorded
<1> QED
  BY <1>1, <1>7, <1>8, <1>9

\* An executor at an order that does not write is at the release of the same leg.
LEMMA OrderKept ==
    ASSUME RowsInv, RowsInv', OneExecutor,
           NEW s \in Sessions, Work(s) \/ Request(s), NEW m, AtOrder(s, m),
           mandates'[m].status = "RESERVED"
    PROVE  AtOrder(s, m)'
<1>0. PICK old : old = session[s]
  OBVIOUS
<1>1. /\ s \in Executors /\ old.mandate = m /\ old \in Executions
      /\ m \in Rows /\ m \in 1 .. MaxMandates /\ mandates[m].status = "RESERVED"
      /\ \/ old.at = "commit" /\ old.kind = "execute"
         \/ old.at \in {"lockIntent", "commit"} /\ old.kind = "release"
  BY <1>0, ExecutorAtOrder DEF AtOrder
<1>2. ~AbortDeadlock(s)
  BY OrdersNeverAborted
<1>3. ~CommitOrder(s) /\ ~CommitRelease(s)
  BY <1>0, <1>1, OrderCommits, ReleaseCommits
<1>4. ~Request(s)
  BY <1>0, <1>1, RequestsInStep DEF Busy
<1>5. OrderFails(s) \/ LockIntentToRelease(s)
  BY <1>0, <1>1, <1>2, <1>3, <1>4
     DEF Work, At, Authorizing, Notifying, Executing, LockIntentToAuthorize, AuthorizationRefused,
         AuthorizationRejected, CommitMandate, CommitPlan, CommitPlanCollides,
         LockNotifiedMandate, LockNotifiedIntent, CommitCapture, CommitFailure, CommitDuplicate,
         ExecuteNext, RejectNext, LockLeg, LegUnavailable, LegNeedsReauth, OrderLeg, AnswerLeg,
         ReadPlan, CommitPlanStatus
<1>6. DOMAIN session = Sessions
  BY DEF RowsInv, LocksInv, LockTypes
<1>7. CASE OrderFails(s)
  <2>1. PICK job : job = Expired(old)
    OBVIOUS
  <2>2. job \in Executions /\ job.mandate = m
    BY <1>1, <2>1, ExpiredRecord
  <2>3. PICK rows : rows = Loaded(NoObjects, {m})
    OBVIOUS
  <2>4. Applies("release", mandates[m])
    BY <1>1, TerminalStatuses DEF Applies
  <2>5. PICK new : new = [job EXCEPT !.at = "lockIntent", !.kind = "release", !.rows = rows]
    OBVIOUS
  <2>6. session' = [session EXCEPT ![s] = new]
    BY <1>0, <1>7, <2>1, <2>2, <2>3, <2>4, <2>5 DEF OrderFails
  <2>7. rows \in HeldObjects
    BY <1>1, <2>3, OneLoaded DEF RowsInv, LocksInv
  <2>8. new \in Executions /\ new.at = "lockIntent" /\ new.kind = "release" /\ new.mandate = m
    BY <2>2, <2>5, <2>7 DEF Executions, AtLeg, Executing
  <2>9. session'[s] = new
    BY <1>6, <2>6
  <2> QED
    BY <2>8, <2>9 DEF AtOrder, Executions
<1>8. CASE LockIntentToRelease(s)
  <2>1. old.kind = "release" /\ old.at = "lockIntent"
    BY <1>0, <1>8 DEF LockIntentToRelease, At
  <2>2. PICK rows, row, status :
           session' = [session EXCEPT ![s] =
               [old EXCEPT !.at = "commit", !.rows = rows, !.row = row, !.status = status]]
    BY <1>0, <1>8 DEF LockIntentToRelease
  <2>3. PICK new : new = [old EXCEPT !.at = "commit", !.rows = rows, !.row = row, !.status = status]
    OBVIOUS
  <2>4. session'[s] = new
    BY <1>6, <2>2, <2>3
  <2>5. new.at = "commit" /\ new.kind = "release" /\ new.mandate = m
    BY <1>1, <2>1, <2>3 DEF Executions
  <2>6. session'[s] \in Jobs
    BY DEF RowsInv, LocksInv, KnowsItsRows
  <2>7. new \in Executions
    BY <2>4, <2>5, <2>6, JobKinds DEF Executing
  <2> QED
    BY <2>4, <2>5, <2>7 DEF AtOrder
<1> QED
  BY <1>5, <1>7, <1>8

\* An order is placed once: nobody is at an order of that leg.
LEMMA FirstOrder ==
    ASSUME RowsInv, OneExecutor, OrdersInv, NEW s \in Sessions, OrderLeg(s),
           NEW m, m = session[s].mandate
    PROVE  /\ m \in Rows /\ m \in 1 .. MaxMandates
           /\ orders' = [orders EXCEPT ![m] = 1]
           /\ AtOrder(s, m)'
           /\ \A n : ~AtOrder(s, n)
<1>0. PICK old : old = session[s]
  OBVIOUS
<1>1. m = old.mandate
  BY <1>0
<1>2. /\ old.at = "revalidate" /\ old.kind = "execute"
      /\ session' = [session EXCEPT ![s] = [old EXCEPT !.at = "commit"]]
      /\ orders' = [orders EXCEPT ![m] = orders[m] + 1]
  BY <1>0, <1>1 DEF OrderLeg, At
<1>3. /\ TypeOK /\ s \in Executors /\ old \in Executions /\ m \in LegsOf(old.plan)
      /\ old.rows[m].status = "RESERVED" /\ old.rows[m] = mandates[m]
  BY <1>0, <1>1, <1>2, ExecutorKnown DEF Executing, AtLeg
<1>4. m \in Rows /\ m \in 1 .. MaxMandates /\ mandates[m].status = "RESERVED"
  BY <1>3, LegRows
<1>5. \A n : ~AtOrder(s, n)
  BY <1>0, <1>2 DEF AtOrder
<1>6. orders[m] = 0
  <2>1. \A u \in Sessions : ~AtOrder(u, m)
    BY <1>3, <1>5, ExecutorAtOrder DEF OneExecutor
  <2> QED
    BY <1>4, <2>1 DEF OrdersInv
<1>7. PICK new : new = [old EXCEPT !.at = "commit"]
  OBVIOUS
<1>8. new \in Executions /\ new.at = "commit" /\ new.kind = "execute" /\ new.mandate = m
  BY <1>1, <1>2, <1>3, <1>7 DEF Executions, AtLeg
<1>9. session'[s] = new
  BY <1>2, <1>7 DEF RowsInv, LocksInv, LockTypes
<1>10. AtOrder(s, m)'
  BY <1>8, <1>9 DEF AtOrder, Executions
<1> QED
  BY <1>2, <1>4, <1>5, <1>6, <1>10

\* A leg that was ordered is committed or released by the session that ordered
\* it, before anyone can order it again.
LEMMA OrdersStep ==
    ASSUME OneExecutor, NothingReleasedEarly
    PROVE  RowsInv /\ RowsInv' /\ OrdersInv /\ [NextLocks]_<<vars, lockVars>> => OrdersInv'
<1> SUFFICES ASSUME RowsInv, RowsInv', OrdersInv, [NextLocks]_<<vars, lockVars>>
             PROVE  OrdersInv'
  OBVIOUS
<1>1. CASE UNCHANGED <<vars, lockVars>>
  BY <1>1 DEF OrdersInv, AtOrder, vars, lockVars, Rows
<1>2. ASSUME NEW s \in Sessions, Work(s) \/ Request(s)
      PROVE  OrdersInv'
  <2>1. TablesMove(s) /\ StaysInStep(s)
    BY <1>2, SessionSteps
  <2>2. \A u \in Sessions \ {s} : session'[u] = session[u]
    BY <2>1 DEF StaysInStep, RowsInv, LocksInv, LockTypes
  <2>3. ASSUME NEW u \in Sessions \ {s}, NEW m, AtOrder(u, m)
        PROVE  AtOrder(u, m)'
    BY <2>2, <2>3 DEF AtOrder, Executions
  <2>4. ASSUME NEW m \in Rows
        PROVE  m \in Rows' /\ (mandates'[m].status = "RESERVED" => mandates[m].status = "RESERVED")
    <3>1. m \in Rows' /\ RowMoves(s, m)
      BY <2>1, RowsOfStep
    <3> QED
      BY <3>1 DEF RowMoves, Settled
  <2>5. ASSUME NEW m \in 1 .. MaxMandates, orders[m] = 1,
               \A u \in Sessions : AtOrder(u, m) /\ mandates'[m].status = "RESERVED" => AtOrder(u, m)'
        PROVE  m \in Rows' /\ (mandates'[m].status = "RESERVED" => \E u \in Sessions : AtOrder(u, m)')
    <3>1. m \in Rows /\ (mandates[m].status = "RESERVED" => \E u \in Sessions : AtOrder(u, m))
      BY <2>5 DEF OrdersInv
    <3> QED
      BY <2>4, <2>5, <3>1
  <2>6. CASE OrderLeg(s)
    <3>1. PICK n : n = session[s].mandate
      OBVIOUS
    <3>2. /\ n \in Rows /\ n \in 1 .. MaxMandates /\ orders' = [orders EXCEPT ![n] = 1]
          /\ AtOrder(s, n)' /\ \A k : ~AtOrder(s, k)
      BY <2>6, <3>1, FirstOrder
    <3>3. orders' \in [1 .. MaxMandates -> {0, 1}]
      BY <3>2 DEF OrdersInv
    <3>4. ASSUME NEW m \in 1 .. MaxMandates, orders'[m] = 1
          PROVE  m \in Rows' /\ (mandates'[m].status = "RESERVED" => \E u \in Sessions : AtOrder(u, m)')
      <4>1. CASE m = n
        BY <2>4, <3>2, <4>1
      <4>2. CASE m # n
        <5>1. orders[m] = 1
          BY <3>2, <3>4, <4>2 DEF OrdersInv
        <5>2. \A u \in Sessions : AtOrder(u, m) => AtOrder(u, m)'
          BY <2>3, <3>2
        <5> QED
          BY <2>5, <5>1, <5>2
      <4> QED
        BY <4>1, <4>2
    <3> QED
      BY <3>3, <3>4 DEF OrdersInv
  <2>7. CASE ~OrderLeg(s)
    <3>1. orders' = orders
      BY <1>2, <2>7, RequestsInStep
         DEF Work, LockIntentToAuthorize, AuthorizationRefused, AuthorizationRejected, CommitMandate,
             CommitPlan, CommitPlanCollides, LockNotifiedMandate, LockNotifiedIntent, CommitCapture,
             CommitFailure, CommitDuplicate, ExecuteNext, RejectNext, LockLeg, LegUnavailable,
             LegNeedsReauth, CommitOrder, OrderFails, LockIntentToRelease, CommitRelease, AnswerLeg,
             ReadPlan, CommitPlanStatus, AbortDeadlock
    <3>2. ASSUME NEW m \in 1 .. MaxMandates, orders'[m] = 1
          PROVE  m \in Rows' /\ (mandates'[m].status = "RESERVED" => \E u \in Sessions : AtOrder(u, m)')
      <4>1. \A u \in Sessions : AtOrder(u, m) /\ mandates'[m].status = "RESERVED" => AtOrder(u, m)'
        BY <1>2, <2>3, OrderKept
      <4> QED
        BY <2>5, <3>1, <3>2, <4>1
    <3>3. orders' \in [1 .. MaxMandates -> {0, 1}]
      BY <3>1 DEF OrdersInv
    <3> QED
      BY <3>2, <3>3 DEF OrdersInv
  <2> QED
    BY <2>6, <2>7
<1> QED
  BY <1>1, <1>2 DEF NextLocks

\* The gateway is asked at most once to order a leg: the lock, and the check of
\* the object after it, are enough as long as one session executes legs
\* (execute_plan_leg()).
THEOREM OneOrder ==
    ASSUME OneExecutor, NothingReleasedEarly
    PROVE  SpecLocks => []OneOrderPerLeg
<1>1. InitLocks => OrdersInv
  BY DEF InitLocks, OrdersInv
<1>2. RowsInv /\ RowsInv' /\ OrdersInv /\ [NextLocks]_<<vars, lockVars>> => OrdersInv'
  BY OrdersStep
<1>3. OrdersInv => OneOrderPerLeg
  <2> SUFFICES ASSUME OrdersInv PROVE OneOrderPerLeg
    OBVIOUS
  <2>1. \A m \in 1 .. MaxMandates : orders[m] \in {0, 1}
    BY DEF OrdersInv
  <2> QED
    BY <2>1 DEF OneOrderPerLeg
<1> QED
  BY <1>1, <1>2, <1>3, RowsInvHolds, PTL DEF SpecLocks
=============================================================================
