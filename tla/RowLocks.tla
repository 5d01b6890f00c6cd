------------------------------ MODULE RowLocks ------------------------------
(***************************************************************************)
(* The handlers of PaymentRail taken apart into what their database        *)
(* sessions do on PostgreSQL (READ COMMITTED): an unlocked SELECT, SELECT  *)
(* ... FOR UPDATE, and the UPDATEs of a commit. PaymentRail makes every    *)
(* commit one step; here the steps of several sessions interleave, and the *)
(* question is whether the result is still a behaviour of PaymentRail.     *)
(*                                                                         *)
(* Two habits of SQLAlchemy decide it. An object that a session already    *)
(* holds is not refreshed by a later SELECT, not even by one that locks    *)
(* its row (no query of the program asks for populate_existing). And a     *)
(* commit writes only the attributes that were changed, without looking at *)
(* what the row holds by then.                                             *)
(***************************************************************************)
EXTENDS PaymentRail

CONSTANTS
    Sessions,    \* database sessions, one per request
    Executors,   \* those that execute plans; the others serve the rest
    Outcomes,    \* how revalidating and ordering a leg may end
    Rejections,  \* whether a human may reject legs
    NoSession

ASSUME ExecutorsAssumption == Executors \subseteq Sessions
ASSUME OutcomesAssumption == Outcomes \subseteq {"ordered", "unavailable", "reauth", "error"}
ASSUME NoSessionAssumption == NoSession \notin Sessions

VARIABLES
    session,      \* what each session is doing and the objects it holds
    mandateLock,  \* the session that has locked a row of mandate_records
    intentLock,   \* the session that has locked a row of intent_registry
    orders        \* create_order() calls the gateway has answered, by mandate

lockVars == <<session, mandateLock, intentLock, orders>>

Idle == [at |-> "idle"]
Busy(s) == session[s].at # "idle"
At(s, stage, kinds) == session[s].at = stage /\ session[s].kind \in kinds

Authorizing == {"mandate", "plan"}
Notifying == {"capture", "fail"}
Executing == {"execute", "release"}

InitLocks ==
    /\ Init
    /\ session = [s \in Sessions |-> Idle]
    /\ mandateLock = [m \in 1 .. MaxMandates |-> NoSession]
    /\ intentLock = [i \in Intents |-> NoSession]
    /\ orders = [m \in 1 .. MaxMandates |-> 0]

\* Mutant: a SELECT without FOR UPDATE, which does not wait.
NeverWaits(lock, s) == lock = lock

\* SELECT ... FOR UPDATE and UPDATE wait while another session has the row.
RowFree(lock, s) == lock \in {NoSession, s}

\* Mutant: a transaction that is left open.
NeverUnlocked(locks, s) == locks

\* A commit, a rollback or the end of a session gives its locks back.
Unlocked(locks, s) == [row \in DOMAIN locks |-> IF locks[row] = s THEN NoSession ELSE locks[row]]

EndTransaction(s) ==
    /\ mandateLock' = Unlocked(mandateLock, s)
    /\ intentLock' = Unlocked(intentLock, s)

Finish(s) == EndTransaction(s) /\ session' = [session EXCEPT ![s] = Idle]

\* An UPDATE: the attributes the session changed, over whatever the row holds.
Written(row, held, changed) ==
    [field \in DOMAIN row |-> IF changed[field] # held[field] THEN changed[field] ELSE row[field]]

\* The session's object of the mandate it works on.
HeldMandate(s) == session[s].rows[session[s].mandate]

\* The mandates a session holds once it has read those in ms: what it holds already
\* stays as it is.
Loaded(rows, ms) ==
    [m \in DOMAIN rows \cup ms |-> IF m \in DOMAIN rows THEN rows[m] ELSE mandates[m]]

LegsOf(p) == {m \in Rows : mandates[m].plan = p}
StatusOf(p) == IF p = NoPlan THEN "none" ELSE plans[p].status
-----------------------------------------------------------------------------
(***************************************************************************)
(* Authorization. ensure_intent_registered() looks for the row first; the  *)
(* object is dropped, so the locking SELECT loads it afresh.               *)
(***************************************************************************)
AskMandate(s, i, merchant, key, total) ==
    /\ ~Busy(s)
    /\ i \notin expired
    /\ Len(mandates) < MaxMandates
    /\ session' = [session EXCEPT ![s] =
           [at |-> "lockIntent", kind |-> "mandate", intent |-> i, row |-> registry[i],
            merchant |-> merchant, key |-> key, total |-> total]]
    /\ UNCHANGED <<vars, mandateLock, intentLock, orders>>

AskPlan(s, i, p, legs) ==
    /\ ~Busy(s)
    /\ MayRequestPlan(i)
    /\ session' = [session EXCEPT ![s] =
           [at |-> "lockIntent", kind |-> "plan", intent |-> i, row |-> registry[i],
            plan |-> p, legs |-> legs]]
    /\ UNCHANGED <<vars, mandateLock, intentLock, orders>>

\* Two first uses of a credential: the second INSERT waits for the first
\* transaction and then violates the primary key.
Registered2nd(s) ==
    session[s].row.status = "ABSENT" /\ registry[session[s].intent].status # "ABSENT"

Admitted(s) ==
    LET job == session[s] IN
    IF job.kind = "mandate"
    THEN /\ Len(mandates) < MaxMandates
         /\ MandateAdmitted(job.intent, job.merchant, job.key, job.total, TRUE)
    ELSE /\ Len(mandates) + Len(job.legs) <= MaxMandates
         /\ MayRequestPlan(job.intent)
         /\ \E total \in 1 .. Available(Registered(job.intent), job.intent) :
                PlanAdmitted(job.intent, job.plan, job.legs, total)

\* The intent's row is locked and loaded, and every check is made.
LockIntentToAuthorize(s) ==
    LET i == session[s].intent IN
    /\ At(s, "lockIntent", Authorizing)
    /\ RowFree(intentLock[i], s)
    /\ ~Registered2nd(s)
    /\ Admitted(s)
    /\ intentLock' = [intentLock EXCEPT ![i] = s]
    /\ session' = [session EXCEPT ![s].at = "commit", ![s].row = registry[i]]
    /\ UNCHANGED <<vars, mandateLock, orders>>

\* Nothing is written: a lost first registration, a plan that already exists,
\* an exhausted intent.
AuthorizationRefused(s) ==
    LET i == session[s].intent IN
    /\ At(s, "lockIntent", Authorizing)
    /\ RowFree(intentLock[i], s)
    /\ \/ Registered2nd(s)
       \/ session[s].kind = "plan" /\ (~MayRequestPlan(i) \/ plans[session[s].plan].intent = i)
    /\ Finish(s)
    /\ UNCHANGED <<vars, orders>>

\* The rejection is recorded.
AuthorizationRejected(s) ==
    LET job == session[s] IN
    /\ At(s, "lockIntent", Authorizing)
    /\ RowFree(intentLock[job.intent], s)
    /\ ~Registered2nd(s)
    /\ IF job.kind = "mandate"
       THEN AuthorizeMandateRejected(job.intent, job.merchant, job.key, job.total, TRUE)
       ELSE AuthorizePlanRejected(job.intent, job.plan, job.legs)
    /\ Finish(s)
    /\ UNCHANGED orders

\* The INSERTs, and the UPDATE of the intent's row from the object held.
CommitMandate(s) ==
    LET job == session[s]
        i   == job.intent
        held == IF job.row.status = "ABSENT" THEN FreshRow ELSE job.row
    IN
    /\ At(s, "commit", {"mandate"})
    /\ Len(mandates) < MaxMandates
    /\ registry' = [registry EXCEPT ![i] = Written(Registered(i), held, Charged(held, i, job.total))]
    /\ mandates' = Append(mandates, NewMandate(i, NoPlan, job.merchant, job.key, job.total))
    /\ audit' = audit \cup {<<"INTENT_ISSUED", i>>, <<"MANDATE_CREATED", Len(mandates) + 1>>}
    /\ handler' = [handler EXCEPT ![Len(mandates) + 1] = "reserved"]
    /\ Finish(s)
    /\ UNCHANGED <<plans, events, receipts, expired, orders>>

CommitPlan(s) ==
    LET job == session[s]
        i   == job.intent
        held == IF job.row.status = "ABSENT" THEN FreshRow ELSE job.row
        first == Len(mandates) + 1
        last  == Len(mandates) + Len(job.legs)
        NewLeg(leg) == NewMandate(i, job.plan, leg.merchant, LegKey(job.plan, leg.merchant), leg.total)
    IN
    /\ At(s, "commit", {"plan"})
    /\ plans[job.plan].intent = NoIntent
    /\ last <= MaxMandates
    /\ \E total \in 1 .. SpendCap[i] :
          /\ SumsTo(LegTotals(job.legs), Len(job.legs), total)
          /\ registry' = [registry EXCEPT ![i] = Written(Registered(i), held, Charged(held, i, total))]
    /\ plans' = [plans EXCEPT ![job.plan] = [intent |-> i, status |-> "CONFIRMED"]]
    /\ mandates' = mandates \o [k \in 1 .. Len(job.legs) |-> NewLeg(job.legs[k])]
    /\ audit' = audit \cup {<<"INTENT_ISSUED", i>>} \cup
                {<<"MANDATE_CREATED", m>> : m \in first .. last}
    /\ Finish(s)
    /\ UNCHANGED <<events, receipts, handler, expired, orders>>

\* The plan's id was inserted meanwhile under another intent: IntegrityError,
\* rolled back.
CommitPlanCollides(s) ==
    /\ At(s, "commit", {"plan"})
    /\ plans[session[s].plan].intent # NoIntent
    /\ Finish(s)
    /\ UNCHANGED <<vars, orders>>

-----------------------------------------------------------------------------
(***************************************************************************)
(* Webhooks. A new session locks the mandate that has the order, then its  *)
(* intent; both are loaded by the locking SELECT. The plan's other legs    *)
(* are loaded, without a lock, once the intent is locked.                  *)
(***************************************************************************)
TypeOf(kind) == IF kind = "capture" THEN "payment.captured" ELSE "payment.failed"

Notify(s, kind, e, m) ==
    /\ ~Busy(s)
    /\ <<"ORDER_CREATED", m>> \in audit
    /\ ~SeenEvent(e, TypeOf(kind))
    /\ session' = [session EXCEPT ![s] =
           [at |-> "lockMandate", kind |-> kind, intent |-> mandates[m].intent, mandate |-> m,
            event |-> e]]
    /\ UNCHANGED <<vars, mandateLock, intentLock, orders>>

\* Mutant: an executor that does not re-check for a created order.
AppliesToOrdered(kind, row) ==
    CASE kind = "capture" -> row.status \in AwaitsPayment
      [] kind = "fail"    -> CanTransition(row.status, "PAYMENT_FAILED")
      [] kind = "execute" -> row.status \in {"RESERVED", "ORDER_CREATING", "ORDER_CREATED"}
      [] kind = "release" -> row.status \notin Terminal

\* Re-check of the state after acquiring the lock.
Applies(kind, row) ==
    CASE kind = "capture" -> row.status \in AwaitsPayment
      [] kind = "fail"    -> CanTransition(row.status, "PAYMENT_FAILED")
      [] kind = "execute" -> row.status \in {"RESERVED", "ORDER_CREATING"}
      [] kind = "release" -> row.status \notin Terminal

LockNotifiedMandate(s) ==
    LET m == session[s].mandate IN
    /\ At(s, "lockMandate", Notifying)
    /\ RowFree(mandateLock[m], s)
    /\ IF Applies(session[s].kind, mandates[m])
       THEN /\ mandateLock' = [mandateLock EXCEPT ![m] = s]
            /\ session' = [session EXCEPT ![s] =
                   [at |-> "lockIntent", kind |-> session[s].kind, intent |-> session[s].intent,
                    mandate |-> m, event |-> session[s].event, rows |-> mandates]]
            /\ UNCHANGED intentLock
       ELSE Finish(s)
    /\ UNCHANGED <<vars, orders>>

LockNotifiedIntent(s) ==
    LET job == session[s]
        i   == job.intent
    IN
    /\ At(s, "lockIntent", Notifying)
    /\ RowFree(intentLock[i], s)
    /\ IF job.kind = "fail" \/ registry[i].reserved >= HeldMandate(s).amount
       THEN /\ intentLock' = [intentLock EXCEPT ![i] = s]
            /\ session' = [session EXCEPT ![s] =
                   [at |-> "commit", kind |-> job.kind, intent |-> i, mandate |-> job.mandate,
                    event |-> job.event, row |-> registry[i],
                    status |-> StatusOf(HeldMandate(s).plan),
                    rows |-> [mandates EXCEPT ![job.mandate] = HeldMandate(s)]]]
            /\ UNCHANGED mandateLock
       ELSE Finish(s)
    /\ UNCHANGED <<vars, orders>>

\* The plan's status is derived from the objects held, and written if it differs
\* from the one held.
UpdatePlan(p, held, status) ==
    LET derived == DerivedStatus(held, p)
    IN  plans' = IF status \in {"none", derived} THEN plans ELSE WithStatus(p, derived)

\* One mandate, its intent and its plan are updated from the objects held.
Update(s, changed, changedIntent) ==
    LET job == session[s] IN
    /\ RowFree(mandateLock[job.mandate], s)
    /\ mandates' = [mandates EXCEPT ![job.mandate] = Written(@, HeldMandate(s), changed)]
    /\ registry' = [registry EXCEPT ![job.intent] = Written(@, job.row, changedIntent)]
    /\ UpdatePlan(changed.plan, [job.rows EXCEPT ![job.mandate] = changed], job.status)

CommitCapture(s) ==
    LET job == session[s]
        amount == HeldMandate(s).amount
    IN
    /\ At(s, "commit", {"capture"})
    /\ ~SeenEvent(job.event, "payment.captured")
    /\ Update(s, CapturedRow(HeldMandate(s), amount),
              [job.row EXCEPT !.reserved = @ - amount, !.captured = @ + amount])
    /\ events' = events \cup
           {[id |-> job.event, type |-> "payment.captured", mandate |-> job.mandate]}
    /\ receipts' = [receipts EXCEPT ![job.mandate] = @ + 1]
    /\ audit' = audit \cup {<<"PAYMENT_CAPTURED", job.mandate>>}
    /\ Finish(s)
    /\ UNCHANGED <<handler, expired, orders>>

CommitFailure(s) ==
    LET job == session[s] IN
    /\ At(s, "commit", {"fail"})
    /\ ~SeenEvent(job.event, "payment.failed")
    /\ Update(s, FailedRow(HeldMandate(s)), Refunded(job.row, HeldMandate(s).reserved))
    /\ events' = events \cup
           {[id |-> job.event, type |-> "payment.failed", mandate |-> job.mandate]}
    /\ Finish(s)
    /\ UNCHANGED <<audit, receipts, handler, expired, orders>>

\* The unique constraint on (event id, type): IntegrityError, rolled back.
CommitDuplicate(s) ==
    /\ At(s, "commit", Notifying)
    /\ SeenEvent(session[s].event, TypeOf(session[s].kind))
    /\ Finish(s)
    /\ UNCHANGED <<vars, orders>>

-----------------------------------------------------------------------------
(***************************************************************************)
(* Plan execution. execute_purchase_plan() loads the plan's mandates, then *)
(* executes or rejects them one after the other in one session, and at the *)
(* end derives the plan's status. A commit or a rollback expires every     *)
(* object the session holds: each is loaded anew when it is next looked    *)
(* at. Without one the objects stay, and so do the locks.                  *)
(***************************************************************************)
NoObjects == [m \in {} |-> m]

Approve(s, p) ==
    /\ ~Busy(s)
    /\ plans[p].intent # NoIntent
    /\ session' = [session EXCEPT ![s] =
           [at |-> "between", kind |-> "execute", intent |-> plans[p].intent, plan |-> p,
            todo |-> LegsOf(p), mandate |-> 0, rows |-> Loaded(NoObjects, LegsOf(p)),
            row |-> NoRow, status |-> plans[p].status]]
    /\ UNCHANGED <<vars, mandateLock, intentLock, orders>>

\* The session goes on with the next leg, having left mandate m.
LegDone(job, m, rows) ==
    [job EXCEPT !.at = "between", !.kind = "execute", !.todo = @ \ {m}, !.mandate = 0,
                !.rows = rows]

\* After a commit or a rollback.
Expired(job) == [job EXCEPT !.rows = NoObjects, !.row = NoRow, !.status = "none"]

\* The legs are taken in the order of their merchants, here that of the rows.
NextLeg(s) == CHOOSE m \in session[s].todo : \A n \in session[s].todo : m <= n

ExecuteNext(s) ==
    LET job == session[s]
        m   == NextLeg(s)
    IN
    /\ At(s, "between", {"execute"})
    /\ job.todo # {}
    /\ session' = [session EXCEPT ![s] =
           [job EXCEPT !.at = "lockMandate", !.mandate = m, !.rows = Loaded(job.rows, {m})]]
    /\ UNCHANGED <<vars, mandateLock, intentLock, orders>>

\* release_failed_leg() for a leg the human rejected: no lock on the mandate.
RejectNext(s) ==
    LET job == session[s]
        m   == NextLeg(s)
        rows == Loaded(job.rows, {m})
    IN
    /\ At(s, "between", {"execute"})
    /\ Rejections
    /\ job.todo # {}
    /\ session' = [session EXCEPT ![s] =
           IF Applies("release", rows[m])
           THEN [job EXCEPT !.at = "lockIntent", !.kind = "release", !.mandate = m, !.rows = rows]
           ELSE LegDone(job, m, rows)]
    /\ UNCHANGED <<vars, mandateLock, intentLock, orders>>

\* The row is locked; the object is the one loaded before. The intent is read
\* without a lock, and kept. An early return keeps the lock.
LockLeg(s) ==
    LET job == session[s]
        m   == job.mandate
    IN
    /\ At(s, "lockMandate", {"execute"})
    /\ RowFree(mandateLock[m], s)
    /\ mandateLock' = [mandateLock EXCEPT ![m] = s]
    /\ session' = [session EXCEPT ![s] =
           IF Applies("execute", HeldMandate(s))
           THEN [job EXCEPT !.at = "revalidate",
                            !.row = IF job.row = NoRow THEN registry[job.intent] ELSE job.row]
           ELSE LegDone(job, m, job.rows)]
    /\ UNCHANGED <<vars, intentLock, orders>>

\* revalidate_or_requote_leg(), and the test of the intent's expiry before it.
LegUnavailable(s) ==
    /\ At(s, "revalidate", {"execute"})
    /\ "unavailable" \in Outcomes
    /\ session' = [session EXCEPT ![s].at = "lockIntent", ![s].kind = "release"]
    /\ UNCHANGED <<vars, mandateLock, intentLock, orders>>

\* Nothing is written; the transaction goes on.
LegNeedsReauth(s) ==
    /\ At(s, "revalidate", {"execute"})
    /\ "reauth" \in Outcomes
    /\ session' = [session EXCEPT ![s] = LegDone(@, @.mandate, @.rows)]
    /\ UNCHANGED <<vars, mandateLock, intentLock, orders>>

OrderLeg(s) ==
    /\ At(s, "revalidate", {"execute"})
    /\ "ordered" \in Outcomes
    /\ orders' = [orders EXCEPT ![session[s].mandate] = @ + 1]
    /\ session' = [session EXCEPT ![s].at = "commit"]
    /\ UNCHANGED <<vars, mandateLock, intentLock>>

CommitOrder(s) ==
    LET job == session[s]
        m   == job.mandate
    IN
    /\ At(s, "commit", {"execute"})
    /\ mandates' = [mandates EXCEPT ![m] =
           Written(@, HeldMandate(s), [HeldMandate(s) EXCEPT !.status = "ORDER_CREATED"])]
    /\ audit' = audit \cup {<<"ORDER_CREATED", m>>}
    /\ session' = [session EXCEPT ![s] = [Expired(job) EXCEPT !.at = "answer"]]
    /\ EndTransaction(s)
    /\ UNCHANGED <<registry, plans, events, receipts, handler, expired, orders>>

\* An exception after the order was placed: the rollback drops locks and
\* expires objects, and the leg is released without the mandate's lock.
OrderFails(s) ==
    LET job == Expired(session[s])
        m   == job.mandate
        rows == Loaded(NoObjects, {m})
    IN
    /\ At(s, "commit", {"execute"})
    /\ "error" \in Outcomes
    /\ session' = [session EXCEPT ![s] =
           IF Applies("release", mandates[m])
           THEN [job EXCEPT !.at = "lockIntent", !.kind = "release", !.rows = rows]
           ELSE LegDone(job, m, rows)]
    /\ EndTransaction(s)
    /\ UNCHANGED <<vars, orders>>

\* SELECT ... FOR UPDATE of release_failed_leg(). What the session holds from
\* before, of the intent, the plan and its legs, is not refreshed.
LockIntentToRelease(s) ==
    LET job == session[s]
        i   == job.intent
    IN
    /\ At(s, "lockIntent", {"release"})
    /\ RowFree(intentLock[i], s)
    /\ intentLock' = [intentLock EXCEPT ![i] = s]
    /\ session' = [session EXCEPT ![s] =
           [job EXCEPT !.at = "commit",
                       !.rows = Loaded(job.rows, LegsOf(job.plan)),
                       !.row = IF job.row = NoRow THEN registry[i] ELSE job.row,
                       !.status = IF job.status = "none" THEN plans[job.plan].status ELSE @]]
    /\ UNCHANGED <<vars, mandateLock, orders>>

CommitRelease(s) ==
    LET job == session[s] IN
    /\ At(s, "commit", {"release"})
    /\ Update(s, ReleasedRow(HeldMandate(s)), Refunded(job.row, HeldMandate(s).reserved))
    /\ audit' = audit \cup {<<"POLICY_REJECTED", job.mandate>>}
    /\ session' = [session EXCEPT ![s] = [Expired(job) EXCEPT !.at = "answer"]]
    /\ EndTransaction(s)
    /\ UNCHANGED <<events, receipts, handler, expired, orders>>

\* The result is made of the leg's row, which the commit expired.
AnswerLeg(s) ==
    LET m == session[s].mandate IN
    /\ At(s, "answer", Executing)
    /\ session' = [session EXCEPT ![s] = LegDone(@, m, Loaded(NoObjects, {m}))]
    /\ UNCHANGED <<vars, mandateLock, intentLock, orders>>

\* sync_purchase_plan_status() looks at what it holds of the plan and its legs and
\* loads the rest, without a lock; then its commit.
ReadPlan(s) ==
    LET job == session[s] IN
    /\ At(s, "between", {"execute"})
    /\ job.todo = {}
    /\ session' = [session EXCEPT ![s] =
           [job EXCEPT !.at = "sync",
                       !.rows = Loaded(job.rows, LegsOf(job.plan)),
                       !.status = IF job.status = "none" THEN plans[job.plan].status ELSE @]]
    /\ UNCHANGED <<vars, mandateLock, intentLock, orders>>

CommitPlanStatus(s) ==
    LET job == session[s] IN
    /\ At(s, "sync", {"execute"})
    /\ UpdatePlan(job.plan, job.rows, job.status)
    /\ Finish(s)
    /\ UNCHANGED <<registry, mandates, events, audit, receipts, handler, expired, orders>>

-----------------------------------------------------------------------------
\* The session whose lock s is waiting for, or s itself.
WaitsFor(s) ==
    CASE session[s].at = "lockMandate" -> mandateLock[session[s].mandate]
      [] session[s].at = "lockIntent"  -> intentLock[session[s].intent]
      [] At(s, "commit", {"release"}) -> mandateLock[session[s].mandate]
      [] OTHER -> s

\* PostgreSQL breaks a cycle of waiting sessions by aborting one of them.
AbortDeadlock(s) ==
    /\ \E waiting \in SUBSET Sessions :
          /\ s \in waiting
          /\ \A t \in waiting : /\ WaitsFor(t) \in waiting \ {t}
                               /\ \E u \in waiting : WaitsFor(u) = t
    /\ Finish(s)
    /\ UNCHANGED <<vars, orders>>

Work(s) ==
    \/ LockIntentToAuthorize(s) \/ AuthorizationRefused(s) \/ AuthorizationRejected(s)
    \/ CommitMandate(s) \/ CommitPlan(s) \/ CommitPlanCollides(s)
    \/ LockNotifiedMandate(s) \/ LockNotifiedIntent(s)
    \/ CommitCapture(s) \/ CommitFailure(s) \/ CommitDuplicate(s)
    \/ ExecuteNext(s) \/ RejectNext(s)
    \/ LockLeg(s) \/ LegUnavailable(s) \/ LegNeedsReauth(s) \/ OrderLeg(s)
    \/ CommitOrder(s) \/ OrderFails(s)
    \/ LockIntentToRelease(s) \/ CommitRelease(s) \/ AnswerLeg(s)
    \/ ReadPlan(s) \/ CommitPlanStatus(s)
    \/ AbortDeadlock(s)

Request(s) ==
    \/ \E i \in Intents :
          \/ \E merchant \in Merchants, key \in Keys, total \in CartTotals :
                AskMandate(s, i, merchant, key, total)
          \/ \E p \in Plans, legs \in Legs :
                (\A k \in DOMAIN legs : legs[k].inPolicy) /\ AskPlan(s, i, p, legs)
    \/ \E kind \in Notifying, e \in EventIds, m \in Rows : Notify(s, kind, e, m)
    \/ s \in Executors /\ \E p \in Plans : Approve(s, p)

NextLocks == \E s \in Sessions : Work(s) \/ Request(s)

SpecLocks == InitLocks /\ [][NextLocks]_<<vars, lockVars>>

\* A session runs on, and one that queues for a row that keeps becoming free is
\* served.
FairSpecLocks ==
    /\ SpecLocks
    /\ \A s \in Sessions : SF_<<vars, lockVars>>(Work(s))

-----------------------------------------------------------------------------
\* execute_plan_leg() returns early without ending the transaction, so a leg that was
\* left as it is stays locked while its session goes on with others. But no lock
\* outlives the request, and none the next commit: a locked mandate is the one a
\* webhook is about, or a leg of the plan its session executes, which it works on or
\* has left since it last committed; a locked intent is about to be written
\* (webhooks.py, hitl_execution.py, policy.py).
LocksAreHeldByTheBusy ==
    /\ \A m \in 1 .. MaxMandates :
          mandateLock[m] # NoSession =>
              LET job == session[mandateLock[m]] IN
              /\ job.at \notin {"idle", "answer"}
              /\ \/ job.kind \in Notifying /\ job.mandate = m
                 \/ /\ job.kind \in Executing
                    /\ job.plan = mandates[m].plan
                    /\ m = job.mandate \/ m \notin job.todo
    /\ \A i \in Intents :
          intentLock[i] # NoSession =>
              LET job == session[intentLock[i]] IN job.at = "commit" /\ job.intent = i

\* The sessions, interleaved, do nothing to the tables that PaymentRail's atomic
\* commits could not do: FOR UPDATE on the mandate (webhooks, execute_plan_leg())
\* and on the intent (authorize_mandate(), authorize_plan()) keeps every update
\* from being lost, when one session executes legs and none is released early.
CommitsAreAtomic == Spec

\* The gateway is asked at most once to place the order of a plan leg
\* (execute_plan_leg(): "already created/captured/released legs are idempotent
\* no-ops" after the lock).
OneOrderPerLeg == \A m \in 1 .. MaxMandates : orders[m] <= 1

\* release_failed_leg(): "NEVER touches or releases captured payments" and
\* "Releases ONLY this mandate's reserved_paise back to IntentRegistry".
ReleasesAreTheirOwn ==
    [][\A m \in Rows :
          mandates[m].status # "RELEASED" /\ mandates'[m].status = "RELEASED" =>
              /\ mandates[m].status # "PAYMENT_CAPTURED"
              /\ registry'[mandates[m].intent] =
                    [registry[mandates[m].intent] EXCEPT !.reserved = @ - mandates[m].reserved]]_vars

\* Every request is answered, whatever locks it meets.
EveryRequestEnds == \A s \in Sessions : Busy(s) ~> ~Busy(s)

=============================================================================
