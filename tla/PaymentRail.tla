---------------------------- MODULE PaymentRail ----------------------------
(***************************************************************************)
(* The payment-policy rail: the tables intent_registry, mandate_records,   *)
(* purchase_plans, webhook_events and the facts of audit_ledger, and every *)
(* handler that writes them. A handler is one action per database commit:  *)
(* between two commits of one handler the steps of others interleave, a    *)
(* commit itself is atomic. This is the program as its row locks intend it *)
(* to behave; RowLocks takes the commits apart into reads and writes.      *)
(***************************************************************************)
EXTENDS MandateFSM, Sums, Sequences, FiniteSets

CONSTANTS
    Intents,          \* intent credentials (the JWTs users sign)
    Merchants,
    Plans,            \* purchase plan ids
    Keys,             \* idempotency keys clients choose, that of a plan's leg among them
    EventIds,         \* gateway event ids
    CartTotals,       \* totals of signed carts, in paise
    SpendCap,         \* [Intents -> Nat], signed into the credential
    MaxTransactions,  \* [Intents -> Nat \ {0}], signed into the credential
    AllowedMerchants, \* [Intents -> SUBSET Merchants], signed into the credential
    NoPlan, NoIntent,
    MaxMandates,      \* bound: rows of mandate_records
    MaxLegs           \* bound: legs of one plan

ASSUME CartTotalsAssumption == CartTotals \subseteq Nat \ {0}
ASSUME SpendCapAssumption == SpendCap \in [Intents -> Nat]
ASSUME MaxTransactionsAssumption == MaxTransactions \in [Intents -> Nat \ {0}]
ASSUME AllowedMerchantsAssumption == AllowedMerchants \in [Intents -> SUBSET Merchants]
ASSUME NoPlanAssumption == NoPlan \notin Plans
ASSUME NoIntentAssumption == NoIntent \notin Intents
ASSUME BoundsAssumption == MaxMandates \in Nat /\ MaxLegs \in Nat \ {0}

VARIABLES
    registry,  \* intent_registry: one row per intent, "ABSENT" until registered
    mandates,  \* mandate_records: the rows in order of insertion
    plans,     \* purchase_plans
    events,    \* webhook_events
    audit,     \* the kinds of facts in audit_ledger, without order or multiplicity
    receipts,  \* how many PaymentReceipts were issued for a mandate
    handler,   \* where the request that authorized a mandate stands
    expired    \* the intents whose expires_at has passed

vars == <<registry, mandates, plans, events, audit, receipts, handler, expired>>

Rows == 1 .. Len(mandates)

IntentRow ==
    [status : {"ABSENT", "ACTIVE", "EXHAUSTED"}, reserved : Nat, captured : Nat, consumed : Nat]
MandateRow ==
    [status : MandateStatus, intent : Intents, plan : Plans \cup {NoPlan},
     merchant : Merchants, key : Keys \cup (Plans \X Merchants),
     amount : CartTotals, reserved : Nat, captured : Nat]
PlanStatus == {"CONFIRMED", "IN_PROGRESS", "PARTIAL_COMPLETE", "COMPLETE", "FAILED"}
PlanRow == [intent : Intents \cup {NoIntent}, status : PlanStatus]
EventType == {"payment.captured", "payment.failed", "other"}
HandlerPosition == {"none", "agent", "reserved", "creating", "called"}

FreshRow == [status |-> "ACTIVE", reserved |-> 0, captured |-> 0, consumed |-> 0]
NoRow == [FreshRow EXCEPT !.status = "ABSENT"]

Init ==
    /\ registry = [i \in Intents |-> NoRow]
    /\ mandates = <<>>
    /\ plans = [p \in Plans |-> [intent |-> NoIntent, status |-> "CONFIRMED"]]
    /\ events = {}
    /\ audit = {}
    /\ receipts = [m \in 1 .. MaxMandates |-> 0]
    /\ handler = [m \in 1 .. MaxMandates |-> "none"]
    /\ expired = {}

-----------------------------------------------------------------------------
(***************************************************************************)
(* Budget arithmetic.                                                      *)
(***************************************************************************)
\* A mutant: captured money forgotten.
AvailableBeforeCaptures(row, i) == SpendCap[i] - row.reserved

\* IntentRegistry.available_paise
Available(row, i) == SpendCap[i] - row.reserved - row.captured

\* ensure_intent_registered(): the first use of a credential inserts its row.
Registered(i) == IF registry[i].status = "ABSENT" THEN FreshRow ELSE registry[i]

\* A mutant: one transaction too many.
ChargedOneTooMany(row, i, total) ==
    [status   |-> IF row.consumed + 1 > MaxTransactions[i] THEN "EXHAUSTED" ELSE row.status,
     reserved |-> row.reserved + total,
     captured |-> row.captured,
     consumed |-> row.consumed + 1]

\* What an accepted authorization of `total` does to the intent's row; a plan
\* of any number of legs counts as one transaction.
Charged(row, i, total) ==
    [status   |-> IF row.consumed + 1 >= MaxTransactions[i] THEN "EXHAUSTED" ELSE row.status,
     reserved |-> row.reserved + total,
     captured |-> row.captured,
     consumed |-> row.consumed + 1]

\* Releasing clips at zero.
Refunded(row, paise) ==
    [row EXCEPT !.reserved = IF row.reserved >= paise THEN row.reserved - paise ELSE 0]

NewMandate(i, p, merchant, key, total) ==
    [status |-> "RESERVED", intent |-> i, plan |-> p, merchant |-> merchant,
     key |-> key, amount |-> total, reserved |-> total, captured |-> 0]

PlanExistsFor(i) == \E p \in Plans : plans[p].intent = i
KeyUsed(i, key) == \E m \in Rows : mandates[m].intent = i /\ mandates[m].key = key

-----------------------------------------------------------------------------
(***************************************************************************)
(* Authorization (app/policy.py). An expired credential or cart fails      *)
(* signature verification before anything is written, so it is a guard and *)
(* not a rejection. cartInPolicy abstracts the category allowlist and the  *)
(* validity window checked after it.                                       *)
(***************************************************************************)
\* A mutant: the ledger entry is forgotten.
RegisterIntentUnaudited(i) ==
    /\ i \notin expired
    /\ registry[i].status = "ABSENT"
    /\ registry' = [registry EXCEPT ![i] = FreshRow]
    /\ UNCHANGED <<mandates, plans, events, audit, receipts, handler, expired>>

\* verify_intent() followed by a commit: the agent endpoints register the
\* credential they mint before they let the agent use it.
RegisterIntent(i) ==
    /\ i \notin expired
    /\ registry[i].status = "ABSENT"
    /\ registry' = [registry EXCEPT ![i] = FreshRow]
    /\ audit' = audit \cup {<<"INTENT_ISSUED", i>>}
    /\ UNCHANGED <<mandates, plans, events, receipts, handler, expired>>

\* The checks of authorize_mandate() that end in a recorded rejection.
MandateAdmitted(i, merchant, key, total, cartInPolicy) ==
    /\ ~PlanExistsFor(i)
    /\ Registered(i).status = "ACTIVE"
    /\ cartInPolicy
    /\ merchant \in AllowedMerchants[i]
    /\ Registered(i).consumed < MaxTransactions[i]
    /\ total <= Available(Registered(i), i)
    /\ ~KeyUsed(i, key)

\* authorize_mandate() up to its commit. The request goes on either in the
\* authorize endpoint ("reserved") or in an agent endpoint ("agent").
AuthorizeMandate(i, merchant, key, total, cartInPolicy, caller) ==
    /\ Len(mandates) < MaxMandates
    /\ i \notin expired
    /\ MandateAdmitted(i, merchant, key, total, cartInPolicy)
    /\ registry' = [registry EXCEPT ![i] = Charged(Registered(i), i, total)]
    /\ mandates' = Append(mandates, NewMandate(i, NoPlan, merchant, key, total))
    /\ audit' = audit \cup {<<"INTENT_ISSUED", i>>, <<"MANDATE_CREATED", Len(mandates) + 1>>}
    /\ handler' = [handler EXCEPT ![Len(mandates) + 1] = caller]
    /\ UNCHANGED <<plans, events, receipts, expired>>

\* _reject_policy(): the rejection is committed together with a registration
\* made by the same call.
AuthorizeMandateRejected(i, merchant, key, total, cartInPolicy) ==
    /\ i \notin expired
    /\ ~MandateAdmitted(i, merchant, key, total, cartInPolicy)
    /\ registry' = [registry EXCEPT ![i] = Registered(i)]
    /\ audit' = audit \cup {<<"INTENT_ISSUED", i>>, <<"POLICY_REJECTED", i>>}
    /\ UNCHANGED <<mandates, plans, events, receipts, handler, expired>>

LegKey(p, merchant) == <<p, merchant>>
LegTotals(legs) == [k \in 1 .. Len(legs) |-> legs[k].total]

\* Mutants: two legs may go to one merchant; a plan id may be taken over.
PlanAdmittedRepeatedMerchant(i, p, legs, total) ==
    /\ plans[p].intent = NoIntent
    /\ ~PlanExistsFor(i)
    /\ Registered(i).consumed < MaxTransactions[i]
    /\ \A k \in 1 .. Len(legs) :
         legs[k].inPolicy /\ legs[k].merchant \in AllowedMerchants[i]
    /\ SumsTo(LegTotals(legs), Len(legs), total)

PlanAdmittedAnyOwner(i, p, legs, total) ==
    /\ ~PlanExistsFor(i)
    /\ Registered(i).consumed < MaxTransactions[i]
    /\ \A k \in 1 .. Len(legs) :
         legs[k].inPolicy /\ legs[k].merchant \in AllowedMerchants[i]
    /\ \A k, l \in 1 .. Len(legs) : k # l => legs[l].merchant # legs[k].merchant
    /\ SumsTo(LegTotals(legs), Len(legs), total)

\* The checks of authorize_plan(), all made before anything is written. total
\* is the sum over the legs.
PlanAdmitted(i, p, legs, total) ==
    /\ plans[p].intent = NoIntent
    /\ ~PlanExistsFor(i)
    /\ Registered(i).consumed < MaxTransactions[i]
    /\ \A k \in 1 .. Len(legs) :
         /\ legs[k].inPolicy
         /\ legs[k].merchant \in AllowedMerchants[i]
         /\ \A l \in 1 .. k - 1 : legs[l].merchant # legs[k].merchant
         /\ ~KeyUsed(i, LegKey(p, legs[k].merchant))
    /\ SumsTo(LegTotals(legs), Len(legs), total)

\* verify_intent() raises, and nothing is written, for an exhausted intent.
MayRequestPlan(i) == i \notin expired /\ Registered(i).status = "ACTIVE"

\* authorize_plan(): the plan, one mandate per leg and the charge in one commit.
AuthorizePlan(i, p, legs, total) ==
    LET first == Len(mandates) + 1
        last  == Len(mandates) + Len(legs)
        NewLeg(leg) == NewMandate(i, p, leg.merchant, LegKey(p, leg.merchant), leg.total)
    IN
    /\ last <= MaxMandates
    /\ MayRequestPlan(i)
    /\ PlanAdmitted(i, p, legs, total)
    /\ total <= Available(Registered(i), i)
    /\ registry' = [registry EXCEPT ![i] = Charged(Registered(i), i, total)]
    /\ plans' = [plans EXCEPT ![p] = [intent |-> i, status |-> "CONFIRMED"]]
    /\ mandates' = mandates \o [k \in 1 .. Len(legs) |-> NewLeg(legs[k])]
    /\ audit' = audit \cup {<<"INTENT_ISSUED", i>>} \cup
                {<<"MANDATE_CREATED", m>> : m \in first .. last}
    /\ UNCHANGED <<events, receipts, handler, expired>>

\* _reject_plan_policy() rolls back first, so a registration made by the same
\* call is lost. The same plan asked again by its intent is answered from the
\* tables, without a write.
AuthorizePlanRejected(i, p, legs) ==
    /\ MayRequestPlan(i)
    /\ plans[p].intent # i
    /\ ~ \E total \in 0 .. Available(Registered(i), i) : PlanAdmitted(i, p, legs, total)
    /\ audit' = audit \cup {<<"POLICY_REJECTED", i>>}
    /\ UNCHANGED <<registry, mandates, plans, events, receipts, handler, expired>>

-----------------------------------------------------------------------------
(***************************************************************************)
(* Order creation of a standalone mandate: the endpoint POST               *)
(* /mandates/authorize (app/api/mandates.py) commits ORDER_CREATING, calls *)
(* the gateway, then commits ORDER_CREATED; the agent endpoints            *)
(* (app/api/agent_routes.py) make both moves in one commit, with a         *)
(* gateway client of their own, and record no ORDER_CREATED entry. What    *)
(* the gateway answers is left open here; OrderFlow is about that.         *)
(***************************************************************************)
SetStatus(m, status) == [mandates EXCEPT ![m].status = status]

BeginOrder(m) ==
    /\ handler[m] = "reserved"
    /\ TransitionLegal(mandates[m].status, "ORDER_CREATING")
    /\ mandates' = SetStatus(m, "ORDER_CREATING")
    /\ handler' = [handler EXCEPT ![m] = "creating"]
    /\ UNCHANGED <<registry, plans, events, audit, receipts, expired>>

CallGateway(m) ==
    /\ handler[m] = "creating"
    /\ handler' = [handler EXCEPT ![m] = "called"]
    /\ UNCHANGED <<registry, mandates, plans, events, audit, receipts, expired>>

FinishOrder(m) ==
    /\ handler[m] = "called"
    /\ TransitionLegal(mandates[m].status, "ORDER_CREATED")
    /\ mandates' = SetStatus(m, "ORDER_CREATED")
    /\ audit' = audit \cup {<<"ORDER_CREATED", m>>}
    /\ handler' = [handler EXCEPT ![m] = "none"]
    /\ UNCHANGED <<registry, plans, events, receipts, expired>>

AgentOrder(m) ==
    /\ handler[m] = "agent"
    /\ TransitionLegal(mandates[m].status, "ORDER_CREATING")
    /\ mandates' = SetStatus(m, "ORDER_CREATED")
    /\ handler' = [handler EXCEPT ![m] = "none"]
    /\ UNCHANGED <<registry, plans, events, audit, receipts, expired>>

\* An exception ends the request of mandate m; what it committed stays.
HandlerFails(m) ==
    /\ handler[m] # "none"
    /\ handler' = [handler EXCEPT ![m] = "none"]
    /\ UNCHANGED <<registry, mandates, plans, events, audit, receipts, expired>>

\* The process stops; every request in progress is gone.
Crash ==
    /\ \E m \in Rows : handler[m] # "none"
    /\ handler' = [m \in 1 .. MaxMandates |-> "none"]
    /\ UNCHANGED <<registry, mandates, plans, events, audit, receipts, expired>>

\* reconcile_stuck_orders() as lifespan() runs it before the first request:
\* its gateway client is a new mock, which knows no order, so every mandate
\* found in ORDER_CREATING goes back to RESERVED.
StartupReconcile ==
    /\ \A m \in Rows : handler[m] = "none"
    /\ mandates' = [m \in Rows |->
                      IF mandates[m].status = "ORDER_CREATING"
                      THEN [mandates[m] EXCEPT !.status = "RESERVED"]
                      ELSE mandates[m]]
    /\ UNCHANGED <<registry, plans, events, audit, receipts, handler, expired>>

\* POST /mandate/reconcile/{mandate_id}, at any time, also while the request
\* that creates the order is at work.
ReconcileFound(m) ==
    /\ TransitionLegal(mandates[m].status, "ORDER_CREATED")
    /\ mandates' = SetStatus(m, "ORDER_CREATED")
    /\ audit' = audit \cup {<<"ORDER_CREATED", m>>}
    /\ UNCHANGED <<registry, plans, events, receipts, handler, expired>>

\* A mutant: the status is assigned, not moved with transition().
ReconcileUnchecked(m) ==
    /\ mandates' = SetStatus(m, "RESERVED")
    /\ UNCHANGED <<registry, plans, events, audit, receipts, handler, expired>>

ReconcileNotFound(m) ==
    /\ TransitionLegal(mandates[m].status, "RESERVED")
    /\ mandates' = SetStatus(m, "RESERVED")
    /\ UNCHANGED <<registry, plans, events, audit, receipts, handler, expired>>

-----------------------------------------------------------------------------
(***************************************************************************)
(* Plan execution (app/hitl_execution.py).                                 *)
(***************************************************************************)
\* A mutant: the plan takes over a mandate's status.
DerivedStatusOfMandates(rows, p) ==
    LET legs == {m \in DOMAIN rows : rows[m].plan = p} IN
    IF \E m \in legs : \A n \in legs : rows[n].status = rows[m].status
    THEN rows[CHOOSE m \in legs : TRUE].status
    ELSE "IN_PROGRESS"

\* A mutant: a leg that failed counts as dealt with, so one failure fails the plan.
DerivedStatusFailsEarly(rows, p) ==
    LET legs == {m \in DOMAIN rows : rows[m].plan = p}
        captured == {m \in legs : rows[m].status = "PAYMENT_CAPTURED"}
        failed == {m \in legs : rows[m].status \in Unsuccessful}
    IN  CASE captured = legs -> "COMPLETE"
          [] captured # legs /\ captured # {} -> "PARTIAL_COMPLETE"
          [] captured = {} /\ failed # {} -> "FAILED"
          [] captured = {} /\ failed = {}
               /\ \E m \in legs : rows[m].status \in InFlight -> "IN_PROGRESS"
          [] OTHER -> "CONFIRMED"

\* sync_purchase_plan_status() over the rows it finds.
DerivedStatus(rows, p) ==
    LET legs == {m \in DOMAIN rows : rows[m].plan = p}
        captured == {m \in legs : rows[m].status = "PAYMENT_CAPTURED"}
        failed == {m \in legs : rows[m].status \in Unsuccessful}
    IN  CASE captured = legs -> "COMPLETE"
          [] captured # legs /\ captured # {} -> "PARTIAL_COMPLETE"
          [] captured = {} /\ failed = legs -> "FAILED"
          [] captured = {} /\ failed # legs
               /\ \E m \in legs : rows[m].status \in InFlight -> "IN_PROGRESS"
          [] OTHER -> "CONFIRMED"

\* The statuses a webhook's sync may come to. It has the intent's lock; a leg's
\* order is committed without that, so it may still see that leg as RESERVED.
SeenStatus(rows, p) ==
    LET derived == DerivedStatus(rows, p)
    IN  IF derived = "IN_PROGRESS" THEN {"IN_PROGRESS", "CONFIRMED"} ELSE {derived}

WithStatus(p, status) ==
    [q \in Plans |-> IF q = p THEN [plans[q] EXCEPT !.status = status] ELSE plans[q]]

\* A status that the session's object of the plan already has is not written,
\* whatever a late synchronisation has stored since. COMPLETE and FAILED it cannot
\* have before the last outcome.
Stored(p, status) ==
    {WithStatus(p, status)} \cup IF status \in {"COMPLETE", "FAILED"} THEN {} ELSE {plans}

\* A mandate without a plan leaves the plans alone.
Synced(rows, p) == UNION {Stored(p, status) : status \in SeenStatus(rows, p)}

\* The statuses a leg has had since it was authorized: its order is in the ledger.
HadStatus(m) ==
    {"RESERVED", mandates[m].status} \cup
    {status \in {"ORDER_CREATED"} : <<"ORDER_CREATED", m>> \in audit}

\* What a plan's session holds of the legs it has not just changed: each as it
\* stood when the session last loaded it, any time before. No lock makes it load
\* them again.
LoadedEarlier(rows, p, changed) ==
    LET others == {m \in DOMAIN rows : rows[m].plan = p} \ changed
        Loaded(had) == [m \in DOMAIN rows |-> IF m \in others
                                              THEN [rows[m] EXCEPT !.status = had[m]]
                                              ELSE rows[m]]
    IN  {Loaded(had) : had \in {f \in [others -> UNION {HadStatus(m) : m \in others}] :
                                   \A m \in others : f[m] \in HadStatus(m)}}

\* The plans after a sync over such objects, which may write an older status
\* over a newer one.
LateSynced(rows, p, changed) ==
    UNION {Stored(p, DerivedStatus(seen, p)) : seen \in LoadedEarlier(rows, p, changed)}

\* A mutant: a leg that has an order is ordered again.
ExecuteLegAgain(m) ==
    /\ mandates[m].plan # NoPlan
    /\ mandates[m].status \in {"RESERVED", "ORDER_CREATING", "ORDER_CREATED"}
    /\ mandates[m].intent \notin expired
    /\ mandates' = SetStatus(m, "ORDER_CREATED")
    /\ audit' = audit \cup {<<"ORDER_CREATED", m>>}
    /\ UNCHANGED <<registry, plans, events, receipts, handler, expired>>

\* execute_plan_leg() when the intent is still valid, revalidation accepts the
\* basket and the gateway answers: both moves and the ledger entry in one
\* commit. The plan's status is not recomputed. Every other way it changes
\* something is ReleaseLeg; a quote that needs re-authorization changes nothing.
ExecuteLeg(m) ==
    /\ mandates[m].plan # NoPlan
    /\ mandates[m].status \in {"RESERVED", "ORDER_CREATING"}
    /\ mandates[m].intent \notin expired
    /\ mandates' = SetStatus(m, "ORDER_CREATED")
    /\ audit' = audit \cup {<<"ORDER_CREATED", m>>}
    /\ UNCHANGED <<registry, plans, events, receipts, handler, expired>>


\* release_failed_leg(): on a human's rejection of the leg, and from
\* execute_plan_leg() when the intent expired, the basket cannot be had as
\* authorized or the gateway call failed. It refunds what the mandate still
\* holds; a mandate already failed or expired keeps its status.
ReleasedRow(row) ==
    [row EXCEPT !.status = IF row.status \in HoldsBudget THEN "RELEASED" ELSE row.status,
                !.reserved = 0]

ReleaseLeg(m) ==
    LET row == mandates[m]
        rows == [mandates EXCEPT ![m] = ReleasedRow(row)]
    IN
    /\ row.plan # NoPlan
    /\ row.status \notin Terminal
    /\ mandates' = rows
    /\ registry' = [registry EXCEPT ![row.intent] = Refunded(@, row.reserved)]
    /\ plans' \in LateSynced(rows, row.plan, {m})
    /\ audit' = audit \cup {<<"POLICY_REJECTED", m>>}
    /\ UNCHANGED <<events, receipts, handler, expired>>

\* The last commit of execute_purchase_plan() and of a journey, which takes no lock:
\* the legs were read before, one by one, and whatever committed since is
\* overwritten.
SyncPlan(p) ==
    /\ plans[p].intent # NoIntent
    /\ plans' \in LateSynced(mandates, p, {})
    /\ UNCHANGED <<registry, mandates, events, audit, receipts, handler, expired>>

-----------------------------------------------------------------------------
(***************************************************************************)
(* Webhooks (app/webhooks.py). The gateway delivers an event any number of *)
(* times and in any order. A mandate is found by its order id, which it    *)
(* has from ORDER_CREATED on.                                              *)
(***************************************************************************)
EventRow == [id : EventIds, type : EventType, mandate : 0 .. MaxMandates]
SeenEvent(e, type) == \E event \in events : event.id = e /\ event.type = type

\* Mutants: the reservation of a settled mandate stays.
CapturedStillReserved(row, amount) ==
    [row EXCEPT !.status = "PAYMENT_CAPTURED", !.captured = amount]
FailedStillReserved(row) == [row EXCEPT !.status = "PAYMENT_FAILED"]

CapturedRow(row, amount) ==
    [row EXCEPT !.status = "PAYMENT_CAPTURED", !.captured = amount, !.reserved = 0]
FailedRow(row) == [row EXCEPT !.status = "PAYMENT_FAILED", !.reserved = 0]

\* Mutants: the mandate's status is not looked at; the reservation must be more
\* than enough.
CaptureAdmittedAnyStatus(row, amount) ==
    amount = row.amount /\ registry[row.intent].reserved >= amount
CaptureAdmittedStrictly(row, amount) ==
    /\ amount = row.amount
    /\ row.status \in AwaitsPayment
    /\ registry[row.intent].reserved > amount

\* Checks 5 to 9 of process_payment_webhook().
CaptureAdmitted(row, amount) ==
    /\ amount = row.amount
    /\ row.status \in AwaitsPayment
    /\ registry[row.intent].reserved >= amount

CaptureWebhook(e, m, amount) ==
    LET row == mandates[m]
        rows == [mandates EXCEPT ![m] = CapturedRow(row, amount)]
    IN
    /\ ~SeenEvent(e, "payment.captured")
    /\ CaptureAdmitted(row, amount)
    /\ mandates' = rows
    /\ registry' = [registry EXCEPT ![row.intent].reserved = @ - amount,
                                    ![row.intent].captured = @ + amount]
    /\ plans' \in Synced(rows, row.plan)
    /\ events' = events \cup {[id |-> e, type |-> "payment.captured", mandate |-> m]}
    /\ receipts' = [receipts EXCEPT ![m] = @ + 1]
    /\ audit' = audit \cup {<<"PAYMENT_CAPTURED", m>>}
    /\ UNCHANGED <<handler, expired>>

FailWebhook(e, m) ==
    LET row == mandates[m]
        rows == [mandates EXCEPT ![m] = FailedRow(row)]
    IN
    /\ ~SeenEvent(e, "payment.failed")
    /\ CanTransition(row.status, "PAYMENT_FAILED")
    /\ mandates' = rows
    /\ registry' = [registry EXCEPT ![row.intent] = Refunded(@, row.reserved)]
    /\ plans' \in Synced(rows, row.plan)
    /\ events' = events \cup {[id |-> e, type |-> "payment.failed", mandate |-> m]}
    /\ UNCHANGED <<audit, receipts, handler, expired>>

\* An event of any other type is remembered and has no financial effect.
OtherWebhook(e) ==
    /\ ~SeenEvent(e, "other")
    /\ events' = events \cup {[id |-> e, type |-> "other", mandate |-> 0]}
    /\ UNCHANGED <<registry, mandates, plans, audit, receipts, handler, expired>>

\* expires_at passes. No worker reacts; the handlers look at the clock.
ExpireIntent(i) ==
    /\ expired' = expired \cup {i}
    /\ UNCHANGED <<registry, mandates, plans, events, audit, receipts, handler>>

-----------------------------------------------------------------------------
Legs == UNION {[1 .. n -> [merchant : Merchants, total : CartTotals, inPolicy : BOOLEAN]] :
                 n \in 1 .. MaxLegs}

Authorization ==
    \E i \in Intents :
        \/ RegisterIntent(i)
        \/ \E merchant \in Merchants, key \in Keys, total \in CartTotals, ok \in BOOLEAN :
              \/ \E caller \in {"reserved", "agent"} :
                    AuthorizeMandate(i, merchant, key, total, ok, caller)
              \/ AuthorizeMandateRejected(i, merchant, key, total, ok)
        \/ \E p \in Plans, legs \in Legs :
              \/ \E total \in 1 .. SpendCap[i] : AuthorizePlan(i, p, legs, total)
              \/ AuthorizePlanRejected(i, p, legs)

OrderHandling ==
    \/ \E m \in Rows :
          \/ BeginOrder(m) \/ CallGateway(m) \/ FinishOrder(m)
          \/ AgentOrder(m) \/ HandlerFails(m)
          \/ ReconcileFound(m) \/ ReconcileNotFound(m)
    \/ Crash
    \/ StartupReconcile

PlanExecution ==
    \/ \E m \in Rows : ExecuteLeg(m) \/ ReleaseLeg(m)
    \/ \E p \in Plans : SyncPlan(p)

Webhooks ==
    \E e \in EventIds :
        \/ \E m \in Rows : \/ \E amount \in CartTotals : CaptureWebhook(e, m, amount)
                           \/ FailWebhook(e, m)
        \/ OtherWebhook(e)

Next ==
    \/ Authorization
    \/ OrderHandling
    \/ PlanExecution
    \/ Webhooks
    \/ \E i \in Intents : ExpireIntent(i)

Spec == Init /\ [][Next]_vars

-----------------------------------------------------------------------------
(***************************************************************************)
(* Properties.                                                             *)
(***************************************************************************)
\* Every variable keeps its shape; a handler is only ever about an existing row.
TypeOK ==
    /\ registry \in [Intents -> IntentRow]
    /\ mandates \in Seq(MandateRow) /\ Len(mandates) <= MaxMandates
    /\ plans \in [Plans -> PlanRow]
    /\ events \subseteq EventRow
    /\ audit \subseteq
         ({"INTENT_ISSUED", "POLICY_REJECTED"} \X Intents) \cup
         ({"MANDATE_CREATED", "ORDER_CREATED", "PAYMENT_CAPTURED", "POLICY_REJECTED"}
             \X (1 .. MaxMandates))
    /\ receipts \in [1 .. MaxMandates -> Nat]
    /\ handler \in [1 .. MaxMandates -> HandlerPosition]
    /\ expired \subseteq Intents

\* Whatever mixture of standalone and plan authorizations, failures, releases
\* and captures an intent goes through, the money held and the money taken
\* never exceed the cap its user signed (policy.py, webhooks.py, hitl_execution.py).
SpendCapRespected ==
    \A i \in Intents : registry[i].reserved + registry[i].captured <= SpendCap[i]

AmountOf(i, m) == IF mandates[m].intent = i THEN mandates[m].reserved ELSE 0
TakenOf(i, m) == IF mandates[m].intent = i THEN mandates[m].captured ELSE 0

\* The two totals in an intent's row, changed by += and -= in five handlers,
\* are at every commit the sums over the mandates of the intent.
RegistryMatchesMandates ==
    \A i \in Intents :
        /\ SumsTo([m \in Rows |-> AmountOf(i, m)], Len(mandates), registry[i].reserved)
        /\ SumsTo([m \in Rows |-> TakenOf(i, m)], Len(mandates), registry[i].captured)

\* What a mandate holds follows from its status: the whole amount until an
\* outcome is known, nothing reserved afterwards, and captured only if paid.
MandateAccounting ==
    \A m \in Rows :
        LET row == mandates[m] IN
        /\ row.status \in HoldsBudget => row.reserved = row.amount /\ row.captured = 0
        /\ row.status = "PAYMENT_CAPTURED" => row.reserved = 0 /\ row.captured = row.amount
        /\ row.status \in Unsuccessful => row.reserved = 0 /\ row.captured = 0

\* The reservation check of the capture webhook and the max(0, ...) of the two
\* refunds never come into effect: a mandate that may still be paid is backed
\* by its full amount in the intent's row.
OpenMandatesAreBacked ==
    \A m \in Rows :
        mandates[m].status \in HoldsBudget =>
            registry[mandates[m].intent].reserved >= mandates[m].amount

\* transactions_consumed counts the standalone mandates of the intent and its
\* plan as one more, never exceeds max_transactions, and EXHAUSTED is set
\* exactly when it is reached.
TransactionAllowance ==
    \A i \in Intents :
        LET row == registry[i]
            standalone == {m \in Rows : mandates[m].intent = i /\ mandates[m].plan = NoPlan}
        IN
        /\ row.consumed = Cardinality(standalone) + IF PlanExistsFor(i) THEN 1 ELSE 0
        /\ row.consumed <= MaxTransactions[i]
        /\ row.status = "EXHAUSTED" <=> row.consumed = MaxTransactions[i]

\* An intent has at most one plan; the legs of a plan belong to the plan's
\* intent, one per merchant, all of them merchants the user allowed; no two
\* mandates of an intent share an idempotency key.
PlansAreCoherent ==
    /\ \A p, q \in Plans :
          plans[p].intent = plans[q].intent /\ plans[p].intent # NoIntent => p = q
    /\ \A m \in Rows :
          /\ mandates[m].merchant \in AllowedMerchants[mandates[m].intent]
          /\ mandates[m].plan # NoPlan => plans[mandates[m].plan].intent = mandates[m].intent
    /\ \A m, n \in Rows :
          m # n /\ mandates[m].intent = mandates[n].intent =>
              /\ mandates[m].key # mandates[n].key
              /\ mandates[m].plan = NoPlan \/ mandates[m].plan # mandates[n].plan
                   \/ mandates[m].merchant # mandates[n].merchant

\* The last synchronisation of a plan and the releases of its legs write a status
\* derived from objects that webhooks may have overtaken. What is stored may so
\* lag behind, for good, but never claims what has not happened: COMPLETE only if
\* every leg is paid, PARTIAL_COMPLETE only if money was taken, FAILED only if no
\* leg can be paid any more, IN_PROGRESS only if an order was placed
\* (sync_purchase_plan_status()).
PlanStatusNeverAhead ==
    \A p \in Plans :
        LET legs == {m \in Rows : mandates[m].plan = p}
            status == plans[p].status
        IN
        plans[p].intent # NoIntent =>
            /\ status = "COMPLETE" => \A m \in legs : mandates[m].status = "PAYMENT_CAPTURED"
            /\ status = "PARTIAL_COMPLETE" => \E m \in legs : mandates[m].status = "PAYMENT_CAPTURED"
            /\ status = "FAILED" => \A m \in legs : mandates[m].status \in Unsuccessful
            /\ status = "IN_PROGRESS" => \E m \in legs : <<"ORDER_CREATED", m>> \in audit

\* However often and in whatever order the gateway reports, a captured mandate
\* has exactly one receipt and one recorded capture event, no other mandate has
\* any, and a recorded failure belongs to a mandate that ended unpaid.
OneReceiptPerCapture ==
    /\ \A m \in Rows :
          LET captures == {event \in events :
                             event.type = "payment.captured" /\ event.mandate = m}
              times == IF mandates[m].status = "PAYMENT_CAPTURED" THEN 1 ELSE 0
          IN  receipts[m] = times /\ Cardinality(captures) = times
    /\ \A event \in events :
          event.type = "payment.failed" => mandates[event.mandate].status \in Unsuccessful

\* The audit ledger tells the same story as the tables: registered intents,
\* created mandates, captures, released legs, and no order of a plan leg that
\* it does not know of.
AuditExplainsTables ==
    /\ \A i \in Intents : registry[i].status # "ABSENT" <=> <<"INTENT_ISSUED", i>> \in audit
    /\ \A m \in 1 .. MaxMandates : m \in Rows <=> <<"MANDATE_CREATED", m>> \in audit
    /\ \A m \in Rows :
          /\ mandates[m].status = "PAYMENT_CAPTURED" <=> <<"PAYMENT_CAPTURED", m>> \in audit
          /\ mandates[m].status = "RELEASED" => <<"POLICY_REJECTED", m>> \in audit
          /\ mandates[m].status = "ORDER_CREATED" /\ mandates[m].plan # NoPlan
                => <<"ORDER_CREATED", m>> \in audit

\* What an authorization fixes.
Contract(row) == <<row.intent, row.plan, row.merchant, row.key, row.amount>>

\* A commit moves a mandate along the table of mandate_fsm.py, at most two
\* moves at once, so CAPTURED and RELEASED are final; it never rewrites what was
\* authorized, and money once captured stays captured.
OutcomesAreFinal ==
    [][/\ \A m \in Rows :
            /\ m \in Rows'
            /\ WithinTwoMoves(mandates[m].status, mandates'[m].status)
            /\ Contract(mandates[m])' = Contract(mandates[m])
            /\ mandates'[m].captured >= mandates[m].captured
       /\ \A i \in Intents : registry'[i].captured >= registry[i].captured]_vars

HoldState(row) ==
    CASE row.status \in HoldsBudget -> "open"
      [] row.status = "PAYMENT_CAPTURED" -> "settled"
      [] OTHER -> "returned"

\* The mandates as holds on their intents' budgets.
Holds ==
    [m \in Rows |-> [owner  |-> mandates[m].intent,
                     amount |-> mandates[m].amount,
                     state  |-> HoldState(mandates[m])]]

\* Seen from outside, the mandates are holds on their intents' budgets: whatever
\* the registry rows, orders, plans and webhooks do, holds are opened only within
\* the cap, counting everything open and settled, and each ends once.
Account == INSTANCE BudgetAccount WITH Owners <- Intents, Limit <- SpendCap, holds <- Holds

BudgetIsKept == Account!Spec

=============================================================================
