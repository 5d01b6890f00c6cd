# MandateMesh in TLA+

A verification development for the payment-policy rail of MandateMesh: TLA+
modules of the program under `src/`, TLC configurations that check them on small
instances, and TLAPS proofs of what matters most for every size of instance.

Money in this program is guarded by rows of a database. A user signs an *intent*
(a cap, a number of transactions, allowed merchants); carts signed by merchants
are authorized against it; each authorized cart is a *mandate* that reserves part
of the cap until a webhook of the payment gateway captures or fails it, or a
human rejects it. The question the models ask is whether every interleaving of
requests, webhooks, crashes and recoveries keeps those rows consistent with each
other, and whether the quotes an agent buys from are the right ones.

## 1. Inventory

| Component | Source | State | Operations | Correct when |
|---|---|---|---|---|
| Intent registry and policy engine | `app/policy.py`, `app/models.py` | `intent_registry`, `mandate_records`, `purchase_plans` | `ensure_intent_registered`, `verify_intent`, `authorize_mandate`, `authorize_plan` | reserved + captured never exceeds the cap; consumption never exceeds the allowance; the totals are the sums over the mandates; one plan per intent, one mandate per key |
| Mandate state machine | `app/mandate_fsm.py` | `status` of a mandate | `can_transition`, `transition` | outcomes are final and a commit moves only along the table |
| Plan execution (HITL) | `app/hitl_execution.py` | plan status, leg status | `execute_purchase_plan`, `execute_plan_leg`, `release_failed_leg`, `sync_purchase_plan_status`, `revalidate_or_requote_leg` | one order per leg; captured legs are left alone; a failed leg gives back exactly its own money; the plan status never claims what has not happened |
| Webhook processor | `app/webhooks.py` | `webhook_events`, receipts | `process_payment_webhook` | effects happen once per payment whatever is repeated or reordered |
| Order reconciliation | `app/reconcile.py`, `app/main.py` | none of its own | `reconcile_stuck_orders`, on demand and at start-up | never undoes what another handler did |
| Gateway client | `app/razorpay_client.py` | orders at the gateway, or of the mock in memory | `create_order`, `reconcile_order` | no order the gateway has is lost for good unless its mandate is over |
| Mandate and agent endpoints | `app/api/mandates.py`, `app/api/agent_routes.py` | none of their own | authorize, reconcile, deliberate, escalate-and-pay | a reservation survives a crash and is neither leaked nor taken twice |
| Audit ledger | `app/ledger.py` | `audit_ledger`, a process lock | `append_entry`, `verify_chain` | committed entries are one linear hash chain |
| Quote router | `app/quote_router.py` | none | `verify_and_classify_quotes`, `route`, `revalidate_winner`, `route_with_fallback` | the cheapest quote that lasted wins; fallback ends |
| Basket planner | `app/basket_planner.py` | none | `plan_mixed_basket`, `evaluate_basket_authorization` | feasible exactly when possible, never dearer than an alternative |
| Catalog, cart signing | `app/merchant.py` | `catalog_items` | `sign_cart`, `seed_catalog` | totals come from the catalog |
| Buyer agent | `app/agent.py` | the run's state | `collect_merchant_quotes`, `orchestrate`, basket evaluation | asks for approval only when the budget is the obstacle |
| Credentials and keys | `app/crypto.py`, `app/key_provider.py`, `app/merchant_keys.py`, `app/api/deps.py`, `app/main.py` | files under `keys/`, pairs in memory | make missing pairs at start-up, find a half, sign, verify | a credential is accepted whatever restarts; what is lost is made up for by the next start |
| Demo journeys | `app/api/demo_routes.py` | marks on rows of `catalog_items` | run a journey, simulate a capture, adversarial scenarios | a journey leaves nothing in flight that it reports, and the catalog as it was |
| Plain reads, front end, migrations | `app/api/*`, `demo.py`, `frontend/`, `alembic/` | none | scripts over the operations above | not modelled |

How they interact. The endpoints call the policy engine, the state machine and
the gateway inside one SQLAlchemy session per request; sessions share nothing but
the database and two locks of the ledger. Webhooks arrive in sessions of their
own, at any time and in any order. Execution of a plan runs in the session of
the human's request. Every handler appends to the audit ledger inside its own
transaction. The agent calls the router with quotes that the merchants' side
priced from the catalog some time ago.

What is hard here:

* *Interleaving.* Several commits per request (`app/api/mandates.py` has three);
  unlocked reads before locking ones; `SELECT ... FOR UPDATE` that returns an
  object the session already holds without refreshing it (no query asks for
  `populate_existing`); an `UPDATE` that writes only changed attributes.
* *Failure.* A process that dies between RESERVED, ORDER_CREATING, the gateway's
  answer and ORDER_CREATED; start-up recovery that asks a gateway which has
  forgotten everything; a rollback in the middle of a leg.
* *Ordering.* Duplicate, late and contradictory webhooks; a status derived from
  objects that are not flushed (`autoflush=False`).
* *Locks.* An early return of `execute_plan_leg()` ends no transaction, so a leg stays
  locked while its session goes on with others. Webhooks lock mandate then intent, a
  release locks the intent and then
  updates the mandate; the ledger on SQLite combines a process lock with the
  database's write lock.
* *The gateway.* A call that times out may have had its effect; the client answers
  with an invented order instead of an error; recovery may meet the request it
  recovers from.
* *Keys.* The halves of a pair are written and found one at a time, by processes
  that stop anywhere.
* *Time.* Stock, price and age of a quote change between the steps that look at
  them.

`PROJECT.json` lists 40 hazards by line, with the properties that cover each; three
have none, and say why.

## 2. Modules

| Module | Models | Built on |
|---|---|---|
| `MandateFSM` | the transition table and the sets of statuses the handlers test | - |
| `Sums` | a sum, stated by the running totals of a loop | - |
| `BudgetAccount` | abstract: holds against a limit, each settled or returned once | `Sums` |
| `PaymentRail` | every handler that writes the money tables, one action per database commit; implements `BudgetAccount` | `MandateFSM`, `Sums` |
| `OrderFlow` | the gateway's orders, what is recorded of them, payments; recovery beside requests | `PaymentRail` |
| `AgentRequests` | deliveries of requests to the agent beside the other clients of the rail | `PaymentRail` |
| `DemoJourneys` | journeys and simulated captures beside the agent and the other clients | `AgentRequests` |
| `RowLocks` | the same handlers taken apart into the reads, lock waits and updates of their sessions | `PaymentRail` |
| `AppendOnlyLog` | abstract: a log to which an owner adds one chained block, once | - |
| `AuditLedger` | `append_entry` in concurrent transactions, both dialects; implements `AppendOnlyLog` on PostgreSQL | - |
| `KeyFiles` | the key pairs on disk and in memory, start-up, signing and verifying | - |
| `Catalog` | `catalog_items`, signed carts, what a merchant may quote | - |
| `QuoteRouter` | gates, classification and routing | `Catalog` |
| `BasketPlanner` | candidates, allocation, legs, evaluation | `QuoteRouter` |
| `Deliberation` | a request to the agent, step by step, while the catalog and the clock move | `BasketPlanner` |
| `LegRevalidation` | the legs of a planned basket, executed later and quoted again if need be | `Deliberation` |
| `MC...` | the constants of the instances | |
| `PaymentRail_proofs` | the invariants of the tables, proved | `PaymentRail` |
| `PaymentRailBudget_proofs` | the sums, and the refinement of `BudgetAccount`, proved | `PaymentRail_proofs` |
| `OrderFlow_proofs` | theorems about orders and recovery | `OrderFlow`, `PaymentRail_proofs` |
| `DemoJourneys_proofs` | theorems about deliveries and journeys | `DemoJourneys`, `PaymentRail_proofs` |
| `RowLocks_proofs` | locks, and the refinement of `PaymentRail`, proved | `RowLocks`, `PaymentRailBudget_proofs` |
| `AuditLedger_proofs` | theorems about the ledger | `AuditLedger` |
| `KeyFiles_proofs` | theorems about the keys | `KeyFiles` |
| `LegRevalidation_proofs` | theorems about routing, planning and re-quotation | `LegRevalidation` |

### PaymentRail

The state is the tables. `registry`, `mandates`, `plans` and `events` are
`intent_registry`, `mandate_records`, `purchase_plans` and `webhook_events`;
`audit` keeps which facts the ledger knows (their chaining is `AuditLedger`'s
business); `receipts` counts issued receipts; `handler` says where the request
that authorized a mandate stands between its commits; `expired` holds the intents
whose `expires_at` has passed. A mandate is its row number. A cart is its merchant,
its total and whether it is within policy (category list and validity).

| Action | Code |
|---|---|
| `RegisterIntent` | `verify_intent()` and commit in the agent endpoints |
| `AuthorizeMandate`, `AuthorizeMandateRejected` | `authorize_mandate()` to its commit, or `_reject_policy()` |
| `AuthorizePlan`, `AuthorizePlanRejected` | `authorize_plan()`; the rejection rolls back first and so loses a registration |
| `BeginOrder`, `CallGateway`, `FinishOrder` | the three steps of `authorize_and_create_mandate()` |
| `AgentOrder` | both transitions in one commit in `agent_routes.py`, without an ORDER_CREATED entry |
| `HandlerFails`, `Crash` | an exception in a request; the end of the process |
| `StartupReconcile` | `lifespan()`: every ORDER_CREATING goes back to RESERVED, because the gateway asked is a new, empty mock |
| `ReconcileFound`, `ReconcileNotFound` | `reconcile_stuck_orders()` and the reconcile endpoint on demand; whether an order is found is left open here and is `OrderFlow`'s business |
| `ExecuteLeg`, `ReleaseLeg`, `SyncPlan` | `execute_plan_leg()`, `release_failed_leg()`, the last lines of `execute_purchase_plan()` |
| `CaptureWebhook`, `FailWebhook`, `OtherWebhook` | the branches of `process_payment_webhook()`, with deduplication, admission and plan sync |
| `ExpireIntent` | time |

A replayed webhook, a repeated plan request and a refused transition write
nothing and are no step. The plan status is nondeterministic where the code is.
A webhook reads its plan's legs under the intent's lock, and only the commit of an
order goes without that, so it may miss orders (`Synced`: IN_PROGRESS against
CONFIRMED). `release_failed_leg()` and the last synchronisation of a plan or a journey
(`hitl_execution.py:682`, `demo_routes.py:684`) use legs that their session loaded
earlier, any of which may have been ordered, captured, failed or released since
(`LateSynced`: each leg as it once was), so that an older status overwrites a newer
one. A status that the session's own plan object has is not written at all
(`Stored`). What stays true is `PlanStatusNeverAhead`: the status may be behind, also for
good, but COMPLETE, PARTIAL_COMPLETE, FAILED and IN_PROGRESS are only stored when
what they say has happened. CONFIRMED says nothing: the code stores it also for a
released leg beside a reserved one, though the docstring (`hitl_execution.py:120`) has
it that all legs remain RESERVED.

`PaymentRail` is the specification the locks are meant to implement: each commit
is atomic. `RowLocks` is the implementation. What `PaymentRail` in turn promises a
user is `BudgetAccount`: a sequence of holds in an owner's name, opened one or
several at once while all open and settled holds of that owner fit the limit, each
ended once, as settled or returned. The refinement maps a mandate to the hold of
its intent and amount; a captured mandate is settled; failed, released and expired
ones are returned (`HoldState`). The amounts in the registry do not occur in the
abstract account, so `BudgetIsKept` says that the program's sums of `+=` and `-=`
admit exactly what the mandates themselves admit.

### OrderFlow

`PaymentRail` with a live gateway. `gateway` is the set of mandates whose receipt
key the gateway has an order for; `recorded` is `razorpay_order_id`: none, the
gateway's, or invented by the client. `CreateOrder` is `create_order()`, whose answer
is invented when the call fails or times out, with or without effect. `object` is
the mandate as the request holds it across its call: `RecordOrder` checks the
transition on that object and writes the attributes that changed over whatever the
row holds by then. `RequestFails` and `ProcessDies` lose the answer. `OperatorFinds`
and `OperatorFindsNothing` are the two outcomes of recovery with the live client
(`reconcile_order()` answers None for any error); `ProcessStarts` is the recovery at
start-up, whose mock finds nothing. `OrderLeg`, `GiveUpLeg` and `MockAgentOrder` are
the other makers of orders. `Pay`, `PaymentReported` and `AttemptReported` are the
payer and the gateway. `Overlaps` says whether recovery may meet a request that is
still at work: one process whose operator waits for requests to end, or not.

### AgentRequests

`POST /agent/deliberate` mints a credential for every delivery of a request, so
`delivery[i]` is where the delivery that minted intent `i` stands and which request
it serves; intents of other clients have none. `Receive` registers the credential;
`LookUp` is the unlocked query by idempotency key; `AuthorizeDelivered` and
`OrderDelivered` are the two commits of the handler; `ProcessStops` ends them all.
`ReceiveApproval` is `POST /agent/escalate-and-pay`, which mints a credential for the
approved budget and draws a random key: an approval sent twice is two mandates.
What is bought is left open (`Deliberation` says which quote it is). The other clients
ask for plans and execute them (`ClientAuthorizes`, `ClientExecutes`). A plan they are
refused leaves an entry in the ledger and nothing else; that is `PaymentRail`'s.

### DemoJourneys

A journey is one request, served like a delivery: `delivery[i]` says where it stands
(`planning`, `executing`, `capturing`, `syncing`, `answered`), at which of its two legs,
and whether it has `marked` the row of its last leg. Each action is one commit of
`run_multi_leg_journey()`: `BeginJourney`, `PlanJourney`, then for each leg
`ExecuteJourneyLeg` and `CaptureJourneyLeg`, or `FailLastLeg` in the scenario of a partial
failure, then `SyncJourney`. The release of the last leg commits the mark
(`CatalogItem.in_stock = False`) and only the next commit takes it back; `JourneyFails` and
`ProcessStops` may come between. `inStock` is that row, `supply` what the merchant can really
deliver. The journey is the only part of the program that executes legs:
`execute_purchase_plan()` has no caller outside the tests.

### RowLocks

A session is `idle` or holds a job: what it is doing, the objects it has loaded
(`rows` of mandates, `row` of the intent, `status` of the plan) and how far it is.
`LockIntentToAuthorize`, `LockNotifiedMandate`, `LockNotifiedIntent`, `LockLeg`,
`LockIntentToRelease` are the `FOR UPDATE` queries of the five handlers; the
`Commit...` actions write `Written(row, held, changed)`, the attributes the session
changed over whatever the row holds by then, and `UpdatePlan` the plan's status if
it differs from the one held.

`execute_purchase_plan()` is one job from `Approve` to `CommitPlanStatus`: `todo` are the
legs it has not looked at, `ExecuteNext` and `RejectNext` take the next. `Loaded` is the
identity map: what a session holds is not refreshed. A commit or a rollback expires
what it holds (`Expired`) and gives its locks back (`EndTransaction`); `LegDone` without
one, the early returns of `execute_plan_leg()` (`LockLeg` when the leg is not to be
executed, `LegNeedsReauth`), keeps both, so the session goes on to the next leg with the
earlier ones locked. `ReadPlan` and `CommitPlanStatus` are the final synchronisation, in two
steps and without a lock.

`CommitPlanCollides` is the `IntegrityError` of a plan whose id another credential's
request has inserted meanwhile. `AbortDeadlock` is PostgreSQL breaking a cycle of any
length. `orders` counts the gateway's orders. `CommitsAreAtomic == Spec` states that each
step of the sessions is a step of `PaymentRail` or a stutter; the refinement mapping is
the identity on the tables, which `RowLocks` shares with the module it extends.

### AuditLedger

A transaction appends up to `MaxAppends` entries and ends. Each `append_entry()` is
`CallAppend`, a lock, `ReadHead`, `Insert`. On PostgreSQL the advisory lock lasts
to the end of the transaction; on SQLite `_LOCAL_DIALECT_LOCK` lasts for the call
and the database's write lock from the first write to the end. Hashes do not
collide, so an entry's hash is its id. `AppendOnlyLog` is what a reader of the ledger
relies on: a sequence to which a transaction adds one contiguous block, at its
commit, behind everything committed before. The refinement maps the log to the
committed rows in the order of their ids (`InOrder`), on PostgreSQL.

### KeyFiles

A key is the number of a pair made for a signer. `file[p][half]` is what the file of
that half holds; `memory` are the pairs `app/api/deps.py` makes at import. A process
is `down`, then looks at the pairs one by one (`Look`), writes the two halves of a
missing one (`Write`), mirrors the pair of one merchant to the flat files (`Mirror`)
and serves; in production it serves at once. `Found` is the look-up of a half: file,
then memory for user and platform, the mirror for that merchant, or none. A
credential is the key that signed it. `Stop` may tear the file that is being written,
`LoseFile` removes one; these and a start beside another start count as `faults`.
The directory is initially empty, filled by `scripts/generate_keypairs.py`, by
`scripts/generate_merchant_keypairs.py`, or by the one and then the other
(`OldMirror`: the flat pair of the first is preserved beside the new pair of the mirrored
merchant, as it is by a development start after the first). `fresh` and `marred` are history
variables: which processes were imported after the last loss, and whether something
happened that no start repairs.

### Catalog, QuoteRouter, BasketPlanner, Deliberation

Merchants, products and SKUs are numbers in the order of the strings they stand
for, because ties are broken by name. Quotes are the ones the program itself has
signed, so tampered carts (signature, hash, currency and data gates) do not occur;
key, lifetime, stock, allowlist and cap gates do. `Deliberation` runs one request:
`CollectQuote` for each merchant, `Orchestrate` (classify, route, decide on
escalation), then `RouteRound` and `Revalidate` until `AuthorizeWinner` or
`NoWinner`; `EscalateAndPay` when a human raises the budget;
`PlanAndEvaluateBasket` for a mixed basket. `ChangeStock`, `ChangePrice` and
`Tick` may happen between any two of these. `lasting` is a history variable: the
merchants whose quotes have been eligible ever since classification.

`LegRevalidation` continues where `PlanAndEvaluateBasket` ends. `AuthorizePlannedBasket`
turns the carts of a plan into legs; `ExecutePlanLeg` is `execute_plan_leg()` with
`Revalidated` for `revalidate_or_requote_leg()`; whoever executes a leg may lack the
cart (then only the age of the mandate is checked) or the merchant's key (then an
expired leg cannot be quoted again); `RejectLeg` is a merchant the human left out.
A leg whose price changed stays reserved and may be executed again. `asked`, `age`,
`kept` and `disturbed` are history: when the authorized rows last cost the
authorized total, how old that was at the order, whether the cart was at hand, and
whether the catalog changed since the plan was made. The catalog is read in one
instant per leg and per quote; in the code each row of a cart is a query of its own.

## 3. Runs

Runs that pass:

| Run | Instance | What it shows |
|---|---|---|
| `payment_rail` | 1 intent, cap 3, 2 transactions, 2 merchants, totals 1 and 2, 1 plan of up to 2 legs, 3 mandates, 2 keys, 2 events | twelve properties of the tables over every order of commits, crashes and webhooks, the refinement of `BudgetAccount` among them |
| `agent_requests` | 2 intents for one transaction each, minted by journeys, approvals or deliveries of one request, or held by other clients; 4 mandates, 2 events | money and plans of one intent never leak into the other; a request delivered again after its mandate was recorded adds no mandate, whatever crashed in between; nothing changes what a journey has answered; a row out of stock without reason is the mark of a journey that is at work or died |
| `row_locks` | 2 sessions, one of which executes plans of up to two legs, 2 credentials of one transaction each, 3 mandates, 2 events; legs are ordered, need re-authorization or fail after the order | the reads, `FOR UPDATE` steps and commits of authorizations, webhooks and plan execution do nothing to the tables that the commits of `PaymentRail` could not do; at most one order per leg; a lock that an early return leaves behind belongs to the session that executes the plan, and no lock outlives its transaction |
| `all_sessions` | 2 sessions, one of which executes, rejects and releases the two legs of a plan, 1 credential, 2 mandates, 1 event | every request ends: webhooks wait for legs locked by early returns, and deadlock with releases |
| `order_flow` | 1 intent, 2 transactions of 1 paisa or a plan of two legs, 2 mandates, 2 events; recovery meets no request | an order the gateway has is recorded, or its mandate is in one of the states that can follow its loss; a known id stays known; the object a request holds across the call never overwrites another's write; under an operator who keeps asking, timed-out orders are repaired and payments settled |
| `ledger` | 3 transactions of up to 2 entries, PostgreSQL and SQLite | on PostgreSQL the committed ledger is one chain at all times, grows by whole blocks at its end, and deletions show; on both databases every transaction ends, the busy timeout resolving also the circular wait between the process lock and the write lock |
| `key_files` | 2 processes, an actor, the mirrored merchant and another, 3 starts, 2 faults, 1 credential followed | without faults every serving process signs for everyone and accepts what any process ever signed, wherever starts were cut; in development the next start makes up for lost files |
| `deliberation` | 3 merchants (one without a key), 3 rows, 2 prices, lifetimes of 1, 2 baskets, 3 ticks | the fallback loop and the planner are optimal against a catalog that changes at every step, and end; legs of a plan are ordered later only at a price the merchant asked recently, and nothing is lost or asked again while the catalog stands still |

Properties of `payment_rail`: `SpendCapRespected`, `RegistryMatchesMandates` (the
totals changed by `+=` and `-=` in five handlers are the sums over the mandates),
`MandateAccounting`, `OpenMandatesAreBacked` (the `max(0, ...)` and the
reservation check never come into effect), `TransactionAllowance`,
`PlansAreCoherent`, `PlanStatusNeverAhead`, `OneReceiptPerCapture`,
`AuditExplainsTables`, the action property `OutcomesAreFinal`, the refinement
`BudgetIsKept`, and `TypeOK`.

Runs that end in a counterexample, each a disagreement of code and documentation
(`findings` in `PROJECT.json`):

| Run | Property | What happens |
|---|---|---|
| `two_executors` | `OneOrderPerLeg` | two sessions approve one plan; the one that waited for the mandate's lock still holds its RESERVED object and orders again |
| `released_leg` | `ReleasesAreTheirOwn` | a rejection computed from an object loaded before a capture overwrites the captured mandate with RELEASED |
| `overlapping_recovery` | `TerminalStatesHaveNoExit` | recovery records the order of a request that still waits for its answer, the payment is captured, and the request writes ORDER_CREATED over PAYMENT_CAPTURED |
| `duplicate_request` | `OneMandatePerRequest` | two overlapping deliveries of one request find no record, and as each has an intent of its own the unique constraint on intent and key stops neither |

The first two counterexamples are why `row_locks` allows one executing session and
neither rejection nor unavailability: within that envelope the commits are
atomic, outside of it they are not. With `Rejections = FALSE` in `ReleasedLeg.cfg` the
same property fails through the unavailable leg instead: it is released with the
intent object loaded before the row was locked, and what others committed to the
intent in between (a webhook's refund, a reservation) is lost. The third is why
`order_flow` keeps recovery and requests apart; with
`Overlaps = FALSE` the module refines `PaymentRail` (`RequestsAreUndisturbed`). Checking
`ChainVerifies` on the ledger with `Dialects = {"sqlite"}` gives one more: the process
lock covers the call and not the transaction (`ledger.py:57`, `README.md:455`), so two
committed entries can name the same predecessor. `DuplicatesOverlap` in `agent_requests` is what remains of
`OneMandatePerRequest`.

Bounds. Two sessions show every pairwise conflict: a session that executes keeps the
legs it has left, a webhook holds a mandate and its intent, an authorization an intent.
A third session could close a longer cycle of waits, which the theorems cover and
`AbortDeadlock` would break. In `row_locks` a credential has one transaction, so the two
credentials meet in the plan's id only; in `all_sessions`, where liveness allows no
symmetry, there is one credential, no standalone mandate (`Keys` is empty) and no failure
after the order. Three mandates allow a plan of
two legs beside a standalone mandate; a cap of 3 with totals of 1 and 2 makes
both "fits exactly" and "one too many" happen, and leaves room for a refund to be
spent again. Two transactions make EXHAUSTED reachable by a plan, by mandates and
by a mixture. Two events give a capture and a failure in both orders and a replay.
Four mandates let two journeys share the row they mark; the plans of the
other clients then have one leg each, and the merchant's stock changes only while a
journey is served. Two mandates of one paisa let orders of a plan, of two requests and of an agent
meet; amounts play no part in `OrderFlow`. Two processes and three starts let one
serve while another starts and stops, twice; the second fault makes a torn file meet
a lost one. Three ledger transactions put a rolled-back entry between two committed ones. Two
prices, two sellers of one product and one of another give ties, forced splits and
a fallback; the first tick of the clock makes a quote expire at any step, the second
a leg without a cart, the third the intent. Requests begin at time 0 only: from the
catalog's point of view every moment is like it, and all catalogs are initial. The bounds
are the constants `MaxMandates`, `MaxLegs`, `MaxAppends`, `MaxClock`,
`LastRequest`, `MaxStarts`, `MaxIssued`, `MaxFaults`; actions that
would pass them are disabled. The largest instances have 9.7 million distinct states
(`key_files`) and 0.6 million (`row_locks`). Keys, events, and plans with intents are symmetric
where no liveness property is checked.

Fairness. `RowLocks`: strong fairness of each session's `Work`, because a
session's thread runs on, PostgreSQL serves the queue of a locked row, and it
detects deadlocks. `Deliberation`: weak fairness of `Work`, the thread that serves
the request; nothing is assumed of the catalog. `AuditLedger`: weak fairness of a
transaction's steps (the busy timeout among them) and strong fairness of taking
the two locks; a transaction whose caller hangs is not assumed away but not
modelled. `OrderFlow`: weak fairness of a reported payment, because the gateway
repeats a webhook until it is answered with success; strong fairness of
`OperatorFinds`, which is an assumption about people: somebody calls the reconcile
endpoint for a mandate whose order is unconfirmed, and the gateway sometimes answers.
No code does. No fairness is assumed of users, so nothing is claimed about a mandate
being paid in the end: one reset to RESERVED is retried by nobody.

Deadlock checking is off for the ledger, whose transactions end, and for the key
files, whose starts are bounded.

Each property of each passing run has a mutant in `PROJECT.json`: a definition
replaced by one with a plausible mistake, defined just before it and commented
as a mutant, under which the run finds the property violated.

## 4. Proofs

Every invariant, action property and refinement that a passing run checks is also
stated by a theorem, for every set of intents, merchants, plans, keys, sessions,
products and so on, and for every bound that the named assumptions of the modules
admit. What stays with TLC alone is liveness. Theorems have the form `Spec => []P`
or `Spec => Abstract!Spec`; where one needs a hypothesis beyond the assumptions of the
module, the hypothesis is in its statement and explained below.

**The tables** (`PaymentRail_proofs`).

* `TypeCorrect`: the type invariant is inductive as it stands. Its proof has one
  step per action; the work is in the lemmas on the table of rows (`RowUpdate`,
  `StatusUpdate`, `PlanAppend`), on `Synced` and on the row arithmetic (`ChargedRow`,
  `RefundedRow`).
* `SpendCapHolds`: inductive together with `TypeOK`. `RegistrySteps` reduces the
  step relation to the ways an intent's row can change: not at all, registered,
  charged with at most what is available, refunded, or a capture that moves an amount
  from reserved to captured. It is the reservation check of the webhook that makes the
  last case work without knowing anything about mandates.
* `AccountingHolds`: inductive together with `TypeOK`; `MandateSteps` reduces a step to
  what happens to the rows of mandates.
* `OutcomesFinal`: an action property, from the two invariants and
  `AbsentRowsAreEmpty`: an intent that is not registered has captured nothing, so
  registering it does not lower its captured sum.
* `CoherenceHolds`, `AllowanceHolds`: inductive with `TypeOK`. Nothing is assumed of the
  keys that clients choose: one that equals the key of a leg, which the code derives from
  plan and merchant, is refused by the check both authorizations make. The allowance
  counts rows, so the lemmas say by how much a step changes the
  cardinality of the standalone mandates of an intent.
* `StatusNeverAhead`: needs `HandledAreStandalone` (the authorize endpoint serves no leg
  of a plan, so a leg is never in ORDER_CREATING), `PlansAreCoherent` and that the flights
  of legs are in the ledger (`FlightsAreKnown`); `DerivedNeverAhead` says that a status
  derived from legs as they once were claims nothing that has not happened, because an
  outcome, once there, stays.
* `OneReceipt`: needs `EventsAreOfRows` (a receipt or a recorded outcome names a
  mandate that exists); the rest is that a webhook that captures found no capture.
* `AuditExplains`: needs `CapturesAreOfRows`, the same for the ledger.

**The sums** (`PaymentRailBudget_proofs`). `RegistryMatches`: `SumsTo` states a sum by
the running totals of a loop, so that appending summands or changing one shifts the
totals from there on; that gives `MatchStep` for the five handlers that use `+=`
and `-=`, with `MandateAccounting` for the amounts. `OpenBacked` follows: one summand
is no larger than the sum. `RailKeepsBudget` is the refinement of `BudgetAccount`:
`HoldsFit` derives from the registry's sums and `SpendCapRespected` that the
open and settled holds fit the limit before a step, and so what a step opens fits as
well.

**Orders** (`OrderFlow_proofs`), with `~Overlaps`: recovery meets no request at work,
as one process does whose operator waits. `overlapping_recovery` is the reason for the
hypothesis. The invariant is `OrderFacts(m)` for every mandate: an id is recorded
exactly from ORDER_CREATED on, and while a request waits for the gateway the row still
is what its object says. `OrdersKeepRail` (refinement of `PaymentRail`),
`OrdersAccounted` and `OrdersStayKnown` follow; `TerminalIsFinal` shows that what
TLC refutes with overlaps holds without.

**Deliveries and journeys** (`DemoJourneys_proofs`). `RequestsKeepRail`: whatever the
agent's clients do is a behaviour of `PaymentRail`, so all of the above holds for them.
`DuplicatesHold` needs to know what `began` says: a row that a delivery did not
find at its look-up was added after it arrived. The theorems on journeys ask for
`MaxLegs >= 2`: a journey plans two legs whatever the bound on the plans of other
clients is, and `PaymentRail` admits plans of up to `MaxLegs`.
(`DemoJourneys.cfg` has `MaxLegs = 1`, to keep the other clients' plans small.)
`JourneysKeepRail` is the refinement; it needs `LegsPlanned`: a journey under way has a
mandate for each leg it is going to execute. `MarksTakenBack` follows the row of
the catalog, `ResponsesStay` the intent of a journey: `JourneyFacts` says that every
mandate of it is a leg of the journey, and that none but the one being captured
awaits a payment, so when the last is settled there is nothing left for a webhook to
change.

**Row locks** (`RowLocks_proofs`). `LocksHeld` has no hypothesis: `LocksInv` gives every
session a record of one of seven kinds (`Jobs`), says what it knows of rows that exist, and
for each lock what its session is doing (`LocksLeg`, `Commits`): a locked leg belongs to the
plan that is executed and has been taken off `todo`. The other two theorems assume
`OneExecutor` and `NothingReleasedEarly` (no leg is unavailable or rejected while it is
being executed); `two_executors` and `released_leg` show that neither can be dropped. Under
them, `RowsInv` says what a session's objects still have to do with the tables:

* whoever is about to commit holds the row locks the code takes (`HasLocks`), and
  what it loaded under the intent's lock is the row, because nobody else writes it;
* what was admitted when the intent was locked would be admitted now
  (`StillAdmitted`);
* a webhook's mandate has an order, and its object is the row; the objects of the
  plan's other legs may be behind by an order that the executor has committed
  meanwhile, which is exactly what `Synced` admits (`NoticeInStep`);
* the executor's objects may be old, but each is a state its leg once had
  (`Remembered`): without an order in the object there is none, and an outcome in it is
  final. This makes the object of the leg it orders or releases the row itself, and
  the others what `LateSynced` admits (`ExecutionInStep`, `OrdersAreRecorded`).

`TablesMove` says what one session's step may do to the tables, and `StaysInStep` with
`OthersKeepStep` that all stay in step; with that, `CommitsImplementRail` shows each commit to
be one action of `PaymentRail` with the same values, and everything else to be a
stutter. The last synchronisation is `SyncPlan`, whatever it overwrites. `OneOrder` adds that
an order that is placed but not committed has its session at `AtOrder` (`OrdersInv`), which
PostgreSQL never aborts: whoever has what it waits for waits for no one
(`OrdersNeverAborted`).

**The ledger** (`AuditLedger_proofs`), for any number of transactions and of
entries of each.

* `TypeCorrect`: inductive together with the fact that a call under way was admitted
  below the bound.
* `ChainHolds`: the committed entries alone are not inductive, since a commit turns
  whatever is in progress into part of the chain. `ChainInv` says why that is safe on
  PostgreSQL: only the holder of the advisory lock has rows in progress, they come
  behind every committed row, the head it read is still the last row, and the whole
  table, committed or not, is a chain. `AppendKeepsChain` then covers an insertion,
  and `PrefixKeepsChain` both a rollback (which takes rows from the end) and the step
  from all rows to the committed ones.
* `DeletionShows`, from the same invariant: a row with a later one is named by a
  successor that is no later than it (`EveryRowIsNamed`), and ids are unique, so nothing
  else has the hash the successor names.
* `CommitsAppend`: the refinement of `AppendOnlyLog`. Ranks number the rows of a finite
  table (`RankIs`: an injection between finite sets of one size is onto), rows added
  behind all others leave the ranks of the others (`OrderExtends`), and in a chain a row
  names the one of the rank before (`ChainInOrder`). `RowsAreCounted` bounds the block.

**Keys** (`KeyFiles_proofs`). `KeyInv` has a part for each environment. In development
without faults one process starts at a time, what it has looked at is whole, a half that
is being written has the key of its other half, and the key of what was
issued is still the one in its signer's file (`StartsAlone`, `PairsAreWhole`, `Progress`, `IssuedAreKept`). In
production nothing is written. `LossesAreMadeUp` is about the files after faults: as
long as nothing is `marred`, two halves that are there belong together unless the second is
about to be written, and a process that was imported after the last loss has left no pair
incomplete behind it.

**Quotes and plans** (`LegRevalidation_proofs`), about `SpecLegs`, which contains
requests and the legs that follow them. `CheapestWins`, `NoneIsMissed` and
`RoutingsAgree` rest on `RouteMeans`: the router's order of quotes is total, so a pool with
an eligible quote has a first one. `PlansOptimal` and `PlanBeatsQuotes` are about sums
over baskets of any size: `AllocationIsCheapest` compares them term by term, `PlanTotalIs`
says that pricing each leg alone adds up to the whole. `PriceIsRecent` follows what is
known of a waiting leg (`LegFacts`). `UndisturbedHold` asks for `QuoteTTL <= LegTTL`: a
mandate is not too old before its cart has expired. Both are 300 seconds in the code
(`merchant.py:272`, `hitl_execution.py:191`). Products and SKUs are finite sets.

The sums of the community modules are folds, defined by recursion over subsets. The
prover cannot use the induction theorems of the library, whose claim is an operator, so
`SubsetInduction` takes the claim as the set of those it holds of (from the least
counterexample, `NatMin`), and `FoldIs`, `SumTakeOut`, `SumOfUnion`, `SumOfParts`
and `SumGrows` derive from it what sums are.

**Only model-checked.** `EveryRequestEnds`, `EveryTransactionEnds`, `PaymentsAreSettled`,
`InventedOrdersAreRepaired` and `DeliberationEnds`: liveness under fairness, which needs
ENABLED, is beyond the prover. The properties of the four runs that end in a counterexample
are false as they stand; the theorems with hypotheses say when they hold. No module
that is proved about declares a RECURSIVE operator.

## 5. Not modelled, and why

* Hashes, canonical JSON and the fields of tokens: pure computation. A model knows
  whether a credential is in force, a key present, and (in `KeyFiles`) which key
  signed.
* In `LegRevalidation`: the ledger rows `sign_cart()` adds, and the category
  allowlist of a fresh cart, as no category changes.
* The request of a journey uses its session for the captures too, so its webhooks derive
  the plan's status from siblings loaded before the intent is locked; in `PaymentRail` a webhook
  reads them under the lock, and only `ReleaseLeg` and `SyncPlan` use older ones.
  `get_plan_execution_report()` also synchronises, without a commit.
* Cycles of row locks with the advisory lock of the ledger: `RowLocks` has no ledger,
  `AuditLedger` no rows.
* SQLite for everything but the ledger: `RowLocks` is about PostgreSQL, whose row
  locks the code asks for.
* Parsing of goals, the language model, catalog browsing: they choose a basket,
  and the models let it be any.
* The adversarial scenarios of `demo_routes.py` (they repeat single operations), read-only
  endpoints, migrations, front end.

Divergences met while reading, without a run of their own yet: a user is told that
the lowest quote exceeds the budget (`agent.py:537`) whenever no quote is eligible
but some quote has a price, also when that quote is merely out of stock
(`agent.py:528`);
`authorize_plan()` promises that a duplicate request returns the existing plan
(`policy.py:388`), but with `max_transactions = 1` the repeated request already
fails in `verify_intent()` (`policy.py:408`); `sync_purchase_plan_status()` says of
CONFIRMED that all mandates remain RESERVED (`hitl_execution.py:120`), and returns
it also when some leg was released; the stored status of a plan may stay behind its legs
for good, when the last synchronisation of a plan or a journey writes what it read before a
webhook committed (`hitl_execution.py:682`, `demo_routes.py:684`);
`route_with_fallback()` routes all quotes again
when every merchant failed, so its decision may name a winner while None is returned
(`quote_router.py:352`); the README names a category gate (`README.md:288`) that the
router does not have; `/intent/authorize` and `/checkout/sign-cart` append ledger
entries that no commit follows; the README says the execution engine verifies
mandates (`README.md:270`), but `verify_mandate_jwt()` is called by no handler;
`render.yaml` deploys with `APP_ENV=development` on a disk that does not outlive a
deployment, so every credential dies with it; a journey claims that every value of its response is
derived from the database (`demo_routes.py:402`), but reports a revalidation that passed
also for a leg that was released (`demo_routes.py:632`); a journey that dies before its last
commit leaves the row of a product out of stock for good, because `seed_catalog()` only adds
rows, and one that completes puts the row in stock also when the merchant has run out
meanwhile (`demo_routes.py:609`); a refused capture ends a journey with later legs still
reserved, which nothing executes or releases; in production without key files user
and platform sign with pairs of the process (`deps.py:15`), which no other process
accepts (this is why `CredentialsSurviveRestarts` asks for the files); the two halves of
the mirrored merchant are found one at a time (`key_provider.py:108`), so with one of its files
lost beside an older flat pair (`generate_merchant_keypairs.py:73` preserves it, as does
`main.py:119` after `generate_keypairs.py`) production pairs halves that do not fit; a
start cut off between a new private half and an old public one, a torn write and overlapping
starts leave a pair that looks complete and that no later start repairs (`main.py:101`); a re-quoted leg
replaces the row's `cart_hash` (`hitl_execution.py:469`), so a receipt may name a cart
that the signed mandate does not; a failed attempt is final (`webhooks.py:175`), so a
later successful payment of the same order is refused; recovery at start-up asks a
fresh mock client (`main.py:86`), which finds nothing even in a live deployment.

## 6. Plan

Done, in this order: `MandateFSM`, `PaymentRail` with its runs; its type, cap,
accounting and finality theorems; `AuditLedger` with its theorems; `RowLocks` and the refinement;
`Catalog` to `Deliberation`; `AgentRequests`; `LegRevalidation`; then `OrderFlow`,
`BudgetAccount`, `AppendOnlyLog`, `KeyFiles` and the refinements; `DemoJourneys`.

Then the theorems on every safety and action property and on every refinement the
passing runs check.

Next, extending the model: journeys in `RowLocks`, whose session captures what it ordered.

Next, proving: what a reader can rely on in `AppendOnlyLog` and `BudgetAccount` alone
(a linked log, an account within its limit), so that clients need not know the
modules that implement them; what of `CommitsAreAtomic` survives two executors, with
the order of a leg as the only step outside `PaymentRail`.

## 7. Running

    tlc -workers 2 -config PaymentRail.cfg MCPaymentRail
    tlapm PaymentRail_proofs.tla
    tlapm PaymentRailBudget_proofs.tla
    tlapm OrderFlow_proofs.tla
    tlapm DemoJourneys_proofs.tla
    tlapm RowLocks_proofs.tla
    tlapm AuditLedger_proofs.tla
    tlapm KeyFiles_proofs.tla
    tlapm LegRevalidation_proofs.tla

The pairs of module and configuration are in `PROJECT.json` under `runs`. The
longest run takes three and a half minutes.
