---------------------------- MODULE DemoJourneys ----------------------------
(***************************************************************************)
(* POST /demo/multi-leg-journey and /demo/simulate-capture beside the      *)
(* agent and the other clients (app/api/demo_routes.py). A journey mints a *)
(* credential, plans a basket at two merchants, executes and captures leg  *)
(* after leg in one request, and reports what became of them. In the       *)
(* scenario of a partial failure it marks the row of its last leg out of   *)
(* stock; every other session sees the mark until it is taken back.        *)
(***************************************************************************)
EXTENDS AgentRequests

CONSTANT JourneyMerchants  \* the merchants of the first and of the last leg

ASSUME JourneyMerchantsAssumption == JourneyMerchants \in [1 .. 2 -> Merchants]

VARIABLES
    supply,  \* external: the last leg's merchant can deliver
    inStock  \* CatalogItem.in_stock of the row that the last leg buys

stockVars == <<supply, inStock>>

\* A journey is served like a delivery. leg is the leg it is at; marked says that it
\* committed the mark on its last row and has not taken it back, and stays so if the
\* request dies.
Planning(scenario) ==
    [at |-> "planning", scenario |-> scenario, leg |-> 1, marked |-> FALSE]
IsJourney(i) == "marked" \in DOMAIN delivery[i]
LegOf(i, k) == CHOOSE m \in Rows : /\ mandates[m].intent = i
                                   /\ mandates[m].merchant = JourneyMerchants[k]
PlanOf(i) == CHOOSE p \in Plans : plans[p].intent = i

InitJourneys ==
    /\ InitRequests
    /\ supply \in BOOLEAN
    /\ inStock = supply

-----------------------------------------------------------------------------
\* A credential for both merchants is minted, registered and committed.
BeginJourney(i, scenario) ==
    /\ delivery[i] = Unsent
    /\ \A k \in 1 .. 2 : JourneyMerchants[k] \in AllowedMerchants[i]
    /\ RegisterIntent(i)
    /\ delivery' = [delivery EXCEPT ![i] = Planning(scenario)]
    /\ UNCHANGED stockVars

\* Two carts are signed, whether in stock or not, and authorized as one plan with
\* a fresh id. A rejection ends the request.
PlanJourney(i) ==
    /\ delivery[i].at = "planning"
    /\ \E p \in Plans, totals \in [1 .. 2 -> CartTotals], ok \in BOOLEAN :
          LET legs == [k \in 1 .. 2 |-> [merchant |-> JourneyMerchants[k],
                                         total |-> totals[k], inPolicy |-> ok]]
          IN  /\ plans[p].intent = NoIntent
              /\ \/ AuthorizePlan(i, p, legs, totals[1] + totals[2]) /\ To(i, "executing")
                 \/ AuthorizePlanRejected(i, p, legs) /\ To(i, "done")
    /\ UNCHANGED stockVars

ToNextLeg(i) ==
    delivery' = [delivery EXCEPT ![i].at = IF delivery[i].leg = 1 THEN "executing" ELSE "syncing",
                                 ![i].leg = 2]

SimulatesFailure(i) == delivery[i].scenario = "partial_failure" /\ delivery[i].leg = 2

\* A mutant: only a leg that comes back captured already is captured.
ExecuteJourneyLegOnly(i) ==
    /\ delivery[i].at = "executing"
    /\ ~SimulatesFailure(i)
    /\ LET m == LegOf(i, delivery[i].leg) IN ExecuteLeg(m) \/ ReleaseLeg(m)
    /\ ToNextLeg(i)
    /\ UNCHANGED stockVars

\* execute_plan_leg() for a leg that is not made to fail: it is ordered, or released
\* (the row is out of stock, the intent expired, the order failed), or left as it is
\* because its quote ran out and the price moved. The first leg's row is left open.
ExecuteJourneyLeg(i) ==
    LET m == LegOf(i, delivery[i].leg)
        available == delivery[i].leg = 1 \/ inStock
    IN
    /\ delivery[i].at = "executing"
    /\ ~SimulatesFailure(i)
    /\ \/ available /\ ExecuteLeg(m) /\ To(i, "capturing")
       \/ ReleaseLeg(m) /\ ToNextLeg(i)
       \/ available /\ i \notin expired /\ ToNextLeg(i) /\ UNCHANGED vars
    /\ UNCHANGED stockVars

\* The row is marked and the leg, found unavailable, released in the same commit.
FailLastLeg(i) ==
    /\ delivery[i].at = "executing"
    /\ SimulatesFailure(i)
    /\ ReleaseLeg(LegOf(i, 2))
    /\ inStock' = FALSE
    /\ delivery' = [delivery EXCEPT ![i].at = "syncing", ![i].marked = TRUE]
    /\ UNCHANGED supply

\* simulate_payment_captured_webhook() makes a new event id.
SimulatedCapture(m, amount) ==
    \E e \in EventIds : (\A event \in events : event.id # e) /\ CaptureWebhook(e, m, amount)

\* The order is captured, unless it has been already. A refused capture ends the
\* request, and the legs still to come stay as they are.
CaptureJourneyLeg(i) ==
    LET m == LegOf(i, delivery[i].leg)
        row == mandates[m]
    IN
    /\ delivery[i].at = "capturing"
    /\ \/ SimulatedCapture(m, row.amount) /\ ToNextLeg(i)
       \/ row.status = "PAYMENT_CAPTURED" /\ ToNextLeg(i) /\ UNCHANGED vars
       \/ /\ row.status # "PAYMENT_CAPTURED" /\ ~CaptureAdmitted(row, row.amount)
          /\ To(i, "done")
          /\ UNCHANGED vars
    /\ UNCHANGED stockVars

\* A mutant: the mark stays.
SyncJourneyMarked(i) ==
    /\ delivery[i].at = "syncing"
    /\ SyncPlan(PlanOf(i))
    /\ delivery' = [delivery EXCEPT ![i].at = "answered", ![i].marked = FALSE]
    /\ UNCHANGED stockVars

\* The legs were read before; what is made of them is committed together with the
\* row, whose mark is taken back whatever it held before or holds now.
SyncJourney(i) ==
    /\ delivery[i].at = "syncing"
    /\ SyncPlan(PlanOf(i))
    /\ inStock' = (inStock \/ delivery[i].marked)
    /\ delivery' = [delivery EXCEPT ![i].at = "answered", ![i].marked = FALSE]
    /\ UNCHANGED supply

\* The agent finds no feasible basket, or an exception ends the request.
JourneyFails(i) ==
    /\ IsJourney(i)
    /\ Serving(i)
    /\ To(i, "done")
    /\ UNCHANGED <<vars, stockVars>>

\* External: the merchant runs out or is supplied again, and says so in its catalog.
\* Bound: it matters to nobody else, so only while a journey is served.
MerchantChangesStock ==
    /\ \E i \in Intents : IsJourney(i) /\ Serving(i)
    /\ supply' = ~supply
    /\ inStock' = supply'
    /\ UNCHANGED <<vars, delivery>>

Journey(i) ==
    \/ \E scenario \in {"partial_failure", "all_success"} : BeginJourney(i, scenario)
    \/ PlanJourney(i) \/ ExecuteJourneyLeg(i) \/ FailLastLeg(i) \/ CaptureJourneyLeg(i)
    \/ SyncJourney(i) \/ JourneyFails(i)

NextJourneys ==
    \/ NextRequests /\ UNCHANGED stockVars
    \/ \E i \in Intents : Journey(i)
    \/ MerchantChangesStock

SpecJourneys == InitJourneys /\ [][NextJourneys]_<<vars, delivery, stockVars>>

-----------------------------------------------------------------------------
\* A row that is out of stock although its merchant can deliver was marked by a
\* journey that died before it took the mark back, or will yet: no journey that has
\* answered leaves its mark behind (the finally of run_multi_leg_journey()).
MarksAreTakenBack ==
    supply /\ ~inStock =>
        \E i \in Intents : IsJourney(i) /\ delivery[i].marked /\ delivery[i].at # "answered"

\* The response of a journey is put together after its last commit, row by row,
\* from objects that are loaded again one at a time. That gives one consistent
\* settlement, and one that stays true, because no webhook, recovery, expiry or
\* other client can change the plan, a leg or the totals of an intent whose journey
\* has come so far: nothing it ordered is still without an outcome.
ResponsesStayTrue ==
    [][\A i \in Intents :
          IsJourney(i) /\ delivery[i].at = "answered" =>
              /\ registry'[i] = registry[i]
              /\ plans'[PlanOf(i)] = plans[PlanOf(i)]
              /\ \A k \in 1 .. 2 : mandates'[LegOf(i, k)] = mandates[LegOf(i, k)]]_vars

=============================================================================
