---------------------------- MODULE Deliberation ----------------------------
(***************************************************************************)
(* One request at a time to the agent's endpoints, while merchants change  *)
(* their catalogs and quotes grow old: quotes are solicited one by one,    *)
(* the orchestrator classifies and routes them, the endpoint routes them   *)
(* again with just-in-time revalidation and fallback, and authorizes the   *)
(* winner; or a human authorizes the quote the orchestrator suggested. A   *)
(* basket may be planned over several merchants instead.                   *)
(***************************************************************************)
EXTENDS BasketPlanner

CONSTANTS
    Baskets,     \* baskets a shopper may ask for
    MaxClock,    \* bound on the clock
    LastRequest  \* bound on the time of a new request

ASSUME BasketsAssumption ==
    Baskets \subseteq [Products -> Nat] /\ \A b \in Baskets : Requested(b) # {}
ASSUME ClockAssumption == MaxClock \in Nat /\ LastRequest \in Nat

VARIABLES
    stage,        \* where the request is
    basket,       \* what it asks for
    quotes,       \* one quote per merchant asked so far
    agentStatus,  \* how the agent's own run ended
    suggestion,   \* the quote suggested for a higher budget, or 0
    dropped,      \* merchants whose quote failed revalidation
    winner,       \* the quote chosen, or 0
    status,       \* how the request ended
    ordered,      \* the quote that was paid for, or 0
    plan,         \* the last basket plan
    lasting       \* history: merchants whose quotes have been eligible all along

requestVars == <<stage, basket, quotes, agentStatus, suggestion, dropped, winner, status, ordered,
                 plan, lasting>>
vars == <<catalog, clock, requestVars>>

Resting == {"idle", "done", "planned"}

Init ==
    /\ catalog \in [Skus -> CatalogRow]
    /\ clock = 0
    /\ stage = "idle"
    /\ basket \in Baskets
    /\ quotes = <<>>
    /\ agentStatus = "NONE"
    /\ suggestion = 0
    /\ dropped = {}
    /\ winner = 0
    /\ status = "NONE"
    /\ ordered = 0
    /\ plan = NoPlanYet
    /\ lasting = {}
-----------------------------------------------------------------------------
AllEligible(m) == \A k \in DOMAIN quotes : quotes[k].merchant = m => Eligible(quotes[k])

\* Merchants and time act whenever they like.
World ==
    /\ UNCHANGED <<stage, basket, quotes, agentStatus, suggestion, dropped, winner, status, ordered,
                   plan>>
    /\ lasting' = IF stage \in Resting THEN lasting ELSE {m \in lasting : AllEligible(m)'}

ChangeStock(s) ==
    /\ catalog' = [catalog EXCEPT ![s].inStock = ~@]
    /\ UNCHANGED clock
    /\ World

ChangePrice(s, price) ==
    /\ catalog[s].price # price
    /\ catalog' = [catalog EXCEPT ![s].price = price]
    /\ UNCHANGED clock
    /\ World

Tick ==
    /\ clock < MaxClock
    /\ clock' = clock + 1
    /\ UNCHANGED catalog
    /\ World
-----------------------------------------------------------------------------
\* A new request; nothing of the last one is kept.
Deliberate(b) ==
    /\ stage \in Resting
    /\ clock <= LastRequest
    /\ stage' = "collect"
    /\ basket' = b
    /\ quotes' = <<>>
    /\ agentStatus' = "NONE"
    /\ suggestion' = 0
    /\ dropped' = {}
    /\ winner' = 0
    /\ status' = "NONE"
    /\ ordered' = 0
    /\ plan' = NoPlanYet
    /\ lasting' = {}
    /\ UNCHANGED <<catalog, clock>>

\* The next merchant of the list is asked; a failure is a quote too.
CollectQuote ==
    /\ stage = "collect"
    /\ Len(quotes) < Len(Allowlist)
    /\ \E q \in SolicitedQuotes(Allowlist[Len(quotes) + 1], basket) : quotes' = Append(quotes, q)
    /\ UNCHANGED <<catalog, clock, stage, basket, agentStatus, suggestion, dropped, winner, status,
                   ordered, plan, lasting>>

\* Quotes that name a price, whatever became of them.
Priced == {k \in DOMAIN quotes : quotes[k].total > 0}

CheapestPriced == CHOOSE j \in Priced : \A k \in Priced :
    quotes[j].total < quotes[k].total \/ (quotes[j].total = quotes[k].total /\ j <= k)

\* CommerceOrchestrator.orchestrate(): classify, route once, decide on escalation.
Orchestrate ==
    /\ stage = "collect"
    /\ Len(quotes) = Len(Allowlist)
    /\ quotes' = VerifyAndClassifyQuotes(quotes)
    /\ LET best == Route(quotes, DOMAIN quotes) IN
       /\ agentStatus' = CASE best # 0 -> "COMPLETED"
                           [] best = 0 /\ Priced # {} -> "REQUIRES_USER_APPROVAL"
                           [] best = 0 /\ Priced = {} -> "NO_CANDIDATE_MATCH"
       /\ suggestion' = IF best = 0 /\ Priced # {} THEN CheapestPriced ELSE 0
    /\ lasting' = {m \in ToSet(Allowlist) : AllEligible(m)}
    /\ stage' = "route"
    /\ UNCHANGED <<catalog, clock, basket, dropped, winner, status, ordered, plan>>

RemainingPool == {k \in DOMAIN quotes : quotes[k].merchant \notin dropped}

\* A round of route_with_fallback().
RouteRound ==
    /\ stage = "route"
    /\ Route(quotes, RemainingPool) # 0
    /\ winner' = Route(quotes, RemainingPool)
    /\ stage' = "revalidate"
    /\ UNCHANGED <<catalog, clock, basket, quotes, agentStatus, suggestion, dropped, status, ordered,
                   plan, lasting>>

\* The pool is empty, or nothing in it is eligible: None is returned.
NoWinner ==
    /\ stage = "route"
    /\ Route(quotes, RemainingPool) = 0
    /\ status' = IF Priced # {} THEN "REQUIRES_USER_APPROVAL" ELSE agentStatus
    /\ stage' = "done"
    /\ UNCHANGED <<catalog, clock, basket, quotes, agentStatus, suggestion, dropped, winner, ordered,
                   plan, lasting>>

\* Mutant: the runner-up is looked for in the same pool.
DropNobody(m) == dropped

\* Mutant: one failure empties the pool.
DropEverybody(m) == Merchants

\* Every quote of the merchant leaves the pool.
DropMerchant(m) == dropped \cup {m}

Revalidate ==
    /\ stage = "revalidate"
    /\ IF Eligible(quotes[winner])
       THEN stage' = "authorize" /\ UNCHANGED <<dropped, winner>>
       ELSE /\ stage' = "route"
            /\ dropped' = DropMerchant(quotes[winner].merchant)
            /\ winner' = 0
    /\ UNCHANGED <<catalog, clock, basket, quotes, agentStatus, suggestion, status, ordered, plan,
                   lasting>>

\* The endpoint authorizes the winner's cart; a cart that has expired by now is
\* refused by the policy engine, an empty shelf is not noticed any more.
AuthorizeWinner ==
    /\ stage = "authorize"
    /\ IF agentStatus # "COMPLETED"
       THEN status' = agentStatus /\ UNCHANGED ordered
       ELSE IF clock < quotes[winner].expires
       THEN status' = "COMPLETED" /\ ordered' = winner
       ELSE status' = "POLICY_REJECTED" /\ UNCHANGED ordered
    /\ stage' = "done"
    /\ UNCHANGED <<catalog, clock, basket, quotes, agentStatus, suggestion, dropped, winner, plan,
                   lasting>>

\* escalate_and_pay(): a human raises the budget to the total that was suggested.
EscalateAndPay ==
    /\ stage = "done"
    /\ status = "REQUIRES_USER_APPROVAL"
    /\ suggestion # 0
    /\ quotes[suggestion].merchant \in TrustedKeys
    /\ clock < quotes[suggestion].expires
    /\ status' = "COMPLETED"
    /\ ordered' = suggestion
    /\ UNCHANGED <<catalog, clock, stage, basket, quotes, agentStatus, suggestion, dropped, winner,
                   plan, lasting>>

\* plan_and_evaluate_basket(), which writes nothing but the plan it returns.
PlanAndEvaluateBasket(b) ==
    /\ stage \in Resting
    /\ clock <= LastRequest
    /\ stage' = "planned"
    /\ basket' = b
    /\ plan' = PlanMixedBasket(b)
    /\ status' = EvaluateBasketAuthorization(plan')
    /\ quotes' = <<>>
    /\ agentStatus' = "NONE"
    /\ suggestion' = 0
    /\ dropped' = {}
    /\ winner' = 0
    /\ ordered' = 0
    /\ lasting' = {}
    /\ UNCHANGED <<catalog, clock>>

Work ==
    \/ CollectQuote \/ Orchestrate \/ RouteRound \/ NoWinner \/ Revalidate \/ AuthorizeWinner

Next ==
    \/ Work
    \/ EscalateAndPay
    \/ \E b \in Baskets : Deliberate(b) \/ PlanAndEvaluateBasket(b)
    \/ \E s \in Skus : ChangeStock(s) \/ \E price \in Prices : ChangePrice(s, price)
    \/ Tick

\* The thread that serves a request runs on, whatever the catalog does.
Spec == Init /\ [][Next]_vars /\ WF_vars(Work)
-----------------------------------------------------------------------------
\* route_with_fallback(): the winner is no dearer than any quote that was eligible
\* from the first classification on, however the others came and went, and its
\* merchant comes first among those that ask as much.
CheapestLastingQuoteWins ==
    stage = "authorize" =>
        \A k \in DOMAIN quotes : quotes[k].merchant \in lasting =>
            \/ quotes[winner].total < quotes[k].total
            \/ /\ quotes[winner].total = quotes[k].total
               /\ quotes[winner].merchant <= quotes[k].merchant

\* route_with_fallback(): when None is returned, no merchant's quotes were
\* eligible from the first classification until then.
NoLastingQuoteIsMissed == stage = "done" /\ winner = 0 => lasting = {}

\* deliberate_goal(): the endpoint pays only when the agent's own run ended
\* COMPLETED, and routes the quotes once more; a winner of the second routing is
\* never left unpaid because the first one had none.
SecondRoutingAgrees == stage = "authorize" => agentStatus = "COMPLETED"

\* plan_mixed_basket(): a plan is found exactly when some allowed merchant that can
\* sign has every product in stock, and no way of picking rows costs less.
PlansAreOptimal ==
    [][stage' = "planned" =>
        LET InStock(p) == {s \in Skus : /\ ProductOf[s] = p /\ catalog[s].inStock
                                        /\ \E k \in DOMAIN Allowlist : SellerOf[s] = Allowlist[k]
                                        /\ SellerOf[s] \in SigningKeys}
            choices == {c \in [Requested(basket') -> Skus] :
                            \A p \in Requested(basket') : c[p] \in InStock(p)}
        IN /\ plan'.feasible <=> choices # {}
           /\ plan'.feasible => \E c \in choices : plan'.total = CartTotal(c, basket')
           /\ plan'.feasible => \A c \in choices : plan'.total <= CartTotal(c, basket')
       ]_requestVars

\* A basket that one merchant's quote would cover within the budget is also
\* planned and authorized, for no more than that quote (the planner and the router
\* agree about stock, keys and the cap).
PlanBeatsEverySingleQuote ==
    [][stage' = "planned" =>
        \A m \in ToSet(Allowlist) : \A q \in SolicitedQuotes(m, basket') :
            Eligible(q) => plan'.feasible /\ plan'.total <= q.total /\ status' = "AUTHORIZED"
       ]_requestVars

\* A request ends although the catalog keeps changing: a merchant that failed
\* revalidation is not tried again.
DeliberationEnds == stage \notin Resting ~> stage \in Resting

=============================================================================
