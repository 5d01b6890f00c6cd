-------------------------- MODULE LegRevalidation --------------------------
(***************************************************************************)
(* A planned basket is authorized and its legs are executed later, with    *)
(* just-in-time revalidation (app/hitl_execution.py): the exact rows that  *)
(* were authorized are looked up again, and a leg whose cart is no longer  *)
(* in force is quoted afresh. Who executes a leg may or may not have kept  *)
(* the signed cart, and may or may not hold the merchant's signing key.    *)
(* Money is PaymentRail's business; here a leg is what it costs and when   *)
(* the merchant asked that. A leg reads the catalog in one instant.        *)
(***************************************************************************)
EXTENDS Deliberation

CONSTANTS
    LegTTL,        \* quote_ttl_seconds: how long a leg may wait without a cart
    IntentExpires  \* when the intent that pays for a plan expires

ASSUME LegTTLAssumption == LegTTL \in Nat
ASSUME IntentExpiresAssumption == IntentExpires \in Nat

VARIABLES
    legs,      \* the legs of the authorized plan, by merchant
    disturbed  \* history: the catalog has changed since the plan was made

\* Of a leg: the authorized cart and the quantities it was signed for, created_at,
\* the status of the mandate and the answer to the last execution; and (history) when
\* the authorized rows last cost the authorized total, how long ago that was when the
\* order was made, and whether it was made from a kept cart.
NewLeg(cart) ==
    [cart |-> cart, basket |-> basket, created |-> clock, status |-> "RESERVED",
     answer |-> "NONE", asked |-> cart.expires - QuoteTTL, age |-> 0, kept |-> FALSE]

NoLegs == [m \in {} |-> NewLeg(m)]

legVars == <<vars, legs, disturbed>>

InitLegs == Init /\ legs = NoLegs /\ disturbed = FALSE

\* What the rows that were authorized cost in a state of the catalog.
AskedIn(rows, leg) ==
    MapThenSumSet(LAMBDA s : rows[s].price * leg.basket[ProductOf[s]], leg.cart.skus)

\* Mutant: everything the merchant sells of the basket is quoted.
FreshTotalOfBasket(leg) ==
    LET sold == {s \in Skus : SellerOf[s] = leg.cart.merchant /\ leg.basket[ProductOf[s]] > 0}
    IN MapThenSumSet(LAMBDA s : catalog[s].price * leg.basket[ProductOf[s]], sold)

\* The total of a fresh cart for exactly the authorized rows.
FreshTotal(leg) == AskedIn(catalog, leg)

-----------------------------------------------------------------------------
Waiting == {m \in DOMAIN legs : legs[m].status = "RESERVED"}

\* Requests come and go while no leg waits; a plan that is settled is forgotten.
Requesting ==
    /\ Waiting = {}
    /\ Next
    /\ disturbed' = /\ stage' = "planned"
                    /\ catalog' # catalog \/ (disturbed /\ UNCHANGED <<stage, plan>>)
    /\ legs' = NoLegs

\* authorize_plan() for a plan within the cap: intent and carts must be in force.
AuthorizePlannedBasket ==
    /\ stage = "planned"
    /\ status = "AUTHORIZED"
    /\ clock < IntentExpires
    /\ \A cart \in plan.legs : cart.merchant \in TrustedKeys /\ clock < cart.expires
    /\ legs' = [m \in {cart.merchant : cart \in plan.legs} |->
                   NewLeg(CHOOSE cart \in plan.legs : cart.merchant = m)]
    /\ stage' = "idle"
    /\ UNCHANGED <<catalog, clock, basket, quotes, agentStatus, suggestion, dropped, winner, status,
                   ordered, plan, lasting, disturbed>>

\* The catalog and the clock move on while legs wait.
WorldMovesOn ==
    /\ Waiting # {}
    /\ \/ \E s \in Skus : ChangeStock(s) \/ \E price \in Prices : ChangePrice(s, price)
       \/ Tick
    /\ legs' = [m \in DOMAIN legs |->
                  IF m \in Waiting /\ AskedIn(catalog', legs[m]) = legs[m].cart.total
                  THEN [legs[m] EXCEPT !.asked = clock'] ELSE legs[m]]
    /\ disturbed' = (disturbed \/ catalog' # catalog)

-----------------------------------------------------------------------------
Available(leg) == \A s \in leg.cart.skus : catalog[s].inStock

\* Mutant: the lifetime of the cart is left to the age of the mandate.
InForceWhileYoung(leg, haveCart) == clock - leg.created <= LegTTL

\* A cart at hand is verified, its lifetime included; without one only the age of
\* the mandate is known.
InForce(leg, haveCart) ==
    /\ clock - leg.created <= LegTTL
    /\ haveCart => clock < leg.cart.expires

\* revalidate_or_requote_leg(): VALID, or why the leg is not ordered.
Revalidated(leg, haveCart, haveKey) ==
    CASE ~Available(leg) -> "MERCHANT_UNAVAILABLE"
      [] Available(leg) /\ InForce(leg, haveCart) -> "VALID"
      [] Available(leg) /\ ~InForce(leg, haveCart) /\ ~haveKey -> "MERCHANT_UNAVAILABLE"
      [] Available(leg) /\ ~InForce(leg, haveCart) /\ haveKey ->
            IF FreshTotal(leg) = leg.cart.total THEN "VALID" ELSE "REQUIRES_REAUTH"

Answer(m, newStatus, answer) ==
    /\ legs' = [legs EXCEPT ![m].status = newStatus, ![m].answer = answer]
    /\ UNCHANGED <<vars, disturbed>>

\* The order is made for the authorized amount.
CreateOrder(m, haveCart) ==
    /\ legs' = [legs EXCEPT ![m].status = "ORDER_CREATED", ![m].answer = "ORDER_CREATED",
                            ![m].kept = haveCart, ![m].age = clock - legs[m].asked]
    /\ UNCHANGED <<vars, disturbed>>

\* An execution finds the intent expired, or revalidates the leg and then orders it,
\* releases it, or leaves it reserved for the user to decide.
ExecutePlanLeg(m, haveCart, haveKey) ==
    LET verdict == Revalidated(legs[m], haveCart, haveKey) IN
    /\ m \in Waiting
    /\ IF clock >= IntentExpires
       THEN Answer(m, "RELEASED", "POLICY_INTENT_EXPIRED")
       ELSE \/ verdict = "MERCHANT_UNAVAILABLE" /\ Answer(m, "RELEASED", verdict)
            \/ verdict = "REQUIRES_REAUTH" /\ Answer(m, "RESERVED", verdict)
            \/ verdict = "VALID" /\ CreateOrder(m, haveCart)
            \/ verdict = "VALID" /\ Answer(m, "RELEASED", "GATEWAY_ORDER_CREATION_FAILED")

\* The human left the merchant out of the approval.
RejectLeg(m) ==
    /\ m \in Waiting
    /\ Answer(m, "RELEASED", "HITL_USER_REJECTED")

NextLegs ==
    \/ Requesting
    \/ AuthorizePlannedBasket
    \/ WorldMovesOn
    \/ \E m \in DOMAIN legs :
          \/ RejectLeg(m)
          \/ \E haveCart, haveKey \in BOOLEAN : ExecutePlanLeg(m, haveCart, haveKey)

SpecLegs == InitLegs /\ [][NextLegs]_legVars /\ WF_vars(Work)

-----------------------------------------------------------------------------
\* revalidate_or_requote_leg(): however prices went up and down in between, a leg
\* is ordered only for a total that its merchant asked within the life of a cart;
\* when the executor has not kept the cart, the wait of the mandate comes on top.
OrderedPriceIsRecent ==
    \A m \in DOMAIN legs : legs[m].status = "ORDER_CREATED" =>
        legs[m].age < QuoteTTL + (IF legs[m].kept THEN 0 ELSE LegTTL)

\* The planner, the policy engine and the re-quotation agree on what a leg is: as
\* long as the catalog stays as it was when the plan was made, nobody is asked to
\* re-authorize, and no leg is lost for want of its goods unless its cart ran out.
UndisturbedLegsHold ==
    ~disturbed => \A m \in DOMAIN legs :
        /\ legs[m].answer # "REQUIRES_REAUTH"
        /\ legs[m].answer = "MERCHANT_UNAVAILABLE" => clock >= legs[m].cart.expires

=============================================================================
