--------------------------- MODULE BasketPlanner ---------------------------
(***************************************************************************)
(* app/basket_planner.py: a basket is split over the allowed merchants,    *)
(* every product from the cheapest row that is in stock. The planner reads *)
(* all rows with one query and prices the legs from the rows it holds, so  *)
(* a plan sees one state of the catalog.                                   *)
(***************************************************************************)
EXTENDS QuoteRouter

\* Rows in stock at allowed merchants that can sign.
Candidates(p) ==
    {s \in Skus :
        /\ ProductOf[s] = p
        /\ SellerOf[s] \in ToSet(Allowlist) \cap SigningKeys
        /\ catalog[s].inStock}

\* Ordered by price, then merchant, then SKU.
Preferred(s, t) ==
    \/ catalog[s].price < catalog[t].price
    \/ catalog[s].price = catalog[t].price /\ SellerOf[s] < SellerOf[t]
    \/ catalog[s].price = catalog[t].price /\ SellerOf[s] = SellerOf[t] /\ s <= t

\* Mutant: the name of the merchant decides alone.
FirstByName(p) ==
    CHOOSE s \in Candidates(p) : \A t \in Candidates(p) : SellerOf[s] <= SellerOf[t]

BestCandidate(p) == CHOOSE s \in Candidates(p) : \A t \in Candidates(p) : Preferred(s, t)

Unavailable(basket) == {p \in Requested(basket) : Candidates(p) = {}}

Allocation(basket) == [p \in Requested(basket) |-> BestCandidate(p)]

\* Mutant: each leg signs the whole basket.
LegsOfWholeBasket(basket) ==
    LET choice == Allocation(basket) IN
    {SignedCart(m, choice, basket) : m \in {SellerOf[choice[p]] : p \in Requested(basket)}}

\* One leg per merchant, with the products allocated to it.
PlannedLegs(basket) ==
    LET choice == Allocation(basket)
        PartOf(m) == [p \in Products |->
            IF p \in Requested(basket) THEN IF SellerOf[choice[p]] = m THEN basket[p] ELSE 0 ELSE 0]
    IN {SignedCart(m, choice, PartOf(m)) : m \in {SellerOf[choice[p]] : p \in Requested(basket)}}

NoPlanYet == [feasible |-> FALSE, legs |-> {}, total |-> 0]

PlanMixedBasket(basket) ==
    IF Requested(basket) = {} \/ Unavailable(basket) # {}
    THEN NoPlanYet
    ELSE [feasible |-> TRUE, legs |-> PlannedLegs(basket),
          total |-> MapThenSumSet(LAMBDA leg : leg.total, PlannedLegs(basket))]

\* The cap is compared once, with the total of the plan.
EvaluateBasketAuthorization(plan) ==
    CASE ~plan.feasible -> "REJECTED"
      [] plan.feasible /\ plan.total <= SpendCap -> "AUTHORIZED"
      [] plan.feasible /\ plan.total > SpendCap -> "REQUIRES_USER_APPROVAL"

=============================================================================
