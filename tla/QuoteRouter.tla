---------------------------- MODULE QuoteRouter ----------------------------
(***************************************************************************)
(* app/quote_router.py: the gates a merchant's quote must pass, and the    *)
(* choice of the cheapest quote that passes them. Quotes are the ones the  *)
(* program had signed itself, so the signature, the declared data and the  *)
(* cart hash agree, and the currency is INR; a quote may still meet a      *)
(* merchant that is not allowed, a public key that is missing, the end of  *)
(* its lifetime, an empty shelf and the spend cap.                         *)
(***************************************************************************)
EXTENDS Catalog

CONSTANTS
    Allowlist,  \* the merchants the intent allows, in the order they are asked
    SpendCap    \* the intent's cap in paise

ASSUME AllowlistAssumption == Allowlist \in Seq(Merchants)
ASSUME SpendCapAssumption == SpendCap \in Nat

\* Mutant: quotes that failed before are classified again.
GatesWithoutMemory(q) ==
    << [failure |-> q.status, passed |-> q.skus # {}],
       [failure |-> "MERCHANT_UNAUTHORIZED", passed |-> q.merchant \in ToSet(Allowlist)],
       [failure |-> "MERCHANT_KEY_UNAVAILABLE", passed |-> q.merchant \in TrustedKeys],
       [failure |-> "QUOTE_EXPIRED", passed |-> clock < q.expires],
       [failure |-> "OUT_OF_STOCK", passed |-> \A s \in q.skus : catalog[s].inStock],
       [failure |-> "SPEND_CAP_EXCEEDED", passed |-> q.total <= SpendCap] >>

\* The gates in order. A quote that failed before keeps the status it had.
Gates(q) ==
    << [failure |-> q.status, passed |-> q.status = "ELIGIBLE"],
       [failure |-> "MERCHANT_UNAUTHORIZED", passed |-> q.merchant \in ToSet(Allowlist)],
       [failure |-> "MERCHANT_KEY_UNAVAILABLE", passed |-> q.merchant \in TrustedKeys],
       [failure |-> "QUOTE_EXPIRED", passed |-> clock < q.expires],
       [failure |-> "OUT_OF_STOCK", passed |-> \A s \in q.skus : catalog[s].inStock],
       [failure |-> "SPEND_CAP_EXCEEDED", passed |-> q.total <= SpendCap] >>

FailedGates(q) == {k \in DOMAIN Gates(q) : ~Gates(q)[k].passed}

Eligible(q) == FailedGates(q) = {}

\* The status of the first gate the quote fails.
Classified(q) ==
    [q EXCEPT !.status = IF Eligible(q) THEN "ELIGIBLE" ELSE Gates(q)[Min(FailedGates(q))].failure]

VerifyAndClassifyQuotes(quotes) == [k \in DOMAIN quotes |-> Classified(quotes[k])]

\* Mutant: the merchant's name before the price.
BeforeByName(quotes, j, k) ==
    \/ quotes[j].merchant < quotes[k].merchant
    \/ quotes[j].merchant = quotes[k].merchant /\ quotes[j].total < quotes[k].total
    \/ quotes[j].merchant = quotes[k].merchant /\ quotes[j].total = quotes[k].total /\ j <= k

\* Lower total first, then the merchant's name, then the place in the list.
Before(quotes, j, k) ==
    \/ quotes[j].total < quotes[k].total
    \/ quotes[j].total = quotes[k].total /\ quotes[j].merchant < quotes[k].merchant
    \/ quotes[j].total = quotes[k].total /\ quotes[j].merchant = quotes[k].merchant /\ j <= k

EligibleIn(quotes, pool) == {k \in pool : Eligible(quotes[k])}

\* Where in the list the cheapest eligible quote of the pool is; 0 without one.
Route(quotes, pool) ==
    IF EligibleIn(quotes, pool) = {} THEN 0
    ELSE CHOOSE j \in EligibleIn(quotes, pool) :
             \A k \in EligibleIn(quotes, pool) : Before(quotes, j, k)

=============================================================================
