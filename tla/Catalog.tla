------------------------------ MODULE Catalog ------------------------------
(***************************************************************************)
(* What merchants offer and what they sign: the table catalog_items and    *)
(* the merchant's side of a quote. A merchant may list a product under     *)
(* several SKUs, each with a price and a stock flag of its own. Names are  *)
(* numbers that stand in the order of the strings they replace, because    *)
(* ties between equal prices are broken by name.                           *)
(***************************************************************************)
EXTENDS Naturals, SequencesExt, FiniteSetsExt

CONSTANTS
    Merchants,    \* merchant ids, by their place in lexicographic order
    Products,     \* canonical products
    Skus,         \* rows of catalog_items, ordered by SKU
    SellerOf,     \* [Skus -> Merchants]
    ProductOf,    \* [Skus -> Products]
    SigningKeys,  \* merchants whose private key can be loaded
    TrustedKeys,  \* merchants whose public key can be loaded
    Prices,       \* prices in paise a row may have
    QuoteTTL      \* lifetime of a signed cart

ASSUME MerchantsAssumption == Merchants \subseteq Nat
ASSUME ProductsAssumption == IsFiniteSet(Products)
ASSUME SkusAssumption ==
    /\ Skus \subseteq Nat
    /\ IsFiniteSet(Skus)
    /\ SellerOf \in [Skus -> Merchants]
    /\ ProductOf \in [Skus -> Products]
ASSUME KeysAssumption == SigningKeys \subseteq Merchants /\ TrustedKeys \subseteq Merchants
ASSUME PricesAssumption == Prices \subseteq Nat \ {0}
ASSUME TTLAssumption == QuoteTTL \in Nat

VARIABLES
    catalog,  \* the price and the stock flag of every row
    clock

CatalogRow == [price : Prices, inStock : BOOLEAN]

\* The rows under which merchant m lists product p.
Offers(m, p) == {s \in Skus : SellerOf[s] = m /\ ProductOf[s] = p}

\* A basket asks for a quantity of each product.
Requested(basket) == {p \in Products : basket[p] > 0}

\* What a choice of one row per requested product costs.
CartTotal(choice, basket) ==
    MapThenSumSet(LAMBDA p : catalog[choice[p]].price * basket[p], Requested(basket))

\* A cart priced from the catalog and signed.
SignedCart(m, choice, basket) ==
    [merchant |-> m, skus |-> {choice[p] : p \in Requested(basket)},
     total |-> CartTotal(choice, basket), expires |-> clock + QuoteTTL]

FailedQuote(m, status) ==
    [merchant |-> m, skus |-> {}, total |-> 0, expires |-> 0, status |-> status]

SignedQuote(m, choice, basket) ==
    LET cart == SignedCart(m, choice, basket) IN
    [merchant |-> m, skus |-> cart.skus, total |-> cart.total, expires |-> cart.expires,
     status |-> "ELIGIBLE"]

\* The quotes merchant m may return. A product is resolved to whichever of its
\* rows the database returns first, in stock or not.
SolicitedQuotes(m, basket) ==
    IF m \notin SigningKeys
    THEN {FailedQuote(m, "MERCHANT_KEY_UNAVAILABLE")}
    ELSE IF \E p \in Requested(basket) : Offers(m, p) = {}
    THEN {FailedQuote(m, "SKU_UNAVAILABLE")}
    ELSE {SignedQuote(m, choice, basket) :
             choice \in {c \in [Requested(basket) -> Skus] :
                            \A p \in Requested(basket) : c[p] \in Offers(m, p)}}

=============================================================================
