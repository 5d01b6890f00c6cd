SPECIFICATION SpecLegs
CONSTANTS
    Merchants = {1, 2, 3}
    Products = {"cake", "card"}
    Skus = {1, 2, 3}
    SellerOf <- Sellers
    ProductOf <- CakesAndCard
    SigningKeys = {1, 2}
    TrustedKeys = {1, 2}
    Prices = {1, 2}
    QuoteTTL = 1
    Allowlist <- AskedInTurn
    SpendCap = 2
    Baskets <- CakeOrCakeAndCard
    MaxClock = 3
    LastRequest = 0
    LegTTL = 1
    IntentExpires = 3
INVARIANTS CheapestLastingQuoteWins NoLastingQuoteIsMissed SecondRoutingAgrees
    OrderedPriceIsRecent UndisturbedLegsHold
PROPERTIES PlansAreOptimal PlanBeatsEverySingleQuote DeliberationEnds
