SPECIFICATION SpecRequests
CONSTANTS
    Intents = {i1, i2}
    Merchants = {cakehouse, giftbazaar}
    Plans = {p1, p2}
    Keys = {k1, r1}
    Requests = {r1}
    EventIds = {e1, e2}
    CartTotals <- Totals1
    SpendCap <- OneCap
    MaxTransactions <- OneTransaction
    AllowedMerchants <- OnlyFirstMerchant
    NoPlan = NoPlan
    NoIntent = NoIntent
    MaxMandates = 3
    MaxLegs = 2
INVARIANT OneMandatePerRequest
SYMMETRY Interchangeable
