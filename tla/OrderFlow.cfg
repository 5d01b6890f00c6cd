SPECIFICATION FairSpecOrders
CONSTANTS
    Intents = {i1}
    Merchants = {cakehouse, giftbazaar}
    Plans = {p1}
    Keys = {k1, k2}
    EventIds = {e1, e2}
    CartTotals <- OnePaisa
    SpendCap <- TwoPaise
    MaxTransactions <- TwoTransactions
    AllowedMerchants <- AllMerchants
    NoPlan = NoPlan
    NoIntent = NoIntent
    MaxMandates = 2
    MaxLegs = 2
    Overlaps = FALSE
INVARIANT OrdersAreAccountedFor
PROPERTIES KnownOrdersStayKnown RequestsAreUndisturbed PaymentsAreSettled InventedOrdersAreRepaired
