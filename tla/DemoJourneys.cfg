SPECIFICATION SpecJourneys
CONSTANTS
    Intents = {i1, i2}
    cakehouse = cakehouse
    giftbazaar = giftbazaar
    Merchants = {cakehouse, giftbazaar}
    Plans = {p1, p2}
    Keys = {k1, r1}
    Requests = {r1}
    EventIds = {e1, e2}
    CartTotals <- Totals1
    SpendCap <- OneCap
    MaxTransactions <- OneTransaction
    AllowedMerchants <- AnyMerchant
    JourneyMerchants <- CakesThenGifts
    NoPlan = NoPlan
    NoIntent = NoIntent
    MaxMandates = 4
    MaxLegs = 1
INVARIANTS
    
    PlansAreCoherent
    DuplicatesOverlap
    MarksAreTakenBack
PROPERTY ResponsesStayTrue
SYMMETRY Interchangeable
