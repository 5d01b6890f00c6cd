SPECIFICATION SpecLocks
CONSTANTS
    Intents = {i1}
    Merchants = {cakehouse, giftbazaar}
    Plans = {p1}
    Keys = {}
    EventIds = {e1}
    CartTotals <- OnePaisa
    SpendCap <- TwoPaise
    MaxTransactions <- TwoTransactions
    AllowedMerchants <- AllMerchants
    NoPlan = NoPlan
    NoIntent = NoIntent
    MaxMandates = 2
    MaxLegs = 2
    Sessions = {s1, s2}
    Executors = {s1, s2}
    Outcomes = {"ordered"}
    Rejections = FALSE
    NoSession = NoSession
INVARIANT OneOrderPerLeg
