SPECIFICATION SpecLocks
CONSTANTS
    Intents = {i1, i2}
    Merchants = {cakehouse, giftbazaar}
    Plans = {p1}
    Keys = {k1}
    EventIds = {e1, e2}
    CartTotals <- OnePaisa
    SpendCap <- TwoPaise
    MaxTransactions <- OneTransaction
    AllowedMerchants <- AllMerchants
    NoPlan = NoPlan
    NoIntent = NoIntent
    MaxMandates = 3
    MaxLegs = 2
    Sessions = {s1, s2}
    Executors = {s1}
    Outcomes = {"ordered", "reauth", "error"}
    Rejections = FALSE
    NoSession = NoSession
SYMMETRY Alike
INVARIANTS LocksAreHeldByTheBusy OneOrderPerLeg
PROPERTY CommitsAreAtomic
