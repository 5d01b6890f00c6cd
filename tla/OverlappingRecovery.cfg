SPECIFICATION SpecOrders
CONSTANTS
    Intents = {i1}
    Merchants = {cakehouse}
    Plans = {p1}
    Keys = {k1}
    EventIds = {e1, e2}
    CartTotals <- OnePaisa
    SpendCap <- TwoPaise
    MaxTransactions <- TwoTransactions
    AllowedMerchants <- AllMerchants
    NoPlan = NoPlan
    NoIntent = NoIntent
    MaxMandates = 2
    MaxLegs = 1
    Overlaps = TRUE
PROPERTY TerminalStatesHaveNoExit
