SPECIFICATION Spec
CONSTANTS
    Intents = {i1}
    Merchants = {cakehouse, giftbazaar}
    Plans = {p1}
    Keys = {k1, k2}
    EventIds = {e1, e2}
    CartTotals <- Totals12
    SpendCap <- OneCap
    MaxTransactions <- TwoTransactions
    AllowedMerchants <- AllMerchants
    NoPlan = NoPlan
    NoIntent = NoIntent
    MaxMandates = 3
    MaxLegs = 2
INVARIANTS
    TypeOK
    SpendCapRespected
    RegistryMatchesMandates
    MandateAccounting
    OpenMandatesAreBacked
    TransactionAllowance
    PlansAreCoherent
    PlanStatusNeverAhead
    OneReceiptPerCapture
    AuditExplainsTables
PROPERTIES OutcomesAreFinal BudgetIsKept
SYMMETRY Interchangeable
