SPECIFICATION Spec
CONSTANTS
    Workers = {w1, w2}
    Actors = {user}
    Merchants = {cakehouse, sweetdelight}
    CakeHouse = cakehouse
    Flat = flat
    Environments = {"development", "production"}
    MaxStarts = 3
    MaxIssued = 1
    MaxFaults = 2
SYMMETRY Symmetry
INVARIANTS CredentialsSurviveRestarts LossesHeal
CHECK_DEADLOCK FALSE
