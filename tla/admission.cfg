CONSTANTS
    Users = {u1, u2}
    Addresses = {a1}
    Requests = {r1, r2, r3}
    MaxGlobal = 2
    MaxPerUser = 1
    RateLimit = 2
    Budget = 3
    Costs = {1, 2}
    LastWindow = 1
    Arrivals = 5
    Settings <- AllSettings
SPECIFICATION Spec
SYMMETRY Symmetry
CHECK_DEADLOCK FALSE
INVARIANTS
    TypeOK
    CapacityBound
    TakenIsHeld
    RateRespected
    BudgetRespected
