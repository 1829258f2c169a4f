SPECIFICATION Spec
CONSTANTS
    NoOrder = NoOrder
    Loop = {l1}
    Worker = {w1}
    Cooldown = 2
    Cycles = 1
    MaxBuys = 2
    MaxTime = 3
    MaxOrders = 2
    MaxCrashes = 0
INVARIANTS
    TypeOK
    UnarmedNeverTrades
    OneDecisionPerRun
    CooldownHonoured
