SPECIFICATION Spec
CONSTANTS
    NoOrder = NoOrder
    Loop = {l1}
    Worker = {w1}
    Cooldown = 1
    Cycles = 1
    MaxBuys = 2
    MaxTime = 1
    MaxOrders = 1
    MaxCrashes = 0
INVARIANTS
    ShadowNeverTrades
