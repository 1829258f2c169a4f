SPECIFICATION FairSpec
CONSTANTS
    NoOrder = NoOrder
    Loop = {l1, l2}
    Worker = {}
    Cooldown = 1
    Cycles = 1
    MaxBuys = 2
    MaxTime = 1
    MaxOrders = 1
    MaxCrashes = 1
PROPERTIES
    RunsEnd
    StopTakesEffect
