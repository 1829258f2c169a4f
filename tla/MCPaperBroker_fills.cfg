SPECIFICATION Spec
CONSTANTS
    btc = btc
    eth = eth
    loop = loop
    Symbol = {btc, eth}
    Thread = {loop}
    NoOrder = NoOrder
    Scale = 10
    MinNotional = 50
    SlipBps = 100
    FeeBps = 1000
    TpEnabled = TRUE
    TpSizeBps = 5000
    TrailEnabled = TRUE
    TrailActivationBps = 500
    TrailDistanceBps = 500
    TimeoutEnabled = FALSE
    MinProgressBps = 0
    StartingCash = 400
    MaxBuys = 2
    ExposureBps = 6000
    MeaningfulNotional = 50
    DustQty = 1
    SmallQty = 2
    DustNotional = 15
    StopEnabled = TRUE
    StopBps = 500
    Tp1Bps = 1500
    Price = {90, 125}
    Size = {5, 9}
    Holding = {}
    MaxOrders = 3
    MaxFaults = 2
SYMMETRY Interchangeable
INVARIANTS
    BooksBalance
    BuyStreakCapped
    EveryBuyLogged
    SpentTargetsWereSold
PROPERTY FillsCostTheFee
