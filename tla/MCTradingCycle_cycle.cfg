SPECIFICATION CycleSpec
CONSTANTS
    btc = btc
    loop = loop
    Symbol = {btc}
    Thread = {loop}
    NoOrder = NoOrder
    NoReview = NoReview
    Scale = 100
    MinNotional = 50
    SlipBps = 100
    FeeBps = 1000
    TpEnabled = TRUE
    TpSizeBps = 5000
    TrailEnabled = TRUE
    TrailActivationBps = 500
    TrailDistanceBps = 500
    TimeoutEnabled = TRUE
    MinProgressBps = 50
    StartingCash = 400
    MaxBuys = 2
    ExposureBps = 10000
    MeaningfulNotional = 50
    DustQty = 1
    SmallQty = 10
    DustNotional = 15
    StopEnabled = TRUE
    StopBps = 500
    Tp1Bps = 1500
    Price = {80, 100, 130}
    Size = {1}
    Holding <- Reported
    MaxOrders = 3
    MaxFaults = 1
    MaxScaleBps = 10000
    BaseEntry = 104
    RiskBps = 500
    VolatilityBps <- HalfWhenVolatile
    ModeBps <- HalfThenQuarter
    ReducedAfter = 1
    MinimalAfter = 2
    TimeFilter = TRUE
    BiasFilter = TRUE
    Confidence = {2000, 6000}
    Market <- Classified
    StrategyStopBps = 1500
    StrategyTakeBps = 2500
    ReboundBps = 800
    SidewayFilter = TRUE
    GapThreshold = 15
    RangeThreshold = 60
    BlockOnLow = TRUE
    BreakoutException = TRUE
    BreakoutGap = 12
    BreakoutMomentum = 10
    AllowBearish = FALSE
    AllowLow = TRUE
    UncertainBlock = TRUE
    TrendRegimes = {"trend_up", "trend_down"}
    RangeRegimes = {"sideways"}
INVARIANTS
    CycleTypeOK
    ExitsOutrankSignals
    TargetSpentOnce
    ApprovedEntriesAffordable
    EntriesCanTakeProfit
PROPERTY TrailingNeverLoosens
