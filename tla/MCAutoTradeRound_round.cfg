SPECIFICATION RoundSpec
CONSTANTS
    NoTrade = NoTrade
    NoScheduler = NoScheduler
    Scale = 10
    MinNotional = 50
    SlipBps = 100
    FeeBps = 1000
    Symbols <- TwoSymbols
    Ladder <- TwoTicks
    MinKrw = 60
    AllocationBps = 8000
    TotalBps = 8000
    SymbolBps = 5000
    Meaningful = 50
    MinManaged = 15
    StopLossBps = 150
    TakeProfitBps = 200
    TrailBps = 100
    SellRatioBps = 5000
    Thousand = 10
    TopN = 1
    Verdict <- Verdicts
    Strategies <- Enabled
    Opinion <- Opinions
    CycleQty = {12, 22}
    Price <- Prices
    StartingKrw = 300
    MaxOrders = 2
INVARIANTS
    RoundTypeOK
    StopLossFirst
    BuysStayInRoom
    ExchangeNeverRejects
PROPERTY PeaksOnlyRise
