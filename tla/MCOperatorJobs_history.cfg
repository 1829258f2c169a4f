SPECIFICATION JobsSpec
CONSTANTS
    Thread = {api}
    Days = 2
    MaxTime = 2
    MaxEntries = 4
    MaxCrashes = 1
    Portfolio <- SomePortfolios
    StartingCash = 100
    PnlThreshold <- UnrealizedLimit
    MaxDrawdown = 10
    MaxAlerts = 1
    MaxLossSteps = 2
    Series <- SomeSeries
    MaxWindow = 2
    MaxIterations = 3
    NoJob = NoJob
INVARIANTS
    JobsTypeOK
    IdsIncrease
    BatchStopsAtLimits
    ReplayWindowsAdvance
    StoredCandlesAscend
