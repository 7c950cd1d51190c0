SPECIFICATION TradingSpec
CONSTANTS
    t1 = t1
    t2 = t2
    Ticker = {t1, t2}
    Price <- MCPrice
    Capital = 8
    MaxPosition = 50
    MaxExposure = 80
    DailyLoss = 15
    Reserve = 10
    MandatoryStop = 8
    MaxConcurrent = 2
    MaxLeverage = 10
    MinOrder = 2
    NoDay = NoDay
    MaxDay = 1
    Lots <- MCLots
    MaxTrades = 3
    Torn = Torn
    NotRunning = NotRunning
    SizePct <- MCScanSizes
    MaxDailyTrades = 1
    MaxAttempts = 2
    MaxCalls = 3
    MaxQty = 1
    NoScan = NoScan
    NoCall = NoCall
    EntrySize <- MCSizes
    NoExit = NoExit
    MaxBars = 4
SYMMETRY Symmetry
INVARIANTS NeverOverdrawn StopsHonoured OrdersMatchCalls
PROPERTIES ExposureWithinLimit BreakerHolds
CHECK_DEADLOCK FALSE
