\* Each program of the research path over its small inputs.
CONSTANTS
    Interval = 2
    Window = 3
    Start = 1
    End = 9
    HasEnd = TRUE
    MaxStamp = 9
    MaxRecords = 3
    TradeRows <- BothSides
    MaxRows = 3
    MaxPrice = 3
    MaxLots = 6
    MaxQty = 2
    MaxQueue = 2
    MaxTime = 4
    RowKinds <- Kinds
    DayLength = 4
    Latencies = {0, 50, 100}
    Horizons = {100, 200}
    Notional = 12
    QuantityStep = 1
    Quantity = 2
    Soft = 3
    Hard = 3
    Lifetime = 2
    MaxPlacement = 2
    MaxSchedule = 3
    DayRows = 4
    Step = 2
    CancelLatency = 2
    Holds = {0, 2}
    MaxHold = 4
    MaxDelay = 1
    QuoteLife = 3
SPECIFICATION MCSpec
INVARIANTS
    NoLookAhead
    RowsAreTheGrid
    VolumesAreRecent
    EvaluationIsSequential
    SignalsAccountedFor
    PositionsDoNotOverlap
    TradesStayInSegment
    LegsAreBestPrice
    HardLimitHolds
    DecisionsKnowThePast
    ValidTripsAreCausal
CHECK_DEADLOCK FALSE
