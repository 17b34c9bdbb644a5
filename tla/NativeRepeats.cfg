\* As DepthSync.cfg, for a venue that repeats updates: the replay only.
CONSTANTS
    Prices <- MCPrices
    Quantities <- MCQuantities
    MaxId = 4
    History <- TouchHistory
    SnapshotDepth = 1
    MaxBufferedEvents = 2
    Grid = 2
    OrderLots = 1
    Markouts = {2, 6}
    FillMarks = {2, 5}
    PostFills = {1}
    FillHorizon = 6
    AdverseThreshold = 1
    Never = 99
    PlacementInterval = 2
    ObservationWindow = 6
    Percents = {0, 50, 100}
    Horizons = {2, 4}
    RecordedDepths <- MCDepths
    RecordedSnapshots = {1, 3}
    Trades <- MCTrades
    Lead <- MCLead
    Gaps = {1, 3}
    Repeats = TRUE
    MaxRecords = 2
SPECIFICATION RecordsSpec
INVARIANTS EpisodesEndInSegment
CHECK_DEADLOCK FALSE
