\* Any genuine message at any time to the synchronizer, one level per side in a
\* snapshot; and the replay of a capture with its three observers, three records
\* after the ones that open its first segment.
CONSTANTS
    Prices <- MCPrices
    Quantities <- MCQuantities
    MaxId = 4
    History <- TouchHistory
    SnapshotDepth = 1
    MaxBufferedEvents = 2
    Grid = 2
    OrderLots = 1
    Markouts = {2, 6}
    FillMarks = {2, 5}
    PostFills = {1}
    FillHorizon = 6
    AdverseThreshold = 1
    Never = 99
    PlacementInterval = 2
    ObservationWindow = 6
    Percents = {0, 50, 100}
    Horizons = {2, 4}
    RecordedDepths <- MCDepths
    RecordedSnapshots = {1, 3}
    Trades <- MCTrades
    Lead <- MCLead
    Gaps <- MCGaps
    Repeats = FALSE
    MaxRecords = 3
SPECIFICATION MCSpec
INVARIANTS
    LiveBookIsExchangeBook
    BufferDiscipline
    LabelsAreTheMidPath
    FillsAgreeWithQueueStudy
    EpisodesAreTheTouch
PROPERTY KeepsPromise
CHECK_DEADLOCK FALSE
