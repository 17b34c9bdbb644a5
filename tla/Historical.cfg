\* Objects of two pieces with two attempts and up to three faults; two hours of
\* three ticks, the research range starting with the second.
CONSTANTS
    Size = 2
    Attempts = 2
    MaxFaults = 3
    Prices <- MCPrices
    Quantities <- MCQuantities
    MaxId = 5
    History <- SixIds
    SnapshotDepth = 3
    MaxBufferedEvents = 9
    Depths <- FourUpdates
    SnapshotIds = {1, 3, 4, 5}
    Times = {2, 3, 4, 5}
    HourLength = 3
    StartTime = 3
    EndTime = 5
    Lookback = 1
    MaxSnapshots = 3
    MaxUpdates = 4
    StageA <- MCStageA
    Development <- MCDevelopment
    Validation <- MCValidation
    Holdout <- MCHoldout
    MaxEdits = 2
    MaxCrashes = 1
    MaxVersion = 2
    MaxDeaths = 2
SPECIFICATION MCSpec
INVARIANTS
    PackerTracksReplay
    CleanAuditReplays
    CachedHourIsWhole
    AnalysedDaysAreWhole
    HoldoutIsOpenedFirst
    LaterStagesUseTheFrozenModel
    ReceiptsStayTrue
PROPERTIES
    PackedStampsAdvance
    ResumedDownloadsFinishOrWait
CHECK_DEADLOCK FALSE
