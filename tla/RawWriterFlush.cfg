\* One run in which a flush of the stream may fail.  The process may end.
CONSTANTS
    BlockTarget = 2
    MaxBucket = 2
    MaxRecords = 3
    MaxRuns = 1
    FaultKinds = {"flush"}
    MaxFaults = 1
SPECIFICATION WSpec
INVARIANT AcceptedChainHasNoHole
CHECK_DEADLOCK FALSE
