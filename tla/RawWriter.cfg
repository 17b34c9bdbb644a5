\* Rotation, crashes, restarts and manifests; every failure but that of a flush,
\* whose result nobody reads.  The process may end for good.
CONSTANTS
    BlockTarget = 2
    MaxBucket = 2
    MaxRecords = 3
    MaxRuns = 2
    FaultKinds = {"open", "block", "start", "manifest"}
    MaxFaults = 1
SPECIFICATION WSpec
INVARIANTS
    RotationKeepsTheStream
    RunsHaveNoHoles
    ManifestsAreTrue
    AcceptedChainHasNoHole
    CleanExitIsComplete
PROPERTY CaptureIsNeverRewritten
CHECK_DEADLOCK FALSE
