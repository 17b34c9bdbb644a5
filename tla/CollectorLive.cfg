\* Progress of the threads under their fairness and the calls they make, one fault at most.
CONSTANTS
    Prices <- MCPrices
    Quantities <- MCQuantities
    MaxId = 4
    History <- MCHistory
    SnapshotDepth = 3
    MaxBufferedEvents = 2
    Feed <- MCFeed
    FaultKinds = {"connect", "disconnect", "skip", "malformed", "rest", "write", "flush", "trade"}
    MaxFaults = 1
SPECIFICATION FairCSpec
PROPERTIES
    OnlyLegalCalls
    SnapshotServed
    StopEnds
