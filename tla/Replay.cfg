\* The collector's threads with every kind of fault, two of them at most, and
\* the replayer over the log of every interleaving and every prefix of it.
CONSTANTS
    Prices <- MCPrices
    Quantities <- MCQuantities
    MaxId = 4
    History <- MCHistory
    SnapshotDepth = 3
    MaxBufferedEvents = 2
    Feed <- MCFeed
    FaultKinds = {"connect", "disconnect", "skip", "malformed", "rest", "write", "flush", "trade"}
    MaxFaults = 2
SPECIFICATION RSpec
INVARIANTS
    SnapshotRequestNotLost
    LiveBookHasConnection
    SnapshotOfThisConnection
    ReplayLiveIsExchangeBook
    OrderlyLogReproducesCapture
