\* The log in the order of the calls, across a reconnect.
CONSTANTS
    Prices <- MCPrices
    Quantities <- MCQuantities
    MaxId = 4
    History <- MCHistory
    SnapshotDepth = 3
    MaxBufferedEvents = 3
    Feed <- MCFeed
    FaultKinds = {"disconnect"}
    MaxFaults = 1
SPECIFICATION OrderedRSpec
INVARIANTS
    ReplayReproducesCapture
