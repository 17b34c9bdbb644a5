\* The baseline latency of 50 ms with the shortest diagnostic horizon.
CONSTANTS
    RowKinds <- Kinds
    DayLength = 3
    Latencies = {50}
    Horizons = {100}
    Notional = 12
    QuantityStep = 1
SPECIFICATION ESpec
INVARIANTS
    EntryBeforeExit
CHECK_DEADLOCK FALSE
