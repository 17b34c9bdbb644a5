\* Orders of two lots, of which a replacement snapshot may leave one filled.
CONSTANTS
    Quantity = 2
    Soft = 3
    Hard = 3
    Lifetime = 2
    MaxPlacement = 2
    MaxSchedule = 3
SPECIFICATION MSpec
INVARIANTS
    PartialFillsCounted
CHECK_DEADLOCK FALSE
