\* A bridge that keeps running or stays off for ever: corrections, a cancellation, fewer failures than pickups.
SPECIFICATION FairSpec
CONSTANTS
    o1 = o1
    Orders <- OneOrder
    MaxTickets = 3
    MaxRevision = 2
    MaxAttempts = 3
    ClaimLimit = 2
    MaxTrouble = 1
    MaxCrashes = 0
    LateAcks = FALSE
INVARIANTS
    NoSecondSlip
    CancelledSlipHasNote
PROPERTIES
    CardSettles
    LocksAreReleased
    KitchenGetsIt
CHECK_DEADLOCK FALSE
