\* A correction of an order sent again after a lost answer.
SPECIFICATION Spec
CONSTANTS
    o1 = o1
    Orders <- OneOrder
    MaxTickets = 3
    MaxRevision = 1
    MaxAttempts = 2
    ClaimLimit = 2
    MaxTrouble = 1
    MaxCrashes = 0
    LateAcks = FALSE
PROPERTY
    CorrectionOfASlipSaysSo
CHECK_DEADLOCK FALSE
