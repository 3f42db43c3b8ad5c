\* One order; failures, a restart, and answers later than the lease.
SPECIFICATION Spec
CONSTANTS
    o1 = o1
    Orders <- OneOrder
    MaxTickets = 3
    MaxRevision = 1
    MaxAttempts = 2
    ClaimLimit = 2
    MaxTrouble = 1
    MaxCrashes = 1
    LateAcks = TRUE
INVARIANTS
    GreenMeansNewest
    PaperNeverRunsBack
PROPERTY
    ImplementsCard
CHECK_DEADLOCK FALSE
