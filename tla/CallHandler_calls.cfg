\* Two calls at once and one place for the agent.
SPECIFICATION FairSpec
CONSTANTS
    c1 = c1
    c2 = c2
    Calls = {c1, c2}
    CallLimit = 1
    ClosedMemory = 1
    EndMeets <- Anywhere
    MaxFaults = 2
    MaxRestarts = 1
INVARIANTS
    LimitHolds
    PlacesAreGivenBack
    ClaimedOnce
    NothingStays
    ErrorIsLogged
PROPERTIES
    CallerReachesSomeone
    EveryLogIsClosed
CHECK_DEADLOCK FALSE
