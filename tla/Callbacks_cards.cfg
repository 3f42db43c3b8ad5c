\* One call, three requests at once.
SPECIFICATION FairSpec
CONSTANTS
    c1 = c1
    c2 = c2
    t1 = t1
    t2 = t2
    t3 = t3
    Nobody = Nobody
    Calls = {c1}
    Txns = {t1, t2, t3}
    MaxCards = 3
    MaxReopens = 1
INVARIANTS
    OneOpenCard
    NotedHasCard
    HandedOverOnce
PROPERTIES
    RequestsEnd
CHECK_DEADLOCK FALSE
