\* One call, one request at a time, one card reopened.
SPECIFICATION Spec
CONSTANTS
    c1 = c1
    c2 = c2
    t1 = t1
    t2 = t2
    t3 = t3
    Nobody = Nobody
    Calls = {c1}
    Txns = {t1}
    MaxCards = 3
    MaxReopens = 1
INVARIANT
    OneOpenCardEver
CHECK_DEADLOCK FALSE
