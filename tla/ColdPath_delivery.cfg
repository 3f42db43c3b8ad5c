\* Two dispatchers, one event.
SPECIFICATION FairSpec
CONSTANTS
    e1 = e1
    e2 = e2
    d1 = d1
    d2 = d2
    r1 = r1
    r2 = r2
    Purger = Purger
    Nobody = Nobody
    Events = {e1}
    Dispatchers = {d1, d2}
    Slots = {r1, r2}
    MaxAttempts = 2
    MaxTrouble = 3
INVARIANTS
    SentWasPushed
    NothingHollow
    RepeatsNeedTrouble
PROPERTIES
    EventsSettle
CHECK_DEADLOCK FALSE
