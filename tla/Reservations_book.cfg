\* A guest who corrects a wish and the team ask at once for one seat, on neighbouring days and outside every window.
SPECIFICATION FairSpec
CONSTANTS
    r1 = r1
    r2 = r2
    r3 = r3
    m1 = m1
    m2 = m2
    c1 = c1
    c2 = c2
    t1 = t1
    t2 = t2
    t3 = t3
    ta = ta
    tb = tb
    NoCall = NoCall
    NoWindow = NoWindow
    Nobody = Nobody
    AgentIds = {r1, r2}
    TabletIds = {m1}
    Calls = {c1}
    Tables = {}
    Seatings = {{}}
    Slots <- LateTimes
    DayOf <- LateEvening
    WindowOf <- SomeTurn
    MaxGuests = 1
    MaxParty = 1
    Txns = {t1, t2}

INVARIANT
    HeldSeatsFit
PROPERTIES
    ImplementsBook
    RequestsEnd
CHECK_DEADLOCK FALSE
