\* A call and two tablets ask for the two seats of a window past midnight and for the same tables.
SPECIFICATION Spec
CONSTANTS
    r1 = r1
    r2 = r2
    r3 = r3
    m1 = m1
    m2 = m2
    c1 = c1
    c2 = c2
    t1 = t1
    t2 = t2
    t3 = t3
    ta = ta
    tb = tb
    NoCall = NoCall
    NoWindow = NoWindow
    Nobody = Nobody
    AgentIds = {r1}
    TabletIds = {m1, m2}
    Calls = {c1}
    Tables = {ta, tb}
    Seatings <- TwoTables
    Slots <- Times
    DayOf <- Evening
    WindowOf <- OneTurn
    MaxGuests = 2
    MaxParty = 1
    Txns = {t1, t2}
SYMMETRY Symmetry
INVARIANTS
    SeatsHold
    OneEvent
    TableOnce
PROPERTIES
    OffMeansOff
    BookedTablesExist
CHECK_DEADLOCK FALSE
