\* Two tablets, two rooms and a confirmation; one answer, page or transaction is lost.
SPECIFICATION FairSpec
CONSTANTS
    s1 = s1
    s2 = s2
    s3 = s3
    hall = hall
    terrace = terrace
    t1 = t1
    t2 = t2
    t3 = t3
    n1 = n1
    n2 = n2
    n3 = n3
    b1 = b1
    None = None
    NoName = NoName
    Sheets = {s1, s2, s3}
    Areas = {hall, terrace}
    Tables = {t1, t2, t3}
    Names = {n1, n2, n3}
    Bookings = {b1}
    AreaOf <- OpenRooms
    RoomOf <- Rooms
    FirstPlan <- Furnished
    Drafts <- Drawn
    Seats <- BothTables
    MaxEdits = 2
    MaxFaults = 1
INVARIANTS
    QuietIsStored
    ChecksSuffice
PROPERTIES
    NobodyOverwritesUnseen
    SavesEnd
CHECK_DEADLOCK FALSE
