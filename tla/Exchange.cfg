SPECIFICATION FairScenarioSpec
CONSTANTS
    Scenarios = {"each", "answers", "pages"}
    t = t
    u = u
    p = p
    a = a
    b = b
    c = c
    Node = {a, b}
    Thread = {t, u}
    Post = {}
    ThreadOf <- MCThreadOf
    IdOrder <- MCIdOrder
    Oversize = {}
    SyncPage = 1
    WantPage = 2
    SyncLimit <- MCSyncByA
    FlushBatch = 9
    MaxBusy = 1
    AirSlots = 1
    MaxFaults = 1
PROPERTIES
    SyncRepairsBoth
    Silence
CHECK_DEADLOCK FALSE
