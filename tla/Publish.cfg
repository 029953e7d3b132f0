SPECIFICATION FairScenarioSpec
CONSTANTS
    Scenarios = {"publish"}
    t = t
    u = u
    p = p
    a = a
    b = b
    c = c
    Node = {a, b}
    Thread = {t}
    Post = {p}
    ThreadOf <- MCThreadOf
    IdOrder <- MCIdOrder
    Oversize = {}
    SyncPage = 1
    WantPage = 2
    SyncLimit <- MCSyncByA
    FlushBatch = 9
    MaxBusy = 1
    AirSlots = 2
    MaxFaults = 2
PROPERTIES
    PublishedPostArrives
    Silence
CHECK_DEADLOCK FALSE
