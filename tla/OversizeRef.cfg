SPECIFICATION FairSpec
CONSTANTS
    t = t
    u = u
    p = p
    a = a
    b = b
    c = c
    Node = {a, b}
    Thread = {t, u}
    Post = {}
    ThreadOf <- MCThreadOf
    IdOrder <- MCIdOrder
    Oversize = {t}
    SyncPage = 2
    WantPage = 2
    SyncLimit <- MCSyncByA
    FlushBatch = 9
    MaxBusy = 1
    AirSlots = 2
    MaxFaults = 0
PROPERTIES
    SyncRepairsBoth
CHECK_DEADLOCK FALSE
