SPECIFICATION ScenarioSpec
CONSTANTS
    Scenarios = {"post", "large", "overlap"}
    t = t
    u = u
    p = p
    a = a
    b = b
    c = c
    Node = {a, b}
    Thread = {t}
    Post = {p}
    ThreadOf <- MCThreadOf
    IdOrder <- MCIdOrder
    Oversize = {}
    SyncPage = 1
    WantPage = 2
    SyncLimit <- MCSyncByA
    FlushBatch = 1
    MaxBusy = 1
    AirSlots = 2
    MaxFaults = 1
INVARIANTS
    TypeOK
    AckMeansCommitted
    PostAfterThread
    RequestsNotDuplicated
    WantServed
    RepairIsCarried
PROPERTIES
    OutboxKeepsUncommitted
    ReplicationSpec
CHECK_DEADLOCK FALSE
