SPECIFICATION MCSpec
CONSTANTS
    Scenarios = {"log"}
    RestartRevision = 1
    MaxSession = 2
    MaxFaults = 2
    Capacity = 2
    MaxRevision = 3
    MailSlots = 2
    Page = {p1, p2}
    Role = {client, primary, backup}
    Client = client
    NoRole = NoRole
    IdSize = 1
    PostIdSize = 1
    FrameMax = 7
    TextMax = 4
    Alphabet = {0, 1, 2, 32, 97, 165, 195}
INVARIANTS
    OnlyEvictedAreMissed
CHECK_DEADLOCK FALSE
