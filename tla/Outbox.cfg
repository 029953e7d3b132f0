SPECIFICATION FairSpec
CONSTANTS
    Message = {m1, m2}
    Base = 1
    MaxDelay = 3
    AttemptCap = 3
    MaxFaults = 1
INVARIANTS
    TypeOK
    BacksOff
PROPERTIES
    UserFirst
    NoneStarves
