SPECIFICATION FairSpec
CONSTANTS
    Config = {c1, c2}
    Invalid = Invalid
    NoConfig = NoConfig
    Child = {s1, s2}
    NoChild = NoChild
    PipeSlots = 1
    MaxFaults = 2
INVARIANTS
    TypeOK
    ShownIsServed
    ApplyRestores
PROPERTIES
    OrphansExit
    QuitEnds
    DeathIsNoticed
CHECK_DEADLOCK FALSE
