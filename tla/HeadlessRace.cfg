SPECIFICATION Spec
CONSTANTS
    Config = {c1, c2}
    Invalid = Invalid
    NoConfig = NoConfig
    Child = {s1, s2}
    NoChild = NoChild
    PipeSlots = 1
    MaxFaults = 0
PROPERTIES
    HeadlessNotOverDesktop
CHECK_DEADLOCK FALSE
