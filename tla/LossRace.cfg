SPECIFICATION Spec
CONSTANTS
    Config = {c1}
    Node = {a}
    Channel = {x}
    Request = {}
    MaxOpens = 1
    NoConfig = NoConfig
    NoNode = NoNode
INVARIANT
    LossEndsService
CHECK_DEADLOCK FALSE
