SPECIFICATION Spec
CONSTANTS
    Config = {c1, c2}
    Node = {a, b}
    Channel = {x, y}
    Request = {r1}
    MaxOpens = 2
    NoConfig = NoConfig
    NoNode = NoNode
INVARIANTS
    TypeOK
    OneConnection
    ObserverIsCurrent
    ObserverIsBound
    SavedIsLive
SYMMETRY Symmetry
CHECK_DEADLOCK FALSE
