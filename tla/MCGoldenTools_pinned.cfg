SPECIFICATION ToolsSpec
CONSTANTS
    a1 = a1
    node = node
    App = {a1}
    BT = {b1}
    Entity <- Entities
    User = {u1}
    Call = {c1}
    Population <- Populations
    Shift = 2
    TTL = 2
    MaxTime = 1
    MaxSets = 1
    MaxCrash = 0
    MaxFaults = 0
PROPERTIES
    SetGoldenTakesEffect
