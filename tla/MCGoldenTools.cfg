SPECIFICATION ToolsSpec
CONSTANTS
    a1 = a1
    node = node
    App = {a1}
    BT = {b1}
    Entity <- Entities
    User = {u1}
    Call = {c1}
    Population <- Populations
    Shift = 2
    TTL = 2
    MaxTime = 2
    MaxSets = 2
    MaxCrash = 2
    MaxFaults = 1
INVARIANTS
    RestartForgets
    ClearedStaysGone
PROPERTIES
    PinnedIsNewest
