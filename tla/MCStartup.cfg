SPECIFICATION MCSpec
CONSTANTS
    k1 = k1
    k2 = k2
    a1 = a1
    a2 = a2
    Controller = {k1, k2}
    App = {a1, a2}
    Home <- AllHere
    Scope = {a1, a2}
    Page = 1
    Parallel = 1
    MemTTL = 1
    DiskFactor = 2
    MaxDelay = 1
    Call = {c1}
    MaxTime = 5
    MaxChanges = 1
    MaxFaults = 1
    Order <- Both
    WithRbac = {k1}
    Stdio = TRUE
    MaxRestarts = 1
INVARIANTS
    ToldWithinAge
    KnownUntilExpiry
    NonePassedOver
PROPERTIES
    StartupDecides
    FanOutsReturn
CHECK_DEADLOCK FALSE
