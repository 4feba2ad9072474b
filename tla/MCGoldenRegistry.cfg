SPECIFICATION Spec
CONSTANTS
    App = {a1}
    BT = {b1, b2}
    TTL = 2
    MaxTime = 4
    MaxSets = 3
    MaxCrash = 2
    MaxFaults = 1
INVARIANTS
    Mirror
PROPERTIES
    GetAnswersInForce
    ImplementsPromise
