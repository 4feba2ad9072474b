SPECIFICATION MCSpec
CONSTANTS
    Key = {bts, violations}
    Forceable = {bts}
    Persisted = {bts}
    MaybeEmpty = {violations}
    CACHE_TTLS <- TTLs
    MemTTL = 2
    DiskFactor = 2
    c1 = c1
    c2 = c2
    Call = {c1, c2}
    MaxTime = 5
    MaxVersion = 3
    MaxRestarts = 1
    MaxFaults = 1
    roles = roles
    lists = lists
    LayerKey = {roles, lists}
    OnDisk = {roles}
    Lifetime <- Lifetimes
    LongerOnDisk = 2
    Reader = {c1, c2}
    LastTime = 2
    MaxFetch = 2
    MaxForget = 1
    MaxCrash = 1
    MaxFault = 1
SYMMETRY CallSymmetry
INVARIANTS
    TypeOK
    ServedAgeBound
PROPERTIES
    ServedMovesForward
    ImplementsOneCopy
