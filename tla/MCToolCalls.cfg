SPECIFICATION Spec
CONSTANTS
    c1 = c1
    c2 = c2
    u1 = u1
    k1 = k1
    k2 = k2
    Call = {c1, c2}
    User = {u1}
    Controller = {k1, k2}
    Configured = {k1}
    Tools <- MCTools
    NameSets <- MCNameSets
    InitHeld <- MCInitHeld
    SessionTTL = 2
    MaxLookup = 1
    MaxTime = 3
    MaxChanges = 1
    MaxRestarts = 1
SYMMETRY CallSymmetry
INVARIANTS
    TypeOK
    
PROPERTIES
    AdmittedByHeldRole
    RefusedByHeldRole
