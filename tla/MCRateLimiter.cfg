SPECIFICATION Spec
CONSTANTS
    c1 = c1
    c2 = c2
    u1 = u1
    u2 = u2
    t1 = t1
    Caller = {c1, c2}
    User = {u1, u2}
    Team = {t1}
    Global = Global
    NoTeam = NoTeam
    UserOf <- MCUserOf
    TeamOf <- MCTeamOf
    Refill <- MCRefill
    Cap <- MCCap
    Weight = {1, 2}
    IdleTTL = 2
    PruneInterval = 3
    MaxTime = 4
INVARIANTS
    TypeOK
    WindowBound
    WaitBound
PROPERTIES
    ImplementsBuckets
    PaidInBetween
