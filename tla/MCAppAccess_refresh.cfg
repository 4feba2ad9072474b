SPECIFICATION Spec
CONSTANTS
    c1 = c1
    c2 = c2
    u1 = u1
    u2 = u2
    g1 = g1
    r1 = r1
    a1 = a1
    a2 = a2
    Caller = {c1, c2}
    User = {u1}
    Group = {g1}
    Role = {r1}
    App = {a1, a2}
    None = None
    Edge <- MCEdge
    InitGrants <- MCInitial
    TTL = 1
    MaxTime = 1
    MaxChanges = 2
    MaxRefresh = 1
SYMMETRY CallerSymmetry
PROPERTY RefreshTakesEffect
