SPECIFICATION FairSpec
CONSTANTS
    Caller = {c1, c2}
    c1 = c1
    c2 = c2
    Loop = Loop
    None = None
    Lifetime = 2
    RefreshBefore = 1
    RetryDelay = 1
    IdleDelay = 1
    MaxVaultTries = 2
    MaxTries = 2
    MaxEvents = 4
INVARIANTS
    TypeOK
    SingleRefresh
    RetryUsesNewToken
PROPERTIES
    NewTokenIsNewest
    RefreshPaced
    CallReturns
