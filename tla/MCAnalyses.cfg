SPECIFICATION AnalysesSpec
CONSTANTS
    Guid = {g1, g2, g3}
    ResponseMs = {750, 751}
    StartHour = {12, 23, 24, 47}
    Method = {m1, m2, m3}
    SegmentMs = {20, 100}
    MaxChain = 3
    Millis = {9, 10, 2001}
    Errors = {0, 10, 11, 20}
    Calls = {100, 101}
    Count = {0, 1, 2}
    MaxListed = 2
    AppName = {"pay", "pay-eu", "pay/eu", "[p]ay"}
    Name = {"pay", "pay-eu", "[p]ay"}
    Safe <- Safes
    Found <- Patterns
    Alphabet <- Alphabets
    Cause = {"pool", "pool exhausted"}
    Occurs <- Occurrences
    Limit = 2
    LastSecond = 3
    MaxRunbooks = 4
INVARIANTS
    BaselineIsSound
    ReportIsGrounded
    FailuresPlaced
    WarningIsRight
