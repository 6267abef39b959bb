SPECIFICATION MCSpec
CONSTANTS
    Callers = {c1, c2, c3}
    Values = {v1, v2}
    None = None
    Failure = Failure
    EscrowRequests = {k1, k2, k3}
    MaxDataKey = 2
    Sessions = {s1}
    LinkRequests = {d1, d2, d3, d4}
    Nothing = Nothing
    Runs = {1, 2}
    SlotsPerDay = 2
    RunEvery = 30
    Window = 15
    Moments = 2
    FreqDays = 2
    Times = {15, 50}
    DefaultTime = 50
    Zones <- RunnerZones
    DefaultZone = 0
    PatchRequests = {1, 2}
    MaxRequests = 2
CHECK_DEADLOCK FALSE
INVARIANTS
    ServicesTypeOK
    TrailIsTrue
    EscrowKeepsUp
    OneHandover
    RemindersInTime
    SpacedOut
PROPERTIES
    Coalesces
    AskersAnswered
    RevokedStaysClosed
    NeverReopened
    SessionsEnd
    OffMeansOff
    RemindersGoOn
