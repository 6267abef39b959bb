SPECIFICATION Spec
CONSTANTS
    Users = {u1}
    Requests = {q1, q2}
    EventIds <- Ids
    EventTypes <- RacingTypes
    EntitlementSets <- RacingPayloads
    NewUserTier = "free"
    Null = Null
    Keep = Keep
    Grace = 1
    Period = 1
    RetryWindow = 1
    Retention = 1
    OptionalEnds = FALSE
    MaxClock = 3
SYMMETRY Symmetry
CHECK_DEADLOCK FALSE
INVARIANTS
    TypeOK
    FoundAreLapsed
    BoundedReapplication
PROPERTIES
    LifetimeSafe
    SyncAligns
