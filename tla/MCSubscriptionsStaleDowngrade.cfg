SPECIFICATION Spec
CONSTANTS
    Users = {u1}
    Requests = {q1}
    EventIds <- Ids
    EventTypes <- RacingTypes
    EntitlementSets <- RacingPayloads
    NewUserTier = "free"
    Null = Null
    Keep = Keep
    OptionalEnds = FALSE
    Grace = 1
    Period = 1
    RetryWindow = 1
    Retention = 1
    MaxClock = 3
CHECK_DEADLOCK FALSE
PROPERTIES
    DowngradesOnlyExpired
