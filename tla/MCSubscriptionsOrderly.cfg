SPECIFICATION OrderlySpec
CONSTANTS
    Users = {u1}
    Requests = {q1}
    EventIds <- Ids
    EventTypes <- AllTypes
    EntitlementSets <- AllPayloads
    NewUserTier = "free"
    Null = Null
    Keep = Keep
    OptionalEnds = TRUE
    Grace = 1
    Period = 1
    RetryWindow = 2
    Retention = 2
    MaxClock = 3
CHECK_DEADLOCK FALSE
INVARIANTS
    SubscriberKeepsAccess
PROPERTIES
    LapsedIsDowngraded
