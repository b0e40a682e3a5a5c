SPECIFICATION HostSpec
CONSTANTS
    MaxRevision = 2
    MaxPredicted = 1
    MaxEpoch = 2
    Target = {t1, t2}
    SlotCapacity = 1
    QueueCapacity = 1
    MaxPresses = 2
    MaxGeneration = 2
    Room = {r1, r2}
    NoRoom = none
    Attempts = 2
    MaxCommands = 2
    MaxFailures = 2
    MaxFaults = 1
    InboxCapacity = 5
    Resets = FALSE
    LightTraffic = TRUE
INVARIANTS HostTypeOK ShowsTheLatest OnlyCapacityRefuses RoomIsTheWish
    FeedbackFollowsRoom
PROPERTIES NeverGoesBack ResetArrives OutcomeIsExact PressSettles Recovers
    RequestsAnswered
CHECK_DEADLOCK FALSE
