SPECIFICATION ServiceFairSpec
CONSTANTS
    InboxCapacity = 4
    Resets = TRUE
    LightTraffic = TRUE
PROPERTIES
    StoreAnswered
CHECK_DEADLOCK FALSE
