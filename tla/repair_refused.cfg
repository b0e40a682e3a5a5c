SPECIFICATION FairSpec
CONSTANTS
    N = 2
    MaxTasks = 2
    MaxRetries = 1
    Rooms <- PluginRooms
CHECK_DEADLOCK FALSE
PROPERTIES Converges
