SPECIFICATION FairSpec
CONSTANTS
    N = 2
    MaxTasks = 2
    MaxRetries = 1
    Rooms <- MixedRooms
CHECK_DEADLOCK FALSE
INVARIANTS TypeOK SlotHasTask
PROPERTIES SynchronizedMeansHeld ImplementsCausalLog Converges
