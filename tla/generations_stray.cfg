\* The smallest race of a recovery with an enter.
SPECIFICATION GenerationsSpec
CONSTANTS
    Room = {r1, r2}
    NoRoom = none
    Attempts = 2
    MaxCommands = 2
    MaxFailures = 1
    MaxFaults = 0
INVARIANT NoStrayWorker
CHECK_DEADLOCK FALSE
