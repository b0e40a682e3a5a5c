\* One socket that drops.
SPECIFICATION FairSpec
CONSTANTS
    Lower = lower
    Higher = higher
    Remembered = 2
    MaxFaults = 1
    MaxLate = 0
PROPERTY DiscoveredIsJoined
