\* One socket that drops, one placement that is reopened or one connection that
\* breaks, and one late message of the closed placement.
SPECIFICATION FairSpec
CONSTANTS
    Lower = lower
    Higher = higher
    Remembered = 2
    MaxFaults = 1
    MaxLate = 1
INVARIANTS TypeOK TrackerFollows
PROPERTY LinkSettles
