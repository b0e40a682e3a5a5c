SPECIFICATION LinkSpec
CONSTANTS
    Board = {"a", "b"}
    MaxUser = 2
    MaxFaults = 0
    MaxWrites = 0
PROPERTIES BoardConnects
CHECK_DEADLOCK FALSE
