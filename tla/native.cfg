SPECIFICATION NativeSpec
CONSTANTS
    Class = {c}
    Key = {k1}
    ClassOf <- OneClass
    CommandCapacity = 2
    EventCapacity = 5
    OutCapacity = 1
    Sessions <- BridgeSessions
    NumRooms = 2
    MaxSessions = 2
    MaxSwitches = 2
    MaxTroubles = 1
    MaxRepeats = 1
    Board = {"a"}
    MaxUser = 2
    MaxFaults = 2
    MaxWrites = 1
    TxCapacity = 4
    MaxControl = 2
    MaxTxFaults = 2
INVARIANTS NativeTypeOK NoRepaintOverEdit NoAttemptInTheWay
PROPERTIES IntentEndsForCause BoardFollows BoardSettles
    OnlyTrustedAreOffered BoardReconnects RepairFlows
CHECK_DEADLOCK FALSE
