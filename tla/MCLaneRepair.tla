---------------------------- MODULE MCLaneRepair ----------------------------
(* Rooms of two placements, for TLC.                                         *)
EXTENDS LaneRepair

Room(first, second, records, errors) ==
    [kind |-> <<first, second>>, entries |-> records, faults |-> errors]

MixedRooms ==
    {Room("browser", "browser", 2, 0), Room("browser", "browser", 1, 1),
     Room("plugin", "browser", 2, 1),
     Room("desktop", "browser", 1, 0), Room("desktop", "browser", 0, 1),
     Room("browser", "desktop", 2, 0)}

PluginRooms == {Room("plugin", "plugin", 2, 0)}

=============================================================================
