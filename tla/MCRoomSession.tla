--------------------------- MODULE MCRoomSession ---------------------------
(* The session of two placements, for TLC.                                   *)
EXTENDS RoomSession

\* Two faults, or one beside a plain command or an edit.
FaultBudgets ==
    {[plain |-> 0, edits |-> 0, faults |-> 2], [plain |-> 1, edits |-> 0, faults |-> 1],
     [plain |-> 0, edits |-> 1, faults |-> 1]}

\* Two edits, and one fault.
EditBudgets == {[plain |-> 0, edits |-> 2, faults |-> 1]}

=============================================================================
