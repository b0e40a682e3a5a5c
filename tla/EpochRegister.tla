--------------------------- MODULE EpochRegister ----------------------------
(***************************************************************************)
(* What the negotiation of a pair session promises, whatever is lost,      *)
(* duplicated or forgotten in a crash: each placement climbs through the   *)
(* epochs, its durable floor first, and opens an epoch only as its floor   *)
(* and above everything it opened before; whoever opens a session opens it *)
(* with the same epoch.  RoomSession implements it.                        *)
(***************************************************************************)
EXTENDS Naturals

CONSTANTS Placement, Session

VARIABLES
    floor,   \* floor[p]: the highest epoch p has committed itself to (0: none)
    opened   \* opened[p]: the <<epoch, session>> pairs p has opened

vars == <<floor, opened>>

Init ==
    /\ floor = [p \in Placement |-> 0]
    /\ opened = [p \in Placement |-> {}]

Raise(p) ==
    /\ floor'[p] > floor[p]
    /\ floor' = [floor EXCEPT ![p] = floor'[p]]
    /\ UNCHANGED opened

Open(p) ==
    \E s \in Session :
        /\ floor[p] > 0
        /\ \A x \in opened[p] : x[1] < floor[p]
        /\ \A q \in Placement : \A x \in opened[q] : x[2] = s => x[1] = floor[p]
        /\ opened' = [opened EXCEPT ![p] = @ \cup {<<floor[p], s>>}]
        /\ UNCHANGED floor

Next == \E p \in Placement : Raise(p) \/ Open(p)

Spec == Init /\ [][Next]_vars
=============================================================================
