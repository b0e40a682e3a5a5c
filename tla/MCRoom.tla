------------------------------- MODULE MCRoom -------------------------------
(***************************************************************************)
(* The room in one device: the session it keeps with a peer, the lane      *)
(* replicas under it and the window over it.  They share no state at the   *)
(* level at which they are modelled, so a behaviour of this instance is a  *)
(* behaviour of one of the three, named by part, while the others stay in  *)
(* their initial state.                                                    *)
(***************************************************************************)
EXTENDS RoomSession, RoomReplica, RoomWindow

VARIABLE part

roomVars == <<vars, replicaVars, windowVars, part>>

RoomInit ==
    /\ part \in {"session", "replica", "window"}
    /\ Init /\ ReplicaInit /\ WindowInit
    /\ part # "window" => platform = "browser"

RoomNext ==
    \/ part = "session" /\ Next /\ UNCHANGED <<replicaVars, windowVars, part>>
    \/ part = "replica" /\ ReplicaNext /\ UNCHANGED <<vars, windowVars, part>>
    \/ part = "window" /\ WindowNext /\ UNCHANGED <<vars, replicaVars, part>>

RoomSpec == RoomInit /\ [][RoomNext]_roomVars

-----------------------------------------------------------------------------
\* Two edits, an edit and a fault, or two faults.
TwoTrials == {b \in [plain : {0}, edits : 0 .. 2, faults : 0 .. 2] : b.edits + b.faults = 2}

\* Two degrees of one tuning and one of another.
Pitches == {[tuning |-> "t", degree |-> 1], [tuning |-> "t", degree |-> 2],
            [tuning |-> "u", degree |-> 1]}

FirstDegrees == {p \in Pitches : p.degree = 1}

\* The replicas and the window have the shape of their structs, and what a
\* replica holds is causally closed.
RoomTypeOK == TypeOK /\ ReplicaTypeOK /\ WindowTypeOK

=============================================================================
