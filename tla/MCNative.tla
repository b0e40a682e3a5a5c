------------------------------ MODULE MCNative ------------------------------
(***************************************************************************)
(* The parts of the plugin's native bridge share no state at the level at  *)
(* which they are modelled: the pitch bridge, the repair of a board, the   *)
(* supervision of its link and the transmit scheduler.  A behaviour of     *)
(* this instance is a behaviour of one of them, named by part, while the   *)
(* others stay in their initial state.                                     *)
(***************************************************************************)
EXTENDS PluginBridge, BoardRepair, BoardLink, BleTx

VARIABLE part

nativeVars == <<bridgeVars, repairVars, linkVars, txVars, part>>

OneClass == [k \in Key |-> CHOOSE c \in Class : TRUE]

\* A session of the pitch bridge and its bounds.
Zero == [keys |-> 0, remote |-> 0, frames |-> 0, knobs |-> 0, failures |-> 0,
         rooms |-> 0, boards |-> 0, policies |-> 0]

Session(mode, output, bounds) == [mode |-> mode, output |-> output, left |-> bounds]

Idle == Session("toggle", FALSE, Zero)

\* A key against a knob; the gate with notes heard, once with a change of policy
\* and once with another peer's edit; a room left or changed under an edit, also
\* while a board is lost; a knob in a room that is left; more edits than a queue
\* holds; edits of other peers while a board is lost; an admission that fails for
\* a key and for a knob, against another peer's edit, and for a key pressed again
\* meanwhile; a peer's frame against a knob; runs.
BridgeSessions ==
    {Idle,
     Session("toggle", FALSE, [Zero EXCEPT !.keys = 1, !.knobs = 1]),
     Session("gate", TRUE, [Zero EXCEPT !.keys = 1, !.policies = 1]),
     Session("gate", TRUE, [Zero EXCEPT !.keys = 1, !.remote = 1]),
     Session("toggle", FALSE, [Zero EXCEPT !.keys = 1, !.rooms = 1, !.boards = 1]),
     Session("toggle", FALSE, [Zero EXCEPT !.knobs = 1, !.rooms = 1]),
     Session("toggle", FALSE, [Zero EXCEPT !.keys = 3]),
     Session("toggle", FALSE, [Zero EXCEPT !.remote = 2, !.boards = 1]),
     Session("toggle", FALSE, [Zero EXCEPT !.keys = 1, !.failures = 1, !.remote = 1]),
     Session("toggle", FALSE, [Zero EXCEPT !.keys = 2, !.failures = 1]),
     Session("toggle", FALSE, [Zero EXCEPT !.knobs = 1, !.failures = 1, !.remote = 1]),
     Session("toggle", FALSE, [Zero EXCEPT !.knobs = 1, !.frames = 1]),
     Session("toggle", FALSE, [Zero EXCEPT !.knobs = 3])}

NativeInit ==
    /\ part \in {"bridge", "repair", "link", "tx"}
    /\ BridgeInit /\ RepairInit /\ LinkInit /\ TxInit
    /\ part # "bridge" => left = Idle.left

OnlyBridge == part = "bridge" /\ UNCHANGED <<repairVars, linkVars, txVars, part>>

OnlyRepair == part = "repair" /\ UNCHANGED <<bridgeVars, linkVars, txVars, part>>

OnlyLink == part = "link" /\ UNCHANGED <<bridgeVars, repairVars, txVars, part>>

OnlyTx == part = "tx" /\ UNCHANGED <<bridgeVars, repairVars, linkVars, part>>

NativeNext ==
    \/ OnlyBridge /\ BridgeNext
    \/ OnlyRepair /\ RepairNext
    \/ OnlyLink /\ LinkNext
    \/ OnlyTx /\ TxNext

\* The fairness of the part that runs (BridgeFairness, RepairFairness,
\* LinkFairness, TxFairness).
NativeFairness ==
    /\ WF_bridgeVars(part = "bridge" /\ TakesInput) /\ WF_bridgeVars(part = "bridge" /\ Reconcile)
    /\ WF_bridgeVars(part = "bridge" /\ SendTarget) /\ WF_bridgeVars(part = "bridge" /\ PollsRoom)
    /\ WF_bridgeVars(part = "bridge" /\ PollsBoard) /\ WF_bridgeVars(part = "bridge" /\ HostReceives)
    /\ WF_bridgeVars(part = "bridge" /\ Commanded) /\ WF_bridgeVars(part = "bridge" /\ PublishRepair)
    /\ WF_bridgeVars(part = "bridge" /\ BoardUp) /\ WF_bridgeVars(part = "bridge" /\ BoardApplies)
    /\ WF_repairVars(part = "repair" /\ Composite) /\ WF_repairVars(part = "repair" /\ RoomDriver)
    /\ WF_repairVars(part = "repair" /\ HostEvents) /\ WF_repairVars(part = "repair" /\ BoardTakes)
    /\ WF_repairVars(part = "repair" /\ Deadline) /\ WF_linkVars(part = "link" /\ Transport)
    /\ WF_linkVars(part = "link" /\ Drive) /\ WF_linkVars(part = "link" /\ Transmit)
    /\ WF_linkVars(part = "link" /\ TickPending) /\ WF_linkVars(part = "link" /\ TickLost)
    /\ \A a \in Board :
          /\ WF_linkVars(part = "link" /\ TickScan(a))
          /\ WF_linkVars(part = "link" /\ TrustBoard(a))
    /\ WF_txVars(part = "tx" /\ Enqueue) /\ WF_txVars(part = "tx" /\ PrepareNext)
    /\ WF_txVars(part = "tx" /\ ConfirmPending)

NativeSpec == NativeInit /\ [][NativeNext]_nativeVars /\ NativeFairness

-----------------------------------------------------------------------------
\* The state of every part has the shape of its structs.
NativeTypeOK == BridgeTypeOK /\ RepairTypeOK /\ LinkTypeOK /\ TxTypeOK

=============================================================================
