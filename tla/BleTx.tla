------------------------------- MODULE BleTx -------------------------------
(***************************************************************************)
(* The transmit scheduler of the Bluetooth driver (src/bridge/             *)
(* ble_btleplug.rs): whole messages are reserved against a bound, queued   *)
(* by priority and written one fragment at a time.  Control goes first,    *)
(* realtime and repair alternate, a fragment under way is fenced until its *)
(* write is confirmed, and a failed write gives up the whole stream until  *)
(* there is a fresh connection.                                            *)
(*                                                                         *)
(* Messages are two fragments long and their number is bounded only by the *)
(* reservation; bytes are not counted.  A control message is written when  *)
(* a session opens or an attempt closes, so there are few of them.         *)
(***************************************************************************)
EXTENDS Naturals, Sequences

CONSTANTS
    TxCapacity,   \* TX_MESSAGE_CAPACITY
    MaxControl,   \* control messages
    MaxTxFaults   \* writes that fail

ASSUME BleTxAssumption ==
    TxCapacity \in Nat \ {0} /\ MaxControl \in Nat /\ MaxTxFaults \in Nat

VARIABLES
    reserved,  \* queued_messages: reservations that were not dropped
    inbox,     \* write commands on their way to the driver
    lanes,     \* the three queues; a message is the number of fragments left
    fragment,  \* the lane of the pending fragment
    prefer,    \* prefer_realtime
    faulted,   \* the stream is given up until a fresh connection
    txSpent    \* what was used of the bounds

txVars == <<reserved, inbox, lanes, fragment, prefer, faulted, txSpent>>

Lane == {"control", "realtime", "repair"}

NoFragment == "none"

Empty == [l \in Lane |-> <<>>]

TxInit ==
    /\ reserved = 0
    /\ inbox = <<>>
    /\ lanes = Empty
    /\ fragment = NoFragment
    /\ prefer = TRUE
    /\ faulted = TRUE
    /\ txSpent = [control |-> 0, faults |-> 0]

Queued == Len(lanes["control"]) + Len(lanes["realtime"]) + Len(lanes["repair"])

\* write_rx_message: a message is taken only with a reservation.
WriteMessage(l) ==
    /\ reserved < TxCapacity
    /\ l = "control" => txSpent.control < MaxControl
    /\ txSpent' = IF l = "control" THEN [txSpent EXCEPT !.control = @ + 1] ELSE txSpent
    /\ reserved' = reserved + 1
    /\ inbox' = Append(inbox, l)
    /\ UNCHANGED <<lanes, fragment, prefer, faulted>>

\* enqueue: a message for a stream that was given up is dropped, and with it
\* its reservation.
Enqueue ==
    /\ inbox # <<>>
    /\ inbox' = Tail(inbox)
    /\ IF faulted THEN reserved' = reserved - 1 /\ UNCHANGED lanes
       ELSE lanes' = [lanes EXCEPT ![Head(inbox)] = Append(@, 2)] /\ UNCHANGED reserved
    /\ UNCHANGED <<fragment, prefer, faulted, txSpent>>

Choice == IF lanes["control"] # <<>> THEN "control"
          ELSE IF lanes["realtime"] # <<>> /\ (lanes["repair"] = <<>> \/ prefer) THEN "realtime"
          ELSE "repair"

\* Mutant: realtime stays preferred.
MutPrepareNext ==
    /\ fragment = NoFragment /\ Queued > 0
    /\ fragment' = Choice
    /\ lanes' = [lanes EXCEPT ![Choice][1] = @ - 1]
    /\ UNCHANGED <<prefer, reserved, inbox, faulted, txSpent>>

\* next_priority and prepare_next
PrepareNext ==
    /\ fragment = NoFragment /\ Queued > 0
    /\ fragment' = Choice
    /\ lanes' = [lanes EXCEPT ![Choice][1] = @ - 1]
    /\ prefer' = IF Choice # "control" /\ lanes["realtime"] # <<>> /\ lanes["repair"] # <<>>
                 THEN ~prefer ELSE prefer
    /\ UNCHANGED <<reserved, inbox, faulted, txSpent>>

\* confirm_pending: the last fragment completes its message.
ConfirmPending ==
    /\ fragment # NoFragment
    /\ fragment' = NoFragment
    /\ IF lanes[fragment][1] = 0
       THEN /\ lanes' = [lanes EXCEPT ![fragment] = Tail(@)]
            /\ reserved' = reserved - 1
       ELSE UNCHANGED <<lanes, reserved>>
    /\ UNCHANGED <<inbox, prefer, faulted, txSpent>>

\* Every message of the stream goes, and its reservation with it.
Clear ==
    /\ lanes' = Empty
    /\ fragment' = NoFragment
    /\ reserved' = reserved - Queued

\* fault: a failed write, a lost link, a connection given up.
FaultTx ==
    /\ ~faulted
    /\ txSpent.faults < MaxTxFaults
    /\ txSpent' = [txSpent EXCEPT !.faults = @ + 1]
    /\ Clear
    /\ faulted' = TRUE
    /\ UNCHANGED <<inbox, prefer>>

\* fresh_connection
FreshConnection ==
    /\ faulted
    /\ Clear
    /\ prefer' = TRUE /\ faulted' = FALSE
    /\ UNCHANGED <<inbox, txSpent>>

TxNext ==
    \/ \E l \in Lane : WriteMessage(l)
    \/ Enqueue \/ PrepareNext \/ ConfirmPending \/ FaultTx \/ FreshConnection

\* The driver's loop serves its commands and its writes.
TxFairness == WF_txVars(Enqueue) /\ WF_txVars(PrepareNext) /\ WF_txVars(ConfirmPending)

TxSpec == TxInit /\ [][TxNext]_txVars /\ TxFairness

-----------------------------------------------------------------------------
\* The state has the shape of the structs; every reservation is held by a
\* message that is still queued, and the pending fragment is the front of its
\* lane.
TxTypeOK ==
    /\ reserved = Len(inbox) + Queued /\ reserved <= TxCapacity
    /\ fragment \in Lane \cup {NoFragment}
    /\ fragment # NoFragment => lanes[fragment] # <<>> /\ lanes[fragment][1] < 2
    /\ faulted => lanes = Empty

\* The frames of a repair get through although realtime messages never stop:
\* the front of the repair lane makes progress, or the stream is given up.
RepairFlows ==
    \A n \in {1, 2} :
        (lanes["repair"] # <<>> /\ lanes["repair"][1] = n)
            ~> (lanes["repair"] = <<>> \/ lanes["repair"][1] # n)

=============================================================================
