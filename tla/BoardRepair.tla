----------------------------- MODULE BoardRepair -----------------------------
(***************************************************************************)
(* How a board joins the room of the plugin: the composite transport       *)
(* (src/bridge/composite.rs) routes events between the native room         *)
(* (native_room.rs) and the authenticated BLE session (ble_transport.rs).  *)
(* A session of the board, named by its binding, asks to be provisioned;   *)
(* the room prepares a capability bundle, the board acknowledges it, the   *)
(* room opens a repair attempt, its frames cross the session, both sides   *)
(* declare their FIN and acknowledge the other's, the room confirms the    *)
(* closed attempt and the board's link is Ready.  Meanwhile sessions are   *)
(* lost, rooms change, and a deadline ends an attempt that does not close. *)
(*                                                                         *)
(* The two queues of the native room and the two of the board leg are kept *)
(* in order, and the room's command queue may be full when the composite   *)
(* has a command for it.  The carrier is authenticated and numbered, so a  *)
(* lost frame is a lost session.  The repair itself and the closing        *)
(* handshake are external (hhhs, tutti_ble): one frame each way, then the  *)
(* FINs.                                                                   *)
(***************************************************************************)
EXTENDS Naturals, Sequences

CONSTANTS
    NumRooms,     \* the rooms of the user
    MaxSessions,  \* sessions of the board
    MaxSwitches,  \* rooms selected or left
    MaxTroubles,  \* deadlines that pass while the other side still answers, and
                  \* commands that the full queue refuses
    MaxRepeats    \* attempts that close without being synchronized

ASSUME BoardRepairAssumption ==
    /\ NumRooms \in Nat \ {0} /\ MaxSessions \in Nat \ {0}
    /\ MaxSwitches \in Nat /\ MaxTroubles \in Nat /\ MaxRepeats \in Nat

VARIABLES
    comp,   \* CompositeTransport: room_ready, board_binding, provisioning_requested
    room,   \* the native room: active room, board_repair, its two queues
    ble,    \* BleLinkTransport and the session's two directions
    leaf,   \* the board: the bundle it holds, the room it repaired with
    spent   \* what was used of the bounds, and of which sessions the full queue
            \* refused the request to provision or the abort (a history)

repairVars == <<comp, room, ble, leaf, spent>>

NoRoom == 0

NoAttempt == [binding |-> 0, terminal |-> FALSE]

\* RepairCloseState: what is left to do before both sides have closed (external).
NoClose == {"none"}

Opened == {"fin", "finAck", "remoteFin", "ackSent"}

RepairInit ==
    /\ comp = [ready |-> FALSE, binding |-> 0, requested |-> 0]
    /\ room = [active |-> NoRoom, attempt |-> NoAttempt, queue |-> <<>>, events |-> <<>>]
    /\ ble = [session |-> 0, link |-> "offline", pending |-> NoRoom, close |-> NoClose,
              awaiting |-> FALSE, deadline |-> FALSE, events |-> <<>>, down |-> <<>>, up |-> <<>>]
    /\ leaf = [bundle |-> NoRoom, repaired |-> NoRoom]
    /\ spent = [sessions |-> 0, switches |-> 0, troubles |-> 0, repeats |-> 0,
               unasked |-> {}, unended |-> {}]

Spending(what, bound) == spent[what] < bound /\ spent' = [spent EXCEPT ![what] = @ + 1]

-----------------------------------------------------------------------------
(* The board leg, as functions of its state.                              *)

PublishBle(x, e) == [x EXCEPT !.events = Append(@, e)]

Down(x, f) == [x EXCEPT !.down = Append(@, f)]

LinkEvent(link) == [type |-> "link", link |-> link]

Reset(x) ==
    [x EXCEPT !.session = 0, !.pending = NoRoom, !.close = NoClose, !.awaiting = FALSE,
              !.deadline = FALSE, !.down = <<>>, !.up = <<>>]

\* fail, which also disconnects.
FailBle(x) == PublishBle([Reset(x) EXCEPT !.link = "failed"], LinkEvent("failed"))

\* AbortBoardRepair
Abort(x, b) == IF x.session = b THEN FailBle(x) ELSE x

\* send_capability_bundle: one bundle at a time; the same one again is fine.
BundleAccepted(x, b, r) == x.session = b /\ x.pending \in {NoRoom, r}

SendBundle(x, r) ==
    IF x.pending = r THEN x
    ELSE Down([x EXCEPT !.pending = r], [type |-> "bundle", room |-> r])

\* send_board_repair_frame: the first frame opens the closing handshake, and a
\* frame after the FIN is refused (external).
FrameAccepted(x, b) == x.session = b /\ (x.close = NoClose \/ "fin" \in x.close)

SendFrame(x, r) ==
    LET open == IF x.close # NoClose THEN x
                ELSE PublishBle([x EXCEPT !.close = Opened, !.awaiting = FALSE,
                                          !.deadline = TRUE, !.link = "repairing"],
                                LinkEvent("repairing"))
    IN  Down(open, [type |-> "repair", room |-> r])

\* maybe_publish_repair_closed
MaybeClosed(x, b) ==
    IF x.close # {} THEN x
    ELSE PublishBle([x EXCEPT !.close = NoClose, !.awaiting = TRUE],
                    [type |-> "closed", binding |-> b])

\* finish_board_repair
FinishAccepted(x, b) == x.session = b /\ x.close # NoClose

FinishRepair(x, b) ==
    LET fin == IF "fin" \in x.close
               THEN Down([x EXCEPT !.close = @ \ {"fin"}], [type |-> "fin", room |-> NoRoom])
               ELSE x
    IN  MaybeClosed(fin, b)

\* CompleteBoardRepair
CompleteAccepted(x, b) == x.session = b /\ x.awaiting

CompleteRepair(x) ==
    PublishBle([x EXCEPT !.awaiting = FALSE, !.deadline = FALSE, !.link = "ready"],
               LinkEvent("ready"))

-----------------------------------------------------------------------------
(* The composite: one event of either leg at a time.                       *)

Command(type, b) == [type |-> type, binding |-> b]

Enqueued(r, c) == [r EXCEPT !.queue = Append(@, c)]

\* NativeRoomTransport::command: the queue is full, with these commands and with
\* those of the pitch bridge, which are not shown here.
Refused == [spent EXCEPT !.troubles = @ + 1]

Full == spent.troubles < MaxTroubles

\* request_board_provisioning
Request(c, r) ==
    LET b == c.binding
        due == b # 0 /\ c.ready /\ c.requested # b
    IN  \/ /\ due
           /\ comp' = [c EXCEPT !.requested = b]
           /\ room' = Enqueued(r, Command("prepare", b))
           /\ UNCHANGED spent
        \/ /\ due /\ Full
           /\ spent' = [Refused EXCEPT !.unasked = @ \cup {b}]
           /\ comp' = c /\ room' = r
        \/ /\ ~due
           /\ comp' = c /\ room' = r /\ UNCHANGED spent

HeardRoom == [room EXCEPT !.events = Tail(@)]

\* Mutant: a new room does not forget what was requested of the last one.
MutHearRoom ==
    LET e == Head(room.events)
    IN  /\ room.events # <<>>
        /\ \/ e.type = "ready" /\ Request([comp EXCEPT !.ready = TRUE], HeardRoom)
           \/ e.type = "unready" /\ Request([comp EXCEPT !.ready = FALSE], HeardRoom)
           \/ e.type = "selected" /\ Request(comp, HeardRoom)
        /\ UNCHANGED <<ble, leaf>>

\* RoomLink and RoomSelected
HearRoom ==
    LET e == Head(room.events)
        forgot == [comp EXCEPT !.requested = 0]
    IN  /\ room.events # <<>>
        /\ \/ e.type = "ready" /\ Request([forgot EXCEPT !.ready = TRUE], HeardRoom)
           \/ e.type = "unready" /\ Request([forgot EXCEPT !.ready = FALSE], HeardRoom)
           \/ e.type = "selected" /\ Request(forgot, HeardRoom)
        /\ UNCHANGED <<ble, leaf>>

\* The other events of the room name a binding; one of another session is ignored.
Answers(type) ==
    /\ room.events # <<>> /\ Head(room.events).type = type
    /\ UNCHANGED leaf

\* fence_board_repair: the room abandons the attempt, and so does the board.
Fence(r, x, b) ==
    /\ \/ room' = Enqueued(r, Command("abort", b)) /\ UNCHANGED spent
       \/ Full /\ spent' = Refused /\ room' = r
    /\ ble' = Abort(x, b)

Deliver(x) == room' = HeardRoom /\ ble' = x /\ UNCHANGED spent

\* BoardCapabilityBundlePrepared, BoardProvisioningFailed
HearBundle ==
    LET e == Head(room.events)
        mine == comp.binding = e.binding
    IN  \/ /\ Answers("bundle")
           /\ IF mine /\ BundleAccepted(ble, e.binding, e.room)
              THEN Deliver(SendBundle(ble, e.room)) /\ UNCHANGED comp
              ELSE /\ Deliver(ble)
                   /\ comp' = IF mine THEN [comp EXCEPT !.requested = 0] ELSE comp
        \/ /\ Answers("unprepared")
           /\ Deliver(ble)
           /\ comp' = IF mine THEN [comp EXCEPT !.requested = 0] ELSE comp

\* BoardRepairOutbound, BoardRepairTerminal, BoardRepairFailed, BoardRepairSynchronized
HearAttempt ==
    LET e == Head(room.events)
        b == e.binding
    IN  /\ UNCHANGED comp
        /\ \/ /\ Answers("outbound")
              /\ IF comp.binding # b THEN Deliver(ble)
                 ELSE IF FrameAccepted(ble, b) THEN Deliver(SendFrame(ble, e.room))
                 ELSE Fence(HeardRoom, ble, b)
           \/ /\ Answers("terminal")
              /\ IF comp.binding # b THEN Deliver(ble)
                 ELSE IF FinishAccepted(ble, b) THEN Deliver(FinishRepair(ble, b))
                 ELSE Fence(HeardRoom, ble, b)
           \/ /\ Answers("failed")
              /\ Deliver(IF comp.binding = b THEN Abort(ble, b) ELSE ble)
           \/ /\ Answers("synchronized")
              /\ IF comp.binding # b THEN Deliver(ble)
                 ELSE IF CompleteAccepted(ble, b) THEN Deliver(CompleteRepair(ble))
                 ELSE Fence(HeardRoom, ble, b)

HeardBle == [ble EXCEPT !.events = Tail(@)]

Polled(type) ==
    /\ ble.events # <<>> /\ Head(ble.events).type = type
    /\ UNCHANGED leaf

\* BoardProvisioningRequired
HearRequired ==
    /\ Polled("required")
    /\ Request([comp EXCEPT !.binding = Head(ble.events).binding, !.requested = 0], room)
    /\ ble' = HeardBle

\* BoardProvisioned, BoardRepairInbound and BoardRepairCarrierClosed become
\* commands of the room; one that the room refuses fences the repair.
HearProgress ==
    LET b == Head(ble.events).binding
    IN  \E pair \in {<<"provisioned", "start">>, <<"inbound", "observe">>,
                     <<"closed", "confirm">>} :
            /\ Polled(pair[1])
            /\ UNCHANGED comp
            /\ \/ /\ comp.binding # b
                  /\ ble' = HeardBle /\ UNCHANGED <<room, spent>>
               \/ /\ comp.binding = b
                  /\ room' = Enqueued(room, Command(pair[2], b))
                  /\ ble' = HeardBle /\ UNCHANGED spent
               \/ /\ comp.binding = b /\ Full
                  /\ spent' = Refused
                  /\ room' \in {room, Enqueued(room, Command("abort", b))}
                  /\ ble' = Abort(HeardBle, b)

Unbound == [comp EXCEPT !.binding = 0, !.requested = 0]

\* Mutant: the room keeps the attempt of a lost session.
MutHearLink ==
    LET link == Head(ble.events).link
    IN  /\ Polled("link")
        /\ ble' = HeardBle
        /\ comp' = IF link \in {"ready", "repairing"} THEN comp ELSE Unbound
        /\ UNCHANGED <<room, spent>>

\* BoardLink: a link that is neither Ready nor Repairing ends the binding, also
\* when the full queue refuses the abort.
HearLink ==
    LET lost == Head(ble.events).link \notin {"ready", "repairing"}
        b == comp.binding
    IN  /\ Polled("link")
        /\ ble' = HeardBle
        /\ \/ /\ ~lost
              /\ UNCHANGED <<comp, room, spent>>
           \/ /\ lost /\ b = 0
              /\ comp' = Unbound /\ UNCHANGED <<room, spent>>
           \/ /\ lost /\ b # 0
              /\ comp' = Unbound /\ room' = Enqueued(room, Command("abort", b))
              /\ UNCHANGED spent
           \/ /\ lost /\ b # 0 /\ Full
              /\ comp' = Unbound
              /\ spent' = [Refused EXCEPT !.unended = @ \cup {b}]
              /\ UNCHANGED room

-----------------------------------------------------------------------------
(* The native room's driver.                                               *)

Took(type) ==
    /\ room.queue # <<>> /\ Head(room.queue).type = type
    /\ UNCHANGED <<comp, ble, leaf>>

\* What the driver does with a command: the attempt it leaves, and its events.
Does(attempt, events) ==
    room' = [room EXCEPT !.queue = Tail(@), !.attempt = attempt, !.events = @ \o events]

RoomEvent(type, b) == [type |-> type, binding |-> b, room |-> room.active]

\* abort_board_repair
Kept(b) == IF room.attempt.binding = b THEN NoAttempt ELSE room.attempt

Refuse(b) == Does(Kept(b), <<RoomEvent("failed", b)>>)

Fresh(b) == [binding |-> b, terminal |-> FALSE]

\* prepare_board_capability_bundle
Prepare ==
    LET b == Head(room.queue).binding
    IN  /\ Took("prepare")
        /\ Does(room.attempt,
                <<RoomEvent(IF room.active = NoRoom THEN "unprepared" ELSE "bundle", b)>>)
        /\ UNCHANGED spent

\* start_board_repair
Start ==
    LET b == Head(room.queue).binding
    IN  /\ Took("start")
        /\ IF room.active = NoRoom \/ room.attempt # NoAttempt THEN Refuse(b)
           ELSE Does(Fresh(b), <<RoomEvent("outbound", b)>>)
        /\ UNCHANGED spent

\* observe_board_repair_frame
ObserveFrame ==
    LET b == Head(room.queue).binding
    IN  /\ Took("observe")
        /\ IF room.attempt.binding # b THEN Refuse(b)
           ELSE Does([room.attempt EXCEPT !.terminal = TRUE], <<RoomEvent("terminal", b)>>)
        /\ UNCHANGED spent

\* confirm_board_repair_close: only a terminal attempt closes (hhhs); one that
\* is not synchronized is followed by a fresh one.
ConfirmClose ==
    LET b == Head(room.queue).binding
    IN  /\ Took("confirm")
        /\ \/ /\ room.attempt.binding = b /\ room.attempt.terminal
              /\ Does(NoAttempt, <<RoomEvent("synchronized", b)>>)
              /\ UNCHANGED spent
           \/ /\ room.attempt.binding = b /\ room.attempt.terminal
              /\ Spending("repeats", MaxRepeats)
              /\ Does(Fresh(b), <<RoomEvent("outbound", b)>>)
           \/ /\ ~(room.attempt.binding = b /\ room.attempt.terminal)
              /\ Refuse(b)
              /\ UNCHANGED spent

AbortAttempt ==
    /\ Took("abort")
    /\ Does(Kept(Head(room.queue).binding), <<>>)
    /\ UNCHANGED spent

\* Join and Leave: the attempt goes with its room.
Switch ==
    LET c == Head(room.queue)
        left == <<[type |-> "unready"]>>
        opened == <<[type |-> "selected"], [type |-> "ready"]>>
    IN  /\ Took("join")
        /\ IF c.room = room.active
           THEN Does(room.attempt, IF c.room = NoRoom THEN left ELSE opened)
           ELSE room' = [room EXCEPT !.queue = Tail(@), !.active = c.room, !.attempt = NoAttempt,
                                     !.events = @ \o left \o IF c.room = NoRoom THEN <<>>
                                                              ELSE opened]
        /\ UNCHANGED spent

\* The user selects a room or leaves it.
SelectRooms ==
    /\ Spending("switches", MaxSwitches)
    /\ \E r \in 0..NumRooms : room' = Enqueued(room, [type |-> "join", room |-> r])
    /\ UNCHANGED <<comp, ble, leaf>>

-----------------------------------------------------------------------------
(* The session and the board.                                             *)

\* A link is authenticated and the profiles agree (handle_remote_profile).
OpenSession ==
    LET b == spent.sessions + 1
    IN  /\ ble.session = 0
        /\ Spending("sessions", MaxSessions)
        /\ ble' = PublishBle(PublishBle([ble EXCEPT !.session = b, !.link = "repairing"],
                                        LinkEvent("repairing")),
                             [type |-> "required", binding |-> b])
        /\ leaf' = [bundle |-> NoRoom, repaired |-> NoRoom]
        /\ UNCHANGED <<comp, room>>

\* BleHostEvent::Disconnected
LoseSession ==
    /\ ble.session # 0
    /\ spent.sessions < MaxSessions
    /\ ble' = PublishBle([Reset(ble) EXCEPT !.link = "offline"], LinkEvent("offline"))
    /\ UNCHANGED <<comp, room, leaf, spent>>

Quiet == room.queue = <<>> /\ room.events = <<>> /\ ble.events = <<>> /\ ble.down = <<>>
            /\ ble.up = <<>>

\* REPAIR_CLOSE_TIMEOUT passes.
Deadline ==
    /\ ble.deadline
    /\ IF Quiet THEN UNCHANGED spent ELSE Spending("troubles", MaxTroubles)
    /\ ble' = FailBle(ble)
    /\ UNCHANGED <<comp, room, leaf>>

\* A frame of the board (handle_wire, and WriteComplete of the acknowledgement).
Arrives(type) ==
    /\ ble.up # <<>> /\ Head(ble.up).type = type
    /\ UNCHANGED <<comp, room, leaf, spent>>

Rest == [ble EXCEPT !.up = Tail(@)]

\* CapabilityReady
HearCapability ==
    /\ Arrives("capable")
    /\ ble' = IF ble.pending # Head(ble.up).room THEN FailBle(ble)
              ELSE PublishBle(PublishBle([Rest EXCEPT !.pending = NoRoom, !.link = "repairing"],
                                         [type |-> "provisioned", binding |-> ble.session]),
                              LinkEvent("repairing"))

\* handle_repair_frame
HearFrame ==
    /\ Arrives("repair")
    /\ ble' = IF ble.close = NoClose THEN FailBle(ble)
              ELSE PublishBle(Rest, [type |-> "inbound", binding |-> ble.session])

\* handle_repair_control: a FIN is acknowledged, an acknowledgement closes ours.
HearClose ==
    /\ \/ /\ Arrives("fin")
          /\ ble' = IF "remoteFin" \notin ble.close THEN FailBle(ble)
                    ELSE Down([Rest EXCEPT !.close = @ \ {"remoteFin"}],
                              [type |-> "ack", room |-> NoRoom])
       \/ /\ Arrives("ack")
          /\ ble' = IF "finAck" \notin ble.close THEN FailBle(ble)
                    ELSE MaybeClosed([Rest EXCEPT !.close = @ \ {"finAck"}], ble.session)
       \/ /\ Arrives("written")
          /\ ble' = IF "ackSent" \notin ble.close THEN Rest
                    ELSE MaybeClosed([Rest EXCEPT !.close = @ \ {"ackSent"}], ble.session)

\* The board takes a frame (external).  It answers a bundle and a repair frame
\* of the room whose bundle it holds, and then declares its FIN; a frame of
\* another room it does not answer.
BoardTakes ==
    LET f == Head(ble.down)
        rest == [ble EXCEPT !.down = Tail(@)]
        up(types) == [rest EXCEPT !.up = @ \o [i \in DOMAIN types |->
                                                [type |-> types[i], room |-> f.room]]]
    IN  /\ ble.down # <<>>
        /\ UNCHANGED <<comp, room, spent>>
        /\ CASE f.type = "bundle" -> /\ ble' = up(<<"capable">>)
                                     /\ leaf' = [leaf EXCEPT !.bundle = f.room]
             [] f.type = "repair" -> IF f.room = leaf.bundle
                                     THEN /\ ble' = up(<<"repair", "fin">>)
                                          /\ leaf' = [leaf EXCEPT !.repaired = f.room]
                                     ELSE ble' = rest /\ UNCHANGED leaf
             [] f.type = "fin" -> ble' = up(<<"ack">>) /\ UNCHANGED leaf
             [] f.type = "ack" -> ble' = up(<<"written">>) /\ UNCHANGED leaf

-----------------------------------------------------------------------------
Composite == HearRoom \/ HearBundle \/ HearAttempt \/ HearRequired \/ HearProgress \/ HearLink

RoomDriver == Prepare \/ Start \/ ObserveFrame \/ ConfirmClose \/ AbortAttempt \/ Switch

HostEvents == HearCapability \/ HearFrame \/ HearClose

RepairNext ==
    Composite \/ RoomDriver \/ HostEvents \/ BoardTakes \/ Deadline
        \/ SelectRooms \/ OpenSession \/ LoseSession

\* The worker's loop, the room's loop and the radio keep running, and a deadline
\* passes.
RepairFairness ==
    /\ WF_repairVars(Composite) /\ WF_repairVars(RoomDriver) /\ WF_repairVars(HostEvents)
    /\ WF_repairVars(BoardTakes) /\ WF_repairVars(Deadline)

RepairSpec == RepairInit /\ [][RepairNext]_repairVars /\ RepairFairness

-----------------------------------------------------------------------------
(* Properties.                                                             *)

\* The state has the shape of the structs; what a lost session was doing is gone.
RepairTypeOK ==
    /\ comp.binding <= spent.sessions /\ comp.requested \in {0, comp.binding}
    /\ room.attempt.binding <= spent.sessions
    /\ ble.link \in {"offline", "repairing", "ready", "failed"}
    /\ ble.close = NoClose \/ ble.close \subseteq Opened
    /\ ble.session = 0 => ble.close = NoClose /\ ~ble.awaiting /\ ~ble.deadline

\* An attempt of a session that is gone never keeps a later session out, unless
\* its abort was refused by the full command queue: the composite forgets the
\* binding all the same, and only a change of room ends the attempt
\* (route_board_event, start_board_repair).
NoAttemptInTheWay ==
    room.queue # <<>> /\ Head(room.queue).type = "start" =>
        room.attempt.binding \in {0, Head(room.queue).binding} \cup spent.unended

\* Provisioning and repair settle, also when the full queue refuses commands: while
\* a room is joined, the board's link does not stay in Repairing, and if it ends up
\* Ready, the board was repaired with the room that is joined now and not with
\* one left on the way.  This is not so of a session whose request to be
\* provisioned was refused: only a change of room repeats it
\* (request_board_provisioning).
BoardSettles ==
    <>[](room.active # NoRoom /\ ble.session \notin spent.unasked =>
             /\ ble.link # "repairing"
             /\ ble.link = "ready" => leaf.repaired = room.active)

=============================================================================
