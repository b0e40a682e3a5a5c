---------------------------- MODULE PluginBridge ----------------------------
(***************************************************************************)
(* The bridge of the plugin (src/bridge/mod.rs) between the host's audio   *)
(* thread, the room and a board.  The audio thread pushes note edges into  *)
(* two bounded queues and pops the notes it is to sound from two others;   *)
(* the bridge worker turns edges into edits of the room's pitch set, keeps *)
(* the room's confirmed set, repaints the board from it and reconciles the *)
(* host's notes with it.  The room is the worker of native_room.rs: its    *)
(* bounded command and event queues, the admission of an edit into the     *)
(* shared Replica, which repair tasks also write to, and the projections   *)
(* it forwards.  Peers' realtime frames pass through it: notes carry no    *)
(* state, but a round-table frame sets the settings the worker knows.      *)
(* The board is external: it applies a configuration, answers with a       *)
(* numbered snapshot, and has knobs and a run button of its own.           *)
(*                                                                         *)
(* A member of the pitch set is a pitch class (absolute pitches count as   *)
(* their class).  The two carrier legs are polled in turn, which the model *)
(* leaves open, and a pass of the worker over events, target and output is *)
(* split into its steps; the order in which the input queues are drained   *)
(* is kept.  Perform mode carries no state.                                *)
(***************************************************************************)
EXTENDS Naturals, Sequences, FiniteSets, SequencesExt

CONSTANTS
    Class,          \* the pitch classes
    Key,            \* the keys of the host's keyboard
    ClassOf,        \* the class of a key
    CommandCapacity, \* COMMAND_CAPACITY of the native room
    EventCapacity,  \* its EVENT_CAPACITY
    OutCapacity,    \* realtime_capacity and release_capacity
    Sessions        \* the sessions considered: the policy at the start, and the
                    \* bounds on keys pressed, edits and frames by other peers,
                    \* knobs turned on the board, admissions that fail, rooms
                    \* left, boards lost and policy changes

ASSUME BridgeAssumption ==
    /\ IsFiniteSet(Class) /\ IsFiniteSet(Key)
    /\ ClassOf \in [Key -> Class]
    /\ CommandCapacity \in Nat \ {0}
    /\ EventCapacity \in Nat \ {0} /\ OutCapacity \in Nat \ {0}
    /\ \A s \in Sessions : /\ s.mode \in {"toggle", "gate", "perform"}
                           /\ s.output \in BOOLEAN
                           /\ s.left \in [{"keys", "remote", "frames", "knobs", "failures",
                                           "rooms", "boards", "policies"} -> Nat]

VARIABLES
    pressed,   \* the keys that are down
    inputs,    \* release_in and realtime_in
    draining,  \* the worker is in the realtime_in loop of its pass
    policy,    \* input_mode and output_enabled
    pitches,   \* BridgePitchState
    outputs,   \* release_out and realtime_out
    sounding,  \* the notes the host sounds
    commands,  \* the native room's command queue
    events,    \* its event queue
    abandoned, \* abandoned_pitch_intents_through
    native,    \* the driver: active room, Replica, what it forwarded
    admitted,  \* the command whose admission ended, before it is published
    board,     \* the board: link, configuration shown, snapshot revision
    downlink,  \* configurations on their way to the board
    uplink,    \* frames on their way from the board
    refused,   \* the full command queue refused an edit of the board: a history
    left       \* what the bounds leave

bridgeVars == <<pressed, inputs, draining, policy, pitches, outputs, sounding, commands,
                events, abandoned, native, admitted, board, downlink, uplink, refused, left>>

hostVars == <<pressed, policy, outputs, sounding>>
roomVars == <<native, admitted, events, abandoned>>
boardVars == <<board, downlink, uplink, refused>>

\* RoundTableConfig: the settings, and the pattern projected from the pitch set.
Config == [settings : {0, 1}, pattern : SUBSET Class]

Blank == [settings |-> 0, pattern |-> {}]

None == [settings |-> 2, pattern |-> {}]

NoIntent == [active |-> FALSE, token |-> 0, source |-> "none"]

Edits(E, level) == {<<c, level>> : c \in E}

BridgeInit ==
    /\ pressed = {}
    /\ inputs = [release |-> <<>>, note |-> <<>>]
    /\ draining = FALSE
    /\ \E s \in Sessions : /\ policy = [mode |-> s.mode, output |-> s.output]
                           /\ left = s.left
    /\ pitches = [held |-> {}, pending |-> [c \in Class |-> NoIntent], next |-> 1,
                  room |-> {}, settings |-> 0, confirmed |-> None, target |-> None,
                  revision |-> 0, shadow |-> {}]
    /\ outputs = [release |-> <<>>, note |-> <<>>]
    /\ sounding = {}
    /\ commands = <<>>
    /\ events = <<>>
    /\ abandoned = 0
    /\ refused = FALSE
    /\ native = [active |-> TRUE, set |-> {}, settings |-> 0,
                 sentSet |-> {}, sentSettings |-> 0, repaired |-> FALSE]
    /\ admitted = <<>>
    /\ board = [up |-> FALSE, config |-> Blank, revision |-> 0]
    /\ downlink = <<>>
    /\ uplink = <<>>

Spend(what) == left[what] > 0 /\ left' = [left EXCEPT ![what] = @ - 1]

-----------------------------------------------------------------------------
(* BridgePitchState.                                                       *)

Pending(state) == {c \in Class : state.pending[c] # NoIntent}

\* contains_optimistic_pitch_class
Optimistic(c) ==
    IF pitches.pending[c] # NoIntent THEN pitches.pending[c].active ELSE c \in pitches.room

\* Mutant: a token is used twice.
MutTrack(state, token, source, edits) ==
    [state EXCEPT !.pending = [c \in Class |->
                      IF \E e \in edits : e[1] = c
                      THEN [active |-> <<c, TRUE>> \in edits, token |-> token, source |-> source]
                      ELSE @[c]]]

\* allocate_intent_token and track_pitch_intent
Track(state, token, source, edits) ==
    [state EXCEPT !.next = token + 1,
                  !.pending = [c \in Class |->
                      IF \E e \in edits : e[1] = c
                      THEN [active |-> <<c, TRUE>> \in edits, token |-> token, source |-> source]
                      ELSE @[c]]]

\* The intents of these classes are given up.
Abandon(state, lost) ==
    [state EXCEPT !.pending = [c \in Class |-> IF c \in lost THEN NoIntent ELSE @[c]]]

BoardConfig(state) == [settings |-> state.settings, pattern |-> state.room]

\* Mutant: a pending edit does not fence the board.
MutStage(state) == [state EXCEPT !.target = BoardConfig(state)]

\* Mutant: what the board was last known to show is staged as no target also
\* while another target is outstanding.
MutStageKnown(state) ==
    IF Pending(state) # {} THEN [state EXCEPT !.target = None]
    ELSE IF state.confirmed = BoardConfig(state) THEN state
    ELSE [state EXCEPT !.target = BoardConfig(state)]

\* stage_board_target
Stage(state) ==
    IF Pending(state) # {} THEN [state EXCEPT !.target = None]
    ELSE IF state.confirmed = BoardConfig(state) /\ state.target = None THEN state
    ELSE [state EXCEPT !.target = BoardConfig(state)]

\* apply_confirmed_room
Confirm(state, set) ==
    LET heard == [state EXCEPT !.room = set]
    IN  [heard EXCEPT !.pending = [c \in Class |->
            IF @[c] # NoIntent /\ (c \in set) = @[c].active THEN NoIntent ELSE @[c]]]

-----------------------------------------------------------------------------
(* The host's keyboard and the input half of a pass.                       *)

\* AudioBridgePort::try_send
PressKey(k) ==
    /\ k \notin pressed
    /\ Spend("keys")
    /\ pressed' = pressed \cup {k}
    /\ inputs' = [inputs EXCEPT !.note = Append(@, k)]
    /\ UNCHANGED <<draining, policy, pitches, outputs, sounding, commands, roomVars, boardVars>>

ReleaseKey(k) ==
    /\ k \in pressed
    /\ pressed' = pressed \ {k}
    /\ inputs' = [inputs EXCEPT !.release = Append(@, k)]
    /\ UNCHANGED <<draining, policy, pitches, outputs, sounding, commands, roomVars, boardVars,
                   left>>

\* set_input_mode and set_output_enabled
SetPolicy ==
    /\ Spend("policies")
    /\ \E mode \in {"toggle", "gate", "perform"}, output \in BOOLEAN :
          policy' = [mode |-> mode, output |-> output] /\ policy' # policy
    /\ UNCHANGED <<pressed, inputs, draining, pitches, outputs, sounding, commands, roomVars,
                   boardVars>>

\* NativeRoomTransport::command: a full queue refuses the command.
HasRoom == Len(commands) < CommandCapacity

Issue(command) == commands' = IF HasRoom THEN Append(commands, command) ELSE commands

\* apply_shared_pitch_intent
Propose(state, c, level) ==
    /\ Issue([type |-> "edit", token |-> state.next, edits |-> {<<c, level>>}, settings |-> 2])
    /\ pitches' = IF HasRoom THEN Track(state, state.next, "host", {<<c, level>>})
                  ELSE [state EXCEPT !.next = @ + 1]

Keep(state) == pitches' = state /\ UNCHANGED commands

\* handle_host_note_release: the last held key of its class removes the class.
TakeRelease ==
    LET k == Head(inputs.release)
        up == [pitches EXCEPT !.held = @ \ {k}]
    IN  /\ ~draining
        /\ inputs.release # <<>>
        /\ inputs' = [inputs EXCEPT !.release = Tail(@)]
        /\ CASE policy.mode = "perform" -> Keep(pitches)
             [] /\ policy.mode = "gate" /\ k \in pitches.held
                /\ \A other \in up.held : ClassOf[other] # ClassOf[k]
                /\ Optimistic(ClassOf[k]) -> Propose(up, ClassOf[k], FALSE)
             [] OTHER -> Keep(up)
        /\ UNCHANGED <<hostVars, draining, roomVars, boardVars, left>>

\* The releases are drained before the worker turns to the other edges.
TurnToNotes ==
    /\ ~draining
    /\ inputs.release = <<>> /\ inputs.note # <<>>
    /\ draining' = TRUE
    /\ UNCHANGED <<hostVars, inputs, pitches, commands, roomVars, boardVars, left>>

\* handle_host_note_on: a held key does nothing; toggle flips the class, gate adds.
TakeNote ==
    LET k == Head(inputs.note)
        down == [pitches EXCEPT !.held = @ \cup {k}]
        present == Optimistic(ClassOf[k])
    IN  /\ draining
        /\ inputs' = [inputs EXCEPT !.note = Tail(@)]
        /\ draining' = (Len(inputs.note) > 1)
        /\ IF policy.mode = "perform" \/ k \in pitches.held
              \/ (policy.mode = "gate" /\ present)
           THEN Keep(IF policy.mode = "perform" THEN pitches ELSE down)
           ELSE Propose(down, ClassOf[k], ~present)
        /\ UNCHANGED <<hostVars, roomVars, boardVars, left>>

-----------------------------------------------------------------------------
(* The output half.                                                        *)

\* reconcile_host_output: releases first; a full queue ends the pass and leaves
\* the shadow as it was.
Goal == IF policy.output THEN pitches.room ELSE {}

Reconcile ==
    /\ ~draining
    /\ \/ \E c \in pitches.shadow \ Goal :
             /\ Len(outputs.release) < OutCapacity
             /\ outputs' = [outputs EXCEPT !.release = Append(@, c)]
             /\ pitches' = [pitches EXCEPT !.shadow = @ \ {c}]
       \/ \E c \in Goal \ pitches.shadow :
             /\ pitches.shadow \subseteq Goal
             /\ Len(outputs.note) < OutCapacity
             /\ outputs' = [outputs EXCEPT !.note = Append(@, c)]
             /\ pitches' = [pitches EXCEPT !.shadow = @ \cup {c}]
    /\ UNCHANGED <<pressed, policy, sounding, inputs, draining, commands, roomVars, boardVars,
                   left>>

\* AudioBridgePort::try_recv
HostReceives ==
    /\ \/ /\ outputs.release # <<>>
          /\ sounding' = sounding \ {Head(outputs.release)}
          /\ outputs' = [outputs EXCEPT !.release = Tail(@)]
       \/ /\ outputs.release = <<>> /\ outputs.note # <<>>
          /\ sounding' = sounding \cup {Head(outputs.note)}
          /\ outputs' = [outputs EXCEPT !.note = Tail(@)]
    /\ UNCHANGED <<pressed, policy, inputs, draining, pitches, commands, roomVars, boardVars,
                   left>>

\* board_target_due: the target is sent again every 250 ms until it is shown; an
\* answer takes less.
SendTarget ==
    /\ ~draining
    /\ pitches.target # None
    /\ board.up /\ downlink = <<>>
    /\ \A i \in DOMAIN uplink : uplink[i].type # "snapshot"
    /\ downlink' = <<pitches.target>>
    /\ UNCHANGED <<hostVars, inputs, draining, pitches, commands, roomVars, board, uplink, refused,
                   left>>

-----------------------------------------------------------------------------
(* The native room.                                                        *)

\* EventSink::send: a full queue drops the event, but not the fate of an intent.
Send(new) ==
    LET room == EventCapacity - Len(events)
        lost == SubSeq(new, room + 1, Len(new))
        fates == {lost[i].token : i \in {j \in DOMAIN lost : lost[j].type = "outcome"}}
    IN  /\ events' = events \o SubSeq(new, 1, IF room < Len(new) THEN room ELSE Len(new))
        /\ abandoned' = IF \E t \in fates : t > abandoned
                        THEN CHOOSE t \in fates : \A u \in fates : u <= t ELSE abandoned

SetEvent(set) == [type |-> "set", set |-> set]

SettingsEvent(s) == [type |-> "settings", settings |-> s]

Fate(token, ok) == [type |-> "outcome", token |-> token, ok |-> ok]

\* publish_pitch_set_if_changed
SetNews == IF native.set # native.sentSet THEN <<SetEvent(native.set)>> ELSE <<>>

\* publish_round_table_if_changed
SettingsNews ==
    IF native.settings # native.sentSettings THEN <<SettingsEvent(native.settings)>> ELSE <<>>

Forwarded == [native EXCEPT !.sentSet = native.set, !.sentSettings = native.settings]

\* admit_pitch_edit for each of the edits
Apply(set, edits) == {c \in Class : <<c, TRUE>> \in edits \/ (c \in set /\ <<c, FALSE>> \notin edits)}

\* Settings come before pitches.  An admission may fail, because a repair task
\* wrote between prepare_author and commit_prepared, or, the command being
\* committed, because its broadcast or the board's own frame could not be sent:
\* what was done stays, and the rest is not tried.
Admission(command, settled, done, ok) ==
    /\ admitted' = <<[type |-> command.type, token |-> command.token, ok |-> ok]>>
    /\ native' = [native EXCEPT
           !.set = Apply(@, done),
           !.settings = IF settled /\ command.settings # 2 THEN command.settings ELSE @]

\* A class that has its level already is not written at all.
CanFail(command) == command.type # "edit" \/ Apply(native.set, command.edits) # native.set

\* accept_pitch_edit, accept_board_edit and accept_round_table up to the last
\* admission.
Admit ==
    LET command == Head(commands)
    IN  /\ admitted = <<>>
        /\ commands # <<>> /\ command.type \in {"edit", "turn", "run"}
        /\ commands' = Tail(commands)
        /\ \/ /\ ~native.active
              /\ admitted' = <<[type |-> command.type, token |-> command.token, ok |-> FALSE]>>
              /\ UNCHANGED <<native, left>>
           \/ /\ native.active
              /\ Admission(command, TRUE, command.edits, TRUE)
              /\ UNCHANGED left
           \/ /\ native.active /\ CanFail(command)
              /\ Spend("failures")
              /\ \E done \in SUBSET command.edits, settled \in BOOLEAN :
                    /\ done # {} => settled
                    /\ Admission(command, settled, done, FALSE)
        /\ UNCHANGED <<hostVars, inputs, draining, pitches, events, abandoned, boardVars>>

\* The driver publishes what changed, then the outcome of the token; a run, which
\* has none, publishes only when it was admitted and sent.
Publish ==
    /\ admitted # <<>>
    /\ LET done == admitted[1]
           fate == Fate(done.token, done.ok)
       IN  CASE ~native.active -> /\ Send(IF done.type = "run" THEN <<>> ELSE <<fate>>)
                                  /\ UNCHANGED native
             [] native.active /\ done.type = "edit" ->
                    /\ Send(SetNews \o <<fate>>)
                    /\ native' = [native EXCEPT !.sentSet = native.set]
             [] native.active /\ done.type = "turn" ->
                    /\ Send(SetNews \o SettingsNews \o <<fate>>)
                    /\ native' = Forwarded
             [] native.active /\ done.type = "run" ->
                    /\ Send(IF done.ok THEN SettingsNews ELSE <<>>)
                    /\ native' = IF done.ok THEN [native EXCEPT !.sentSettings = native.settings]
                                 ELSE native
    /\ admitted' = <<>>
    /\ UNCHANGED <<hostVars, inputs, draining, pitches, commands, boardVars, left>>

\* A repair task writes to the shared Replica, whatever the driver does meanwhile.
RemoteEdit ==
    /\ native.active
    /\ Spend("remote")
    /\ \/ \E c \in Class :
             native' = [native EXCEPT !.set = IF c \in @ THEN @ \ {c} ELSE @ \cup {c},
                                      !.repaired = TRUE]
       \/ native' = [native EXCEPT !.settings = 1 - @, !.repaired = TRUE]
    /\ UNCHANGED <<hostVars, inputs, draining, pitches, commands, events, abandoned, admitted,
                   boardVars>>

\* LoopEvent::Repair and LoopEvent::Inbound publish what changed.
PublishRepair ==
    /\ admitted = <<>>
    /\ native.repaired
    /\ Send(SettingsNews \o SetNews)
    /\ native' = [Forwarded EXCEPT !.repaired = FALSE]
    /\ UNCHANGED <<hostVars, inputs, draining, pitches, commands, admitted, boardVars, left>>

\* A peer's realtime round-table frame: the settings its board was given, which
\* the Replica may not have yet, or not any more.
PeerFrame ==
    /\ admitted = <<>>
    /\ native.active
    /\ Spend("frames")
    /\ \E s \in {0, 1} : Send(<<SettingsEvent(s)>> \o SettingsNews \o SetNews)
    /\ native' = Forwarded
    /\ UNCHANGED <<hostVars, inputs, draining, pitches, commands, admitted, boardVars>>

\* DriverCommand::Leave, and DriverCommand::Join of another room, which opens
\* with the projections of its Replica and ends with RoomSelected.
Link == [type |-> "link"]

ChangeRoom ==
    LET command == Head(commands)
        opening == <<SettingsEvent(0), SetEvent({}), Link>>
    IN  /\ admitted = <<>>
        /\ commands # <<>> /\ command.type \in {"leave", "join"}
        /\ commands' = Tail(commands)
        /\ Send(<<SetEvent({}), Link>> \o IF command.type = "join" THEN opening ELSE <<>>)
        /\ native' = [active |-> command.type = "join", set |-> {}, settings |-> 0,
                      sentSet |-> {}, sentSettings |-> 0, repaired |-> FALSE]
        /\ UNCHANGED <<hostVars, inputs, draining, pitches, admitted, boardVars, left>>

\* The user leaves the room or selects another one.
SelectRoom ==
    /\ ~draining
    /\ Spend("rooms")
    /\ \E type \in {"leave", "join"} : Issue([type |-> type])
    /\ UNCHANGED <<hostVars, inputs, draining, pitches, roomVars, boardVars>>

-----------------------------------------------------------------------------
(* Events polled by the worker.                                            *)

Poll(type) ==
    /\ ~draining /\ abandoned = 0
    /\ events # <<>> /\ Head(events).type = type
    /\ events' = Tail(events)
    /\ UNCHANGED <<hostVars, inputs, draining, abandoned, native, admitted, commands, boardVars,
                   left>>

\* RoomPitchSet
HearSet ==
    LET heard == Confirm(pitches, Head(events).set)
    IN  /\ Poll("set")
        /\ pitches' = IF heard.room # pitches.room THEN Stage(heard) ELSE heard

\* RoundTable: what the Replica has, or what a peer's frame says.
HearSettings ==
    /\ Poll("settings")
    /\ pitches' = Stage([pitches EXCEPT !.settings = Head(events).settings])

\* RoomSelected, and RoomLink of a room that is not ready: every intent is given up.
HearRoomLink ==
    /\ Poll("link")
    /\ pitches' = Stage([Abandon(pitches, Class) EXCEPT !.target = None])

\* Mutant: a rejection clears every intent.
MutHearOutcome ==
    /\ Poll("outcome")
    /\ pitches' = IF Head(events).ok THEN pitches
                  ELSE Stage(Abandon(pitches, Class))

\* PitchIntentOutcome: only a rejection is acted upon.
HearOutcome ==
    /\ Poll("outcome")
    /\ pitches' = IF Head(events).ok THEN pitches
                  ELSE LET rejected == {c \in Class : pitches.pending[c].token = Head(events).token}
                       IN  Stage(Abandon(pitches, rejected))

\* PitchIntentReset, which poll_event returns before any other event.
HearReset ==
    /\ ~draining /\ abandoned # 0
    /\ abandoned' = 0
    /\ pitches' = Stage(Abandon(pitches,
                                {c \in Class : pitches.pending[c].token <= abandoned}))
    /\ UNCHANGED <<hostVars, inputs, draining, events, native, admitted, commands, boardVars,
                   left>>

-----------------------------------------------------------------------------
(* The board.                                                              *)

\* BoardLink(Ready): a new session has shown nothing yet.
BoardUp ==
    /\ ~draining /\ ~board.up
    /\ board' = [board EXCEPT !.up = TRUE]
    /\ pitches' = Stage([pitches EXCEPT !.confirmed = None, !.revision = 0])
    /\ UNCHANGED <<hostVars, inputs, draining, commands, roomVars, downlink, uplink, refused,
                   left>>

\* BoardLink(Offline or Failed): frames under way are lost; the board counts
\* its snapshots anew.
BoardDown ==
    /\ ~draining /\ board.up
    /\ Spend("boards")
    /\ board' = [board EXCEPT !.up = FALSE, !.revision = 0]
    /\ downlink' = <<>> /\ uplink' = <<>>
    /\ pitches' = [Abandon(pitches, {c \in Class : pitches.pending[c].source = "board"}) EXCEPT
                       !.target = None, !.confirmed = None, !.revision = 0]
    /\ UNCHANGED <<hostVars, inputs, draining, commands, roomVars, refused>>

\* The board shows a configuration and answers with a snapshot (external).
BoardApplies ==
    /\ downlink # <<>>
    /\ board' = [board EXCEPT !.config = Head(downlink), !.revision = @ + 1]
    /\ uplink' = Append(uplink, [type |-> "snapshot", config |-> Head(downlink),
                                 revision |-> board.revision + 1])
    /\ downlink' = Tail(downlink)
    /\ UNCHANGED <<hostVars, inputs, draining, pitches, commands, roomVars, refused, left>>

\* Someone turns a knob of the board, or presses its run button (external).
Touch(type, config) ==
    /\ board.up
    /\ Spend("knobs")
    /\ board' = [board EXCEPT !.config = config]
    /\ uplink' = Append(uplink, [type |-> type, config |-> config, revision |-> 0])
    /\ UNCHANGED <<hostVars, inputs, draining, pitches, commands, roomVars, downlink, refused>>

TurnKnob(config) == config # board.config /\ Touch("config", config)

PressRun == Touch("run", board.config)

Frame(types) ==
    /\ ~draining
    /\ uplink # <<>> /\ Head(uplink).type \in types
    /\ uplink' = Tail(uplink)
    /\ UNCHANGED <<hostVars, inputs, draining, roomVars, board, downlink, left>>

\* observe_board_config and plan_board_edit: a configuration is an edit of the
\* room, unless it is the one last confirmed; it counts as confirmed also when
\* the full queue refuses the edit.  A run that is no edit is only published.
HearConfig ==
    LET frame == Head(uplink)
        config == frame.config
        plan == Edits(config.pattern \ pitches.room, TRUE)
                    \cup Edits(pitches.room \ config.pattern, FALSE)
        settings == IF config.settings # pitches.settings THEN config.settings ELSE 2
        seen == [pitches EXCEPT !.confirmed = config, !.target = None]
        known == pitches.target = None /\ pitches.confirmed = config
    IN  /\ Frame({"config", "run"})
        /\ \/ /\ ~known
              /\ Issue([type |-> "turn", token |-> pitches.next, edits |-> plan,
                        settings |-> settings])
              /\ pitches' = IF HasRoom THEN Track(seen, pitches.next, "board", plan)
                            ELSE [seen EXCEPT !.next = @ + 1]
              /\ refused' = (refused \/ ~HasRoom)
           \/ /\ known
              /\ IF frame.type = "run"
                 THEN Issue([type |-> "run", token |-> 0, edits |-> {},
                             settings |-> config.settings])
                 ELSE UNCHANGED commands
              /\ UNCHANGED <<pitches, refused>>

\* observe_board_snapshot: a passive level confirms the target or calls for it
\* again; it is never an edit.
HearSnapshot ==
    LET frame == Head(uplink)
        seen == [pitches EXCEPT !.revision = frame.revision]
    IN  /\ Frame({"snapshot"})
        /\ UNCHANGED <<commands, refused>>
        /\ pitches' = CASE frame.revision <= pitches.revision -> pitches
                        [] OTHER -> IF pitches.target = frame.config
                                    THEN [seen EXCEPT !.confirmed = frame.config, !.target = None]
                                    ELSE IF pitches.target # None
                                            \/ pitches.confirmed = frame.config
                                    THEN seen
                                    ELSE Stage([seen EXCEPT !.confirmed = frame.config])

-----------------------------------------------------------------------------
BridgeHost ==
    \/ \E k \in Key : PressKey(k) \/ ReleaseKey(k)
    \/ SetPolicy
    \/ SelectRoom
    \/ RemoteEdit
    \/ BoardDown
    \/ PeerFrame
    \/ \E config \in Config : TurnKnob(config)
    \/ PressRun

TakesInput == TakeRelease \/ TurnToNotes \/ TakeNote

PollsRoom == HearSet \/ HearSettings \/ HearRoomLink \/ HearOutcome \/ HearReset

PollsBoard == HearConfig \/ HearSnapshot

Commanded == Admit \/ Publish \/ ChangeRoom

BridgeNext ==
    \/ BridgeHost \/ TakesInput \/ Reconcile \/ SendTarget \/ HostReceives
    \/ PollsRoom \/ PollsBoard \/ Commanded \/ PublishRepair \/ BoardUp \/ BoardApplies

\* The audio callback, the worker's loop and the driver's loop keep running, a
\* lost board is connected again, and a board with a link answers.  The worker
\* serves each of its queues in every pass.
BridgeFairness ==
    /\ WF_bridgeVars(TakesInput) /\ WF_bridgeVars(Reconcile) /\ WF_bridgeVars(SendTarget)
    /\ WF_bridgeVars(PollsRoom) /\ WF_bridgeVars(PollsBoard) /\ WF_bridgeVars(HostReceives)
    /\ WF_bridgeVars(Commanded) /\ WF_bridgeVars(PublishRepair)
    /\ WF_bridgeVars(BoardUp) /\ WF_bridgeVars(BoardApplies)

BridgeSpec == BridgeInit /\ [][BridgeNext]_bridgeVars /\ BridgeFairness

-----------------------------------------------------------------------------
(* Properties.                                                             *)

Intent == [active : BOOLEAN, token : Nat \ {0}, source : {"host", "board"}] \cup {NoIntent}

\* The state has the shape of the structs; a token is used once.
BridgeTypeOK ==
    /\ pressed \subseteq Key /\ pitches.held \subseteq Key
    /\ \A c \in Class : pitches.pending[c] \in Intent /\ pitches.pending[c].token < pitches.next
    /\ pitches.confirmed \in Config \cup {None} /\ pitches.target \in Config \cup {None}
    /\ Len(commands) <= CommandCapacity /\ Len(events) <= EventCapacity
    /\ Len(outputs.release) <= OutCapacity /\ Len(outputs.note) <= OutCapacity
    /\ board.config \in Config

\* The board is never repainted over an edit made on it: while such an edit is
\* pending, the worker has no target for the board (stage_board_target).
NoRepaintOverEdit ==
    (\E c \in Class : pitches.pending[c].source = "board") => pitches.target = None

\* An intent ends for one of five causes: a projection of the room shows its
\* level, its own fate arrives, a reset covers its token, the room is gone, or the
\* board it came from.  In particular a rejection or a reset never ends a newer
\* intent of the same class, and a projection of the other level ends none.  (A
\* projection of the same level does, also when it answers an older edit.)
IntentEndsForCause ==
    [][\A c \in Class :
          pitches.pending[c] # NoIntent /\ pitches'.pending[c] = NoIntent =>
             \/ /\ events # <<>> /\ Head(events).type = "set"
                /\ (c \in Head(events).set) = pitches.pending[c].active
             \/ /\ events # <<>> /\ Head(events).type = "outcome"
                /\ Head(events).token = pitches.pending[c].token
             \/ pitches.pending[c].token <= abandoned
             \/ events # <<>> /\ Head(events) = Link
             \/ ~board'.up /\ pitches.pending[c].source = "board"]_bridgeVars

\* A snapshot that differs from the target it is about to be compared with; it
\* is not taken down as what the board shows.
Overtaken ==
    /\ uplink # <<>> /\ Head(uplink).type = "snapshot"
    /\ pitches.target \notin {None, Head(uplink).config}

AtRest == pitches.target = None /\ downlink = <<>> /\ uplink = <<>>

\* The board shows the pitch set the worker knows, unless an edit still fences
\* it.  (The settings of a board's edit have no such fence.)
Follows == Pending(pitches) = {} => board.config.pattern = pitches.room

\* Once nobody edits any more, the worker and the board stop repainting and
\* answering each other; and the board then shows what the worker knows of the
\* room, whatever edges, knobs, other peers' records and frames, failed
\* admissions, dropped projections, room changes and link losses came before,
\* in any order, provided no snapshot was overtaken by a newer target
\* (observe_board_snapshot) and no edit of the board refused by a full queue.
BoardFollows ==
    /\ <>[]AtRest
    /\ []~(refused \/ Overtaken) => <>[]Follows

=============================================================================
