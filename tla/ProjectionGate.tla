--------------------------- MODULE ProjectionGate ---------------------------
(***************************************************************************)
(* What the window shows of the music: canonical projections published by  *)
(* the worker service (src/room/worker.rs) and speculative projections of  *)
(* the presented pair session (src/room/session.rs), put in order by       *)
(* RoomSessionProjectionGate and healed by projection resets               *)
(* (src/web/replica_host.rs).                                              *)
(*                                                                         *)
(* The worker posts both kinds of messages on one port, in order, but the  *)
(* session task learns of a durable revision only when it handles the      *)
(* service's input, so it may still speak of an old revision after the     *)
(* service has published a newer one.  The history root is a function of   *)
(* the revision within one worker generation and is left out: the two      *)
(* root conflicts the gate refuses cannot arise between these components.  *)
(***************************************************************************)
EXTENDS Integers, Sequences

CONSTANTS
    MaxRevision,  \* bound: durable revisions in a behaviour
    MaxPredicted, \* bound: speculative Events in a behaviour
    MaxEpoch      \* bound: epochs installed in a behaviour

ASSUME ProjectionGateAssumption ==
    /\ MaxRevision \in Nat
    /\ MaxPredicted \in Nat
    /\ MaxEpoch \in Nat \ {0}

VARIABLES
    revision,    \* durable music revision of the worker service
    announced,   \* last revision a handler of the service announced
    published,   \* last revision published to the window
    deliveries,  \* inputs of the session task: durable progress and resets
    presented,   \* the presented session's projection cursor
    wire,        \* messages posted to the window
    gate,        \* RoomSessionProjectionGate
    outstanding, \* reset_outstanding
    resets,      \* reset requests posted to the worker and not yet begun
    resetting,   \* the service waits for the reply to a reset
    shown,       \* what the window shows
    predicted    \* speculative Events so far

gateVars == <<revision, announced, published, deliveries, presented, wire, gate,
              outstanding, resets, resetting, shown, predicted>>

None == -1

\* A session projection is placed by epoch, generation and sequence; a
\* canonical one has epoch 0.
Point(epoch, generation, sequence, durable) ==
    [epoch |-> epoch, generation |-> generation, sequence |-> sequence, durable |-> durable]

Canonical(r) == [kind |-> "Canonical", at |-> Point(0, 0, 0, r)]

Projection(kind, p) == [kind |-> kind, at |-> p]

GateInit ==
    /\ revision = 0
    /\ announced = 0
    /\ published = 0
    /\ deliveries = <<>>
    /\ presented = Point(0, 0, 0, 0)
    /\ wire = <<Canonical(0)>>
    /\ gate = [canonical |-> None, cursor |-> Point(0, 0, 0, 0), horizon |-> None,
               awaiting |-> FALSE]
    /\ outstanding = FALSE
    /\ resets = 0
    /\ resetting = FALSE
    /\ shown = Point(0, 0, 0, None)
    /\ predicted = 0

(***************************************************************************)
(* Worker service.                                                         *)
(***************************************************************************)

\* A commit, a grant, a drained reification or an inbound record advances the
\* durable revision, or a repair frame does; the session task is told before
\* the projection is announced.
Durable(kind, r) ==
    /\ ~resetting
    /\ r \in revision + 1 .. MaxRevision
    /\ kind = "Advance" => r = revision + 1
    /\ revision' = r
    /\ announced' = r
    /\ deliveries' = Append(deliveries, [kind |-> kind, durable |-> r])
    /\ UNCHANGED <<published, presented, wire, gate, outstanding, resets, resetting, shown,
                   predicted>>

\* grant_peer commits the music grant and fails on the extension lane: the
\* revision has grown and neither the session task nor the window is told.
GrantFails ==
    /\ ~resetting
    /\ revision < MaxRevision
    /\ revision' = revision + 1
    /\ UNCHANGED <<announced, published, deliveries, presented, wire, gate, outstanding,
                   resets, resetting, shown, predicted>>

\* publish_projection, delivered as the window's pulls allow.
Publish ==
    /\ published < announced
    /\ published' = announced
    /\ wire' = Append(wire, Canonical(announced))
    /\ UNCHANGED <<revision, announced, deliveries, presented, gate, outstanding, resets,
                   resetting, shown, predicted>>

\* RoomWorkerCommand::ResetSessionProjection.
BeginReset ==
    /\ ~resetting
    /\ resets > 0
    /\ resets' = resets - 1
    /\ resetting' = TRUE
    /\ deliveries' = Append(deliveries, [kind |-> "Reset", durable |-> revision])
    /\ UNCHANGED <<revision, announced, published, presented, wire, gate, outstanding,
                   shown, predicted>>

(***************************************************************************)
(* Session task.                                                           *)
(***************************************************************************)
Emit(kind, p) ==
    /\ presented' = p
    /\ wire' = Append(wire, Projection(kind, p))

NextSequence(p, r) == Point(p.epoch, p.generation, p.sequence + 1, r)

NextGeneration(p, r) == Point(p.epoch, p.generation + 1, 0, r)

\* advance_durable of the presented session.
AdvanceDurable(r) ==
    CASE r <= presented.durable -> UNCHANGED <<presented, wire>>
      [] r = presented.durable + 1 -> Emit("Advanced", NextSequence(presented, r))
      [] OTHER -> Emit("Reset", NextGeneration(presented, r))

\* One input: advance_all, or reset_all_projections for a repair or a reset.
\* Without an active session a reset reports that nothing was emitted.
HandleInput ==
    LET i == Head(deliveries)
        active == presented.epoch # 0
    IN  /\ deliveries # <<>>
        /\ deliveries' = Tail(deliveries)
        /\ CASE ~active -> /\ presented' = [presented EXCEPT !.durable = i.durable]
                           /\ UNCHANGED wire
             [] active /\ i.kind = "Advance" -> AdvanceDurable(i.durable)
             [] OTHER -> Emit("Reset", NextGeneration(presented, i.durable))
        /\ resetting' = (resetting /\ i.kind # "Reset")
        /\ outstanding' = (outstanding /\ (i.kind = "Reset" => active))
        /\ UNCHANGED <<revision, announced, published, gate, resets, shown, predicted>>

\* A local or remote Event is shown before it is durable.
Predict ==
    /\ presented.epoch # 0
    /\ predicted < MaxPredicted
    /\ predicted' = predicted + 1
    /\ Emit("Predicted", NextSequence(presented, presented.durable))
    /\ UNCHANGED <<revision, announced, published, deliveries, gate, outstanding, resets,
                   resetting, shown>>

\* install_session: a new epoch of the presented pair starts with a reset.  The
\* floor was persisted on the current frontier; later revisions may be
\* published before the reset is emitted.
InstallEpoch ==
    /\ presented.epoch < MaxEpoch
    /\ Emit("Reset", Point(presented.epoch + 1, 1, 0, presented.durable))
    /\ UNCHANGED <<revision, announced, published, deliveries, gate, outstanding, resets,
                   resetting, shown, predicted>>

(***************************************************************************)
(* Window.                                                                 *)
(***************************************************************************)

\* canonical(): older than the last one, hidden behind the session, or shown.
CanonicalVerdict(r) ==
    CASE r < gate.canonical -> "stale"
      [] r >= gate.canonical /\ gate.horizon >= r -> "hidden"
      [] OTHER -> "show"

ReceiveCanonical(r) ==
    /\ gate' = IF CanonicalVerdict(r) = "stale" THEN gate
               ELSE [gate EXCEPT !.canonical = r,
                                 !.horizon = IF CanonicalVerdict(r) = "show" THEN None ELSE @]
    /\ shown' = IF CanonicalVerdict(r) = "show" THEN Point(0, 0, 0, r) ELSE shown
    /\ UNCHANGED <<outstanding, resets>>

\* Mutant: a stale session projection is not compared with the canonical one.
MutVerdictStale(m) ==
    LET c == gate.cursor
    IN  IF (gate.awaiting /\ m.kind # "Reset") \/ (c.epoch # 0 /\ m.at.epoch < c.epoch)
        THEN "ignore"
        ELSE IF c.epoch # 0 /\ c.epoch = m.at.epoch /\ c.generation = m.at.generation
        THEN IF m.at.sequence = c.sequence + 1 THEN "accept" ELSE "refuse"
        ELSE IF m.kind = "Reset" THEN "accept" ELSE "refuse"

\* accept(): the verdict on a session projection.
Verdict(m) ==
    LET c == gate.cursor
        p == m.at
    IN  CASE gate.awaiting /\ m.kind # "Reset" -> "ignore"
          [] p.durable < gate.canonical -> "ignore"
          [] OTHER ->
             CASE c.epoch = 0 ->
                    IF m.kind = "Reset" THEN "accept" ELSE "refuse"
               [] c.epoch # 0 /\ c.epoch # p.epoch ->
                    IF p.epoch <= c.epoch THEN "ignore"
                    ELSE IF m.kind = "Reset" THEN "accept" ELSE "refuse"
               [] c.epoch # 0 /\ c.epoch = p.epoch /\ c.generation # p.generation ->
                    IF m.kind = "Reset" /\ p.generation > c.generation
                    THEN "accept" ELSE "refuse"
               [] OTHER ->
                    IF p.sequence = c.sequence + 1 THEN "accept" ELSE "refuse"

\* Mutant: a refused projection does not ask for a reset.
MutReceiveProjection(m) ==
    CASE Verdict(m) = "ignore" -> UNCHANGED <<gate, outstanding, resets, shown>>
      [] Verdict(m) = "refuse" ->
           /\ gate' = [gate EXCEPT !.awaiting = TRUE]
           /\ UNCHANGED <<outstanding, resets, shown>>
      [] Verdict(m) = "accept" ->
           /\ gate' = [gate EXCEPT !.cursor = m.at, !.horizon = m.at.durable,
                                   !.awaiting = @ /\ m.kind # "Reset"]
           /\ outstanding' = (outstanding /\ m.kind # "Reset")
           /\ shown' = m.at
           /\ UNCHANGED resets

\* A refusal asks for a reset unless one is outstanding.
ReceiveProjection(m) ==
    CASE Verdict(m) = "ignore" -> UNCHANGED <<gate, outstanding, resets, shown>>
      [] Verdict(m) = "refuse" ->
           /\ gate' = [gate EXCEPT !.awaiting = TRUE]
           /\ outstanding' = TRUE
           /\ resets' = IF outstanding THEN resets ELSE resets + 1
           /\ UNCHANGED shown
      [] Verdict(m) = "accept" ->
           /\ gate' = [gate EXCEPT !.cursor = m.at, !.horizon = m.at.durable,
                                   !.awaiting = @ /\ m.kind # "Reset"]
           /\ outstanding' = (outstanding /\ m.kind # "Reset")
           /\ shown' = m.at
           /\ UNCHANGED resets

ReceiveMessage ==
    /\ wire # <<>>
    /\ wire' = Tail(wire)
    /\ IF Head(wire).kind = "Canonical"
       THEN ReceiveCanonical(Head(wire).at.durable)
       ELSE ReceiveProjection(Head(wire))
    /\ UNCHANGED <<revision, announced, published, deliveries, presented, resetting,
                   predicted>>

GateNext ==
    \/ \E kind \in {"Advance", "Repair"}, r \in 1 .. MaxRevision : Durable(kind, r)
    \/ GrantFails \/ Publish \/ BeginReset
    \/ HandleInput \/ Predict \/ InstallEpoch
    \/ ReceiveMessage

GateSpec == GateInit /\ [][GateNext]_gateVars

\* Service, session task and window run on live event loops; new revisions,
\* Events and epochs are never owed.
GateFairSpec ==
    /\ GateSpec
    /\ WF_gateVars(Publish) /\ WF_gateVars(BeginReset)
    /\ WF_gateVars(HandleInput) /\ WF_gateVars(ReceiveMessage)

-----------------------------------------------------------------------------
Points == [epoch : 0 .. MaxEpoch, generation : Nat, sequence : Nat, durable : Int]

\* The state has the shape of the gate, the cursor and the queues of the code.
GateTypeOK ==
    /\ revision \in 0 .. MaxRevision
    /\ announced \in 0 .. MaxRevision
    /\ published \in 0 .. MaxRevision
    /\ deliveries \in Seq([kind : {"Advance", "Repair", "Reset"}, durable : 0 .. MaxRevision])
    /\ presented \in Points
    /\ wire \in Seq([kind : {"Canonical", "Predicted", "Advanced", "Reset"}, at : Points])
    /\ gate \in [canonical : Int, cursor : Points, horizon : Int, awaiting : BOOLEAN]
    /\ outstanding \in BOOLEAN
    /\ resets \in Nat
    /\ resetting \in BOOLEAN
    /\ shown \in Points
    /\ predicted \in 0 .. MaxPredicted

\* Nothing is under way between worker and window.
GateQuiet ==
    /\ wire = <<>> /\ deliveries = <<>>
    /\ published = announced
    /\ resets = 0 /\ ~resetting

\* Once nothing is under way the window shows the session's latest projection,
\* or the latest canonical one when there is no session: every dropped or
\* stale projection has been made good by a reset.
ShowsTheLatest ==
    GateQuiet => IF presented.epoch = 0 THEN shown.durable = announced
                                  ELSE shown = presented

\* The music shown never goes back: not to an older durable revision, and
\* within a session not to an earlier projection.
NeverGoesBack ==
    [][/\ shown'.durable >= shown.durable
       /\ shown'.epoch = shown.epoch /\ shown'.generation = shown.generation
             => shown'.sequence >= shown.sequence]_gateVars

\* A gate that waits for a reset gets one: reset requests are coalesced, yet
\* none is answered by a reset the gate then drops.
ResetArrives == gate.awaiting ~> ~gate.awaiting
=============================================================================
