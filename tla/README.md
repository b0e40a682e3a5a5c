# Verification of Walkie-Songie's replicated rooms

Walkie-Songie is a peer-to-peer music room.  Every participant keeps a durable,
signed history of the room ("Room v5"), exchanges records and repairs with its
peers, and, for low latency, plays inside a *compact pair session*: short
speculative Events that are turned ("reified") into durable history
afterwards.  There are three hosts: the browser, where the durable replica and
the session task live in a dedicated worker and the window owns the network and
what is shown; the desktop (Tauri); and a plugin, which joins a room natively
and connects a hardware board ("Round Table") to it over Bluetooth.

This directory holds TLA+ models of that system, the TLC runs that check them on
small instances, and TLAPS proofs.  Paths below are relative to the repository
root.

## 1. Inventory

| Component | Source | State it keeps | Operations | What makes it correct |
|---|---|---|---|---|
| Pair session task | `src/room/session.rs` | per peer: foundation, pending offer, active epoch, in-flight reifications, cached renewal floor | start, Offer, Answer, Event, local edit, confirmation, observation, durable advance, renewal, failure | no epoch is used twice, nothing is answered before it is durable, no durable obligation is dropped, a pair without a session gets one |
| Session projection and gate | `src/room/session.rs` (`RoomSessionProjectionGate`, `projection_event`), `src/web/replica_host.rs` | projection cursor, gate cursor, canonical revision, `reset_outstanding` | predict, advance, reset, accept, refuse | what is shown never goes back and always catches up |
| Room worker service | `src/room/worker.rs` | music and extension replicas, session inbox, floor store, published projection, repair sessions | commit, drain, inbound record, repair, grant, presence, floor load and persist, reset | one request at a time; durable before announced; always answers |
| Browser worker adapter | `src/web/replica_worker.rs` | pending renewal-store futures, inbox, subscriptions, window-side request map | route, resolve, receive, repair | each store future gets its own result |
| Performance feedback | `src/room/performance_feedback.rs`, `src/web/replica_host.rs` | table of pressed controls, generation, sequence | begin, roll back, resolve, reset, install generation | no control stays pressed; an outcome releases its own press only |
| Browser host: generations | `src/web/replica_host.rs` | `active_room`, operation and generation counters, recovery task | enter, leave, launch, fail, recover | one live worker; a superseded launch leaves nothing behind |
| Repair coordination | `src/web/replica_host.rs`, `src-tauri/src/lib.rs`, `src/bridge/native_room.rs`, `src/net/repair.rs`, `src/net/replica.rs` | slots per peer and lane, permit, retries, peers shown as synchronized | trigger, attempt, accept, confirm, close, probe, sweep | connected placements converge; logs stay causally closed |
| Room v5 admission and views | `src/room/v5.rs`, `projection.rs`, `events.rs` | the lanes' histories, prepared commands, materialised views | admit, grant, delegate, revoke, author, prepare, commit, materialise, sign and verify presence | what one replica admits every replica admits; the view shows a member's own command |
| Rendezvous | `src/net/rendezvous.rs` | `joined`, known incarnations, child tasks | hello, discover, refresh, join, reconnect | an old incarnation is never resurrected; whoever is discovered is joined |
| WebRTC transport | `src/net/webrtc_transport.rs` | one link per peer, early ICE | dial, offer, answer, candidate, retire | both ends settle on one attempt |
| Iroh transports | `src/net/native.rs`, `browser.rs`, `iroh_common.rs`, `realtime.rs`, `identity.rs` | connections, gossip topic | broadcast, accept | lossy, reordering carriers |
| Plugin bridge | `src/bridge/mod.rs`, `composite.rs`, `native_room.rs` | pitch intents, board target, host output; native room driver; composite routing | propose, admit, publish, reconcile, provision, repair a board | the board and the host output end up showing the room; no intent ends without its cause |
| BLE transport | `src/bridge/ble.rs`, `ble_transport.rs`, `ble_btleplug.rs` | desired board, session, trust; driver connection and scan; transmit queues | scan, connect, trust, authenticate, write, lose, reconnect | a wanted board is found again; only a trusted one gets a session; repair frames get through |
| Desktop runtime | `src-tauri/src/lib.rs` | room control, snapshot, peers | enter, leave, apply, present | as the browser host |
| Web window | `src/web/app.rs`, `src/client.rs` | the window's snapshot | apply an event | it shows what the host holds |
| Components, audio, MIDI, storage, words, plugin shell, relay | `src/web/*`, `src/midi`, `src/words.rs`, `src/plugin`, `relay` | presentation | - | not modelled, see section 7 |

How they interact:

* The window posts *requests* to the worker; the worker service handles one at a
  time and passes *inputs* to the session task through a channel of 64 places.
  Carriers of peers go straight into that channel.
* The session task sends *egress* to the window (carriers, projections,
  store requests, rejections).  To load or persist a renewal floor it awaits a
  future whose request travels through the window back into the service's
  queue, so the three loops can wait for each other in a circle.
* The session task puts reifications on a queue which the window's drain loop
  has the service commit; the service tells the session task of every durable
  change, and the window of every canonical projection.
* Session carriers travel twice (direct and gossip) and may be lost, repeated,
  delayed and reordered; durable entries arrive as live records or by repair.
* A generation (worker, session task, loops) ends by failure, by a crash or by
  the user; the next one starts from durable state alone.
* Hosts announce themselves on the signalling server, exchange WebRTC signals
  over it, join the peers they discover in gossip, and repair each lane with
  each neighbour over a stream that only the lower endpoint opens.
* A host keeps the snapshot of the room and sends the window only differences.
* In the plugin, the bridge worker stands between the DAW's notes, the native
  room (a driver thread with bounded queues both ways) and the board's leg; the
  composite transport routes the events of room and board to each other.

The hard behaviours are listed in `PROJECT.json` under `hazards`, each at its
line.

## 2. Modules

| Module | Models | Composes |
|---|---|---|
| `RoomSession` | two session tasks with the durable part of their workers and the network between them; implements `EpochRegister` | session task, worker history and floor, carriers, crashes |
| `EpochRegister` | abstract: a register of renewal floors and the epochs opened at them | - |
| `RoomSessionProofs` | theorems about `RoomSession`: epochs and floors | - |
| `RoomSessionHistoryProofs` | theorems about `RoomSession`: session ids, obligations, histories, sessions that were left, and that it implements `EpochRegister` | on top of `RoomSessionProofs` |
| `SessionService` | one placement's window loops, worker service and session task as a circle of waits | window, service, session task |
| `ProjectionGate` | the two projection streams of one generation and the window's gate | service, session task, window |
| `PerformanceFeedback` | the table of pressed controls over generations | window, dispatch loop, room loop, worker |
| `RoomGenerations` | which room the host runs: commands, launches, failures and recoveries | dispatch loop, recovery tasks, room loops, workers and their locks |
| `HostProofs` | theorems about `ProjectionGate`, `PerformanceFeedback`, `RoomGenerations`, `SessionService` and `MCHost` | - |
| `RoomReplica` | the replicas of the extension lane: admission, authoring, presence and the view | members' devices, browsers' workers, repair |
| `RoomWindow` | the host's snapshot, its events, and the window that rebuilds the snapshot | browser or desktop host, window |
| `RoomProofs` | theorems about `RoomReplica`, `RoomWindow` and `MCRoom` | on top of `RoomSessionProofs` |
| `CausalLog` | abstract: logs that stay causally closed and only grow, but for those kept in memory; implemented by `LaneRepair` and by `RoomReplica` | - |
| `LaneRepair` | one lane's live records, hints, probes and repair attempts between placements; implements `CausalLog` | three kinds of host, gossip, streams |
| `LaneRepairProofs` | theorems about `LaneRepair` and that it implements `CausalLog` | - |
| `WebRtcTransport` | the carrier's links and signals, as operators on one placement's state | - |
| `Rendezvous` | signalling server, Hello exchange, discovery and joins over `WebRtcTransport` | two browsers, server, links |
| `RendezvousProofs` | theorems about `Rendezvous` with its links | - |
| `PluginBridge` | pitch intents between the DAW, the native room and the board | bridge worker, room driver, board |
| `BoardRepair` | provisioning and repair of a board | composite, room driver, BLE session, board |
| `BoardRepairProofs` | theorems about `BoardRepair` and `MCNative` | on top of `NativeProofs` |
| `BoardLink` | supervision of the Bluetooth link | transport, driver, radio, user |
| `BleTx` | the transmit scheduler | driver, queues |
| `NativeProofs` | theorems about `PluginBridge`, `BoardLink` and `BleTx` | - |

Three instances join modules that share no state at the level at which they are
modelled: `MCRoom` (`RoomSession`, `RoomReplica`, `RoomWindow`), `MCHost`
(`ProjectionGate`, `PerformanceFeedback`, `RoomGenerations`, `SessionService`) and
`MCNative` (`PluginBridge`, `BoardRepair`, `BoardLink`, `BleTx`).  A behaviour of
such an instance is a behaviour of one part, named by `part`, while the others
stay in their initial state; the fairness of each part is restated for it.
Nothing is gained or lost against separate runs.  `Rendezvous` over
`WebRtcTransport` and `RoomSession` are compositions with shared state.

### RoomSession

`task[a]` is `RoomSessionTask` reduced to one peer: `pending` (the offer),
`active` (the epoch: Events sent and received, durable admissions the planner
knows of, own Events that wait for a dependency), `inflight`, `needed`
(`renewal_needed`), `cache` (`renewal_floors`), `view` (how much of the
worker's history the task was told of: foundations are compared by their
history), `install` (the task is inside `install_session`) and `doomed` (the
worker refused the floor; the window is about to end the generation).  `log[a]`
and `store[a]` are durable, the rest is lost in a crash.  `opened` is a history
variable with the epochs a placement activated.

Every input of the task is one step, because the task handles one input at a
time.  The exception is `install_session`, which awaits the store: it is cut
into the Offer or Answer handler, `PersistFloor` and `InstallSession`, with the
task busy (`~Idle`) in between, while worker, network and peer go on.  When the
worker finds another frontier than the one the epoch is based on, the task gives
up the install and goes on until `EndGeneration`.  A failed Event or edit
(expired lease) ends the task at once (`Reopen`); what the worker may still do
before it is reopened commutes with that step.

Data is abstracted: a session id is a fresh number, Events carry their dot and
context, capabilities and keys are assumed valid, pitches are absent.  A floor
read is one step, since only this placement writes its floor and the task waits.
The `retired` map is left out: outside the tests nothing is ever put into it.
The store either writes the floor or refuses it; an I/O error of the browser's
storage is not distinguished from a crash.

`EpochRegister` is what all this amounts to for anybody who uses an epoch: each
placement has a floor it raises and never lowers, an epoch is opened at the
floor its placement has raised and above all it opened before, and a session
means one epoch on both sides.  `ImplementsEpochRegister` says that
`RoomSession` implements it, with `store` as the floors and the history
variable `opened` as itself: Offers, Answers, carriers, histories and crashes
are stuttering steps.

`LeftForGood` and `StuckIsForGood` are stated for the proofs: that no late carrier
takes a placement back into a session it has left, and what follows from it for
the placement of finding `session_stuck`, whose Event follows one (`Stuck`) that
its author lost with the session.

### SessionService

Keeps only who waits for whom: the queue of requests, the request being served
and the inputs it still has to send, the inbox, the input being handled, and the
one store request on its way.  Requests are named after the window loop that
posts them, since each loop has at most one outstanding.  `StoreAt` names the
four places a store request or its result can be.  `InCircle` is the kind of
state the finding `service_reset` ends in, `Busy` that somebody has something in hand, and
`Demand` counts the places of the inbox that what is under way will need; the
theorems about them say that this circle is the only one.

### ProjectionGate

A projection is a point (epoch, generation, sequence, durable revision).
Canonical projections carry only a revision.  `Verdict` is
`RoomSessionProjectionGate::accept`, `CanonicalVerdict` is `canonical`.  A
projection the gate drops as stale does not move its cursor, so the next one
looks like a gap and costs a reset: resets are routine here and the properties
say that they always make things good.  `GrantFails` is the one handler that
changes the revision and announces nothing.

### PerformanceFeedback

The table of `performance_feedback.rs` (one slot per control, bounded, ordered
by token), the bounded command queue, the dispatch loop's one submission, the
stages a press goes through in the worker, and the outcomes on their way back,
over stopped, failed and relaunched generations.

### RoomGenerations

`op`, `active` and `perf` are `room_operation`, `active_room` and
`performance_generation` of `HostState`; `wish` is a history variable with the
last command.  `worker[g]` says which room a worker generation opened and
whether it runs and holds the Web Lock; a terminated worker keeps the lock until
`Release`.  `loops` are the generations whose tasks have not been joined.
`task[User]` is the dispatch loop, which handles one command at a time, the
others are the recovery task of each failure.  `launch_room` is cut where it
awaits: the opening (`Acquire`, `Opened`, `OpenFails`) and the network
(`Bound`, `BindFails`); between the cuts every other task runs.  Generations are
numbered when an opening starts and the lock refuses a second worker at once:
both are behaviour of the external `hhhs_web_browser`.

### RoomReplica

An entry keeps its command or capability, its author, the grants it presents,
its past and a rank.  `Validate` is `RoomAdmissionPolicy::validate`, which judges
an entry where its author stood; `MaterializeExtension` is what a replica shows,
which judges the same entries from everything it knows by now.  A native host
authors in one step; a browser's worker signs and stages (`PrepareAuthor`) and
commits once the store has written it (`CommitPrepared`), while repair brings in
other entries.  `Founded` is the room with its members granted.
`ReplicatesCausalLog` says that the replicas implement `CausalLog`: the same
abstract log as the repair of `LaneRepair`, seen from admission.

The extension lane is modelled because its policy and its view are defined in
the repository; the music lane shares `author_with`, the grants and the
durability, and has its policy and view from `tutti_music_hhhs`.  The rank stands
for an entry's hash, which only decides between concurrent writes; a new write
ranks above or below all it has not seen, which is every case while two replicas
write.  The lock register stands for the emoji register too.  Authorisation
(`GrantHolds`, `Authorized`) is `hhhs_cap`'s; `path` of a grant are the
delegations above it, so a revocation of any of them, or of the grant, ends it.
Replicas are not reopened in this module: as a `CausalLog` none of them is
`volatile`.

### RoomWindow

`snapshot` is the host's, `channel` the events on their way, `window` the
window's rebuilt snapshot: pieces, lock, peers with their path, and the rows of
voices in order.  `apply_room_view` compares, `apply_presence` and `update_peer`
change one row, and each difference is one event; `Delta` is
`apply_native_delta`.  On a room change hosts clear parts of the snapshot
without an event (`launch_room`, `leave_room`); `forgotten` names the parts for
which that has happened, so that the property can say what is and what is not
kept in step.  A relayed path is shown like a direct one.

### LaneRepair and CausalLog

One lane.  `log[p]` are the entries a placement holds, `causes[e]` what the
author held when it made e.  Each kind of host has its own operators
(`Browser...`, `Desktop...`, `Plugin...`) for scheduling, authoring, live records,
hints, acceptance and display, because each handles them differently: a browser
coalesces triggers in one slot per peer, retries stale attempts and probes every
27 s; a desktop spawns a task for each trigger and sweeps; a plugin has one
repair per peer in flight and drops triggers meanwhile.  An attempt has the
initiator's and the responder's progress and the cut each captured.  The HHHS
session is external: each side applies the other's cut.  `Confirm` is
`confirm_close_with_host`: an attempt ends `complete` only when the log is what
the session saw.  The end of a side is two steps, because the code awaits
between them (`start_session_peer` in the browser, the lock of the durable room
in the desktop): `InitiatorConfirms` and `ResponderConfirms` confirm the close,
keep its result and what the log then was (`iseen`, `rseen`), and
`InitiatorReports` and `ResponderReports` present the peer and release the slot.
In between entries are committed, neighbours go and rooms are reopened.

`Restart` closes a placement's room and opens it again.  Browser and desktop open
their stored log; the plugin opens an empty one (`RoomReplicas::memory`), so its
log is gone, and `lost` of the attempts under way remembers that.  The plugin
aborts its repair tasks and the browser cancels its own; the desktop's are
detached and may still report.  Dialling and waiting for the permit are one step;
grants to a new neighbour are part of `NeighborUp`; copies of hints and probes to
peers that would not initiate are left out; timeouts are faults (`Break`).

`CausalLog` is the abstract specification: an entry is made on top of the
author's log, what others learn is causally closed, and a placement in
`volatile` may start over with nothing.  `ImplementsCausalLog` says that
`LaneRepair` implements it, with `log`, `causes` and `made` themselves as the
mapping and the plugins as `volatile`.  `SynchronizedMeansHeld` is about the moment
a peer starts to be shown as synchronized: it holds everything the local log held
at the confirmation, unless the peer lost its log since.

### Rendezvous and WebRtcTransport

A placement has a socket or not, the peers it has `joined`, the incarnations it
has seen, and its child tasks (the deferred join, the rejoin after a
reincarnation).  The server forwards to whoever is subscribed; messages of a
closed placement may arrive late (`MaxLate`).  The transport's driver handles its
commands one at a time, so a dial or a signal is one step; its queue only adds
delay.  Early candidates are kept per attempt; a link that is retired, an answer
for another attempt or an offer by the wrong side are dropped as the code does.
A description is published before its candidates, and two ends match when each
has the other's description and candidate.  Handshakes take less than the time
between two Hellos (3 s and 30 s).

### PluginBridge, BoardRepair, BoardLink, BleTx

`PluginBridge`: `pitches` is `BridgePitchState` (room set, settings, intents with
their tokens, what the host holds, the board's target and confirmation); `native`
and the two queues are the room driver's; `board` is the board, external.  Each
poll of an event, each drained input and each driver command is a step, in the
order of `run_bridge`.  Both queues are bounded.  A full command queue refuses a
command: a key's token is used up and nothing is tracked, a board's edit has set
`board_confirmed` already (`refused` remembers it).  A full event queue drops an
event, but keeps the highest token of a dropped outcome, as `EventSink::send`
does.

A command is admitted in one step and answered in another (`Admit`, `Publish`),
and repair tasks and other peers write the Replica at any time, in between as
well (`RemoteEdit`).  An admission in an active room may fail (`CanFail`), before
anything is committed or after a part or all of it is: the failure of a
broadcast returns an error for an edit that is canonical.  A peer's round-table
frame (`PeerFrame`) is forwarded without the Replica and sets the settings the
worker knows.  A board's run button sends `Run` frames, which are edits or are only
passed on (`PressRun`).

`BoardRepair`: a board's session asks for provisioning, the room prepares a
bundle, the board takes it, the room opens a repair attempt, its frames cross the
session, both sides exchange FINs, the room confirms and the link is ready.
`comp`, `room`, `ble` and `leaf` are the composite's, the driver's, the transport's
and the board's part; two queues in each direction lie between.  The room's
command queue may refuse any command of the composite (`Full`), which then does
what the code does: it asks again later for a provisioning, fences the repair
(`Fence`) when a start, a frame or a confirmation is refused, and forgets the
session when an abort is.

`BoardLink`: `link` is `BleLinkTransport`, `driver` the driver's loop, `orders` and
`notices` the queues between.  An attempt to connect ends connected, tried again
or failed.  INFO is reported by the task spawned for the notifications, which runs
before `install_connection` reports Connected, or behind it, or both
(`Greetings`).

`BleTx`: messages of two fragments in three lanes, the fragment under way, the
alternation and the fault flag.

## 3. Runs

| Run | Question | Result |
|---|---|---|
| `session_edits` | With two edits, an edit and a fault, or two faults: is an epoch ever reused (and is the register of epochs implemented), an Answer sent above the durable floor, an obligation dropped or a history open?  Do the replicas implement a causal log, does one refuse what another has admitted, or fail to show a member's own command?  Does the window lose step with its host? | no |
| `session_heals` | After two faults, or a fault beside an edit or a plain command, does a placement without a session always get one? | yes |
| `session_stuck` | The same with two edits and a fault | **no**, see findings |
| `service_reset` | Does a store request always get its answer, also with projection resets? | **no**, see findings |
| `host` | Do crossing projections take the display back or leave it behind?  Does a control stay pressed, or an outcome release a foreign press?  Is ever another room than the last wish installed, or a recovery given up early?  Does the service answer every request when the inbox has room and nobody asks for a reset? | as wanted |
| `generations_stray` | Does every running worker have an owner? | **no**, see findings |
| `direct` | Do two browsers that stay end with one open direct link?  Do the joined peers and the remembered incarnations ever disagree? | yes; no |
| `direct_unjoined` | Is every discovered peer joined in gossip in the end? | **no**, see findings |
| `repair` | Do logs converge, also from a plugin's emptied one, and stay causally closed?  Does nobody hold a slot without a task or show a peer as synchronized that never was? | as wanted |
| `repair_refused` | Do two plugins' logs converge? | **no**, see findings |
| `native` | Do intents end for cause, and does the board end following the room and keep an edit made on it?  Does its repair end or report and let the next session in, its link come back, its repair frames get through? | yes, with the exceptions the properties name |
| `board_switch` | Is a board reached that is selected while another one is connected? | **no**, see findings |

Bounds and why they are enough:

* `session_edits`, session: two sessions, so that a first epoch and its renewal
  (or its successor after a crash) fit; epochs of two Events (the real bound is
  64), so the reserve, the last Event and saturation are all met; edits and
  faults together at most two (the constant `Budgets` lists what a behaviour may
  combine).  Two edits with a fault are outside
  the bound; the theorems cover the floor and the epochs for every bound.
  Plain commands are in `session_heals` only.
* `session_edits`, replicas: two replicas, one of them a browser's worker, and
  three entries or frames on top of the founded room: two concurrent ones and
  one more that sees, moves, removes, locks or revokes.
* `session_edits`, window: one other peer, one piece at two places, two voice
  sessions and four changes, enough to put, change, leave and enter again.  One
  room name: another room is a leave and an enter.
* `session_heals`: two faults, or one beside an edit or a plain command; nine
  session ids are more than any behaviour uses, so no behaviour is cut short, and
  deadlock is checked.  Not two edits with a fault: `session_stuck` shows why.
* `host`: an inbox of 5 instead of 64, the least that holds one complete round of
  inputs of all loops; two revisions, two epochs and one prediction; two
  controls, a table and a queue of one and two generations; two rooms, two
  commands and two failures so that two recoveries can overlap, one failed
  opening or binding, and a backoff table of two attempts instead of six.
* `direct`: one fault (a dropped socket, a reopened placement or a broken
  connection), one late message and two remembered incarnations.
* `repair`: two browsers with two entries, or with one entry and one fault (a lost
  message, a broken attempt, a reopened room, a lost neighbour); a plugin and a
  browser with two entries and one fault, so that the plugin is emptied after it
  has handed over one entry, two or none, and before, during and after a repair; a
  desktop and a browser with one or two entries and no fault, or with one fault
  and no entry, since the desktop's uncoalesced tasks multiply the states (at most
  two at a time).  Retries at most one.
* `native`: one pitch class and one key; the sessions `BridgeSessions` lists, each
  with the events whose interleaving it is about: up to three presses or knobs,
  a failed admission, two edits of other peers, a peer's frame; a command queue of
  two (64 in the code) and an event queue of five (256), so that both fill up; two
  rooms, two board sessions, two switches, one deadline or refused command, one
  repeated request; one board, two user actions, two faults; lanes of two control
  messages and a reservation of four.
* The violation runs have the smallest bounds that show the disagreement.

Deadlock checks are off only where behaviours end because a bound is used up, or
where the system is at rest once nobody does anything.

Fairness:

* `RoomSession`: weak fairness of the worker's, task's and window's own steps
  and of the delivery of each carrier in flight (a carrier may still be lost, as
  a fault).  `Timely` says that carriers arrive, and a refused generation ends,
  within the two seconds between two `StartPeer`; `StartPeer` then needs strong
  fairness, because it is disabled while carriers are in flight, although the
  timer itself never stops.  The safety runs and the proofs do not assume
  `Timely`.  `Replicate(a, FALSE)` is fair because the window probes for repair
  every 27 seconds; live records are never owed.
* `SessionService`, `ProjectionGate`, `PerformanceFeedback`: weak fairness of
  each event loop's next step; user actions, new revisions, epochs and failures
  are never owed.  `LightTraffic` in `SessionService` is a workload assumption:
  requests and carriers come while the inbox has room for them.
* `RoomGenerations`: weak fairness of every task's next step, of the end of each
  opening and binding (both answer or fail) and of the release of a terminated
  worker's lock; commands, failures and faults are never owed.
* `Rendezvous`: sockets reconnect, Hellos are repeated, messages that are not
  lost arrive, children and drivers are scheduled.
* `LaneRepair`: the probe and sweep timers fire, room loops and repair tasks are
  scheduled, gossip that is not lost arrives and a lost neighbour comes back;
  authoring and faults are never owed.
* `PluginBridge`, `BoardRepair`, `BoardLink`, `BleTx`: the audio callback, the
  bridge worker, the room driver, the Bluetooth driver and its ticks keep
  running, the board answers, and the user answers the question whether to trust
  a board; keys, knobs, other peers' edits, losses and timeouts are never owed.

Every property has a mutant in `PROJECT.json`: a plausible bug in the modelled
code (a dropped guard, a stale cache, a missing reset) under which TLC finds the
property violated.

## 4. Findings

* `session_stuck`.  A placement that made an edit in sight of a peer's Event
  waits for that Event's durable entry.  If the peer crashed before reifying it,
  the entry never comes, and the waiting placement refuses every later Offer
  ("session renewal arrived before local durable obligations drained") and
  begins no session itself.  Recovery promises a fresh epoch; the pair does not
  get one until the waiting placement's own generation ends.
* `service_reset`.  A projection reset that is queued ahead of a renewal-store
  request makes the service wait for the session task, which waits for the
  store, which waits for the service.  No timeout ends it.
* `generations_stray`.  A recovery that is still opening the failed room's worker
  while the user enters another room may open second.  Its generation is then
  older than the installed one, and `launch_room` returns at
  `install_performance_generation(...)?` without the `terminate()` its other
  error returns have.  The worker runs on with nobody to end it and keeps the
  lock of the old room.
* `direct_unjoined`.  The wait for a direct path that ends in joining a peer is a
  child of `run_rendezvous`, which a dropped socket ends, children included;
  `joined`, which says the peer needs no join, survives in `rendezvous_main`.
* `repair_refused`.  The plugin only logs a live record whose predecessors it
  lacks, while the record's documentation promises a repair.
* `board_switch`.  Choosing another board makes the driver report the loss of the
  old one during the new attempt; the transport takes it for a loss of the
  wanted board and scans, and the scan's result connects the wanted board again
  and again.

Also met while modelling, without a run:

* A late Answer removes a newer pending Offer before ids are compared, and an
  Offer retransmitted after it was answered is countered with one epoch more.
  Both heal with the next traffic (`session_heals`).  A user's own enter that
  meets the lock of a superseded launch reports an error and is not repeated.
* A projection of the room ends every intent of a class whose level it shows.  With
  three presses of one key (on, off, on) the projection of the first ends the
  intent of the third, and until the second and third are admitted the worker takes
  the room's older sets for current, against the comment "A stale snapshot
  therefore cannot erase a newer local intent" (`src/bridge/mod.rs:786-788`).
  `IntentEndsForCause` says what does hold: a projection of the other level ends
  no intent, and a rejection or a reset no newer one.
* What the board shows in the end (`BoardFollows`) follows the set the worker knows,
  with these exceptions.  A snapshot overtaken by a newer target (`Overtaken`) is
  not taken down as what the board shows (`observe_board_snapshot` returns early),
  so when the target then goes back, or a fence clears it, nothing is repainted.
  An edit of the board that the full command queue refuses has set
  `board_confirmed` already (`mod.rs:1432-1461`): the room never gets the edit and
  the board is not repainted.  A set that the full event queue dropped
  counts as sent (`native_room.rs:802-809`) and is not repeated until the room
  changes again: the board follows the worker, and both lag behind the Replica.
* Three more disagreements end with the next edit only, and are no part of
  `Follows`.  An intent whose edit a concurrent repair undoes before it is
  published gets neither its level nor a rejection, and fences the board until it
  does; the same for settings leaves them on the board.  A peer's round-table
  frame that arrives after a newer record of the settings leaves the worker, and
  the board, with the frame's (`native_room.rs:904`, `mod.rs:1503-1514`).
* `AudioBridgePort::try_recv` pops releases first (`mod.rs:1018-1020`).  A note that
  is added and removed between two callbacks is released first and then sounds
  until it is added and removed again, although the endpoint is said to be "a
  level-triggered projection" (`mod.rs:1515-1516`).
* When the room's full command queue refuses the abort of a lost session, the
  composite still forgets the session (`src/bridge/composite.rs:316-324`), the room
  keeps its attempt and refuses the start of every later session
  (`src/bridge/native_room.rs:511`) until the room changes; a refused
  `PrepareBoardProvisioning` is asked again only when the room or the session
  changes.  `NoAttemptInTheWay` and `BoardSettles` say that nothing else has this
  effect (`unended`, `unasked`).
* `install_connection` says "The transport must learn the negotiated ATT value size
  before INFO" (`src/bridge/ble_btleplug.rs:830-831`), but the notification task is
  spawned before it runs and may report INFO first.  The transport keeps such an
  INFO until Connected (`HearConnected`), which run `native` covers.
* Two placements of which the lower is a browser and the higher a desktop have
  no timer that brings a lost hint back to the initiator: the desktop sends no
  probe.  The next record, a lagging receiver or a lost neighbour repairs them;
  `repair` has no faults for that pair.
* A voice's `expires_at_ms` is never enforced and `VoiceExpired` never emitted,
  although `openspec/changes/pivot-to-tauri-iroh/specs/music-model/spec.md:97-99`
  asks for it.  The browser's own voice gets a new session per gesture
  (`src/web/app.rs:970`), and the host keeps a row per session
  (`src/web/replica_host.rs:1614`) until the room changes; after the desktop's
  window is reloaded its rows differ from the host's, because an update
  overwrites the first row of its author (`src/web/app.rs:1440-1446`).
* Hosts drop peers, the lock or voices on a room change without an event
  (`forgotten` in `RoomWindow`); the window keeps showing them.

## 5. Proofs

Every theorem holds for all values of the constants that satisfy the named
assumption of the module: sets and bounds of any size, where the runs of
section 3 take one small instance.  The theorems are about the component's own
specification (`Spec`, `GateSpec`, `WindowSpec`, ...).  That they hold of the
instances the runs check is proved too: `RoomIsItsParts`, `HostIsItsParts` and
`NativeIsItsParts` say that a behaviour of `MCRoom`, `MCHost` or `MCNative` is one of
each of its parts.

The assumptions are those the components declare and TLC evaluates: bounds are
natural numbers, an epoch has at least one Event, capacities are positive,
`PerformanceFeedback` has finitely many controls, `RoomReplica` finitely many
members and room for their grants, `RoomWindow` finitely many pieces and peers.
`Timely` may be true or false.  Nothing is assumed about the schedule: the proofs
use only `Init` and `[][Next]_vars`.

Each proof has the same shape: an inductive invariant, the lemmas about the
operators of the model, one lemma for each action that disturbs the invariant,
and the temporal step.  What follows says why each strengthening is needed.

### RoomSessionProofs

* `TypeCorrect`: `Spec => []TypeOK`;
* `FloorIsCoherent`: `Spec => []FloorCoherent`;
* `NoEpochReopened`: `Spec => []EpochOpensOnce`;
* `AnswerIsDurable`: `Spec => []AnswerFollowsFloor`;
* `FloorNeverFalls`: `Spec => FloorOnlyRises`.

No run lists `EpochOpensOnce` and `FloorOnlyRises`, since `ImplementsEpochRegister`
implies them.  `EpochOpensOnce` is not inductive: nothing in it ties what was opened to what
may be opened next.  The inductive invariant `IInv` adds

* `Ledger`, for each placement: a loaded cache equals the durable floor, or lies
  below it exactly while an install is durable and not yet active; the active
  epoch is the cached floor; the epoch being installed lies above the floor
  before the write and equals it after; a pending offer was made from the
  current cache and proposes its successor;
* `OpenedBelowFloor`: everything opened lies at or below the floor, and strictly
  below between the write of the floor and the activation.

Then a new epoch equals the floor, everything opened before is strictly below
it, and no epoch opens twice.  The proof has one lemma per operator of the
negotiation (`BeginSessionGood`, `AcceptOfferGood`, ...: they keep a task in
step with its floor), one per way a step changes the state (`BecomeStep`,
`ReopenStep`, `SessionStep`, `AppendStep`), and one case per action.
`AnswerIsDurable` and `FloorNeverFalls` follow because every action but the two
halves of `install_session` is quiet: it changes no floor, opens nothing and
sends no Answer.

### RoomSessionHistoryProofs

* `SessionsAgree`: `Spec => []SessionNamesOneEpoch`;
* `ObligationsAreKept`: `Spec => []NoAbandonedObligation`;
* `HistoriesAreClosed`: `Spec => []CausalHistory`;
* `EpochRegisterImplemented`: `Spec => ImplementsEpochRegister`, the refinement;
* `SessionsAreLeftForGood`: `Spec => LeftForGood`;
* `StuckStaysStuck`: `Spec => StuckIsForGood`.

`HistoryInv` is inductive beside `IInv`.  `IdsNameEpochs` extends the agreement
from active sessions to every place that mentions an id: Offers on the wire,
pending offers, installs and what was ever opened; a late Offer could otherwise
bring in a second meaning of an id.  `Account` follows each of a placement's own
Events through the wait map, the queue and the history (`Placed`: it is at one
of them, once) and says that the in-flight set is exactly what is queued or
committed and not yet confirmed (`Balanced`), and that what the planner counts as
admitted is in the history (`Grounded`), which is what makes a queued Event's
dependencies hold when it is committed.  `OwnHeldFirst`, that a peer holds
nothing of a placement's making that the placement itself lacks, is needed
because durable entries travel both ways.

The refinement is proved beside these invariants: the write of a floor raises
the register (`PersistIsRaise`), the end of an install opens its epoch
(`InstallIsOpen`: `Ledger` gives the floor, `OpenedBelowFloor` that it is above
all opened before, `SessionNamesOneEpoch` that the peer means the same epoch),
and every other action leaves floors and openings alone.

`LeftForGood`: an install is of an id that the placement was never in
(`InstallIsFresh`), because all it opened lies below the floor that the install
has just raised and an id names one epoch.  `StuckIsForGood` explains finding
`session_stuck` and shows that neither its bounds nor its fairness matter.  Between its
opening and the end of the generation a session only loses those waiting Events
whose dependencies are all in the history (`TaskGoesOn`, by `Grounded`); an Event of
a session enters a history only from another history or from the queue of an
author who is in that session (`HistoryOfEvents`); the author has left it for good;
and no epoch is installed while an Event waits, which is part of `Balanced`.  So
the missing Event never comes and the placement never leaves.  That such a state
is reached is what the run shows.

### HostProofs: the projection gate

* `GateTypeCorrect`: `GateSpec => []GateTypeOK`;
* `QuietWindowIsCurrent`: `GateSpec => []ShowsTheLatest`;
* `MusicNeverGoesBack`: `GateSpec => NeverGoesBack`.

`ShowsTheLatest` speaks of quiet states only.  `GateInv` says what holds on the
way: the worker emits session projections each `Earlier` than the next, the wire
keeps that order, and the gate's cursor precedes all that are still on the wire
(`WireOK`, `WindowOK`); the latest projection is on the wire, shown, or was
dropped with a reason (`PresentedOK`: the gate waits for a reset, or newer
canonical music came).  The delicate part is `AwaitingOK`: a reset the gate waits
for is a request, an outstanding reply of the service, or a Reset on the wire
that is still *fresh*, because no canonical projection ahead of it is newer.
`ResettingOK` supplies that: while the service waits for the session task it
commits nothing.

### HostProofs: the pressed controls

* `FeedbackTypeCorrect`: `FeedbackSpec => []FeedbackTypeOK` (the capacity of the
  table and of the queue among it);
* `RefusalMeansFull`: `FeedbackSpec => []OnlyCapacityRefuses`;
* `OutcomesReleaseTheirOwn`: `FeedbackSpec => OutcomeIsExact`.

`FeedbackInv` follows a token: it is issued once (`TokensOK`), its press is in
one of four places at a time (`PlacesOK`), and a slot of the table holds that same
press of the current generation (`SlotsOK`).  An outcome whose token matches a
slot then is the outcome of that slot's press.

### HostProofs: the generations of a room

* `HostIsInTheWishedRoom`: `GenerationsSpec => []RoomIsTheWish`;
* `ControlsFollowTheRoom`: `GenerationsSpec => []FeedbackFollowsRoom`;
* `GenerationsTypeCorrect`: `GenerationsSpec => []GenerationsTypeOK`.

`GenInv` says that at most one task may still launch for the last command, only
for the room asked for and only while no room is active (`CurrentOK`); that
launches of older operations have smaller generations (`GensOK`), which is why
their installation is refused; and that a current launch whose worker is open
has the controls (`BindOK`).

`GenerationsTypeOK` contains the bound on generations: a command launches at most
once, a recovery at most once for each entry of `REOPEN_BACKOFF_MS`.  `CountInv`
proves it by a count.  `Spent` is the set of the launches made so far, each named by
its task and its number there; a step that issues a generation adds a name that was
not in it (`LaunchCounts`), no other step removes one (`MoveCounts`), and there are
`MaxCommands + MaxFailures * Attempts` names in all (`LabelCount`).

### HostProofs: the circle of waits

* `ServiceTypeCorrect`: `ServiceSpec => []ServiceTypeOK` (the capacity of the
  inbox among it);
* `EveryWaitHasItsRequest`: `ServiceSpec => []OneStoreRequest`;
* `ResetsAreAnsweredOnce`: `ServiceSpec => []OneResetReply`;
* `OnlyOneCircle`: `ServiceSpec => []OnlyTheCircleStops`;
* `CircleNeverEnds`: `ServiceSpec => CircleIsForGood`;
* `LightTrafficNeverStops`:
  `ServiceSpec => [](~Resets /\ LightTraffic => ~InCircle)`.

`OneStoreRequest` says that the session task waits for the store exactly while
one request or result of its own is at one of the four places, and
`OneResetReply` that a service which waits for the reply to a reset finds its
input in the inbox or its reply sent: nobody waits for what was lost or taken by
another.  `ServiceInv` adds that a request is posted once (`PostedOnce`) and that
the input of a reset is to be sent, in the inbox or handled (`ResetInputOK`).

The other three are about the circle of finding `service_reset`.  `OnlyOneCircle`
is an equivalence: window, service and session task stop with something in hand
exactly in `InCircle`, where the session task waits for a store request that stands
in the queue behind the request the service cannot finish: a reset that waits for
its reply, or inputs that wait for a place in a full inbox.  The circle
never ends, whatever is posted or arrives meanwhile.  And it is never entered
without resets under light traffic: the requests in the queue and the request being
served never need more places than the inbox has left (`Demand`), so the service
always gets through to the store request.  Run `host` checks the liveness that
this makes possible for an inbox of 5; the theorems hold for every capacity, the
code's 64 among them.  No run states these five as properties.

### HostProofs: the instance

* `HostIsItsParts`: a behaviour of `HostSpec` is one of `GateSpec`, `FeedbackSpec`,
  `GenerationsSpec` and `ServiceSpec` at once, for a step of one part leaves the
  variables of the others alone;
* `HostTypesCorrect`: `HostSpec => []HostTypeOK`.

### LaneRepairProofs

* `TypeCorrect`: `Spec => []TypeOK`;
* `CausalLogImplemented`: `Spec => ImplementsCausalLog`, the refinement;
* `SynchronizedPeersHoldTheLog`: `Spec => SynchronizedMeansHeld`;
* `SlotsHaveTasks`: `Spec => []SlotHasTask`.

The initial states of `LaneRepair` are initial states of `CausalLog`, and each
step makes a new entry, teaches one placement a closed set of entries, empties
the log of a plugin, or stutters.  For the second kind `CausalInv` is needed:
every log is causally closed, and so are the cuts an attempt has captured; each
cut is held by the side that captured it, and by the other once it was applied.
A reopened plugin takes this back, and only that: every such clause reads
`Keeps(a, p, cut)`, the side p is in `a.lost` or holds the cut.  An emptied log is
closed, which keeps the rest (`RestartKeepsCausal`).  `SynchronizedMeansHeld` needs
two clauses more, because confirmation and report are apart: what a side saw when
it confirmed a complete close (`iseen`, `rseen`) is held by the other, and stays so
over every step until the report.
`SlotHasTask` alone is not inductive either: the first frame of an attempt that
already had a responder would turn a serving task into a queued one.  `TaskInv`
says that a key is taken exactly while *one* task will release it, and that an
attempt that has not dialled has no responder.

### RoomProofs: the replicas

* `ReplicaTypeCorrect`: `ReplicaSpec => []ReplicaTypeOK`;
* `EveryoneAdmits`: `ReplicaSpec => []NothingIsRefused`;
* `OwnEditsShow`: `ReplicaSpec => OwnEditShows`;
* `LaneIsCausalLog`: `ReplicaSpec => ReplicatesCausalLog`, the refinement;
* `RepairGoesOn`: `ReplicaSpec => []RepairNeverStuck`.

`ReplicaInv`: an entry follows its past, a history holds the past of what it
holds, and every entry was valid where its author stood, also one that a
browser's worker has only prepared while others are admitted.  `Validate` depends
on the entry's past alone (`ValidKept`), so what one replica admits the others
do.  `OwnEditsShow` needs that a view has a winner among concurrent writes
(`WinnerExists`, a least element of a set of numbers, by the library's
well-foundedness of the naturals) and that an entry with the whole history in
its past wins over everything, whatever the ranks (`NewestWins`).

The refinement maps histories, pasts and authored entries to the log of `CausalLog`,
which `LaneRepair` implements as well.  An entry is made when it enters its author's
history, whether it was authored in the call or prepared and committed later with
others admitted in between; then its author holds its past, and it is admitted
elsewhere only on top of that past.
`RepairNeverStuck` is what this means for repair: as long as a replica lacks an
entry, there is one whose past it holds (the oldest it lacks), and `Validate`
accepts it there; a repair is never left with
entries that are all deferred or refused.

### RoomProofs: the window

* `WindowTypeCorrect`: `WindowSpec => []WindowTypeOK`;
* `WindowFollowsHost`: `WindowSpec => []WindowShowsRoom`.

`WindowShowsRoom` speaks of an empty channel.  `WindowInv` says: the snapshot the
window reaches once it has applied the events on their way agrees with the
host's.  "Reaches" is stated by a *trail*, the function of the snapshots the
window goes through, so that no induction over the channel is needed: a step of
the host extends the trail at its end, a step of the window drops its first
element.  A step of the host that sends one event for each changed piece or peer
extends it by a trail that is given explicitly (`after k events the pieces of
the first k elements are the new ones`).  Voices agree up to the order and the
number of a singer's rows, which is what the display shows.

### RoomProofs: the instance

* `RoomIsItsParts`: a behaviour of `RoomSpec` is one of `Spec` (of `RoomSession`),
  `ReplicaSpec` and `WindowSpec` at once;
* `RoomTypesCorrect`: `RoomSpec => []RoomTypeOK`.

### RendezvousProofs

* `RendezvousTypeCorrect`: `Spec => []TypeOK`;
* `TrackerFollowsJoined`: `Spec => []TrackerFollows`;
* `OpenEndsAreOneLink`: `Spec => []OpenLinksMatch`.

`TrackerFollows` ties `joined` to `RtcIncarnationTracker`, two values that
`rendezvous_main` keeps across sockets and nothing in the code ties together: a
peer is joined exactly when one of its incarnations is remembered, no
incarnation is remembered twice or was never the peer's, and only a joined peer
has tasks.  Were the tracker lost with a socket, the next Hello of a reopened
peer would not count as a reincarnation (the mutant of run `direct`).  It is not inductive alone: that an observed incarnation was the
peer's needs `IncarnationsOK`, that only incarnations up to the current one have
sent anything, whatever arrives late.  The types are stated relative to a number
n that bounds attempts and connections (`TransportType(n)`), because the driver
makes the next connection in the middle of a step: each handler returns a
transport of the numbers in use, or one of the next number whose link bears it
(`Made`), and only then is the number taken.

`OpenLinksMatch`: two placements whose links are both open are on one connection, each
with the other's description.  Besides types and incarnations its proof needs that an
end that answers keeps its own answer for the attempt as long as it has the
peer's offer (`Answered`), and an account of what each handler may do to a link
(`LinkMoves`).  No run lists it; `LinkSettles`, which `direct` checks, says that two
browsers that stay get there.

### NativeProofs: the pitch bridge

* `BridgeTypeCorrect`: `BridgeSpec => []BridgeTypeOK`;
* `BoardEditsAreFenced`: `BridgeSpec => []NoRepaintOverEdit`;
* `IntentsEndForCause`: `BridgeSpec => IntentEndsForCause`.

`BridgeInv` says what every queue carries and that it is within its capacity, that
tokens are older than the next one, and `Fenced`: an intent of the board leaves
the worker without a target.  The functions of `BridgePitchState` and every action
are shown to keep it; the same lemmas say which intents a function may end, and from them follows
the action property: a projection that shows the intent's level, the token of the
outcome that is heard, a token the abandonment covers, the end of the room or of
the board's link.

### NativeProofs: the link and the scheduler

* `LinkTypeCorrect`: `LinkSpec => []LinkTypeOK`;
* `OffersNeedTrust`: `LinkSpec => OnlyTrustedAreOffered`;
* `TxTypeCorrect`: `TxSpec => []TxTypeOK`.

A round of authentication changes in `Authenticate` only, which the handlers of
hello, answer and connection reach through `Continue`, and `Continue` asks first.
`TxTypeOK` holds the account of the reservations; it needs `FragmentOK`, that a
message with no fragment left is the front of the lane under way, or a lane could
lose a message that still held a reservation.

### BoardRepairProofs

* `RepairTypeCorrect`: `RepairSpec => []RepairTypeOK`;
* `NoSessionIsKeptOut`: `RepairSpec => []NoAttemptInTheWay`.

`NoAttemptInTheWay` speaks of the head of the room's queue.  The attempt there
could be another session's only if the start of the new session had overtaken
the abort of the old one, and two orders exclude it.  `InOrder`: between the starts
of two sessions in the queue stands the abort of the first; behind an attempt and
in front of another session's start stands that attempt's abort; and once the
composite has let go of a session, the abort of it is behind its start.  `Parted`:
in the events of the leg a link that went down stands between two sessions that
ask to be provisioned, and in front of the first one while the composite is still
bound; when no session is open, it stands behind the last.  So the composite is
bound to nothing when it hears of a new session (`NoneBound`), and it became so
by queueing an abort, or the abort was refused.  The sessions of the second kind
are `spent.unended`; `InOrder` and the theorem make an exception for them, and
`ForgottenRoom` shows that no other session joins them.

### BoardRepairProofs: the instance

* `NativeIsItsParts`: a behaviour of `NativeSpec` starts and moves as `BridgeSpec`,
  `RepairSpec`, `LinkSpec` and `TxSpec` do.  Fairness is not part of this statement,
  because it rests on `ENABLED`;
* `NativeTypesCorrect`: `NativeSpec => []NativeTypeOK`;
* `NativeIsSafe`: the safety properties of the parts, of the instance.

### What stays with TLC

* Everything under fairness: `SessionEstablished`, `ResetArrives`, `PressSettles`,
  `Recovers`, `RequestsAnswered`, `StoreAnswered`, `LinkSettles`, `Converges`,
  `BoardFollows`, `BoardSettles`, `BoardReconnects`, `RepairFlows`.  Liveness is
  out of the prover's reach.
* The fairness of an instance's parts, which `HostIsItsParts` and its like leave out.

Every invariant and every action property that a run checks has a theorem.

## 6. Plan

What is worth proving next: what the queues between native parts promise each
other, as an abstract channel with drops that `PluginBridge` and `BoardRepair`
implement.

What is worth modelling next: the worker service's handlers with a failure
between commit and announcement; three placements in `LaneRepair` once the state
space allows it.

## 7. Not modelled

* Cryptography and encodings of carriers; more than two placements in one
  session (the code's session is a pair).
* The music lane's policy and view (`tutti_music_hhhs`), the checkpoints of the
  views in `src/room/v5.rs`, which only cache what `MaterializeExtension`
  computes, and the legacy formats (`legacy_log.rs`, `streams.rs`), which are
  sequential conversions.
* The plugin's voice gate for realtime MIDI that is only passed on; a note-off
  that overtakes its note-on between `release_in` and `realtime_in` (drained in
  that order by `run_bridge`) is left to the host's next event.
* Address lookup, the relay and datagram framing under the transports; the set-up
  of endpoints, which is iroh's; the capacity of 64 peers.
* Wire framing of the Bluetooth session, permissions, missing adapters.
* Rendering, audio and signal processing; MIDI devices; IndexedDB itself; word
  lists and tuning arithmetic; the plugin shell; the relay, a stateless origin
  check around iroh-relay.
