----------------------------- MODULE LaneRepair -----------------------------
(***************************************************************************)
(* How the placements of a room keep one lane's log the same.  A durable   *)
(* record is gossiped once (ReplicaLiveRecord, src/net/replica.rs); what   *)
(* gossip loses, or delivers before its causes, is fetched by a            *)
(* bidirectional HHHS repair over a QUIC stream, which only the lower      *)
(* endpoint of a pair opens.  Three hosts run the protocol, each with its  *)
(* own triggers:                                                           *)
(*   browser  src/web/replica_host.rs: one initiator per peer, triggers    *)
(*            meanwhile coalesce into one follow-up; a probe every 27 s;   *)
(*            the repairs of a worker take turns (repair_permit);          *)
(*   desktop  src-tauri/src/lib.rs: no coalescing and no permit; a sweep   *)
(*            opens repairs every 25-35 s; probes are not understood;      *)
(*   plugin   src/bridge/native_room.rs: one repair per peer, triggers     *)
(*            meanwhile are dropped; the lane's host is locked meanwhile.  *)
(* A browser and a desktop keep the log in storage, the plugin in memory   *)
(* (RoomReplicas::memory).  An entry's causes are its author's log when it *)
(* was made.  The HHHS session (hhhs_sync) is external: each side captures *)
(* a cut of its log and applies the other's; closing confirms the repair   *)
(* when the log did not advance past what the session saw.  What was       *)
(* confirmed is reported later, after further awaits.                      *)
(***************************************************************************)
EXTENDS Naturals, FiniteSets

CONSTANTS
    N,           \* placements
    MaxTasks,    \* bound: repairs a desktop has running with one peer
    MaxRetries,  \* DIVERGENT_BACKOFF_MS.len(), 3 in the code
    Rooms        \* the rooms considered: kind[p] is the host of placement p, in
                 \* endpoint order; entries and faults bound what is authored
                 \* and how often a message is lost, a dial fails, a stream
                 \* breaks, a placement restarts...

Placement == 1 .. N

ASSUME RepairAssumption ==
    /\ N \in Nat
    /\ MaxTasks \in Nat \ {0}
    /\ MaxRetries \in Nat
    /\ \A r \in Rooms :
          /\ r.kind \in [Placement -> {"browser", "desktop", "plugin"}]
          /\ r.entries \in Nat /\ r.faults \in Nat

VARIABLES
    room,      \* the room, which does not change
    log,       \* log[p]: the entries of p's replica
    causes,    \* causes[e]: what e's author held when it made e
    made,      \* entries authored so far
    near,      \* near[p]: the peers whose path is not Disconnected
    wire,      \* gossip on its way
    slot,      \* slot[p][q]: p's RepairCoordinator or in_flight key for q
    attempts,  \* the repairs some side still works on
    permit,    \* permit[p]: p's repair_permit, or its lane host, is taken
    synced,    \* synced[p]: the peers p presents as synchronized
    used       \* faults so far

vars == <<room, log, causes, made, near, wire, slot, attempts, permit, synced, used>>

Kind == room.kind

\* ActiveRoom::open: the plugin's replica is RoomReplicas::memory.
Volatile == {p \in Placement : Kind[p] = "plugin"}

Entry == 1 .. room.entries

\* net/replica.rs: is_routine_repair_initiator.
Initiates(p, q) == p < q

Higher(p) == {q \in near[p] : Initiates(p, q)}

Fault == used < room.faults /\ used' = used + 1

\* A broadcast reaches the neighbours Q, in any order.
Copies(p, Q, m) == {[from |-> p, to |-> q, body |-> m] : q \in Q}

\* Hints and probes do nothing at a peer that would not initiate: those copies
\* are left out.
Calls(p, Q, m) == Copies(p, {q \in Q : Initiates(q, p)}, m)

Live(e) == [type |-> "live", entry |-> e]

\* The entry a hint names is not looked at.
Hint == [type |-> "hint"]

Probe(cut) == [type |-> "probe", frontier |-> cut]

\* iseen and rseen are what a side's log held when it confirmed its close, lost
\* the sides that lost their log since: a history no step reads.
Attempt(p, q, i, n) ==
    [from |-> p, to |-> q, id |-> i, retry |-> n, ini |-> "dial", res |-> "none",
     icut |-> {}, rcut |-> {}, iseen |-> {}, rseen |-> {}, broken |-> FALSE, lost |-> {}]

Running(p, q) ==
    {a \in attempts : a.from = p /\ a.to = q /\ a.ini \notin {"done", "failed"}}

\* The i-th task of p for q, and the responders of its attempts.
Task(p, q, i) == {a \in attempts : a.from = p /\ a.to = q /\ a.id = i}

Init ==
    /\ room \in Rooms
    /\ log = [p \in Placement |-> {}]
    /\ causes = [e \in Entry |-> {}]
    /\ made = 0
    /\ near = [p \in Placement |-> Placement \ {p}]
    /\ wire = {}
    /\ slot = [p \in Placement |-> [q \in Placement |-> "free"]]
    /\ attempts = {}
    /\ permit = [p \in Placement |-> FALSE]
    /\ synced = [p \in Placement |-> {}]
    /\ used = 0

-----------------------------------------------------------------------------
(* Triggers.                                                               *)

FreeId(p, q) == (1 .. MaxTasks) \ {a.id : a \in Running(p, q)}

Vacant(p, Q) == {q \in Q : slot[p][q] = "free"}

\* RepairCoordinator::schedule: a free slot is taken, a held one notes that one
\* more repair is wanted.
Coalesced(s) == CASE s = "free" -> "held" [] s = "held" -> "again" [] OTHER -> s

BrowserSchedule(p, Q) ==
    /\ attempts' = attempts \cup {Attempt(p, q, 1, 0) : q \in Vacant(p, Q)}
    /\ slot' = [slot EXCEPT ![p] = [q \in Placement |-> IF q \in Q THEN Coalesced(@[q]) ELSE @[q]]]

\* The desktop spawns one more task each time.
DesktopSchedule(p, Q) ==
    /\ attempts' = attempts \cup {Attempt(p, q, CHOOSE i \in FreeId(p, q) : TRUE, 0) :
                                      q \in {r \in Q : FreeId(p, r) # {}}}
    /\ UNCHANGED slot

\* The plugin's task ends at once when in_flight.insert finds the key taken.
PluginSchedule(p, Q) ==
    /\ attempts' = attempts \cup {Attempt(p, q, 1, 0) : q \in Vacant(p, Q)}
    /\ slot' = [slot EXCEPT ![p] = [q \in Placement |-> IF q \in Vacant(p, Q) THEN "held" ELSE @[q]]]

\* The host of p opens a repair with every peer of Q that it may initiate with.
Schedule(p, Q) ==
    LET peers == {q \in Q : Initiates(p, q)}
    IN  CASE Kind[p] = "browser" -> BrowserSchedule(p, peers)
          [] Kind[p] = "desktop" -> DesktopSchedule(p, peers)
          [] Kind[p] = "plugin"  -> PluginSchedule(p, peers)

\* An entry is made durable on top of everything p holds.
Commit(p) ==
    /\ made < room.entries
    /\ made' = made + 1
    /\ causes' = [causes EXCEPT ![made + 1] = log[p]]
    /\ log' = [log EXCEPT ![p] = @ \cup {made + 1}]

\* The committed record is broadcast.  When that fails the browser and the
\* desktop broadcast a hint, which may fail too; the plugin gives up.
Broadcast(p) == wire' = wire \cup Copies(p, near[p], Live(made + 1)) /\ UNCHANGED used

HintInstead(p) == Fault /\ (UNCHANGED wire \/ wire' = wire \cup Calls(p, near[p], Hint))

BrowserAuthor(p) ==
    /\ Kind[p] = "browser"
    /\ Commit(p)
    /\ Broadcast(p) \/ HintInstead(p)
    /\ UNCHANGED <<room, near, slot, attempts, permit, synced>>

DesktopAuthor(p) ==
    /\ Kind[p] = "desktop"
    /\ Commit(p)
    /\ Broadcast(p) \/ HintInstead(p)
    /\ UNCHANGED <<room, near, slot, attempts, permit, synced>>

PluginAuthor(p) ==
    /\ Kind[p] = "plugin"
    /\ Commit(p)
    /\ Broadcast(p) \/ (Fault /\ UNCHANGED wire)
    /\ UNCHANGED <<room, near, slot, attempts, permit, synced>>

Author(p) == BrowserAuthor(p) \/ DesktopAuthor(p) \/ PluginAuthor(p)

\* A neighbour is granted its capabilities: the browser's worker sends the
\* grant as a live record, the desktop (when it owns the room) and the plugin
\* hint at it.
BrowserGrant(p, Q) == Copies(p, Q, Live(made + 1))

DesktopGrant(p, Q) == Calls(p, Q, Hint)

PluginGrant(p, Q) == Calls(p, Q, Hint)

\* NeighborUp: the grant, unless the peer has it, and a repair if p initiates.
MeetNeighbor(p, q, grant) ==
    /\ q \notin near[p] \cup {p}
    /\ near' = [near EXCEPT ![p] = @ \cup {q}]
    /\ \/ UNCHANGED <<made, causes, log, wire>>
       \/ Commit(p) /\ wire' = wire \cup grant
    /\ Schedule(p, {q})
    /\ UNCHANGED <<room, permit, synced, used>>

BrowserNeighborUp(p, q) ==
    Kind[p] = "browser" /\ MeetNeighbor(p, q, BrowserGrant(p, near[p] \cup {q}))

DesktopNeighborUp(p, q) ==
    Kind[p] = "desktop" /\ MeetNeighbor(p, q, DesktopGrant(p, near[p] \cup {q}))

PluginNeighborUp(p, q) ==
    Kind[p] = "plugin" /\ MeetNeighbor(p, q, PluginGrant(p, near[p] \cup {q}))

NeighborUp(p, q) == BrowserNeighborUp(p, q) \/ DesktopNeighborUp(p, q) \/ PluginNeighborUp(p, q)

NeighborDown(p, q) ==
    /\ q \in near[p]
    /\ Fault
    /\ near' = [near EXCEPT ![p] = @ \ {q}]
    /\ synced' = [synced EXCEPT ![p] = @ \ {q}]
    /\ UNCHANGED <<room, log, causes, made, wire, slot, attempts, permit>>

\* A browser learns that a WebRTC link is up.
DirectReady(p, q) ==
    /\ Kind[p] = "browser"
    /\ p # q
    /\ Fault
    /\ near' = [near EXCEPT ![p] = @ \cup {q}]
    /\ Schedule(p, {q})
    /\ UNCHANGED <<room, log, causes, made, wire, permit, synced>>

\* The gossip receiver fell behind: what it missed is gone.
Lagged(p) ==
    /\ Fault
    /\ wire' = {m \in wire : m.to # p}
    /\ Schedule(p, near[p])
    /\ UNCHANGED <<room, log, causes, made, near, permit, synced>>

\* Mutant: a record is applied without its causes.
MutReceiveLive(m) ==
    /\ m.body.type = "live"
    /\ log' = [log EXCEPT ![m.to] = @ \cup {m.body.entry}]
    /\ wire' = wire \ {m}
    /\ UNCHANGED <<room, causes, made, near, slot, attempts, permit, synced, used>>

\* An entry is admitted when its causes are held.
Applies(p, e) == causes[e] \subseteq log[p]

Applied(m) == log' = [log EXCEPT ![m.to] = IF Applies(m.to, m.body.entry) THEN @ \cup {m.body.entry} ELSE @]

\* What a host does about a record that is refused, or that it already holds
\* (which need not count as admitted): the initiator of the pair repairs, the
\* other side broadcasts a hint so that the source does.
RequestRepair(m) ==
    \/ /\ Initiates(m.to, m.from)
       /\ wire' = wire \ {m}
       /\ Schedule(m.to, {m.from})
    \/ /\ ~Initiates(m.to, m.from)
       /\ wire' = (wire \ {m}) \cup Calls(m.to, near[m.to], Hint)
       /\ UNCHANGED <<slot, attempts>>

\* worker.inbound_record.
BrowserLive(m) ==
    /\ Kind[m.to] = "browser"
    /\ Applied(m)
    /\ \/ Applies(m.to, m.body.entry) /\ wire' = wire \ {m} /\ UNCHANGED <<slot, attempts>>
       \/ ~Applies(m.to, m.body.entry) /\ RequestRepair(m)
       \/ m.body.entry \in log[m.to] /\ RequestRepair(m)

\* apply_native_live_record.
DesktopLive(m) ==
    /\ Kind[m.to] = "desktop"
    /\ Applied(m)
    /\ \/ Applies(m.to, m.body.entry) /\ wire' = wire \ {m} /\ UNCHANGED <<slot, attempts>>
       \/ ~Applies(m.to, m.body.entry) /\ RequestRepair(m)
       \/ m.body.entry \in log[m.to] /\ RequestRepair(m)

\* apply_live waits for the lane's host; a refusal is only logged.
PluginLive(m) ==
    /\ Kind[m.to] = "plugin"
    /\ ~permit[m.to]
    /\ Applied(m)
    /\ wire' = wire \ {m}
    /\ UNCHANGED <<slot, attempts>>

ReceiveLive(m) ==
    /\ m.body.type = "live"
    /\ BrowserLive(m) \/ DesktopLive(m) \/ PluginLive(m)
    /\ UNCHANGED <<room, causes, made, near, permit, synced, used>>

\* repair_from_peer: the plugin repairs only with a peer that is connected.
Reachable(p, q) == Kind[p] = "plugin" => q \in near[p]

\* A repair hint: only the initiator of the pair acts on it.
ReceiveHint(m) ==
    /\ m.body.type = "hint"
    /\ wire' = wire \ {m}
    /\ Schedule(m.to, {q \in {m.from} : Reachable(m.to, q)})
    /\ UNCHANGED <<room, log, causes, made, near, permit, synced, used>>

\* Mutant: only a placement that misses something repairs.
MutReceiveProbe(m) ==
    /\ m.body.type = "probe"
    /\ wire' = wire \ {m}
    /\ Schedule(m.to, {q \in {m.from} : /\ Kind[m.to] # "desktop"
                                        /\ ~(m.body.frontier \subseteq log[m.to])
                                        /\ Reachable(m.to, q)})
    /\ UNCHANGED <<room, log, causes, made, near, permit, synced, used>>

\* A repair probe: the initiator of the pair repairs when the frontiers differ.
ReceiveProbe(m) ==
    /\ m.body.type = "probe"
    /\ wire' = wire \ {m}
    /\ Schedule(m.to, {q \in {m.from} : /\ Kind[m.to] # "desktop"
                                        /\ m.body.frontier # log[m.to]
                                        /\ Reachable(m.to, q)})
    /\ UNCHANGED <<room, log, causes, made, near, permit, synced, used>>

Receive(m) == ReceiveLive(m) \/ ReceiveHint(m) \/ ReceiveProbe(m)

\* spawn_periodic_repair: a browser's probe; the previous one has been delivered.
SendProbe(p) ==
    /\ Kind[p] = "browser"
    /\ Calls(p, near[p], Probe(log[p])) # {}
    /\ ~\E m \in wire : m.body.type = "probe" /\ m.from = p
    /\ wire' = wire \cup Calls(p, near[p], Probe(log[p]))
    /\ UNCHANGED <<room, log, causes, made, near, slot, attempts, permit, synced, used>>

\* repair_refresh.tick(): the desktop's sweep.
Sweep(p) ==
    /\ Kind[p] = "desktop"
    /\ \E q \in Higher(p) : FreeId(p, q) # {}
    /\ Schedule(p, near[p])
    /\ UNCHANGED <<room, log, causes, made, near, wire, permit, synced, used>>

-----------------------------------------------------------------------------
(* One attempt, from both ends.                                            *)

Serial(p) == Kind[p] # "desktop"

\* The permit, or the lane's host, is given back.
Release(p, held) == permit' = IF held /\ Serial(p) THEN [permit EXCEPT ![p] = FALSE] ELSE permit

\* A browser shows a completed repair; the desktop takes it back after any other;
\* the plugin shows nothing.
BrowserPresents(p, q, result) == IF result = "complete" THEN synced[p] \cup {q} ELSE synced[p]

DesktopPresents(p, q, result) == IF result = "complete" THEN synced[p] \cup {q} ELSE synced[p] \ {q}

Present(p, q, result) ==
    synced' = [synced EXCEPT ![p] = CASE Kind[p] = "browser" -> BrowserPresents(p, q, result)
                                      [] Kind[p] = "desktop" -> DesktopPresents(p, q, result)
                                      [] Kind[p] = "plugin"  -> @]

Leftover(a) == IF a.ini \in {"done", "failed"} /\ a.res \in {"none", "done", "failed"}
               THEN {} ELSE {a}

\* Mutant: every attempt is counted, and a follow-up goes on counting past the
\* backoff table.
MutNextAttempt(a, result) ==
    {Attempt(a.from, a.to, 1, n) : n \in {k \in 0 .. MaxRetries + 1 :
        /\ Kind[a.from] = "browser"
        /\ \/ result = "complete" /\ slot[a.from][a.to] = "again" /\ k = a.retry + 1
           \/ result = "stale" /\ k = a.retry + 1 /\ k <= MaxRetries}}

\* A browser goes on with the follow-up that was asked for meanwhile, or with a
\* fresh cut while the backoff table lasts.
NextAttempt(a, result) ==
    {Attempt(a.from, a.to, 1, n) : n \in {k \in 0 .. MaxRetries :
        /\ Kind[a.from] = "browser"
        /\ \/ result = "complete" /\ slot[a.from][a.to] = "again" /\ k = 0
           \/ result = "stale" /\ k = a.retry + 1}}

\* Mutant: a failed attempt keeps its slot.
MutInitiatorEnds(a, result) ==
    LET next == NextAttempt(a, result)
        ended == [a EXCEPT !.ini = IF result = "failed" THEN "failed" ELSE "done"]
    IN  /\ Release(a.from, a.ini \in {"sent", "applied"})
        /\ attempts' = (attempts \ {a}) \cup Leftover(ended) \cup next
        /\ slot' = [slot EXCEPT ![a.from][a.to] =
                      IF ~Serial(a.from) \/ result = "failed" THEN @
                      ELSE IF next = {} THEN "free"
                      ELSE IF result = "complete" THEN "held" ELSE @]
        /\ Present(a.from, a.to, result)

\* The initiator's task reports the result; the slot is released, or the browser
\* goes on.
InitiatorEnds(a, result) ==
    LET next == NextAttempt(a, result)
        ended == [a EXCEPT !.ini = IF result = "failed" THEN "failed" ELSE "done"]
    IN  /\ Release(a.from, a.ini \in {"sent", "applied"})
        /\ attempts' = (attempts \ {a}) \cup Leftover(ended) \cup next
        /\ slot' = [slot EXCEPT ![a.from][a.to] =
                      IF ~Serial(a.from) THEN @
                      ELSE IF next = {} THEN "free"
                      ELSE IF result = "complete" THEN "held" ELSE @]
        /\ Present(a.from, a.to, result)

\* The plugin's responder has the lane's host until its task ends.
ResponderEnds(a, result) ==
    LET ended == [a EXCEPT !.res = IF result = "failed" THEN "failed" ELSE "done"]
    IN  /\ Release(a.to, a.res \in {"sent", "applied"} \/ Kind[a.to] = "plugin")
        /\ attempts' = (attempts \ {a}) \cup Leftover(ended)
        /\ slot' = [slot EXCEPT ![a.to][a.from] = IF Serial(a.to) THEN "free" ELSE @]
        /\ Present(a.to, a.from, result)

Replace(a, b) == attempts' = (attempts \ {a}) \cup {b}

\* The attempt dials, waits for its turn, captures its cut and writes the first
\* frame, which is what makes the stream appear at the responder; a backoff
\* before it only takes time.
StartInitiator(a) ==
    /\ a.ini = "dial"
    /\ \/ /\ Serial(a.from) => ~permit[a.from]
          /\ permit' = [permit EXCEPT ![a.from] = Serial(a.from)]
          /\ Replace(a, [a EXCEPT !.ini = "sent", !.res = "queued", !.icut = log[a.from]])
          /\ UNCHANGED <<slot, synced, used>>
       \/ Fault /\ InitiatorEnds(a, "failed")
    /\ UNCHANGED <<room, log, causes, made, near, wire>>

\* The slot is taken, or, while p works on that peer already, the stream closed.
TakeOrRefuse(a) ==
    \/ /\ slot[a.to][a.from] = "free"
       /\ slot' = [slot EXCEPT ![a.to][a.from] = "resp"]
       /\ Replace(a, [a EXCEPT !.res = "permit"])
    \/ /\ slot[a.to][a.from] # "free"
       /\ attempts' = (attempts \ {a}) \cup Leftover([a EXCEPT !.res = "failed"])
       /\ UNCHANGED slot

\* spawn_repair_responder: begin_responder.
BrowserAccept(a) == Kind[a.to] = "browser" /\ TakeOrRefuse(a)

\* spawn_replica_responder: every stream is served.
DesktopAccept(a) ==
    /\ Kind[a.to] = "desktop"
    /\ Replace(a, [a EXCEPT !.res = "permit"])
    /\ UNCHANGED slot

\* spawn_responder: in_flight.insert.
PluginAccept(a) == Kind[a.to] = "plugin" /\ TakeOrRefuse(a)

AcceptRepair(a) ==
    /\ a.res = "queued"
    /\ BrowserAccept(a) \/ DesktopAccept(a) \/ PluginAccept(a)
    /\ UNCHANGED <<room, log, causes, made, near, wire, permit, synced, used>>

\* The responder's turn: it has the hello and captures its cut.
StartResponder(a) ==
    /\ a.res = "permit"
    /\ a.ini = "sent" /\ ~a.broken
    /\ Serial(a.to) => ~permit[a.to]
    /\ permit' = [permit EXCEPT ![a.to] = Serial(a.to)]
    /\ Replace(a, [a EXCEPT !.res = "sent", !.rcut = log[a.to]])
    /\ UNCHANGED <<room, log, causes, made, near, wire, slot, synced, used>>

\* External: the session hands each side what the other's cut holds.
InitiatorApplies(a) ==
    /\ a.ini = "sent" /\ a.res \in {"sent", "applied"} /\ ~a.broken
    /\ log' = [log EXCEPT ![a.from] = @ \cup a.rcut]
    /\ Replace(a, [a EXCEPT !.ini = "applied"])
    /\ UNCHANGED <<room, causes, made, near, wire, slot, permit, synced, used>>

ResponderApplies(a) ==
    /\ a.res = "sent" /\ a.ini \in {"sent", "applied"} /\ ~a.broken
    /\ log' = [log EXCEPT ![a.to] = @ \cup a.icut]
    /\ Replace(a, [a EXCEPT !.res = "applied"])
    /\ UNCHANGED <<room, causes, made, near, wire, slot, permit, synced, used>>

\* Mutant: a terminal session is reported without looking at the log again.
MutConfirm(p, a) == "complete"

\* confirm_close_with_host: the attempt vouches for the log it saw.
Confirm(p, a) == IF log[p] = a.icut \cup a.rcut THEN "complete" ELSE "stale"

Result == {"complete", "stale"}

\* Both sides close, each needs the other's FIN, and look at the log once more;
\* what that found is reported later.
InitiatorConfirms(a) ==
    /\ a.ini = "applied" /\ a.res \in {"applied", "done"} \cup Result /\ ~a.broken
    /\ Release(a.from, TRUE)
    /\ Replace(a, [a EXCEPT !.ini = Confirm(a.from, a), !.iseen = log[a.from]])
    /\ UNCHANGED <<room, log, causes, made, near, wire, slot, synced, used>>

ResponderConfirms(a) ==
    /\ a.res = "applied" /\ a.ini \in {"applied", "done"} \cup Result /\ ~a.broken
    /\ Release(a.to, Kind[a.to] # "plugin")
    /\ Replace(a, [a EXCEPT !.res = Confirm(a.to, a), !.rseen = log[a.to]])
    /\ UNCHANGED <<room, log, causes, made, near, wire, slot, synced, used>>

\* Only then, after start_session_peer (the browser), the durable lock (the
\* desktop) or the lock of in_flight (the plugin), is it reported.
InitiatorReports(a) ==
    /\ a.ini \in Result
    /\ InitiatorEnds(a, a.ini)
    /\ UNCHANGED <<room, log, causes, made, near, wire, used>>

ResponderReports(a) ==
    /\ a.res \in Result
    /\ ResponderEnds(a, a.res)
    /\ UNCHANGED <<room, log, causes, made, near, wire, used>>

\* The other side is gone, the connection broke, or recv_timeout or FIN_ACK_TIMEOUT
\* passed (Break).
InitiatorFails(a) ==
    /\ a.ini \in {"sent", "applied"}
    /\ a.broken \/ a.res = "failed"
    /\ InitiatorEnds(a, "failed")
    /\ UNCHANGED <<room, log, causes, made, near, wire, used>>

ResponderFails(a) ==
    /\ a.res \in {"permit", "sent", "applied"}
    /\ a.broken \/ a.ini = "failed"
    /\ a.res = "permit" /\ Serial(a.to) => ~permit[a.to]
    /\ ResponderEnds(a, "failed")
    /\ UNCHANGED <<room, log, causes, made, near, wire, used>>

Break(a) ==
    /\ a.ini \in {"sent", "applied"} \/ a.res \in {"permit", "sent", "applied"}
    /\ ~a.broken
    /\ Fault
    /\ Replace(a, [a EXCEPT !.broken = TRUE])
    /\ UNCHANGED <<room, log, causes, made, near, wire, slot, permit, synced>>

-----------------------------------------------------------------------------
(* The environment.                                                        *)

Lose(m) ==
    /\ Fault
    /\ wire' = wire \ {m}
    /\ UNCHANGED <<room, log, causes, made, near, slot, attempts, permit, synced>>

\* What becomes of an attempt when the room of its side p ends: the side's task
\* ends too, and what was not closed never will be.
Stopped(s) == IF s \in {"done"} \cup Result THEN "done" ELSE "failed"

Ended(a, p) ==
    LET gone == a.lost \cup ({p} \cap Volatile)
    IN  CASE a.from = p                  -> [a EXCEPT !.ini = Stopped(@), !.lost = gone]
          [] a.to = p /\ a.res # "none"  -> [a EXCEPT !.res = Stopped(@), !.lost = gone]
          [] OTHER                       -> a

\* A desktop's tasks are detached: they find the connection closed, or report
\* what was confirmed after all.
Detached(a, p) ==
    CASE \/ a.from = p /\ a.ini \in {"sent", "applied"}
         \/ a.to = p /\ a.res \in {"permit", "sent", "applied"} -> [a EXCEPT !.broken = TRUE]
      [] \/ a.from = p /\ a.ini = "dial"
         \/ a.to = p /\ a.res = "queued"                        -> Ended(a, p)
      [] OTHER                                                  -> a

\* The room is closed and opened again: over the same stored log, or, in the
\* plugin, over an empty one.
Restart(p) ==
    /\ Fault
    /\ near' = [near EXCEPT ![p] = {}]
    /\ synced' = [synced EXCEPT ![p] = {}]
    /\ slot' = [slot EXCEPT ![p] = [q \in Placement |-> "free"]]
    /\ permit' = [permit EXCEPT ![p] = FALSE]
    /\ wire' = {m \in wire : m.to # p}
    /\ log' = [log EXCEPT ![p] = IF p \in Volatile THEN {} ELSE @]
    /\ \/ attempts' = UNION {Leftover(Ended(a, p)) : a \in attempts}
       \/ /\ Kind[p] = "desktop"
          /\ attempts' = UNION {Leftover(Detached(a, p)) : a \in attempts}
    /\ UNCHANGED <<room, causes, made>>

InitiatorWorks(a) ==
    \/ StartInitiator(a) \/ InitiatorApplies(a) \/ InitiatorConfirms(a) \/ InitiatorReports(a)
    \/ InitiatorFails(a)

ResponderWorks(a) ==
    \/ StartResponder(a) \/ ResponderApplies(a) \/ ResponderConfirms(a) \/ ResponderReports(a)
    \/ ResponderFails(a)

Next ==
    \/ \E p \in Placement : Author(p) \/ Lagged(p) \/ Restart(p) \/ SendProbe(p) \/ Sweep(p)
    \/ \E p, q \in Placement : NeighborUp(p, q) \/ NeighborDown(p, q) \/ DirectReady(p, q)
    \/ \E m \in wire : Receive(m) \/ Lose(m)
    \/ \E a \in attempts :
          InitiatorWorks(a) \/ AcceptRepair(a) \/ ResponderWorks(a) \/ Break(a)

Spec == Init /\ [][Next]_vars

\* Timers fire, the room loop and the repair tasks are scheduled, gossip that is
\* not lost arrives and a lost neighbour comes back; authoring and faults need
\* not happen.
Fairness ==
    /\ \A p \in Placement : WF_vars(SendProbe(p)) /\ WF_vars(Sweep(p))
    /\ \A p, q \in Placement :
          /\ WF_vars(NeighborUp(p, q))
          /\ WF_vars(\E m \in wire : m.from = p /\ m.to = q /\ ReceiveLive(m))
          /\ Initiates(p, q) =>
                /\ WF_vars(\E m \in wire : m.from = q /\ m.to = p /\ ReceiveHint(m))
                /\ WF_vars(\E m \in wire : m.from = q /\ m.to = p /\ ReceiveProbe(m))
                /\ \A i \in 1 .. MaxTasks :
                      /\ WF_vars(\E a \in Task(p, q, i) : InitiatorWorks(a))
                      /\ WF_vars(\E a \in Task(p, q, i) : AcceptRepair(a))
                      /\ WF_vars(\E a \in Task(p, q, i) : ResponderWorks(a))

FairSpec == Spec /\ Fairness

-----------------------------------------------------------------------------
(* Properties.                                                             *)

TypeOK ==
    /\ room \in Rooms
    /\ log \in [Placement -> SUBSET Entry]
    /\ causes \in [Entry -> SUBSET Entry]
    /\ made \in 0 .. room.entries
    /\ near \in [Placement -> SUBSET Placement]
    /\ slot \in [Placement -> [Placement -> {"free", "held", "again", "resp"}]]
    /\ permit \in [Placement -> BOOLEAN]
    /\ synced \in [Placement -> SUBSET Placement]
    /\ used \in 0 .. room.faults
    /\ \A a \in attempts :
          /\ a.from \in Placement /\ a.to \in Placement /\ a.retry \in 0 .. MaxRetries
          /\ a.ini \in {"dial", "sent", "applied", "done", "failed"} \cup Result
          /\ a.res \in {"none", "queued", "permit", "sent", "applied", "done", "failed"} \cup Result

\* A slot outlives its task by nothing: whoever holds a key of the coordinator
\* (or of in_flight) has exactly one task that will release it, so the next
\* trigger for the peer is never refused for good.
SlotHasTask ==
    \A p \in Placement : Serial(p) =>
        \A q \in Placement :
            /\ slot[p][q] \in {"held", "again"} <=> Running(p, q) # {}
            /\ Cardinality(Running(p, q)) <= 1
            /\ slot[p][q] = "resp" =>
                  \E a \in attempts : a.from = q /\ a.to = p
                                      /\ a.res \in {"permit", "sent", "applied"} \cup Result

\* When a peer starts to be shown as synchronized, it holds everything the local
\* log held when the session's close was confirmed: entries committed while the
\* session ran were noticed, and neither what is committed nor a neighbour that
\* goes between the confirmation and the report takes it back.  Only a peer that
\* lost its log since the cut was captured, a plugin that reopened the room, is
\* shown and may hold nothing.
SynchronizedMeansHeld ==
    [][\A p, q \in Placement : q \in synced'[p] \ synced[p] =>
          \E a \in attempts \ attempts' :
              \/ /\ a.from = p /\ a.to = q /\ a.ini = "complete"
                 /\ q \in a.lost \/ a.iseen \subseteq log'[q]
              \/ /\ a.from = q /\ a.to = p /\ a.res = "complete"
                 /\ q \in a.lost \/ a.rseen \subseteq log'[q]]_vars

\* Gossip may drop, delay and reorder, streams may break and placements restart:
\* once that stops, all logs become and stay the same.
Converges == <>[](\A p, q \in Placement : log[p] = log[q])

\* Whatever gossip, repair and restarts do, the logs stay causally closed and
\* only a plugin's is ever cut back: the protocol implements CausalLog.
Abstract == INSTANCE CausalLog
    WITH log <- log, causes <- causes, made <- made, volatile <- Volatile

ImplementsCausalLog == Abstract!Spec
=============================================================================
