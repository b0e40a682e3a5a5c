---------------------------- MODULE RoomSession ----------------------------
(***************************************************************************)
(* The compact pair session of a Room v5 worker (src/room/session.rs) with *)
(* the part of the replica worker it depends on (src/room/worker.rs): the  *)
(* durable music history, the durable renewal floor and the reification    *)
(* queue.  Two placements, 0 and 1, negotiate session epochs with          *)
(* Offer/Answer carriers, exchange compact Events inside an epoch and turn *)
(* their own Events into durable history.  Carriers may be lost,           *)
(* duplicated, delayed and reordered; a placement may lose its volatile    *)
(* state at any step and keeps its history and floor.                      *)
(*                                                                         *)
(* Session ids are minted fresh (random non-zero 64-bit numbers in the     *)
(* code); 0 stands for "absent", as the code never uses it.  Capabilities, *)
(* signatures and the music itself are abstracted away: both placements    *)
(* hold the grants they need in the base history.                          *)
(***************************************************************************)
EXTENDS Integers, Sequences, FiniteSets

CONSTANTS
    MaxSid,      \* bound: session ids minted in a behaviour
    MaxEvents,   \* MAX_EVENTS_PER_SEAT
    Budgets,     \* bound: how many plain durable commands, pitch edits inside
                 \* sessions and faults (losses, duplicates, lease expiries and
                 \* crashes) a behaviour may combine
    Timely       \* carriers arrive, and a refused generation ends, within the
                 \* two seconds between two StartPeer

ASSUME RoomSessionAssumption ==
    /\ MaxSid \in Nat
    /\ MaxEvents \in Nat \ {0}
    /\ Budgets \subseteq [plain : Nat, edits : Nat, faults : Nat]
    /\ Timely \in BOOLEAN

Actor == 0 .. 1

Other(a) == 1 - a

Sid == 1 .. MaxSid

Epoch == Nat \ {0}

Dot == [by : Actor, n : 1 .. MaxEvents]

\* One entry of the music history: a reified compact Event (sid # 0) or a
\* plain command (sid = 0).  deps are the Events it causally follows, which the
\* reification plan turns into parents of the entry.
Entry ==
    [by : Actor, sid : {0}, n : Nat, deps : {{}}]
    \cup [by : Actor, sid : Sid, n : 1 .. MaxEvents, deps : SUBSET Dot]

VARIABLES
    log,      \* log[a]: the durable music history in admission order; an item
              \* says whether the worker admitted it from a live record
    store,    \* store[a]: the durable renewal floor (0: none)
    task,     \* task[a]: struct RoomSessionTask
    reif,     \* reif[a]: the reifications queued for the worker to drain; an
              \* Event waits for its author's previous one, so order is no issue
    net,      \* carriers in flight
    nextSid,  \* the next fresh session id
    opened,   \* ghost: the (epoch, sid) pairs each placement has activated
    edits,    \* edits made so far
    faults    \* faults used so far

vars == <<log, store, task, reif, net, nextSid, opened, edits, faults>>

(***************************************************************************)
(* struct RoomSessionTask, reduced to the one peer of the pair.            *)
(***************************************************************************)
NoPending == [sid |-> 0, epoch |-> 0, base |-> 0, floor |-> 0]

\* ActiveSession::new: an epoch without Events.
NewActive(sid, epoch) ==
    [sid |-> sid, epoch |-> epoch, lease |-> TRUE, sent |-> 0,
     rcvd |-> {}, admitted |-> {}, waiting |-> {}]

NoActive == NewActive(0, 0)

NoInstall == [sid |-> 0, epoch |-> 0, answer |-> FALSE, durable |-> FALSE]

\* renewal_floors has no entry for the peer: the floor was not loaded yet.
NotLoaded == -1

\* The task of a worker that has just opened the history h.
FreshTask(h) ==
    [known |-> FALSE, view |-> Len(h), cache |-> NotLoaded,
     pending |-> NoPending, active |-> NoActive, install |-> NoInstall,
     needed |-> FALSE, doomed |-> FALSE, inflight |-> {}]

Item == [entry : Entry, live : BOOLEAN]

Offer(a, p, base) ==
    [kind |-> "Offer", from |-> a, sid |-> p.sid, epoch |-> p.epoch, base |-> base]

Answer(a, sid) == [kind |-> "Answer", from |-> a, sid |-> sid]

Event(a, sid, n) == [kind |-> "Event", from |-> a, sid |-> sid, n |-> n]

Entries(h) == {h[i].entry : i \in 1 .. Len(h)}

\* The set of entries the session task knows of, foundation.history: the
\* prefix of the worker's history it has been told about.
View(a, t) == {log[a][i].entry : i \in 1 .. t.view}

(***************************************************************************)
(* struct ActiveSession.  Events carry their causal context: the sender's  *)
(* previous Event and the last Event of the peer in its ready cut.         *)
(***************************************************************************)

\* kernel.ready_cut(): the received Events with no gap before them.
ReadyCut(rcvd) ==
    CHOOSE k \in 0 .. MaxEvents :
        /\ 1 .. k \subseteq rcvd
        /\ k + 1 \notin rcvd

Context(a, s) ==
    {d \in Dot : \/ d.by = a /\ d.n = s.sent
                 \/ d.by = Other(a) /\ d.n = ReadyCut(s.rcvd)}

LocalWait(t) == t.active.waiting # {}

RecoveryWork(t) == t.inflight # {}

Saturated(s) == s.sent = MaxEvents \/ Cardinality(s.rcvd) = MaxEvents

SessionRenewalReserve == 1

NeedsRenewal(s) ==
    \/ MaxEvents - s.sent <= SessionRenewalReserve
    \/ MaxEvents - Cardinality(s.rcvd) <= SessionRenewalReserve

\* RoomSessionReification: the session, the Event and the plan's parents.
Reify(sid, n, deps) == [sid |-> sid, n |-> n, deps |-> deps]

\* Mutant: an Event is reified whatever became of the Events it follows.
MutPlannedAlways(s, deps) == TRUE

\* planner.plan: an Event can be reified once everything it depends on has a
\* recorded durable admission; otherwise UnreifiedDependency.
Planned(s, deps) == deps \subseteq s.admitted

(***************************************************************************)
(* Negotiation.  Each operator maps the task before a handler to the task  *)
(* after it; an early return or an error leaves it as it was.              *)
(***************************************************************************)

\* load_renewal_floor.  Only this placement writes its floor and its task
\* waits for the answer, so the round trip to the worker is one step.
Loaded(a, t) == IF t.cache = NotLoaded THEN [t EXCEPT !.cache = store[a]] ELSE t

ProposedEpoch(floor) == floor + 1

\* begin_session: the new pending offer takes the next fresh id.
BeginSession(a, t) ==
    IF t.pending.sid # 0 \/ RecoveryWork(t) \/ LocalWait(t) THEN t
    ELSE LET u == Loaded(a, t)
         IN  IF u.active.sid # 0 /\ u.cache = 0 THEN u
             ELSE [u EXCEPT !.pending = [sid   |-> nextSid,
                                         epoch |-> ProposedEpoch(u.cache),
                                         base  |-> u.view,
                                         floor |-> u.cache],
                            !.needed = FALSE]

\* start_ready_renewals: the placement with the smaller id renews a nearly
\* exhausted epoch; either one renews when recovery asked for it.
StartReadyRenewals(a, t) ==
    IF /\ t.pending.sid = 0
       /\ ~RecoveryWork(t)
       /\ ~LocalWait(t)
       /\ IF t.active.sid = 0
          THEN t.needed /\ t.known
          ELSE t.needed \/ (a < Other(a) /\ NeedsRenewal(t.active))
    THEN BeginSession(a, t)
    ELSE t

PreferIncomingOffer(a, incoming, pending) ==
    incoming > pending \/ (incoming = pending /\ Other(a) < a)

\* Offers a step has to send: the one it has just begun.
Begun(a, t) == IF t.pending.sid = nextSid THEN {Offer(a, t.pending, View(a, t))} ELSE {}

\* Install the task after a handler, send its carriers and account for the
\* fresh session id; `in` is the network left by the handler's input.
Become(a, t, in, out) ==
    /\ t.pending.sid = nextSid => nextSid <= MaxSid
    /\ task' = [task EXCEPT ![a] = t]
    /\ net' = in \cup out \cup Begun(a, t)
    /\ nextSid' = IF t.pending.sid = nextSid THEN nextSid + 1 ELSE nextSid

Idle(a) == task[a].install.sid = 0

(***************************************************************************)
(* A generation ends (crash, terminate, fail_session_generation) and the   *)
(* placement is reopened from durable state: the task, the reifications    *)
(* that were queued and everything speculative are gone.                   *)
(***************************************************************************)
Reopen(a, in) ==
    /\ task' = [task EXCEPT ![a] = FreshTask(log[a])]
    /\ reif' = [reif EXCEPT ![a] = {}]
    /\ net' = in
    /\ UNCHANGED <<log, store, nextSid, opened>>

Plain(a) == {e \in Entries(log[a]) : e.by = a /\ e.sid = 0}

\* One of the budgets allows e edits, f faults and extra more plain commands.
Within(extra, e, f) ==
    \E b \in Budgets :
        /\ Cardinality(Plain(0) \cup Plain(1)) + extra =< b.plain
        /\ e =< b.edits
        /\ f =< b.faults

UseFault == Within(0, edits, faults + 1) /\ faults' = faults + 1

Crash(a) == Reopen(a, net) /\ UseFault /\ UNCHANGED edits

\* A carrier is consumed by its delivery; a duplicate is left behind (each
\* Event is sent directly and by gossip, and gossip may repeat).
Deliver(m, in) ==
    \/ in = net \ {m} /\ UNCHANGED faults
    \/ in = net /\ UseFault

Lose(m) ==
    /\ m \in net
    /\ net' = net \ {m}
    /\ UseFault
    /\ UNCHANGED <<log, store, task, reif, nextSid, opened, edits>>

(***************************************************************************)
(* Worker: durable history.                                                *)
(***************************************************************************)
Append1(a, entry, live) ==
    log' = [log EXCEPT ![a] = Append(@, [entry |-> entry, live |-> live])]

\* RoomWorkerCommand::Commit on the music lane.
CommitDurable(a) ==
    /\ Within(1, edits, faults)
    /\ Append1(a, [by |-> a, sid |-> 0, n |-> Len(log[a]) + 1, deps |-> {}], FALSE)
    /\ UNCHANGED <<store, task, reif, net, nextSid, opened, edits, faults>>

\* RoomWorkerCommand::DrainSession: one reification becomes durable.
DrainSession(a) ==
    /\ \E r \in reif[a] :
        /\ Append1(a, [by |-> a, sid |-> r.sid, n |-> r.n, deps |-> r.deps], FALSE)
        /\ reif' = [reif EXCEPT ![a] = @ \ {r}]
    /\ UNCHANGED <<store, task, net, nextSid, opened, edits, faults>>

\* InboundRecord (live) or a repair frame admits the peer's next entry.
Replicate(a, live) ==
    LET theirs == log[Other(a)]
        missing == {i \in 1 .. Len(theirs) : theirs[i].entry \notin Entries(log[a])}
    IN  /\ \E i \in missing :
            /\ \A k \in missing : i <= k
            /\ Append1(a, theirs[i].entry, live)
        /\ UNCHANGED <<store, task, reif, net, nextSid, opened, edits, faults>>

(***************************************************************************)
(* Session task: durable progress.                                         *)
(***************************************************************************)

\* Planner admission of dot d in the active session, then retry_reifications:
\* newly plannable Events leave the wait map for the in-flight set.
Admit(t, d) ==
    LET s == [t.active EXCEPT !.admitted = @ \cup {d}]
        ready == {w \in s.waiting : Planned(s, w.deps)}
    IN  [t EXCEPT !.active = [s EXCEPT !.waiting = @ \ ready],
                  !.inflight = @ \cup {Reify(s.sid, w.n, w.deps) : w \in ready}]

\* confirm_local for the active session; a confirmation for any other session
\* finds no retired epoch and changes nothing.
ConfirmLocal(t, e) ==
    IF t.active.sid # e.sid THEN t
    ELSE LET u == Admit(t, [by |-> e.by, n |-> e.n])
         IN  [u EXCEPT !.inflight = @ \ {Reify(e.sid, e.n, e.deps)}]

\* observe: only live records are shown to the planner.
Observe(t, e) ==
    IF t.active.sid # e.sid THEN t ELSE Admit(t, [by |-> e.by, n |-> e.n])

\* LocalCommitted, Observed, DurableAdvanced or RepairResynchronized followed
\* by RefreshFoundations: the task learns of the next durable entry.
AdvanceDurable(a) ==
    LET t == task[a]
        item == log[a][t.view + 1]
        e == item.entry
        seen == CASE e.sid # 0 /\ e.by = a -> ConfirmLocal(t, e)
                  [] e.sid # 0 /\ e.by # a /\ item.live -> Observe(t, e)
                  [] OTHER -> t
        u == StartReadyRenewals(a, [seen EXCEPT !.view = @ + 1])
    IN  /\ Idle(a)
        /\ t.view < Len(log[a])
        /\ Become(a, u, net, {})
        /\ reif' = [reif EXCEPT ![a] = @ \cup (u.inflight \ t.inflight)]
        /\ UNCHANGED <<log, store, opened, edits, faults>>

(***************************************************************************)
(* Session task: establishment.                                            *)
(***************************************************************************)

\* start_peer, driven by the window every two seconds while connected.
StartPeer(a) ==
    LET t == [task[a] EXCEPT !.known = TRUE]
        u == Loaded(a, t)
    IN  /\ Idle(a)
        /\ Timely => net = {} /\ Idle(Other(a)) /\ \A b \in Actor : ~task[b].doomed
        /\ IF t.pending.sid # 0
           THEN IF t.pending.base = t.view
                THEN Become(a, t, net, {Offer(a, t.pending, View(a, t))})
                ELSE Become(a, BeginSession(a, [t EXCEPT !.pending = NoPending,
                                                         !.needed = TRUE]), net, {})
           ELSE IF t.active.sid # 0
                THEN Become(a, t, net, {})
                ELSE IF a > Other(a) /\ u.cache = 0
                     THEN Become(a, u, net, {})
                     ELSE Become(a, BeginSession(a, u), net, {})
        /\ UNCHANGED <<log, store, reif, opened, edits, faults>>

\* Mutant: an offer at or below the floor is refused without a counter-offer.
MutCounterOfferSilent(a, t) == t

\* An offer at or below the durable floor is refused and countered from the
\* floor's successor.
CounterOffer(a, t) ==
    LET u == [t EXCEPT !.needed = TRUE]
    IN  IF u.active.sid = 0 /\ u.pending.sid = 0
        THEN BeginSession(a, u)
        ELSE StartReadyRenewals(a, u)

\* The task that waits for the floor of the offered epoch to be durable.
Installing(t, sid, epoch, answer) ==
    [t EXCEPT !.pending = NoPending,
              !.install = [sid |-> sid, epoch |-> epoch,
                           answer |-> answer, durable |-> FALSE]]

\* Mutant: the Offer handler does not compare the epoch with the floor.
MutOfferBelowFloor(a, t, m) ==
    IF ~t.known \/ m.base # View(a, t) THEN t
    ELSE LET u == Loaded(a, t)
         IN  IF u.pending.sid # 0 /\ ~PreferIncomingOffer(a, m.epoch, u.pending.epoch)
             THEN u
             ELSE Installing(u, m.sid, m.epoch, TRUE)

\* Mutant: the responder installs its own next epoch, not the offered one.
MutOfferOwnEpoch(a, t, m) ==
    IF ~t.known \/ m.base # View(a, t) THEN t
    ELSE LET u == Loaded(a, t)
         IN  IF m.epoch <= u.cache THEN CounterOffer(a, u)
             ELSE Installing(u, m.sid, ProposedEpoch(u.cache), TRUE)

\* Mutant: local durable obligations do not hold up an incoming renewal.
MutOfferUndrained(a, t, m) ==
    IF ~t.known \/ m.base # View(a, t) THEN t
    ELSE LET u == Loaded(a, t)
         IN  IF m.epoch <= u.cache THEN CounterOffer(a, u)
             ELSE IF u.pending.sid # 0 /\ ~PreferIncomingOffer(a, m.epoch, u.pending.epoch)
                  THEN u
                  ELSE Installing(u, m.sid, m.epoch, TRUE)

\* carrier(), Offer.
AcceptOffer(a, t, m) ==
    IF ~t.known \/ m.base # View(a, t) THEN t
    ELSE LET u == Loaded(a, t)
         IN  IF m.epoch <= u.cache THEN CounterOffer(a, u)
             ELSE IF \/ /\ u.pending.sid # 0
                        /\ ~PreferIncomingOffer(a, m.epoch, u.pending.epoch)
                     \/ u.cache # 0 /\ (LocalWait(u) \/ RecoveryWork(u))
                  THEN u
                  ELSE Installing(u, m.sid, m.epoch, TRUE)

RecvOffer(a, sid) ==
    \E m \in net : \E in \in {net, net \ {m}} :
        /\ m.kind = "Offer" /\ m.from = Other(a) /\ m.sid = sid
        /\ Idle(a)
        /\ Deliver(m, in)
        /\ UNCHANGED edits
        /\ Become(a, AcceptOffer(a, task[a], m), in, {})
        /\ UNCHANGED <<log, store, reif, opened>>

\* carrier(), Answer: the pending offer is removed before anything is checked.
AcceptAnswer(a, t, sid) ==
    LET p == t.pending
        u == [t EXCEPT !.pending = NoPending]
    IN  IF p.sid # sid THEN u
        ELSE IF p.base # u.view \/ LocalWait(u) \/ RecoveryWork(u) \/ u.cache # p.floor
             THEN StartReadyRenewals(a, [u EXCEPT !.needed = TRUE])
             ELSE Installing(u, sid, p.epoch, FALSE)

RecvAnswer(a, sid) ==
    LET m == Answer(Other(a), sid)
    IN  \E in \in {net, net \ {m}} :
        /\ m \in net
        /\ Idle(a)
        /\ Deliver(m, in)
        /\ UNCHANGED edits
        /\ Become(a, IF task[a].pending.sid = 0 THEN task[a]
                     ELSE AcceptAnswer(a, task[a], sid), in, {})
        /\ UNCHANGED <<log, store, reif, opened>>

\* install_session, first half: the worker persists the floor if its history
\* is still the one the epoch is based on.  Otherwise the install is given up
\* and the task goes on until the window ends the generation.
PersistFloor(a) ==
    LET t == task[a]
    IN  /\ t.install.sid # 0
        /\ ~t.install.durable
        /\ IF t.view = Len(log[a])
           THEN /\ store' = [store EXCEPT ![a] = t.install.epoch]
                /\ task' = [task EXCEPT ![a].install.durable = TRUE]
           ELSE /\ task' = [task EXCEPT ![a] =
                               [t EXCEPT !.install = NoInstall,
                                         !.needed = TRUE,
                                         !.doomed = TRUE]]
                /\ UNCHANGED store
        /\ UNCHANGED <<log, reif, net, nextSid, opened, edits, faults>>

\* fail_active_room_generation, once the worker has refused a floor.
EndGeneration(a) ==
    /\ task[a].doomed
    /\ Reopen(a, net)
    /\ UNCHANGED <<edits, faults>>

\* Mutant: the Answer goes out before the floor is durable.
MutInstallEarly(a) ==
    LET t == task[a]
        i == t.install
    IN  /\ i.sid # 0
        /\ task' = [task EXCEPT ![a] =
                       [t EXCEPT !.install = NoInstall,
                                 !.cache = i.epoch,
                                 !.active = NewActive(i.sid, i.epoch)]]
        /\ net' = IF i.answer THEN net \cup {Answer(a, i.sid)} ELSE net
        /\ opened' = [opened EXCEPT ![a] = @ \cup {<<i.epoch, i.sid>>}]
        /\ UNCHANGED <<log, store, reif, nextSid, edits, faults>>

\* Mutant: the cached floor is not replaced by the installed one.
MutInstallStaleCache(a) ==
    LET t == task[a]
        i == t.install
    IN  /\ i.sid # 0
        /\ i.durable
        /\ task' = [task EXCEPT ![a] =
                       [t EXCEPT !.install = NoInstall,
                                 !.active = NewActive(i.sid, i.epoch)]]
        /\ net' = IF i.answer THEN net \cup {Answer(a, i.sid)} ELSE net
        /\ opened' = [opened EXCEPT ![a] = @ \cup {<<i.epoch, i.sid>>}]
        /\ UNCHANGED <<log, store, reif, nextSid, edits, faults>>

\* install_session, second half: publish the Answer and activate the epoch.
InstallSession(a) ==
    LET t == task[a]
        i == t.install
    IN  /\ i.sid # 0
        /\ i.durable
        /\ task' = [task EXCEPT ![a] =
                       [t EXCEPT !.install = NoInstall,
                                 !.cache = i.epoch,
                                 !.active = NewActive(i.sid, i.epoch)]]
        /\ net' = IF i.answer THEN net \cup {Answer(a, i.sid)} ELSE net
        /\ opened' = [opened EXCEPT ![a] = @ \cup {<<i.epoch, i.sid>>}]
        /\ UNCHANGED <<log, store, reif, nextSid, edits, faults>>

(***************************************************************************)
(* Session task: compact Events.                                           *)
(***************************************************************************)

\* The lease of an epoch runs out; nothing notices until the next Event.
ExpireLease(a) ==
    /\ task[a].active.sid # 0
    /\ task[a].active.lease
    /\ task' = [task EXCEPT ![a].active.lease = FALSE]
    /\ UseFault
    /\ UNCHANGED <<log, store, reif, net, nextSid, opened, edits>>

\* local_edit inside a session: seal the next Event, reify it at once or keep
\* it until its dependencies are durable.
LocalEdit(a) ==
    LET s == task[a].active
        n == s.sent + 1
        r == Reify(s.sid, n, Context(a, s))
        sealed == [task[a] EXCEPT !.active.sent = n]
    IN  /\ Idle(a)
        /\ s.sid # 0
        /\ ~Saturated(s)
        /\ Within(0, edits + 1, faults)
        /\ edits' = edits + 1
        /\ IF s.lease
           THEN /\ IF Planned(s, Context(a, s))
                   THEN /\ task' = [task EXCEPT ![a] =
                                      [sealed EXCEPT !.inflight = @ \cup {r}]]
                        /\ reif' = [reif EXCEPT ![a] = @ \cup {r}]
                   ELSE /\ task' = [task EXCEPT ![a] =
                              [sealed EXCEPT !.active.waiting =
                                  @ \cup {[n |-> n, deps |-> Context(a, s)]}]]
                        /\ UNCHANGED reif
                /\ net' = net \cup {Event(a, s.sid, n)}
                /\ UNCHANGED <<log, store, nextSid, opened>>
           ELSE Reopen(a, net)
        /\ UNCHANGED faults

\* carrier(), Event.
RecvEvent(a, sid, n) ==
    LET m == Event(Other(a), sid, n)
        t == task[a]
        recovering == [t EXCEPT !.needed = TRUE]
    IN  \E in \in {net, net \ {m}} :
        /\ m \in net
        /\ Idle(a)
        /\ Deliver(m, in)
        /\ UNCHANGED edits
        /\ CASE t.active.sid # sid ->
                  /\ Become(a, CASE ~t.known -> recovering
                                 [] t.known /\ t.active.sid = 0 -> BeginSession(a, recovering)
                                 [] OTHER -> StartReadyRenewals(a, recovering), in, {})
                  /\ UNCHANGED <<log, store, reif, opened>>
             [] t.active.sid = sid /\ n \in t.active.rcvd ->
                  /\ Become(a, t, in, {})
                  /\ UNCHANGED <<log, store, reif, opened>>
             [] t.active.sid = sid /\ n \notin t.active.rcvd /\ t.active.lease ->
                  /\ Become(a, [t EXCEPT !.active.rcvd = @ \cup {n}], in, {})
                  /\ UNCHANGED <<log, store, reif, opened>>
             [] OTHER -> Reopen(a, in)

Init ==
    /\ log = [a \in Actor |-> <<>>]
    /\ store = [a \in Actor |-> 0]
    /\ task = [a \in Actor |-> FreshTask(<<>>)]
    /\ reif = [a \in Actor |-> {}]
    /\ net = {}
    /\ nextSid = 1
    /\ opened = [a \in Actor |-> {}]
    /\ edits = 0
    /\ faults = 0

Next ==
    \/ \E a \in Actor :
        \/ CommitDurable(a) \/ DrainSession(a) \/ AdvanceDurable(a)
        \/ \E live \in BOOLEAN : Replicate(a, live)
        \/ StartPeer(a)
        \/ \E sid \in Sid : RecvOffer(a, sid) \/ RecvAnswer(a, sid)
        \/ \E sid \in Sid, n \in 1 .. MaxEvents : RecvEvent(a, sid, n)
        \/ PersistFloor(a) \/ InstallSession(a) \/ EndGeneration(a)
        \/ LocalEdit(a) \/ ExpireLease(a) \/ Crash(a)
    \/ \E m \in net : Lose(m)

Spec == Init /\ [][Next]_vars

(***************************************************************************)
(* Fairness: the worker, the session task and the window's drain loop keep *)
(* running, the window repeats StartPeer every two seconds and probes for  *)
(* repair every 27 seconds, and a carrier that is neither lost nor         *)
(* superseded is eventually delivered.  Edits and faults are never owed.   *)
(***************************************************************************)
Fairness ==
    \A a \in Actor :
        /\ WF_vars(DrainSession(a)) /\ WF_vars(AdvanceDurable(a))
        /\ WF_vars(Replicate(a, FALSE))
        /\ SF_vars(StartPeer(a))
        /\ WF_vars(PersistFloor(a)) /\ WF_vars(InstallSession(a)) /\ WF_vars(EndGeneration(a))
        /\ \A sid \in Sid : WF_vars(RecvOffer(a, sid)) /\ WF_vars(RecvAnswer(a, sid))
        /\ \A sid \in Sid, n \in 1 .. MaxEvents : WF_vars(RecvEvent(a, sid, n))

FairSpec == Spec /\ Fairness

-----------------------------------------------------------------------------
(***************************************************************************)
(* Types.                                                                  *)
(***************************************************************************)
Reification == [sid : Sid, n : 1 .. MaxEvents, deps : SUBSET Dot]

Task ==
    [known    : BOOLEAN,
     view     : Nat,
     cache    : Nat \cup {NotLoaded},
     pending  : [sid : 0 .. MaxSid, epoch : Nat, base : Nat, floor : Nat],
     active   : [sid : 0 .. MaxSid, epoch : Nat, lease : BOOLEAN, sent : 0 .. MaxEvents,
                 rcvd : SUBSET (1 .. MaxEvents), admitted : SUBSET Dot,
                 waiting : SUBSET [n : 1 .. MaxEvents, deps : SUBSET Dot]],
     install  : [sid : 0 .. MaxSid, epoch : Nat, answer : BOOLEAN, durable : BOOLEAN],
     needed   : BOOLEAN,
     doomed   : BOOLEAN,
     inflight : SUBSET Reification]

Carrier ==
    [kind : {"Offer"}, from : Actor, sid : Sid, epoch : Epoch, base : SUBSET Entry]
    \cup [kind : {"Answer"}, from : Actor, sid : Sid]
    \cup [kind : {"Event"}, from : Actor, sid : Sid, n : 1 .. MaxEvents]

\* The state has the shape of the code's structures.
TypeOK ==
    /\ log \in [Actor -> Seq(Item)]
    /\ store \in [Actor -> Nat]
    /\ task \in [Actor -> Task]
    /\ \A a \in Actor : task[a].view <= Len(log[a])
    /\ reif \in [Actor -> SUBSET Reification]
    /\ net \in SUBSET Carrier
    /\ nextSid \in 1 .. MaxSid + 1
    /\ opened \in [Actor -> SUBSET (Epoch \X Sid)]
    /\ edits \in Nat
    /\ faults \in Nat

(***************************************************************************)
(* Safety.                                                                 *)
(***************************************************************************)

\* A placement never opens an epoch twice, whatever it forgets in a crash:
\* install_session makes the floor durable before the epoch is usable, and
\* begin_session and the Offer handler only go above the floor.
EpochOpensOnce ==
    \A a \in Actor : \A x, y \in opened[a] : x[1] = y[1] => x = y

\* Two placements that are in the same session agree on its epoch.
SessionNamesOneEpoch ==
    \A a, b \in Actor : \A x \in opened[a], y \in opened[b] :
        x[2] = y[2] => x[1] = y[1]

\* A session answer is on the wire only after the answering placement's floor
\* covers the epoch of the offer it answers: a crash after the egress can
\* never let that epoch be negotiated again ("persists before answer or reset
\* becomes observable").
AnswerFollowsFloor ==
    \A m \in net : m.kind = "Answer" =>
        \E x \in opened[m.from] : x[2] = m.sid /\ x[1] <= store[m.from]

\* Everything the task believes about its floor is what the worker holds: the
\* cached floor, the active epoch and the epoch being installed.
FloorCoherent ==
    \A a \in Actor :
        LET t == task[a]
        IN  /\ t.cache # NotLoaded => \/ t.cache = store[a]
                                      \/ t.install.durable /\ t.cache < store[a]
            /\ t.active.sid # 0 => t.cache # NotLoaded /\ t.active.epoch = t.cache
            /\ t.install.sid # 0 => IF t.install.durable
                                   THEN store[a] = t.install.epoch
                                   ELSE store[a] < t.install.epoch

\* The in-flight set is exactly what still has to come back to the task: the
\* queued reifications and the committed ones it has not been told about, all
\* of the active session.  A session is never replaced under its own durable
\* obligations, and no confirmation finds neither an active nor a retired epoch.
Unconfirmed(a) ==
    {Reify(log[a][i].entry.sid, log[a][i].entry.n, log[a][i].entry.deps) :
        i \in {j \in task[a].view + 1 .. Len(log[a]) :
                 log[a][j].entry.by = a /\ log[a][j].entry.sid # 0}}

NoAbandonedObligation ==
    \A a \in Actor :
        /\ task[a].inflight = reif[a] \cup Unconfirmed(a)
        /\ \A r \in task[a].inflight : r.sid = task[a].active.sid
        /\ LocalWait(task[a]) => task[a].active.sid # 0

\* Every placement's durable history is causally closed: a reified Event comes
\* after the Events of its session it was made in sight of, its author's own
\* and the peer's, whatever order their records travelled in.
CausalHistory ==
    \A a \in Actor : \A i \in 1 .. Len(log[a]) :
        LET e == log[a][i].entry
        IN  \A d \in e.deps : \E j \in 1 .. i - 1 :
                LET f == log[a][j].entry IN f.sid = e.sid /\ f.by = d.by /\ f.n = d.n

\* The placement was in the session and is not in it any more.
HasLeft(a, sid) == (\E x \in opened[a] : x[2] = sid) /\ task[a].active.sid # sid

\* A session that a placement has left, by renewal or with its generation, it is
\* never in again, however late an Offer or Answer of it arrives.
LeftForGood == [][\A a \in Actor, sid \in Sid : HasLeft(a, sid) => HasLeft(a, sid)']_vars

\* An Event of a in sight of one whose author has left the session, and which is in
\* no history: its dependency will never be durable.
Stuck(a) ==
    LET s == task[a].active
    IN  \E w \in s.waiting : \E d \in w.deps :
            /\ HasLeft(d.by, s.sid)
            /\ \A b \in Actor : \A i \in 1 .. Len(log[b]) :
                  LET e == log[b][i].entry IN ~(e.sid = s.sid /\ e.by = d.by /\ e.n = d.n)

\* Only the end of its own generation gets a stuck placement out of its session:
\* until then it installs no other epoch, whatever Offers, Answers, repairs and
\* confirmations reach it.
StuckIsForGood ==
    [][\A a \in Actor : Stuck(a) => \/ Stuck(a)' /\ task'[a].active.sid = task[a].active.sid
                                   \/ task'[a] = FreshTask(log[a])]_vars

\* The durable floor of a placement never moves down.
FloorOnlyRises == [][\A a \in Actor : store'[a] >= store[a]]_vars

\* Whatever crashes, and whatever carriers do, the session task and its store
\* climb through the epochs: install_session opens one only as the durable
\* floor, above all that were opened before, and under an id that means the
\* same epoch on the other side.
Epochs ==
    INSTANCE EpochRegister WITH Placement <- Actor, Session <- Sid,
                                floor <- store, opened <- opened

ImplementsEpochRegister == Epochs!Spec

\* A placement without a session gets one: whatever was lost or crashed, the
\* durable history, repair and the counter-offers above the floor lead to a
\* fresh epoch.
SessionEstablished ==
    \A a \in Actor : task[a].active.sid = 0 ~> task[a].active.sid # 0
=============================================================================
