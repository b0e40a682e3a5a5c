-------------------------- MODULE LaneRepairProofs --------------------------
(***************************************************************************)
(* Proofs about lane repair for every number of placements, of entries, of *)
(* tasks and of faults: the logs stay causally closed and only a plugin's  *)
(* is ever cut back, so the protocol implements CausalLog; a peer shown as *)
(* synchronized holds what was confirmed, unless it lost its log since;    *)
(* and nobody holds a slot without a task.                                 *)
(***************************************************************************)
EXTENDS LaneRepair, FiniteSetTheorems, TLAPS

Ini == {"dial", "sent", "applied", "complete", "stale", "done", "failed"}

Res == {"none", "queued", "permit", "sent", "applied", "complete", "stale", "done", "failed"}

\* A side that has applied the other's cut.
Got == {"applied", "complete", "stale", "done"}

AttemptType ==
    [from : Placement, to : Placement, id : 1 .. MaxTasks, retry : 0 .. MaxRetries,
     ini : Ini, res : Res, icut : SUBSET Entry, rcut : SUBSET Entry,
     iseen : SUBSET Entry, rseen : SUBSET Entry, broken : BOOLEAN, lost : SUBSET Placement]

\* A set of entries with everything they depend on.
Closed(S) == S \subseteq 1 .. made /\ \A e \in S : causes[e] \subseteq S

\* What p held of an attempt it still holds, unless it lost its log since.
Keeps(a, p, S) == p \in a.lost \/ S \subseteq log[p]

(***************************************************************************)
(* What an attempt knows is true of the logs: each cut is closed and, but  *)
(* for a log that was lost, still held by the side that captured it, and   *)
(* by the other side once it has applied it; and what one side saw when it *)
(* confirmed a complete repair, the other side holds.                      *)
(***************************************************************************)
Good(a) ==
    /\ a \in AttemptType
    /\ Initiates(a.from, a.to)
    /\ Closed(a.icut)
    /\ Closed(a.rcut)
    /\ a.res = "none" => a.ini \in {"dial", "failed"} /\ a.rcut = {}
    /\ Keeps(a, a.from, a.icut)
    /\ Keeps(a, a.to, a.rcut)
    /\ a.ini \in Got => Keeps(a, a.from, a.rcut)
    /\ a.res \in Got => Keeps(a, a.to, a.icut)
    /\ a.ini = "complete" => Keeps(a, a.to, a.iseen)
    /\ a.res = "complete" => Keeps(a, a.from, a.rseen)

\* Gossip speaks of entries that were made.
GoodMessage(m) ==
    /\ m.from \in Placement
    /\ m.to \in Placement
    /\ m.body.type = "live" => m.body.entry \in 1 .. made

CausalInv ==
    /\ TypeOK
    /\ \A p \in Placement : Closed(log[p])
    /\ \A a \in attempts : Good(a)
    /\ \A m \in wire : GoodMessage(m)

-----------------------------------------------------------------------------
(* What a step does to the logs.                                           *)

\* A new entry, entries of others with their causes, or nothing.
Learns(p) ==
    \E new \in SUBSET (1 .. made) :
        /\ \A e \in new : causes[e] \subseteq log[p] \cup new
        /\ log' = [log EXCEPT ![p] = @ \cup new]
        /\ UNCHANGED <<causes, made>>

LogStep ==
    \/ UNCHANGED <<log, causes, made>>
    \/ \E p \in Placement : Commit(p) \/ Learns(p)

\* Logs grow, and what was caused stays caused.
Grows ==
    /\ room' = room
    /\ made' \in Nat /\ made <= made'
    /\ \A p \in Placement : log[p] \subseteq log'[p]
    /\ \A e \in 1 .. made : causes'[e] = causes[e]

\* The types of what a placement has authored and holds.
LEMMA TypedLogs ==
    ASSUME CausalInv
    PROVE  /\ room.entries \in Nat
           /\ made \in Nat /\ made <= room.entries
           /\ log \in [Placement -> SUBSET (1 .. made)]
           /\ causes \in [1 .. room.entries -> SUBSET (1 .. room.entries)]
BY RepairAssumption DEF CausalInv, TypeOK, Closed, Entry

\* A log step keeps the logs' types, lets them grow and leaves them closed.
LEMMA LogStepGrows ==
    ASSUME CausalInv, room' = room, LogStep
    PROVE  /\ Grows
           /\ log' \in [Placement -> SUBSET Entry']
           /\ causes' \in [Entry' -> SUBSET Entry']
           /\ made' \in 0 .. room'.entries
           /\ \A p \in Placement : Closed(log[p])'
<1>0. /\ room.entries \in Nat /\ made \in Nat /\ made <= room.entries
      /\ log \in [Placement -> SUBSET (1 .. made)]
      /\ causes \in [1 .. room.entries -> SUBSET (1 .. room.entries)]
      /\ \A p \in Placement : Closed(log[p])
    BY TypedLogs DEF CausalInv
<1>1. CASE UNCHANGED <<log, causes, made>>
    BY <1>0, <1>1 DEF Grows, Closed, Entry
<1>2. ASSUME NEW p \in Placement, Commit(p)
      PROVE  /\ Grows
             /\ log' \in [Placement -> SUBSET Entry'] /\ causes' \in [Entry' -> SUBSET Entry']
             /\ made' \in 0 .. room'.entries
             /\ \A q \in Placement : Closed(log[q])'
    <2>1. /\ made' = made + 1 /\ made < room.entries
          /\ causes' = [causes EXCEPT ![made + 1] = log[p]]
          /\ log' = [log EXCEPT ![p] = @ \cup {made + 1}]
        BY <1>2 DEF Commit
    <2>2. \A e \in 1 .. made : causes'[e] = causes[e]
        BY <1>0, <2>1
    <2>3. causes'[made + 1] = log[p]
        BY <1>0, <2>1
    <2>4. \A q \in Placement : log[q] \subseteq log'[q] /\ log'[q] \subseteq log[q] \cup {made + 1}
        BY <1>0, <2>1
    <2>5. \A q \in Placement : q # p => log'[q] = log[q]
        BY <1>0, <2>1
    <2>6. \A q \in Placement : Closed(log[q])'
        <3> SUFFICES ASSUME NEW q \in Placement
                     PROVE  log'[q] \subseteq 1 .. made' /\ \A e \in log'[q] : causes'[e] \subseteq log'[q]
            BY DEF Closed
        <3>1. log'[q] \subseteq 1 .. made'
            BY <1>0, <2>1, <2>4
        <3>2. ASSUME NEW e \in log'[q] PROVE causes'[e] \subseteq log'[q]
            <4>1. CASE e = made + 1
                BY <1>0, <2>3, <2>4, <2>5, <4>1
            <4>2. CASE e \in log[q]
                BY <1>0, <2>2, <2>4, <4>2 DEF Closed
            <4> QED BY <2>4, <4>1, <4>2
        <3> QED BY <3>1, <3>2
    <2>7. Grows
        BY <1>0, <2>1, <2>2, <2>4 DEF Grows
    <2>8. log' \in [Placement -> SUBSET Entry'] /\ causes' \in [Entry' -> SUBSET Entry']
        BY <1>0, <2>1 DEF Entry
    <2>9. made' \in 0 .. room'.entries
        BY <1>0, <2>1
    <2> QED BY <2>6, <2>7, <2>8, <2>9
<1>3. ASSUME NEW p \in Placement, Learns(p)
      PROVE  /\ Grows
             /\ log' \in [Placement -> SUBSET Entry'] /\ causes' \in [Entry' -> SUBSET Entry']
             /\ made' \in 0 .. room'.entries
             /\ \A q \in Placement : Closed(log[q])'
    <2>1. PICK new \in SUBSET (1 .. made) :
              /\ \A e \in new : causes[e] \subseteq log[p] \cup new
              /\ log' = [log EXCEPT ![p] = @ \cup new]
              /\ UNCHANGED <<causes, made>>
        BY <1>3 DEF Learns
    <2>2. log'[p] = log[p] \cup new /\ \A q \in Placement : q # p => log'[q] = log[q]
        BY <1>0, <2>1
    <2>3. \A q \in Placement : Closed(log[q])'
        BY <1>0, <2>1, <2>2 DEF Closed
    <2>4. Grows
        BY <1>0, <2>1, <2>2 DEF Grows
    <2>5. 1 .. made \subseteq Entry'
        BY <1>0 DEF Entry
    <2>6. log' \in [Placement -> SUBSET Entry'] /\ causes' \in [Entry' -> SUBSET Entry']
        BY <1>0, <2>1, <2>2, <2>5 DEF Entry
    <2>7. made' \in 0 .. room'.entries
        BY <1>0, <2>1
    <2> QED BY <2>3, <2>4, <2>6, <2>7
<1> QED BY <1>1, <1>2, <1>3 DEF LogStep

\* Closed cuts stay closed, and attempts and messages stay good.
LEMMA GrowsKeeps ==
    ASSUME CausalInv, Grows
    PROVE  /\ \A S : Closed(S) => Closed(S)'
           /\ \A a : Good(a) => Good(a)'
           /\ \A m : GoodMessage(m) => GoodMessage(m)'
<1>0. made \in Nat /\ made' \in Nat /\ made <= made' /\ Entry' = Entry
    BY TypedLogs DEF Grows, Entry
<1>1. \A S : Closed(S) => Closed(S)'
    BY <1>0 DEF Closed, Grows
<1>2. ASSUME NEW a, Good(a) PROVE Good(a)'
    <2>1. a \in AttemptType /\ a \in AttemptType'
        BY <1>0, <1>2 DEF Good, AttemptType
    <2>2. a.from \in Placement /\ a.to \in Placement
        BY <2>1 DEF AttemptType
    <2>3. log[a.from] \subseteq log'[a.from] /\ log[a.to] \subseteq log'[a.to]
        BY <2>2 DEF Grows
    <2> QED BY <1>1, <1>2, <2>1, <2>3 DEF Good, Keeps
<1>3. \A m : GoodMessage(m) => GoodMessage(m)'
    BY <1>0 DEF GoodMessage
<1> QED BY <1>1, <1>2, <1>3
-----------------------------------------------------------------------------
(* What a step does to everything else.                                    *)

SlotType == [Placement -> [Placement -> {"free", "held", "again", "resp"}]]

\* A sound step keeps the types, makes an entry or lets one placement learn, and
\* adds only good attempts and messages.
Sound ==
    /\ room' = room
    /\ LogStep
    /\ near' \in [Placement -> SUBSET Placement]
    /\ slot' \in SlotType
    /\ permit' \in [Placement -> BOOLEAN]
    /\ synced' \in [Placement -> SUBSET Placement]
    /\ used' \in 0 .. room.faults
    /\ \A a \in attempts' : a \in attempts \/ Good(a) \/ Good(a)'
    /\ \A m \in wire' : m \in wire \/ GoodMessage(m)'

\* A sound step keeps the causal invariant, and logs only grow.
LEMMA SoundKeeps == ASSUME CausalInv, Sound PROVE CausalInv' /\ Grows
<1>1. /\ Grows
      /\ log' \in [Placement -> SUBSET Entry'] /\ causes' \in [Entry' -> SUBSET Entry']
      /\ made' \in 0 .. room'.entries
      /\ \A p \in Placement : Closed(log[p])'
    BY LogStepGrows DEF Sound
<1>2. \A a \in attempts' : Good(a)'
    BY <1>1, GrowsKeeps DEF Sound, CausalInv
<1>3. \A m \in wire' : GoodMessage(m)'
    BY <1>1, GrowsKeeps DEF Sound, CausalInv
<1>4. \A a \in attempts' :
          /\ a.from \in Placement /\ a.to \in Placement /\ a.retry \in 0 .. MaxRetries
          /\ a.ini \in {"dial", "sent", "applied", "done", "failed"} \cup Result
          /\ a.res \in {"none", "queued", "permit", "sent", "applied", "done", "failed"} \cup Result
    BY <1>2 DEF Good, AttemptType, Ini, Res, Result
<1>5. TypeOK'
    BY <1>1, <1>4 DEF Sound, SlotType, TypeOK, CausalInv
<1> QED BY <1>1, <1>2, <1>3, <1>5 DEF CausalInv

\* The types of neighbours, slots and permits.
LEMMA Typed ==
    ASSUME CausalInv
    PROVE  /\ near \in [Placement -> SUBSET Placement]
           /\ slot \in SlotType
           /\ permit \in [Placement -> BOOLEAN]
           /\ synced \in [Placement -> SUBSET Placement]
           /\ used \in 0 .. room.faults /\ room.faults \in Nat
           /\ Kind \in [Placement -> {"browser", "desktop", "plugin"}]
BY RepairAssumption DEF CausalInv, TypeOK, SlotType, Kind

\* A fresh attempt knows nothing yet.
LEMMA FreshGood ==
    ASSUME NEW p \in Placement, NEW q \in Placement, Initiates(p, q),
           NEW i \in 1 .. MaxTasks, NEW n \in 0 .. MaxRetries
    PROVE  Good(Attempt(p, q, i, n))
BY DEF Good, Attempt, AttemptType, Ini, Res, Closed, Keeps, Got

\* The first task and the first retry are within their bounds.
LEMMA TaskNumbers == 1 \in 1 .. MaxTasks /\ 0 \in 0 .. MaxRetries
BY RepairAssumption

\* A trigger only adds fresh attempts.
LEMMA ScheduleGood ==
    ASSUME CausalInv, NEW p \in Placement, NEW Q \in SUBSET Placement, Schedule(p, Q)
    PROVE  /\ slot' \in SlotType
           /\ \A a \in attempts' : a \in attempts \/ Good(a)
<1> DEFINE peers == {q \in Q : Initiates(p, q)}
<1>1. CASE Kind[p] = "browser"
    <2>1. BrowserSchedule(p, peers)
        BY <1>1 DEF Schedule
    <2>2. slot' \in SlotType
        BY <2>1, Typed DEF BrowserSchedule, Coalesced, SlotType
    <2>3. \A a \in attempts' : a \in attempts \/ Good(a)
        BY <2>1, FreshGood, TaskNumbers DEF BrowserSchedule, Vacant
    <2> QED BY <2>2, <2>3
<1>2. CASE Kind[p] = "desktop"
    <2>1. DesktopSchedule(p, peers)
        BY <1>2 DEF Schedule
    <2>2. \A q : FreeId(p, q) # {} => (CHOOSE i \in FreeId(p, q) : TRUE) \in 1 .. MaxTasks
        BY DEF FreeId
    <2>3. \A a \in attempts' : a \in attempts \/ Good(a)
        BY <2>1, <2>2, FreshGood, TaskNumbers DEF DesktopSchedule
    <2> QED BY <2>1, <2>3, Typed DEF DesktopSchedule
<1>3. CASE Kind[p] = "plugin"
    <2>1. PluginSchedule(p, peers)
        BY <1>3 DEF Schedule
    <2>2. slot' \in SlotType
        BY <2>1, Typed DEF PluginSchedule, SlotType
    <2>3. \A a \in attempts' : a \in attempts \/ Good(a)
        BY <2>1, FreshGood, TaskNumbers DEF PluginSchedule, Vacant
    <2> QED BY <2>2, <2>3
<1> QED BY <1>1, <1>2, <1>3, Typed

\* A broadcast is good when what it names was made.
LEMMA CopiesGood ==
    ASSUME NEW p \in Placement, NEW Q \in SUBSET Placement, NEW body,
           body.type = "live" => body.entry \in 1 .. made'
    PROVE  \A m \in Copies(p, Q, body) : GoodMessage(m)'
BY DEF Copies, GoodMessage

\* What is sent as a call carries no entry.
LEMMA CallsGood ==
    ASSUME NEW p \in Placement, NEW Q \in SUBSET Placement, NEW body, body.type # "live"
    PROVE  \A m \in Calls(p, Q, body) : GoodMessage(m)'
BY CopiesGood DEF Calls

\* Hints and probes carry no entry, a live message carries its own.
LEMMA BodyTypes ==
    /\ Hint.type # "live"
    /\ \A cut : Probe(cut).type # "live"
    /\ \A e : Live(e).entry = e
BY DEF Hint, Probe, Live

-----------------------------------------------------------------------------
(* One lemma per kind of step.                                             *)

\* A broadcast reaches nobody that does not exist.
LEMMA HintGood ==
    ASSUME CausalInv, NEW p \in Placement, NEW Q \in SUBSET Placement
    PROVE  \A m \in Calls(p, Q, Hint) : GoodMessage(m)'
BY CallsGood, BodyTypes

\* A live message carries an entry whose author holds its causes.
LEMMA LiveGood ==
    ASSUME CausalInv, NEW p \in Placement, NEW Q \in SUBSET Placement, Commit(p)
    PROVE  \A m \in Copies(p, Q, Live(made + 1)) : GoodMessage(m)'
<1>1. made + 1 \in 1 .. made'
    BY TypedLogs DEF Commit
<1> QED BY <1>1, CopiesGood, BodyTypes

\* Authoring is sound.
LEMMA AuthorSound == ASSUME CausalInv, NEW p \in Placement, Author(p) PROVE Sound
<1>1. /\ Commit(p)
      /\ UNCHANGED <<room, near, slot, attempts, permit, synced>>
      /\ Broadcast(p) \/ (Fault /\ UNCHANGED wire) \/ HintInstead(p)
    BY DEF Author, BrowserAuthor, DesktopAuthor, PluginAuthor
<1>2. near[p] \in SUBSET Placement
    BY Typed
<1>3. \A m \in wire' : m \in wire \/ GoodMessage(m)'
    BY <1>1, <1>2, LiveGood, HintGood DEF Broadcast, HintInstead
<1>4. used' \in 0 .. room.faults
    BY <1>1, Typed DEF Broadcast, HintInstead, Fault
<1>5. LogStep
    BY <1>1 DEF LogStep
<1> QED BY <1>1, <1>3, <1>4, <1>5, Typed DEF Sound

\* A new neighbour is.
LEMMA NeighborUpSound ==
    ASSUME CausalInv, NEW p \in Placement, NEW q \in Placement, NeighborUp(p, q) PROVE Sound
<1>1. PICK grant : /\ MeetNeighbor(p, q, grant)
                   /\ \/ grant = Copies(p, near[p] \cup {q}, Live(made + 1))
                      \/ grant = Calls(p, near[p] \cup {q}, Hint)
    BY DEF NeighborUp, BrowserNeighborUp, DesktopNeighborUp, PluginNeighborUp,
           BrowserGrant, DesktopGrant, PluginGrant
<1>2. /\ near' = [near EXCEPT ![p] = @ \cup {q}]
      /\ UNCHANGED <<made, causes, log, wire>> \/ (Commit(p) /\ wire' = wire \cup grant)
      /\ Schedule(p, {q})
      /\ UNCHANGED <<room, permit, synced, used>>
    BY <1>1 DEF MeetNeighbor
<1>3. near[p] \cup {q} \in SUBSET Placement /\ {q} \in SUBSET Placement
    BY Typed
<1>4. slot' \in SlotType /\ \A a \in attempts' : a \in attempts \/ Good(a)
    BY <1>2, <1>3, ScheduleGood
<1>5. \A m \in wire' : m \in wire \/ GoodMessage(m)'
    BY <1>1, <1>2, <1>3, LiveGood, HintGood
<1>6. LogStep
    BY <1>2 DEF LogStep
<1>7. near' \in [Placement -> SUBSET Placement]
    BY <1>2, Typed
<1> QED BY <1>2, <1>4, <1>5, <1>6, <1>7, Typed DEF Sound

\* The loss of a neighbour is.
LEMMA NeighborDownSound ==
    ASSUME CausalInv, NEW p \in Placement, NEW q \in Placement, NeighborDown(p, q) PROVE Sound
<1>1. LogStep
    BY DEF NeighborDown, LogStep
<1>2. near' \in [Placement -> SUBSET Placement] /\ synced' \in [Placement -> SUBSET Placement]
    BY Typed DEF NeighborDown
<1>3. used' \in 0 .. room.faults
    BY Typed DEF NeighborDown, Fault
<1> QED BY <1>1, <1>2, <1>3, Typed DEF NeighborDown, Sound

\* A direct path to a neighbour is.
LEMMA DirectReadySound ==
    ASSUME CausalInv, NEW p \in Placement, NEW q \in Placement, DirectReady(p, q) PROVE Sound
<1>1. slot' \in SlotType /\ \A a \in attempts' : a \in attempts \/ Good(a)
    BY ScheduleGood DEF DirectReady
<1>2. LogStep
    BY DEF DirectReady, LogStep
<1>3. near' \in [Placement -> SUBSET Placement]
    BY Typed DEF DirectReady
<1>4. used' \in 0 .. room.faults
    BY Typed DEF DirectReady, Fault
<1> QED BY <1>1, <1>2, <1>3, <1>4, Typed DEF DirectReady, Sound

\* A gossip stream that lagged is.
LEMMA LaggedSound == ASSUME CausalInv, NEW p \in Placement, Lagged(p) PROVE Sound
<1>1. near[p] \in SUBSET Placement
    BY Typed
<1>2. slot' \in SlotType /\ \A a \in attempts' : a \in attempts \/ Good(a)
    BY <1>1, ScheduleGood DEF Lagged
<1>3. LogStep
    BY DEF Lagged, LogStep
<1>4. used' \in 0 .. room.faults
    BY Typed DEF Lagged, Fault
<1> QED BY <1>2, <1>3, <1>4, Typed DEF Lagged, Sound

\* The sweep is.
LEMMA SweepSound == ASSUME CausalInv, NEW p \in Placement, Sweep(p) PROVE Sound
<1>1. near[p] \in SUBSET Placement
    BY Typed
<1>2. slot' \in SlotType /\ \A a \in attempts' : a \in attempts \/ Good(a)
    BY <1>1, ScheduleGood DEF Sweep
<1>3. LogStep
    BY DEF Sweep, LogStep
<1> QED BY <1>2, <1>3, Typed DEF Sweep, Sound

\* A probe is.
LEMMA SendProbeSound == ASSUME CausalInv, NEW p \in Placement, SendProbe(p) PROVE Sound
<1>1. near[p] \in SUBSET Placement
    BY Typed
<1>2. \A m \in wire' : m \in wire \/ GoodMessage(m)'
    BY <1>1, CallsGood, BodyTypes DEF SendProbe
<1>3. LogStep
    BY DEF SendProbe, LogStep
<1> QED BY <1>2, <1>3, Typed DEF SendProbe, Sound

\* An admitted record is learnt together with the causes the log holds already.
LEMMA AppliedLearns ==
    ASSUME CausalInv, NEW m \in wire, m.body.type = "live", Applied(m), UNCHANGED <<causes, made>>
    PROVE  LogStep
<1>1. m.to \in Placement /\ m.body.entry \in 1 .. made
    BY DEF CausalInv, GoodMessage
<1>2. CASE Applies(m.to, m.body.entry)
    <2> DEFINE new == {m.body.entry}
    <2>1. new \in SUBSET (1 .. made) /\ \A e \in new : causes[e] \subseteq log[m.to] \cup new
        BY <1>1, <1>2 DEF Applies
    <2>2. log' = [log EXCEPT ![m.to] = @ \cup new]
        BY <1>2 DEF Applied
    <2> HIDE DEF new
    <2>3. Learns(m.to)
        BY <2>1, <2>2 DEF Learns
    <2> QED BY <1>1, <2>3 DEF LogStep
<1>3. CASE ~Applies(m.to, m.body.entry)
    <2>1. log' = log
        BY <1>1, <1>3, TypedLogs DEF Applied
    <2> QED BY <2>1 DEF LogStep
<1> QED BY <1>2, <1>3

\* A live entry is: it is admitted with its causes or not at all.
LEMMA ReceiveLiveSound == ASSUME CausalInv, NEW m \in wire, ReceiveLive(m) PROVE Sound
<1>1. /\ m.from \in Placement /\ m.to \in Placement
    BY DEF CausalInv, GoodMessage
<1>2. {m.from} \in SUBSET Placement /\ near[m.to] \in SUBSET Placement
    BY <1>1, Typed
<1>3. Applied(m)
    BY DEF ReceiveLive, BrowserLive, DesktopLive, PluginLive
<1>4. LogStep
    BY <1>3, AppliedLearns DEF ReceiveLive
<1>5. \/ RequestRepair(m)
      \/ wire' = wire \ {m} /\ UNCHANGED <<slot, attempts>>
    BY DEF ReceiveLive, BrowserLive, DesktopLive, PluginLive
<1>6. /\ slot' \in SlotType
      /\ \A a \in attempts' : a \in attempts \/ Good(a)
      /\ \A n \in wire' : n \in wire \/ GoodMessage(n)'
    <2>1. CASE RequestRepair(m)
        BY <1>1, <1>2, <2>1, ScheduleGood, HintGood, Typed DEF RequestRepair
    <2>2. CASE wire' = wire \ {m} /\ UNCHANGED <<slot, attempts>>
        BY <2>2, Typed
    <2> QED BY <1>5, <2>1, <2>2
<1> QED BY <1>4, <1>6, Typed DEF ReceiveLive, Sound

\* A hint or a probe schedules, or does nothing.
LEMMA CallSound ==
    ASSUME CausalInv, NEW m \in wire, ReceiveHint(m) \/ ReceiveProbe(m) PROVE Sound
<1>1. /\ m.from \in Placement /\ m.to \in Placement
    BY DEF CausalInv, GoodMessage
<1>2. PICK Q \in SUBSET Placement : Schedule(m.to, Q)
    BY <1>1 DEF ReceiveHint, ReceiveProbe
<1>3. slot' \in SlotType /\ \A a \in attempts' : a \in attempts \/ Good(a)
    BY <1>1, <1>2, ScheduleGood
<1>4. /\ wire' = wire \ {m}
      /\ UNCHANGED <<room, log, causes, made, near, permit, synced, used>>
    BY DEF ReceiveHint, ReceiveProbe
<1> QED BY <1>3, <1>4, Typed DEF Sound, LogStep

\* The loss of a message is.
LEMMA LoseSound == ASSUME CausalInv, NEW m \in wire, Lose(m) PROVE Sound
<1>1. used' \in 0 .. room.faults
    BY Typed DEF Lose, Fault
<1> QED BY <1>1, Typed DEF Lose, Sound, LogStep

\* One side of a pair initiates.
LEMMA OneInitiator ==
    ASSUME NEW p \in Placement, NEW q \in Placement, Initiates(p, q)
    PROVE  p # q /\ ~Initiates(q, p)
BY RepairAssumption DEF Placement, Initiates

\* What is left of a good attempt, and what replaces it, is good.
LEMMA AttemptOfLog ==
    ASSUME CausalInv, NEW a \in attempts
    PROVE  /\ Good(a) /\ a \in AttemptType
           /\ a.from \in Placement /\ a.to \in Placement /\ Initiates(a.from, a.to)
BY DEF CausalInv, Good, AttemptType

\* What remains of an attempt is nothing or itself.
LEMMA LeftoverIsIt == \A a : Leftover(a) \in {{}, {a}}
BY DEF Leftover

\* The attempt that follows another one is good.
LEMMA NextGood ==
    ASSUME CausalInv, NEW a \in attempts, NEW result
    PROVE  \A b \in NextAttempt(a, result) : Good(b)
<1>1. a.retry \in 0 .. MaxRetries /\ a.from \in Placement /\ a.to \in Placement
      /\ Initiates(a.from, a.to)
    BY AttemptOfLog DEF AttemptType
<1>2. \A b \in NextAttempt(a, result) :
          \E n \in 0 .. MaxRetries : b = Attempt(a.from, a.to, 1, n)
    BY DEF NextAttempt
<1> QED BY <1>1, <1>2, FreshGood, TaskNumbers

\* A permit given back leaves permits typed.
LEMMA ReleaseTyped ==
    ASSUME CausalInv, NEW p \in Placement, NEW held, Release(p, held)
    PROVE  permit' \in [Placement -> BOOLEAN]
BY Typed DEF Release

\* The result of a repair leaves what is synced typed.
LEMMA PresentTyped ==
    ASSUME CausalInv, NEW p \in Placement, NEW q \in Placement, NEW result, Present(p, q, result)
    PROVE  synced' \in [Placement -> SUBSET Placement]
BY Typed DEF Present, BrowserPresents, DesktopPresents

\* The end of the initiator's side: it has applied the cut unless it failed.
LEMMA InitiatorEndsSound ==
    ASSUME CausalInv, NEW a \in attempts, NEW result, InitiatorEnds(a, result),
           result # "failed" => a.ini \in Result,
           used' \in 0 .. room.faults, UNCHANGED <<room, log, causes, made, near, wire>>
    PROVE  Sound
<1> DEFINE ended == [a EXCEPT !.ini = IF result = "failed" THEN "failed" ELSE "done"]
<1>1. /\ Release(a.from, a.ini \in {"sent", "applied"})
      /\ attempts' = (attempts \ {a}) \cup Leftover(ended) \cup NextAttempt(a, result)
      /\ Present(a.from, a.to, result)
    BY DEF InitiatorEnds
<1>2. slot' = [slot EXCEPT ![a.from][a.to] =
                 IF ~Serial(a.from) THEN @
                 ELSE IF NextAttempt(a, result) = {} THEN "free"
                 ELSE IF result = "complete" THEN "held" ELSE @]
    BY DEF InitiatorEnds
<1>3. Good(ended)
    BY AttemptOfLog DEF Good, AttemptType, Ini, Keeps, Got, Result
<1>4. \A b \in attempts' : b \in attempts \/ Good(b)
    <2> HIDE DEF ended
    <2> QED BY <1>1, <1>3, NextGood, LeftoverIsIt
<1>5. slot' \in SlotType
    BY <1>2, AttemptOfLog, Typed DEF SlotType
<1>6. permit' \in [Placement -> BOOLEAN] /\ synced' \in [Placement -> SUBSET Placement]
    BY <1>1, AttemptOfLog, ReleaseTyped, PresentTyped
<1> QED BY <1>4, <1>5, <1>6, Typed DEF Sound, LogStep

\* The end of a responder is sound.
LEMMA ResponderEndsSound ==
    ASSUME CausalInv, NEW a \in attempts, NEW result, ResponderEnds(a, result),
           result # "failed" => a.res \in Result,
           UNCHANGED <<room, log, causes, made, near, wire, used>>
    PROVE  Sound
<1> DEFINE ended == [a EXCEPT !.res = IF result = "failed" THEN "failed" ELSE "done"]
<1>1. /\ Release(a.to, a.res \in {"sent", "applied"} \/ Kind[a.to] = "plugin")
      /\ attempts' = (attempts \ {a}) \cup Leftover(ended)
      /\ slot' = [slot EXCEPT ![a.to][a.from] = IF Serial(a.to) THEN "free" ELSE @]
      /\ Present(a.to, a.from, result)
    BY DEF ResponderEnds
<1>2. a.res # "none" => ended.res # "none"
    BY AttemptOfLog DEF AttemptType
<1>3. Good(ended)
    BY AttemptOfLog DEF Good, AttemptType, Res, Keeps, Got, Result
<1>4. \A b \in attempts' : b \in attempts \/ Good(b)
    <2> HIDE DEF ended
    <2> QED BY <1>1, <1>3, LeftoverIsIt
<1>5. slot' \in SlotType
    BY <1>1, AttemptOfLog, Typed DEF SlotType
<1>6. permit' \in [Placement -> BOOLEAN] /\ synced' \in [Placement -> SUBSET Placement]
    BY <1>1, AttemptOfLog, ReleaseTyped, PresentTyped
<1> QED BY <1>4, <1>5, <1>6, Typed DEF Sound, LogStep

\* So is the start of an initiator.
LEMMA StartInitiatorSound ==
    ASSUME CausalInv, NEW a \in attempts, StartInitiator(a) PROVE Sound
<1>1. UNCHANGED <<room, log, causes, made, near, wire>> /\ a.ini = "dial"
    BY DEF StartInitiator
<1>2. CASE Fault /\ InitiatorEnds(a, "failed")
    BY <1>1, <1>2, InitiatorEndsSound, Typed DEF Fault
<1>3. CASE /\ permit' = [permit EXCEPT ![a.from] = Serial(a.from)]
           /\ Replace(a, [a EXCEPT !.ini = "sent", !.res = "queued", !.icut = log[a.from]])
           /\ UNCHANGED <<slot, synced, used>>
    <2> DEFINE b == [a EXCEPT !.ini = "sent", !.res = "queued", !.icut = log[a.from]]
    <2>1. log[a.from] \in SUBSET Entry /\ Closed(log[a.from])
        BY AttemptOfLog DEF CausalInv, TypeOK
    <2>2. Good(b)
        BY <1>1, <2>1, AttemptOfLog DEF Good, AttemptType, Ini, Res, Keeps, Got
    <2>3. \A c \in attempts' : c \in attempts \/ Good(c)
        BY <1>3, <2>2 DEF Replace
    <2>4. permit' \in [Placement -> BOOLEAN]
        BY <1>3, Typed DEF Serial
    <2> QED BY <1>1, <1>3, <2>3, <2>4, Typed DEF Sound, LogStep
<1> QED BY <1>2, <1>3 DEF StartInitiator

\* So is the acceptance of a repair.
LEMMA AcceptRepairSound ==
    ASSUME CausalInv, NEW a \in attempts, AcceptRepair(a) PROVE Sound
<1> DEFINE b == [a EXCEPT !.res = "permit"]
           c == [a EXCEPT !.res = "failed"]
<1>1. Good(b) /\ Good(c)
    BY AttemptOfLog DEF Good, AttemptType, Res, Keeps, Got
<1>2. attempts' = (attempts \ {a}) \cup {b} \/ attempts' = (attempts \ {a}) \cup Leftover(c)
    BY DEF AcceptRepair, BrowserAccept, DesktopAccept, PluginAccept, TakeOrRefuse, Replace
<1>3. \A d \in attempts' : d \in attempts \/ Good(d)
    <2> HIDE DEF b, c
    <2> QED BY <1>1, <1>2, LeftoverIsIt
<1>4. slot' \in SlotType
    <2>1. slot' = slot \/ slot' = [slot EXCEPT ![a.to][a.from] = "resp"]
        BY DEF AcceptRepair, BrowserAccept, DesktopAccept, PluginAccept, TakeOrRefuse
    <2>2. a.to \in Placement /\ a.from \in Placement
        BY AttemptOfLog
    <2>3. slot \in SlotType
        BY Typed
    <2> HIDE DEF b, c
    <2>4. CASE slot' = [slot EXCEPT ![a.to][a.from] = "resp"]
        BY <2>2, <2>3, <2>4 DEF SlotType
    <2> QED BY <2>1, <2>3, <2>4
<1> QED BY <1>3, <1>4, Typed DEF AcceptRepair, Sound, LogStep

\* So is the start of a responder.
LEMMA StartResponderSound ==
    ASSUME CausalInv, NEW a \in attempts, StartResponder(a) PROVE Sound
<1> DEFINE b == [a EXCEPT !.res = "sent", !.rcut = log[a.to]]
<1>1. log[a.to] \in SUBSET Entry /\ Closed(log[a.to])
    BY AttemptOfLog DEF CausalInv, TypeOK
<1>2. a.ini = "sent"
    BY DEF StartResponder
<1>3. Good(b)
    BY <1>1, <1>2, AttemptOfLog DEF Good, AttemptType, Res, Keeps, Got
<1>4. \A c \in attempts' : c \in attempts \/ Good(c)
    BY <1>3 DEF StartResponder, Replace
<1>5. permit' \in [Placement -> BOOLEAN]
    BY Typed DEF StartResponder, Serial
<1> QED BY <1>4, <1>5, Typed DEF StartResponder, Sound, LogStep

\* So is a connection that breaks.
LEMMA BreakSound == ASSUME CausalInv, NEW a \in attempts, Break(a) PROVE Sound
<1> DEFINE b == [a EXCEPT !.broken = TRUE]
<1>1. Good(b)
    BY AttemptOfLog DEF Good, AttemptType, Keeps
<1>2. \A c \in attempts' : c \in attempts \/ Good(c)
    BY <1>1 DEF Break, Replace
<1>3. used' \in 0 .. room.faults
    BY Typed DEF Break, Fault
<1> QED BY <1>2, <1>3, Typed DEF Break, Sound, LogStep

\* A side that applies the other's cut learns entries with all their causes, as
\* the cut is closed.
LEMMA CutLearnt ==
    ASSUME CausalInv, NEW p \in Placement, NEW cut, Closed(cut),
           log' = [log EXCEPT ![p] = @ \cup cut], UNCHANGED <<causes, made>>
    PROVE  LogStep
<1>1. Learns(p)
    BY DEF Learns, Closed
<1> QED BY <1>1 DEF LogStep

\* The initiator admits a batch that is closed under causes.
LEMMA InitiatorAppliesSound ==
    ASSUME CausalInv, NEW a \in attempts, InitiatorApplies(a) PROVE Sound
<1> DEFINE b == [a EXCEPT !.ini = "applied"]
<1>1. LogStep
    BY AttemptOfLog, CutLearnt DEF InitiatorApplies, Good
<1>2. Grows
    BY <1>1, LogStepGrows DEF InitiatorApplies
<1>3. Good(a)'
    BY <1>2, GrowsKeeps, AttemptOfLog
<1>4. a.rcut \subseteq log'[a.from]
    BY AttemptOfLog, Typed, TypedLogs DEF InitiatorApplies
<1>5. Good(b)'
    BY <1>3, <1>4 DEF Good, AttemptType, Ini, Keeps, Got, InitiatorApplies
<1>6. \A c \in attempts' : c \in attempts \/ Good(c)'
    BY <1>5 DEF InitiatorApplies, Replace
<1> QED BY <1>1, <1>6, Typed DEF InitiatorApplies, Sound

\* So does the responder.
LEMMA ResponderAppliesSound ==
    ASSUME CausalInv, NEW a \in attempts, ResponderApplies(a) PROVE Sound
<1> DEFINE b == [a EXCEPT !.res = "applied"]
<1>1. LogStep
    BY AttemptOfLog, CutLearnt DEF ResponderApplies, Good
<1>2. Grows
    BY <1>1, LogStepGrows DEF ResponderApplies
<1>3. Good(a)'
    BY <1>2, GrowsKeeps, AttemptOfLog
<1>4. a.icut \subseteq log'[a.to]
    BY AttemptOfLog, Typed, TypedLogs DEF ResponderApplies
<1>5. Good(b)'
    BY <1>3, <1>4 DEF Good, AttemptType, Res, Keeps, Got, ResponderApplies
<1>6. \A c \in attempts' : c \in attempts \/ Good(c)'
    BY <1>5 DEF ResponderApplies, Replace
<1> QED BY <1>1, <1>6, Typed DEF ResponderApplies, Sound

\* A side that confirms what both cuts hold has seen what the other side holds.
LEMMA InitiatorConfirmsSound ==
    ASSUME CausalInv, NEW a \in attempts, InitiatorConfirms(a) PROVE Sound
<1> DEFINE result == Confirm(a.from, a)
           b == [a EXCEPT !.ini = result, !.iseen = log[a.from]]
<1>1. Good(a) /\ a \in AttemptType /\ a.from \in Placement
    BY AttemptOfLog
<1>2. a.ini \in Got /\ a.res \in Got
    BY DEF InitiatorConfirms, Got, Result
<1>3. result \in Result /\ (result = "complete" => log[a.from] = a.icut \cup a.rcut)
    BY DEF Confirm, Result
<1>4. log[a.from] \in SUBSET Entry
    BY <1>1 DEF CausalInv, TypeOK
<1>5. attempts' = (attempts \ {a}) \cup {b}
    BY DEF InitiatorConfirms, Replace
<1>6. permit' \in [Placement -> BOOLEAN]
    BY <1>1, ReleaseTyped DEF InitiatorConfirms
<1> HIDE DEF result
<1>7. Good(b)
    BY <1>1, <1>2, <1>3, <1>4 DEF Good, AttemptType, Ini, Keeps, Got, Result
<1>8. \A c \in attempts' : c \in attempts \/ Good(c)
    BY <1>5, <1>7
<1> QED BY <1>6, <1>8, Typed DEF InitiatorConfirms, Sound, LogStep

\* So has the responder.
LEMMA ResponderConfirmsSound ==
    ASSUME CausalInv, NEW a \in attempts, ResponderConfirms(a) PROVE Sound
<1> DEFINE result == Confirm(a.to, a)
           b == [a EXCEPT !.res = result, !.rseen = log[a.to]]
<1>1. Good(a) /\ a \in AttemptType /\ a.to \in Placement
    BY AttemptOfLog
<1>2. a.ini \in Got /\ a.res \in Got
    BY DEF ResponderConfirms, Got, Result
<1>3. result \in Result /\ (result = "complete" => log[a.to] = a.icut \cup a.rcut)
    BY DEF Confirm, Result
<1>4. log[a.to] \in SUBSET Entry
    BY <1>1 DEF CausalInv, TypeOK
<1>5. attempts' = (attempts \ {a}) \cup {b}
    BY DEF ResponderConfirms, Replace
<1>6. permit' \in [Placement -> BOOLEAN]
    BY <1>1, ReleaseTyped DEF ResponderConfirms
<1> HIDE DEF result
<1>7. Good(b)
    BY <1>1, <1>2, <1>3, <1>4 DEF Good, AttemptType, Res, Keeps, Got, Result
<1>8. \A c \in attempts' : c \in attempts \/ Good(c)
    BY <1>5, <1>7
<1> QED BY <1>6, <1>8, Typed DEF ResponderConfirms, Sound, LogStep

\* The end of either side, by report or by failure, is sound.
LEMMA ClosingSound ==
    ASSUME CausalInv, NEW a \in attempts,
           \/ InitiatorReports(a) \/ InitiatorFails(a)
           \/ ResponderReports(a) \/ ResponderFails(a)
    PROVE  Sound
<1>1. used \in 0 .. room.faults
    BY Typed
<1>2. CASE InitiatorReports(a) \/ InitiatorFails(a)
    BY <1>1, <1>2, InitiatorEndsSound DEF InitiatorReports, InitiatorFails
<1>3. CASE ResponderReports(a) \/ ResponderFails(a)
    BY <1>3, ResponderEndsSound DEF ResponderReports, ResponderFails
<1> QED BY <1>2, <1>3

\* What a restart of p may make of an attempt: a side of p ends, or finds its
\* connection broken.
Crashed(p, a) ==
    {b \in {Ended(a, p), Detached(a, p)} : b = Ended(a, p) \/ Kind[p] = "desktop"}

\* An attempt of which p ends a side.
EndsInitiator(p, a, b) ==
    /\ a.from = p /\ a.to # p
    /\ b = [a EXCEPT !.ini = Stopped(a.ini), !.lost = a.lost \cup ({p} \cap Volatile)]

EndsResponder(p, a, b) ==
    /\ a.from # p /\ a.to = p /\ a.res # "none"
    /\ b = [a EXCEPT !.res = Stopped(a.res), !.lost = a.lost \cup ({p} \cap Volatile)]

\* What a restart makes of an attempt.
LEMMA CrashedIs ==
    ASSUME CausalInv, NEW p, NEW a \in attempts, NEW b \in Crashed(p, a)
    PROVE  \/ b = a /\ (p \in Volatile => a.from # p /\ (a.to = p => a.res = "none"))
           \/ b = [a EXCEPT !.broken = TRUE] /\ p \notin Volatile
           \/ EndsInitiator(p, a, b)
           \/ EndsResponder(p, a, b)
<1>0. Kind[p] = "desktop" => p \notin Volatile
    BY DEF Volatile
<1>1. a.from # a.to
    BY AttemptOfLog, OneInitiator
<1>2. CASE b = Ended(a, p)
    <2>1. CASE a.from = p
        BY <1>1, <1>2, <2>1 DEF Ended, EndsInitiator
    <2>2. CASE a.from # p /\ a.to = p /\ a.res # "none"
        BY <1>2, <2>2 DEF Ended, EndsResponder
    <2>3. CASE a.from # p /\ ~(a.to = p /\ a.res # "none")
        BY <1>2, <2>3 DEF Ended
    <2> QED BY <2>1, <2>2, <2>3
<1>3. CASE b # Ended(a, p)
    BY <1>0, <1>3 DEF Crashed, Detached
<1> QED BY <1>2, <1>3

\* A stopped side is over, and done only if it had closed.
LEMMA StoppedIs ==
    \A s : /\ Stopped(s) \in {"done", "failed"}
           /\ Stopped(s) = "done" => s \in Got
BY DEF Stopped, Got, Result

\* A restart touches no log but p's, which is lost when it is only in memory.
LEMMA RestartLogs ==
    ASSUME CausalInv, NEW p \in Placement, Restart(p)
    PROVE  /\ \A q \in Placement : q # p \/ p \notin Volatile => log'[q] = log[q]
           /\ p \in Volatile => log'[p] = {}
           /\ log' \in [Placement -> SUBSET (1 .. made)]
           /\ UNCHANGED <<room, causes, made>>
<1>1. log' = [log EXCEPT ![p] = IF p \in Volatile THEN {} ELSE @]
    BY DEF Restart
<1>2. UNCHANGED <<room, causes, made>>
    BY DEF Restart
<1> QED BY <1>1, <1>2, TypedLogs

\* What is left of an attempt is true of the logs after the restart.
LEMMA CrashedGood ==
    ASSUME CausalInv, NEW p \in Placement, Restart(p), NEW a \in attempts, NEW b \in Crashed(p, a)
    PROVE  Good(b)'
<1>1. Good(a) /\ a \in AttemptType /\ a.from \in Placement /\ a.to \in Placement /\ a.from # a.to
    BY AttemptOfLog, OneInitiator
<1>2. /\ \A q \in Placement : q # p \/ p \notin Volatile => log'[q] = log[q]
      /\ p \in Volatile => log'[p] = {}
      /\ Entry' = Entry /\ UNCHANGED <<causes, made>>
    BY RestartLogs DEF Entry
<1>3. \A S : Closed(S) => Closed(S)'
    BY <1>2 DEF Closed
<1>4. AttemptType' = AttemptType
    BY <1>2 DEF AttemptType
<1>5. CASE b = a /\ (p \in Volatile => a.from # p /\ (a.to = p => a.res = "none"))
    BY <1>1, <1>2, <1>3, <1>4, <1>5 DEF Good, Keeps, Got
<1>6. CASE b = [a EXCEPT !.broken = TRUE] /\ p \notin Volatile
    <2>1. b \in AttemptType
        BY <1>1, <1>6 DEF AttemptType
    <2> QED BY <1>1, <1>2, <1>3, <1>4, <1>6, <2>1 DEF Good, Keeps, AttemptType
<1>7. CASE EndsInitiator(p, a, b)
    <2>1. /\ b \in AttemptType
          /\ b.from = a.from /\ b.to = a.to /\ b.icut = a.icut /\ b.rcut = a.rcut
          /\ b.res = a.res /\ b.rseen = a.rseen /\ b.ini = Stopped(a.ini)
          /\ b.lost = a.lost \cup ({p} \cap Volatile)
        BY <1>1, <1>7, StoppedIs DEF AttemptType, Ini, EndsInitiator
    <2>2. \A S : Keeps(a, a.from, S) => Keeps(b, a.from, S)'
        BY <1>1, <1>2, <2>1 DEF Keeps
    <2>3. \A S : Keeps(a, a.to, S) => Keeps(b, a.to, S)'
        BY <1>1, <1>2, <1>7, <2>1 DEF Keeps, EndsInitiator
    <2>4. b.ini # "complete" /\ (b.ini \in Got => a.ini \in Got)
          /\ (a.ini \in {"dial", "failed"} => b.ini = "failed")
        BY <2>1, StoppedIs DEF Stopped, Result, Got
    <2> QED BY <1>1, <1>3, <1>4, <2>1, <2>2, <2>3, <2>4 DEF Good
<1>8. CASE EndsResponder(p, a, b)
    <2>1. /\ b \in AttemptType
          /\ b.from = a.from /\ b.to = a.to /\ b.icut = a.icut /\ b.rcut = a.rcut
          /\ b.ini = a.ini /\ b.iseen = a.iseen /\ b.res = Stopped(a.res)
          /\ b.lost = a.lost \cup ({p} \cap Volatile)
        BY <1>1, <1>8, StoppedIs DEF AttemptType, Res, EndsResponder
    <2>2. \A S : Keeps(a, a.to, S) => Keeps(b, a.to, S)'
        BY <1>1, <1>2, <2>1 DEF Keeps
    <2>3. \A S : Keeps(a, a.from, S) => Keeps(b, a.from, S)'
        BY <1>1, <1>2, <1>8, <2>1 DEF Keeps, EndsResponder
    <2>4. b.res \notin {"none", "complete"} /\ (b.res \in Got => a.res \in Got)
        <3>1. b.res \in {"done", "failed"} /\ (b.res = "done" => a.res \in Got)
            BY <2>1, StoppedIs
        <3> QED BY <3>1 DEF Got, Result
    <2> QED BY <1>1, <1>3, <1>4, <2>1, <2>2, <2>3, <2>4 DEF Good
<1> QED BY <1>5, <1>6, <1>7, <1>8, CrashedIs

\* A restart keeps the causal invariant: a lost log takes no entry out from under
\* another one, and the attempts that counted on it know.
LEMMA RestartKeepsCausal ==
    ASSUME CausalInv, NEW p \in Placement, Restart(p) PROVE CausalInv'
<1>1. /\ log' \in [Placement -> SUBSET (1 .. made)]
      /\ \A q \in Placement : log'[q] = log[q] \/ log'[q] = {}
      /\ UNCHANGED <<room, causes, made>> /\ Entry' = Entry
    BY RestartLogs DEF Entry
<1>2. \A q \in Placement : Closed(log[q])'
    BY <1>1, TypedLogs DEF Closed, CausalInv
<1>3. \A b \in attempts' : Good(b)'
    <2>1. ASSUME NEW b \in attempts' PROVE \E a \in attempts : b \in Crashed(p, a)
        BY <2>1, LeftoverIsIt DEF Restart, Crashed
    <2> QED BY <2>1, CrashedGood
<1>4. \A m \in wire' : GoodMessage(m)'
    BY <1>1 DEF Restart, CausalInv, GoodMessage
<1>5. /\ near' \in [Placement -> SUBSET Placement] /\ synced' \in [Placement -> SUBSET Placement]
      /\ permit' \in [Placement -> BOOLEAN] /\ slot' \in SlotType /\ used' \in 0 .. room.faults
    BY Typed DEF Restart, Fault, SlotType
<1>6. log' \in [Placement -> SUBSET Entry] /\ causes' \in [Entry -> SUBSET Entry]
      /\ made' \in 0 .. room.entries
    BY <1>1, TypedLogs DEF Entry
<1>7. \A a \in attempts' :
          /\ a.from \in Placement /\ a.to \in Placement /\ a.retry \in 0 .. MaxRetries
          /\ a.ini \in {"dial", "sent", "applied", "done", "failed"} \cup Result
          /\ a.res \in {"none", "queued", "permit", "sent", "applied", "done", "failed"} \cup Result
    BY <1>3 DEF Good, AttemptType, Ini, Res, Result
<1>8. TypeOK'
    BY <1>1, <1>5, <1>6, <1>7 DEF TypeOK, SlotType, CausalInv
<1> QED BY <1>2, <1>3, <1>4, <1>8 DEF CausalInv

\* Every step is sound, but for a restart.
LEMMA NextSound ==
    ASSUME CausalInv, Next PROVE Sound \/ \E p \in Placement : Restart(p)
<1>1. ASSUME NEW p \in Placement,
             Author(p) \/ Lagged(p) \/ SendProbe(p) \/ Sweep(p)
      PROVE  Sound
    BY <1>1, AuthorSound, LaggedSound, SendProbeSound, SweepSound
<1>2. ASSUME NEW p \in Placement, NEW q \in Placement,
             NeighborUp(p, q) \/ NeighborDown(p, q) \/ DirectReady(p, q)
      PROVE  Sound
    BY <1>2, NeighborUpSound, NeighborDownSound, DirectReadySound
<1>3. ASSUME NEW m \in wire, Receive(m) \/ Lose(m) PROVE Sound
    BY <1>3, ReceiveLiveSound, CallSound, LoseSound DEF Receive
<1>4. ASSUME NEW a \in attempts,
             InitiatorWorks(a) \/ AcceptRepair(a) \/ ResponderWorks(a) \/ Break(a)
      PROVE  Sound
    BY <1>4, StartInitiatorSound, InitiatorAppliesSound, InitiatorConfirmsSound,
       AcceptRepairSound, StartResponderSound, ResponderAppliesSound, ResponderConfirmsSound,
       ClosingSound, BreakSound DEF InitiatorWorks, ResponderWorks
<1> QED BY <1>1, <1>2, <1>3, <1>4 DEF Next

\* So is a step that changes nothing.
LEMMA StutterSound == ASSUME CausalInv, UNCHANGED vars PROVE Sound
BY Typed DEF vars, Sound, LogStep

\* The placements start in the causal invariant.
LEMMA InitCausal == ASSUME Init PROVE CausalInv
<1>1. room.entries \in Nat /\ room.faults \in Nat
    BY RepairAssumption DEF Init
<1>2. TypeOK
    BY <1>1 DEF Init, TypeOK, Entry
<1> QED BY <1>1, <1>2 DEF Init, CausalInv, Closed

\* Every step keeps the causal invariant.
LEMMA NextCausal == ASSUME CausalInv, [Next]_vars PROVE CausalInv'
BY NextSound, RestartKeepsCausal, StutterSound, SoundKeeps

\* Gossip, repair (drive_replica_initiator and _responder) and rooms that are
\* reopened, the plugin's over an empty memory, leave every log causally closed;
\* and what a session handed over, or saw when its close was confirmed, is held
\* where it should be by every side that did not lose its log since.
THEOREM CausalInvariant == Spec => []CausalInv
<1>1. Init => CausalInv
    BY InitCausal
<1>2. CausalInv /\ [Next]_vars => CausalInv'
    BY NextCausal
<1> QED BY <1>1, <1>2, PTL DEF Spec

\* Every variable keeps its type: a retry stays within the backoff table
\* (DIVERGENT_BACKOFF_MS), whatever the network does.
THEOREM TypeCorrect == Spec => []TypeOK
<1>1. CausalInv => TypeOK
    BY DEF CausalInv
<1> QED BY <1>1, CausalInvariant, PTL

-----------------------------------------------------------------------------
(* Lane repair implements CausalLog.                                       *)

\* Initial states map to initial states, and each step makes an entry, lets one
\* placement learn entries with all their causes, empties the log of a placement
\* that keeps it in memory (RoomReplicas::memory), or leaves the logs alone:
\* gossip that is applied only with its causes (worker.inbound_record), sessions
\* that hand over closed cuts, and plugins that reopen a room are all that changes
\* a log.
THEOREM CausalLogImplemented == Spec => ImplementsCausalLog
<1>1. Init => Abstract!Init
    BY DEF Init, Abstract!Init, Volatile
<1>2. ASSUME CausalInv, [Next]_vars PROVE [Abstract!Next]_(Abstract!vars)
    <2>1. CASE \E p \in Placement : Restart(p)
        <3>1. PICK p \in Placement : Restart(p)
            BY <2>1
        <3>2. /\ log' = [log EXCEPT ![p] = IF p \in Volatile THEN {} ELSE @]
              /\ UNCHANGED <<room, causes, made>>
            BY <3>1 DEF Restart
        <3>3. Volatile' = Volatile
            BY <3>2 DEF Volatile, Kind
        <3>4. CASE p \in Volatile
            <4>1. Abstract!Forget(p)
                BY <3>2, <3>3, <3>4 DEF Abstract!Forget
            <4> QED BY <4>1 DEF Abstract!Next
        <3>5. CASE p \notin Volatile
            <4>0. log \in [Placement -> SUBSET (1 .. made)]
                BY <1>2, TypedLogs
            <4>1. log' = log
                BY <3>2, <3>5, <4>0
            <4> QED BY <3>2, <3>3, <4>1 DEF Abstract!vars
        <3> QED BY <3>4, <3>5
    <2>2. CASE Sound
        <3>1. LogStep /\ Volatile' = Volatile
            BY <2>2 DEF Sound, Volatile, Kind
        <3>2. CASE UNCHANGED <<log, causes, made>>
            BY <3>1, <3>2 DEF Abstract!vars
        <3>3. ASSUME NEW p \in Placement, Commit(p) PROVE Abstract!Make(p)
            BY <3>1, <3>3 DEF Commit, Abstract!Make
        <3>4. ASSUME NEW p \in Placement, Learns(p) PROVE Abstract!Learn(p)
            BY <3>1, <3>4 DEF Learns, Abstract!Learn
        <3> QED BY <3>1, <3>2, <3>3, <3>4 DEF LogStep, Abstract!Next
    <2> QED BY <1>2, <2>1, <2>2, NextSound, StutterSound
<1> QED BY <1>1, <1>2, CausalInvariant, PTL DEF Spec, ImplementsCausalLog, Abstract!Spec

-----------------------------------------------------------------------------
(* A peer shown as synchronized holds what the confirmation saw.           *)

NewlySynced(p, q) == q \in synced'[p] \ synced[p]

\* An attempt whose end lets p show q.
Vouches(a, p, q) ==
    \/ /\ a.from = p /\ a.to = q /\ a.ini = "complete"
       /\ q \in a.lost \/ a.iseen \subseteq log'[q]
    \/ /\ a.from = q /\ a.to = p /\ a.res = "complete"
       /\ q \in a.lost \/ a.rseen \subseteq log'[q]

Held ==
    \A p, q \in Placement : NewlySynced(p, q) => \E a \in attempts \ attempts' : Vouches(a, p, q)

\* Only a completed repair with q makes p present q.
LEMMA PresentShows ==
    ASSUME CausalInv, NEW p \in Placement, NEW q \in Placement, NEW result,
           Present(p, q, result), NEW r \in Placement, NEW s \in Placement, NewlySynced(r, s)
    PROVE  r = p /\ s = q /\ result = "complete"
BY Typed DEF Present, BrowserPresents, DesktopPresents, NewlySynced

\* The initiator that reports a complete repair has confirmed a log that the
\* responder holds, and its attempt goes.
LEMMA InitiatorReportsHeld ==
    ASSUME CausalInv, NEW a \in attempts, InitiatorReports(a) PROVE Held
<1> SUFFICES ASSUME NEW p \in Placement, NEW q \in Placement, NewlySynced(p, q)
             PROVE  \E b \in attempts \ attempts' : Vouches(b, p, q)
    BY DEF Held
<1>1. Good(a) /\ a \in AttemptType /\ a.from \in Placement /\ a.to \in Placement
    BY AttemptOfLog
<1>2. Present(a.from, a.to, a.ini) /\ log' = log
    BY DEF InitiatorReports, InitiatorEnds
<1>3. p = a.from /\ q = a.to /\ a.ini = "complete"
    BY <1>1, <1>2, PresentShows
<1>4. Vouches(a, p, q)
    BY <1>1, <1>2, <1>3 DEF Good, Keeps, Vouches
<1> DEFINE b == [a EXCEPT !.ini = IF a.ini = "failed" THEN "failed" ELSE "done"]
<1>5. attempts' = (attempts \ {a}) \cup Leftover(b) \cup NextAttempt(a, a.ini)
    BY DEF InitiatorReports, InitiatorEnds
<1>6. b # a
    BY <1>1, <1>3 DEF AttemptType
<1>7. a \notin NextAttempt(a, a.ini)
    BY <1>3 DEF NextAttempt, Attempt
<1> HIDE DEF b
<1>8. a \notin attempts'
    BY <1>5, <1>6, <1>7, LeftoverIsIt
<1> QED BY <1>4, <1>8

\* A responder that reports a complete repair saw nothing the initiator lacks.
LEMMA ResponderReportsHeld ==
    ASSUME CausalInv, NEW a \in attempts, ResponderReports(a) PROVE Held
<1> SUFFICES ASSUME NEW p \in Placement, NEW q \in Placement, NewlySynced(p, q)
             PROVE  \E b \in attempts \ attempts' : Vouches(b, p, q)
    BY DEF Held
<1>1. Good(a) /\ a \in AttemptType /\ a.from \in Placement /\ a.to \in Placement
    BY AttemptOfLog
<1>2. Present(a.to, a.from, a.res) /\ log' = log
    BY DEF ResponderReports, ResponderEnds
<1>3. p = a.to /\ q = a.from /\ a.res = "complete"
    BY <1>1, <1>2, PresentShows
<1>4. Vouches(a, p, q)
    BY <1>1, <1>2, <1>3 DEF Good, Keeps, Vouches
<1> DEFINE b == [a EXCEPT !.res = IF a.res = "failed" THEN "failed" ELSE "done"]
<1>5. attempts' = (attempts \ {a}) \cup Leftover(b)
    BY DEF ResponderReports, ResponderEnds
<1>6. b # a
    BY <1>1, <1>3 DEF AttemptType
<1> HIDE DEF b
<1>7. a \notin attempts'
    BY <1>5, <1>6, LeftoverIsIt
<1> QED BY <1>4, <1>7

\* A failure shows nobody.
LEMMA FailureHeld ==
    ASSUME CausalInv, NEW a \in attempts,
           InitiatorEnds(a, "failed") \/ ResponderEnds(a, "failed")
    PROVE  Held
<1>1. a.from \in Placement /\ a.to \in Placement
    BY AttemptOfLog
<1>2. Present(a.from, a.to, "failed") \/ Present(a.to, a.from, "failed")
    BY DEF InitiatorEnds, ResponderEnds
<1> QED BY <1>1, <1>2, PresentShows DEF Held

\* A step that presents no repair as done has nothing to show.
LEMMA QuietHeld == UNCHANGED synced => Held
BY DEF Held, NewlySynced

\* Every step that shows a peer ends an attempt that vouches for it.
LEMMA NextHeld == ASSUME CausalInv, Next PROVE Held
<1>1. ASSUME NEW p \in Placement,
             Author(p) \/ Lagged(p) \/ Restart(p) \/ SendProbe(p) \/ Sweep(p)
      PROVE  Held
    <2>1. CASE Restart(p)
        BY <2>1, Typed DEF Restart, Held, NewlySynced
    <2>2. CASE Author(p) \/ Lagged(p) \/ SendProbe(p) \/ Sweep(p)
        BY <2>2, QuietHeld
        DEF Author, BrowserAuthor, DesktopAuthor, PluginAuthor, Lagged, SendProbe, Sweep
    <2> QED BY <1>1, <2>1, <2>2
<1>2. ASSUME NEW p \in Placement, NEW q \in Placement,
             NeighborUp(p, q) \/ NeighborDown(p, q) \/ DirectReady(p, q)
      PROVE  Held
    <2>1. CASE NeighborDown(p, q)
        BY <2>1, Typed DEF NeighborDown, Held, NewlySynced
    <2>2. CASE NeighborUp(p, q) \/ DirectReady(p, q)
        BY <2>2, QuietHeld
        DEF NeighborUp, BrowserNeighborUp, DesktopNeighborUp, PluginNeighborUp, MeetNeighbor,
            DirectReady
    <2> QED BY <1>2, <2>1, <2>2
<1>3. ASSUME NEW m \in wire, Receive(m) \/ Lose(m) PROVE Held
    BY <1>3, QuietHeld DEF Receive, ReceiveLive, ReceiveHint, ReceiveProbe, Lose
<1>4. ASSUME NEW a \in attempts,
             InitiatorWorks(a) \/ AcceptRepair(a) \/ ResponderWorks(a) \/ Break(a)
      PROVE  Held
    <2>1. CASE \/ StartInitiator(a) \/ InitiatorApplies(a) \/ InitiatorFails(a)
               \/ StartResponder(a) \/ ResponderApplies(a) \/ ResponderFails(a)
               \/ AcceptRepair(a) \/ Break(a) \/ InitiatorConfirms(a) \/ ResponderConfirms(a)
        BY <2>1, QuietHeld, FailureHeld
        DEF StartInitiator, InitiatorApplies, InitiatorFails, StartResponder,
            ResponderApplies, ResponderFails, AcceptRepair, Break,
            InitiatorConfirms, ResponderConfirms
    <2> QED BY <1>4, <2>1, InitiatorReportsHeld, ResponderReportsHeld
            DEF InitiatorWorks, ResponderWorks
<1> QED BY <1>1, <1>2, <1>3, <1>4 DEF Next

\* confirm_close_with_host vouches for the log the session saw, and awaits lie
\* between it and report_repair (mark_peer_lane_synchronized): when a peer starts
\* to be shown as synchronized, it holds everything the local log held at the
\* confirmation, whatever was committed, lost or restarted in between, unless the
\* peer itself lost its log since the session.
THEOREM SynchronizedPeersHoldTheLog == Spec => SynchronizedMeansHeld
<1> DEFINE Shown == \A p, q \in Placement : q \in synced'[p] \ synced[p] =>
                      \E a \in attempts \ attempts' :
                          \/ /\ a.from = p /\ a.to = q /\ a.ini = "complete"
                             /\ q \in a.lost \/ a.iseen \subseteq log'[q]
                          \/ /\ a.from = q /\ a.to = p /\ a.res = "complete"
                             /\ q \in a.lost \/ a.rseen \subseteq log'[q]
<1>1. CausalInv /\ [Next]_vars => [Shown]_vars
    BY NextHeld DEF Held, NewlySynced, Vouches
<1> QED BY <1>1, CausalInvariant, PTL DEF Spec, SynchronizedMeansHeld

-----------------------------------------------------------------------------
(* Nobody holds a slot without a task.                                     *)

Over == {"done", "failed"}

Working == {"permit", "sent", "applied", "complete", "stale"}

\* The task of p that will release p's key for q: the initiator of an attempt,
\* or the responder once its stream was accepted.
Owns(p, q, a) ==
    \/ a.from = p /\ a.to = q /\ a.ini \notin Over
    \/ a.from = q /\ a.to = p /\ a.res \in Working

\* A key is taken exactly while one task will release it; which side the task is
\* on says what the slot may be.
KeyOK(p, q) ==
    /\ slot[p][q] = "free" <=> \A a \in attempts : ~Owns(p, q, a)
    /\ \A a, b \in attempts : Owns(p, q, a) /\ Owns(p, q, b) => a = b
    /\ slot[p][q] \in {"held", "again"} => Initiates(p, q)
    /\ slot[p][q] = "resp" => Initiates(q, p)

\* An attempt that has not dialled has no responder: SlotHasTask alone would let
\* its first frame turn a serving responder into a queued one.
TaskInv ==
    /\ \A a \in attempts : a.ini = "dial" => a.res = "none"
    /\ \A p, q \in Placement : Serial(p) => KeyOK(p, q)

\* Who owns a slot does not depend on the state.
LEMMA OwnsConstant == \A p, q, a : Owns(p, q, a)' <=> Owns(p, q, a)
BY DEF Owns

\* Attempts that own no key of p for q do not matter to it.
LEMMA KeyAdded ==
    ASSUME NEW p, NEW q, KeyOK(p, q), slot'[p][q] = slot[p][q],
           \A b \in attempts' : b \in attempts \/ ~Owns(p, q, b),
           attempts \subseteq attempts'
    PROVE  KeyOK(p, q)'
BY OwnsConstant DEF KeyOK

\* One attempt is replaced by one that owns what it owned, or goes because that
\* is nothing.
LEMMA KeyKept ==
    ASSUME NEW p, NEW q, KeyOK(p, q), slot'[p][q] = slot[p][q],
           NEW a \in attempts, NEW b, Owns(p, q, b) <=> Owns(p, q, a),
           \A c \in attempts' : c = b \/ c \in attempts \ {a} \/ ~Owns(p, q, c),
           attempts \ {a} \subseteq attempts',
           Owns(p, q, b) => b \in attempts'
    PROVE  KeyOK(p, q)'
BY OwnsConstant DEF KeyOK

\* Whether a placement runs its repairs in turn is a matter of its kind alone.
LEMMA SerialKept == room' = room => \A p : Serial(p)' <=> Serial(p)
BY DEF Serial, Kind

\* The same for every key.
LEMMA ReplaceKeeps ==
    ASSUME CausalInv, TaskInv, room' = room, UNCHANGED slot, NEW a \in attempts, NEW b,
           b.from = a.from, b.to = a.to,
           b.ini = "dial" => b.res = "none",
           b.ini \in Over <=> a.ini \in Over,
           Serial(a.to) => (b.res \in Working <=> a.res \in Working),
           \/ attempts' = (attempts \ {a}) \cup {b}
           \/ attempts' = (attempts \ {a}) \cup Leftover(b)
    PROVE  TaskInv'
<1>1. attempts' \subseteq (attempts \ {a}) \cup {b} /\ attempts \ {a} \subseteq attempts'
    BY LeftoverIsIt
<1>2. \A c \in attempts' : c.ini = "dial" => c.res = "none"
    BY <1>1 DEF TaskInv
<1>3. ASSUME NEW p \in Placement, NEW q \in Placement, Serial(p) PROVE KeyOK(p, q)'
    <2>1. KeyOK(p, q)
        BY <1>3 DEF TaskInv
    <2>2. Owns(p, q, b) <=> Owns(p, q, a)
        BY <1>3 DEF Owns
    <2>3. Owns(p, q, b) => b \in attempts'
        BY DEF Owns, Over, Working, Leftover
    <2> QED BY <1>1, <2>1, <2>2, <2>3, KeyKept
<1> QED BY <1>2, <1>3, SerialKept DEF TaskInv

\* A fresh attempt owns the initiator's key.
LEMMA FreshOwns ==
    \A p, q, i, n : LET a == Attempt(p, q, i, n)
                    IN  /\ \A r, s : Owns(r, s, a) <=> r = p /\ s = q
                        /\ a.res = "none"
BY DEF Owns, Attempt, Over, Working

\* A free key that is taken for a fresh attempt.
LEMMA KeyTaken ==
    ASSUME NEW p, NEW q, KeyOK(p, q), slot[p][q] = "free", Initiates(p, q),
           slot'[p][q] = "held", NEW b \in attempts', Owns(p, q, b),
           \A c \in attempts' : c = b \/ c \in attempts \/ ~Owns(p, q, c)
    PROVE  KeyOK(p, q)'
BY OwnsConstant DEF KeyOK

\* A trigger for a key that is taken changes at most how the slot is held.
LEMMA KeyNoted ==
    ASSUME NEW p, NEW q, KeyOK(p, q), slot[p][q] # "free",
           slot'[p][q] = Coalesced(slot[p][q]),
           \A b \in attempts' : b \in attempts \/ ~Owns(p, q, b),
           attempts \subseteq attempts'
    PROVE  KeyOK(p, q)'
<1>1. slot'[p][q] # "free" /\ (slot'[p][q] = "resp" => slot[p][q] = "resp")
      /\ (slot'[p][q] \in {"held", "again"} => slot[p][q] \in {"held", "again"})
    BY DEF Coalesced
<1> QED BY <1>1, OwnsConstant DEF KeyOK

\* A trigger takes free keys for fresh attempts, notes one more repair on held
\* ones, and leaves the rest.
LEMMA ScheduleKeeps ==
    ASSUME CausalInv, TaskInv, room' = room,
           NEW p \in Placement, NEW Q \in SUBSET Placement, Schedule(p, Q)
    PROVE  TaskInv'
<1> DEFINE peers == {q \in Q : Initiates(p, q)}
           fresh == {Attempt(p, q, 1, 0) : q \in Vacant(p, peers)}
<1>1. ASSUME NEW F, attempts' = attempts \cup F,
             \A b \in F : \E q, i : b = Attempt(p, q, i, 0)
      PROVE  /\ \A a \in attempts' : a.ini = "dial" => a.res = "none"
             /\ \A b \in F : \A r, s : r # p => ~Owns(r, s, b)
    BY <1>1, FreshOwns DEF TaskInv
<1>2. CASE Kind[p] = "desktop"
    <2> DEFINE F == {Attempt(p, q, CHOOSE i \in FreeId(p, q) : TRUE, 0) :
                        q \in {r \in peers : FreeId(p, r) # {}}}
    <2>1. attempts' = attempts \cup F /\ \A b \in F : \E q, i : b = Attempt(p, q, i, 0)
        BY <1>2 DEF Schedule, DesktopSchedule
    <2> HIDE DEF F
    <2>2. UNCHANGED slot
        BY <1>2 DEF Schedule, DesktopSchedule
    <2>3. ASSUME NEW r \in Placement, NEW s \in Placement, Serial(r) PROVE KeyOK(r, s)'
        <3>1. r # p /\ KeyOK(r, s)
            BY <1>2, <2>3 DEF Serial, TaskInv
        <3> QED BY <1>1, <2>1, <2>2, <3>1, KeyAdded
    <2> QED BY <1>1, <2>1, <2>3, SerialKept DEF TaskInv
<1>3. CASE Kind[p] # "desktop"
    <2>1. /\ attempts' = attempts \cup fresh
          /\ \A r, s \in Placement :
                slot'[r][s] = IF r # p \/ s \notin peers THEN slot[r][s]
                              ELSE IF slot[p][s] = "free" THEN "held"
                              ELSE IF Kind[p] = "browser" THEN Coalesced(slot[p][s])
                              ELSE slot[p][s]
        <3> HIDE DEF peers
        <3>1. CASE Kind[p] = "browser"
            <4>1. BrowserSchedule(p, peers)
                BY <3>1 DEF Schedule, peers
            <4>2. slot' = [slot EXCEPT ![p] = [q \in Placement |->
                              IF q \in peers THEN Coalesced(@[q]) ELSE @[q]]]
                BY <4>1 DEF BrowserSchedule
            <4>3. Coalesced("free") = "held"
                BY DEF Coalesced
            <4>4. slot \in [Placement -> [Placement -> {"free", "held", "again", "resp"}]]
                BY Typed DEF SlotType
            <4>5. \A r, s \in Placement :
                     slot'[r][s] = IF r # p \/ s \notin peers THEN slot[r][s]
                                   ELSE Coalesced(slot[p][s])
                BY <4>2, <4>4
            <4> QED BY <3>1, <4>1, <4>3, <4>5 DEF BrowserSchedule
        <3>2. CASE Kind[p] = "plugin"
            <4>1. PluginSchedule(p, peers)
                BY <3>2 DEF Schedule, peers
            <4>2. slot \in [Placement -> [Placement -> {"free", "held", "again", "resp"}]]
                BY Typed DEF SlotType
            <4> QED BY <3>2, <4>1, <4>2 DEF PluginSchedule, Vacant
        <3> QED BY <1>3, <3>1, <3>2, Typed
    <2>2. \A b \in fresh : \E q, i : b = Attempt(p, q, i, 0)
        OBVIOUS
    <2>3. \A r, s : \A b \in fresh :
              Owns(r, s, b) => r = p /\ s \in Vacant(p, peers) /\ b = Attempt(p, s, 1, 0)
        BY FreshOwns
    <2>4. \A s \in Vacant(p, peers) : Attempt(p, s, 1, 0) \in fresh
        OBVIOUS
    <2>5. \A s : s \in Vacant(p, peers) <=> s \in peers /\ slot[p][s] = "free"
        BY DEF Vacant
    <2> HIDE DEF fresh
    <2>6. ASSUME NEW r \in Placement, NEW s \in Placement, Serial(r) PROVE KeyOK(r, s)'
        <3>1. KeyOK(r, s)
            BY <2>6 DEF TaskInv
        <3>2. CASE r # p \/ s \notin peers
            BY <2>1, <2>3, <2>5, <3>1, <3>2, KeyAdded
        <3>3. CASE r = p /\ s \in peers /\ slot[p][s] = "free"
            <4>0. slot'[p][s] = "held" /\ Initiates(p, s)
                BY <2>1, <3>3
            <4>1. Attempt(p, s, 1, 0) \in attempts' /\ Owns(p, s, Attempt(p, s, 1, 0))
                BY <2>1, <2>4, <2>5, <3>3, FreshOwns
            <4>2. \A c \in attempts' : c = Attempt(p, s, 1, 0) \/ c \in attempts \/ ~Owns(p, s, c)
                BY <2>1, <2>3
            <4> QED BY <3>1, <3>3, <4>0, <4>1, <4>2, KeyTaken
        <3>4. CASE r = p /\ s \in peers /\ slot[p][s] # "free"
            <4>1. slot'[p][s] = slot[p][s] \/ slot'[p][s] = Coalesced(slot[p][s])
                BY <2>1, <3>4
            <4>2. \A b \in attempts' : b \in attempts \/ ~Owns(p, s, b)
                BY <2>1, <2>3, <2>5, <3>4
            <4>3. attempts \subseteq attempts'
                BY <2>1
            <4> QED BY <3>1, <3>4, <4>1, <4>2, <4>3, KeyAdded, KeyNoted
        <3> QED BY <3>2, <3>3, <3>4
    <2> QED BY <1>1, <2>1, <2>2, <2>6, SerialKept DEF TaskInv
<1> QED BY <1>2, <1>3

\* begin_responder and in_flight.insert: a free key is taken for the responder.
LEMMA TakeKeeps ==
    ASSUME CausalInv, TaskInv, room' = room, NEW a \in attempts, a.res = "queued",
           Serial(a.to), TakeOrRefuse(a)
    PROVE  TaskInv'
<1>0. /\ a.from \in Placement /\ a.to \in Placement /\ Initiates(a.from, a.to)
      /\ a \in AttemptType /\ a.ini # "dial"
    BY AttemptOfLog DEF TaskInv
<1>1. CASE slot[a.to][a.from] # "free"
    <2> DEFINE b == [a EXCEPT !.res = "failed"]
    <2>1. attempts' = (attempts \ {a}) \cup Leftover(b) /\ UNCHANGED slot
        BY <1>1 DEF TakeOrRefuse
    <2>2. /\ b.from = a.from /\ b.to = a.to /\ b.ini = a.ini
          /\ a.res \notin Working /\ b.res \notin Working
        BY <1>0 DEF AttemptType, Working
    <2> HIDE DEF b
    <2> QED BY <1>0, <2>1, <2>2, ReplaceKeeps
<1>2. CASE slot[a.to][a.from] = "free"
    <2> DEFINE b == [a EXCEPT !.res = "permit"]
    <2>1. /\ attempts' = (attempts \ {a}) \cup {b}
          /\ slot' = [slot EXCEPT ![a.to][a.from] = "resp"]
        BY <1>2 DEF TakeOrRefuse, Replace
    <2>2. /\ b.from = a.from /\ b.to = a.to /\ b.ini = a.ini
          /\ b.res = "permit" /\ a.res \notin Working
        BY <1>0 DEF AttemptType, Working
    <2> HIDE DEF b
    <2>3. \A c \in attempts' : c.ini = "dial" => c.res = "none"
        BY <1>0, <2>1, <2>2 DEF TaskInv
    <2>4. ASSUME NEW p \in Placement, NEW q \in Placement, Serial(p) PROVE KeyOK(p, q)'
        <3>1. KeyOK(p, q)
            BY <2>4 DEF TaskInv
        <3>2. slot \in SlotType
            BY Typed
        <3>3. CASE p = a.to /\ q = a.from
            <4>1. slot'[p][q] = "resp" /\ slot[p][q] = "free" /\ Initiates(q, p)
                BY <1>0, <1>2, <2>1, <3>2, <3>3 DEF SlotType
            <4>2. Owns(p, q, b) /\ b \in attempts'
                BY <2>1, <2>2, <3>3 DEF Owns, Working
            <4>3. \A c \in attempts' : c = b \/ ~Owns(p, q, c)
                BY <2>1, <3>1, <4>1 DEF KeyOK
            <4> QED BY <4>1, <4>2, <4>3, OwnsConstant DEF KeyOK
        <3>4. CASE ~(p = a.to /\ q = a.from)
            <4>1. slot'[p][q] = slot[p][q]
                BY <1>0, <2>1, <3>2, <3>4 DEF SlotType
            <4>2. Owns(p, q, b) <=> Owns(p, q, a)
                BY <2>2, <3>4 DEF Owns
            <4> QED BY <2>1, <3>1, <4>1, <4>2, KeyKept
        <3> QED BY <3>3, <3>4
    <2> QED BY <2>3, <2>4, SerialKept DEF TaskInv
<1> QED BY <1>1, <1>2

\* Every way the initiator's side ends releases the key, or keeps it for the
\* one attempt that follows.
LEMMA InitiatorEndsKeeps ==
    ASSUME CausalInv, TaskInv, room' = room, NEW a \in attempts, NEW result,
           a.ini \notin Over, InitiatorEnds(a, result)
    PROVE  TaskInv'
<1> DEFINE b == [a EXCEPT !.ini = IF result = "failed" THEN "failed" ELSE "done"]
           next == NextAttempt(a, result)
<1>0. /\ a.from \in Placement /\ a.to \in Placement /\ Initiates(a.from, a.to)
      /\ a \in AttemptType
    BY AttemptOfLog
<1>1. attempts' = (attempts \ {a}) \cup Leftover(b) \cup next
    BY DEF InitiatorEnds
<1>2. slot' = [slot EXCEPT ![a.from][a.to] =
                 IF ~Serial(a.from) THEN @
                 ELSE IF next = {} THEN "free"
                 ELSE IF result = "complete" THEN "held" ELSE @]
    BY DEF InitiatorEnds
<1>3. b.from = a.from /\ b.to = a.to /\ b.ini \in Over /\ b.res = a.res
    BY <1>0 DEF AttemptType, Over
<1>4. \/ next = {}
      \/ Serial(a.from) /\ \E n : next = {Attempt(a.from, a.to, 1, n)}
    <2>1. next # {} => Kind[a.from] = "browser"
        BY DEF NextAttempt
    <2>2. \A c, d \in next : c = d
        BY DEF NextAttempt
    <2>3. \A c \in next : \E n : c = Attempt(a.from, a.to, 1, n)
        BY DEF NextAttempt
    <2> HIDE DEF next, b
    <2>4. CASE next # {}
        <3>1. PICK c \in next : TRUE
            BY <2>4
        <3>2. next = {c}
            BY <2>2, <3>1
        <3> QED BY <2>1, <2>3, <2>4, <3>1, <3>2 DEF Serial
    <2> QED BY <2>4
<1>5. Leftover(b) \in {{}, {b}} /\ (b.res \in Working => Leftover(b) = {b})
    BY LeftoverIsIt DEF Leftover, Working
<1> HIDE DEF b, next
<1>6. \A c \in attempts' : c.ini = "dial" => c.res = "none"
    <2>1. \A c \in attempts' : c \in attempts \/ c = b \/ c \in next
        BY <1>1, <1>5
    <2>2. \A c \in next : c.res = "none"
        BY <1>4, FreshOwns
    <2>3. b.ini # "dial"
        BY <1>3 DEF Over
    <2> QED BY <2>1, <2>2, <2>3 DEF TaskInv
<1>7. ASSUME NEW p \in Placement, NEW q \in Placement, Serial(p) PROVE KeyOK(p, q)'
    <2>1. KeyOK(p, q)
        BY <1>7 DEF TaskInv
    <2>2. slot \in SlotType
        BY Typed
    <2>3. \A c \in next : Owns(p, q, c) <=> p = a.from /\ q = a.to
        BY <1>4, FreshOwns
    <2>4. CASE p = a.from /\ q = a.to
        <3>1. Owns(p, q, a) /\ ~Owns(p, q, b)
            BY <1>0, <1>3, <2>4, OneInitiator DEF Owns
        <3>2. \A c \in attempts' : Owns(p, q, c) => c \in next
            BY <1>1, <1>5, <2>1, <3>1 DEF KeyOK
        <3>3. next \subseteq attempts' /\ \A c, d \in next : c = d
            BY <1>1, <1>4
        <3>4. slot[p][q] \in {"held", "again"}
            BY <1>0, <2>1, <2>2, <2>4, <3>1, OneInitiator DEF KeyOK, SlotType
        <3>5. /\ next = {} => slot'[p][q] = "free"
              /\ next # {} => slot'[p][q] \in {"held", "again"}
            <4> DEFINE s == IF ~Serial(p) THEN slot[p][q]
                            ELSE IF next = {} THEN "free"
                            ELSE IF result = "complete" THEN "held" ELSE slot[p][q]
            <4>1. slot' = [slot EXCEPT ![p][q] = s]
                BY <1>2, <2>4
            <4>2. /\ next = {} => s = "free"
                  /\ next # {} => s \in {"held", slot[p][q]}
                BY <1>7
            <4> HIDE DEF s
            <4> QED BY <2>2, <3>4, <4>1, <4>2 DEF SlotType
        <3> QED BY <1>0, <2>3, <2>4, <3>2, <3>3, <3>5, OwnsConstant DEF KeyOK
    <2>5. CASE ~(p = a.from /\ q = a.to)
        <3>1. slot'[p][q] = slot[p][q]
            BY <1>0, <1>2, <2>2, <2>5 DEF SlotType
        <3>2. Owns(p, q, b) <=> Owns(p, q, a)
            BY <1>3, <2>5 DEF Owns
        <3>3. Owns(p, q, b) => b \in attempts'
            BY <1>1, <1>3, <1>5 DEF Owns
        <3>4. \A c \in attempts' : c = b \/ c \in attempts \ {a} \/ ~Owns(p, q, c)
            BY <1>1, <1>5, <2>3, <2>5
        <3>5. attempts \ {a} \subseteq attempts'
            BY <1>1
        <3> QED BY <2>1, <3>1, <3>2, <3>3, <3>4, <3>5, KeyKept
    <2> QED BY <2>4, <2>5
<1> QED BY <1>6, <1>7, SerialKept DEF TaskInv

\* Every way the responder's side ends releases its key.
LEMMA ResponderEndsKeeps ==
    ASSUME CausalInv, TaskInv, room' = room, NEW a \in attempts, NEW result,
           a.res \in Working, ResponderEnds(a, result)
    PROVE  TaskInv'
<1> DEFINE b == [a EXCEPT !.res = IF result = "failed" THEN "failed" ELSE "done"]
<1>0. /\ a.from \in Placement /\ a.to \in Placement /\ Initiates(a.from, a.to)
      /\ a \in AttemptType /\ a.ini # "dial"
    BY AttemptOfLog DEF TaskInv, Working
<1>1. /\ attempts' = (attempts \ {a}) \cup Leftover(b)
      /\ slot' = [slot EXCEPT ![a.to][a.from] = IF Serial(a.to) THEN "free" ELSE @]
    BY DEF ResponderEnds
<1>2. b.from = a.from /\ b.to = a.to /\ b.res \notin Working /\ b.ini = a.ini
    BY <1>0 DEF AttemptType, Working
<1>3. Leftover(b) \in {{}, {b}} /\ (b.ini \notin Over => Leftover(b) = {b})
    BY LeftoverIsIt DEF Leftover, Over
<1> HIDE DEF b
<1>4. \A c \in attempts' : c.ini = "dial" => c.res = "none"
    BY <1>0, <1>1, <1>2, <1>3 DEF TaskInv
<1>5. ASSUME NEW p \in Placement, NEW q \in Placement, Serial(p) PROVE KeyOK(p, q)'
    <2>1. KeyOK(p, q)
        BY <1>5 DEF TaskInv
    <2>2. slot \in SlotType
        BY Typed
    <2>3. CASE p = a.to /\ q = a.from
        <3>1. Owns(p, q, a) /\ ~Owns(p, q, b)
            BY <1>0, <1>2, <2>3, OneInitiator DEF Owns
        <3>2. \A c \in attempts' : ~Owns(p, q, c)
            BY <1>1, <1>3, <2>1, <3>1 DEF KeyOK
        <3>3. slot'[p][q] = "free"
            BY <1>0, <1>1, <1>5, <2>2, <2>3 DEF SlotType
        <3> QED BY <3>2, <3>3, OwnsConstant DEF KeyOK
    <2>4. CASE ~(p = a.to /\ q = a.from)
        <3>1. slot'[p][q] = slot[p][q]
            BY <1>0, <1>1, <2>2, <2>4 DEF SlotType
        <3>2. Owns(p, q, b) <=> Owns(p, q, a)
            BY <1>2, <2>4 DEF Owns
        <3>3. Owns(p, q, b) => b \in attempts'
            BY <1>1, <1>2, <1>3 DEF Owns
        <3>4. \A c \in attempts' : c = b \/ c \in attempts \ {a}
            BY <1>1, <1>3
        <3>5. attempts \ {a} \subseteq attempts'
            BY <1>1
        <3> QED BY <2>1, <3>1, <3>2, <3>3, <3>4, <3>5, KeyKept
    <2> QED BY <2>3, <2>4
<1> QED BY <1>4, <1>5, SerialKept DEF TaskInv

\* The placement that restarts lets go of all its keys; the tasks at the other
\* ends keep theirs.
LEMMA RestartKeeps == ASSUME CausalInv, TaskInv, NEW p \in Placement, Restart(p) PROVE TaskInv'
<1>1. room' = room
    BY DEF Restart
<1>2. PICK F : /\ \A a \in attempts : F[a] \in Crashed(p, a)
               /\ attempts' = UNION {Leftover(F[a]) : a \in attempts}
    <2>1. CASE attempts' = UNION {Leftover(Ended(a, p)) : a \in attempts}
        <3> WITNESS [a \in attempts |-> Ended(a, p)]
        <3> QED BY <2>1 DEF Crashed
    <2>2. CASE Kind[p] = "desktop" /\ attempts' = UNION {Leftover(Detached(a, p)) : a \in attempts}
        <3> WITNESS [a \in attempts |-> Detached(a, p)]
        <3> QED BY <2>2 DEF Crashed
    <2> QED BY <2>1, <2>2 DEF Restart
<1>3. \A c \in attempts' : \E a \in attempts : c = F[a]
    BY <1>2, LeftoverIsIt
<1>4. ASSUME NEW a \in attempts, NEW b \in Crashed(p, a)
      PROVE  /\ b.from = a.from /\ b.to = a.to
             /\ b.ini = "dial" => b.res = "none"
             /\ \A q, r : q # p => (Owns(q, r, b) <=> Owns(q, r, a))
             /\ Serial(p) => \A r : ~Owns(p, r, b)
    <2>1. a \in AttemptType /\ (a.ini = "dial" => a.res = "none") /\ a.from # a.to
        BY AttemptOfLog, OneInitiator DEF TaskInv
    <2>2. \/ b.from = a.from /\ b.to = a.to /\ b.ini = a.ini /\ b.res = a.res
          \/ /\ b.from = a.from /\ b.to = a.to /\ b.res = a.res
             /\ a.from = p /\ b.ini \in {"done", "failed"}
          \/ /\ b.from = a.from /\ b.to = a.to /\ b.ini = a.ini
             /\ a.to = p /\ a.res # "none" /\ b.res \in {"done", "failed"}
        <3>1. CASE b = a \/ b = [a EXCEPT !.broken = TRUE]
            BY <2>1, <3>1 DEF AttemptType
        <3>2. CASE EndsInitiator(p, a, b)
            BY <2>1, <3>2, StoppedIs DEF AttemptType, EndsInitiator
        <3>3. CASE EndsResponder(p, a, b)
            BY <2>1, <3>3, StoppedIs DEF AttemptType, EndsResponder
        <3> QED BY <3>1, <3>2, <3>3, CrashedIs
    <2>3. Serial(p) => \A r : ~Owns(p, r, b)
        <3>1. SUFFICES ASSUME Serial(p) PROVE \A r : ~Owns(p, r, b)
            OBVIOUS
        <3>2. b = Ended(a, p)
            BY <3>1 DEF Crashed, Serial
        <3>3. CASE a.from = p
            <4>1. b.from = p /\ b.to # p /\ b.ini \in Over
                BY <2>1, <3>2, <3>3, StoppedIs DEF Ended, AttemptType, Over
            <4> QED BY <4>1 DEF Owns
        <3>4. CASE a.from # p /\ a.to = p /\ a.res # "none"
            <4>1. b.from # p /\ b.res \in Over
                BY <2>1, <3>2, <3>4, StoppedIs DEF Ended, AttemptType, Over
            <4> QED BY <4>1 DEF Owns, Over, Working
        <3>5. CASE a.from # p /\ ~(a.to = p /\ a.res # "none")
            BY <3>2, <3>5 DEF Ended, Owns, Working
        <3> QED BY <3>3, <3>4, <3>5
    <2>4. b.ini = "dial" => b.res = "none"
        BY <2>1, <2>2
    <2>5. \A q, r : q # p => (Owns(q, r, b) <=> Owns(q, r, a))
        BY <2>2 DEF Owns
    <2> QED BY <2>2, <2>3, <2>4, <2>5
<1>5. ASSUME NEW q \in Placement, NEW r \in Placement, q # p, NEW a \in attempts, Owns(q, r, a)
      PROVE  F[a] \in attempts'
    <2>1. Owns(q, r, F[a])
        BY <1>2, <1>4, <1>5
    <2>2. Leftover(F[a]) = {F[a]}
        BY <2>1 DEF Owns, Over, Working, Leftover
    <2> QED BY <1>2, <2>2
<1>6. \A c \in attempts' : c.ini = "dial" => c.res = "none"
    BY <1>2, <1>3, <1>4
<1>7. \A q, r \in Placement : slot'[q][r] = IF q = p THEN "free" ELSE slot[q][r]
    BY Typed DEF Restart, SlotType
<1>8. ASSUME NEW q \in Placement, NEW r \in Placement, Serial(q) PROVE KeyOK(q, r)'
    <2>1. KeyOK(q, r)
        BY <1>8 DEF TaskInv
    <2>2. CASE q = p
        <3>1. slot'[q][r] = "free" /\ \A b \in attempts' : ~Owns(q, r, b)
            BY <1>2, <1>3, <1>4, <1>7, <1>8, <2>2
        <3> QED BY <3>1, OwnsConstant DEF KeyOK
    <2>3. CASE q # p
        <3>1. slot'[q][r] = slot[q][r]
            BY <1>7, <2>3
        <3>2. \A a \in attempts : Owns(q, r, F[a]) <=> Owns(q, r, a)
            BY <1>2, <1>4, <2>3
        <3>3. \A b, c \in attempts' : Owns(q, r, b) /\ Owns(q, r, c) => b = c
            BY <1>3, <2>1, <3>2 DEF KeyOK
        <3>4. (\A a \in attempts : ~Owns(q, r, a)) <=> (\A b \in attempts' : ~Owns(q, r, b))
            BY <1>3, <1>5, <2>3, <3>2
        <3> QED BY <2>1, <3>1, <3>3, <3>4, OwnsConstant DEF KeyOK
    <2> QED BY <2>2, <2>3
<1> QED BY <1>1, <1>6, <1>8, SerialKept DEF TaskInv

\* Steps that touch neither the slots nor the attempts.
LEMMA QuietTasks ==
    ASSUME TaskInv, room' = room, UNCHANGED <<slot, attempts>> PROVE TaskInv'
BY SerialKept, OwnsConstant DEF TaskInv, KeyOK

\* The steps of an attempt keep tasks and slots in order.
LEMMA AttemptTasks ==
    ASSUME CausalInv, TaskInv, NEW a \in attempts,
           InitiatorWorks(a) \/ AcceptRepair(a) \/ ResponderWorks(a) \/ Break(a)
    PROVE  TaskInv'
<1>0. a \in AttemptType /\ (a.ini = "dial" => a.res = "none")
    BY AttemptOfLog DEF TaskInv
<1>1. CASE StartInitiator(a)
    <2>1. CASE Fault /\ InitiatorEnds(a, "failed")
        BY <1>1, <2>1, InitiatorEndsKeeps DEF StartInitiator, Over
    <2>2. CASE Replace(a, [a EXCEPT !.ini = "sent", !.res = "queued", !.icut = log[a.from]])
               /\ UNCHANGED slot
        <3> DEFINE b == [a EXCEPT !.ini = "sent", !.res = "queued", !.icut = log[a.from]]
        <3>1. b.from = a.from /\ b.to = a.to /\ b.ini = "sent" /\ b.res = "queued"
            BY <1>0 DEF AttemptType
        <3>2. a.ini = "dial" /\ a.res = "none" /\ room' = room
            BY <1>0, <1>1 DEF StartInitiator
        <3>3. attempts' = (attempts \ {a}) \cup {b}
            BY <2>2 DEF Replace
        <3> HIDE DEF b
        <3> QED BY <2>2, <3>1, <3>2, <3>3, ReplaceKeeps DEF Over, Working
    <2> QED BY <1>1, <2>1, <2>2 DEF StartInitiator
<1>2. CASE InitiatorApplies(a)
    <2> DEFINE b == [a EXCEPT !.ini = "applied"]
    <2>1. b.from = a.from /\ b.to = a.to /\ b.ini = "applied" /\ b.res = a.res
        BY <1>0 DEF AttemptType
    <2>2. attempts' = (attempts \ {a}) \cup {b} /\ a.ini = "sent" /\ UNCHANGED <<slot, room>>
        BY <1>2 DEF InitiatorApplies, Replace
    <2> HIDE DEF b
    <2> QED BY <2>1, <2>2, ReplaceKeeps DEF Over
<1>3. CASE InitiatorReports(a) \/ InitiatorFails(a)
    BY <1>3, InitiatorEndsKeeps DEF InitiatorReports, InitiatorFails, Over, Result
<1>4. CASE AcceptRepair(a)
    <2>1. CASE Serial(a.to)
        BY <1>4, <2>1, TakeKeeps DEF AcceptRepair, BrowserAccept, DesktopAccept, PluginAccept, Serial
    <2>2. CASE ~Serial(a.to)
        <3> DEFINE b == [a EXCEPT !.res = "permit"]
        <3>1. b.from = a.from /\ b.to = a.to /\ b.ini = a.ini /\ a.ini # "dial"
            BY <1>0, <1>4 DEF AttemptType, AcceptRepair
        <3>2. attempts' = (attempts \ {a}) \cup {b} /\ UNCHANGED <<slot, room>>
            BY <1>4, <2>2
            DEF AcceptRepair, BrowserAccept, DesktopAccept, PluginAccept, Serial, Replace
        <3> HIDE DEF b
        <3> QED BY <2>2, <3>1, <3>2, ReplaceKeeps
    <2> QED BY <2>1, <2>2
<1>5. CASE StartResponder(a)
    <2> DEFINE b == [a EXCEPT !.res = "sent", !.rcut = log[a.to]]
    <2>1. b.from = a.from /\ b.to = a.to /\ b.ini = a.ini /\ b.res = "sent"
        BY <1>0 DEF AttemptType
    <2>2. /\ attempts' = (attempts \ {a}) \cup {b} /\ UNCHANGED <<slot, room>>
          /\ a.res = "permit" /\ a.ini = "sent"
        BY <1>5 DEF StartResponder, Replace
    <2> HIDE DEF b
    <2> QED BY <2>1, <2>2, ReplaceKeeps DEF Working
<1>6. CASE ResponderApplies(a)
    <2> DEFINE b == [a EXCEPT !.res = "applied"]
    <2>1. b.from = a.from /\ b.to = a.to /\ b.ini = a.ini /\ b.res = "applied"
        BY <1>0 DEF AttemptType
    <2>2. /\ attempts' = (attempts \ {a}) \cup {b} /\ UNCHANGED <<slot, room>>
          /\ a.res = "sent" /\ a.ini # "dial"
        BY <1>6 DEF ResponderApplies, Replace
    <2> HIDE DEF b
    <2> QED BY <2>1, <2>2, ReplaceKeeps DEF Working
<1>7. CASE ResponderReports(a) \/ ResponderFails(a)
    BY <1>7, ResponderEndsKeeps DEF ResponderReports, ResponderFails, Working, Result
<1>8. CASE InitiatorConfirms(a)
    <2> DEFINE b == [a EXCEPT !.ini = Confirm(a.from, a), !.iseen = log[a.from]]
    <2>1. b.from = a.from /\ b.to = a.to /\ b.ini \in Result /\ b.res = a.res
        BY <1>0 DEF AttemptType, Confirm, Result
    <2>2. attempts' = (attempts \ {a}) \cup {b} /\ a.ini = "applied" /\ UNCHANGED <<slot, room>>
        BY <1>8 DEF InitiatorConfirms, Replace
    <2> HIDE DEF b
    <2> QED BY <2>1, <2>2, ReplaceKeeps DEF Over, Result
<1>9. CASE ResponderConfirms(a)
    <2> DEFINE b == [a EXCEPT !.res = Confirm(a.to, a), !.rseen = log[a.to]]
    <2>1. b.from = a.from /\ b.to = a.to /\ b.ini = a.ini /\ b.res \in Result
        BY <1>0 DEF AttemptType, Confirm, Result
    <2>2. /\ attempts' = (attempts \ {a}) \cup {b} /\ UNCHANGED <<slot, room>>
          /\ a.res = "applied" /\ a.ini # "dial"
        BY <1>9 DEF ResponderConfirms, Replace, Result
    <2> HIDE DEF b
    <2> QED BY <2>1, <2>2, ReplaceKeeps DEF Working, Result
<1>10. CASE Break(a)
    <2> DEFINE b == [a EXCEPT !.broken = TRUE]
    <2>1. b.from = a.from /\ b.to = a.to /\ b.ini = a.ini /\ b.res = a.res
        BY <1>0 DEF AttemptType
    <2>2. attempts' = (attempts \ {a}) \cup {b} /\ UNCHANGED <<slot, room>>
        BY <1>10 DEF Break, Replace
    <2> HIDE DEF b
    <2> QED BY <1>0, <2>1, <2>2, ReplaceKeeps
<1> QED BY <1>1, <1>2, <1>3, <1>4, <1>5, <1>6, <1>7, <1>8, <1>9, <1>10
        DEF InitiatorWorks, ResponderWorks

\* Every step does.
LEMMA NextTasks == ASSUME CausalInv, TaskInv, Next PROVE TaskInv'
<1>1. ASSUME NEW p \in Placement,
             Author(p) \/ Lagged(p) \/ Restart(p) \/ SendProbe(p) \/ Sweep(p)
      PROVE  TaskInv'
    <2>1. near[p] \in SUBSET Placement
        BY Typed
    <2>2. CASE Lagged(p) \/ Sweep(p)
        BY <2>1, <2>2, ScheduleKeeps DEF Lagged, Sweep
    <2>3. CASE Author(p) \/ SendProbe(p)
        BY <2>3, QuietTasks DEF Author, BrowserAuthor, DesktopAuthor, PluginAuthor, SendProbe
    <2> QED BY <1>1, <2>2, <2>3, RestartKeeps
<1>2. ASSUME NEW p \in Placement, NEW q \in Placement,
             NeighborUp(p, q) \/ NeighborDown(p, q) \/ DirectReady(p, q)
      PROVE  TaskInv'
    <2>1. {q} \in SUBSET Placement
        OBVIOUS
    <2>2. CASE NeighborUp(p, q) \/ DirectReady(p, q)
        BY <2>1, <2>2, ScheduleKeeps
        DEF NeighborUp, BrowserNeighborUp, DesktopNeighborUp, PluginNeighborUp, MeetNeighbor,
            DirectReady
    <2>3. CASE NeighborDown(p, q)
        BY <2>3, QuietTasks DEF NeighborDown
    <2> QED BY <1>2, <2>2, <2>3
<1>3. ASSUME NEW m \in wire, Receive(m) \/ Lose(m) PROVE TaskInv'
    <2>1. m.from \in Placement /\ m.to \in Placement
        BY DEF CausalInv, GoodMessage
    <2>2. CASE ReceiveLive(m)
        BY <2>1, <2>2, ScheduleKeeps, QuietTasks
        DEF ReceiveLive, BrowserLive, DesktopLive, PluginLive, RequestRepair
    <2>3. CASE ReceiveHint(m) \/ ReceiveProbe(m)
        <3>1. PICK Q \in SUBSET Placement : Schedule(m.to, Q)
            BY <2>1, <2>3 DEF ReceiveHint, ReceiveProbe
        <3>2. room' = room
            BY <2>3 DEF ReceiveHint, ReceiveProbe
        <3> QED BY <2>1, <3>1, <3>2, ScheduleKeeps
    <2>4. CASE Lose(m)
        BY <2>4, QuietTasks DEF Lose
    <2> QED BY <1>3, <2>2, <2>3, <2>4 DEF Receive
<1> QED BY <1>1, <1>2, <1>3, AttemptTasks DEF Next

\* Tasks and slots start in order.
LEMMA InitTasks == ASSUME Init PROVE TaskInv
BY DEF Init, TaskInv, KeyOK

\* Tasks, slots and permits of repair.rs are in order in every behaviour: the
\* inductive invariant behind the slots.
THEOREM TaskInvariant == Spec => [](CausalInv /\ TaskInv)
<1>1. Init => CausalInv /\ TaskInv
    BY InitCausal, InitTasks
<1>2. (CausalInv /\ TaskInv) /\ [Next]_vars => (CausalInv /\ TaskInv)'
    <2>1. CASE UNCHANGED vars
        BY <2>1, NextCausal, QuietTasks DEF vars
    <2> QED BY <2>1, NextCausal, NextTasks
<1> QED BY <1>1, <1>2, PTL DEF Spec

\* The key of a coordinator (RepairCoordinator, in_flight) is taken exactly while
\* one task will release it: no failure, restart or refused stream leaves a key
\* behind, so the next trigger for the peer is never refused for good.
THEOREM SlotsHaveTasks == Spec => []SlotHasTask
<1>1. ASSUME CausalInv, TaskInv PROVE SlotHasTask
    <2> SUFFICES ASSUME NEW p \in Placement, Serial(p), NEW q \in Placement
                 PROVE  /\ slot[p][q] \in {"held", "again"} <=> Running(p, q) # {}
                        /\ Cardinality(Running(p, q)) <= 1
                        /\ slot[p][q] = "resp" =>
                              \E a \in attempts : /\ a.from = q /\ a.to = p
                                                  /\ a.res \in {"permit", "sent", "applied"} \cup Result
        BY DEF SlotHasTask
    <2>1. KeyOK(p, q)
        BY <1>1 DEF TaskInv
    <2>2. \A a \in Running(p, q) : a \in attempts /\ Owns(p, q, a) /\ Initiates(p, q)
        BY <1>1, AttemptOfLog DEF Running, Owns, Over
    <2>3. \A a, b \in Running(p, q) : a = b
        BY <2>1, <2>2 DEF KeyOK
    <2>4. Cardinality(Running(p, q)) <= 1
        <3>1. Running(p, q) = {} \/ \E a : Running(p, q) = {a}
            BY <2>3
        <3>2. CASE Running(p, q) = {}
            BY <3>2, FS_EmptySet
        <3>3. ASSUME NEW a, Running(p, q) = {a} PROVE Cardinality(Running(p, q)) <= 1
            BY <3>3, FS_Singleton, SMTT(60)
        <3> QED BY <3>1, <3>2, <3>3
    <2>5. slot[p][q] \in {"free", "held", "again", "resp"}
        BY <1>1, Typed DEF SlotType
    <2>6. \A a \in attempts : Owns(p, q, a) => \/ a \in Running(p, q)
                                              \/ /\ a.from = q /\ a.to = p /\ Initiates(q, p)
                                                 /\ a.res \in {"permit", "sent", "applied"} \cup Result
        BY <1>1, AttemptOfLog DEF Running, Owns, Over, Working, Result
    <2> QED BY <2>1, <2>2, <2>4, <2>5, <2>6, OneInitiator DEF KeyOK
<1> QED BY <1>1, TaskInvariant, PTL

=============================================================================
