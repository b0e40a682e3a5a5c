------------------------- MODULE RoomSessionProofs -------------------------
(***************************************************************************)
(* Proofs about the pair session for every bound: the state keeps its      *)
(* shape, the renewal floor is what the task believes it is, and no        *)
(* placement ever opens an epoch twice.                                    *)
(***************************************************************************)
EXTENDS RoomSession, TLAPS

\* A task between the operators of one handler: a pending offer may already
\* carry the id that Become will account for.
WideTask ==
    [known    : BOOLEAN,
     view     : Nat,
     cache    : Nat \cup {NotLoaded},
     pending  : [sid : 0 .. MaxSid + 1, epoch : Nat, base : Nat, floor : Nat],
     active   : [sid : 0 .. MaxSid, epoch : Nat, lease : BOOLEAN, sent : 0 .. MaxEvents,
                 rcvd : SUBSET (1 .. MaxEvents), admitted : SUBSET Dot,
                 waiting : SUBSET [n : 1 .. MaxEvents, deps : SUBSET Dot]],
     install  : [sid : 0 .. MaxSid, epoch : Nat, answer : BOOLEAN, durable : BOOLEAN],
     needed   : BOOLEAN,
     doomed   : BOOLEAN,
     inflight : SUBSET Reification]

\* What a negotiation operator leaves alone.
SameSession(t, u) ==
    /\ u.known = t.known
    /\ u.view = t.view
    /\ u.active = t.active
    /\ u.install = t.install
    /\ u.inflight = t.inflight

\* A task record is a task between operators.
LEMMA TaskIsWide == ASSUME NEW t \in Task PROVE t \in WideTask
BY RoomSessionAssumption DEF Task, WideTask

\* load_renewal_floor only fills the cache, from the worker's floor.
LEMMA LoadedFacts ==
    ASSUME NEW a \in Actor, NEW t \in WideTask, store \in [Actor -> Nat]
    PROVE  /\ Loaded(a, t) \in WideTask
           /\ Loaded(a, t).cache \in Nat
           /\ Loaded(a, t).cache = IF t.cache = NotLoaded THEN store[a] ELSE t.cache
           /\ Loaded(a, t).pending = t.pending
           /\ Loaded(a, t).needed = t.needed
           /\ SameSession(t, Loaded(a, t))
BY DEF Loaded, WideTask, SameSession, NotLoaded

\* begin_session keeps the session and either leaves the pending offer alone or
\* replaces no offer by a fresh one above the floor.
LEMMA BeginSessionFacts ==
    ASSUME NEW a \in Actor, NEW t \in WideTask, store \in [Actor -> Nat],
           nextSid \in 1 .. MaxSid + 1
    PROVE  LET u == BeginSession(a, t)
           IN  /\ u \in WideTask
               /\ SameSession(t, u)
               /\ u.cache = t.cache \/ (t.cache = NotLoaded /\ u.cache = store[a])
               /\ \/ u.pending = t.pending
                  \/ /\ u.cache \in Nat
                     /\ u.pending = [sid |-> nextSid, epoch |-> u.cache + 1,
                                     base |-> u.view, floor |-> u.cache]
<1> DEFINE l == Loaded(a, t)
<1>1. /\ l \in WideTask /\ l.cache \in Nat /\ SameSession(t, l) /\ l.pending = t.pending
      /\ l.cache = IF t.cache = NotLoaded THEN store[a] ELSE t.cache
    BY LoadedFacts
<1> HIDE DEF l
<1> DEFINE p == [sid |-> nextSid, epoch |-> ProposedEpoch(l.cache),
                 base |-> l.view, floor |-> l.cache]
           u == [l EXCEPT !.pending = p, !.needed = FALSE]
<1>2. p \in [sid : 0 .. MaxSid + 1, epoch : Nat, base : Nat, floor : Nat]
    BY <1>1, RoomSessionAssumption DEF WideTask, ProposedEpoch
<1>3. u \in WideTask /\ u.pending = p /\ SameSession(l, u) /\ u.cache = l.cache
    <2> HIDE DEF p
    <2> QED BY <1>1, <1>2 DEF WideTask, SameSession
<1>4. u.view = l.view /\ p.epoch = l.cache + 1
    BY <1>3 DEF SameSession, ProposedEpoch
<1>5. BeginSession(a, t) \in {t, l, u}
    BY DEF BeginSession, l
<1>6. u.pending = [sid |-> nextSid, epoch |-> u.cache + 1, base |-> u.view, floor |-> u.cache]
    BY <1>3, <1>4
<1>7. CASE BeginSession(a, t) = t
    BY <1>7 DEF SameSession
<1>8. CASE BeginSession(a, t) = l
    BY <1>1, <1>8
<1>9. CASE BeginSession(a, t) = u
    <2> HIDE DEF u
    <2> QED BY <1>1, <1>3, <1>6, <1>9 DEF SameSession
<1> QED BY <1>5, <1>7, <1>8, <1>9

(***************************************************************************)
(* The renewal ledger of one task against the durable floor f.  It adds to *)
(* FloorCoherent what keeps it inductive: a pending offer was proposed     *)
(* from the floor that is still cached, and nothing is pending while an    *)
(* epoch is being installed.                                               *)
(***************************************************************************)
Ledger(t, f) ==
    /\ t.cache # NotLoaded => \/ t.cache = f
                              \/ t.install.durable /\ t.cache < f
    /\ t.active.sid # 0 => t.cache # NotLoaded /\ t.active.epoch = t.cache
    /\ t.install.sid # 0 => IF t.install.durable THEN f = t.install.epoch
                                                 ELSE f < t.install.epoch
    /\ t.install.sid # 0 => t.install.epoch # 0
    /\ t.install.sid = 0 => ~t.install.durable
    /\ t.pending.sid # 0 => /\ t.install.sid = 0
                            /\ t.cache # NotLoaded
                            /\ t.pending.floor = t.cache
                            /\ t.pending.epoch = t.cache + 1

\* A well-formed task in step with the floor and the history of placement a, as
\* every handler finds and leaves it.
Good(a, t) ==
    /\ t \in WideTask
    /\ ~t.install.durable
    /\ t.pending.sid \in 0 .. MaxSid \cup {nextSid}
    /\ Ledger(t, store[a])
    /\ t.view <= Len(log[a])

\* begin_session on an idle task keeps it in step.
LEMMA BeginSessionGood ==
    ASSUME NEW a \in Actor, NEW t, TypeOK, Good(a, t), t.install.sid = 0
    PROVE  /\ Good(a, BeginSession(a, t))
           /\ BeginSession(a, t).install.sid = 0
<1> DEFINE u == BeginSession(a, t)
<1>1. /\ t \in WideTask /\ store \in [Actor -> Nat] /\ nextSid \in 1 .. MaxSid + 1
      /\ Ledger(t, store[a]) /\ t.view <= Len(log[a])
    BY DEF Good, TypeOK
<1>2. /\ u \in WideTask
      /\ SameSession(t, u)
      /\ u.cache = t.cache \/ (t.cache = NotLoaded /\ u.cache = store[a])
      /\ \/ u.pending = t.pending
         \/ /\ u.cache \in Nat
            /\ u.pending = [sid |-> nextSid, epoch |-> u.cache + 1,
                            base |-> u.view, floor |-> u.cache]
    BY <1>1, BeginSessionFacts
<1> HIDE DEF u
<1>3. Ledger(u, store[a])
    BY <1>1, <1>2 DEF Ledger, SameSession, NotLoaded
<1> QED BY <1>1, <1>2, <1>3 DEF Good, SameSession, u

\* start_ready_renewals on an idle task keeps it in step.
LEMMA StartReadyGood ==
    ASSUME NEW a \in Actor, NEW t, TypeOK, Good(a, t), t.install.sid = 0
    PROVE  /\ Good(a, StartReadyRenewals(a, t))
           /\ StartReadyRenewals(a, t).install.sid = 0
<1>1. StartReadyRenewals(a, t) \in {t, BeginSession(a, t)}
    BY DEF StartReadyRenewals
<1> QED BY <1>1, BeginSessionGood

\* Asking for a renewal changes nothing else.
LEMMA NeededGood ==
    ASSUME NEW a \in Actor, NEW t, Good(a, t)
    PROVE  LET u == [t EXCEPT !.needed = TRUE]
           IN  Good(a, u) /\ SameSession(t, u) /\ u.pending = t.pending /\ u.cache = t.cache
BY DEF Good, WideTask, Ledger, SameSession

\* Dropping the pending offer changes nothing else.
LEMMA DropPendingGood ==
    ASSUME NEW a \in Actor, NEW t, Good(a, t)
    PROVE  LET u == [t EXCEPT !.pending = NoPending]
           IN  Good(a, u) /\ SameSession(t, u) /\ u.cache = t.cache
<1> DEFINE u == [t EXCEPT !.pending = NoPending]
<1>1. NoPending \in [sid : 0 .. MaxSid + 1, epoch : Nat, base : Nat, floor : Nat] /\ NoPending.sid = 0
    BY RoomSessionAssumption DEF NoPending
<1>2. u \in WideTask /\ SameSession(t, u) /\ u.cache = t.cache /\ u.pending.sid = 0
    BY <1>1, SMTT(60) DEF Good, WideTask, SameSession
<1> HIDE DEF u
<1>3. Good(a, u)
    BY <1>2, RoomSessionAssumption DEF Good, Ledger, SameSession
<1> QED BY <1>2, <1>3 DEF u

\* Loading the floor on an idle task keeps it in step and makes the cache exact.
LEMMA LoadedGood ==
    ASSUME NEW a \in Actor, NEW t, TypeOK, Good(a, t), t.install.sid = 0
    PROVE  /\ Good(a, Loaded(a, t))
           /\ Loaded(a, t).cache = store[a]
           /\ SameSession(t, Loaded(a, t))
           /\ Loaded(a, t).pending = t.pending
<1> DEFINE u == Loaded(a, t)
<1>1. /\ u \in WideTask /\ SameSession(t, u) /\ u.pending = t.pending
      /\ u.cache = IF t.cache = NotLoaded THEN store[a] ELSE t.cache
    BY LoadedFacts DEF Good, TypeOK
<1> HIDE DEF u
<1>2. u.cache = store[a] /\ Ledger(u, store[a])
    BY <1>1 DEF Good, Ledger, SameSession, NotLoaded, TypeOK
<1> QED BY <1>1, <1>2 DEF Good, SameSession, u

\* A task starts to install only epochs above the floor.
LEMMA InstallingGood ==
    ASSUME NEW a \in Actor, NEW t, TypeOK, Good(a, t), t.install.sid = 0,
           NEW sid \in Sid, NEW epoch \in Nat, epoch > store[a], NEW answer \in BOOLEAN
    PROVE  Good(a, Installing(t, sid, epoch, answer))
<1> DEFINE i == [sid |-> sid, epoch |-> epoch, answer |-> answer, durable |-> FALSE]
           u == [t EXCEPT !.pending = NoPending, !.install = i]
<1>1. /\ NoPending \in [sid : 0 .. MaxSid + 1, epoch : Nat, base : Nat, floor : Nat] /\ NoPending.sid = 0
      /\ i \in [sid : 0 .. MaxSid, epoch : Nat, answer : BOOLEAN, durable : BOOLEAN]
      /\ i.sid # 0 /\ ~i.durable /\ i.epoch = epoch
    BY RoomSessionAssumption DEF NoPending, Sid
<1> HIDE DEF i
<1>2. /\ u \in WideTask /\ u.pending.sid = 0 /\ u.install = i
      /\ u.cache = t.cache /\ u.active = t.active /\ u.view = t.view
    BY <1>1 DEF Good, WideTask
<1> HIDE DEF u
<1>3. Ledger(u, store[a])
    BY <1>1, <1>2 DEF Good, Ledger, TypeOK
<1>4. Good(a, u)
    BY <1>1, <1>2, <1>3, RoomSessionAssumption DEF Good
<1> QED BY <1>4 DEF Installing, u, i

\* A refused offer and its counter-offer keep the task in step.
LEMMA CounterOfferGood ==
    ASSUME NEW a \in Actor, NEW t, TypeOK, Good(a, t), t.install.sid = 0
    PROVE  Good(a, CounterOffer(a, t))
<1> DEFINE u == [t EXCEPT !.needed = TRUE]
<1>1. Good(a, u) /\ u.install.sid = 0
    BY NeededGood DEF SameSession
<1>2. CounterOffer(a, t) \in {BeginSession(a, u), StartReadyRenewals(a, u)}
    BY DEF CounterOffer
<1> HIDE DEF u
<1> QED BY <1>1, <1>2, BeginSessionGood, StartReadyGood

\* The Offer handler keeps the task in step.
LEMMA AcceptOfferGood ==
    ASSUME NEW a \in Actor, NEW t, TypeOK, Good(a, t), t.install.sid = 0,
           NEW m, m.sid \in Sid, m.epoch \in Nat
    PROVE  Good(a, AcceptOffer(a, t, m))
<1> DEFINE u == Loaded(a, t)
<1>1. Good(a, u) /\ u.cache = store[a] /\ u.install.sid = 0
    BY LoadedGood DEF SameSession
<1>2. \/ AcceptOffer(a, t, m) \in {t, u}
      \/ AcceptOffer(a, t, m) = CounterOffer(a, u)
      \/ ~(m.epoch <= u.cache) /\ AcceptOffer(a, t, m) = Installing(u, m.sid, m.epoch, TRUE)
    BY DEF AcceptOffer
<1> HIDE DEF u
<1>3. store[a] \in Nat
    BY DEF TypeOK
<1>4. CASE AcceptOffer(a, t, m) \in {t, u}
    BY <1>1, <1>4
<1>5. CASE AcceptOffer(a, t, m) = CounterOffer(a, u)
    BY <1>1, <1>5, CounterOfferGood
<1>6. CASE ~(m.epoch <= u.cache) /\ AcceptOffer(a, t, m) = Installing(u, m.sid, m.epoch, TRUE)
    <2>1. m.epoch > store[a]
        BY <1>1, <1>3, <1>6
    <2> QED BY <1>1, <1>6, <2>1, InstallingGood
<1> QED BY <1>2, <1>4, <1>5, <1>6

\* The Answer handler keeps the task in step.
LEMMA AcceptAnswerGood ==
    ASSUME NEW a \in Actor, NEW t, TypeOK, Good(a, t), t.install.sid = 0,
           t.pending.sid # 0, NEW sid \in Sid
    PROVE  Good(a, AcceptAnswer(a, t, sid))
<1> DEFINE u == [t EXCEPT !.pending = NoPending]
           n == [u EXCEPT !.needed = TRUE]
<1>1. Good(a, u) /\ u.install.sid = 0 /\ u.cache = t.cache
    BY DropPendingGood DEF SameSession
<1>2. AcceptAnswer(a, t, sid) \in {u, StartReadyRenewals(a, n), Installing(u, sid, t.pending.epoch, FALSE)}
    BY DEF AcceptAnswer
<1> HIDE DEF u
<1>3. Good(a, n) /\ n.install.sid = 0
    BY <1>1, NeededGood DEF SameSession
<1> HIDE DEF n
<1>4. t.pending.epoch \in Nat /\ t.pending.epoch > store[a]
    <2>1. ~t.install.durable
        BY DEF Good, Ledger
    <2>2. t.cache = store[a] /\ t.pending.epoch = t.cache + 1
        BY <2>1 DEF Good, Ledger
    <2>3. store[a] \in Nat
        BY DEF TypeOK
    <2> QED BY <2>2, <2>3
<1>5. CASE AcceptAnswer(a, t, sid) = u
    BY <1>1, <1>5
<1>6. CASE AcceptAnswer(a, t, sid) = StartReadyRenewals(a, n)
    BY <1>3, <1>6, StartReadyGood
<1>7. CASE AcceptAnswer(a, t, sid) = Installing(u, sid, t.pending.epoch, FALSE)
    BY <1>1, <1>4, <1>7, InstallingGood
<1> QED BY <1>2, <1>5, <1>6, <1>7

\* Recording an admission moves Events from the wait map to the in-flight set.
LEMMA AdmitGood ==
    ASSUME NEW a \in Actor, NEW t, Good(a, t), NEW d \in Dot,
           t.active.sid # 0 
    PROVE  LET u == Admit(t, d)
           IN  /\ Good(a, u)
               /\ u.install = t.install /\ u.view = t.view
<1> DEFINE s == [t.active EXCEPT !.admitted = @ \cup {d}]
           ready == {w \in s.waiting : Planned(s, w.deps)}
           v == [s EXCEPT !.waiting = @ \ ready]
           f == t.inflight \cup {Reify(s.sid, w.n, w.deps) : w \in ready}
           u == [t EXCEPT !.active = v, !.inflight = f]
           Active == [sid : 0 .. MaxSid, epoch : Nat, lease : BOOLEAN, sent : 0 .. MaxEvents,
                      rcvd : SUBSET (1 .. MaxEvents), admitted : SUBSET Dot,
                      waiting : SUBSET [n : 1 .. MaxEvents, deps : SUBSET Dot]]
<1>0. t.active \in Active /\ t.inflight \in SUBSET Reification
    BY DEF Good, WideTask
<1>1. s \in Active /\ s.sid = t.active.sid /\ s.epoch = t.active.epoch /\ s.waiting = t.active.waiting
    BY <1>0
<1> HIDE DEF s
<1>2. ready \subseteq s.waiting
    OBVIOUS
<1> HIDE DEF ready
<1>3. v \in Active /\ v.sid = t.active.sid /\ v.epoch = t.active.epoch
    BY <1>1, <1>2
<1> HIDE DEF v
<1>4. f \in SUBSET Reification
    BY <1>0, <1>1, <1>2 DEF Reify, Reification, Sid
<1> HIDE DEF f
<1>5. /\ u \in WideTask /\ u.active = v /\ u.pending = t.pending /\ u.cache = t.cache
      /\ u.install = t.install /\ u.view = t.view
    BY <1>3, <1>4 DEF Good, WideTask
<1>6. Admit(t, d) = u
    BY DEF Admit, s, ready, v, f
<1> HIDE DEF u
<1>7. Ledger(u, store[a])
    BY <1>3, <1>5 DEF Good, Ledger
<1> QED BY <1>5, <1>6, <1>7 DEF Good

\* Learning of one durable entry of the peer or of its own keeps the task in step.
LEMMA ConfirmGood ==
    ASSUME NEW a \in Actor, NEW t, Good(a, t), NEW e \in Entry, e.sid # 0
    PROVE  /\ Good(a, ConfirmLocal(t, e)) /\ Good(a, Observe(t, e))
           /\ ConfirmLocal(t, e).install = t.install /\ Observe(t, e).install = t.install
           /\ ConfirmLocal(t, e).view = t.view /\ Observe(t, e).view = t.view
<1>0. [by |-> e.by, n |-> e.n] \in Dot
    BY DEF Entry, Dot
<1>1. CASE t.active.sid # e.sid
    BY <1>1 DEF ConfirmLocal, Observe
<1>2. CASE t.active.sid = e.sid
    <2> DEFINE u == Admit(t, [by |-> e.by, n |-> e.n])
               c == [u EXCEPT !.inflight = @ \ {Reify(e.sid, e.n, e.deps)}]
    <2>1. Good(a, u) /\ u.install = t.install /\ u.view = t.view
        BY <1>0, <1>2, AdmitGood
    <2>2. Observe(t, e) = u /\ ConfirmLocal(t, e) = c
        BY <1>2 DEF Observe, ConfirmLocal
    <2> HIDE DEF u
    <2>3. Good(a, c) /\ c.install = u.install /\ c.view = u.view
        BY <2>1 DEF Good, WideTask, Ledger
    <2> QED BY <2>1, <2>2, <2>3
<1> QED BY <1>1, <1>2

(***************************************************************************)
(* The inductive invariant.  What a placement has opened lies at or below  *)
(* its durable floor, and strictly below it between the write of the floor *)
(* and the activation of the epoch: that is why the next epoch it opens is *)
(* a new one.                                                              *)
(***************************************************************************)
OpenedBelowFloor ==
    \A a \in Actor : \A x \in opened[a] :
        x[1] <= store[a] /\ (task[a].install.durable => x[1] < store[a])

IInv ==
    /\ TypeOK
    /\ \A a \in Actor : Ledger(task[a], store[a])
    /\ OpenedBelowFloor
    /\ EpochOpensOnce

\* An idle task is in step.
LEMMA IdleGood ==
    ASSUME IInv, NEW a \in Actor, Idle(a)
    PROVE  Good(a, task[a]) /\ task[a].install.sid = 0
<1>1. task[a] \in WideTask /\ task[a].pending.sid \in 0 .. MaxSid
    BY TaskIsWide DEF IInv, TypeOK, Task
<1>2. Ledger(task[a], store[a]) /\ task[a].view <= Len(log[a])
    BY DEF IInv, TypeOK
<1>3. task[a].install.sid = 0
    BY DEF Idle
<1> QED BY <1>1, <1>2, <1>3 DEF Good, Ledger

\* What the task knows of the history is made of entries.
LEMMA ViewTyped ==
    ASSUME TypeOK, NEW a \in Actor, NEW t, t.view \in Nat, t.view <= Len(log[a])
    PROVE  View(a, t) \subseteq Entry
<1>1. log[a] \in Seq(Item)
    BY DEF TypeOK
<1>2. ASSUME NEW i \in 1 .. t.view PROVE log[a][i].entry \in Entry
    <2>1. i \in 1 .. Len(log[a])
        BY <1>1
    <2>2. log[a][i] \in Item
        BY <1>1, <2>1
    <2> QED BY <2>2 DEF Item
<1> QED BY <1>2 DEF View

\* The offer a step sends is well formed, and so is the task it leaves.
LEMMA BecomeTyped ==
    ASSUME TypeOK, NEW a \in Actor, NEW t, Good(a, t),
           NEW in, in \subseteq Carrier, NEW out, out \subseteq Carrier,
           Become(a, t, in, out)
    PROVE  /\ task' = [task EXCEPT ![a] = t]
           /\ t \in Task
           /\ net' \subseteq Carrier
           /\ nextSid' \in 1 .. MaxSid + 1
<1>1. t \in WideTask /\ nextSid \in 1 .. MaxSid + 1 /\ MaxSid \in Nat
    BY RoomSessionAssumption DEF Good, TypeOK
<1>2. nextSid' \in 1 .. MaxSid + 1
    BY <1>1 DEF Become
<1>3. View(a, t) \subseteq Entry
    BY <1>1, ViewTyped DEF Good, WideTask
<1>4. ASSUME t.pending.sid = nextSid
      PROVE  Offer(a, t.pending, View(a, t)) \in Carrier
    <2>1. t.pending.sid \in Sid
        BY <1>1, <1>4 DEF Become, Sid
    <2>2. t.pending.epoch \in Epoch
        BY <1>1, <2>1 DEF Good, Ledger, WideTask, Sid, Epoch, NotLoaded
    <2> QED BY <1>3, <2>1, <2>2 DEF Offer, Carrier
<1>5. net' \subseteq Carrier
    BY <1>4 DEF Become, Begun
<1>6. t \in Task
    <2>1. t.pending.sid \in 0 .. MaxSid
        BY <1>1 DEF Become, Good
    <2>2. t.pending \in [sid : 0 .. MaxSid, epoch : Nat, base : Nat, floor : Nat]
        BY <1>1, <2>1 DEF WideTask
    <2> QED BY <1>1, <2>2 DEF WideTask, Task
<1> QED BY <1>2, <1>5, <1>6 DEF Become

(***************************************************************************)
(* Steps.  Three of them cover most actions: a negotiation step, an        *)
(* append to the durable history, and the reopening of a placement.        *)
(***************************************************************************)

\* A handler that leaves the task in step preserves the invariant.
LEMMA BecomeStep ==
    ASSUME IInv, NEW a \in Actor, NEW t, Good(a, t),
           NEW in, in \subseteq Carrier, NEW out, out \subseteq Carrier,
           Become(a, t, in, out), UNCHANGED <<log, store, opened>>,
           reif' \in [Actor -> SUBSET Reification],
           edits' \in Nat, faults' \in Nat
    PROVE  IInv'
<1>1. /\ task' = [task EXCEPT ![a] = t] /\ t \in Task
      /\ net' \subseteq Carrier /\ nextSid' \in 1 .. MaxSid + 1
    BY BecomeTyped DEF IInv
<1>2. task \in [Actor -> Task]
    BY DEF IInv, TypeOK
<1>3. task' \in [Actor -> Task] /\ task'[a] = t /\ \A b \in Actor \ {a} : task'[b] = task[b]
    BY <1>1, <1>2
<1>4. \A b \in Actor : task'[b].view <= Len(log'[b]) /\ Ledger(task'[b], store'[b])
    BY <1>3 DEF IInv, TypeOK, Good
<1>5. TypeOK'
    BY <1>1, <1>3, <1>4 DEF IInv, TypeOK
<1>6. OpenedBelowFloor'
    BY <1>3 DEF IInv, OpenedBelowFloor, Good
<1>7. EpochOpensOnce'
    BY DEF IInv, EpochOpensOnce
<1> QED BY <1>4, <1>5, <1>6, <1>7 DEF IInv

\* A longer history preserves the invariant.
LEMMA AppendStep ==
    ASSUME IInv, NEW a \in Actor, NEW e \in Entry, NEW live \in BOOLEAN,
           Append1(a, e, live), UNCHANGED <<store, task, net, nextSid, opened, edits, faults>>,
           reif' \in [Actor -> SUBSET Reification]
    PROVE  IInv'
<1> DEFINE x == [entry |-> e, live |-> live]
<1>1. x \in Item
    BY DEF Item
<1>2. log' = [log EXCEPT ![a] = Append(log[a], x)]
    BY DEF Append1
<1> HIDE DEF x
<1>3. log \in [Actor -> Seq(Item)]
    BY DEF IInv, TypeOK
<1>4. Append(log[a], x) \in Seq(Item) /\ Len(Append(log[a], x)) = Len(log[a]) + 1
    BY <1>1, <1>3
<1>5. log' \in [Actor -> Seq(Item)] /\ \A b \in Actor : Len(log'[b]) >= Len(log[b])
    <2>1. log'[a] = Append(log[a], x) /\ \A b \in Actor \ {a} : log'[b] = log[b]
        BY <1>2, <1>3
    <2>2. \A b \in Actor : Len(log[b]) \in Nat
        BY <1>3
    <2>3. log' \in [Actor -> Seq(Item)]
        BY <1>2, <1>3, <1>4
    <2> QED BY <1>4, <2>1, <2>2, <2>3
<1>6. \A b \in Actor : task'[b].view <= Len(log'[b])
    <2> SUFFICES ASSUME NEW b \in Actor PROVE task'[b].view <= Len(log'[b])
        OBVIOUS
    <2>1. task[b].view \in Nat /\ task[b].view <= Len(log[b]) /\ task'[b] = task[b]
        BY DEF IInv, TypeOK, Task
    <2>2. Len(log[b]) \in Nat /\ Len(log'[b]) \in Nat
        BY <1>3, <1>5
    <2> QED BY <1>5, <2>1, <2>2
<1>7. TypeOK'
    BY <1>5, <1>6 DEF IInv, TypeOK
<1> QED BY <1>7 DEF IInv, OpenedBelowFloor, EpochOpensOnce

\* A reopened placement is in step with what is durable.
LEMMA ReopenStep ==
    ASSUME IInv, NEW a \in Actor, NEW in, in \subseteq Carrier, Reopen(a, in),
           edits' \in Nat, faults' \in Nat
    PROVE  IInv'
<1> DEFINE t == FreshTask(log[a])
<1>1. Len(log[a]) \in Nat
    BY DEF IInv, TypeOK
<1>2. /\ t \in Task
      /\ t.view = Len(log[a]) /\ t.cache = NotLoaded /\ t.pending.sid = 0
      /\ t.active.sid = 0 /\ t.install.sid = 0 /\ ~t.install.durable
    BY <1>1, RoomSessionAssumption DEF FreshTask, Task, NoPending, NoActive, NewActive, NoInstall
<1> HIDE DEF t
<1>3. Ledger(t, store[a])
    BY <1>2 DEF Ledger
<1>4. task' = [task EXCEPT ![a] = t] /\ reif' = [reif EXCEPT ![a] = {}] /\ net' = in
      /\ UNCHANGED <<log, store, nextSid, opened>>
    BY DEF Reopen, t
<1>5. task' \in [Actor -> Task] /\ task'[a] = t /\ \A b \in Actor \ {a} : task'[b] = task[b]
    BY <1>2, <1>4 DEF IInv, TypeOK
<1>6. reif' \in [Actor -> SUBSET Reification]
    BY <1>4 DEF IInv, TypeOK
<1>7. \A b \in Actor : task'[b].view <= Len(log'[b]) /\ Ledger(task'[b], store'[b])
    BY <1>1, <1>2, <1>3, <1>4, <1>5 DEF IInv, TypeOK
<1>8. TypeOK'
    BY <1>4, <1>5, <1>6, <1>7 DEF IInv, TypeOK
<1>9. OpenedBelowFloor'
    BY <1>2, <1>4, <1>5 DEF IInv, OpenedBelowFloor
<1>10. EpochOpensOnce'
    BY <1>4 DEF IInv, EpochOpensOnce
<1> QED BY <1>7, <1>8, <1>9, <1>10 DEF IInv

\* The parts of a task the ledger and the history speak of.
SameLedger(u, t) ==
    /\ u.cache = t.cache
    /\ u.pending = t.pending
    /\ u.install = t.install
    /\ u.view = t.view
    /\ u.active.sid = t.active.sid
    /\ u.active.epoch = t.active.epoch

\* A step inside a session leaves the negotiation alone.
LEMMA SessionStep ==
    ASSUME IInv, NEW a \in Actor, NEW u \in Task, SameLedger(u, task[a]),
           task' = [task EXCEPT ![a] = u], UNCHANGED <<log, store, nextSid, opened>>,
           net' \subseteq Carrier, reif' \in [Actor -> SUBSET Reification],
           edits' \in Nat, faults' \in Nat
    PROVE  IInv'
<1>1. task' \in [Actor -> Task] /\ task'[a] = u /\ \A b \in Actor \ {a} : task'[b] = task[b]
    BY DEF IInv, TypeOK
<1>2. \A b \in Actor : Ledger(task'[b], store'[b]) /\ task'[b].view <= Len(log'[b])
    BY <1>1 DEF IInv, TypeOK, SameLedger, Ledger
<1>3. TypeOK'
    BY <1>1, <1>2 DEF IInv, TypeOK
<1>4. OpenedBelowFloor'
    BY <1>1 DEF IInv, OpenedBelowFloor, SameLedger
<1>5. EpochOpensOnce'
    BY DEF IInv, EpochOpensOnce
<1> QED BY <1>2, <1>3, <1>4, <1>5 DEF IInv

\* A fault stays within its bound.
LEMMA FaultTyped ==
    ASSUME TypeOK, UseFault \/ UNCHANGED faults
    PROVE  faults' \in Nat
BY RoomSessionAssumption DEF TypeOK, UseFault

\* The worker's own commits, drains and replications.
LEMMA HistorySteps ==
    ASSUME IInv, NEW a \in Actor,
           CommitDurable(a) \/ DrainSession(a) \/ \E live \in BOOLEAN : Replicate(a, live)
    PROVE  IInv'
<1>1. reif \in [Actor -> SUBSET Reification] /\ log \in [Actor -> Seq(Item)]
    BY DEF IInv, TypeOK
<1>2. CASE CommitDurable(a)
    <2> DEFINE e == [by |-> a, sid |-> 0, n |-> Len(log[a]) + 1, deps |-> {}]
    <2>1. e \in Entry
        BY <1>1 DEF Entry
    <2>2. Append1(a, e, FALSE) /\ UNCHANGED <<store, task, reif, net, nextSid, opened, edits, faults>>
        BY <1>2 DEF CommitDurable
    <2> HIDE DEF e
    <2> QED BY <1>1, <2>1, <2>2, AppendStep
<1>3. CASE DrainSession(a)
    <2>1. PICK r \in reif[a] :
            /\ Append1(a, [by |-> a, sid |-> r.sid, n |-> r.n, deps |-> r.deps], FALSE)
            /\ reif' = [reif EXCEPT ![a] = @ \ {r}]
        BY <1>3 DEF DrainSession
    <2> DEFINE e == [by |-> a, sid |-> r.sid, n |-> r.n, deps |-> r.deps]
    <2>2. e \in Entry
        BY <1>1 DEF Entry, Reification
    <2>3. reif' \in [Actor -> SUBSET Reification]
        BY <1>1, <2>1
    <2>4. Append1(a, e, FALSE) /\ UNCHANGED <<store, task, net, nextSid, opened, edits, faults>>
        BY <1>3, <2>1 DEF DrainSession
    <2> HIDE DEF e
    <2> QED BY <2>2, <2>3, <2>4, AppendStep
<1>4. ASSUME NEW live \in BOOLEAN, Replicate(a, live) PROVE IInv'
    <2>1. Other(a) \in Actor
        BY DEF Other, Actor
    <2>2. PICK i \in 1 .. Len(log[Other(a)]) : Append1(a, log[Other(a)][i].entry, live)
        BY <1>4 DEF Replicate
    <2>3. log[Other(a)][i] \in Item
        BY <1>1, <2>1
    <2>4. log[Other(a)][i].entry \in Entry
        BY <2>3 DEF Item
    <2>5. UNCHANGED <<store, task, reif, net, nextSid, opened, edits, faults>>
        BY <1>4 DEF Replicate
    <2> QED BY <1>1, <2>2, <2>4, <2>5, AppendStep
<1> QED BY <1>2, <1>3, <1>4

\* A delivery leaves part of the network and at most one more fault.
LEMMA DeliverTyped ==
    ASSUME IInv, NEW m, NEW in, in \in {net, net \ {m}}, Deliver(m, in)
    PROVE  in \subseteq Carrier /\ faults' \in Nat
<1>1. in \subseteq Carrier
    BY DEF IInv, TypeOK
<1> QED BY <1>1, FaultTyped DEF IInv, Deliver

\* Durable progress reaches the session task.
LEMMA AdvanceStep ==
    ASSUME IInv, NEW a \in Actor, AdvanceDurable(a)
    PROVE  IInv'
<1> DEFINE t == task[a]
           item == log[a][t.view + 1]
           e == item.entry
           seen == CASE e.sid # 0 /\ e.by = a -> ConfirmLocal(t, e)
                     [] e.sid # 0 /\ e.by # a /\ item.live -> Observe(t, e)
                     [] OTHER -> t
           v == [seen EXCEPT !.view = @ + 1]
           u == StartReadyRenewals(a, v)
<1>1. /\ Idle(a) /\ t.view < Len(log[a]) /\ Become(a, u, net, {})
      /\ reif' = [reif EXCEPT ![a] = @ \cup (u.inflight \ t.inflight)]
      /\ UNCHANGED <<log, store, opened, edits, faults>>
    BY DEF AdvanceDurable
<1>2. Good(a, t) /\ t.install.sid = 0
    BY <1>1, IdleGood
<1>3. log[a] \in Seq(Item) /\ t.view \in Nat /\ Len(log[a]) \in Nat /\ t.view < Len(log[a])
    <2>1. t.view < Len(log[a])
        BY DEF AdvanceDurable
    <2>2. log[a] \in Seq(Item) /\ t \in Task
        BY DEF IInv, TypeOK
    <2> QED BY <2>1, <2>2 DEF Task
<1>4. e \in Entry
    <2>1. t.view + 1 \in 1 .. Len(log[a])
        BY <1>3
    <2>2. item \in Item
        BY <1>3, <2>1
    <2> HIDE DEF item
    <2> QED BY <2>2 DEF Item
<1>5. Good(a, seen) /\ seen.install.sid = 0 /\ seen.view = t.view
    <2>1. seen \in {t} \/ (e.sid # 0 /\ seen \in {ConfirmLocal(t, e), Observe(t, e)})
        OBVIOUS
    <2> HIDE DEF seen, e, t
    <2> QED BY <1>2, <1>4, <2>1, ConfirmGood
<1> HIDE DEF seen
<1>6. Good(a, v) /\ v.install.sid = 0
    <2>1. seen.view + 1 \in Nat /\ seen.view + 1 <= Len(log[a])
        BY <1>3, <1>5
    <2> DEFINE w == seen.view + 1
    <2>2. w \in Nat /\ w <= Len(log[a])
        BY <2>1
    <2>3. v = [seen EXCEPT !.view = w]
        OBVIOUS
    <2> HIDE DEF w, v
    <2>4. /\ v \in WideTask /\ v.view = w /\ v.cache = seen.cache /\ v.pending = seen.pending
          /\ v.active = seen.active /\ v.install = seen.install
        BY <1>5, <2>2, <2>3, SMTT(60) DEF Good, WideTask
    <2> QED BY <1>5, <2>2, <2>4 DEF Good, Ledger
<1> HIDE DEF v
<1>7. Good(a, u)
    BY <1>6, StartReadyGood DEF IInv
<1> HIDE DEF u
<1>8. reif' \in [Actor -> SUBSET Reification]
    <2>1. u.inflight \subseteq Reification
        BY <1>7 DEF Good, WideTask
    <2> QED BY <1>1, <2>1 DEF IInv, TypeOK
<1>9. net \subseteq Carrier /\ edits' \in Nat /\ faults' \in Nat
    BY <1>1 DEF IInv, TypeOK
<1> QED BY <1>1, <1>7, <1>8, <1>9, BecomeStep

\* start_peer.
LEMMA StartPeerStep ==
    ASSUME IInv, NEW a \in Actor, StartPeer(a)
    PROVE  IInv'
<1> DEFINE t == [task[a] EXCEPT !.known = TRUE]
           u == Loaded(a, t)
           r == [t EXCEPT !.pending = NoPending, !.needed = TRUE]
           d == [t EXCEPT !.pending = NoPending]
<1>1. Good(a, task[a]) /\ task[a].install.sid = 0
    BY IdleGood DEF StartPeer
<1>2. Good(a, t) /\ t.install.sid = 0 /\ t.pending = task[a].pending
    BY <1>1, ZenonT(60) DEF Good, WideTask, Ledger
<1>3. \E v \in {t, u, BeginSession(a, u), BeginSession(a, r)}, out \in SUBSET Carrier :
        Become(a, v, net, out)
    <2>1. CASE t.pending.sid # 0 /\ t.pending.base = t.view
        <3>1. Become(a, t, net, {Offer(a, t.pending, View(a, t))})
            BY <2>1 DEF StartPeer
        <3>2. t.pending.sid \in Sid
            <4>1. task[a].pending.sid \in 0 .. MaxSid
                BY DEF IInv, TypeOK, Task
            <4> HIDE DEF t
            <4> QED BY <1>2, <2>1, <4>1, RoomSessionAssumption DEF Sid
        <3>3. t.pending.epoch \in Epoch
            <4> HIDE DEF t
            <4> QED BY <1>2, <2>1 DEF Good, Ledger, WideTask, Epoch, NotLoaded
        <3>4. View(a, t) \subseteq Entry
            <4> HIDE DEF t
            <4> QED BY <1>2, ViewTyped DEF Good, WideTask, IInv
        <3> HIDE DEF t
        <3>5. Offer(a, t.pending, View(a, t)) \in Carrier
            BY <3>2, <3>3, <3>4 DEF Offer, Carrier
        <3> QED BY <3>1, <3>5
    <2>2. CASE ~(t.pending.sid # 0 /\ t.pending.base = t.view)
        BY <2>2 DEF StartPeer
    <2> QED BY <2>1, <2>2
<1>4. UNCHANGED <<log, store, reif, opened, edits, faults>>
    BY DEF StartPeer
<1> HIDE DEF t
<1>5. Good(a, u) /\ u.install.sid = 0
    BY <1>2, LoadedGood DEF IInv, SameSession
<1> HIDE DEF u
<1>6. Good(a, d) /\ d.install.sid = 0
    BY <1>2, DropPendingGood DEF SameSession
<1>7. r = [d EXCEPT !.needed = TRUE]
    BY <1>2 DEF Good, WideTask
<1> HIDE DEF d, r
<1>8. Good(a, r) /\ r.install.sid = 0
    BY <1>6, <1>7, NeededGood DEF SameSession
<1>9. \A v \in {t, u, BeginSession(a, u), BeginSession(a, r)} : Good(a, v)
    BY <1>2, <1>5, <1>8, BeginSessionGood DEF IInv
<1>10. net \subseteq Carrier /\ reif' \in [Actor -> SUBSET Reification]
       /\ edits' \in Nat /\ faults' \in Nat
    BY <1>4 DEF IInv, TypeOK
<1> QED BY <1>3, <1>4, <1>9, <1>10, BecomeStep

\* carrier(), Offer.
LEMMA OfferStep ==
    ASSUME IInv, NEW a \in Actor, NEW sid \in Sid, RecvOffer(a, sid)
    PROVE  IInv'
<1>1. PICK m \in net : \E in \in {net, net \ {m}} :
        /\ m.kind = "Offer" /\ m.sid = sid
        /\ Deliver(m, in)
        /\ Become(a, AcceptOffer(a, task[a], m), in, {})
    BY DEF RecvOffer
<1>2. PICK in \in {net, net \ {m}} :
        /\ m.kind = "Offer" /\ m.sid = sid
        /\ Deliver(m, in)
        /\ Become(a, AcceptOffer(a, task[a], m), in, {})
    BY <1>1
<1>3. Idle(a) /\ UNCHANGED <<log, store, reif, opened, edits>>
    BY DEF RecvOffer
<1>4. m.epoch \in Nat
    <2>1. m \in Carrier
        BY DEF IInv, TypeOK
    <2> QED BY <1>2, <2>1 DEF Carrier, Epoch
<1>5. Good(a, AcceptOffer(a, task[a], m))
    BY <1>2, <1>3, <1>4, IdleGood, AcceptOfferGood DEF IInv
<1>6. in \subseteq Carrier /\ faults' \in Nat
    BY <1>2, DeliverTyped
<1>7. reif' \in [Actor -> SUBSET Reification] /\ edits' \in Nat
    BY <1>3 DEF IInv, TypeOK
<1> QED BY <1>2, <1>3, <1>5, <1>6, <1>7, BecomeStep

\* carrier(), Answer.
LEMMA AnswerStep ==
    ASSUME IInv, NEW a \in Actor, NEW sid \in Sid, RecvAnswer(a, sid)
    PROVE  IInv'
<1> DEFINE m == Answer(Other(a), sid)
           u == IF task[a].pending.sid = 0 THEN task[a] ELSE AcceptAnswer(a, task[a], sid)
<1>1. PICK in \in {net, net \ {m}} : Deliver(m, in) /\ Become(a, u, in, {})
    BY DEF RecvAnswer
<1>2. Idle(a) /\ UNCHANGED <<log, store, reif, opened, edits>>
    BY DEF RecvAnswer
<1>3. Good(a, u)
    BY <1>2, IdleGood, AcceptAnswerGood DEF IInv
<1>4. in \subseteq Carrier /\ faults' \in Nat
    BY <1>1, DeliverTyped
<1>5. reif' \in [Actor -> SUBSET Reification] /\ edits' \in Nat
    BY <1>2 DEF IInv, TypeOK
<1> HIDE DEF u
<1> QED BY <1>1, <1>2, <1>3, <1>4, <1>5, BecomeStep

\* carrier(), Event.
LEMMA EventStep ==
    ASSUME IInv, NEW a \in Actor, NEW sid \in Sid, NEW n \in 1 .. MaxEvents,
           RecvEvent(a, sid, n)
    PROVE  IInv'
<1> DEFINE m == Event(Other(a), sid, n)
           t == task[a]
           r == [t EXCEPT !.needed = TRUE]
           e == [t EXCEPT !.active.rcvd = @ \cup {n}]
<1>1. PICK in \in {net, net \ {m}} :
        /\ Deliver(m, in)
        /\ \/ /\ \E v \in {r, BeginSession(a, r), StartReadyRenewals(a, r), t, e} :
                  Become(a, v, in, {})
              /\ UNCHANGED <<log, store, reif, opened>>
           \/ Reopen(a, in)
    BY DEF RecvEvent
<1>2. Idle(a) /\ UNCHANGED edits
    BY DEF RecvEvent
<1>3. Good(a, t) /\ t.install.sid = 0
    BY <1>2, IdleGood
<1>4. in \subseteq Carrier /\ faults' \in Nat /\ edits' \in Nat
    <2>1. edits' \in Nat
        BY <1>2 DEF IInv, TypeOK
    <2> QED BY <1>1, <2>1, DeliverTyped
<1>5. CASE Reopen(a, in)
    BY <1>4, <1>5, ReopenStep
<1>6. CASE UNCHANGED <<log, store, reif, opened>> /\
           \E v \in {r, BeginSession(a, r), StartReadyRenewals(a, r), t, e} : Become(a, v, in, {})
    <2> HIDE DEF t
    <2>1. Good(a, r) /\ r.install.sid = 0
        BY <1>3, NeededGood DEF SameSession
    <2>2. Good(a, e)
        <3> DEFINE s == [t.active EXCEPT !.rcvd = @ \cup {n}]
        <3>1. e = [t EXCEPT !.active = s]
            BY <1>3 DEF Good, WideTask
        <3>2. /\ s \in [sid : 0 .. MaxSid, epoch : Nat, lease : BOOLEAN, sent : 0 .. MaxEvents,
                        rcvd : SUBSET (1 .. MaxEvents), admitted : SUBSET Dot,
                        waiting : SUBSET [n : 1 .. MaxEvents, deps : SUBSET Dot]]
              /\ s.sid = t.active.sid /\ s.epoch = t.active.epoch
            BY <1>3 DEF Good, WideTask
        <3> HIDE DEF s, e
        <3>3. /\ e \in WideTask /\ e.active = s /\ e.cache = t.cache /\ e.pending = t.pending
              /\ e.install = t.install /\ e.view = t.view
            BY <1>3, <3>1, <3>2, SMTT(60) DEF Good, WideTask
        <3> QED BY <1>3, <3>2, <3>3 DEF Good, Ledger
    <2> HIDE DEF r, e
    <2>3. \A v \in {r, BeginSession(a, r), StartReadyRenewals(a, r), t, e} : Good(a, v)
        BY <1>3, <2>1, <2>2, BeginSessionGood, StartReadyGood DEF IInv
    <2>4. reif' \in [Actor -> SUBSET Reification]
        BY <1>6 DEF IInv, TypeOK
    <2> QED BY <1>4, <1>6, <2>3, <2>4, BecomeStep
<1> QED BY <1>1, <1>5, <1>6

\* install_session, the write of the floor: the epoch installed lies above the
\* floor, so what was opened before lies strictly below the new one.
LEMMA PersistStep ==
    ASSUME IInv, NEW a \in Actor, PersistFloor(a)
    PROVE  IInv'
<1> DEFINE t == task[a]
           i == [t.install EXCEPT !.durable = TRUE]
           u == [t EXCEPT !.install = i]
<1>1. edits' \in Nat /\ faults' \in Nat /\ net \subseteq Carrier
    BY DEF PersistFloor, IInv, TypeOK
<1>2. CASE t.view # Len(log[a])
    <2> DEFINE v == [t EXCEPT !.install = NoInstall, !.needed = TRUE, !.doomed = TRUE]
    <2>1. /\ task' = [task EXCEPT ![a] = v]
          /\ UNCHANGED <<log, store, reif, net, nextSid, opened, edits, faults>>
        BY <1>2 DEF PersistFloor
    <2>2. /\ t \in Task /\ Ledger(t, store[a]) /\ t.install.sid # 0 /\ ~t.install.durable
          /\ task \in [Actor -> Task]
        BY DEF IInv, TypeOK, PersistFloor
    <2>3. NoInstall \in [sid : 0 .. MaxSid, epoch : Nat, answer : BOOLEAN, durable : BOOLEAN]
          /\ NoInstall.sid = 0 /\ ~NoInstall.durable
        BY RoomSessionAssumption DEF NoInstall
    <2> HIDE DEF t
    <2>4. v \in Task /\ v.install = NoInstall /\ v.cache = t.cache /\ v.pending = t.pending
          /\ v.active = t.active /\ v.view = t.view
        BY <2>2, <2>3, ZenonT(60) DEF Task
    <2> HIDE DEF v
    <2>5. Ledger(v, store[a])
        BY <2>2, <2>3, <2>4 DEF Ledger
    <2>6. /\ task' \in [Actor -> Task] /\ task'[a] = v
          /\ \A b \in Actor \ {a} : task'[b] = task[b]
        BY <2>1, <2>2, <2>4
    <2>7. \A b \in Actor : Ledger(task'[b], store'[b]) /\ task'[b].view <= Len(log'[b])
        BY <2>1, <2>4, <2>5, <2>6 DEF IInv, TypeOK, t
    <2>8. TypeOK'
        BY <2>1, <2>6, <2>7 DEF IInv, TypeOK
    <2>9. \A b \in Actor : task'[b].install.durable => task[b].install.durable
        BY <2>3, <2>4, <2>6
    <2>10. OpenedBelowFloor'
        BY <2>1, <2>9 DEF IInv, OpenedBelowFloor
    <2>11. EpochOpensOnce'
        BY <2>1 DEF IInv, EpochOpensOnce
    <2> QED BY <2>7, <2>8, <2>10, <2>11 DEF IInv
<1>3. CASE t.view = Len(log[a])
    <2>1. /\ t.install.sid # 0 /\ ~t.install.durable
          /\ store' = [store EXCEPT ![a] = t.install.epoch]
          /\ UNCHANGED <<log, reif, net, nextSid, opened, edits, faults>>
        BY <1>3 DEF PersistFloor
    <2>2. t \in Task /\ Ledger(t, store[a]) /\ store \in [Actor -> Nat] /\ task \in [Actor -> Task]
        BY DEF IInv, TypeOK
    <2>3. task' = [task EXCEPT ![a] = u]
        BY <1>3, <2>2 DEF PersistFloor
    <2>4. i \in [sid : 0 .. MaxSid, epoch : Nat, answer : BOOLEAN, durable : BOOLEAN]
          /\ i.sid = t.install.sid /\ i.epoch = t.install.epoch /\ i.durable
        BY <2>2 DEF Task
    <2> HIDE DEF i, t
    <2>5. u \in Task /\ u.install = i /\ u.cache = t.cache /\ u.pending = t.pending
          /\ u.active = t.active /\ u.view = t.view
        BY <2>2, <2>4 DEF Task
    <2> HIDE DEF u
    <2>6. store[a] < t.install.epoch /\ t.install.epoch \in Nat /\ store[a] \in Nat
        BY <2>1, <2>2 DEF Ledger, Task
    <2>7. /\ store' \in [Actor -> Nat] /\ store'[a] = t.install.epoch
          /\ \A b \in Actor \ {a} : store'[b] = store[b]
        BY <2>1, <2>2, <2>6
    <2>8. /\ task' \in [Actor -> Task] /\ task'[a] = u
          /\ \A b \in Actor \ {a} : task'[b] = task[b]
        BY <2>2, <2>3, <2>5
    <2>9. Ledger(u, store'[a])
        <3>1. t.pending.sid = 0
            BY <2>1, <2>2 DEF Ledger
        <3>2. t.cache # NotLoaded => t.cache < store'[a]
            BY <2>1, <2>2, <2>6, <2>7 DEF Ledger
        <3> QED BY <2>1, <2>2, <2>4, <2>5, <2>7, <3>1, <3>2 DEF Ledger
    <2>10. \A b \in Actor : Ledger(task'[b], store'[b]) /\ task'[b].view <= Len(log'[b])
        BY <2>1, <2>5, <2>7, <2>8, <2>9 DEF IInv, TypeOK, t
    <2>11. TypeOK'
        BY <2>1, <2>7, <2>8, <2>10 DEF IInv, TypeOK
    <2>12. OpenedBelowFloor'
        <3> SUFFICES ASSUME NEW b \in Actor, NEW x \in opened[b]
                     PROVE  x[1] <= store'[b] /\ (task'[b].install.durable => x[1] < store'[b])
            BY <2>1 DEF OpenedBelowFloor
        <3>1. x[1] <= store[b] /\ (task[b].install.durable => x[1] < store[b])
            BY DEF IInv, OpenedBelowFloor
        <3>2. x[1] \in Nat
            BY DEF IInv, TypeOK, Epoch
        <3> QED BY <2>6, <2>7, <2>8, <3>1, <3>2
    <2>13. EpochOpensOnce'
        BY <2>1 DEF IInv, EpochOpensOnce
    <2> QED BY <2>10, <2>11, <2>12, <2>13 DEF IInv
<1> QED BY <1>2, <1>3

\* install_session, the activation: the epoch opened is the new floor, which no
\* epoch opened before has reached.
LEMMA InstallStep ==
    ASSUME IInv, NEW a \in Actor, InstallSession(a)
    PROVE  IInv'
<1> DEFINE t == task[a]
           i == t.install
           s == NewActive(i.sid, i.epoch)
           u == [t EXCEPT !.install = NoInstall, !.cache = i.epoch, !.active = s]
           x == <<i.epoch, i.sid>>
<1>1. /\ i.sid # 0 /\ i.durable
      /\ task' = [task EXCEPT ![a] = u]
      /\ net' = IF i.answer THEN net \cup {Answer(a, i.sid)} ELSE net
      /\ opened' = [opened EXCEPT ![a] = @ \cup {x}]
      /\ UNCHANGED <<log, store, reif, nextSid, edits, faults>>
    BY DEF InstallSession
<1>2. t \in Task /\ Ledger(t, store[a]) /\ store \in [Actor -> Nat] /\ task \in [Actor -> Task]
    BY DEF IInv, TypeOK
<1>3. i \in [sid : 0 .. MaxSid, epoch : Nat, answer : BOOLEAN, durable : BOOLEAN]
      /\ i.sid \in Sid /\ i.epoch \in Epoch /\ i.epoch = store[a] /\ t.pending.sid = 0
    BY <1>1, <1>2 DEF Task, Ledger, Sid, Epoch
<1>4. /\ s \in [sid : 0 .. MaxSid, epoch : Nat, lease : BOOLEAN, sent : 0 .. MaxEvents,
               rcvd : SUBSET (1 .. MaxEvents), admitted : SUBSET Dot,
               waiting : SUBSET [n : 1 .. MaxEvents, deps : SUBSET Dot]]
      /\ s.sid = i.sid /\ s.epoch = i.epoch
    <2>1. i.sid \in 0 .. MaxSid /\ i.epoch \in Nat /\ 0 \in 0 .. MaxEvents
        BY <1>3, RoomSessionAssumption
    <2> HIDE DEF i
    <2> QED BY <2>1 DEF NewActive
<1>5. NoInstall \in [sid : 0 .. MaxSid, epoch : Nat, answer : BOOLEAN, durable : BOOLEAN]
      /\ NoInstall.sid = 0 /\ ~NoInstall.durable
    BY RoomSessionAssumption DEF NoInstall
<1> HIDE DEF t, i, s
<1>6. u \in Task /\ u.install = NoInstall /\ u.cache = i.epoch /\ u.active = s
      /\ u.pending = t.pending /\ u.view = t.view
    BY <1>2, <1>3, <1>4, <1>5 DEF Task
<1> HIDE DEF u
<1>7. task' \in [Actor -> Task] /\ task'[a] = u /\ \A b \in Actor \ {a} : task'[b] = task[b]
    BY <1>1, <1>2, <1>6
<1>8. Ledger(u, store[a])
    BY <1>3, <1>4, <1>5, <1>6 DEF Ledger, NotLoaded, Epoch
<1>9. \A b \in Actor : Ledger(task'[b], store'[b]) /\ task'[b].view <= Len(log'[b])
    BY <1>1, <1>6, <1>7, <1>8 DEF IInv, TypeOK, t
<1>10. net' \subseteq Carrier
    BY <1>1, <1>3 DEF IInv, TypeOK, Answer, Carrier
<1>11. /\ opened' \in [Actor -> SUBSET (Epoch \X Sid)]
       /\ opened'[a] = opened[a] \cup {x} /\ \A b \in Actor \ {a} : opened'[b] = opened[b]
    BY <1>1, <1>3 DEF IInv, TypeOK
<1>12. TypeOK'
    BY <1>1, <1>7, <1>9, <1>10, <1>11 DEF IInv, TypeOK
<1>13. \A y \in opened[a] : y[1] < store[a]
    BY <1>1 DEF IInv, OpenedBelowFloor, t, i
<1>14. x[1] = store[a] /\ store[a] \in Nat
    BY <1>2, <1>3
<1> HIDE DEF x
<1>15. OpenedBelowFloor'
    <2>1. \A y \in opened'[a] : y[1] <= store'[a]
        BY <1>1, <1>11, <1>13, <1>14 DEF IInv, OpenedBelowFloor
    <2>2. ~task'[a].install.durable
        BY <1>5, <1>6, <1>7
    <2>3. ASSUME NEW b \in Actor \ {a}, NEW y \in opened'[b]
          PROVE  y[1] <= store'[b] /\ (task'[b].install.durable => y[1] < store'[b])
        BY <1>1, <1>7, <1>11 DEF IInv, OpenedBelowFloor
    <2> QED BY <2>1, <2>2, <2>3 DEF OpenedBelowFloor
<1>16. EpochOpensOnce'
    <2> SUFFICES ASSUME NEW b \in Actor, NEW y \in opened'[b], NEW z \in opened'[b], y[1] = z[1]
                 PROVE  y = z
        BY DEF EpochOpensOnce
    <2>1. CASE b # a
        BY <1>11, <2>1 DEF IInv, EpochOpensOnce
    <2>2. CASE b = a
        <3>1. ~(y \in opened[a] /\ z = x) /\ ~(z \in opened[a] /\ y = x)
            BY <1>13, <1>14, <2>2 DEF IInv, TypeOK, Epoch
        <3> QED BY <1>11, <2>2, <3>1 DEF IInv, EpochOpensOnce
    <2> QED BY <2>1, <2>2
<1> QED BY <1>9, <1>12, <1>15, <1>16 DEF IInv

\* local_edit inside a session.
LEMMA EditStep ==
    ASSUME IInv, NEW a \in Actor, LocalEdit(a)
    PROVE  IInv'
<1> DEFINE t == task[a]
           s == t.active
           n == s.sent + 1
           c == Context(a, s)
           r == Reify(s.sid, n, c)
           w == [n |-> n, deps |-> c]
           Active == [sid : 0 .. MaxSid, epoch : Nat, lease : BOOLEAN, sent : 0 .. MaxEvents,
                      rcvd : SUBSET (1 .. MaxEvents), admitted : SUBSET Dot,
                      waiting : SUBSET [n : 1 .. MaxEvents, deps : SUBSET Dot]]
           p == [s EXCEPT !.sent = n]
           q == [p EXCEPT !.waiting = @ \cup {w}]
           f == t.inflight \cup {r}
           u == [t EXCEPT !.active = p, !.inflight = f]
           v == [t EXCEPT !.active = q]
<1>1. Idle(a) /\ s.sid # 0 /\ ~Saturated(s) /\ UNCHANGED faults
      /\ edits' = edits + 1
    BY DEF LocalEdit
<1>2. edits' \in Nat /\ faults' \in Nat /\ net \subseteq Carrier
    BY <1>1, RoomSessionAssumption DEF IInv, TypeOK
<1>3. CASE ~s.lease
    BY <1>2, <1>3, ReopenStep DEF LocalEdit
<1>4. CASE s.lease
    <2>1. Good(a, t) /\ t.install.sid = 0 /\ t \in Task /\ task \in [Actor -> Task]
        BY <1>1, IdleGood DEF IInv, TypeOK
    <2>2. s \in Active /\ t.inflight \in SUBSET Reification
        BY <2>1 DEF Task
    <2>3. n \in 1 .. MaxEvents /\ s.sid \in Sid
        BY <1>1, <2>2, RoomSessionAssumption DEF Saturated, Sid
    <2>4. c \in SUBSET Dot
        BY DEF Context
    <2>5. r \in Reification /\ w \in [n : 1 .. MaxEvents, deps : SUBSET Dot]
        <3> HIDE DEF n, c, s
        <3> QED BY <2>3, <2>4 DEF Reify, Reification
    <2>6. /\ UNCHANGED <<log, store, nextSid, opened>>
          /\ net' = net \cup {Event(a, s.sid, n)}
          /\ \/ /\ task' = [task EXCEPT ![a] = u]
                /\ reif' = [reif EXCEPT ![a] = @ \cup {r}]
             \/ /\ task' = [task EXCEPT ![a] = v]
                /\ UNCHANGED reif
        <3> DEFINE sealed == [t EXCEPT !.active.sent = n]
                   put == [sealed EXCEPT !.inflight = @ \cup {r}]
                   keep == [sealed EXCEPT !.active.waiting = @ \cup {w}]
        <3>1. put = u
            BY <2>1, <2>2 DEF Task
        <3>2. keep = v
            BY <2>1, <2>2 DEF Task
        <3>3. /\ UNCHANGED <<log, store, nextSid, opened>>
              /\ net' = net \cup {Event(a, s.sid, n)}
              /\ \/ /\ task' = [task EXCEPT ![a] = put]
                    /\ reif' = [reif EXCEPT ![a] = @ \cup {r}]
                 \/ /\ task' = [task EXCEPT ![a] = keep]
                    /\ UNCHANGED reif
            BY <1>4 DEF LocalEdit
        <3> QED BY <3>1, <3>2, <3>3
    <2> HIDE DEF c, r, w
    <2>7. net' \subseteq Carrier
        <3> HIDE DEF n, s
        <3> QED BY <1>2, <2>3, <2>6 DEF Event, Carrier
    <2>8. p \in Active /\ p.sid = s.sid /\ p.epoch = s.epoch /\ p.waiting = s.waiting
        BY <2>2, <2>3
    <2> HIDE DEF p
    <2>9. q \in Active /\ q.sid = s.sid /\ q.epoch = s.epoch
        BY <2>2, <2>5, <2>8
    <2> HIDE DEF q
    <2>10. \A y \in {u, v} :
              /\ y \in Task /\ y.cache = t.cache /\ y.pending = t.pending
              /\ y.install = t.install /\ y.view = t.view
              /\ y.active.sid = s.sid /\ y.active.epoch = s.epoch
        <3>0. f \in SUBSET Reification
            BY <2>2, <2>5
        <3> HIDE DEF f
        <3>1. u \in Task /\ u.cache = t.cache /\ u.pending = t.pending
              /\ u.install = t.install /\ u.view = t.view
              /\ u.active.sid = s.sid /\ u.active.epoch = s.epoch
            BY <2>1, <2>8, <3>0, ZenonT(60) DEF Task
        <3>2. v \in Task /\ v.cache = t.cache /\ v.pending = t.pending
              /\ v.install = t.install /\ v.view = t.view
              /\ v.active.sid = s.sid /\ v.active.epoch = s.epoch
            BY <2>1, <2>9, SMTT(60) DEF Task
        <3> HIDE DEF u, v
        <3> QED BY <3>1, <3>2
    <2>11. PICK y \in {u, v} : task' = [task EXCEPT ![a] = y]
        BY <2>6
    <2>12. reif' \in [Actor -> SUBSET Reification]
        <3>1. reif \in [Actor -> SUBSET Reification]
            BY DEF IInv, TypeOK
        <3>2. reif[a] \cup {r} \in SUBSET Reification
            BY <2>5, <3>1
        <3> HIDE DEF r
        <3> QED BY <2>6, <3>1, <3>2
    <2> HIDE DEF u, v
    <2>13. SameLedger(y, t)
        BY <2>10 DEF SameLedger, s
    <2> HIDE DEF t, s
    <2> QED BY <1>2, <2>6, <2>7, <2>10, <2>11, <2>12, <2>13, SessionStep DEF t
<1> QED BY <1>3, <1>4

\* The lease of an epoch runs out.
LEMMA ExpireStep ==
    ASSUME IInv, NEW a \in Actor, ExpireLease(a)
    PROVE  IInv'
<1> DEFINE t == task[a]
           s == [t.active EXCEPT !.lease = FALSE]
           u == [t EXCEPT !.active = s]
<1>1. t \in Task /\ task \in [Actor -> Task]
    BY DEF IInv, TypeOK
<1>2. task' = [task EXCEPT ![a] = u] /\ UseFault
      /\ UNCHANGED <<log, store, reif, net, nextSid, opened, edits>>
    BY <1>1 DEF ExpireLease, Task
<1>3. /\ s \in [sid : 0 .. MaxSid, epoch : Nat, lease : BOOLEAN, sent : 0 .. MaxEvents,
               rcvd : SUBSET (1 .. MaxEvents), admitted : SUBSET Dot,
               waiting : SUBSET [n : 1 .. MaxEvents, deps : SUBSET Dot]]
      /\ s.sid = t.active.sid /\ s.epoch = t.active.epoch
    BY <1>1 DEF Task
<1> HIDE DEF s, t
<1>4. u \in Task /\ SameLedger(u, t)
    BY <1>1, <1>3 DEF Task, SameLedger
<1> HIDE DEF u
<1>5. /\ faults' \in Nat /\ edits' \in Nat /\ net' \subseteq Carrier
      /\ reif' \in [Actor -> SUBSET Reification] /\ UNCHANGED <<log, store, nextSid, opened>>
    BY <1>2, FaultTyped DEF IInv, TypeOK
<1> QED BY <1>2, <1>4, <1>5, SessionStep DEF t

\* A lost carrier.
LEMMA LoseStep ==
    ASSUME IInv, NEW m \in net, Lose(m)
    PROVE  IInv'
<1>1. UNCHANGED <<log, store, task, reif, nextSid, opened, edits>> /\ net' \subseteq net /\ UseFault
    BY DEF Lose
<1>2. faults' \in Nat
    BY <1>1, FaultTyped DEF IInv
<1> QED BY <1>1, <1>2 DEF IInv, TypeOK, OpenedBelowFloor, EpochOpensOnce

(***************************************************************************)
(* The invariant holds initially and is preserved, one case per action.    *)
(***************************************************************************)

\* A room that has just been created is in step.
LEMMA InitIInv == ASSUME Init PROVE IInv
<1> DEFINE t == FreshTask(<<>>)
<1>1. /\ t \in Task
      /\ t.view = 0 /\ t.cache = NotLoaded /\ t.pending.sid = 0
      /\ t.active.sid = 0 /\ t.install.sid = 0 /\ ~t.install.durable
    <2>1. Len(<<>>) = 0
        OBVIOUS
    <2> QED BY <2>1, RoomSessionAssumption
            DEF FreshTask, Task, NoPending, NoActive, NewActive, NoInstall
<1>2. task = [a \in Actor |-> t]
    BY DEF Init
<1> HIDE DEF t
<1>3. task \in [Actor -> Task] /\ \A a \in Actor : task[a] = t
    BY <1>1, <1>2
<1>4. \A a \in Actor : Ledger(task[a], store[a])
    BY <1>1, <1>3 DEF Ledger
<1>5. log \in [Actor -> Seq(Item)] /\ \A a \in Actor : task[a].view <= Len(log[a])
    BY <1>1, <1>3 DEF Init
<1>6. TypeOK
    BY <1>3, <1>5, RoomSessionAssumption DEF Init, TypeOK
<1>7. OpenedBelowFloor /\ EpochOpensOnce
    BY DEF Init, OpenedBelowFloor, EpochOpensOnce
<1> QED BY <1>4, <1>6, <1>7 DEF IInv

\* Every step keeps every placement in step with its durable state.
LEMMA NextIInv == ASSUME IInv, [Next]_vars PROVE IInv'
<1>1. ASSUME NEW a \in Actor, CommitDurable(a) PROVE IInv'
    BY <1>1, HistorySteps
<1>2. ASSUME NEW a \in Actor, DrainSession(a) PROVE IInv'
    BY <1>2, HistorySteps
<1>3. ASSUME NEW a \in Actor, AdvanceDurable(a) PROVE IInv'
    BY <1>3, AdvanceStep
<1>4. ASSUME NEW a \in Actor, NEW live \in BOOLEAN, Replicate(a, live) PROVE IInv'
    BY <1>4, HistorySteps
<1>5. ASSUME NEW a \in Actor, StartPeer(a) PROVE IInv'
    BY <1>5, StartPeerStep
<1>6. ASSUME NEW a \in Actor, NEW sid \in Sid, RecvOffer(a, sid) PROVE IInv'
    BY <1>6, OfferStep
<1>7. ASSUME NEW a \in Actor, NEW sid \in Sid, RecvAnswer(a, sid) PROVE IInv'
    BY <1>7, AnswerStep
<1>8. ASSUME NEW a \in Actor, NEW sid \in Sid, NEW n \in 1 .. MaxEvents, RecvEvent(a, sid, n)
      PROVE  IInv'
    BY <1>8, EventStep
<1>9. ASSUME NEW a \in Actor, PersistFloor(a) PROVE IInv'
    BY <1>9, PersistStep
<1>10. ASSUME NEW a \in Actor, InstallSession(a) PROVE IInv'
    BY <1>10, InstallStep
<1>11. ASSUME NEW a \in Actor, LocalEdit(a) PROVE IInv'
    BY <1>11, EditStep
<1>12. ASSUME NEW a \in Actor, ExpireLease(a) PROVE IInv'
    BY <1>12, ExpireStep
<1>13. ASSUME NEW a \in Actor, Crash(a) PROVE IInv'
    <2>1. Reopen(a, net) /\ UseFault /\ UNCHANGED edits
        BY <1>13 DEF Crash
    <2>2. net \subseteq Carrier /\ edits' \in Nat /\ faults' \in Nat
        BY <2>1, FaultTyped DEF IInv, TypeOK
    <2> QED BY <2>1, <2>2, ReopenStep
<1>14. ASSUME NEW m \in net, Lose(m) PROVE IInv'
    BY <1>14, LoseStep
<1>15. CASE UNCHANGED vars
    BY <1>15 DEF vars, IInv, TypeOK, OpenedBelowFloor, EpochOpensOnce
<1>16. ASSUME NEW a \in Actor, EndGeneration(a) PROVE IInv'
    <2>1. Reopen(a, net) /\ UNCHANGED <<edits, faults>>
        BY <1>16 DEF EndGeneration
    <2>2. net \subseteq Carrier /\ edits' \in Nat /\ faults' \in Nat
        BY <2>1 DEF IInv, TypeOK
    <2> QED BY <2>1, <2>2, ReopenStep
<1> QED BY <1>1, <1>2, <1>3, <1>4, <1>5, <1>6, <1>7, <1>8, <1>9, <1>10, <1>11, <1>12, <1>13,
           <1>14, <1>15, <1>16 DEF Next

\* The inductive invariant holds in every behaviour.
THEOREM InductiveInvariant == Spec => []IInv
<1>1. Init => IInv
    BY InitIInv
<1>2. IInv /\ [Next]_vars => IInv'
    BY NextIInv
<1> QED BY <1>1, <1>2, PTL DEF Spec

\* For every bound, the worker, the session task and the carriers keep their
\* shape; in particular a session is only begun from a loaded floor.
THEOREM TypeCorrect == Spec => []TypeOK
<1>1. IInv => TypeOK
    BY DEF IInv
<1> QED BY <1>1, InductiveInvariant, PTL

\* For every bound, what install_session, begin_session and the Offer handler
\* believe of the renewal floor is what the worker holds.
THEOREM FloorIsCoherent == Spec => []FloorCoherent
<1>1. IInv => FloorCoherent
    BY DEF IInv, Ledger, FloorCoherent
<1> QED BY <1>1, InductiveInvariant, PTL

\* For every bound and whatever crashes, losses and duplicates happen, no
\* placement opens an epoch twice.
THEOREM NoEpochReopened == Spec => []EpochOpensOnce
<1>1. IInv => EpochOpensOnce
    BY DEF IInv
<1> QED BY <1>1, InductiveInvariant, PTL

(***************************************************************************)
(* The floor only rises, and no Answer leaves before it does.              *)
(***************************************************************************)

\* A step that neither writes a floor nor activates an epoch sends no Answer.
Quiet ==
    /\ UNCHANGED <<store, opened>>
    /\ \A m \in net' : m.kind = "Answer" => m \in net

\* Negotiation sends Offers only.
LEMMA BecomeQuiet ==
    ASSUME NEW a, NEW t, NEW in, in \subseteq net, NEW out,
           \A m \in out : m.kind # "Answer", Become(a, t, in, out)
    PROVE  \A m \in net' : m.kind = "Answer" => m \in net
BY DEF Become, Begun, Offer

\* All but the two halves of install_session are quiet.
LEMMA QuietSteps ==
    ASSUME NEW a \in Actor,
           \/ CommitDurable(a) \/ DrainSession(a) \/ AdvanceDurable(a)
           \/ \E live \in BOOLEAN : Replicate(a, live)
           \/ StartPeer(a)
           \/ \E sid \in Sid : RecvOffer(a, sid) \/ RecvAnswer(a, sid)
           \/ \E sid \in Sid, n \in 1 .. MaxEvents : RecvEvent(a, sid, n)
           \/ EndGeneration(a) \/ LocalEdit(a) \/ ExpireLease(a) \/ Crash(a)
    PROVE  Quiet
<1>1. CASE CommitDurable(a) \/ DrainSession(a) \/ \E live \in BOOLEAN : Replicate(a, live)
    BY <1>1 DEF CommitDurable, DrainSession, Replicate, Quiet
<1>2. CASE AdvanceDurable(a)
    <2>1. UNCHANGED <<store, opened>> /\ \E u : Become(a, u, net, {})
        BY <1>2 DEF AdvanceDurable
    <2> QED BY <2>1, BecomeQuiet DEF Quiet
<1>3. CASE StartPeer(a)
    <2> DEFINE t == [task[a] EXCEPT !.known = TRUE]
               o == Offer(a, t.pending, View(a, t))
    <2>1. UNCHANGED <<store, opened>>
        BY <1>3 DEF StartPeer
    <2>2. \E u, out : Become(a, u, net, out) /\ out \in {{}, {o}}
        BY <1>3 DEF StartPeer
    <2>3. o.kind # "Answer"
        BY DEF Offer
    <2> HIDE DEF o
    <2> QED BY <2>1, <2>2, <2>3, BecomeQuiet DEF Quiet
<1>4. ASSUME NEW sid \in Sid, RecvOffer(a, sid) PROVE Quiet
    <2>1. UNCHANGED <<store, opened>> /\ \E u, in : in \subseteq net /\ Become(a, u, in, {})
        BY <1>4 DEF RecvOffer
    <2> QED BY <2>1, BecomeQuiet DEF Quiet
<1>5. ASSUME NEW sid \in Sid, RecvAnswer(a, sid) PROVE Quiet
    <2>1. UNCHANGED <<store, opened>> /\ \E u, in : in \subseteq net /\ Become(a, u, in, {})
        BY <1>5 DEF RecvAnswer
    <2> QED BY <2>1, BecomeQuiet DEF Quiet
<1>6. ASSUME NEW sid \in Sid, NEW n \in 1 .. MaxEvents, RecvEvent(a, sid, n) PROVE Quiet
    <2>1. \E in : /\ in \subseteq net
                  /\ \/ UNCHANGED <<store, opened>> /\ \E u : Become(a, u, in, {})
                     \/ Reopen(a, in)
        BY <1>6 DEF RecvEvent
    <2>2. ASSUME NEW in, in \subseteq net, Reopen(a, in) PROVE Quiet
        BY <2>2 DEF Reopen, Quiet
    <2> QED BY <2>1, <2>2, BecomeQuiet DEF Quiet
<1>7. CASE LocalEdit(a)
    <2>1. \/ Reopen(a, net)
          \/ UNCHANGED <<store, opened>> /\ \E sid, n : net' = net \cup {Event(a, sid, n)}
        BY <1>7 DEF LocalEdit
    <2> QED BY <2>1 DEF Reopen, Quiet, Event
<1>8. CASE EndGeneration(a) \/ ExpireLease(a) \/ Crash(a)
    BY <1>8 DEF EndGeneration, ExpireLease, Crash, Reopen, Quiet
<1> QED BY <1>1, <1>2, <1>3, <1>4, <1>5, <1>6, <1>7, <1>8

\* What a step can do to the floors, the opened epochs and the Answers.
LEMMA StepKinds ==
    ASSUME [Next]_vars
    PROVE  Quiet \/ \E a \in Actor : PersistFloor(a) \/ InstallSession(a)
<1>1. CASE UNCHANGED vars
    BY <1>1 DEF vars, Quiet
<1>2. ASSUME NEW m \in net, Lose(m) PROVE Quiet
    BY <1>2 DEF Lose, Quiet
<1> QED BY <1>1, <1>2, QuietSteps DEF Next

\* PersistFloor writes an epoch above the floor or leaves it alone.
LEMMA PersistRaises ==
    ASSUME IInv, NEW a \in Actor, PersistFloor(a)
    PROVE  /\ \A b \in Actor : store'[b] >= store[b]
           /\ UNCHANGED <<net, opened>>
<1>1. UNCHANGED <<net, opened>>
    BY DEF PersistFloor
<1>2. store \in [Actor -> Nat] /\ task[a].install.epoch \in Nat /\ Ledger(task[a], store[a])
    BY DEF IInv, TypeOK, Task
<1>3. \/ UNCHANGED store
      \/ /\ task[a].install.sid # 0 /\ ~task[a].install.durable
         /\ store' = [store EXCEPT ![a] = task[a].install.epoch]
    BY DEF PersistFloor
<1>4. store[a] \in Nat /\ (UNCHANGED store \/ store[a] < task[a].install.epoch)
    BY <1>2, <1>3 DEF Ledger
<1> QED BY <1>1, <1>2, <1>3, <1>4

\* For every bound, no step lowers a durable floor: not a crash, not an older
\* Offer, not a late Answer.
THEOREM FloorNeverFalls == Spec => FloorOnlyRises
<1>1. IInv /\ [Next]_vars => [\A a \in Actor : store'[a] >= store[a]]_vars
    <2> SUFFICES ASSUME IInv, [Next]_vars PROVE \A a \in Actor : store'[a] >= store[a]
        OBVIOUS
    <2>1. store \in [Actor -> Nat]
        BY DEF IInv, TypeOK
    <2>2. ASSUME UNCHANGED store PROVE \A a \in Actor : store'[a] >= store[a]
        BY <2>1, <2>2
    <2>3. ASSUME NEW a \in Actor, InstallSession(a) PROVE UNCHANGED store
        BY <2>3 DEF InstallSession
    <2> QED BY <2>2, <2>3, StepKinds, PersistRaises DEF Quiet
<1> QED BY <1>1, InductiveInvariant, PTL DEF Spec, FloorOnlyRises

\* Every step keeps the Answers on the wire covered by their sender's floor.
LEMMA AnswerStepwise ==
    ASSUME IInv, AnswerFollowsFloor, [Next]_vars
    PROVE  AnswerFollowsFloor'
<1>0. /\ store \in [Actor -> Nat] /\ opened \in [Actor -> SUBSET (Epoch \X Sid)]
      /\ net \subseteq Carrier
    BY DEF IInv, TypeOK
<1>1. CASE Quiet
    BY <1>1 DEF Quiet, AnswerFollowsFloor
<1>2. ASSUME NEW a \in Actor, PersistFloor(a) PROVE AnswerFollowsFloor'
    <2>1. UNCHANGED <<net, opened>> /\ \A b \in Actor : store'[b] >= store[b]
        BY <1>2, PersistRaises
    <2> SUFFICES ASSUME NEW m \in net, m.kind = "Answer"
                 PROVE  \E x \in opened[m.from] : x[2] = m.sid /\ x[1] <= store'[m.from]
        BY <2>1 DEF AnswerFollowsFloor
    <2>2. PICK x \in opened[m.from] : x[2] = m.sid /\ x[1] <= store[m.from]
        BY DEF AnswerFollowsFloor
    <2>3. m.from \in Actor
        BY <1>0 DEF Carrier
    <2>4. x[1] \in Nat /\ store[m.from] \in Nat /\ store'[m.from] \in Nat
        BY <1>0, <2>2, <2>3, <1>2, PersistStep, SMTT(60) DEF Epoch, IInv, TypeOK
    <2> QED BY <2>1, <2>2, <2>3, <2>4
<1>3. ASSUME NEW a \in Actor, InstallSession(a) PROVE AnswerFollowsFloor'
    <2> DEFINE i == task[a].install
               x == <<i.epoch, i.sid>>
    <2>1. /\ i.sid # 0 /\ i.durable /\ UNCHANGED store
          /\ net' = IF i.answer THEN net \cup {Answer(a, i.sid)} ELSE net
          /\ opened' = [opened EXCEPT ![a] = @ \cup {x}]
        BY <1>3 DEF InstallSession
    <2>2. i.epoch = store[a] /\ store[a] \in Nat
        BY <1>0, <2>1 DEF IInv, Ledger
    <2> HIDE DEF i
    <2>3. x \in opened'[a] /\ x[2] = i.sid /\ x[1] <= store'[a]
        BY <1>0, <2>1, <2>2
    <2>4. \A b \in Actor : opened[b] \subseteq opened'[b]
        BY <1>0, <2>1
    <2> HIDE DEF x
    <2> SUFFICES ASSUME NEW m \in net', m.kind = "Answer"
                 PROVE  \E y \in opened'[m.from] : y[2] = m.sid /\ y[1] <= store'[m.from]
        BY DEF AnswerFollowsFloor
    <2>5. CASE m \in net
        <3>1. m.from \in Actor
            BY <1>0, <2>5 DEF Carrier
        <3> QED BY <2>1, <2>4, <2>5, <3>1 DEF AnswerFollowsFloor
    <2>6. CASE m = Answer(a, i.sid)
        <3>1. m.from = a /\ m.sid = i.sid
            BY <2>6 DEF Answer
        <3> QED BY <2>3, <3>1
    <2> QED BY <2>1, <2>5, <2>6
<1> QED BY <1>1, <1>2, <1>3, StepKinds

\* For every bound, an Answer is on the wire only once the floor that covers
\* its epoch is durable at its sender.
THEOREM AnswerIsDurable == Spec => []AnswerFollowsFloor
<1>1. Init => AnswerFollowsFloor
    BY DEF Init, AnswerFollowsFloor
<1>2. IInv /\ AnswerFollowsFloor /\ [Next]_vars => AnswerFollowsFloor'
    BY AnswerStepwise
<1> QED BY <1>1, <1>2, InductiveInvariant, PTL DEF Spec

=============================================================================
