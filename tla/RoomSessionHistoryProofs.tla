---------------------- MODULE RoomSessionHistoryProofs ----------------------
(***************************************************************************)
(* Proofs about what a pair session leaves behind, for every bound: a      *)
(* session id names one epoch on both placements, the durable obligations  *)
(* of a session are neither lost nor counted twice, and every history is   *)
(* causally closed.                                                        *)
(***************************************************************************)
EXTENDS RoomSessionProofs

(***************************************************************************)
(* Session ids.  An id is named with its epoch by the pending offer it was *)
(* minted for, the Offers that carry it, the installs it leads to and the  *)
(* sessions it opens.                                                      *)
(***************************************************************************)
TaskNames(t) ==
    {x \in {<<t.pending.sid, t.pending.epoch>>, <<t.install.sid, t.install.epoch>>} : x[1] # 0}

OfferNames(carriers) == {<<m.sid, m.epoch>> : m \in {c \in carriers : c.kind = "Offer"}}

OpenedNames(pairs) == {<<x[2], x[1]>> : x \in pairs}

Names ==
    OfferNames(net) \cup UNION {OpenedNames(opened[a]) \cup TaskNames(task[a]) : a \in Actor}

\* Every id in use was minted, and whoever uses it means the same epoch.
IdsNameEpochs ==
    \A x, y \in Names : x[1] < nextSid /\ (x[1] = y[1] => x[2] = y[2])

(***************************************************************************)
(* Obligations.  The account of a placement a with the history h, the task *)
(* t, the queue q and the epochs o it has opened.                          *)
(***************************************************************************)
Own(a, h) == {i \in 1 .. Len(h) : h[i].entry.by = a /\ h[i].entry.sid # 0}

ReifyOf(e) == Reify(e.sid, e.n, e.deps)

UnconfirmedIn(a, h, v) == {ReifyOf(h[i].entry) : i \in {j \in v + 1 .. Len(h) : j \in Own(a, h)}}

\* Some entry of h is Event d of session sid.
Holds(h, sid, d) ==
    \E j \in 1 .. Len(h) :
        h[j].entry.sid = sid /\ h[j].entry.by = d.by /\ h[j].entry.n = d.n

\* What the task still waits for is queued or committed, all of its session,
\* and an epoch is only installed once nothing is left.
Balanced(a, h, t, q) ==
    /\ t.inflight = q \cup UnconfirmedIn(a, h, t.view)
    /\ \A r \in t.inflight : r.sid = t.active.sid
    /\ t.active.waiting # {} => t.active.sid # 0
    /\ t.install.sid # 0 => t.inflight = {} /\ t.active.waiting = {}

\* What was admitted is in the history, and what is queued follows it.
Grounded(h, t, q) ==
    /\ \A r \in q : r.deps \subseteq t.active.admitted
    /\ \A d \in t.active.admitted : Holds(h, t.active.sid, d)

\* An Event of the placement is at one place: the wait map, the queue or the
\* history; its number was used by the session.
Placed(a, h, s, q) ==
    /\ \A i, j \in Own(a, h) :
        h[i].entry.sid = h[j].entry.sid /\ h[i].entry.n = h[j].entry.n => i = j
    /\ \A r \in q : r.n <= s.sent /\ \A p \in q : p.n = r.n => p = r
    /\ \A w \in s.waiting : w.n <= s.sent /\ \A x \in s.waiting : x.n = w.n => x = w
    /\ \A i \in Own(a, h) : h[i].entry.sid = s.sid =>
        /\ h[i].entry.n <= s.sent
        /\ \A r \in q : r.n # h[i].entry.n
        /\ \A w \in s.waiting : w.n # h[i].entry.n
    /\ \A r \in q, w \in s.waiting : r.n # w.n

\* Reified Events and the active session belong to epochs that were opened.
Opened(a, h, s, o) ==
    /\ \A i \in Own(a, h) : \E x \in o : x[2] = h[i].entry.sid
    /\ s.sid # 0 => <<s.epoch, s.sid>> \in o

Account(a, h, t, q, o) ==
    /\ Balanced(a, h, t, q)
    /\ Grounded(h, t, q)
    /\ Placed(a, h, t.active, q)
    /\ Opened(a, h, t.active, o)

\* What the peer holds of a placement's making, the placement holds.
OwnHeldFirst ==
    \A a, b \in Actor : \A i \in 1 .. Len(log[b]) :
        log[b][i].entry.by = a => log[b][i].entry \in Entries(log[a])

HistoryInv ==
    /\ IdsNameEpochs
    /\ \A a \in Actor : Account(a, log[a], task[a], reif[a], opened[a])
    /\ OwnHeldFirst
    /\ CausalHistory


(***************************************************************************)
(* Session ids: only begin_session makes a new name, with the fresh id.    *)
(***************************************************************************)

\* Names are pairs of numbers.
LEMMA NamesTyped == ASSUME TypeOK PROVE Names \subseteq Nat \X Nat
<1>1. OfferNames(net) \subseteq Nat \X Nat
    <2> SUFFICES ASSUME NEW m \in net, m.kind = "Offer" PROVE m.sid \in Nat /\ m.epoch \in Nat
        BY DEF OfferNames
    <2>1. m \in Carrier
        BY DEF TypeOK
    <2> QED BY <2>1 DEF Carrier, Sid, Epoch
<1>2. ASSUME NEW a \in Actor
      PROVE  OpenedNames(opened[a]) \subseteq Nat \X Nat /\ TaskNames(task[a]) \subseteq Nat \X Nat
    <2>1. OpenedNames(opened[a]) \subseteq Nat \X Nat
        BY DEF TypeOK, OpenedNames, Epoch, Sid
    <2>2. /\ task[a].pending.sid \in Nat /\ task[a].pending.epoch \in Nat
          /\ task[a].install.sid \in Nat /\ task[a].install.epoch \in Nat
        BY RoomSessionAssumption DEF TypeOK, Task
    <2> QED BY <2>1, <2>2 DEF TaskNames
<1> QED BY <1>1, <1>2 DEF Names

\* A step that names nothing new keeps every id at its epoch.
LEMMA OldNames ==
    ASSUME IdsNameEpochs, Names' \subseteq Names, UNCHANGED nextSid
    PROVE  IdsNameEpochs'
BY DEF IdsNameEpochs

\* So does a step that names the fresh id and moves on to the next one.
LEMMA FreshName ==
    ASSUME TypeOK, IdsNameEpochs, NEW e, Names' \subseteq Names \cup {<<nextSid, e>>},
           nextSid' = nextSid + 1
    PROVE  IdsNameEpochs'
<1>1. nextSid \in Nat /\ Names \subseteq Nat \X Nat
    BY NamesTyped DEF TypeOK
<1>2. \A x \in Names : x[1] \in Nat /\ x[1] < nextSid /\ x[1] < nextSid'
    BY <1>1 DEF IdsNameEpochs
<1>3. ASSUME NEW x \in Names', NEW y \in Names'
      PROVE  x[1] < nextSid' /\ (x[1] = y[1] => x[2] = y[2])
    <2>1. \A z \in Names' : z \in Names \/ (z[1] = nextSid /\ z[2] = e)
        OBVIOUS
    <2>2. \A z \in Names : z[1] # nextSid
        BY <1>1, <1>2
    <2>3. nextSid < nextSid'
        BY <1>1
    <2> QED BY <1>2, <2>1, <2>2, <2>3 DEF IdsNameEpochs
<1> QED BY <1>3 DEF IdsNameEpochs

\* A task on its way through a handler names what was named before, and what
\* begin_session has just minted.
NamedBy(t) ==
    \A x \in TaskNames(t) :
        x \in Names \/ (t.pending.sid = nextSid /\ x = <<t.pending.sid, t.pending.epoch>>)

\* Installing such a task and sending its carriers keeps every id at its epoch.
LEMMA BecomeNames ==
    ASSUME TypeOK, IdsNameEpochs, NEW a \in Actor, NEW t, NamedBy(t),
           NEW in, in \subseteq net, NEW out, OfferNames(out) \subseteq TaskNames(t),
           Become(a, t, in, out), UNCHANGED opened
    PROVE  IdsNameEpochs'
<1> DEFINE p == <<t.pending.sid, t.pending.epoch>>
<1>1. task \in [Actor -> Task] /\ task' = [task EXCEPT ![a] = t]
      /\ net' = in \cup out \cup Begun(a, t)
    BY DEF TypeOK, Become
<1>2. task'[a] = t /\ \A b \in Actor \ {a} : task'[b] = task[b]
    BY <1>1
<1>3. OfferNames(in) \subseteq Names
    BY DEF OfferNames, Names
<1>4. OfferNames(Begun(a, t)) \subseteq {x \in {p} : t.pending.sid = nextSid}
    BY DEF OfferNames, Begun, Offer
<1>5. OfferNames(net') \subseteq OfferNames(in) \cup OfferNames(out) \cup OfferNames(Begun(a, t))
    BY <1>1 DEF OfferNames
<1>6. \A x \in Names' : \/ x \in OfferNames(net') \/ x \in TaskNames(t)
                        \/ \E b \in Actor : x \in OpenedNames(opened[b]) \cup TaskNames(task[b])
    BY <1>2 DEF Names
<1>7. \A x \in Names' : x \in Names \/ (t.pending.sid = nextSid /\ x = p)
    <2>1. \A x : (\E b \in Actor : x \in OpenedNames(opened[b]) \cup TaskNames(task[b])) => x \in Names
        BY DEF Names
    <2>2. \A x \in TaskNames(t) : x \in Names \/ (t.pending.sid = nextSid /\ x = p)
        BY DEF NamedBy
    <2>3. \A x \in OfferNames(net') : x \in Names \/ (t.pending.sid = nextSid /\ x = p)
        BY <1>3, <1>4, <1>5, <2>2
    <2> HIDE DEF p
    <2> QED BY <1>6, <2>1, <2>2, <2>3
<1>8. CASE t.pending.sid = nextSid
    <2>1. nextSid' = nextSid + 1
        BY <1>8 DEF Become
    <2>2. Names' \subseteq Names \cup {<<nextSid, t.pending.epoch>>}
        BY <1>7, <1>8
    <2> QED BY <2>1, <2>2, FreshName
<1>9. CASE t.pending.sid # nextSid
    <2>1. UNCHANGED nextSid
        BY <1>9 DEF Become
    <2> QED BY <1>7, <1>9, <2>1, OldNames
<1> QED BY <1>8, <1>9

\* What begin_session mints is the only new name.
LEMMA BeginNames ==
    ASSUME TypeOK, NEW a \in Actor, NEW t \in WideTask, TaskNames(t) \subseteq Names
    PROVE  NamedBy(BeginSession(a, t)) /\ NamedBy(StartReadyRenewals(a, t)) /\ NamedBy(t)
<1> DEFINE u == BeginSession(a, t)
<1>1. SameSession(t, u)
      /\ (\/ u.pending = t.pending
          \/ /\ u.cache \in Nat
             /\ u.pending = [sid |-> nextSid, epoch |-> u.cache + 1,
                             base |-> u.view, floor |-> u.cache])
    BY BeginSessionFacts DEF TypeOK
<1> HIDE DEF u
<1>2. u.install = t.install /\ (u.pending = t.pending \/ u.pending.sid = nextSid)
    BY <1>1 DEF SameSession
<1>3. NamedBy(u)
    BY <1>2 DEF NamedBy, TaskNames
<1>4. NamedBy(t)
    BY DEF NamedBy
<1>5. StartReadyRenewals(a, t) \in {t, u}
    BY DEF StartReadyRenewals, u
<1> QED BY <1>3, <1>4, <1>5 DEF u

\* Loading the floor, asking for a renewal or dropping the pending offer names
\* nothing new.
LEMMA PlainNames ==
    ASSUME NEW a \in Actor, NEW t \in WideTask
    PROVE  /\ TaskNames(Loaded(a, t)) = TaskNames(t)
           /\ TaskNames([t EXCEPT !.needed = TRUE]) = TaskNames(t)
           /\ TaskNames([t EXCEPT !.known = TRUE]) = TaskNames(t)
           /\ TaskNames([t EXCEPT !.pending = NoPending]) \subseteq TaskNames(t)
<1>1. Loaded(a, t).pending = t.pending /\ Loaded(a, t).install = t.install
    BY DEF Loaded, WideTask
<1>2. LET u == [t EXCEPT !.needed = TRUE] IN u.pending = t.pending /\ u.install = t.install
    BY DEF WideTask
<1>3. LET u == [t EXCEPT !.known = TRUE] IN u.pending = t.pending /\ u.install = t.install
    BY DEF WideTask
<1>4. LET u == [t EXCEPT !.pending = NoPending] IN u.pending = NoPending /\ u.install = t.install
    BY DEF WideTask
<1>5. NoPending.sid = 0
    BY DEF NoPending
<1> QED BY <1>1, <1>2, <1>3, <1>4, <1>5 DEF TaskNames

\* A task that starts to install names what it installs.
LEMMA InstallingNames ==
    ASSUME NEW t \in WideTask, NEW sid, NEW epoch, NEW answer, <<sid, epoch>> \in Names
    PROVE  TaskNames(Installing(t, sid, epoch, answer)) \subseteq Names
<1> DEFINE i == [sid |-> sid, epoch |-> epoch, answer |-> answer, durable |-> FALSE]
           u == [t EXCEPT !.pending = NoPending, !.install = i]
<1>1. i.sid = sid /\ i.epoch = epoch /\ NoPending.sid = 0
    BY DEF NoPending
<1>2. Installing(t, sid, epoch, answer) = u
    BY DEF Installing
<1> HIDE DEF i
<1>3. u.pending = NoPending /\ u.install = i
    BY DEF WideTask
<1> QED BY <1>1, <1>2, <1>3 DEF TaskNames

\* What a task already names is named.
LEMMA TaskNamed ==
    ASSUME NEW a \in Actor
    PROVE  TaskNames(task[a]) \subseteq Names
BY DEF Names

\* An answered or refused Offer names what its carrier names.
LEMMA CounterOfferNames ==
    ASSUME TypeOK, NEW a \in Actor, NEW t \in WideTask, TaskNames(t) \subseteq Names
    PROVE  NamedBy(CounterOffer(a, t))
<1> DEFINE u == [t EXCEPT !.needed = TRUE]
<1>1. u \in WideTask /\ TaskNames(u) \subseteq Names
    BY PlainNames DEF WideTask
<1>2. CounterOffer(a, t) \in {BeginSession(a, u), StartReadyRenewals(a, u)}
    BY DEF CounterOffer
<1> HIDE DEF u
<1> QED BY <1>1, <1>2, BeginNames

\* carrier(), Offer.
LEMMA AcceptOfferNames ==
    ASSUME TypeOK, NEW a \in Actor, NEW t \in WideTask, TaskNames(t) \subseteq Names,
           NEW m, <<m.sid, m.epoch>> \in Names
    PROVE  NamedBy(AcceptOffer(a, t, m))
<1> DEFINE u == Loaded(a, t)
<1>1. u \in WideTask /\ TaskNames(u) \subseteq Names
    BY LoadedFacts, PlainNames DEF TypeOK
<1>2. \/ AcceptOffer(a, t, m) \in {t, u}
      \/ AcceptOffer(a, t, m) = CounterOffer(a, u)
      \/ AcceptOffer(a, t, m) = Installing(u, m.sid, m.epoch, TRUE)
    BY DEF AcceptOffer
<1> HIDE DEF u
<1>3. NamedBy(t) /\ NamedBy(u)
    BY <1>1 DEF NamedBy
<1>4. NamedBy(CounterOffer(a, u))
    BY <1>1, CounterOfferNames
<1>5. NamedBy(Installing(u, m.sid, m.epoch, TRUE))
    BY <1>1, InstallingNames DEF NamedBy
<1> QED BY <1>2, <1>3, <1>4, <1>5

\* carrier(), Answer.
LEMMA AcceptAnswerNames ==
    ASSUME TypeOK, NEW a \in Actor, NEW t \in WideTask, TaskNames(t) \subseteq Names,
           t.pending.sid # 0, NEW sid
    PROVE  NamedBy(AcceptAnswer(a, t, sid))
<1> DEFINE u == [t EXCEPT !.pending = NoPending]
           n == [u EXCEPT !.needed = TRUE]
<1>1. u \in WideTask /\ TaskNames(u) \subseteq Names
    <2>1. NoPending \in [sid : 0 .. MaxSid + 1, epoch : Nat, base : Nat, floor : Nat]
        BY RoomSessionAssumption DEF NoPending
    <2> QED BY <2>1, PlainNames DEF WideTask
<1>2. \/ AcceptAnswer(a, t, sid) \in {u, StartReadyRenewals(a, n)}
      \/ /\ t.pending.sid = sid
         /\ AcceptAnswer(a, t, sid) = Installing(u, sid, t.pending.epoch, FALSE)
    BY DEF AcceptAnswer
<1> HIDE DEF u
<1>3. n \in WideTask /\ TaskNames(n) \subseteq Names
    BY <1>1, PlainNames DEF WideTask
<1> HIDE DEF n
<1>4. NamedBy(u)
    BY <1>1 DEF NamedBy
<1>5. NamedBy(StartReadyRenewals(a, n))
    BY <1>3, BeginNames
<1>6. <<t.pending.sid, t.pending.epoch>> \in Names
    BY DEF TaskNames
<1>7. t.pending.sid = sid => NamedBy(Installing(u, sid, t.pending.epoch, FALSE))
    BY <1>1, <1>6, InstallingNames DEF NamedBy
<1> QED BY <1>2, <1>4, <1>5, <1>7

\* A step that leaves the tasks' offers and installs alone, opens nothing and
\* sends no Offer.
LEMMA SameNames ==
    ASSUME IdsNameEpochs, UNCHANGED <<opened, nextSid>>, OfferNames(net') \subseteq OfferNames(net),
           \A a \in Actor : TaskNames(task'[a]) \subseteq TaskNames(task[a])
    PROVE  IdsNameEpochs'
<1>1. Names' \subseteq Names
    BY DEF Names
<1> QED BY <1>1, OldNames

\* Carriers taken away or Events and Answers sent are no Offers.
LEMMA NoOffer ==
    ASSUME NEW in, \A m \in in : m.kind = "Offer" => m \in net
    PROVE  OfferNames(in) \subseteq OfferNames(net)
BY DEF OfferNames

\* Reopening a placement forgets names.
LEMMA ReopenNames ==
    ASSUME TypeOK, IdsNameEpochs, NEW a \in Actor, NEW in, in \subseteq net, Reopen(a, in)
    PROVE  IdsNameEpochs'
<1>1. /\ task' = [task EXCEPT ![a] = FreshTask(log[a])] /\ net' = in
      /\ UNCHANGED <<opened, nextSid>> /\ task \in [Actor -> Task]
    BY DEF Reopen, TypeOK
<1>2. TaskNames(FreshTask(log[a])) = {}
    BY DEF TaskNames, FreshTask, NoPending, NoInstall
<1>3. \A b \in Actor : TaskNames(task'[b]) \subseteq TaskNames(task[b])
    BY <1>1, <1>2
<1>4. OfferNames(net') \subseteq OfferNames(net)
    BY <1>1, NoOffer
<1> QED BY <1>1, <1>3, <1>4, SameNames

(***************************************************************************)
(* Durable progress.                                                       *)
(***************************************************************************)

\* What the task makes of the next durable item.
Seen(a, t, item) ==
    CASE item.entry.sid # 0 /\ item.entry.by = a -> ConfirmLocal(t, item.entry)
      [] item.entry.sid # 0 /\ item.entry.by # a /\ item.live -> Observe(t, item.entry)
      [] OTHER -> t

DotOf(e) == [by |-> e.by, n |-> e.n]

\* The Events that the admission of d makes plannable.
Ready(s, d) == {w \in s.waiting : w.deps \subseteq s.admitted \cup {d}}

ReadyReifications(s, d) == {Reify(s.sid, w.n, w.deps) : w \in Ready(s, d)}

\* Admitting d moves the plannable Events into the in-flight set.
LEMMA AdmitFacts ==
    ASSUME NEW t \in WideTask, NEW d
    PROVE  LET u == Admit(t, d)
           IN  /\ u.pending = t.pending /\ u.install = t.install /\ u.view = t.view
               /\ u = [t EXCEPT !.active = u.active, !.inflight = u.inflight]
               /\ u.active.sid = t.active.sid /\ u.active.epoch = t.active.epoch
               /\ u.active.sent = t.active.sent
               /\ u.active.admitted = t.active.admitted \cup {d}
               /\ u.active.waiting = t.active.waiting \ Ready(t.active, d)
               /\ u.inflight = t.inflight \cup ReadyReifications(t.active, d)
<1> DEFINE s == [t.active EXCEPT !.admitted = @ \cup {d}]
           ready == {w \in s.waiting : Planned(s, w.deps)}
           v == [s EXCEPT !.waiting = @ \ ready]
           f == t.inflight \cup {Reify(s.sid, w.n, w.deps) : w \in ready}
           u == [t EXCEPT !.active = v, !.inflight = f]
<1>1. /\ s = [t.active EXCEPT !.admitted = s.admitted] /\ s.admitted = t.active.admitted \cup {d}
      /\ s.sid = t.active.sid /\ s.epoch = t.active.epoch /\ s.sent = t.active.sent
      /\ s.waiting = t.active.waiting
    BY DEF WideTask
<1>2. ready = Ready(t.active, d)
    <2> HIDE DEF s
    <2> QED BY <1>1 DEF Planned, Ready
<1>3. f = t.inflight \cup ReadyReifications(t.active, d)
    <2> HIDE DEF s, ready
    <2> QED BY <1>1, <1>2 DEF ReadyReifications
<1>4. /\ v.sid = t.active.sid /\ v.epoch = t.active.epoch /\ v.sent = t.active.sent
      /\ v.admitted = t.active.admitted \cup {d}
      /\ v.waiting = t.active.waiting \ Ready(t.active, d)
    <2>1. t.active \in [sid : 0 .. MaxSid, epoch : Nat, lease : BOOLEAN, sent : 0 .. MaxEvents,
                        rcvd : SUBSET (1 .. MaxEvents), admitted : SUBSET Dot,
                        waiting : SUBSET [n : 1 .. MaxEvents, deps : SUBSET Dot]]
        BY DEF WideTask
    <2> HIDE DEF ready
    <2> QED BY <1>1, <1>2, <2>1
<1>5. Admit(t, d) = u
    BY DEF Admit, s, ready, v, f
<1> HIDE DEF v, f
<1>6. /\ u.active = v /\ u.inflight = f /\ u = [t EXCEPT !.active = v, !.inflight = f]
      /\ u.pending = t.pending /\ u.install = t.install /\ u.view = t.view
    BY DEF WideTask
<1> HIDE DEF u
<1> QED BY <1>3, <1>4, <1>5, <1>6

\* Nothing but the active session and the in-flight set depends on the item.
LEMMA SeenKeeps ==
    ASSUME NEW a \in Actor, NEW t \in WideTask, NEW item
    PROVE  LET u == Seen(a, t, item)
           IN  u.pending = t.pending /\ u.install = t.install /\ u.view = t.view
<1> DEFINE e == item.entry
           v == Admit(t, DotOf(e))
           c == [v EXCEPT !.inflight = @ \ {Reify(e.sid, e.n, e.deps)}]
<1>1. Seen(a, t, item) \in {t, v, c}
    BY DEF Seen, ConfirmLocal, Observe, DotOf
<1>2. v.pending = t.pending /\ v.install = t.install /\ v.view = t.view
    BY AdmitFacts
<1>3. c.pending = v.pending /\ c.install = v.install /\ c.view = v.view
    <2>1. v = [t EXCEPT !.active = v.active, !.inflight = v.inflight]
        BY AdmitFacts
    <2> HIDE DEF v
    <2> QED BY <2>1 DEF WideTask
<1> HIDE DEF v, c
<1> QED BY <1>1, <1>2, <1>3

\* The step of AdvanceDurable in these terms.
LEMMA AdvanceShape ==
    ASSUME IInv, NEW a \in Actor, AdvanceDurable(a)
    PROVE  LET t == task[a]
               item == log[a][t.view + 1]
               v == [Seen(a, t, item) EXCEPT !.view = @ + 1]
               u == StartReadyRenewals(a, v)
           IN  /\ item \in Item /\ t.view + 1 \in 1 .. Len(log[a]) /\ t \in Task
               /\ t.install.sid = 0
               /\ Good(a, v) /\ v.view = t.view + 1
               /\ v.pending = t.pending /\ v.install = t.install
               /\ v.active = Seen(a, t, item).active /\ v.inflight = Seen(a, t, item).inflight
               /\ Good(a, u)
               /\ Become(a, u, net, {})
               /\ reif' = [reif EXCEPT ![a] = @ \cup (u.inflight \ t.inflight)]
               /\ UNCHANGED <<log, store, opened, edits, faults>>
<1> DEFINE t == task[a]
           item == log[a][t.view + 1]
           seen == Seen(a, t, item)
           v == [seen EXCEPT !.view = @ + 1]
           u == StartReadyRenewals(a, v)
<1>1. /\ Idle(a) /\ t.view < Len(log[a]) /\ Become(a, u, net, {})
      /\ reif' = [reif EXCEPT ![a] = @ \cup (u.inflight \ t.inflight)]
      /\ UNCHANGED <<log, store, opened, edits, faults>>
    BY DEF AdvanceDurable, Seen
<1>2. Good(a, t) /\ t.install.sid = 0 /\ t \in Task /\ log[a] \in Seq(Item)
    BY <1>1, IdleGood DEF IInv, TypeOK
<1>3. t.view \in Nat /\ t.view + 1 \in 1 .. Len(log[a]) /\ item \in Item
    <2>1. t.view \in Nat
        BY <1>2 DEF Task
    <2>2. t.view + 1 \in 1 .. Len(log[a])
        BY <1>1, <1>2, <2>1, SMTT(60)
    <2> QED BY <1>2, <2>1, <2>2
<1> HIDE DEF item
<1>4. Good(a, seen) /\ seen.install.sid = 0 /\ seen.view = t.view
    <2>1. item.entry \in Entry
        BY <1>3 DEF Item
    <2>2. seen \in {t} \/ (item.entry.sid # 0 /\ seen \in {ConfirmLocal(t, item.entry), Observe(t, item.entry)})
        BY DEF Seen
    <2> HIDE DEF seen, t
    <2> QED BY <1>2, <2>1, <2>2, ConfirmGood
<1>5. seen.pending = t.pending /\ seen.install = t.install
    BY <1>2, SeenKeeps, TaskIsWide
<1> HIDE DEF seen
<1>6. v.view = t.view + 1 /\ Good(a, v) /\ v.install.sid = 0
    <2> DEFINE w == t.view + 1
    <2>1. w \in Nat /\ w <= Len(log[a])
        BY <1>3
    <2>2. v = [seen EXCEPT !.view = w]
        BY <1>4
    <2> HIDE DEF w, v
    <2>3. /\ v \in WideTask /\ v.view = w /\ v.cache = seen.cache /\ v.pending = seen.pending
          /\ v.active = seen.active /\ v.install = seen.install
        BY <1>4, <2>1, <2>2, SMTT(60) DEF Good, WideTask
    <2> QED BY <1>4, <2>1, <2>3 DEF Good, Ledger, w
<1>7. /\ v.pending = t.pending /\ v.install = t.install
      /\ v.active = seen.active /\ v.inflight = seen.inflight
    BY <1>4, <1>5 DEF Good, WideTask
<1> HIDE DEF v
<1>8. Good(a, u)
    BY <1>6, StartReadyGood DEF IInv
<1> QED BY <1>1, <1>2, <1>3, <1>6, <1>7, <1>8 DEF item, v, seen

(***************************************************************************)
(* Every step keeps every id at its epoch.                                 *)
(***************************************************************************)

\* Negotiation steps.
LEMMA NegotiationNames ==
    ASSUME IInv, IdsNameEpochs, NEW a \in Actor,
           \/ AdvanceDurable(a) \/ StartPeer(a)
           \/ \E sid \in Sid : RecvOffer(a, sid) \/ RecvAnswer(a, sid)
           \/ \E sid \in Sid, n \in 1 .. MaxEvents : RecvEvent(a, sid, n)
    PROVE  IdsNameEpochs'
<1>1. TypeOK /\ task[a] \in WideTask /\ TaskNames(task[a]) \subseteq Names
    BY TaskIsWide, TaskNamed DEF IInv, TypeOK
<1>2. OfferNames({}) = {}
    BY DEF OfferNames
<1>3. CASE AdvanceDurable(a)
    <2> DEFINE v == [Seen(a, task[a], log[a][task[a].view + 1]) EXCEPT !.view = @ + 1]
               u == StartReadyRenewals(a, v)
    <2>1. /\ Good(a, v) /\ v.pending = task[a].pending /\ v.install = task[a].install
          /\ Become(a, u, net, {}) /\ UNCHANGED opened
        BY <1>3, AdvanceShape
    <2> HIDE DEF v
    <2>2. v \in WideTask /\ TaskNames(v) \subseteq Names
        BY <1>1, <2>1 DEF Good, TaskNames
    <2>3. NamedBy(u)
        BY <1>1, <2>2, BeginNames
    <2> HIDE DEF u
    <2> QED BY <1>1, <1>2, <2>1, <2>3, BecomeNames
<1>4. CASE StartPeer(a)
    <2> DEFINE t == [task[a] EXCEPT !.known = TRUE]
               o == Offer(a, t.pending, View(a, t))
               l == Loaded(a, t)
               d == [t EXCEPT !.pending = NoPending]
               r == [d EXCEPT !.needed = TRUE]
    <2>1. t \in WideTask /\ TaskNames(t) \subseteq Names
        BY <1>1, PlainNames DEF WideTask
    <2>2. /\ UNCHANGED opened
          /\ \/ t.pending.sid # 0 /\ Become(a, t, net, {o})
             \/ \E v \in {BeginSession(a, r), t, l, BeginSession(a, l)} : Become(a, v, net, {})
        BY <1>4 DEF StartPeer
    <2> HIDE DEF t
    <2>3. l \in WideTask /\ TaskNames(l) \subseteq Names
        BY <1>1, <2>1, LoadedFacts, PlainNames DEF TypeOK
    <2>4. d \in WideTask /\ TaskNames(d) \subseteq Names
        <3>1. NoPending \in [sid : 0 .. MaxSid + 1, epoch : Nat, base : Nat, floor : Nat]
            BY RoomSessionAssumption DEF NoPending
        <3> QED BY <2>1, <3>1, PlainNames DEF WideTask
    <2> HIDE DEF l, d
    <2>5. r \in WideTask /\ TaskNames(r) \subseteq Names
        BY <2>4, PlainNames DEF WideTask
    <2> HIDE DEF r
    <2>6. NamedBy(t) /\ \A v \in {BeginSession(a, r), t, l, BeginSession(a, l)} : NamedBy(v)
        BY <1>1, <2>1, <2>3, <2>5, BeginNames
    <2>7. t.pending.sid # 0 => OfferNames({o}) \subseteq TaskNames(t)
        BY DEF OfferNames, Offer, TaskNames
    <2> HIDE DEF o
    <2> QED BY <1>1, <1>2, <2>2, <2>6, <2>7, BecomeNames
<1>5. ASSUME NEW sid \in Sid, RecvOffer(a, sid) PROVE IdsNameEpochs'
    <2>1. PICK m \in net : \E in \in {net, net \ {m}} :
            m.kind = "Offer" /\ Become(a, AcceptOffer(a, task[a], m), in, {})
        BY <1>5 DEF RecvOffer
    <2>2. UNCHANGED opened /\ <<m.sid, m.epoch>> \in Names
        BY <1>5, <2>1 DEF RecvOffer, Names, OfferNames
    <2>3. NamedBy(AcceptOffer(a, task[a], m))
        BY <1>1, <2>2, AcceptOfferNames
    <2> QED BY <1>1, <1>2, <2>1, <2>2, <2>3, BecomeNames
<1>6. ASSUME NEW sid \in Sid, RecvAnswer(a, sid) PROVE IdsNameEpochs'
    <2> DEFINE u == IF task[a].pending.sid = 0 THEN task[a] ELSE AcceptAnswer(a, task[a], sid)
    <2>1. UNCHANGED opened /\ \E in : in \subseteq net /\ Become(a, u, in, {})
        BY <1>6 DEF RecvAnswer
    <2>2. NamedBy(u)
        BY <1>1, AcceptAnswerNames, BeginNames
    <2> HIDE DEF u
    <2> QED BY <1>1, <1>2, <2>1, <2>2, BecomeNames
<1>7. ASSUME NEW sid \in Sid, NEW n \in 1 .. MaxEvents, RecvEvent(a, sid, n) PROVE IdsNameEpochs'
    <2> DEFINE t == task[a]
               r == [t EXCEPT !.needed = TRUE]
               e == [t EXCEPT !.active.rcvd = @ \cup {n}]
    <2>1. PICK in : /\ in \subseteq net
                    /\ \/ /\ UNCHANGED opened
                          /\ \E v \in {r, BeginSession(a, r), StartReadyRenewals(a, r), t, e} :
                                Become(a, v, in, {})
                       \/ Reopen(a, in)
        BY <1>7 DEF RecvEvent
    <2>2. r \in WideTask /\ TaskNames(r) \subseteq Names
        BY <1>1, PlainNames DEF WideTask
    <2>3. TaskNames(e) \subseteq Names
        <3>1. e.pending = t.pending /\ e.install = t.install
            BY <1>1 DEF WideTask
        <3> HIDE DEF e
        <3> QED BY <1>1, <3>1 DEF TaskNames
    <2>4. NamedBy(t) /\ NamedBy(e)
        BY <1>1, <2>3 DEF NamedBy
    <2> HIDE DEF t, r, e
    <2>5. \A v \in {r, BeginSession(a, r), StartReadyRenewals(a, r), t, e} : NamedBy(v)
        BY <1>1, <2>2, <2>4, BeginNames
    <2> QED BY <1>1, <1>2, <2>1, <2>5, BecomeNames, ReopenNames
<1> QED BY <1>3, <1>4, <1>5, <1>6, <1>7

\* Every other step.
LEMMA OtherNames ==
    ASSUME IInv, IdsNameEpochs, NEW a \in Actor,
           \/ CommitDurable(a) \/ DrainSession(a)
           \/ \E live \in BOOLEAN : Replicate(a, live)
           \/ PersistFloor(a) \/ InstallSession(a) \/ EndGeneration(a)
           \/ LocalEdit(a) \/ ExpireLease(a) \/ Crash(a)
    PROVE  IdsNameEpochs'
<1>1. TypeOK /\ task \in [Actor -> Task] /\ task[a] \in Task
    BY DEF IInv, TypeOK
<1>2. CASE CommitDurable(a) \/ DrainSession(a) \/ \E live \in BOOLEAN : Replicate(a, live)
    <2>1. UNCHANGED <<task, net, opened, nextSid>>
        BY <1>2 DEF CommitDurable, DrainSession, Replicate
    <2> QED BY <2>1, SameNames
<1>3. CASE PersistFloor(a)
    <2> DEFINE t == task[a]
               u == [t EXCEPT !.install.durable = TRUE]
               v == [t EXCEPT !.install = NoInstall, !.needed = TRUE, !.doomed = TRUE]
    <2>1. UNCHANGED <<net, opened, nextSid>>
          /\ \E w \in {u, v} : task' = [task EXCEPT ![a] = w]
        BY <1>3 DEF PersistFloor
    <2>2. TaskNames(u) \subseteq TaskNames(t)
        <3>1. u.pending = t.pending /\ u.install.sid = t.install.sid /\ u.install.epoch = t.install.epoch
            BY <1>1 DEF Task
        <3> HIDE DEF u
        <3> QED BY <3>1 DEF TaskNames
    <2>3. TaskNames(v) \subseteq TaskNames(t)
        <3>1. v.pending = t.pending /\ v.install.sid = 0
            BY <1>1 DEF Task, NoInstall
        <3> HIDE DEF v
        <3> QED BY <3>1 DEF TaskNames
    <2> HIDE DEF u, v
    <2>4. \A b \in Actor : TaskNames(task'[b]) \subseteq TaskNames(task[b])
        BY <1>1, <2>1, <2>2, <2>3
    <2> QED BY <2>1, <2>4, SameNames
<1>4. CASE InstallSession(a)
    <2> DEFINE t == task[a]
               i == t.install
               u == [t EXCEPT !.install = NoInstall, !.cache = i.epoch,
                              !.active = NewActive(i.sid, i.epoch)]
    <2>1. /\ i.sid # 0
          /\ task' = [task EXCEPT ![a] = u]
          /\ net' = IF i.answer THEN net \cup {Answer(a, i.sid)} ELSE net
          /\ opened' = [opened EXCEPT ![a] = @ \cup {<<i.epoch, i.sid>>}]
          /\ UNCHANGED nextSid
        BY <1>4 DEF InstallSession
    <2>2. TaskNames(u) \subseteq TaskNames(t)
        <3>1. u.pending = t.pending /\ u.install.sid = 0
            BY <1>1 DEF Task, NoInstall
        <3> HIDE DEF u
        <3> QED BY <3>1 DEF TaskNames
    <2> HIDE DEF u
    <2>3. \A b \in Actor : TaskNames(task'[b]) \subseteq TaskNames(task[b])
        BY <1>1, <2>1, <2>2
    <2>4. <<i.sid, i.epoch>> \in TaskNames(t)
        BY <2>1 DEF TaskNames
    <2>5. \A b \in Actor : OpenedNames(opened'[b]) \subseteq OpenedNames(opened[b]) \cup TaskNames(task[b])
        <3>1. opened \in [Actor -> SUBSET (Epoch \X Sid)]
            BY <1>1 DEF TypeOK
        <3> QED BY <2>1, <2>4, <3>1 DEF OpenedNames
    <2>6. OfferNames(net') \subseteq OfferNames(net)
        BY <2>1, NoOffer DEF Answer
    <2>7. Names' \subseteq Names
        BY <2>3, <2>5, <2>6 DEF Names
    <2> QED BY <2>1, <2>7, OldNames
<1>5. CASE LocalEdit(a)
    <2> DEFINE t == task[a]
               s == t.active
               n == s.sent + 1
               c == Context(a, s)
               r == Reify(s.sid, n, c)
               w == [n |-> n, deps |-> c]
               sealed == [t EXCEPT !.active.sent = n]
               u == [sealed EXCEPT !.inflight = @ \cup {r}]
               v == [sealed EXCEPT !.active.waiting = @ \cup {w}]
    <2>1. \/ Reopen(a, net)
          \/ /\ UNCHANGED <<opened, nextSid>>
             /\ net' = net \cup {Event(a, s.sid, n)}
             /\ \E x \in {u, v} : task' = [task EXCEPT ![a] = x]
        BY <1>5 DEF LocalEdit
    <2>2. /\ u.pending = t.pending /\ u.install = t.install
          /\ v.pending = t.pending /\ v.install = t.install
        <3> HIDE DEF n, r, w
        <3> QED BY <1>1 DEF Task
    <2> HIDE DEF u, v
    <2>3. ASSUME net' = net \cup {Event(a, s.sid, n)} PROVE OfferNames(net') \subseteq OfferNames(net)
        BY <2>3, NoOffer DEF Event
    <2>4. ASSUME NEW x \in {u, v}, task' = [task EXCEPT ![a] = x]
          PROVE  \A b \in Actor : TaskNames(task'[b]) \subseteq TaskNames(task[b])
        BY <1>1, <2>2, <2>4 DEF TaskNames
    <2> QED BY <1>1, <2>1, <2>3, <2>4, ReopenNames, SameNames
<1>6. CASE ExpireLease(a)
    <2> DEFINE u == [task[a] EXCEPT !.active.lease = FALSE]
    <2>1. task' = [task EXCEPT ![a] = u] /\ UNCHANGED <<net, opened, nextSid>>
        BY <1>6 DEF ExpireLease
    <2>2. u.pending = task[a].pending /\ u.install = task[a].install
        BY <1>1 DEF Task
    <2> HIDE DEF u
    <2>3. \A b \in Actor : TaskNames(task'[b]) \subseteq TaskNames(task[b])
        BY <1>1, <2>1, <2>2 DEF TaskNames
    <2> QED BY <2>1, <2>3, SameNames
<1>7. CASE EndGeneration(a) \/ Crash(a)
    BY <1>1, <1>7, ReopenNames DEF EndGeneration, Crash
<1> QED BY <1>2, <1>3, <1>4, <1>5, <1>6, <1>7

\* The whole step.
LEMMA NextNames == ASSUME IInv, IdsNameEpochs, [Next]_vars PROVE IdsNameEpochs'
<1>1. CASE UNCHANGED vars
    BY <1>1, SameNames DEF vars
<1>2. ASSUME NEW m \in net, Lose(m) PROVE IdsNameEpochs'
    <2>1. UNCHANGED <<task, opened, nextSid>> /\ net' \subseteq net
        BY <1>2 DEF Lose
    <2> QED BY <2>1, NoOffer, SameNames
<1> QED BY <1>1, <1>2, NegotiationNames, OtherNames DEF Next

\* Initially nothing is named.
LEMMA InitNames == ASSUME Init PROVE IdsNameEpochs
<1>1. \A a \in Actor : TaskNames(task[a]) = {}
    BY DEF Init, TaskNames, FreshTask, NoPending, NoInstall
<1>2. Names = {}
    BY <1>1 DEF Init, Names, OfferNames, OpenedNames
<1> QED BY <1>2 DEF IdsNameEpochs

(***************************************************************************)
(* Obligations, one kind of step at a time.                                *)
(***************************************************************************)

\* Negotiation, leases and received Events do not touch the account, as long
\* as nothing is owed when an install begins.
LEMMA KeepAccount ==
    ASSUME NEW a, NEW h, NEW t, NEW u, NEW q, NEW o, Account(a, h, t, q, o),
           u.active.sid = t.active.sid, u.active.epoch = t.active.epoch,
           u.active.sent = t.active.sent, u.active.admitted = t.active.admitted,
           u.active.waiting = t.active.waiting, u.inflight = t.inflight, u.view = t.view,
           u.install.sid # 0 => u.inflight = {} /\ u.active.waiting = {}
    PROVE  Account(a, h, u, q, o)
<1>1. Balanced(a, h, u, q)
    BY DEF Account, Balanced
<1>2. Grounded(h, u, q)
    BY DEF Account, Grounded
<1>3. Placed(a, h, u.active, q)
    BY DEF Account, Placed
<1>4. Opened(a, h, u.active, o)
    BY DEF Account, Opened
<1> QED BY <1>1, <1>2, <1>3, <1>4 DEF Account

\* A longer history holds what it held, where it was.
LEMMA AppendHistory ==
    ASSUME NEW h \in Seq(Item), NEW x \in Item
    PROVE  LET g == Append(h, x)
           IN  /\ g \in Seq(Item) /\ Len(h) \in Nat /\ Len(g) = Len(h) + 1
               /\ \A i \in 1 .. Len(h) : i \in 1 .. Len(g) /\ g[i] = h[i]
               /\ g[Len(h) + 1] = x /\ Len(h) + 1 \in 1 .. Len(g)
               /\ 1 .. Len(g) = 1 .. Len(h) \cup {Len(h) + 1}
               /\ Len(h) + 1 \notin 1 .. Len(h)
OBVIOUS

\* A history that held a delta holds it when it has grown.
LEMMA AppendHolds ==
    ASSUME NEW h \in Seq(Item), NEW x \in Item, NEW sid, NEW d, Holds(h, sid, d)
    PROVE  Holds(Append(h, x), sid, d)
BY AppendHistory DEF Holds

\* An entry that is not the placement's own reified Event.
LEMMA ForeignAccount ==
    ASSUME NEW a, NEW h \in Seq(Item), NEW t, NEW q, NEW o, Account(a, h, t, q, o),
           NEW x \in Item, ~(x.entry.by = a /\ x.entry.sid # 0), t.view \in Nat
    PROVE  Account(a, Append(h, x), t, q, o)
<1> DEFINE g == Append(h, x)
<1>1. /\ Len(h) \in Nat /\ Len(g) = Len(h) + 1 /\ g[Len(h) + 1] = x
      /\ \A i \in 1 .. Len(h) : g[i] = h[i]
      /\ 1 .. Len(g) = 1 .. Len(h) \cup {Len(h) + 1}
    BY AppendHistory
<1>2. \A sid, d : Holds(h, sid, d) => Holds(g, sid, d)
    BY AppendHolds
<1> HIDE DEF g
<1>3. Own(a, g) = Own(a, h) /\ \A i \in Own(a, h) : g[i] = h[i]
    BY <1>1 DEF Own
<1>4. UnconfirmedIn(a, g, t.view) = UnconfirmedIn(a, h, t.view)
    <2>1. {j \in t.view + 1 .. Len(g) : j \in Own(a, g)} = {j \in t.view + 1 .. Len(h) : j \in Own(a, h)}
        BY <1>1, <1>3 DEF Own
    <2> QED BY <1>3, <2>1 DEF UnconfirmedIn
<1>5. Balanced(a, g, t, q)
    BY <1>4 DEF Account, Balanced
<1>6. Grounded(g, t, q)
    BY <1>2 DEF Account, Grounded
<1>7. Placed(a, g, t.active, q)
    BY <1>3 DEF Account, Placed
<1>8. Opened(a, g, t.active, o)
    BY <1>3 DEF Account, Opened
<1> QED BY <1>5, <1>6, <1>7, <1>8 DEF Account, g

\* A drained reification moves from the queue into the history.
LEMMA DrainAccount ==
    ASSUME NEW a \in Actor, NEW h \in Seq(Item), NEW t \in Task, NEW q \in SUBSET Reification, NEW o,
           Account(a, h, t, q, o), t.view <= Len(h), NEW r \in q,
           NEW x \in Item, x.entry.by = a, x.entry.sid = r.sid, x.entry.n = r.n,
           x.entry.deps = r.deps
    PROVE  Account(a, Append(h, x), t, q \ {r}, o)
<1> DEFINE g == Append(h, x)
           k == Len(h) + 1
           p == q \ {r}
<1>1. /\ Len(h) \in Nat /\ Len(g) = Len(h) + 1 /\ g[k] = x
      /\ \A i \in 1 .. Len(h) : g[i] = h[i]
      /\ 1 .. Len(g) = 1 .. Len(h) \cup {k} /\ k \notin 1 .. Len(h)
    BY AppendHistory
<1>2. \A sid, d : Holds(h, sid, d) => Holds(g, sid, d)
    BY AppendHolds
<1>3. r.sid \in Sid /\ r.sid # 0 /\ Reify(r.sid, r.n, r.deps) = r /\ r.sid = t.active.sid
    BY DEF Reification, Reify, Sid, Account, Balanced
<1>4. t.view \in Nat
    BY DEF Task
<1> HIDE DEF g
<1>5. /\ Own(a, g) = Own(a, h) \cup {k}
      /\ \A i \in Own(a, h) : g[i] = h[i]
      /\ k \notin Own(a, h)
    BY <1>1, <1>3 DEF Own
<1>6. UnconfirmedIn(a, g, t.view) = UnconfirmedIn(a, h, t.view) \cup {r}
    <2>1. {j \in t.view + 1 .. Len(g) : j \in Own(a, g)}
            = {j \in t.view + 1 .. Len(h) : j \in Own(a, h)} \cup {k}
        BY <1>1, <1>4, <1>5 DEF Own
    <2>2. ReifyOf(g[k].entry) = r
        BY <1>1, <1>3 DEF ReifyOf
    <2> HIDE DEF k
    <2> QED BY <1>5, <2>1, <2>2 DEF UnconfirmedIn
<1> HIDE DEF k
<1>7. Balanced(a, g, t, p)
    BY <1>6 DEF Account, Balanced
<1>8. Grounded(g, t, p)
    BY <1>2 DEF Account, Grounded
<1>9. Placed(a, g, t.active, p)
    <2>1. Placed(a, h, t.active, q)
        BY DEF Account
    <2>2. \A i \in Own(a, h) : ~(h[i].entry.sid = r.sid /\ h[i].entry.n = r.n)
        BY <1>3, <2>1 DEF Placed
    <2>3. \A i, j \in Own(a, g) :
            g[i].entry.sid = g[j].entry.sid /\ g[i].entry.n = g[j].entry.n => i = j
        BY <1>1, <1>5, <2>1, <2>2 DEF Placed
    <2>4. \A i \in Own(a, g) : g[i].entry.sid = t.active.sid =>
            /\ g[i].entry.n <= t.active.sent
            /\ \A y \in p : y.n # g[i].entry.n
            /\ \A w \in t.active.waiting : w.n # g[i].entry.n
        BY <1>1, <1>5, <2>1 DEF Placed
    <2> QED BY <2>1, <2>3, <2>4 DEF Placed
<1>10. Opened(a, g, t.active, o)
    <2>1. \E y \in o : y[2] = r.sid
        BY <1>3 DEF Account, Opened
    <2> QED BY <1>1, <1>5, <2>1 DEF Account, Opened
<1> QED BY <1>7, <1>8, <1>9, <1>10 DEF Account, g

\* Admitting an Event of the history: what becomes plannable is new to the
\* in-flight set and to the queue.
LEMMA AdmitAccount ==
    ASSUME NEW a, NEW h, NEW t \in Task, NEW q, NEW o, Account(a, h, t, q, o),
           t.install.sid = 0, NEW d, Holds(h, t.active.sid, d)
    PROVE  LET u == Admit(t, d)
               new == ReadyReifications(t.active, d)
           IN  /\ Account(a, h, u, q \cup new, o)
               /\ new \cap t.inflight = {}
               /\ u.inflight = t.inflight \cup new
<1> DEFINE u == Admit(t, d)
           s == t.active
           ready == Ready(s, d)
           new == ReadyReifications(s, d)
<1>1. /\ u.install = t.install /\ u.view = t.view
      /\ u.active.sid = s.sid /\ u.active.epoch = s.epoch
      /\ u.active.sent = s.sent
      /\ u.active.admitted = s.admitted \cup {d}
      /\ u.active.waiting = s.waiting \ ready
      /\ u.inflight = t.inflight \cup new
    BY TaskIsWide, AdmitFacts, ZenonT(60)
<1>2. /\ ready \subseteq s.waiting
      /\ \A w \in ready : w.deps \subseteq s.admitted \cup {d}
      /\ \A r \in new : \E w \in ready : r.sid = s.sid /\ r.n = w.n /\ r.deps = w.deps
    BY DEF Ready, ReadyReifications, Reify
<1> HIDE DEF u, ready, new
<1>3. new \cap t.inflight = {}
    <2> SUFFICES ASSUME NEW r \in new, r \in q \cup UnconfirmedIn(a, h, t.view) PROVE FALSE
        BY DEF Account, Balanced
    <2>1. PICK w \in s.waiting : r.sid = s.sid /\ r.n = w.n
        BY <1>2
    <2>2. CASE r \in q
        BY <2>1, <2>2 DEF Account, Placed
    <2>3. CASE r \in UnconfirmedIn(a, h, t.view)
        <3>1. PICK i \in Own(a, h) : r = ReifyOf(h[i].entry)
            BY <2>3 DEF UnconfirmedIn
        <3>2. h[i].entry.sid = s.sid /\ h[i].entry.n = w.n
            BY <2>1, <3>1 DEF ReifyOf, Reify
        <3> QED BY <3>2 DEF Account, Placed
    <2> QED BY <2>2, <2>3
<1>4. Balanced(a, h, u, q \cup new)
    BY <1>1, <1>2 DEF Account, Balanced
<1>5. Grounded(h, u, q \cup new)
    <2>1. \A r \in q \cup new : r.deps \subseteq s.admitted \cup {d}
        BY <1>2 DEF Account, Grounded
    <2>2. \A e \in s.admitted \cup {d} : Holds(h, s.sid, e)
        BY DEF Account, Grounded
    <2> QED BY <1>1, <2>1, <2>2 DEF Grounded
<1>6. Placed(a, h, u.active, q \cup new)
    <2> DEFINE p == q \cup new
               rest == s.waiting \ ready
    <2>0. Placed(a, h, s, q)
        BY DEF Account
    <2>1. \A r \in p : r.n <= s.sent /\ \A y \in p : y.n = r.n => y = r
        <3>1. \A r \in new : r.n <= s.sent /\ \A y \in q : y.n # r.n
            BY <1>2, <2>0 DEF Placed
        <3>2. \A r, y \in new : y.n = r.n => y = r
            <4> SUFFICES ASSUME NEW r \in new, NEW y \in new, y.n = r.n PROVE y = r
                OBVIOUS
            <4>1. PICK w \in ready : r = Reify(s.sid, w.n, w.deps)
                BY DEF new, ReadyReifications, ready
            <4>2. PICK x \in ready : y = Reify(s.sid, x.n, x.deps)
                BY DEF new, ReadyReifications, ready
            <4>3. x.n = w.n
                BY <4>1, <4>2 DEF Reify
            <4>4. x = w
                BY <1>2, <2>0, <4>3 DEF Placed
            <4> QED BY <4>1, <4>2, <4>4
        <3>3. \A r \in q : r.n <= s.sent /\ \A y \in q : y.n = r.n => y = r
            BY <2>0 DEF Placed
        <3> QED BY <3>1, <3>2, <3>3
    <2>2. \A w \in rest : w.n <= s.sent /\ \A x \in rest : x.n = w.n => x = w
        BY <2>0 DEF Placed
    <2>3. \A i \in Own(a, h) : h[i].entry.sid = s.sid =>
            /\ h[i].entry.n <= s.sent
            /\ \A r \in p : r.n # h[i].entry.n
            /\ \A w \in rest : w.n # h[i].entry.n
        BY <1>2, <2>0 DEF Placed
    <2>4. \A r \in p, w \in rest : r.n # w.n
        <3> SUFFICES ASSUME NEW r \in p, NEW w \in rest, r.n = w.n PROVE FALSE
            OBVIOUS
        <3>1. CASE r \in q
            BY <2>0, <3>1 DEF Placed
        <3>2. CASE r \in new
            <4>1. PICK x \in ready : r.n = x.n
                BY <1>2, <3>2
            <4>2. x.n = w.n /\ x \in s.waiting /\ w \in s.waiting
                BY <1>2, <4>1
            <4>3. x = w
                BY <2>0, <4>2 DEF Placed
            <4> QED BY <4>3
        <3> QED BY <3>1, <3>2
    <2>5. \A i, j \in Own(a, h) :
            h[i].entry.sid = h[j].entry.sid /\ h[i].entry.n = h[j].entry.n => i = j
        BY <2>0 DEF Placed
    <2> HIDE DEF p
    <2> QED BY <1>1, <2>1, <2>2, <2>3, <2>4, <2>5 DEF Placed, p
<1>7. Opened(a, h, u.active, o)
    BY <1>1 DEF Account, Opened
<1> QED BY <1>1, <1>3, <1>4, <1>5, <1>6, <1>7 DEF Account, u, new

\* Moving past the next item: an own reified Event is no longer waited for.
LEMMA PassAccount ==
    ASSUME NEW a, NEW h, NEW t, NEW v, NEW q, NEW o, Account(a, h, t, q, o),
           t.view \in Nat, t.view + 1 \in 1 .. Len(h), Len(h) \in Nat,
           v.active = t.active, v.install = t.install, v.view = t.view + 1,
           v.inflight = IF t.view + 1 \in Own(a, h)
                        THEN t.inflight \ {ReifyOf(h[t.view + 1].entry)} ELSE t.inflight
    PROVE  Account(a, h, v, q, o)
<1> DEFINE k == t.view + 1
           e == h[k].entry
           rest == {j \in k + 1 .. Len(h) : j \in Own(a, h)}
           all == {j \in t.view + 1 .. Len(h) : j \in Own(a, h)}
<1>1. all = IF k \in Own(a, h) THEN rest \cup {k} ELSE rest
    OBVIOUS
<1>2. k \notin rest /\ rest \subseteq Own(a, h)
    OBVIOUS
<1>3. /\ UnconfirmedIn(a, h, t.view) = {ReifyOf(h[i].entry) : i \in all}
      /\ UnconfirmedIn(a, h, v.view) = {ReifyOf(h[i].entry) : i \in rest}
    BY DEF UnconfirmedIn
<1>4. CASE k \in Own(a, h)
    <2> HIDE DEF all, rest
    <2>1. UnconfirmedIn(a, h, t.view) = UnconfirmedIn(a, h, v.view) \cup {ReifyOf(e)}
        BY <1>1, <1>3, <1>4
    <2>2. ReifyOf(e) \in t.inflight /\ e.sid = t.active.sid
        <3>1. ReifyOf(e) \in t.inflight
            BY <2>1 DEF Account, Balanced
        <3> QED BY <3>1 DEF Account, Balanced, ReifyOf, Reify
    <2>3. ReifyOf(e) \notin q
        <3> SUFFICES ASSUME ReifyOf(e) \in q PROVE FALSE
            OBVIOUS
        <3>1. ReifyOf(e).n = e.n
            BY DEF ReifyOf, Reify
        <3> HIDE DEF k
        <3> QED BY <1>4, <2>2, <3>1 DEF Account, Placed
    <2>4. ReifyOf(e) \notin UnconfirmedIn(a, h, v.view)
        <3> SUFFICES ASSUME NEW i \in rest, ReifyOf(e) = ReifyOf(h[i].entry) PROVE FALSE
            BY <1>3
        <3>1. e.sid = h[i].entry.sid /\ e.n = h[i].entry.n
            BY DEF ReifyOf, Reify
        <3>2. i \in Own(a, h) /\ i # k
            BY <1>2
        <3> HIDE DEF k
        <3> QED BY <1>4, <3>1, <3>2 DEF Account, Placed
    <2>5. v.inflight = q \cup UnconfirmedIn(a, h, v.view)
        BY <1>4, <2>1, <2>3, <2>4 DEF Account, Balanced
    <2>6. Balanced(a, h, v, q)
        BY <1>4, <2>5 DEF Account, Balanced
    <2> QED BY <2>6 DEF Account, Grounded
<1>5. CASE k \notin Own(a, h)
    <2>1. UnconfirmedIn(a, h, t.view) = UnconfirmedIn(a, h, v.view)
        BY <1>1, <1>3, <1>5
    <2>2. Balanced(a, h, v, q)
        BY <1>5, <2>1 DEF Account, Balanced
    <2> QED BY <2>2 DEF Account, Grounded
<1> QED BY <1>4, <1>5

\* An epoch is opened over an empty account, with an id no Event has used.
LEMMA InstallAccount ==
    ASSUME NEW a, NEW h, NEW t, NEW u, NEW q, NEW o, Account(a, h, t, q, o),
           t.install.sid # 0, \A x \in o : x[2] # t.install.sid,
           u.active = NewActive(t.install.sid, t.install.epoch),
           u.inflight = t.inflight, u.view = t.view, u.install.sid = 0
    PROVE  Account(a, h, u, q, o \cup {<<t.install.epoch, t.install.sid>>})
<1>1. t.inflight = {} /\ q = {}
    BY DEF Account, Balanced
<1>2. u.active.sid = t.install.sid /\ u.active.epoch = t.install.epoch
      /\ u.active.admitted = {} /\ u.active.waiting = {} /\ u.active.sent = 0
    BY DEF NewActive
<1>3. Balanced(a, h, u, q)
    BY <1>1, <1>2 DEF Account, Balanced
<1>4. Grounded(h, u, q)
    BY <1>1, <1>2 DEF Grounded
<1>5. \A i \in Own(a, h) : h[i].entry.sid # u.active.sid
    BY <1>2 DEF Account, Opened
<1>6. Placed(a, h, u.active, q)
    BY <1>1, <1>2, <1>5 DEF Account, Placed
<1>7. Opened(a, h, u.active, o \cup {<<t.install.epoch, t.install.sid>>})
    BY <1>2 DEF Account, Opened
<1> QED BY <1>3, <1>4, <1>6, <1>7 DEF Account

\* A reopened placement owes nothing that is not in its history.
LEMMA ReopenAccount ==
    ASSUME NEW a, NEW h, NEW t, NEW q, NEW o, Account(a, h, t, q, o), Len(h) \in Nat
    PROVE  Account(a, h, FreshTask(h), {}, o)
<1> DEFINE u == FreshTask(h)
<1>1. /\ u.view = Len(h) /\ u.inflight = {} /\ u.install.sid = 0
      /\ u.active.sid = 0 /\ u.active.admitted = {} /\ u.active.waiting = {} /\ u.active.sent = 0
    BY DEF FreshTask, NoActive, NewActive, NoInstall
<1> HIDE DEF u
<1>2. UnconfirmedIn(a, h, u.view) = {}
    BY <1>1 DEF UnconfirmedIn
<1>3. Balanced(a, h, u, {})
    BY <1>1, <1>2 DEF Balanced
<1>4. Grounded(h, u, {})
    BY <1>1 DEF Grounded
<1>5. Placed(a, h, u.active, {})
    BY <1>1 DEF Account, Placed, Own
<1>6. Opened(a, h, u.active, o)
    BY <1>1 DEF Account, Opened
<1> QED BY <1>3, <1>4, <1>5, <1>6 DEF Account, u

\* A sealed Event takes the next number; it is queued once all it follows is
\* admitted, and waits until then.
LEMMA SealAccount ==
    ASSUME NEW a, NEW h, NEW t, NEW q, NEW o, Account(a, h, t, q, o),
           t.active.sid # 0, t.install.sid = 0, t.active.sent \in Nat, NEW c,
           NEW u, u.active.sid = t.active.sid, u.active.epoch = t.active.epoch,
           u.active.sent = t.active.sent + 1, u.active.admitted = t.active.admitted,
           u.view = t.view, u.install = t.install, NEW p,
           LET n == t.active.sent + 1
               r == Reify(t.active.sid, n, c)
           IN  \/ /\ c \subseteq t.active.admitted /\ p = q \cup {r}
                  /\ u.inflight = t.inflight \cup {r} /\ u.active.waiting = t.active.waiting
               \/ /\ p = q /\ u.inflight = t.inflight
                  /\ u.active.waiting = t.active.waiting \cup {[n |-> n, deps |-> c]},
           \A r \in q : r.n \in Nat, \A w \in t.active.waiting : w.n \in Nat,
           \A i \in Own(a, h) : h[i].entry.n \in Nat
    PROVE  Account(a, h, u, p, o)
<1> DEFINE s == t.active
           n == s.sent + 1
           r == Reify(s.sid, n, c)
           w == [n |-> n, deps |-> c]
<1>1. r.sid = s.sid /\ r.n = n /\ r.deps = c /\ w.n = n
    BY DEF Reify
<1>2. \/ /\ c \subseteq s.admitted /\ p = q \cup {r}
         /\ u.inflight = t.inflight \cup {r} /\ u.active.waiting = s.waiting
      \/ p = q /\ u.inflight = t.inflight /\ u.active.waiting = s.waiting \cup {w}
    OBVIOUS
<1>3. Placed(a, h, s, q)
    BY DEF Account
<1>4. /\ n \in Nat /\ s.sent \in Nat /\ s.sent < n
      /\ \A x \in q : x.n \in Nat /\ x.n <= s.sent
      /\ \A x \in s.waiting : x.n \in Nat /\ x.n <= s.sent
      /\ \A i \in Own(a, h) : h[i].entry.sid = s.sid => h[i].entry.n \in Nat /\ h[i].entry.n <= s.sent
    BY <1>3 DEF Placed
<1> HIDE DEF r, w, n
<1>5. /\ \A x \in q : x.n # n /\ x.n <= n
      /\ \A x \in s.waiting : x.n # n /\ x.n <= n
      /\ \A i \in Own(a, h) : h[i].entry.sid = s.sid => h[i].entry.n # n /\ h[i].entry.n <= n
      /\ n <= n
    BY <1>4
<1>6. u.active.sent = n
    BY DEF n
<1>7. Balanced(a, h, u, p)
    BY <1>1, <1>2 DEF Account, Balanced
<1>8. Grounded(h, u, p)
    BY <1>1, <1>2 DEF Account, Grounded
<1>9. Placed(a, h, u.active, p)
    <2>1. CASE p = q \cup {r} /\ u.active.waiting = s.waiting
        BY <1>1, <1>3, <1>5, <1>6, <2>1 DEF Placed
    <2>2. CASE p = q /\ u.active.waiting = s.waiting \cup {w}
        BY <1>1, <1>3, <1>5, <1>6, <2>2 DEF Placed
    <2> QED BY <1>2, <2>1, <2>2
<1>10. Opened(a, h, u.active, o)
    BY DEF Account, Opened
<1> QED BY <1>7, <1>8, <1>9, <1>10 DEF Account

(***************************************************************************)
(* Every step keeps every account.                                         *)
(***************************************************************************)
Accounts == \A a \in Actor : Account(a, log[a], task[a], reif[a], opened[a])

\* A step of one placement.
LEMMA OneAccount ==
    ASSUME Accounts, NEW a \in Actor, Account(a, log'[a], task'[a], reif'[a], opened'[a]),
           \A b \in Actor \ {a} : /\ log'[b] = log[b] /\ task'[b] = task[b]
                                  /\ reif'[b] = reif[b] /\ opened'[b] = opened[b]
    PROVE  Accounts'
<1>1. \A b \in Actor : Account(b, log'[b], task'[b], reif'[b], opened'[b])
    BY DEF Accounts
<1> QED BY <1>1 DEF Accounts

\* What an account sees of a task, and when an epoch may be installed.
SameAccount(t, u) ==
    /\ u.active.sid = t.active.sid /\ u.active.epoch = t.active.epoch
    /\ u.active.sent = t.active.sent /\ u.active.admitted = t.active.admitted
    /\ u.active.waiting = t.active.waiting
    /\ u.inflight = t.inflight
    /\ u.view = t.view
    /\ u.install.sid # 0 => u.inflight = {} /\ u.active.waiting = {}

\* A step that only changes what accounts do not see.
LEMMA SameAccountStep ==
    ASSUME IInv, Accounts, NEW a \in Actor, NEW u, SameAccount(task[a], u),
           task' = [task EXCEPT ![a] = u], UNCHANGED <<log, reif, opened>>
    PROVE  Accounts'
<1>1. task'[a] = u /\ \A b \in Actor \ {a} : task'[b] = task[b]
    BY DEF IInv, TypeOK
<1>2. Account(a, log[a], u, reif[a], opened[a])
    BY KeepAccount DEF Accounts, SameAccount
<1> QED BY <1>1, <1>2, OneAccount

\* A reopened placement.
LEMMA ReopenAccounts ==
    ASSUME IInv, Accounts, NEW a \in Actor, NEW in, Reopen(a, in)
    PROVE  Accounts'
<1>1. /\ log \in [Actor -> Seq(Item)] /\ task \in [Actor -> Task]
      /\ reif \in [Actor -> SUBSET Reification]
    BY DEF IInv, TypeOK
<1>2. /\ task' = [task EXCEPT ![a] = FreshTask(log[a])] /\ reif' = [reif EXCEPT ![a] = {}]
      /\ UNCHANGED <<log, opened>>
    BY DEF Reopen
<1>3. Account(a, log[a], FreshTask(log[a]), {}, opened[a])
    BY <1>1, ReopenAccount DEF Accounts
<1>4. /\ task'[a] = FreshTask(log[a]) /\ reif'[a] = {}
      /\ \A b \in Actor \ {a} : task'[b] = task[b] /\ reif'[b] = reif[b]
    BY <1>1, <1>2
<1> QED BY <1>2, <1>3, <1>4, OneAccount

\* Commits, drains and replications.
LEMMA HistoryAccounts ==
    ASSUME IInv, Accounts, OwnHeldFirst, NEW a \in Actor,
           CommitDurable(a) \/ DrainSession(a) \/ \E live \in BOOLEAN : Replicate(a, live)
    PROVE  Accounts'
<1>1. /\ log \in [Actor -> Seq(Item)] /\ task \in [Actor -> Task] /\ task[a] \in Task
      /\ reif \in [Actor -> SUBSET Reification]
      /\ task[a].view \in Nat /\ task[a].view <= Len(log[a])
    BY DEF IInv, TypeOK, Task
<1>2. ASSUME NEW x \in Item, ~(x.entry.by = a /\ x.entry.sid # 0),
             log' = [log EXCEPT ![a] = Append(@, x)], UNCHANGED <<task, reif, opened>>
      PROVE  Accounts'
    <2>1. log'[a] = Append(log[a], x) /\ \A b \in Actor \ {a} : log'[b] = log[b]
        BY <1>1, <1>2
    <2>2. Account(a, Append(log[a], x), task[a], reif[a], opened[a])
        BY <1>1, <1>2, ForeignAccount DEF Accounts
    <2> QED BY <1>2, <2>1, <2>2, OneAccount
<1>3. CASE CommitDurable(a)
    <2> DEFINE e == [by |-> a, sid |-> 0, n |-> Len(log[a]) + 1, deps |-> {}]
               x == [entry |-> e, live |-> FALSE]
    <2>1. log' = [log EXCEPT ![a] = Append(@, x)] /\ UNCHANGED <<task, reif, opened>>
        BY <1>3 DEF CommitDurable, Append1
    <2>2. e \in Entry /\ e.sid = 0
        BY <1>1 DEF Entry
    <2> HIDE DEF e
    <2>3. x \in Item /\ x.entry = e
        BY <2>2 DEF Item
    <2> HIDE DEF x
    <2> QED BY <1>2, <2>1, <2>2, <2>3
<1>4. CASE DrainSession(a)
    <2>1. PICK r \in reif[a] :
            /\ Append1(a, [by |-> a, sid |-> r.sid, n |-> r.n, deps |-> r.deps], FALSE)
            /\ reif' = [reif EXCEPT ![a] = @ \ {r}]
        BY <1>4 DEF DrainSession
    <2> DEFINE e == [by |-> a, sid |-> r.sid, n |-> r.n, deps |-> r.deps]
               x == [entry |-> e, live |-> FALSE]
    <2>2. r \in Reification /\ reif[a] \in SUBSET Reification
        BY <1>1
    <2>3. log' = [log EXCEPT ![a] = Append(@, x)] /\ UNCHANGED <<task, opened>>
        BY <1>4, <2>1 DEF DrainSession, Append1
    <2>4. e \in Entry /\ e.by = a /\ e.sid = r.sid /\ e.n = r.n /\ e.deps = r.deps
        BY <2>2 DEF Entry, Reification
    <2> HIDE DEF e
    <2>5. x \in Item /\ x.entry = e
        BY <2>4 DEF Item
    <2> HIDE DEF x
    <2>6. /\ log'[a] = Append(log[a], x) /\ reif'[a] = reif[a] \ {r}
          /\ \A b \in Actor \ {a} : log'[b] = log[b] /\ reif'[b] = reif[b]
        BY <1>1, <2>1, <2>3
    <2>7. Account(a, log[a], task[a], reif[a], opened[a]) /\ log[a] \in Seq(Item)
        BY <1>1 DEF Accounts
    <2>8. Account(a, Append(log[a], x), task[a], reif[a] \ {r}, opened[a])
        BY <1>1, <2>2, <2>4, <2>5, <2>7, DrainAccount
    <2> QED BY <2>3, <2>6, <2>8, OneAccount
<1>5. ASSUME NEW live \in BOOLEAN, Replicate(a, live) PROVE Accounts'
    <2> DEFINE b == Other(a)
    <2>1. b \in Actor
        BY DEF Other, Actor
    <2> HIDE DEF b
    <2>2. PICK i \in 1 .. Len(log[b]) : /\ log[b][i].entry \notin Entries(log[a])
                                        /\ Append1(a, log[b][i].entry, live)
        BY <1>5 DEF Replicate, b
    <2> DEFINE x == [entry |-> log[b][i].entry, live |-> live]
    <2>3. log' = [log EXCEPT ![a] = Append(@, x)] /\ UNCHANGED <<task, reif, opened>>
        BY <1>5, <2>2 DEF Replicate, Append1
    <2>4. log[b][i] \in Item
        BY <1>1, <2>1
    <2>5. x \in Item /\ x.entry.by # a
        BY <2>1, <2>2, <2>4 DEF Item, OwnHeldFirst
    <2> HIDE DEF x
    <2> QED BY <1>2, <2>3, <2>5
<1> QED BY <1>3, <1>4, <1>5

\* Durable progress.
LEMMA AdvanceAccounts ==
    ASSUME IInv, Accounts, NEW a \in Actor, AdvanceDurable(a)
    PROVE  Accounts'
<1> DEFINE t == task[a]
           h == log[a]
           q == reif[a]
           o == opened[a]
           k == t.view + 1
           item == h[k]
           e == item.entry
           d == DotOf(e)
           seen == Seen(a, t, item)
           v == [seen EXCEPT !.view = @ + 1]
           u == StartReadyRenewals(a, v)
           m == Admit(t, d)
           new == ReadyReifications(t.active, d)
<1>1. /\ item \in Item /\ k \in 1 .. Len(h) /\ t \in Task /\ t.install.sid = 0
      /\ Good(a, v) /\ v.view = k /\ v.install = t.install
      /\ v.active = seen.active /\ v.inflight = seen.inflight
      /\ Become(a, u, net, {})
      /\ reif' = [reif EXCEPT ![a] = q \cup (u.inflight \ t.inflight)]
      /\ UNCHANGED <<log, opened>>
    BY AdvanceShape
<1>2. /\ log \in [Actor -> Seq(Item)] /\ task \in [Actor -> Task]
      /\ reif \in [Actor -> SUBSET Reification]
      /\ t.view \in Nat /\ Len(h) \in Nat
    <2>1. /\ log \in [Actor -> Seq(Item)] /\ task \in [Actor -> Task]
          /\ reif \in [Actor -> SUBSET Reification]
        BY DEF IInv, TypeOK
    <2>2. task[a] \in Task /\ log[a] \in Seq(Item)
        BY <2>1
    <2>3. task[a].view \in Nat
        BY <2>2 DEF Task
    <2> QED BY <2>1, <2>2, <2>3
<1>3. Account(a, h, t, q, o)
    BY DEF Accounts
<1>4. SameSession(v, u)
    <2> HIDE DEF v
    <2>1. v \in WideTask /\ store \in [Actor -> Nat] /\ nextSid \in 1 .. MaxSid + 1
        BY <1>1 DEF Good, IInv, TypeOK
    <2>2. SameSession(v, BeginSession(a, v))
        BY <2>1, BeginSessionFacts
    <2> QED BY <2>2 DEF StartReadyRenewals, SameSession
<1>5. k \in Own(a, h) <=> e.by = a /\ e.sid # 0
    BY <1>1 DEF Own
<1>6. e.sid = t.active.sid => Holds(h, t.active.sid, d)
    BY <1>1 DEF Holds, DotOf
<1>7. e.sid = t.active.sid => /\ Account(a, h, m, q \cup new, o)
                              /\ new \cap t.inflight = {}
                              /\ m.inflight = t.inflight \cup new
                              /\ m.install = t.install /\ m.view = t.view
    <2> HIDE DEF d, t, h, q, o, e
    <2> QED BY <1>1, <1>3, <1>6, AdmitAccount, AdmitFacts, TaskIsWide, ZenonT(60)
<1>8. Account(a, h, v, q \cup (v.inflight \ t.inflight), o)
    <2>1. CASE k \in Own(a, h)
        <3>1. ReifyOf(e) \in t.inflight
            <4>1. k \in {j \in t.view + 1 .. Len(h) : j \in Own(a, h)}
                <5>1. k \in t.view + 1 .. Len(h)
                    <6>1. k \in 1 .. Len(h)
                        BY <1>1
                    <6> HIDE DEF t, h
                    <6> QED BY <1>2, <6>1
                <5> QED BY <2>1, <5>1
            <4>2. ReifyOf(e) \in UnconfirmedIn(a, h, t.view)
                BY <4>1 DEF UnconfirmedIn
            <4> HIDE DEF t, h, q, o, e
            <4> QED BY <1>3, <4>2 DEF Account, Balanced
        <3>2. e.sid = t.active.sid
            <4> HIDE DEF t, h, q, o
            <4> QED BY <1>3, <3>1 DEF Account, Balanced, ReifyOf, Reify
        <3>3. seen.active = m.active /\ seen.inflight = m.inflight \ {ReifyOf(e)}
            <4>1. seen = [m EXCEPT !.inflight = @ \ {ReifyOf(e)}]
                BY <1>5, <2>1, <3>2 DEF Seen, ConfirmLocal, DotOf, ReifyOf
            <4>2. m = [t EXCEPT !.active = m.active, !.inflight = m.inflight]
                BY <1>1, AdmitFacts, TaskIsWide, ZenonT(60)
            <4> HIDE DEF m, t
            <4> QED BY <1>1, <4>1, <4>2 DEF Task
        <3> HIDE DEF m, t, h, q, o, e, v, seen, new
        <3>4. q \cup (v.inflight \ t.inflight) = q \cup new
            BY <1>1, <1>7, <3>1, <3>2, <3>3
        <3>5. v.inflight = m.inflight \ {ReifyOf(h[m.view + 1].entry)}
            BY <1>1, <1>7, <3>2, <3>3 DEF e
        <3>6. Account(a, h, v, q \cup new, o)
            BY <1>1, <1>2, <1>7, <2>1, <3>2, <3>3, <3>5, PassAccount
        <3> QED BY <3>4, <3>6
    <2>2. CASE k \notin Own(a, h) /\ seen = t
        <3> HIDE DEF t, h, q, o, v, seen
        <3>1. Account(a, h, v, q, o)
            BY <1>1, <1>2, <1>3, <2>2, PassAccount
        <3> QED BY <1>1, <2>2, <3>1
    <2>3. CASE k \notin Own(a, h) /\ e.sid = t.active.sid /\ seen = m
        <3> HIDE DEF t, h, q, o, v, seen, m, new, e
        <3>1. Account(a, h, v, q \cup new, o)
            BY <1>1, <1>2, <1>7, <2>3, PassAccount
        <3>2. q \cup (v.inflight \ t.inflight) = q \cup new
            BY <1>1, <1>7, <2>3
        <3> QED BY <3>1, <3>2
    <2>4. k \notin Own(a, h) => seen = t \/ (e.sid = t.active.sid /\ seen = m)
        BY <1>5 DEF Seen, Observe, DotOf
    <2> QED BY <2>1, <2>2, <2>3, <2>4
<1> HIDE DEF t, h, q, o, k, v, u
<1>9. u.inflight = v.inflight /\ Account(a, h, u, q \cup (u.inflight \ t.inflight), o)
    BY <1>1, <1>4, <1>8, KeepAccount DEF SameSession
<1>10. task' = [task EXCEPT ![a] = u]
    BY <1>1 DEF Become
<1>11. /\ task'[a] = u /\ reif'[a] = q \cup (u.inflight \ t.inflight)
       /\ \A b \in Actor \ {a} : task'[b] = task[b] /\ reif'[b] = reif[b]
    BY <1>1, <1>2, <1>10
<1> QED BY <1>1, <1>9, <1>11, OneAccount DEF h, o

\* Nothing is owed without a session, and a session has a floor above 0.
LEMMA NothingOwed ==
    ASSUME IInv, Accounts, NEW a \in Actor
    PROVE  /\ task[a].active.sid = 0 => task[a].inflight = {} /\ task[a].active.waiting = {}
           /\ task[a].active.sid # 0 => task[a].active.epoch # 0
<1>1. task[a] \in Task /\ opened[a] \subseteq Epoch \X Sid
    BY DEF IInv, TypeOK
<1>2. Account(a, log[a], task[a], reif[a], opened[a])
    BY DEF Accounts
<1>3. \A r \in task[a].inflight : r.sid # 0
    BY <1>1 DEF Task, Reification, Sid
<1>4. /\ \A r \in task[a].inflight : r.sid = task[a].active.sid
      /\ task[a].active.waiting # {} => task[a].active.sid # 0
    BY <1>2 DEF Account, Balanced
<1>5. task[a].active.sid # 0 => <<task[a].active.epoch, task[a].active.sid>> \in opened[a]
    BY <1>2 DEF Account, Opened
<1> QED BY <1>1, <1>3, <1>4, <1>5 DEF Epoch

\* Negotiation on an idle task that installs nothing.
LEMMA SameSessionAccount ==
    ASSUME NEW t, NEW u, SameSession(t, u), t.install.sid = 0
    PROVE  SameAccount(t, u)
BY DEF SameSession, SameAccount

\* begin_session and its callers, on an idle task.
LEMMA BeginSame ==
    ASSUME TypeOK, NEW a \in Actor, NEW t \in WideTask
    PROVE  /\ SameSession(t, BeginSession(a, t)) /\ SameSession(t, StartReadyRenewals(a, t))
           /\ SameSession(t, [t EXCEPT !.needed = TRUE])
           /\ SameSession(t, CounterOffer(a, t)) /\ SameSession(t, Loaded(a, t))
           /\ SameSession(t, [t EXCEPT !.pending = NoPending]) /\ SameSession(t, t)
<1> DEFINE n == [t EXCEPT !.needed = TRUE]
           d == [t EXCEPT !.pending = NoPending]
<1>1. store \in [Actor -> Nat] /\ nextSid \in 1 .. MaxSid + 1
    BY DEF TypeOK
<1>2. n \in WideTask /\ SameSession(t, n)
    BY DEF WideTask, SameSession
<1>3. SameSession(t, d)
    BY DEF WideTask, SameSession
<1> HIDE DEF n, d
<1>4. ASSUME NEW x \in WideTask
      PROVE  SameSession(x, BeginSession(a, x)) /\ SameSession(x, StartReadyRenewals(a, x))
    <2>1. SameSession(x, BeginSession(a, x))
        BY <1>1, BeginSessionFacts
    <2>2. SameSession(x, x)
        BY DEF SameSession
    <2> QED BY <2>1, <2>2 DEF StartReadyRenewals
<1>5. CounterOffer(a, t) \in {BeginSession(a, n), StartReadyRenewals(a, n)}
    BY DEF CounterOffer, n
<1>6. SameSession(n, CounterOffer(a, t))
    BY <1>2, <1>4, <1>5
<1>7. SameSession(t, CounterOffer(a, t))
    BY <1>2, <1>6 DEF SameSession
<1>8. SameSession(t, Loaded(a, t)) /\ SameSession(t, t)
    BY <1>1, LoadedFacts DEF SameSession
<1> QED BY <1>2, <1>3, <1>4, <1>7, <1>8 DEF n, d

\* Starting to install keeps the session.
LEMMA InstallingSame ==
    ASSUME NEW t \in WideTask, NEW sid, NEW epoch, NEW answer \in BOOLEAN
    PROVE  /\ Installing(t, sid, epoch, answer).active = t.active
           /\ Installing(t, sid, epoch, answer).inflight = t.inflight
           /\ Installing(t, sid, epoch, answer).view = t.view
BY DEF Installing, WideTask

\* carrier(), Offer: a renewal waits for the obligations of the epoch before it,
\* and without a floor there is no such epoch.
LEMMA AcceptOfferAccount ==
    ASSUME IInv, Accounts, NEW a \in Actor, Idle(a), NEW m
    PROVE  SameAccount(task[a], AcceptOffer(a, task[a], m))
<1> DEFINE t == task[a]
           u == Loaded(a, t)
           i == Installing(u, m.sid, m.epoch, TRUE)
<1>1. /\ Good(a, t) /\ t.install.sid = 0 /\ t \in WideTask /\ TypeOK
    BY IdleGood DEF Good, IInv
<1>2. Good(a, u) /\ u.cache = store[a] /\ SameSession(t, u)
    BY <1>1, LoadedGood
<1>3. /\ u.active.sid = 0 => u.inflight = {} /\ u.active.waiting = {}
      /\ u.active.sid # 0 => u.active.epoch # 0
    BY <1>2, NothingOwed DEF SameSession
<1>4. \/ AcceptOffer(a, t, m) \in {t, u, CounterOffer(a, u)}
      \/ /\ AcceptOffer(a, t, m) = i
         /\ ~(u.cache # 0 /\ (u.active.waiting # {} \/ u.inflight # {}))
    BY DEF AcceptOffer, RecoveryWork, LocalWait
<1> HIDE DEF u
<1>5. u.cache = 0 => u.inflight = {} /\ u.active.waiting = {}
    BY <1>2, <1>3 DEF Good, Ledger
<1>6. u \in WideTask
    BY <1>2 DEF Good
<1>7. i.active = u.active /\ i.inflight = u.inflight /\ i.view = u.view
    BY <1>6, InstallingSame, ZenonT(60)
<1> HIDE DEF t, i
<1>8. ~(u.cache # 0 /\ (u.active.waiting # {} \/ u.inflight # {})) => SameAccount(t, i)
    BY <1>2, <1>5, <1>7 DEF SameAccount, SameSession
<1>9. SameAccount(t, t) /\ SameAccount(t, u)
    BY <1>1, <1>2, SameSessionAccount DEF SameSession
<1>10. SameAccount(t, CounterOffer(a, u))
    <2>1. SameSession(u, CounterOffer(a, u))
        BY <1>1, <1>6, BeginSame
    <2>2. SameSession(t, CounterOffer(a, u))
        BY <1>2, <2>1 DEF SameSession
    <2> QED BY <1>1, <2>2, SameSessionAccount
<1> QED BY <1>4, <1>8, <1>9, <1>10 DEF t

\* carrier(), Answer: so does the installation of a pending offer.
LEMMA AcceptAnswerAccount ==
    ASSUME IInv, Accounts, NEW a \in Actor, Idle(a), NEW sid
    PROVE  SameAccount(task[a], AcceptAnswer(a, task[a], sid))
<1> DEFINE t == task[a]
           u == [t EXCEPT !.pending = NoPending]
           n == [u EXCEPT !.needed = TRUE]
           i == Installing(u, sid, t.pending.epoch, FALSE)
<1>1. /\ Good(a, t) /\ t.install.sid = 0 /\ t \in WideTask /\ TypeOK
    BY IdleGood DEF Good, IInv
<1>2. u \in WideTask /\ SameSession(t, u)
    BY <1>1, BeginSame, DropPendingGood DEF Good
<1>3. \/ AcceptAnswer(a, t, sid) \in {u, StartReadyRenewals(a, n)}
      \/ AcceptAnswer(a, t, sid) = i /\ u.inflight = {} /\ u.active.waiting = {}
    BY DEF AcceptAnswer, RecoveryWork, LocalWait
<1> HIDE DEF u
<1>4. n \in WideTask /\ SameSession(u, n)
    BY <1>2 DEF WideTask, SameSession
<1> HIDE DEF n
<1>5. SameSession(n, StartReadyRenewals(a, n))
    BY <1>1, <1>4, BeginSame
<1>6. SameSession(t, StartReadyRenewals(a, n))
    BY <1>2, <1>4, <1>5 DEF SameSession
<1>7. i.active = u.active /\ i.inflight = u.inflight /\ i.view = u.view
    BY <1>2, InstallingSame, Zenon
<1> HIDE DEF t, i
<1>8. u.inflight = {} /\ u.active.waiting = {} => SameAccount(t, i)
    BY <1>2, <1>7 DEF SameAccount, SameSession
<1> QED BY <1>1, <1>2, <1>3, <1>6, <1>8, SameSessionAccount DEF t

\* A step of a that no account sees.
Unseen(a) ==
    /\ \E u : SameAccount(task[a], u) /\ task' = [task EXCEPT ![a] = u]
    /\ UNCHANGED <<log, reif, opened>>

\* Negotiation and received Events: unseen, or the end of a session whose lease
\* has run out.
LEMMA NegotiationUnseen ==
    ASSUME IInv, Accounts, NEW a \in Actor,
           \/ StartPeer(a)
           \/ \E sid \in Sid : RecvOffer(a, sid) \/ RecvAnswer(a, sid)
           \/ \E sid \in Sid, n \in 1 .. MaxEvents : RecvEvent(a, sid, n)
    PROVE  Unseen(a) \/ \E in : Reopen(a, in)
<1> DEFINE Done == Unseen(a) \/ \E in : Reopen(a, in)
<1>1. TypeOK /\ task[a] \in WideTask
    BY TaskIsWide DEF IInv, TypeOK
<1>2. Idle(a) /\ task[a].install.sid = 0
    BY DEF StartPeer, RecvOffer, RecvAnswer, RecvEvent, Idle
<1>3. ASSUME NEW u, SameAccount(task[a], u), NEW in, NEW out, Become(a, u, in, out),
             UNCHANGED <<log, reif, opened>>
      PROVE  Done
    BY <1>3 DEF Become, Unseen
<1> HIDE DEF Done
<1>4. CASE StartPeer(a)
    <2> DEFINE t == [task[a] EXCEPT !.known = TRUE]
               o == Offer(a, t.pending, View(a, t))
               l == Loaded(a, t)
               d == [t EXCEPT !.pending = NoPending]
               r == [d EXCEPT !.needed = TRUE]
    <2>1. /\ t \in WideTask /\ t.active = task[a].active /\ t.inflight = task[a].inflight
          /\ t.view = task[a].view /\ t.install = task[a].install
        BY <1>1 DEF WideTask
    <2>2. /\ UNCHANGED <<log, reif, opened>>
          /\ \E v \in {BeginSession(a, r), t, l, BeginSession(a, l)}, out \in {{}, {o}} :
                Become(a, v, net, out)
        BY <1>4 DEF StartPeer
    <2> HIDE DEF t, o
    <2>3. l \in WideTask /\ SameSession(t, l)
        BY <1>1, <2>1, LoadedFacts DEF TypeOK
    <2>4. r \in WideTask /\ SameSession(t, r)
        <3>1. NoPending \in [sid : 0 .. MaxSid + 1, epoch : Nat, base : Nat, floor : Nat]
            BY RoomSessionAssumption DEF NoPending
        <3> QED BY <2>1, <3>1 DEF WideTask, SameSession
    <2> HIDE DEF l, d, r
    <2>5. SameSession(t, t) /\ SameSession(l, BeginSession(a, l)) /\ SameSession(r, BeginSession(a, r))
        BY <1>1, <2>1, <2>3, <2>4, BeginSame
    <2>6. \A v \in {BeginSession(a, r), t, l, BeginSession(a, l)} : SameSession(t, v)
        BY <2>3, <2>4, <2>5 DEF SameSession
    <2>7. ASSUME NEW v, SameSession(t, v) PROVE SameAccount(task[a], v)
        BY <1>2, <2>1, <2>7 DEF SameSession, SameAccount
    <2>8. PICK v \in {BeginSession(a, r), t, l, BeginSession(a, l)}, out \in {{}, {o}} :
             Become(a, v, net, out)
        BY <2>2
    <2>9. SameAccount(task[a], v)
        BY <2>6, <2>7
    <2> QED BY <1>3, <2>2, <2>8, <2>9 DEF Done
<1>5. ASSUME NEW sid \in Sid, RecvOffer(a, sid) PROVE Done
    <2>1. UNCHANGED <<log, reif, opened>>
          /\ \E m, in : Become(a, AcceptOffer(a, task[a], m), in, {})
        BY <1>5 DEF RecvOffer
    <2> QED BY <1>2, <1>3, <2>1, AcceptOfferAccount
<1>6. ASSUME NEW sid \in Sid, RecvAnswer(a, sid) PROVE Done
    <2>1. UNCHANGED <<log, reif, opened>>
          /\ \E in, u : u \in {task[a], AcceptAnswer(a, task[a], sid)} /\ Become(a, u, in, {})
        BY <1>6 DEF RecvAnswer
    <2>2. SameAccount(task[a], task[a])
        BY <1>2 DEF SameAccount
    <2> QED BY <1>2, <1>3, <2>1, <2>2, AcceptAnswerAccount
<1>7. ASSUME NEW sid \in Sid, NEW n \in 1 .. MaxEvents, RecvEvent(a, sid, n) PROVE Done
    <2> DEFINE t == task[a]
               r == [t EXCEPT !.needed = TRUE]
               e == [t EXCEPT !.active.rcvd = @ \cup {n}]
    <2>1. \E in :
            \/ /\ UNCHANGED <<log, reif, opened>>
               /\ \E v \in {r, BeginSession(a, r), StartReadyRenewals(a, r), t, e} :
                    Become(a, v, in, {})
            \/ Reopen(a, in)
        BY <1>7 DEF RecvEvent
    <2>2. r \in WideTask /\ SameSession(t, r)
        BY <1>1 DEF WideTask, SameSession
    <2>3. SameAccount(t, e) /\ SameAccount(t, t)
        <3> DEFINE s == [t.active EXCEPT !.rcvd = @ \cup {n}]
        <3>1. e.active = s /\ e.inflight = t.inflight /\ e.view = t.view /\ e.install = t.install
            BY <1>1 DEF WideTask
        <3>2. /\ s.sid = t.active.sid /\ s.epoch = t.active.epoch /\ s.sent = t.active.sent
              /\ s.admitted = t.active.admitted /\ s.waiting = t.active.waiting
            BY <1>1 DEF WideTask
        <3> HIDE DEF e, s, t
        <3> QED BY <1>2, <3>1, <3>2 DEF SameAccount, t
    <2> HIDE DEF r, e
    <2>4. SameSession(r, BeginSession(a, r)) /\ SameSession(r, StartReadyRenewals(a, r))
        BY <1>1, <2>2, BeginSame
    <2>5. \A v \in {r, BeginSession(a, r), StartReadyRenewals(a, r)} : SameSession(t, v)
        BY <2>2, <2>4 DEF SameSession
    <2>6. \A v \in {r, BeginSession(a, r), StartReadyRenewals(a, r), t, e} : SameAccount(t, v)
        BY <1>2, <2>3, <2>5, SameSessionAccount
    <2> QED BY <1>3, <2>1, <2>6 DEF Done
<1> QED BY <1>4, <1>5, <1>6, <1>7 DEF Done

\* So they keep every account.
LEMMA NegotiationAccounts ==
    ASSUME IInv, Accounts, NEW a \in Actor,
           \/ StartPeer(a)
           \/ \E sid \in Sid : RecvOffer(a, sid) \/ RecvAnswer(a, sid)
           \/ \E sid \in Sid, n \in 1 .. MaxEvents : RecvEvent(a, sid, n)
    PROVE  Accounts'
BY NegotiationUnseen, SameAccountStep, ReopenAccounts DEF Unseen

\* The write of the floor, or its refusal, is unseen.
LEMMA PersistUnseen ==
    ASSUME IInv, Accounts, NEW a \in Actor, PersistFloor(a)
    PROVE  Unseen(a)
<1> DEFINE t == task[a]
           i == t.install
           u == [t EXCEPT !.install.durable = TRUE]
           v == [t EXCEPT !.install = NoInstall, !.needed = TRUE, !.doomed = TRUE]
<1>1. t \in Task /\ Account(a, log[a], t, reif[a], opened[a])
    BY DEF IInv, TypeOK, Accounts
<1>2. /\ UNCHANGED <<log, reif, opened>> /\ i.sid # 0
      /\ \E w \in {u, v} : task' = [task EXCEPT ![a] = w]
    BY DEF PersistFloor
<1>3. t.inflight = {} /\ t.active.waiting = {}
    BY <1>1, <1>2 DEF Account, Balanced
<1>4. /\ u.active = t.active /\ u.inflight = t.inflight /\ u.view = t.view
      /\ v.active = t.active /\ v.inflight = t.inflight /\ v.view = t.view
    BY <1>1 DEF Task
<1> HIDE DEF u, v
<1>5. SameAccount(t, u) /\ SameAccount(t, v)
    BY <1>3, <1>4 DEF SameAccount
<1> QED BY <1>2, <1>5 DEF Unseen

\* A placement has not been in the session that it activates: all it was in lie
\* below its floor, and an id has one epoch.
LEMMA InstallIsFresh ==
    ASSUME IInv, IdsNameEpochs, NEW a \in Actor, InstallSession(a)
    PROVE  \A x \in opened[a] : x[2] # task[a].install.sid
<1> DEFINE i == task[a].install
<1>1. i.sid # 0 /\ i.durable /\ store[a] \in Nat /\ Ledger(task[a], store[a])
    BY DEF InstallSession, IInv, TypeOK
<1> SUFFICES ASSUME NEW x \in opened[a], x[2] = i.sid PROVE FALSE
    OBVIOUS
<1>2. x[1] < store[a] /\ i.epoch = store[a]
    BY <1>1 DEF IInv, OpenedBelowFloor, Ledger
<1>3. <<x[2], x[1]>> \in Names
    BY DEF Names, OpenedNames
<1>4. <<i.sid, i.epoch>> \in Names
    BY <1>1, TaskNamed DEF TaskNames
<1>5. x[1] = i.epoch
    BY <1>3, <1>4 DEF IdsNameEpochs
<1> QED BY <1>1, <1>2, <1>5

\* install_session: the floor is written, the epoch is activated.
LEMMA InstallAccounts ==
    ASSUME IInv, IdsNameEpochs, Accounts, NEW a \in Actor, PersistFloor(a) \/ InstallSession(a)
    PROVE  Accounts'
<1> DEFINE t == task[a]
           i == t.install
<1>1. /\ task \in [Actor -> Task] /\ t \in Task
      /\ opened \in [Actor -> SUBSET (Epoch \X Sid)]
    BY DEF IInv, TypeOK
<1>2. Account(a, log[a], t, reif[a], opened[a])
    BY DEF Accounts
<1>3. CASE PersistFloor(a)
    BY <1>3, PersistUnseen, SameAccountStep DEF Unseen
<1>4. CASE InstallSession(a)
    <2> DEFINE u == [t EXCEPT !.install = NoInstall, !.cache = i.epoch,
                              !.active = NewActive(i.sid, i.epoch)]
    <2>1. /\ i.sid # 0 /\ i.durable /\ UNCHANGED <<log, reif>>
          /\ task' = [task EXCEPT ![a] = u]
          /\ opened' = [opened EXCEPT ![a] = @ \cup {<<i.epoch, i.sid>>}]
        BY <1>4 DEF InstallSession
    <2>2. /\ u.active = NewActive(i.sid, i.epoch) /\ u.inflight = t.inflight
          /\ u.view = t.view /\ u.install.sid = 0
        BY <1>1 DEF Task, NoInstall
    <2> HIDE DEF u
    <2>3. /\ task'[a] = u /\ opened'[a] = opened[a] \cup {<<i.epoch, i.sid>>}
          /\ \A b \in Actor \ {a} : task'[b] = task[b] /\ opened'[b] = opened[b]
        BY <1>1, <2>1
    <2>4. \A x \in opened[a] : x[2] # i.sid
        BY <1>4, InstallIsFresh
    <2>5. Account(a, log[a], u, reif[a], opened'[a])
        <3> HIDE DEF t
        <3> QED BY <1>2, <2>1, <2>2, <2>3, <2>4, InstallAccount
    <2> QED BY <2>1, <2>3, <2>5, OneAccount
<1> QED BY <1>3, <1>4

\* The end of a lease is unseen.
LEMMA LeaseUnseen ==
    ASSUME IInv, Accounts, NEW a \in Actor, ExpireLease(a)
    PROVE  Unseen(a)
<1> DEFINE t == task[a]
           s == t.active
           e == [s EXCEPT !.lease = FALSE]
           u == [t EXCEPT !.active = e]
<1>1. t \in Task /\ Account(a, log[a], t, reif[a], opened[a])
    BY DEF IInv, TypeOK, Accounts
<1>2. task' = [task EXCEPT ![a] = u] /\ UNCHANGED <<log, reif, opened>>
    BY <1>1 DEF ExpireLease, Task, IInv, TypeOK
<1>3. /\ e.sid = s.sid /\ e.epoch = s.epoch /\ e.sent = s.sent
      /\ e.admitted = s.admitted /\ e.waiting = s.waiting
    BY <1>1 DEF Task
<1> HIDE DEF e
<1>4. u.active = e /\ u.inflight = t.inflight /\ u.view = t.view /\ u.install = t.install
    BY <1>1 DEF Task
<1> HIDE DEF u
<1>5. t.install.sid # 0 => t.inflight = {} /\ t.active.waiting = {}
    BY <1>1 DEF Account, Balanced
<1>6. SameAccount(t, u)
    BY <1>3, <1>4, <1>5 DEF SameAccount
<1> QED BY <1>2, <1>6 DEF Unseen

\* local_edit and the lease.
LEMMA EditAccounts ==
    ASSUME IInv, Accounts, NEW a \in Actor, LocalEdit(a) \/ ExpireLease(a)
    PROVE  Accounts'
<1> DEFINE t == task[a]
           s == t.active
<1>1. /\ task \in [Actor -> Task] /\ t \in Task /\ log \in [Actor -> Seq(Item)]
      /\ reif \in [Actor -> SUBSET Reification]
    BY DEF IInv, TypeOK
<1>2. Account(a, log[a], t, reif[a], opened[a])
    BY DEF Accounts
<1>3. CASE ExpireLease(a)
    BY <1>3, LeaseUnseen, SameAccountStep DEF Unseen
<1>4. CASE LocalEdit(a) /\ ~s.lease
    BY <1>4, ReopenAccounts DEF LocalEdit
<1>5. CASE LocalEdit(a) /\ s.lease
    <2> DEFINE n == s.sent + 1
               c == Context(a, s)
               r == Reify(s.sid, n, c)
               w == [n |-> n, deps |-> c]
               p == [s EXCEPT !.sent = n]
               y == [p EXCEPT !.waiting = @ \cup {w}]
               u == [t EXCEPT !.active = p, !.inflight = @ \cup {r}]
               v == [t EXCEPT !.active = y]
    <2>1. /\ s.sid # 0 /\ t.install.sid = 0 /\ UNCHANGED <<log, opened>>
          /\ \/ /\ c \subseteq s.admitted
                /\ task' = [task EXCEPT ![a] = u]
                /\ reif' = [reif EXCEPT ![a] = @ \cup {r}]
             \/ task' = [task EXCEPT ![a] = v] /\ UNCHANGED reif
        <3> DEFINE sealed == [t EXCEPT !.active.sent = n]
                   put == [sealed EXCEPT !.inflight = @ \cup {r}]
                   keep == [sealed EXCEPT !.active.waiting = @ \cup {w}]
        <3>1. put = u
            BY <1>1 DEF Task
        <3>2. keep = v
            BY <1>1 DEF Task
        <3>3. /\ s.sid # 0 /\ t.install.sid = 0 /\ UNCHANGED <<log, opened>>
              /\ \/ /\ c \subseteq s.admitted
                    /\ task' = [task EXCEPT ![a] = put]
                    /\ reif' = [reif EXCEPT ![a] = @ \cup {r}]
                 \/ task' = [task EXCEPT ![a] = keep] /\ UNCHANGED reif
            BY <1>5 DEF LocalEdit, Planned, Idle
        <3> QED BY <3>1, <3>2, <3>3
    <2>2. /\ s.sent \in Nat
          /\ \A x \in reif[a] : x.n \in Nat
          /\ \A x \in s.waiting : x.n \in Nat
        BY <1>1, RoomSessionAssumption DEF Task, Reification
    <2>3. \A j \in Own(a, log[a]) : log[a][j].entry.n \in Nat
        <3> SUFFICES ASSUME NEW j \in Own(a, log[a]) PROVE log[a][j].entry.n \in Nat
            OBVIOUS
        <3>1. log[a][j] \in Item
            BY <1>1 DEF Own
        <3> QED BY <3>1 DEF Item, Entry
    <2> HIDE DEF c, r, w
    <2>4. /\ p.sid = s.sid /\ p.epoch = s.epoch /\ p.sent = n /\ p.admitted = s.admitted
          /\ p.waiting = s.waiting
        BY <1>1 DEF Task
    <2>5. /\ y.sid = s.sid /\ y.epoch = s.epoch /\ y.sent = n /\ y.admitted = s.admitted
          /\ y.waiting = s.waiting \cup {w}
        BY <1>1 DEF Task
    <2> HIDE DEF p, y
    <2>6. /\ u.active = p /\ u.inflight = t.inflight \cup {r} /\ u.view = t.view
          /\ u.install = t.install
          /\ v.active = y /\ v.inflight = t.inflight /\ v.view = t.view /\ v.install = t.install
        BY <1>1 DEF Task
    <2> HIDE DEF u, v
    <2>7. CASE /\ c \subseteq s.admitted
               /\ task' = [task EXCEPT ![a] = u]
               /\ reif' = [reif EXCEPT ![a] = @ \cup {r}]
        <3>1. /\ task'[a] = u /\ reif'[a] = reif[a] \cup {r}
              /\ \A b \in Actor \ {a} : task'[b] = task[b] /\ reif'[b] = reif[b]
            BY <1>1, <2>7
        <3>2. Account(a, log[a], u, reif[a] \cup {r}, opened[a])
            <4> HIDE DEF t
            <4> QED BY <1>2, <2>1, <2>2, <2>3, <2>4, <2>6, <2>7, SealAccount DEF r
        <3> QED BY <2>1, <3>1, <3>2, OneAccount
    <2>8. CASE task' = [task EXCEPT ![a] = v] /\ UNCHANGED reif
        <3>1. task'[a] = v /\ \A b \in Actor \ {a} : task'[b] = task[b]
            BY <1>1, <2>8
        <3>2. Account(a, log[a], v, reif[a], opened[a])
            <4> HIDE DEF t
            <4> QED BY <1>2, <2>1, <2>2, <2>3, <2>5, <2>6, SealAccount DEF w
        <3> QED BY <2>1, <2>8, <3>1, <3>2, OneAccount
    <2> QED BY <2>1, <2>7, <2>8
<1> QED BY <1>3, <1>4, <1>5

(***************************************************************************)
(* Histories.                                                              *)
(***************************************************************************)

\* A longer history is causally closed if its new entry follows what it holds.
LEMMA AppendCausal ==
    ASSUME TypeOK, CausalHistory, NEW a \in Actor, NEW x \in Item,
           log' = [log EXCEPT ![a] = Append(@, x)],
           \A d \in x.entry.deps : Holds(log[a], x.entry.sid, d)
    PROVE  CausalHistory'
<1> DEFINE h == log[a]
           g == Append(h, x)
<1>1. log \in [Actor -> Seq(Item)] /\ h \in Seq(Item)
    BY DEF TypeOK
<1>2. log'[a] = g /\ \A b \in Actor \ {a} : log'[b] = log[b]
    BY <1>1
<1>3. /\ Len(h) \in Nat /\ g[Len(h) + 1] = x
      /\ \A i \in 1 .. Len(h) : g[i] = h[i]
      /\ 1 .. Len(g) = 1 .. Len(h) \cup {Len(h) + 1}
    BY <1>1, AppendHistory
<1> HIDE DEF g
<1> DEFINE Follows(f, i, d) ==
              \E j \in 1 .. i - 1 :
                  f[j].entry.sid = f[i].entry.sid /\ f[j].entry.by = d.by /\ f[j].entry.n = d.n
<1>4. ASSUME NEW i \in 1 .. Len(g), NEW d \in g[i].entry.deps PROVE Follows(g, i, d)
    <2>1. CASE i \in 1 .. Len(h)
        <3>1. g[i] = h[i] /\ \A j \in 1 .. i - 1 : j \in 1 .. Len(h) /\ g[j] = h[j]
            BY <1>3, <2>1
        <3>2. Follows(h, i, d)
            BY <2>1, <3>1 DEF CausalHistory
        <3> QED BY <3>1, <3>2
    <2>2. CASE i = Len(h) + 1
        <3>1. 1 .. i - 1 = 1 .. Len(h) /\ g[i] = x
            BY <1>3, <2>2
        <3>2. Holds(h, x.entry.sid, d)
            BY <3>1
        <3> QED BY <1>3, <3>1, <3>2 DEF Holds
    <2> QED BY <1>3, <2>1, <2>2
<1>5. \A b \in Actor \ {a} : \A i \in 1 .. Len(log'[b]) :
        \A d \in log'[b][i].entry.deps : Follows(log'[b], i, d)
    BY <1>2 DEF CausalHistory
<1>6. ASSUME NEW b \in Actor, NEW i \in 1 .. Len(log'[b]), NEW d \in log'[b][i].entry.deps
      PROVE  Follows(log'[b], i, d)
    <2>1. CASE b = a
        <3>1. log'[b] = g
            BY <1>2, <2>1
        <3>2. i \in 1 .. Len(g) /\ d \in g[i].entry.deps
            BY <3>1
        <3>3. Follows(g, i, d)
            BY <1>4, <3>2
        <3> QED BY <3>1, <3>3
    <2>2. CASE b # a
        BY <1>5, <2>2
    <2> QED BY <2>1, <2>2
<1> QED BY <1>6 DEF CausalHistory

\* A longer history keeps what it holds first, if its new entry is its own or
\* the peer's.
LEMMA AppendHeldFirst ==
    ASSUME TypeOK, OwnHeldFirst, NEW a \in Actor, NEW x \in Item,
           log' = [log EXCEPT ![a] = Append(@, x)],
           x.entry.by = a \/ x.entry \in Entries(log[x.entry.by])
    PROVE  OwnHeldFirst'
<1> DEFINE h == log[a]
           g == Append(h, x)
<1>1. log \in [Actor -> Seq(Item)] /\ h \in Seq(Item)
    BY DEF TypeOK
<1>2. log'[a] = g /\ \A b \in Actor \ {a} : log'[b] = log[b]
    BY <1>1
<1>3. /\ Len(h) \in Nat /\ g[Len(h) + 1] = x
      /\ \A i \in 1 .. Len(h) : g[i] = h[i]
      /\ 1 .. Len(g) = 1 .. Len(h) \cup {Len(h) + 1}
    BY <1>1, AppendHistory
<1> HIDE DEF g
<1>4. Entries(g) = Entries(h) \cup {x.entry}
    BY <1>3, SMTT(60) DEF Entries
<1>5. \A b \in Actor : Entries(log[b]) \subseteq Entries(log'[b])
    BY <1>2, <1>4
<1>6. \A b \in Actor : \A e \in Entries(log'[b]) : e.by \in Actor => e \in Entries(log'[e.by])
    <2> SUFFICES ASSUME NEW b \in Actor, NEW e \in Entries(log'[b]), e.by \in Actor
                 PROVE  e \in Entries(log'[e.by])
        OBVIOUS
    <2>1. \A c \in Actor : \A f \in Entries(log[c]) : f.by \in Actor => f \in Entries(log[f.by])
        <3> SUFFICES ASSUME NEW c \in Actor, NEW f \in Entries(log[c]), f.by \in Actor
                     PROVE  f \in Entries(log[f.by])
            OBVIOUS
        <3>1. PICK i \in 1 .. Len(log[c]) : f = log[c][i].entry
            BY DEF Entries
        <3> QED BY <3>1 DEF OwnHeldFirst
    <2>2. CASE e \in Entries(log[b])
        BY <1>5, <2>1, <2>2
    <2>3. CASE b = a /\ e = x.entry
        BY <1>2, <1>4, <1>5, <2>3
    <2> QED BY <1>2, <1>4, <2>2, <2>3
<1>7. ASSUME NEW c \in Actor, NEW b \in Actor, NEW i \in 1 .. Len(log'[b]), log'[b][i].entry.by = c
      PROVE  log'[b][i].entry \in Entries(log'[c])
    <2>1. log'[b][i].entry \in Entries(log'[b])
        BY DEF Entries
    <2> QED BY <1>6, <1>7, <2>1
<1> QED BY <1>7 DEF OwnHeldFirst

\* Commits, drains and replications keep histories closed.
LEMMA HistoryClosed ==
    ASSUME IInv, Accounts, OwnHeldFirst, CausalHistory, NEW a \in Actor,
           CommitDurable(a) \/ DrainSession(a) \/ \E live \in BOOLEAN : Replicate(a, live)
    PROVE  OwnHeldFirst' /\ CausalHistory'
<1>1. /\ TypeOK /\ log \in [Actor -> Seq(Item)] /\ Len(log[a]) \in Nat
      /\ reif \in [Actor -> SUBSET Reification]
    BY DEF IInv, TypeOK
<1>2. CASE CommitDurable(a)
    <2> DEFINE e == [by |-> a, sid |-> 0, n |-> Len(log[a]) + 1, deps |-> {}]
               x == [entry |-> e, live |-> FALSE]
    <2>1. log' = [log EXCEPT ![a] = Append(@, x)]
        BY <1>2 DEF CommitDurable, Append1
    <2>2. e \in Entry /\ e.deps = {} /\ e.by = a
        BY <1>1 DEF Entry
    <2> HIDE DEF e
    <2>3. x \in Item /\ x.entry = e
        BY <2>2 DEF Item
    <2> HIDE DEF x
    <2>4. \A d \in x.entry.deps : Holds(log[a], x.entry.sid, d)
        BY <2>2, <2>3
    <2> QED BY <1>1, <2>1, <2>2, <2>3, <2>4, AppendCausal, AppendHeldFirst
<1>3. CASE DrainSession(a)
    <2>1. PICK r \in reif[a] :
            Append1(a, [by |-> a, sid |-> r.sid, n |-> r.n, deps |-> r.deps], FALSE)
        BY <1>3 DEF DrainSession
    <2> DEFINE e == [by |-> a, sid |-> r.sid, n |-> r.n, deps |-> r.deps]
               x == [entry |-> e, live |-> FALSE]
    <2>2. log' = [log EXCEPT ![a] = Append(@, x)]
        BY <2>1 DEF Append1
    <2>3. e \in Entry /\ e.by = a /\ e.sid = r.sid /\ e.deps = r.deps
        BY <1>1 DEF Entry, Reification
    <2> HIDE DEF e
    <2>4. x \in Item /\ x.entry = e
        BY <2>3 DEF Item
    <2> HIDE DEF x
    <2>5. Account(a, log[a], task[a], reif[a], opened[a])
        BY DEF Accounts
    <2>6. r.sid = task[a].active.sid
        BY <2>5 DEF Account, Balanced
    <2>7. \A d \in r.deps : Holds(log[a], r.sid, d)
        BY <2>5, <2>6 DEF Account, Grounded
    <2> QED BY <1>1, <2>2, <2>3, <2>4, <2>7, AppendCausal, AppendHeldFirst
<1>4. ASSUME NEW live \in BOOLEAN, Replicate(a, live) PROVE OwnHeldFirst' /\ CausalHistory'
    <2> DEFINE b == Other(a)
               missing == {i \in 1 .. Len(log[b]) : log[b][i].entry \notin Entries(log[a])}
    <2>1. b \in Actor /\ Len(log[b]) \in Nat
        BY <1>1 DEF Other, Actor
    <2>2. PICK i \in missing : /\ \A k \in missing : i <= k
                               /\ Append1(a, log[b][i].entry, live)
        BY <1>4 DEF Replicate
    <2> HIDE DEF b
    <2> DEFINE e == log[b][i].entry
               x == [entry |-> e, live |-> live]
    <2>3. log' = [log EXCEPT ![a] = Append(@, x)]
        BY <2>2 DEF Append1
    <2>4. log[b][i] \in Item
        BY <1>1, <2>1, <2>2
    <2>5. x \in Item /\ x.entry = e /\ e.by \in Actor
        BY <2>4 DEF Item, Entry
    <2> HIDE DEF x
    <2>6. e \in Entries(log[e.by])
        BY <2>1, <2>2, <2>5 DEF OwnHeldFirst
    <2>7. \A d \in e.deps : Holds(log[a], e.sid, d)
        <3> SUFFICES ASSUME NEW d \in e.deps PROVE Holds(log[a], e.sid, d)
            OBVIOUS
        <3>1. PICK j \in 1 .. i - 1 : /\ log[b][j].entry.sid = e.sid /\ log[b][j].entry.by = d.by
                                      /\ log[b][j].entry.n = d.n
            BY <2>1, <2>2 DEF CausalHistory
        <3>2. j \in 1 .. Len(log[b]) /\ ~(i <= j)
            BY <2>1, <2>2
        <3>3. log[b][j].entry \in Entries(log[a])
            BY <2>2, <3>2
        <3> QED BY <3>1, <3>3 DEF Holds, Entries
    <2> QED BY <1>1, <2>3, <2>5, <2>6, <2>7, AppendCausal, AppendHeldFirst
<1> QED BY <1>2, <1>3, <1>4

(***************************************************************************)
(* The invariant holds initially and is preserved, one case per action.    *)
(***************************************************************************)

\* A room that has just been created owes nothing.
LEMMA InitHistory == ASSUME Init PROVE HistoryInv
<1>1. IdsNameEpochs
    BY InitNames
<1>2. Account(0, <<>>, FreshTask(<<>>), {}, {}) /\ Account(1, <<>>, FreshTask(<<>>), {}, {})
    <2> DEFINE t == FreshTask(<<>>)
    <2>1. Len(<<>>) = 0
        OBVIOUS
    <2>2. /\ t.view = 0 /\ t.inflight = {} /\ t.install.sid = 0
          /\ t.active.sid = 0 /\ t.active.admitted = {} /\ t.active.waiting = {}
        BY <2>1 DEF FreshTask, NoActive, NewActive, NoInstall
    <2> HIDE DEF t
    <2>3. \A a \in Actor : Own(a, <<>>) = {} /\ UnconfirmedIn(a, <<>>, t.view) = {}
        BY <2>1, <2>2 DEF Own, UnconfirmedIn
    <2>4. \A a \in Actor : /\ Balanced(a, <<>>, t, {}) /\ Grounded(<<>>, t, {})
                           /\ Placed(a, <<>>, t.active, {}) /\ Opened(a, <<>>, t.active, {})
        BY <2>2, <2>3 DEF Balanced, Grounded, Placed, Opened
    <2> QED BY <2>4 DEF Account, Actor, t
<1>3. \A a \in Actor : Account(a, log[a], task[a], reif[a], opened[a])
    BY <1>2 DEF Init, Actor
<1>4. \A a \in Actor : 1 .. Len(log[a]) = {}
    BY DEF Init
<1>5. OwnHeldFirst /\ CausalHistory
    BY <1>4 DEF OwnHeldFirst, CausalHistory
<1> QED BY <1>1, <1>3, <1>5 DEF HistoryInv

\* Every step keeps ids, obligations and histories in order.
LEMMA NextHistory == ASSUME IInv, HistoryInv, [Next]_vars PROVE HistoryInv'
<1>1. IdsNameEpochs /\ Accounts /\ OwnHeldFirst /\ CausalHistory
    BY DEF HistoryInv, Accounts
<1>2. IdsNameEpochs'
    BY <1>1, NextNames
<1>3. ASSUME UNCHANGED log PROVE OwnHeldFirst' /\ CausalHistory'
    BY <1>1, <1>3 DEF OwnHeldFirst, CausalHistory
<1>4. ASSUME Accounts', OwnHeldFirst' /\ CausalHistory' PROVE HistoryInv'
    BY <1>2, <1>4 DEF HistoryInv, Accounts
<1>5. ASSUME NEW a \in Actor,
             CommitDurable(a) \/ DrainSession(a) \/ \E live \in BOOLEAN : Replicate(a, live)
      PROVE  HistoryInv'
    BY <1>1, <1>4, <1>5, HistoryAccounts, HistoryClosed
<1>6. ASSUME NEW a \in Actor, AdvanceDurable(a) PROVE HistoryInv'
    <2>1. UNCHANGED log
        BY <1>6 DEF AdvanceDurable
    <2> QED BY <1>1, <1>3, <1>4, <1>6, <2>1, AdvanceAccounts
<1>7. ASSUME NEW a \in Actor,
             \/ StartPeer(a)
             \/ \E sid \in Sid : RecvOffer(a, sid) \/ RecvAnswer(a, sid)
             \/ \E sid \in Sid, n \in 1 .. MaxEvents : RecvEvent(a, sid, n)
      PROVE  HistoryInv'
    <2>1. UNCHANGED log
        BY <1>7 DEF StartPeer, RecvOffer, RecvAnswer, RecvEvent, Reopen
    <2> QED BY <1>1, <1>3, <1>4, <1>7, <2>1, NegotiationAccounts
<1>8. ASSUME NEW a \in Actor, PersistFloor(a) \/ InstallSession(a) PROVE HistoryInv'
    <2>1. UNCHANGED log
        BY <1>8 DEF PersistFloor, InstallSession
    <2> QED BY <1>1, <1>3, <1>4, <1>8, <2>1, InstallAccounts
<1>9. ASSUME NEW a \in Actor, LocalEdit(a) \/ ExpireLease(a) PROVE HistoryInv'
    <2>1. UNCHANGED log
        BY <1>9 DEF LocalEdit, ExpireLease, Reopen
    <2> QED BY <1>1, <1>3, <1>4, <1>9, <2>1, EditAccounts
<1>10. ASSUME NEW a \in Actor, EndGeneration(a) \/ Crash(a) PROVE HistoryInv'
    <2>1. Reopen(a, net)
        BY <1>10 DEF EndGeneration, Crash
    <2>2. UNCHANGED log
        BY <2>1 DEF Reopen
    <2> QED BY <1>1, <1>3, <1>4, <2>1, <2>2, ReopenAccounts
<1>11. ASSUME UNCHANGED <<log, task, reif, opened>> PROVE HistoryInv'
    <2>1. Accounts'
        BY <1>1, <1>11 DEF Accounts
    <2> QED BY <1>3, <1>4, <1>11, <2>1
<1>12. CASE UNCHANGED vars
    BY <1>11, <1>12 DEF vars
<1>13. ASSUME NEW m \in net, Lose(m) PROVE HistoryInv'
    BY <1>11, <1>13 DEF Lose
<1> QED BY <1>5, <1>6, <1>7, <1>8, <1>9, <1>10, <1>12, <1>13 DEF Next

\* Ids, obligations and histories are in order in every behaviour.
THEOREM HistoryInvariant == Spec => []HistoryInv
<1>1. Init => HistoryInv
    BY InitHistory
<1>2. IInv /\ HistoryInv /\ [Next]_vars => HistoryInv'
    BY NextHistory
<1> QED BY <1>1, <1>2, InductiveInvariant, PTL DEF Spec

\* For every bound, two placements in one session agree on its epoch: an
\* accept_offer installs the epoch its carrier names, and an Answer the epoch
\* of the pending offer it names.
THEOREM SessionsAgree == Spec => []SessionNamesOneEpoch
<1>1. HistoryInv => SessionNamesOneEpoch
    <2> SUFFICES ASSUME HistoryInv, NEW a \in Actor, NEW b \in Actor,
                        NEW x \in opened[a], NEW y \in opened[b], x[2] = y[2]
                 PROVE  x[1] = y[1]
        BY DEF SessionNamesOneEpoch
    <2>1. <<x[2], x[1]>> \in Names /\ <<y[2], y[1]>> \in Names
        BY DEF Names, OpenedNames
    <2> QED BY <2>1 DEF HistoryInv, IdsNameEpochs
<1> QED BY <1>1, HistoryInvariant, PTL

\* For every bound, the in-flight set is what the worker still owes the task:
\* no renewal replaces a session under its obligations, and every confirmation
\* finds the session it belongs to.
THEOREM ObligationsAreKept == Spec => []NoAbandonedObligation
<1>1. IInv /\ HistoryInv => NoAbandonedObligation
    <2> SUFFICES ASSUME IInv, HistoryInv, NEW a \in Actor
                 PROVE  /\ task[a].inflight = reif[a] \cup Unconfirmed(a)
                        /\ \A r \in task[a].inflight : r.sid = task[a].active.sid
                        /\ LocalWait(task[a]) => task[a].active.sid # 0
        BY DEF NoAbandonedObligation
    <2>1. Balanced(a, log[a], task[a], reif[a])
        BY DEF HistoryInv, Account
    <2>2. task[a].view \in Nat /\ Len(log[a]) \in Nat
        <3>1. task[a] \in Task /\ log[a] \in Seq(Item)
            BY DEF IInv, TypeOK
        <3> QED BY <3>1 DEF Task
    <2>3. UnconfirmedIn(a, log[a], task[a].view) = Unconfirmed(a)
        <3> DEFINE own(j) == log[a][j].entry.by = a /\ log[a][j].entry.sid # 0
                   later == task[a].view + 1 .. Len(log[a])
        <3>1. \A j \in later : j \in Own(a, log[a]) <=> own(j)
            BY <2>2 DEF Own
        <3>2. {j \in later : j \in Own(a, log[a])} = {j \in later : own(j)}
            BY <3>1
        <3> QED BY <3>2 DEF UnconfirmedIn, Unconfirmed, ReifyOf
    <2> QED BY <2>1, <2>3 DEF Balanced, LocalWait
<1> QED BY <1>1, HistoryInvariant, InductiveInvariant, PTL

\* For every bound, both durable histories are causally closed, in whatever
\* order drains, live records and repair frames built them.
THEOREM HistoriesAreClosed == Spec => []CausalHistory
<1>1. HistoryInv => CausalHistory
    BY DEF HistoryInv
<1> QED BY <1>1, HistoryInvariant, PTL

(***************************************************************************)
(* The register of epochs.                                                 *)
(***************************************************************************)

\* The write of the floor is a Raise of the register, or changes neither floor
\* nor openings.
LEMMA PersistIsRaise ==
    ASSUME IInv, NEW a \in Actor, PersistFloor(a)
    PROVE  Epochs!Raise(a) \/ UNCHANGED <<store, opened>>
<1>1. UNCHANGED opened
    BY DEF PersistFloor
<1>2. \/ UNCHANGED store
      \/ /\ task[a].install.sid # 0 /\ ~task[a].install.durable
         /\ store' = [store EXCEPT ![a] = task[a].install.epoch]
    BY DEF PersistFloor
<1>3. /\ store \in [Actor -> Nat] /\ task[a].install.epoch \in Nat
      /\ Ledger(task[a], store[a])
    BY DEF IInv, TypeOK, Task
<1>4. CASE store' = [store EXCEPT ![a] = task[a].install.epoch]
           /\ store[a] < task[a].install.epoch
    <2>1. store'[a] = task[a].install.epoch
        BY <1>3, <1>4
    <2>2. store'[a] > store[a] /\ store' = [store EXCEPT ![a] = store'[a]]
        BY <1>3, <1>4, <2>1
    <2> QED BY <1>1, <2>2 DEF Epochs!Raise
<1> QED BY <1>1, <1>2, <1>3, <1>4 DEF Ledger

\* The activation is an Open of the register: the epoch is the floor, all that
\* were opened before lie below it, and the session has no other epoch.
LEMMA InstallIsOpen ==
    ASSUME IInv, SessionNamesOneEpoch', NEW a \in Actor, InstallSession(a)
    PROVE  Epochs!Open(a)
<1> DEFINE i == task[a].install
<1>1. /\ i.sid # 0 /\ i.durable
      /\ opened' = [opened EXCEPT ![a] = @ \cup {<<i.epoch, i.sid>>}]
      /\ UNCHANGED store
    BY DEF InstallSession
<1>2. /\ task[a] \in Task /\ Ledger(task[a], store[a])
      /\ store \in [Actor -> Nat] /\ opened \in [Actor -> SUBSET (Epoch \X Sid)]
    BY DEF IInv, TypeOK
<1>3. i.sid \in Sid /\ i.epoch = store[a] /\ i.epoch > 0
    BY <1>1, <1>2 DEF Task, Ledger, Sid
<1>4. \A x \in opened[a] : x[1] < store[a]
    BY <1>1 DEF IInv, OpenedBelowFloor
<1> HIDE DEF i
<1>5. /\ <<i.epoch, i.sid>> \in opened'[a]
      /\ \A b \in Actor : opened[b] \subseteq opened'[b]
    BY <1>1, <1>2
<1>6. ASSUME NEW b \in Actor, NEW x \in opened[b], x[2] = i.sid
      PROVE  x[1] = store[a]
    BY <1>3, <1>5, <1>6 DEF SessionNamesOneEpoch
<1> QED BY <1>1, <1>3, <1>4, <1>6 DEF Epochs!Open

\* For every bound and whatever crashes, losses and duplicates happen, the two
\* session tasks and their stores implement the register of epochs.
THEOREM EpochRegisterImplemented == Spec => ImplementsEpochRegister
<1>1. Init => Epochs!Init
    BY DEF Init, Epochs!Init
<1>2. IInv /\ SessionNamesOneEpoch' /\ [Next]_vars => [Epochs!Next]_(Epochs!vars)
    <2> SUFFICES ASSUME IInv, SessionNamesOneEpoch', [Next]_vars
                 PROVE  Epochs!Next \/ UNCHANGED Epochs!vars
        OBVIOUS
    <2>1. CASE Quiet
        BY <2>1 DEF Quiet, Epochs!vars
    <2>2. ASSUME NEW a \in Actor, PersistFloor(a)
          PROVE  Epochs!Next \/ UNCHANGED Epochs!vars
        BY <2>2, PersistIsRaise DEF Epochs!Next, Epochs!vars
    <2>3. ASSUME NEW a \in Actor, InstallSession(a)
          PROVE  Epochs!Next
        BY <2>3, InstallIsOpen DEF Epochs!Next
    <2> QED BY <2>1, <2>2, <2>3, StepKinds
<1> QED BY <1>1, <1>2, InductiveInvariant, SessionsAgree, PTL
        DEF Spec, ImplementsEpochRegister, Epochs!Spec

(***************************************************************************)
(* A session that was left, and an Event that was lost with it.            *)
(***************************************************************************)

\* A step that keeps the session keeps every waiting Event that follows one the
\* history does not hold.
Onward(h, t, u) ==
    /\ u.active.sid = t.active.sid
    /\ \A w \in t.active.waiting :
          w \in u.active.waiting \/ \A d \in w.deps : Holds(h, t.active.sid, d)

\* What no account sees keeps the session and its wait map.
LEMMA UnseenOnward ==
    ASSUME IInv, NEW a \in Actor, NEW b \in Actor, Unseen(b)
    PROVE  Onward(log[a], task[a], task'[a])
<1>1. PICK u : SameAccount(task[b], u) /\ task' = [task EXCEPT ![b] = u]
    BY DEF Unseen
<1>2. task'[b] = u /\ (a # b => task'[a] = task[a])
    BY <1>1 DEF IInv, TypeOK
<1> QED BY <1>1, <1>2 DEF SameAccount, Onward

\* A local edit adds to the wait map.
LEMMA SealOnward ==
    ASSUME IInv, NEW a \in Actor, LocalEdit(a)
    PROVE  Onward(log[a], task[a], task'[a]) \/ Reopen(a, net)
<1> DEFINE t == task[a]
           s == t.active
           n == s.sent + 1
           c == Context(a, s)
           r == Reify(s.sid, n, c)
           w == [n |-> n, deps |-> c]
           p == [s EXCEPT !.sent = n]
           y == [p EXCEPT !.waiting = @ \cup {w}]
           u == [t EXCEPT !.active = p, !.inflight = @ \cup {r}]
           v == [t EXCEPT !.active = y]
           sealed == [t EXCEPT !.active.sent = n]
           put == [sealed EXCEPT !.inflight = @ \cup {r}]
           keep == [sealed EXCEPT !.active.waiting = @ \cup {w}]
<1>1. task \in [Actor -> Task] /\ t \in Task
    BY DEF IInv, TypeOK
<1>2. put = u /\ keep = v
    BY <1>1 DEF Task
<1>3. \/ task' = [task EXCEPT ![a] = put]
      \/ task' = [task EXCEPT ![a] = keep]
      \/ Reopen(a, net)
    BY DEF LocalEdit
<1> HIDE DEF put, keep, c, r, w
<1>4. p.sid = s.sid /\ p.waiting = s.waiting
    BY <1>1 DEF Task
<1>5. y.sid = s.sid /\ y.waiting = s.waiting \cup {w}
    BY <1>1 DEF Task
<1> HIDE DEF p, y
<1>6. u.active = p /\ v.active = y
    BY <1>1 DEF Task
<1> HIDE DEF u, v
<1>7. Reopen(a, net) \/ task'[a] = u \/ task'[a] = v
    BY <1>1, <1>2, <1>3
<1> QED BY <1>4, <1>5, <1>6, <1>7 DEF Onward

\* A durable advance admits the Event it is told of, which the history holds, so
\* that what leaves the wait map follows only Events the history holds.
LEMMA AdvanceOnward ==
    ASSUME IInv, Accounts, NEW a \in Actor, AdvanceDurable(a)
    PROVE  Onward(log[a], task[a], task'[a])
<1> DEFINE t == task[a]
           h == log[a]
           k == t.view + 1
           item == h[k]
           e == item.entry
           d == DotOf(e)
           seen == Seen(a, t, item)
           v == [seen EXCEPT !.view = @ + 1]
           u == StartReadyRenewals(a, v)
           m == Admit(t, d)
           x == [m EXCEPT !.inflight = @ \ {ReifyOf(e)}]
           ready == Ready(t.active, d)
<1>1. /\ item \in Item /\ k \in 1 .. Len(h) /\ t \in Task
      /\ Good(a, v) /\ v.active = seen.active
      /\ Become(a, u, net, {})
    BY AdvanceShape
<1>2. SameSession(v, u)
    <2> HIDE DEF v
    <2>1. v \in WideTask /\ TypeOK
        BY <1>1 DEF Good, IInv
    <2> QED BY <2>1, BeginSame
<1>3. \A z \in t.active.admitted : Holds(h, t.active.sid, z)
    BY DEF Accounts, Account, Grounded
<1>4. e.sid = t.active.sid => Holds(h, t.active.sid, d)
    BY <1>1 DEF Holds, DotOf
<1>5. /\ m.active.sid = t.active.sid
      /\ m.active.waiting = t.active.waiting \ ready
      /\ m = [t EXCEPT !.active = m.active, !.inflight = m.inflight]
    BY <1>1, AdmitFacts, TaskIsWide, ZenonT(60)
<1>6. \A w \in ready : w.deps \subseteq t.active.admitted \cup {d}
    BY DEF Ready
<1>7. seen = t \/ (e.sid = t.active.sid /\ (seen = m \/ seen = x))
    BY DEF Seen, ConfirmLocal, Observe, DotOf, ReifyOf
<1> HIDE DEF m, t, d, e, ready
<1>8. x.active = m.active
    BY <1>1, <1>5 DEF Task
<1> HIDE DEF x, v, u, seen, h
<1>9. Onward(h, t, v)
    BY <1>1, <1>3, <1>4, <1>5, <1>6, <1>7, <1>8 DEF Onward
<1>10. task'[a] = u
    BY <1>1 DEF Become, IInv, TypeOK
<1>11. u.active = v.active
    BY <1>2 DEF SameSession
<1> QED BY <1>9, <1>10, <1>11 DEF Onward, t, h

\* Between its opening and the next install, or the end of its generation, a
\* session goes on.
LEMMA TaskGoesOn ==
    ASSUME IInv, HistoryInv, [Next]_vars, NEW a \in Actor
    PROVE  \/ task'[a] = FreshTask(log[a])
           \/ InstallSession(a)
           \/ Onward(log[a], task[a], task'[a])
<1> DEFINE Done == \/ task'[a] = FreshTask(log[a])
                   \/ InstallSession(a)
                   \/ Onward(log[a], task[a], task'[a])
<1>1. task \in [Actor -> Task] /\ Accounts
    BY DEF IInv, TypeOK, HistoryInv, Accounts
<1>2. ASSUME task'[a] = task[a] PROVE Done
    BY <1>2 DEF Onward
<1>3. ASSUME NEW b \in Actor, NEW in, Reopen(b, in) PROVE Done
    <2>1. task' = [task EXCEPT ![b] = FreshTask(log[b])]
        BY <1>3 DEF Reopen
    <2>2. task'[a] = IF a = b THEN FreshTask(log[a]) ELSE task[a]
        BY <1>1, <2>1
    <2> QED BY <1>2, <2>2 DEF Done
<1>4. ASSUME NEW b \in Actor, Unseen(b) PROVE Done
    BY <1>4, UnseenOnward DEF Done
<1> HIDE DEF Done
<1>5. ASSUME NEW b \in Actor,
             CommitDurable(b) \/ DrainSession(b) \/ \E live \in BOOLEAN : Replicate(b, live)
      PROVE  Done
    <2>1. UNCHANGED task
        BY <1>5 DEF CommitDurable, DrainSession, Replicate
    <2> QED BY <1>2, <2>1
<1>6. ASSUME NEW b \in Actor, AdvanceDurable(b) PROVE Done
    <2>1. CASE a = b
        BY <1>1, <1>6, <2>1, AdvanceOnward DEF Done
    <2>2. CASE a # b
        <3>1. \E u : task' = [task EXCEPT ![b] = u]
            BY <1>6 DEF AdvanceDurable, Become
        <3> QED BY <1>1, <1>2, <2>2, <3>1
    <2> QED BY <2>1, <2>2
<1>7. ASSUME NEW b \in Actor,
             \/ StartPeer(b)
             \/ \E sid \in Sid : RecvOffer(b, sid) \/ RecvAnswer(b, sid)
             \/ \E sid \in Sid, n \in 1 .. MaxEvents : RecvEvent(b, sid, n)
      PROVE  Done
    BY <1>1, <1>3, <1>4, <1>7, NegotiationUnseen
<1>8. ASSUME NEW b \in Actor, PersistFloor(b) \/ ExpireLease(b) PROVE Done
    BY <1>1, <1>4, <1>8, PersistUnseen, LeaseUnseen
<1>9. ASSUME NEW b \in Actor, InstallSession(b) PROVE Done
    <2>1. \E u : task' = [task EXCEPT ![b] = u]
        BY <1>9 DEF InstallSession
    <2>2. a # b => task'[a] = task[a]
        BY <1>1, <2>1
    <2> QED BY <1>2, <1>9, <2>2 DEF Done
<1>10. ASSUME NEW b \in Actor, LocalEdit(b) PROVE Done
    <2>1. CASE a = b
        BY <1>3, <1>10, <2>1, SealOnward DEF Done
    <2>2. CASE a # b
        <3>1. \E u : task' = [task EXCEPT ![b] = u]
            BY <1>10 DEF LocalEdit, Reopen
        <3> QED BY <1>1, <1>2, <2>2, <3>1
    <2> QED BY <2>1, <2>2
<1>11. ASSUME NEW b \in Actor, EndGeneration(b) \/ Crash(b) PROVE Done
    BY <1>3, <1>11 DEF EndGeneration, Crash
<1>12. ASSUME NEW m \in net, Lose(m) PROVE Done
    BY <1>2, <1>12 DEF Lose
<1>13. ASSUME UNCHANGED vars PROVE Done
    BY <1>2, <1>13 DEF vars
<1>14. Done
    BY <1>5, <1>6, <1>7, <1>8, <1>9, <1>10, <1>11, <1>12, <1>13 DEF Next
<1> QED BY <1>14 DEF Done

\* An Event in a history was in one, or its author drains it from the session
\* that the author is in.
LEMMA HistoryOfEvents ==
    ASSUME IInv, HistoryInv, [Next]_vars, NEW b \in Actor, NEW i \in 1 .. Len(log'[b]),
           log'[b][i].entry.sid # 0
    PROVE  LET e == log'[b][i].entry
           IN  \/ \E c \in Actor : \E j \in 1 .. Len(log[c]) : log[c][j].entry = e
               \/ e.by = b /\ e.sid = task[b].active.sid
<1> DEFINE e == log'[b][i].entry
           Done == \/ \E c \in Actor : \E j \in 1 .. Len(log[c]) : log[c][j].entry = e
                   \/ e.by = b /\ e.sid = task[b].active.sid
<1>1. log \in [Actor -> Seq(Item)]
    BY DEF IInv, TypeOK
<1>2. ASSUME log'[b] = log[b] PROVE Done
    BY <1>2
<1>3. ASSUME NEW c \in Actor, NEW x, log' = [log EXCEPT ![c] = Append(@, x)], b # c \/ x.entry # e
      PROVE  Done
    <2>1. b # c => log'[b] = log[b]
        BY <1>1, <1>3
    <2>2. b = c => log'[b] = Append(log[b], x)
        BY <1>1, <1>3
    <2>3. CASE b = c
        <3>1. log[b] \in Seq(Item) /\ log'[b] = Append(log[b], x)
            BY <1>1, <2>2, <2>3
        <3>2. /\ Len(log[b]) \in Nat /\ Len(log'[b]) = Len(log[b]) + 1
              /\ log'[b][Len(log[b]) + 1] = x
              /\ \A j \in 1 .. Len(log[b]) : log'[b][j] = log[b][j]
            BY <3>1
        <3>3. i # Len(log[b]) + 1
            BY <1>3, <2>3, <3>2
        <3>4. i \in 1 .. Len(log[b])
            BY <3>2, <3>3
        <3> QED BY <3>2, <3>4
    <2> QED BY <1>2, <2>1, <2>3
<1> HIDE DEF e, Done
<1>4. ASSUME NEW c \in Actor, CommitDurable(c) PROVE Done
    <2> DEFINE x == [entry |-> [by |-> c, sid |-> 0, n |-> Len(log[c]) + 1, deps |-> {}],
                     live |-> FALSE]
    <2>1. log' = [log EXCEPT ![c] = Append(@, x)]
        BY <1>4 DEF CommitDurable, Append1
    <2>2. x.entry # e
        BY DEF e
    <2> QED BY <1>3, <2>1, <2>2
<1>5. ASSUME NEW c \in Actor, DrainSession(c) PROVE Done
    <2>1. PICK r \in reif[c] :
             Append1(c, [by |-> c, sid |-> r.sid, n |-> r.n, deps |-> r.deps], FALSE)
        BY <1>5 DEF DrainSession
    <2> DEFINE g == [by |-> c, sid |-> r.sid, n |-> r.n, deps |-> r.deps]
               x == [entry |-> g, live |-> FALSE]
    <2>2. log' = [log EXCEPT ![c] = Append(@, x)]
        BY <2>1 DEF Append1
    <2>3. g.by = c /\ g.sid = task[c].active.sid
        BY <2>1 DEF HistoryInv, Account, Balanced
    <2>4. x.entry = g
        OBVIOUS
    <2> HIDE DEF g, x
    <2>5. CASE b = c /\ x.entry = e
        BY <2>3, <2>4, <2>5 DEF Done
    <2>6. CASE b # c \/ x.entry # e
        BY <1>3, <2>2, <2>6
    <2> QED BY <2>5, <2>6
<1>6. ASSUME NEW c \in Actor, NEW live \in BOOLEAN, Replicate(c, live) PROVE Done
    <2>1. PICK j \in 1 .. Len(log[Other(c)]) : Append1(c, log[Other(c)][j].entry, live)
        BY <1>6 DEF Replicate
    <2> DEFINE g == log[Other(c)][j].entry
               x == [entry |-> g, live |-> live]
    <2>2. log' = [log EXCEPT ![c] = Append(@, x)]
        BY <2>1 DEF Append1
    <2>3. Other(c) \in Actor
        BY DEF Other, Actor
    <2>4. x.entry = g
        OBVIOUS
    <2> HIDE DEF x
    <2>5. CASE x.entry = e
        BY <2>3, <2>4, <2>5 DEF Done
    <2>6. CASE x.entry # e
        BY <1>3, <2>2, <2>6
    <2> QED BY <2>5, <2>6
<1>7. ASSUME UNCHANGED log PROVE Done
    BY <1>2, <1>7
<1>8. ASSUME NEW c \in Actor, AdvanceDurable(c) PROVE Done
    BY <1>7, <1>8 DEF AdvanceDurable
<1>9. ASSUME NEW c \in Actor,
             \/ StartPeer(c)
             \/ \E sid \in Sid : RecvOffer(c, sid) \/ RecvAnswer(c, sid)
             \/ \E sid \in Sid, n \in 1 .. MaxEvents : RecvEvent(c, sid, n)
      PROVE  Done
    BY <1>7, <1>9 DEF StartPeer, RecvOffer, RecvAnswer, RecvEvent, Reopen
<1>10. ASSUME NEW c \in Actor, PersistFloor(c) \/ InstallSession(c) PROVE Done
    BY <1>7, <1>10 DEF PersistFloor, InstallSession
<1>11. ASSUME NEW c \in Actor, LocalEdit(c) \/ ExpireLease(c) \/ EndGeneration(c) \/ Crash(c)
       PROVE  Done
    BY <1>7, <1>11 DEF LocalEdit, ExpireLease, EndGeneration, Crash, Reopen
<1>12. ASSUME NEW m \in net, Lose(m) PROVE Done
    BY <1>7, <1>12 DEF Lose
<1>13. ASSUME UNCHANGED vars PROVE Done
    BY <1>7, <1>13 DEF vars
<1>14. Done
    BY <1>4, <1>5, <1>6, <1>8, <1>9, <1>10, <1>11, <1>12, <1>13 DEF Next
<1> QED BY <1>14 DEF Done, e

\* A step of a placement never brings it back to a session it has left.
LEMMA LeftStaysLeft ==
    ASSUME IInv, HistoryInv, [Next]_vars, NEW a \in Actor, NEW sid \in Sid, HasLeft(a, sid)
    PROVE  HasLeft(a, sid)'
<1>1. PICK x \in opened[a] : x[2] = sid
    BY DEF HasLeft
<1>2. task[a].active.sid # sid /\ sid # 0
    BY DEF HasLeft, Sid
<1>3. opened[a] \subseteq opened'[a]
    <2>1. CASE Quiet
        BY <2>1 DEF Quiet
    <2>2. ASSUME NEW b \in Actor, PersistFloor(b) PROVE opened[a] \subseteq opened'[a]
        BY <2>2 DEF PersistFloor
    <2>3. ASSUME NEW b \in Actor, InstallSession(b) PROVE opened[a] \subseteq opened'[a]
        <3>1. /\ opened \in [Actor -> SUBSET (Epoch \X Sid)]
              /\ \E z : opened' = [opened EXCEPT ![b] = @ \cup {z}]
            BY <2>3 DEF InstallSession, IInv, TypeOK
        <3> QED BY <3>1
    <2> QED BY <2>1, <2>2, <2>3, StepKinds
<1>4. task'[a].active.sid # sid
    <2>1. CASE task'[a] = FreshTask(log[a])
        BY <1>2, <2>1 DEF FreshTask, NoActive, NewActive
    <2>2. CASE InstallSession(a)
        <3>1. task'[a].active.sid = task[a].install.sid
            <4> DEFINE i == task[a].install
                       u == [task[a] EXCEPT !.install = NoInstall, !.cache = i.epoch,
                                            !.active = NewActive(i.sid, i.epoch)]
            <4>1. task' = [task EXCEPT ![a] = u] /\ task \in [Actor -> Task] /\ task[a] \in Task
                BY <2>2 DEF InstallSession, IInv, TypeOK
            <4>2. u.active.sid = i.sid
                BY <4>1 DEF Task, NewActive
            <4> HIDE DEF u
            <4> QED BY <4>1, <4>2
        <3> QED BY <1>1, <2>2, <3>1, InstallIsFresh DEF HistoryInv
    <2>3. CASE Onward(log[a], task[a], task'[a])
        BY <1>2, <2>3 DEF Onward
    <2> QED BY <2>1, <2>2, <2>3, TaskGoesOn
<1> QED BY <1>1, <1>3, <1>4 DEF HasLeft

\* For every bound, a placement is never again in a session that it has left,
\* whatever crashes and whichever carriers of the session are still on the way.
THEOREM SessionsAreLeftForGood == Spec => LeftForGood
<1>1. IInv /\ HistoryInv /\ [Next]_vars
         => [\A a \in Actor, sid \in Sid : HasLeft(a, sid) => HasLeft(a, sid)']_vars
    BY LeftStaysLeft
<1> QED BY <1>1, InductiveInvariant, HistoryInvariant, PTL DEF Spec, LeftForGood

\* Only the end of its generation takes a stuck placement out of the session.
LEMMA StuckStep ==
    ASSUME IInv, HistoryInv, [Next]_vars, NEW a \in Actor, Stuck(a),
           task'[a] # FreshTask(log[a])
    PROVE  Stuck(a)' /\ task'[a].active.sid = task[a].active.sid
<1> DEFINE s == task[a].active
           Missing(d) ==
               \A b \in Actor : \A i \in 1 .. Len(log[b]) :
                  LET e == log[b][i].entry IN ~(e.sid = s.sid /\ e.by = d.by /\ e.n = d.n)
<1>1. PICK w \in s.waiting : \E d \in w.deps : HasLeft(d.by, s.sid) /\ Missing(d)
    BY DEF Stuck
<1>2. PICK d \in w.deps : HasLeft(d.by, s.sid) /\ Missing(d)
    BY <1>1
<1>3. task[a] \in Task /\ d.by \in Actor
    <2>1. task[a] \in Task
        BY DEF IInv, TypeOK
    <2>2. s.waiting \subseteq [n : 1 .. MaxEvents, deps : SUBSET Dot]
        BY <2>1 DEF Task
    <2>3. d \in Dot
        BY <1>1, <1>2, <2>2
    <2> QED BY <2>1, <2>3 DEF Dot
<1>4. Account(a, log[a], task[a], reif[a], opened[a])
    BY DEF HistoryInv
<1>5. s.sid \in Sid
    BY <1>1, <1>3, <1>4, RoomSessionAssumption DEF Account, Balanced, Task, Sid
<1>6. ~InstallSession(a)
    BY <1>1, <1>4 DEF InstallSession, Account, Balanced
<1>7. Onward(log[a], task[a], task'[a])
    BY <1>6, TaskGoesOn
<1>8. ~Holds(log[a], s.sid, d)
    BY <1>2 DEF Holds
<1>9. task'[a].active.sid = s.sid /\ w \in task'[a].active.waiting
    BY <1>1, <1>2, <1>7, <1>8 DEF Onward
<1>10. HasLeft(d.by, s.sid)'
    BY <1>2, <1>3, <1>5, <1>9, LeftStaysLeft
<1>11. ASSUME NEW b \in Actor, NEW i \in 1 .. Len(log'[b]), log'[b][i].entry.sid = s.sid,
              log'[b][i].entry.by = d.by, log'[b][i].entry.n = d.n
       PROVE  FALSE
    <2>1. log'[b][i].entry.sid # 0
        BY <1>5, <1>11 DEF Sid
    <2>2. ~\E c \in Actor : \E j \in 1 .. Len(log[c]) : log[c][j].entry = log'[b][i].entry
        BY <1>2, <1>11
    <2>3. b = d.by /\ s.sid = task[b].active.sid
        BY <1>11, <2>1, <2>2, HistoryOfEvents
    <2> QED BY <1>2, <2>3 DEF HasLeft
<1> QED BY <1>2, <1>9, <1>10, <1>11 DEF Stuck

\* For every bound, an Event made in sight of one that its author lost with the
\* session keeps its placement in that session until the generation ends.
THEOREM StuckStaysStuck == Spec => StuckIsForGood
<1>1. IInv /\ HistoryInv /\ [Next]_vars
         => [\A a \in Actor : Stuck(a) => \/ Stuck(a)' /\ task'[a].active.sid = task[a].active.sid
                                        \/ task'[a] = FreshTask(log[a])]_vars
    BY StuckStep
<1> QED BY <1>1, InductiveInvariant, HistoryInvariant, PTL DEF Spec, StuckIsForGood

=============================================================================
